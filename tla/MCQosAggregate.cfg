SPECIFICATION Spec
CONSTANTS
  Attempts <- MCAttempts
  Queries <- MCQueries
  Times = {3, 9}
  MaxAdds = 2
INVARIANTS TypeOK RecordsMatchReference QueriesConserved FeesAgree RatesBounded
CHECK_DEADLOCK FALSE
