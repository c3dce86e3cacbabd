SPECIFICATION Spec
CONSTANTS
  Envs <- MCEnvs
  Chains = {26}
  Books <- MCBooks
  MaxChanges = 2
  Urls <- OwnUrls
  Stranger <- MCStranger
INVARIANT ReadyWorks
CHECK_DEADLOCK FALSE
