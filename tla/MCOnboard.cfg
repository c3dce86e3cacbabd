SPECIFICATION Spec
CONSTANTS
  Envs <- MCEnvs
  Chains = {26}
  Books <- MCBooks
  MaxChanges = 2
  Urls <- MCUrls
  Stranger <- MCStranger
INVARIANTS OnboardTypeOK UrlCheckExact BlockIsVouched SettledBlockWorks NoFalseRefusal KeysKept OneFetch RenderAgrees SettlesInAgreement
CHECK_DEADLOCK FALSE
