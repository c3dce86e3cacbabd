SPECIFICATION Spec
CONSTANTS
  Signers = {"signer", "retired"}
  SignerKey = "signer"
  WrongKey = "wrong"
  ChainId = 16
  Verifier = "collector"
  Aggregators <- MCAggregators
  OldTopics <- MCOldTopics
  IndexerCounts = {9, 10}
  SubgraphCounts = {500000, 500001}
  Polls = 1
  PageMax = 2
  MaxTopic = 2
  MaxChanges = 1
INVARIANTS PassIsEvidence NoFalseAlarm
CHECK_DEADLOCK FALSE
