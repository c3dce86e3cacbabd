SPECIFICATION Spec
CONSTANTS
  Signers = {"signer", "retired"}
  SignerKey = "signer"
  WrongKey = "wrong"
  ChainId = 16
  Verifier = "collector"
  Aggregators <- OneAggregator
  OldTopics <- MCOldTopics
  IndexerCounts = {9, 10}
  SubgraphCounts = {500000, 500001}
  Polls = 1
  PageMax = 2
  MaxTopic = 3
  MaxChanges = 0
INVARIANT LatestIsLatest
CHECK_DEADLOCK FALSE
