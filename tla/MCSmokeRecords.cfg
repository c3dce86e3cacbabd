SPECIFICATION FairSpec
CONSTANTS
  Signers = {"signer", "retired"}
  SignerKey = "signer"
  WrongKey = "wrong"
  ChainId = 16
  Verifier = "collector"
  Aggregators <- OneAggregator
  OldTopics <- MCOldTopics
  IndexerCounts = {10}
  SubgraphCounts = {500}
  Polls = 2
  PageMax = 2
  MaxTopic = 2
  MaxChanges = 2
INVARIANTS TypeOK SignerIsFresh
PROPERTIES EndsInTime Terminates
CHECK_DEADLOCK FALSE
