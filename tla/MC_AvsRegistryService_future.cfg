CONSTANTS
  o1 = o1
  o2 = o2
  c1 = c1
  NoStake = NoStake
  Latest = Latest
  OperatorOrder <- MCOperatorOrder
  InitialStakes <- MCInitialStakes
  QuorumLists <- MCQuorumLists
  Quorums = {0, 1}
  Stakes = {1, 2}
  MaxHead = 3
  BlockWidth = 2
  Callers = {c1}
  RpcMayFail = TRUE
  RetrieverMisaligned = FALSE
  FutureBlocks = TRUE
SPECIFICATION Spec
INVARIANT OperatorsViewMatchesChain
