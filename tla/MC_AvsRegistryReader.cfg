CONSTANTS
  o1 = o1
  o2 = o2
  NoStake = NoStake
  Latest = Latest
  c1 = c1
  OperatorOrder <- MCOperatorOrder
  InitialStakes <- MCInitialStakes
  Quorums = {0, 1}
  Stakes = {1, 2}
  MaxHead = 2
  BlockWidth = 1
  Callers = {c1}
  QuorumLists <- MCQuorumLists
  RpcMayFail = TRUE
SPECIFICATION Spec
INVARIANT TypeOK
INVARIANT CurrentReadsPinned
INVARIANT StakesFreshPerEntry
