CONSTANTS
  o1 = o1
  o2 = o2
  c1 = c1
  NoStake = NoStake
  Operators = {o1, o2}
  Quorums = {0, 1}
  Stakes = {1, 2}
  Callers = {c1}
  Methods = {"GetOperatorsAvsStateAtBlock", "GetQuorumsAvsStateAtBlock"}
  QuorumLists <- MCAllQuorumLists
  TestOperatorStakes <- MCStakedMaps
  MaxBlock = 2
  MaxTestOperators = 2
SPECIFICATION EditSpec
PROPERTY FakeImplementsServiceSpec
