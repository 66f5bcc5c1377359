------------------------- MODULE MC_AvsRegistryReader -------------------------
EXTENDS AvsRegistryReader

CONSTANTS o1, o2, c1

\* o1 starts registered in quorum 0; o2 starts unregistered.
MCOperatorOrder == <<o1, o2>>
MCInitialStakes == [q \in {0, 1} |-> [o \in {o1, o2} |->
                      IF q = 0 /\ o = o1 THEN 1 ELSE NoStake]]
\* Both quorums in a non-trivial order, and a single quorum.
MCQuorumLists == {<<0, 1>>, <<1>>}

=============================================================================
