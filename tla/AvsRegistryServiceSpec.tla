--------------------- MODULE AvsRegistryServiceSpec ---------------------
(***************************************************************************)
(* What an AvsRegistryService promises its callers (the AvsRegistryService *)
(* interface that AvsRegistryServiceChainCaller and FakeAvsRegistryService *)
(* implement; spec sections 3, 4.3, 4.4, 6 and 7), with no mechanism:      *)
(*                                                                         *)
(*   registry[b] is the recorded registry state of every block b the       *)
(*   service can answer for; blocks are only ever appended.  A call either *)
(*   fails, or returns the whole view of registry[b] for the requested     *)
(*   quorums: the sparse per-operator view or the dense per-quorum totals, *)
(*   all stamped with b.  There is no partial result, and a block without  *)
(*   recorded state can only fail (NotFoundError).                         *)
(***************************************************************************)
EXTENDS Naturals, Sequences, FiniteSets, SequencesExt

CONSTANTS
  Operators, Quorums, Stakes,
  NoStake,      \* the operator holds no stake in the quorum
  Callers,
  Methods,      \* the entry points callers use
  QuorumLists,  \* quorumNumbers arguments callers pass
  MaxBlock      \* the largest blockNumber a caller passes

VARIABLES
  registry,  \* registry[b]: quorum -> operator -> stake (or NoStake) at block b
  spc,       \* spc[c]: "idle", or "query" while c's call is in progress
  scall,     \* scall[c]: method, quorumNumbers and blockNumber of c's call
  sresult    \* sresult[c]: what c's last call returned

Snapshot == [Quorums -> [Operators -> Stakes \cup {NoStake}]]

Calls == [m : Methods, quorums : QuorumLists, block : 0 .. MaxBlock]

NoResult == [status |-> "none"]
Failed   == [status |-> "err"]
Ok(v)    == [status |-> "ok", val |-> v]

\* Spec 4.3: the operators with stake in some requested quorum at b, each
\* with exactly its stakes in the requested quorums.
OperatorsView(quorumNumbers, b) ==
  LET s == registry[b]
      In(o) == {q \in ToSet(quorumNumbers) : s[q][o] # NoStake}
  IN [o \in {o \in Operators : In(o) # {}} |->
        [operator |-> o, stakePerQuorum |-> [q \in In(o) |-> s[q][o]],
         blockNumber |-> b]]

\* Spec 4.4: one entry per requested quorum, zero when nobody is in it.
QuorumsView(quorumNumbers, b) ==
  LET s == registry[b] IN
  [q \in ToSet(quorumNumbers) |->
     [quorumNumber |-> q,
      totalStake   |-> MapThenSumSet(LAMBDA o : IF s[q][o] # NoStake
                                                THEN s[q][o] ELSE 0, Operators),
      blockNumber  |-> b]]

View(k) == IF k.m = "GetOperatorsAvsStateAtBlock"
           THEN OperatorsView(k.quorums, k.block)
           ELSE QuorumsView(k.quorums, k.block)

Init ==
  /\ \E n \in 0 .. MaxBlock : DOMAIN registry = 0 .. n
  /\ \A b \in DOMAIN registry : registry[b] \in Snapshot
  /\ spc = [c \in Callers |-> "idle"]
  /\ scall \in [Callers -> Calls]
  /\ sresult = [c \in Callers |-> NoResult]

\* A new block is recorded; recorded blocks never change.
Record ==
  /\ DOMAIN registry' = DOMAIN registry \cup {Cardinality(DOMAIN registry)}
  /\ \A b \in DOMAIN registry : registry'[b] = registry[b]
  /\ registry'[Cardinality(DOMAIN registry)] \in Snapshot
  /\ UNCHANGED <<spc, scall, sresult>>

Invoke(c) ==
  /\ spc[c] = "idle"
  /\ scall' \in [Callers -> Calls]
  /\ \A d \in Callers \ {c} : scall'[d] = scall[d]
  /\ spc' = [spc EXCEPT ![c] = "query"]
  /\ sresult' = [sresult EXCEPT ![c] = NoResult]
  /\ UNCHANGED registry

\* The call returns the whole view at a recorded block, or an error.
Answer(c) ==
  /\ spc[c] = "query"
  /\ spc' = [spc EXCEPT ![c] = "idle"]
  /\ \/ sresult' = [sresult EXCEPT ![c] = Failed]
     \/ /\ scall[c].block \in DOMAIN registry
        /\ sresult' = [sresult EXCEPT ![c] = Ok(View(scall[c]))]
  /\ UNCHANGED <<registry, scall>>

Next == Record \/ \E c \in Callers : Invoke(c) \/ Answer(c)

Spec == Init /\ [][Next]_<<registry, spc, scall, sresult>>

=============================================================================
