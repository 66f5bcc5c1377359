--------------------- MODULE FakeAvsRegistryService ---------------------
(***************************************************************************)
(* FakeAvsRegistryService (src/services/avsregistry/avsregistry_fake.go):  *)
(* the test double of AvsRegistryService.  NewFakeAvsRegistryService       *)
(* records, for one block number, an OperatorAvsState per test operator;   *)
(* both methods then answer from that map and fail with "block number not *)
(* found" for every other block.  No method changes the map, so each      *)
(* method is one action; the operators map is handed out by reference.     *)
(***************************************************************************)
EXTENDS Naturals, Sequences, SequencesExt

CONSTANTS
  Operators, Quorums, Stakes, NoStake, Callers, Methods, QuorumLists,
  MaxBlock,            \* the largest blockNumber a test passes
  TestOperatorStakes,  \* the StakePerQuorum maps a TestOperator may carry
  MaxTestOperators     \* the longest operators list a test passes

VARIABLES
  operators,  \* f.operators: blockNum -> operator -> OperatorAvsState
  spc, scall, sresult

vars == <<operators, spc, scall, sresult>>

TestOperators == [operator : Operators, stakePerQuorum : TestOperatorStakes]

Calls == [m : Methods, quorums : QuorumLists, block : 0 .. MaxBlock]

NoResult == [status |-> "none"]
Ok(v)    == [status |-> "ok", val |-> v]
Err(e)   == [status |-> "err", err |-> e]
\* The caller holds the fake's own map for block b (a Go map is a reference).
Alias(b) == [status |-> "ok", alias |-> b]

\* mutation: the stored OperatorAvsState keeps a zero BlockNumber
NewFakeAvsRegistryServiceBlockZero(blockNum, testOperators) ==
  blockNum :> FoldLeft(LAMBDA m, t :
                 (t.operator :> [operator       |-> t.operator,
                                 stakePerQuorum |-> t.stakePerQuorum,
                                 blockNumber    |-> 0]) @@ m,
               <<>>, testOperators)

\* NewFakeAvsRegistryService(blockNum, testOperators): a later test
\* operator with the same address overwrites an earlier one.
NewFakeAvsRegistryService(blockNum, testOperators) ==
  blockNum :> FoldLeft(LAMBDA m, t :
                 (t.operator :> [operator       |-> t.operator,
                                 stakePerQuorum |-> t.stakePerQuorum,
                                 blockNumber    |-> blockNum]) @@ m,
               <<>>, testOperators)

\* mutation: totalStake is declared once, before the loop over quorums
FakeQuorumsAvsStateRunningTotal(ops, quorumNumbers, b) ==
  LET Total(q) == MapThenSumSet(LAMBDA o : IF q \in DOMAIN ops[o].stakePerQuorum
                                           THEN ops[o].stakePerQuorum[q] ELSE 0,
                                DOMAIN ops)
  IN FoldLeft(LAMBDA st, q :
                [run |-> st.run + Total(q),
                 m   |-> (q :> [quorumNumber |-> q,
                                totalStake   |-> st.run + Total(q),
                                blockNumber  |-> b]) @@ st.m],
              [run |-> 0, m |-> <<>>], quorumNumbers).m

\* The loop of GetQuorumsAvsStateAtBlock: for every requested quorum, the
\* sum of the stakes of the operators that have that key.
FakeQuorumsAvsState(ops, quorumNumbers, b) ==
  [q \in ToSet(quorumNumbers) |->
     [quorumNumber |-> q,
      totalStake   |-> MapThenSumSet(LAMBDA o :
                          IF q \in DOMAIN ops[o].stakePerQuorum
                          THEN ops[o].stakePerQuorum[q] ELSE 0, DOMAIN ops),
      blockNumber  |-> b]]

Init ==
  /\ \E blockNum \in 0 .. MaxBlock,
        tos \in UNION {[1 .. n -> TestOperators] : n \in 0 .. MaxTestOperators} :
        operators = NewFakeAvsRegistryService(blockNum, tos)
  /\ spc = [c \in Callers |-> "idle"]
  /\ scall \in [Callers -> Calls]
  /\ sresult = [c \in Callers |-> NoResult]

Invoke(c) ==
  /\ spc[c] = "idle"
  /\ \E k \in Calls : scall' = [scall EXCEPT ![c] = k]
  /\ spc' = [spc EXCEPT ![c] = "query"]
  /\ sresult' = [sresult EXCEPT ![c] = NoResult]
  /\ UNCHANGED operators

\* Both methods look the block up first.  GetOperatorsAvsStateAtBlock does
\* not consult quorumNumbers: it hands out the stored map itself, not a copy.
Answer(c) ==
  LET k == scall[c]
      ops == operators[k.block]
  IN /\ spc' = [spc EXCEPT ![c] = "idle"]
     /\ sresult' = [sresult EXCEPT ![c] =
          IF k.block \notin DOMAIN operators THEN Err("block number not found")
          ELSE IF k.m = "GetOperatorsAvsStateAtBlock" THEN Alias(k.block)
          ELSE Ok(FakeQuorumsAvsState(ops, k.quorums, k.block))]

GetOperatorsAvsStateAtBlock(c) ==
  /\ spc[c] = "query"
  /\ scall[c].m = "GetOperatorsAvsStateAtBlock"
  /\ Answer(c)
  /\ UNCHANGED <<operators, scall>>

GetQuorumsAvsStateAtBlock(c) ==
  /\ spc[c] = "query"
  /\ scall[c].m = "GetQuorumsAvsStateAtBlock"
  /\ Answer(c)
  /\ UNCHANGED <<operators, scall>>

Next ==
  \E c \in Callers :
     \/ Invoke(c)
     \/ GetOperatorsAvsStateAtBlock(c)
     \/ GetQuorumsAvsStateAtBlock(c)

Spec == Init /\ [][Next]_vars

-----------------------------------------------------------------------------
(* Properties.                                                             *)

OperatorAvsStates == [operator : Operators, stakePerQuorum : TestOperatorStakes,
                      blockNumber : 0 .. MaxBlock]
QuorumAvsStates(b) == [quorumNumber : Quorums, totalStake : Nat, blockNumber : {b}]

(***************************************************************************)
(* The fake's stored map and its answers are well formed: one recorded     *)
(* block, whose entries are keyed by their own operator and stamped with   *)
(* that block, so the map GetOperatorsAvsStateAtBlock hands out carries    *)
(* the block asked for; GetQuorumsAvsStateAtBlock answers one entry per    *)
(* requested quorum, stamped with the requested block.                     *)
(***************************************************************************)
TypeOK ==
  /\ \E b \in 0 .. MaxBlock :
        /\ DOMAIN operators = {b}
        /\ \E os \in SUBSET Operators :
              /\ operators[b] \in [os -> OperatorAvsStates]
              /\ \A o \in os : operators[b][o].operator = o
                              /\ operators[b][o].blockNumber = b
  /\ spc \in [Callers -> {"idle", "query"}]
  /\ scall \in [Callers -> Calls]
  /\ \A c \in Callers :
        \/ sresult[c] \in {NoResult, Err("block number not found")}
        \/ sresult[c] = Alias(scall[c].block)
        \/ /\ sresult[c].status = "ok" /\ "val" \in DOMAIN sresult[c]
           /\ DOMAIN sresult[c].val = ToSet(scall[c].quorums)
           /\ \A q \in DOMAIN sresult[c].val :
                 sresult[c].val[q] \in QuorumAvsStates(scall[c].block)

-----------------------------------------------------------------------------
(* Refinement of the service contract.                                     *)

\* The registry the fake stands for: its one block's stakes, taken as the
\* state of every block up to it.
FakeRegistry ==
  LET b0  == CHOOSE b \in DOMAIN operators : TRUE
      ops == operators[b0]
  IN [b \in 0 .. b0 |-> [q \in Quorums |-> [o \in Operators |->
        IF o \in DOMAIN ops /\ q \in DOMAIN ops[o].stakePerQuorum
        THEN ops[o].stakePerQuorum[q] ELSE NoStake]]]

AbstractResult ==
  [c \in Callers |-> CASE sresult[c].status = "err"  -> [status |-> "err"]
                      [] "alias" \in DOMAIN sresult[c] -> Ok(operators[sresult[c].alias])
                      [] OTHER                        -> sresult[c]]

ServiceSpec == INSTANCE AvsRegistryServiceSpec
                 WITH registry <- FakeRegistry, sresult <- AbstractResult

(***************************************************************************)
(* The fake is a faithful stand-in for the chain service: every answer it  *)
(* gives is one AvsRegistryServiceChainCaller could give for the registry  *)
(* the test operators describe (the sparse per-operator view restricted to *)
(* the requested quorums, the dense per-quorum totals, NotFound elsewhere).*)
(***************************************************************************)
FakeImplementsServiceSpec == ServiceSpec!Spec

=============================================================================
