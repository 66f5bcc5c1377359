------------------------- MODULE AvsRegistryService -------------------------
(***************************************************************************)
(* AvsRegistryServiceChainCaller                                           *)
(* (src/services/avsregistry/avsregistry_chaincaller.go): one historical   *)
(* getOperatorState(quorumNumbers, blockNumber) RPC through the reader,    *)
(* then the reduction of the returned tables into the per-operator view    *)
(* and, for GetQuorumsAvsStateAtBlock, into per-quorum totals.  The RPC    *)
(* is the only step that touches the chain, so each method is one action.  *)
(*                                                                         *)
(* A retriever whose answer is not index-aligned with the request (an old  *)
(* or wrong deployment) is enabled by RetrieverMisaligned; the service     *)
(* then hits logger.Fatal, which exits the process with the production     *)
(* logger and returns with the no-op logger the tests inject.              *)
(***************************************************************************)
EXTENDS AvsChain, SequencesExt

CONSTANTS
  Callers,             \* concurrent callers of the service
  QuorumLists,         \* quorumNumbers arguments callers pass
  RpcMayFail,          \* whether the RPC may return a transport error
  RetrieverMisaligned, \* whether the retriever may return a wrong number of tables
  FutureBlocks         \* whether callers may pass a blockNumber above the head

VARIABLES
  spc,      \* spc[c]: "idle" or "query" (the call's RPC is outstanding)
  scall,    \* scall[c]: method, quorumNumbers and blockNumber of c's call
  sresult,  \* sresult[c]: what c's last call returned
  aligned,  \* aligned[c]: whether the last answer had one table per quorum (history)
  process   \* "running", "exited" (logger.Fatal) or "panicked"

serviceVars == <<spc, scall, sresult, aligned, process>>
vars == <<serviceVars, chainVars>>

Calls == [m : {"GetOperatorsAvsStateAtBlock", "GetQuorumsAvsStateAtBlock"},
          quorums : QuorumLists, block : 0 .. MaxBlockNum]

NoResult == [status |-> "none"]
Ok(v)    == [status |-> "ok", val |-> v]
Err(e)   == [status |-> "err", err |-> e]

-----------------------------------------------------------------------------
(* The reduction (pure).                                                   *)

\* mutation: an operator seen before gets a fresh entry (the `ok` branch is lost)
AddOperatorStakeFresh(state, quorumNum, entry, b) ==
  (entry.operator :> [operator       |-> entry.operator,
                      stakePerQuorum |-> (quorumNum :> entry.stake),
                      blockNumber    |-> b]) @@ state

\* One (operator, stake) entry of quorum quorumNum's table: extend the
\* operator's StakePerQuorum, or create its OperatorAvsState at block b.
AddOperatorStake(state, quorumNum, entry, b) ==
  IF entry.operator \in DOMAIN state
  THEN [state EXCEPT ![entry.operator].stakePerQuorum =
                       (quorumNum :> entry.stake) @@ @]
  ELSE (entry.operator :> [operator       |-> entry.operator,
                           stakePerQuorum |-> (quorumNum :> entry.stake),
                           blockNumber    |-> b]) @@ state

\* mutation: StakePerQuorum is keyed by the loop index quorumIdx, not quorumNum
BuildOperatorsAvsStateByIndex(quorumNumbers, tables, b) ==
  LET AddTable(state, i) ==
        FoldLeft(LAMBDA st, e : AddOperatorStake(st, i, e, b), state, tables[i])
  IN FoldLeft(AddTable, <<>>, [i \in DOMAIN quorumNumbers |-> i])

\* The nested loop: quorums in request order, entries in table order.
BuildOperatorsAvsState(quorumNumbers, tables, b) ==
  LET AddTable(state, i) ==
        FoldLeft(LAMBDA st, e : AddOperatorStake(st, quorumNumbers[i], e, b),
                 state, tables[i])
  IN FoldLeft(AddTable, <<>>, [i \in DOMAIN quorumNumbers |-> i])

\* Total stake of quorum q over the operators that have a stake in it.
TotalStake(operatorsAvsState, q) ==
  MapThenSumSet(LAMBDA o : IF q \in DOMAIN operatorsAvsState[o].stakePerQuorum
                           THEN operatorsAvsState[o].stakePerQuorum[q] ELSE 0,
                DOMAIN operatorsAvsState)

\* mutation: totalStake is created once, outside the loop over quorums
QuorumsAvsStateRunningTotal(quorumNumbers, operatorsAvsState, b) ==
  LET Add(st, q) ==
        LET total == st.running + TotalStake(operatorsAvsState, q)
        IN [running |-> total,
            map |-> (q :> [quorumNumber |-> q, totalStake |-> total,
                           blockNumber |-> b]) @@ st.map]
  IN FoldLeft(Add, [running |-> 0, map |-> <<>>], quorumNumbers).map

\* The loop of GetQuorumsAvsStateAtBlock: for each requested quorum (a
\* repeated one overwrites its entry), a total starting from zero.
QuorumsAvsState(quorumNumbers, operatorsAvsState, b) ==
  LET Add(map, q) ==
        (q :> [quorumNumber |-> q,
               totalStake   |-> TotalStake(operatorsAvsState, q),
               blockNumber  |-> b]) @@ map
  IN FoldLeft(Add, <<>>, quorumNumbers)

-----------------------------------------------------------------------------
(* The calls.                                                              *)

\* The tables the retriever may answer with: one per requested quorum, or,
\* from a misaligned deployment, one table more or one fewer.
Answers(quorumNumbers, b) ==
  LET t == GetOperatorState0(head, quorumNumbers, b) IN
  {t} \cup (IF RetrieverMisaligned
            THEN {Append(t, OperatorTable(StateAt(head, b), q)) : q \in Quorums}
                 \cup (IF t = <<>> THEN {} ELSE {Front(t)})
            ELSE {})

\* Continuation of GetOperatorsAvsStateAtBlock once the tables arrived:
\* the length check calls logger.Fatal, which either exits the process or
\* (no-op logger) returns; then tables[quorumIdx] panics if it is missing.
\* GetQuorumsAvsStateAtBlock then totals the operator view per quorum.
WithOperatorsAvsState(c, tables) ==
  LET quorumNumbers == scall[c].quorums
      b == scall[c].block
  IN /\ aligned' = [aligned EXCEPT ![c] = (Len(tables) = Len(quorumNumbers))]
     /\ \/ /\ Len(tables) # Len(quorumNumbers)
           /\ process' = "exited"
           /\ UNCHANGED <<spc, sresult>>
        \/ /\ Len(tables) < Len(quorumNumbers)
           /\ process' = "panicked"
           /\ UNCHANGED <<spc, sresult>>
        \/ /\ Len(tables) >= Len(quorumNumbers)
           /\ spc' = [spc EXCEPT ![c] = "idle"]
           /\ sresult' = [sresult EXCEPT ![c] =
                           LET ops == BuildOperatorsAvsState(quorumNumbers, tables, b)
                           IN Ok(IF scall[c].m = "GetQuorumsAvsStateAtBlock"
                                 THEN QuorumsAvsState(quorumNumbers, ops, b)
                                 ELSE ops)]
           /\ UNCHANGED process

\* The blockNumber is any uint32: nothing checks it against the head, so a
\* caller that passes a block not yet mined is served unless FutureBlocks is
\* FALSE (callers that only ask about mined blocks).
Invoke(c) ==
  /\ process = "running"
  /\ spc[c] = "idle"
  /\ \E k \in Calls :
        /\ FutureBlocks \/ k.block <= head
        /\ scall' = [scall EXCEPT ![c] = k]
  /\ spc' = [spc EXCEPT ![c] = "query"]
  /\ sresult' = [sresult EXCEPT ![c] = NoResult]
  /\ UNCHANGED <<aligned, process, chainVars>>

\* GetOperatorsAvsStateAtBlock: the RPC (its error is wrapped and returned)
\* and the reduction into map[OperatorAddr]OperatorAvsState.
GetOperatorsAvsStateAtBlock(c) ==
  /\ process = "running"
  /\ spc[c] = "query"
  /\ scall[c].m = "GetOperatorsAvsStateAtBlock"
  /\ \/ /\ RpcMayFail
        /\ spc' = [spc EXCEPT ![c] = "idle"]
        /\ sresult' = [sresult EXCEPT ![c] = Err("GetOperatorState")]
        /\ UNCHANGED <<aligned, process>>
     \/ \E tables \in Answers(scall[c].quorums, scall[c].block) :
           WithOperatorsAvsState(c, tables)
  /\ UNCHANGED <<scall, chainVars>>

\* GetQuorumsAvsStateAtBlock: GetOperatorsAvsStateAtBlock, then the totals.
GetQuorumsAvsStateAtBlock(c) ==
  /\ process = "running"
  /\ spc[c] = "query"
  /\ scall[c].m = "GetQuorumsAvsStateAtBlock"
  /\ \/ /\ RpcMayFail
        /\ spc' = [spc EXCEPT ![c] = "idle"]
        /\ sresult' = [sresult EXCEPT ![c] = Err("GetOperatorState")]
        /\ UNCHANGED <<aligned, process>>
     \/ \E tables \in Answers(scall[c].quorums, scall[c].block) :
           WithOperatorsAvsState(c, tables)
  /\ UNCHANGED <<scall, chainVars>>

-----------------------------------------------------------------------------
ServiceTypeOK ==
  /\ spc \in [Callers -> {"idle", "query"}]
  /\ scall \in [Callers -> Calls]
  /\ aligned \in [Callers -> BOOLEAN]
  /\ process \in {"running", "exited", "panicked"}
  \* the maps a successful call returns are keyed by quorum numbers
  /\ \A c \in Callers : sresult[c].status = "ok" =>
        IF scall[c].m = "GetOperatorsAvsStateAtBlock"
        THEN \A o \in DOMAIN sresult[c].val :
                DOMAIN sresult[c].val[o].stakePerQuorum \subseteq Quorums
        ELSE DOMAIN sresult[c].val \subseteq Quorums

TypeOK == ChainTypeOK /\ ServiceTypeOK

Init ==
  /\ ChainInit
  /\ spc = [c \in Callers |-> "idle"]
  /\ scall \in [Callers -> Calls]
  /\ sresult = [c \in Callers |-> NoResult]
  /\ aligned = [c \in Callers |-> TRUE]
  /\ process = "running"

\* After logger.Fatal or a panic the process is gone: its callers take no
\* more steps (the chain may still grow).
Terminated == process # "running" /\ UNCHANGED vars

Next ==
  \/ Mine /\ UNCHANGED serviceVars
  \/ Terminated
  \/ \E c \in Callers :
        \/ Invoke(c)
        \/ GetOperatorsAvsStateAtBlock(c)
        \/ GetQuorumsAvsStateAtBlock(c)

Spec == Init /\ [][Next]_vars

-----------------------------------------------------------------------------
(* Properties.                                                             *)

\* The service contract, read off this model: the registry is the chain's
\* history, and every error counts as the contract's one failure outcome.
\* Its views are the reference the properties compare answers with.
AbstractResult ==
  [c \in Callers |-> IF sresult[c].status = "err" THEN [status |-> "err"]
                                                 ELSE sresult[c]]

ServiceSpec == INSTANCE AvsRegistryServiceSpec
                 WITH registry <- hist, sresult <- AbstractResult,
                      MaxBlock <- MaxBlockNum,
                      Methods <- {"GetOperatorsAvsStateAtBlock",
                                  "GetQuorumsAvsStateAtBlock"}

ExpectedOperatorsAvsState(quorumNumbers, b) ==
  ServiceSpec!OperatorsView(quorumNumbers, b)

ExpectedQuorumsAvsState(quorumNumbers, b) ==
  ServiceSpec!QuorumsView(quorumNumbers, b)

(***************************************************************************)
(* Spec 4.3: a successful GetOperatorsAvsStateAtBlock(Q, b) holds exactly  *)
(* the operators registered at b in some quorum of Q, each with its stake  *)
(* in every such quorum (and no other key), all stamped with block b, no   *)
(* matter how many quorums an operator shares or in which order Q lists    *)
(* them.  The answer stays the view of block b for as long as the caller   *)
(* holds it: once b is mined, what was returned for b is what b holds.     *)
(***************************************************************************)
OperatorsViewMatchesChain ==
  \A c \in Callers :
     (/\ scall[c].m = "GetOperatorsAvsStateAtBlock" /\ sresult[c].status = "ok"
      /\ scall[c].block <= head) =>
        sresult[c].val = ExpectedOperatorsAvsState(scall[c].quorums, scall[c].block)

(***************************************************************************)
(* Spec 4.4: a successful GetQuorumsAvsStateAtBlock(Q, b) has one entry    *)
(* per requested quorum, even one nobody is registered in, whose total is  *)
(* the sum of the stakes registered in that quorum at b.                   *)
(***************************************************************************)
QuorumTotalsMatchChain ==
  \A c \in Callers :
     (/\ scall[c].m = "GetQuorumsAvsStateAtBlock" /\ sresult[c].status = "ok"
      /\ scall[c].block <= head) =>
        sresult[c].val = ExpectedQuorumsAvsState(scall[c].quorums, scall[c].block)

(***************************************************************************)
(* Spec 4.3 and 9: a retriever answer that is not index-aligned with the   *)
(* request is reported to the caller as a ContractMismatchError; it never  *)
(* ends the process and never yields a (silently truncated) result.        *)
(***************************************************************************)
MismatchRejected ==
  /\ process = "running"
  /\ \A c \in Callers : sresult[c].status = "ok" => aligned[c]

=============================================================================
