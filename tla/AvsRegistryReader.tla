-------------------------- MODULE AvsRegistryReader --------------------------
(***************************************************************************)
(* AvsRegistryChainReader (src/chainio/clients/avsregistry/reader.go):     *)
(* callers run its read methods against a chain that keeps producing       *)
(* blocks.  A method is a sequence of RPCs; each RPC is one atomic step    *)
(* that either fails (transport error, wrapped and returned) or executes   *)
(* against the chain state of the block its CallOpts select.  Blocks can   *)
(* be mined between any two steps of a call.                               *)
(***************************************************************************)
EXTENDS AvsChain

CONSTANTS
  Callers,      \* concurrent callers of the reader
  QuorumLists,  \* quorumNumbers arguments callers pass
  RpcMayFail    \* whether an RPC may return a transport error

VARIABLES
  pc,         \* pc[c]: the step caller c's call is at ("idle" between calls)
  call,       \* call[c]: the method and arguments of c's current call
  curBlock,   \* curBlock[c]: the uint64 block number from ethClient.BlockNumber
  optsBlock,  \* optsBlock[c]: the opts.BlockNumber of c's call (Latest = nil)
  pending,    \* pending[c]: quorums whose current stake is still to be read
  acc,        \* acc[c]: the quorumStakes map built so far
  result,     \* result[c]: what c's last call returned
  started     \* started[c]: the head when c's call began (history variable)

readerVars == <<pc, call, curBlock, optsBlock, pending, acc, result, started>>
vars == <<readerVars, chainVars>>

\* Methods that resolve the current block themselves before querying.
CurrentMethods == {"StakesAtCurrent", "AddrsAtCurrent", "OfOperatorAtCurrent"}

Calls ==
       [m : {"StakesAtCurrent", "AddrsAtCurrent"}, quorums : QuorumLists]
  \cup [m : {"StakesAtBlock"}, quorums : QuorumLists, block : 0 .. MaxBlockNum]
  \cup [m : {"OfOperatorAtBlock"}, operator : Operators, block : 0 .. MaxBlockNum]
  \cup [m : {"OfOperatorAtCurrent", "StakeOfOperatorAtCurrent", "IsRegistered"},
        operator : Operators]
  \cup [m : {"QuorumCount"}]

\* The first step of each method.
FirstStep == [m \in {"StakesAtCurrent", "AddrsAtCurrent", "OfOperatorAtCurrent",
                     "StakesAtBlock", "OfOperatorAtBlock",
                     "StakeOfOperatorAtCurrent", "IsRegistered", "QuorumCount"} |->
               CASE m \in CurrentMethods           -> "resolve"
                 [] m = "StakesAtBlock"            -> "stakesAtBlock"
                 [] m = "OfOperatorAtBlock"        -> "ofOperatorAtBlock"
                 [] m = "StakeOfOperatorAtCurrent" -> "bitmap"
                 [] m = "IsRegistered"             -> "status"
                 [] m = "QuorumCount"              -> "quorumCount"]

\* The historical query a current-block method issues once the block is
\* resolved.
AfterResolve == [m \in CurrentMethods |->
                   CASE m = "StakesAtCurrent"     -> "stakesAtBlock"
                     [] m = "AddrsAtCurrent"      -> "addrs"
                     [] m = "OfOperatorAtCurrent" -> "ofOperatorAtBlock"]

NoResult == [status |-> "none"]
Ok(v)    == [status |-> "ok", val |-> v]
Err(e)   == [status |-> "err", err |-> e]

\* The uint32 blockNumber argument of the historical query: the caller's
\* block, or uint32(curBlock), which keeps the low BlockWidth bits.
QueryBlock(c) ==
  IF call[c].m \in CurrentMethods THEN curBlock[c] % (MaxBlockNum + 1)
  ELSE call[c].block

ReaderTypeOK ==
  /\ pc \in [Callers -> {"idle", "resolve", "stakesAtBlock", "addrs",
                         "ofOperatorAtBlock", "bitmap", "stake", "status",
                         "quorumCount"}]
  /\ call \in [Callers -> Calls]
  /\ curBlock \in [Callers -> 0 .. MaxHead]
  /\ optsBlock \in [Callers -> (0 .. MaxHead) \cup {Latest}]
  /\ pending \in [Callers -> Seq(Quorums)]
  /\ \A c \in Callers : DOMAIN acc[c] \subseteq Quorums
  /\ started \in [Callers -> 0 .. MaxHead]

TypeOK == ChainTypeOK /\ ReaderTypeOK

Init ==
  /\ ChainInit
  /\ pc = [c \in Callers |-> "idle"]
  /\ call \in [Callers -> Calls]
  /\ curBlock = [c \in Callers |-> 0]
  /\ optsBlock = [c \in Callers |-> Latest]
  /\ pending = [c \in Callers |-> <<>>]
  /\ acc = [c \in Callers |-> <<>>]
  /\ result = [c \in Callers |-> NoResult]
  /\ started = [c \in Callers |-> 0]

\* The call returns r: its locals die with it.
Return(c, r) ==
  /\ pc' = [pc EXCEPT ![c] = "idle"]
  /\ result' = [result EXCEPT ![c] = r]

-----------------------------------------------------------------------------
(***************************************************************************)
(* A caller invokes a method with fresh CallOpts (opts.BlockNumber nil),   *)
(* as AvsRegistryServiceChainCaller does with &bind.CallOpts{Context:      *)
(* ctx}, and as reader.go:216 asks of callers of the method that writes    *)
(* opts.BlockNumber.  A block argument is a uint32 no later than the head. *)
(***************************************************************************)
Invoke(c) ==
  /\ pc[c] = "idle"
  /\ \E k \in Calls :
        /\ "block" \in DOMAIN k => k.block <= head
        /\ call' = [call EXCEPT ![c] = k]
        /\ pc' = [pc EXCEPT ![c] = FirstStep[k.m]]
  /\ curBlock' = [curBlock EXCEPT ![c] = 0]
  /\ optsBlock' = [optsBlock EXCEPT ![c] = Latest]
  /\ pending' = [pending EXCEPT ![c] = <<>>]
  /\ acc' = [acc EXCEPT ![c] = <<>>]
  /\ result' = [result EXCEPT ![c] = NoResult]
  /\ started' = [started EXCEPT ![c] = head]
  /\ UNCHANGED chainVars

\* mutation: the curBlock > math.MaxUint32 check is dropped
ResolveCurrentBlockUnchecked(c) ==
  /\ pc[c] = "resolve"
  /\ \/ /\ RpcMayFail
        /\ Return(c, Err("BlockNumber"))
        /\ UNCHANGED <<curBlock, optsBlock>>
     \/ /\ curBlock' = [curBlock EXCEPT ![c] = head]
        /\ pc' = [pc EXCEPT ![c] = AfterResolve[call[c].m]]
        /\ optsBlock' = IF call[c].m = "OfOperatorAtCurrent"
                        THEN [optsBlock EXCEPT ![c] = head] ELSE optsBlock
        /\ UNCHANGED result
  /\ UNCHANGED <<call, pending, acc, started, chainVars>>

(***************************************************************************)
(* The prologue shared by the three *AtCurrentBlock methods: ask the node  *)
(* for the latest block number, refuse one that does not fit a uint32,     *)
(* and (GetOperatorsStakeInQuorumsOfOperatorAtCurrentBlock only) write it  *)
(* into opts.BlockNumber before issuing the historical query.              *)
(***************************************************************************)
ResolveCurrentBlock(c) ==
  /\ pc[c] = "resolve"
  /\ \/ /\ RpcMayFail
        /\ Return(c, Err("BlockNumber"))
        /\ UNCHANGED <<curBlock, optsBlock>>
     \/ /\ curBlock' = [curBlock EXCEPT ![c] = head]
        /\ IF head > MaxBlockNum
           THEN /\ Return(c, Err("BlockRange"))
                /\ UNCHANGED optsBlock
           ELSE /\ pc' = [pc EXCEPT ![c] = AfterResolve[call[c].m]]
                /\ optsBlock' = IF call[c].m = "OfOperatorAtCurrent"
                                THEN [optsBlock EXCEPT ![c] = head] ELSE optsBlock
                /\ UNCHANGED result
  /\ UNCHANGED <<call, pending, acc, started, chainVars>>

\* GetOperatorsStakeInQuorumsAtBlock: one getOperatorState(quorumNumbers,
\* blockNumber) call; GetOperatorsStakeInQuorumsAtCurrentBlock ends here too.
GetOperatorsStakeInQuorumsAtBlock(c) ==
  /\ pc[c] = "stakesAtBlock"
  /\ \/ RpcMayFail /\ Return(c, Err("GetOperatorState"))
     \/ Return(c, Ok(GetOperatorState0(CallBlock(optsBlock[c]),
                                       call[c].quorums, QueryBlock(c))))
  /\ UNCHANGED <<call, curBlock, optsBlock, pending, acc, started, chainVars>>

\* GetOperatorAddrsInQuorumsAtCurrentBlock: the same query at the resolved
\* block, keeping only the operator address of every entry.
GetOperatorAddrsInQuorumsAtCurrentBlock(c) ==
  /\ pc[c] = "addrs"
  /\ \/ RpcMayFail /\ Return(c, Err("GetOperatorState"))
     \/ LET tables == GetOperatorState0(CallBlock(optsBlock[c]),
                                        call[c].quorums, QueryBlock(c))
        IN Return(c, Ok([i \in DOMAIN tables |->
                           [j \in DOMAIN tables[i] |-> tables[i][j].operator]]))
  /\ UNCHANGED <<call, curBlock, optsBlock, pending, acc, started, chainVars>>

\* GetOperatorsStakeInQuorumsOfOperatorAtBlock: getOperatorState(operator,
\* blockNumber), with the returned bitmap decoded into quorum numbers;
\* ...OfOperatorAtCurrentBlock ends here too.
GetOperatorsStakeInQuorumsOfOperatorAtBlock(c) ==
  /\ pc[c] = "ofOperatorAtBlock"
  /\ \/ RpcMayFail /\ Return(c, Err("GetOperatorState"))
     \/ LET r == GetOperatorState(CallBlock(optsBlock[c]), call[c].operator,
                                  QueryBlock(c))
        IN Return(c, Ok([quorums |-> BitmapToQuorumIds(r.bitmap),
                         tables  |-> r.tables]))
  /\ UNCHANGED <<call, curBlock, optsBlock, pending, acc, started, chainVars>>

\* mutation: the bitmap is decoded with bit positions counted from 1
ReadCurrentQuorumBitmapFromOne(c) ==
  /\ pc[c] = "bitmap"
  /\ \/ /\ RpcMayFail
        /\ Return(c, Err("GetCurrentQuorumBitmap"))
        /\ UNCHANGED pending
     \/ LET quorums == DecodeFromOne(
                         GetCurrentQuorumBitmap(CallBlock(optsBlock[c]),
                                                call[c].operator))
        IN IF quorums = <<>>
           THEN Return(c, Ok(acc[c])) /\ UNCHANGED pending
           ELSE /\ pending' = [pending EXCEPT ![c] = quorums]
                /\ pc' = [pc EXCEPT ![c] = "stake"]
                /\ UNCHANGED result
  /\ UNCHANGED <<call, curBlock, optsBlock, acc, started, chainVars>>

(***************************************************************************)
(* GetOperatorStakeInQuorumsOfOperatorAtCurrentBlock, first RPC: the       *)
(* operator's current quorum bitmap, read with the caller's opts.  An      *)
(* empty bitmap returns the empty map at once.                             *)
(***************************************************************************)
ReadCurrentQuorumBitmap(c) ==
  /\ pc[c] = "bitmap"
  /\ \/ /\ RpcMayFail
        /\ Return(c, Err("GetCurrentQuorumBitmap"))
        /\ UNCHANGED pending
     \/ LET quorums == BitmapToQuorumIds(
                         GetCurrentQuorumBitmap(CallBlock(optsBlock[c]),
                                                call[c].operator))
        IN IF quorums = <<>>
           THEN Return(c, Ok(acc[c])) /\ UNCHANGED pending
           ELSE /\ pending' = [pending EXCEPT ![c] = quorums]
                /\ pc' = [pc EXCEPT ![c] = "stake"]
                /\ UNCHANGED result
  /\ UNCHANGED <<call, curBlock, optsBlock, acc, started, chainVars>>

\* mutation: the stake is stored under the loop index, not the quorum number
ReadCurrentStakeByIndex(c) ==
  /\ pc[c] = "stake"
  /\ \/ /\ RpcMayFail
        /\ Return(c, Err("GetCurrentStake"))
        /\ UNCHANGED <<pending, acc>>
     \/ LET q == Head(pending[c])
            i == Cardinality(DOMAIN acc[c])
            quorumStakes == (i :> GetCurrentStake(head, call[c].operator, q)) @@ acc[c]
        IN /\ acc' = [acc EXCEPT ![c] = quorumStakes]
           /\ pending' = [pending EXCEPT ![c] = Tail(pending[c])]
           /\ IF pending'[c] = <<>>
              THEN Return(c, Ok(quorumStakes))
              ELSE UNCHANGED <<pc, result>>
  /\ UNCHANGED <<call, curBlock, optsBlock, started, chainVars>>

(***************************************************************************)
(* One iteration of the loop over the decoded quorums: getCurrentStake     *)
(* with a fresh &bind.CallOpts{}, i.e. at the latest block, whatever the   *)
(* caller's opts say.  The head may have moved since the bitmap was read   *)
(* and between iterations (the race the comment on the method admits).    *)
(***************************************************************************)
ReadCurrentStake(c) ==
  /\ pc[c] = "stake"
  /\ \/ /\ RpcMayFail
        /\ Return(c, Err("GetCurrentStake"))
        /\ UNCHANGED <<pending, acc>>
     \/ LET q == Head(pending[c])
            quorumStakes == (q :> GetCurrentStake(head, call[c].operator, q)) @@ acc[c]
        IN /\ acc' = [acc EXCEPT ![c] = quorumStakes]
           /\ pending' = [pending EXCEPT ![c] = Tail(pending[c])]
           /\ IF pending'[c] = <<>>
              THEN Return(c, Ok(quorumStakes))
              ELSE UNCHANGED <<pc, result>>
  /\ UNCHANGED <<call, curBlock, optsBlock, started, chainVars>>

\* IsOperatorRegistered: REGISTERED (1) and nothing else means registered.
IsOperatorRegistered(c) ==
  /\ pc[c] = "status"
  /\ \/ RpcMayFail /\ Return(c, Err("GetOperatorStatus"))
     \/ Return(c, Ok(GetOperatorStatus(CallBlock(optsBlock[c]), call[c].operator) = 1))
  /\ UNCHANGED <<call, curBlock, optsBlock, pending, acc, started, chainVars>>

\* GetQuorumCount: registryCoordinator.QuorumCount(opts).  Quorums are
\* created with the registry and never change within the explored blocks.
GetQuorumCount(c) ==
  /\ pc[c] = "quorumCount"
  /\ \/ RpcMayFail /\ Return(c, Err("QuorumCount"))
     \/ Return(c, Ok(Cardinality(Quorums)))
  /\ UNCHANGED <<call, curBlock, optsBlock, pending, acc, started, chainVars>>

-----------------------------------------------------------------------------
\* Every step of a call after its invocation.
Step(c) ==
  \/ ResolveCurrentBlock(c)
  \/ GetOperatorsStakeInQuorumsAtBlock(c)
  \/ GetOperatorAddrsInQuorumsAtCurrentBlock(c)
  \/ GetOperatorsStakeInQuorumsOfOperatorAtBlock(c)
  \/ ReadCurrentQuorumBitmap(c)
  \/ ReadCurrentStake(c)
  \/ IsOperatorRegistered(c)
  \/ GetQuorumCount(c)

Next ==
  \/ Mine /\ UNCHANGED readerVars
  \/ \E c \in Callers : Invoke(c) \/ Step(c)

\* Only safety is checked, so no step is forced.
Spec == Init /\ [][Next]_vars

-----------------------------------------------------------------------------
(* Properties.                                                             *)

\* The answer the call should give when executed entirely at block b.
AnswerAt(k, b) ==
  LET s == hist[b] IN
  CASE k.m = "StakesAtCurrent" ->
         [i \in DOMAIN k.quorums |-> OperatorTable(s, k.quorums[i])]
    [] k.m = "AddrsAtCurrent" ->
         [i \in DOMAIN k.quorums |->
            LET t == OperatorTable(s, k.quorums[i])
            IN [j \in DOMAIN t |-> t[j].operator]]
    [] k.m = "OfOperatorAtCurrent" ->
         LET ids == SelectSeq([i \in 1 .. Cardinality(Quorums) |-> i - 1],
                              LAMBDA q : q \in Quorums /\ Registered(s, q, k.operator))
         IN [quorums |-> ids, tables |-> [i \in DOMAIN ids |-> OperatorTable(s, ids[i])]]

(***************************************************************************)
(* Spec 4.5 / example D: a *AtCurrentBlock call resolves one height and    *)
(* pins its historical query to it.  Whatever blocks are mined during the  *)
(* call, a successful result is exactly the registry state at the block    *)
(* ethClient.BlockNumber returned, that block was the head at some moment  *)
(* of the call, and a height that does not fit a uint32 is refused with    *)
(* an error instead of being truncated.                                    *)
(***************************************************************************)
CurrentReadsPinned ==
  \A c \in Callers :
     call[c].m \in CurrentMethods =>
       /\ result[c].status = "ok" =>
            /\ started[c] <= curBlock[c] /\ curBlock[c] <= head
            /\ result[c].val = AnswerAt(call[c], curBlock[c])
       /\ result[c] = Err("BlockRange") => curBlock[c] > MaxBlockNum

(***************************************************************************)
(* What GetOperatorStakeInQuorumsOfOperatorAtCurrentBlock still promises   *)
(* under the race its comment admits (spec 4.5): its quorums are exactly   *)
(* those of the operator's bitmap at one block of the call, and each stake *)
(* is the operator's current stake in that quorum at one block no earlier  *)
(* than it (0 if it left the quorum since), though blocks may differ      *)
(* between entries.                                                        *)
(***************************************************************************)
StakesFreshPerEntry ==
  \A c \in Callers :
     (call[c].m = "StakeOfOperatorAtCurrent" /\ result[c].status = "ok") =>
       LET o == call[c].operator
           m == result[c].val
       IN \E b0 \in started[c] .. head :
            /\ DOMAIN m = {q \in Quorums : Registered(hist[b0], q, o)}
            /\ \A q \in DOMAIN m :
                  \E b \in b0 .. head : m[q] = GetCurrentStake(b, o, q)

=============================================================================
