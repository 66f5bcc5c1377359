------------------------------ MODULE AvsChain ------------------------------
(***************************************************************************)
(* The chain the AVS registry reader queries: the RegistryCoordinator,     *)
(* StakeRegistry and OperatorStateRetriever contracts, reduced to what the *)
(* reader can observe, and the block-indexed history they keep.            *)
(*                                                                         *)
(* The contracts are not part of src/: their state is modelled from the    *)
(* spec (section 4.2).  What is modelled from src/ is how the Go bindings  *)
(* (contracts/bindings/OperatorStateRetriever/binding.go) issue a call:    *)
(* contract.Call(opts, ...) executes against the state of                  *)
(* opts.BlockNumber, or of the latest block when it is nil, and the        *)
(* blockNumber argument then selects a historical entry inside the         *)
(* contract.                                                               *)
(***************************************************************************)
EXTENDS Naturals, Sequences, FiniteSets, TLC, BitmapDecoder

CONSTANTS
  OperatorOrder,  \* the operators, in the order the index registry lists them
  Quorums,        \* quorum numbers (small naturals)
  Stakes,         \* stake amounts an operator may hold in a quorum
  NoStake,        \* model value: the operator is not registered in the quorum
  Latest,         \* model value: opts.BlockNumber == nil (query the latest block)
  InitialStakes,  \* the registry state at block 0
  MaxHead,        \* bound on the chain height explored
  BlockWidth      \* width of the block-number encoding of historical queries

Operators == {OperatorOrder[i] : i \in DOMAIN OperatorOrder}

\* math.MaxUint32 at the modelled width: the largest block number a
\* historical query (uint32 blockNumber) can carry.
MaxBlockNum == 2^BlockWidth - 1

\* What every registry contract derives its answers from: the stake of each
\* registered operator in each quorum.
Snapshot == [Quorums -> [Operators -> Stakes \cup {NoStake}]]

ASSUME /\ Quorums \subseteq Nat
       /\ Stakes \subseteq Nat \ {0}
       /\ InitialStakes \in Snapshot
       /\ MaxHead \in Nat /\ BlockWidth \in Nat \ {0}

VARIABLES
  head,  \* the latest block number (what eth_blockNumber returns)
  hist   \* hist[b]: the registry state at block b, for b \in 0..head

chainVars == <<head, hist>>

ChainTypeOK ==
  /\ head \in 0 .. MaxHead
  /\ hist \in [0 .. head -> Snapshot]

ChainInit ==
  /\ head = 0
  /\ hist = (0 :> InitialStakes)

(***************************************************************************)
(* A new block is mined.  In it at most one registry update happens: one   *)
(* operator registers in, deregisters from, or changes its stake in one    *)
(* quorum (v = the current entry is an empty block).  Earlier blocks are   *)
(* never changed: historical state is immutable.                           *)
(***************************************************************************)
Mine ==
  /\ head < MaxHead
  /\ \E q \in Quorums, o \in Operators, v \in Stakes \cup {NoStake} :
        hist' = hist @@ (head + 1 :> [hist[head] EXCEPT ![q][o] = v])
  /\ head' = head + 1

-----------------------------------------------------------------------------
(* Contract views of a snapshot s.                                         *)

Registered(s, q, o) == s[q][o] # NoStake

\* The Operator[] list of one quorum: (operator, stake) of every registered
\* operator, in index-registry order.
OperatorTable(s, q) ==
  LET regs == SelectSeq(OperatorOrder, LAMBDA o : Registered(s, q, o))
  IN [j \in DOMAIN regs |-> [operator |-> regs[j], stake |-> s[q][regs[j]]]]

\* RegistryCoordinator quorum bitmap of operator o.
QuorumBitmapOf(s, o) == QuorumIdsToBitmap({q \in Quorums : Registered(s, q, o)})

-----------------------------------------------------------------------------
(* Executing a call.                                                       *)

\* The block whose state an eth_call executes against.
CallBlock(optsBlock) == IF optsBlock = Latest THEN head ELSE optsBlock

\* Inside the contracts a query "at block b" takes, for every history, the
\* latest entry not after b; executed against the state of block e it can
\* only see entries up to e.
StateAt(e, b) == hist[IF b <= e THEN b ELSE e]

\* getOperatorState(registryCoordinator, quorumNumbers, blockNumber): one
\* Operator[] table per requested quorum, index-aligned.
GetOperatorState0(e, quorumNumbers, b) ==
  [i \in DOMAIN quorumNumbers |-> OperatorTable(StateAt(e, b), quorumNumbers[i])]

\* getOperatorState(registryCoordinator, operator, blockNumber): the
\* operator's quorum bitmap at b and the tables of the quorums it sets.
GetOperatorState(e, o, b) ==
  LET s   == StateAt(e, b)
      ids == BitmapToQuorumIds(QuorumBitmapOf(s, o))
  IN [bitmap |-> QuorumBitmapOf(s, o),
      tables |-> [i \in DOMAIN ids |-> OperatorTable(s, ids[i])]]

\* RegistryCoordinator.getCurrentQuorumBitmap(operator).
GetCurrentQuorumBitmap(e, o) == QuorumBitmapOf(hist[e], o)

\* StakeRegistry.getCurrentStake(operatorId, quorum): the latest stake
\* update, which is 0 once the operator deregistered or if it never
\* registered.
GetCurrentStake(e, o, q) == IF Registered(hist[e], q, o) THEN hist[e][q][o] ELSE 0

\* RegistryCoordinator.getOperatorStatus: 0 NEVER_REGISTERED, 1 REGISTERED,
\* 2 DEREGISTERED.
GetOperatorStatus(e, o) ==
  IF \E q \in Quorums : Registered(hist[e], q, o) THEN 1
  ELSE IF \E b \in 0 .. e, q \in Quorums : Registered(hist[b], q, o) THEN 2
  ELSE 0

=============================================================================
