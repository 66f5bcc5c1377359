--------------------- MODULE MC_FakeAvsRegistryService ---------------------
EXTENDS FakeAvsRegistryService

CONSTANTS o1, o2, c1

\* A test operator with stake in one or both quorums.
MCStakedMaps == {(0 :> 1), (1 :> 2), (0 :> 1) @@ (1 :> 1)}
\* ... or, as a TestOperator may be built, with no stake at all.
MCAnyMaps == MCStakedMaps \cup {<<>>}
\* Callers that request every quorum, in either order.
MCAllQuorumLists == {<<0, 1>>, <<1, 0>>}
\* ... or a single quorum.
MCAnyQuorumLists == MCAllQuorumLists \cup {<<1>>}

-----------------------------------------------------------------------------
(* A caller that edits its result.  Nothing under src/ does; a test that   *)
(* trims the map it was given would.  EditSpec adds that caller to Spec.   *)

\* The caller drops an entry from the map it was given (say, an operator
\* outside the quorums it asked for).  The map is the fake's own, so the
\* entry is gone from every later answer for that block.
EditResult(c) ==
  /\ "alias" \in DOMAIN sresult[c]
  /\ \E o \in DOMAIN operators[sresult[c].alias] :
        operators' = [operators EXCEPT ![sresult[c].alias] =
                        [x \in DOMAIN @ \ {o} |-> @[x]]]
  /\ UNCHANGED <<spc, scall, sresult>>

EditNext == Next \/ \E c \in Callers : EditResult(c)

EditSpec == Init /\ [][EditNext]_vars

=============================================================================
