---------------------------- MODULE BitmapDecoder ----------------------------
(***************************************************************************)
(* types.BitmapToQuorumIds: the decoder the reader applies to the quorum   *)
(* bitmap returned by OperatorStateRetriever.getOperatorState and by       *)
(* RegistryCoordinator.getCurrentQuorumBitmap (reader.go:212, :247).  The  *)
(* types package is not part of src/, so the decoder is modelled from the  *)
(* spec (section 4.1): bit i set <=> quorum i, ascending, and the scan     *)
(* stops as soon as the remaining bitmap is zero.                          *)
(***************************************************************************)
EXTENDS Naturals, Sequences, FiniteSetsExt

\* mutation: the bit index starts at 1 instead of 0
DecodeFromOne(bitmap) ==
  LET RECURSIVE Scan(_, _)
      Scan(bm, i) == IF bm = 0 THEN <<>>
                     ELSE (IF bm % 2 = 1 THEN <<i>> ELSE <<>>) \o Scan(bm \div 2, i + 1)
  IN Scan(bitmap, 1)

\* Quorum i belongs to the decoded list iff bit i of the bitmap is set.
\* The scan shifts the bitmap right one bit per step and ends when no set
\* bit is left, so runs of high zero bits are never visited.
BitmapToQuorumIds(bitmap) ==
  LET RECURSIVE Scan(_, _)
      Scan(bm, i) == IF bm = 0 THEN <<>>
                     ELSE (IF bm % 2 = 1 THEN <<i>> ELSE <<>>) \o Scan(bm \div 2, i + 1)
  IN Scan(bitmap, 0)

\* The encoding the registry coordinator uses: one bit per quorum number.
QuorumIdsToBitmap(quorums) == SumSet({2^q : q \in quorums})

=============================================================================
