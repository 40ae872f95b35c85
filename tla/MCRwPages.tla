------------------------------ MODULE MCRwPages ------------------------------
(***************************************************************************)
(* Small instances of RwPages.  Pages are two words; code pages 2 and 3    *)
(* lie in different memory ranges, so a claim over both takes two map and  *)
(* two unmap calls.                                                        *)
(***************************************************************************)
EXTENDS RwPages, TLC

\* A claim inside a page, and a page-aligned claim over two ranges.
MCRequests == {[ro |-> 1, size |-> 1], [ro |-> 4, size |-> 4]}

\* And one that needs two pages, because it begins near the end of the first,
\* but whose size rounds up to one; so does a five-word patch.
MCCrossing == MCRequests \cup {[ro |-> 1, size |-> 2]}

MCRegionEnd == [p \in CodePages |-> p + 1]

MCNodes == 0 .. Cardinality(Objs) - 1
MCForbidden == {2}

MCSymmetry == Permutations(Threads) \cup Permutations(Objs)


=============================================================================
