--------------------------- MODULE SearchProjectionMC ---------------------------
(***************************************************************************)
(* TLC instances of SearchProjection.                                      *)
(***************************************************************************)
EXTENDS SearchProjection, TLC

\* Writers are interchangeable, and so are titles and child rows.
WriterSymmetry ==
  Permutations(Writers) \cup Permutations(Titles) \cup Permutations(ChildRows)
=============================================================================
