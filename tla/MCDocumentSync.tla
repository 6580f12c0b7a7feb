--------------------------- MODULE MCDocumentSync ---------------------------
(* Two sessions: one layer that the first has to itself, one they share.   *)
EXTENDS DocumentSync, TLC

CONSTANTS s1, s2, own, shared

SharedWorks == (s1 :> {own, shared}) @@ (s2 :> {shared})

Symmetry == Permutations(Cell)
=============================================================================
