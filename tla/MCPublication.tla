--------------------------- MODULE MCPublication ---------------------------
(* TLC instance of Publication. *)
EXTENDS Publication, TLC

TextSymmetry == Permutations(Texts)
=============================================================================
