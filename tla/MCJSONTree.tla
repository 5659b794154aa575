----------------------------- MODULE MCJSONTree -----------------------------
(* Variables of the application are interchangeable. *)
EXTENDS JSONTree, TLC

VarSymmetry == Permutations(Vars)
=============================================================================
