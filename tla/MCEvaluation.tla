---------------------------- MODULE MCEvaluation ----------------------------
(* Instances of Evaluation. *)
EXTENDS Evaluation, TLC
CONSTANTS a, b, c
MCSymmetry == Permutations({a, b, c})
=============================================================================
