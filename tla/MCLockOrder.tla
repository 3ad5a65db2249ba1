----------------------------- MODULE MCLockOrder -----------------------------
(* Instances of LockOrder. *)
EXTENDS LockOrder, TLC
MCSymmetry == Permutations(Workers) \cup Permutations(Sections)
=============================================================================
