---------------------------- MODULE MCServiceCall ----------------------------
(* Instances of ServiceCall. *)
EXTENDS ServiceCall
=============================================================================
