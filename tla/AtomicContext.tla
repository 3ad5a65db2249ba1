--------------------------- MODULE AtomicContext ---------------------------
(***************************************************************************)
(* What the code of a process model may rely on: an evaluation changes the *)
(* data elements and the endpoints of the instance in one step, at most    *)
(* once, and on top of everything that was changed before.                 *)
(***************************************************************************)
CONSTANTS Evaluations,
          Fields      \* what a context consists of

VARIABLES context,    \* per field, the evaluations whose changes it has
          past        \* evaluations whose changes have been applied

vars == <<context, past>>

Init == /\ context = [f \in Fields |-> {}]
        /\ past = {}

Apply(e, F) ==
    /\ e \notin past
    /\ past' = past \cup {e}
    /\ context' = [f \in Fields |-> IF f \in F THEN context[f] \cup {e} ELSE context[f]]

Next == \E e \in Evaluations, F \in SUBSET Fields : Apply(e, F)

Spec == Init /\ [][Next]_vars
=============================================================================
