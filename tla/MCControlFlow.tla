---------------------------- MODULE MCControlFlow ----------------------------
(* Programs for ControlFlow, in preorder. *)
EXTENDS ControlFlow

Call(kind, n) == [kind |-> kind, variant |-> "none", last |-> n]
Variant(kind, variant, n) == [kind |-> kind, variant |-> variant, last |-> n]

\* activity; choose(activity | activity, activity | otherwise activity); activity
MCChoice(variant) ==
    << Call("model", 10), Call("activity", 2),
       Variant("choose", variant, 9),
       Call("alternative", 5), Call("activity", 5),
       Call("alternative", 7), Call("activity", 7),
       Call("otherwise", 9), Call("activity", 9),
       Call("activity", 10) >>

\* An inclusive choose, one alternative of which is an exclusive choose
MCNestedChoice ==
    << Call("model", 11),
       Variant("choose", "inclusive", 10),
       Call("alternative", 8),
       Variant("choose", "exclusive", 8),
       Call("alternative", 6), Call("activity", 6),
       Call("otherwise", 8), Call("activity", 8),
       Call("otherwise", 10), Call("activity", 10),
       Call("activity", 11) >>

\* A loop that is left by an escape in a choice
MCLoop(test) ==
    << Call("model", 10),
       Variant("loop", test, 9),
       Call("activity", 3),
       Variant("choose", "exclusive", 9),
       Call("alternative", 6), Call("escape", 6),
       Call("otherwise", 9), Call("activity", 8), Call("activity", 9),
       Call("activity", 10) >>

\* A loop without choice that is left by an escape, in an alternative
MCEscape ==
    << Call("model", 9),
       Variant("choose", "exclusive", 8),
       Call("alternative", 6),
       Variant("loop", "post_test", 6), Call("activity", 5), Call("escape", 6),
       Call("otherwise", 8), Call("activity", 8),
       Call("activity", 9) >>

\* A loop in an alternative, left by an escape in a choice of its own
MCStale ==
    << Call("model", 14),
       Variant("choose", "exclusive", 14),
       Call("alternative", 10),
       Variant("loop", "post_test", 9),
       Variant("choose", "exclusive", 9),
       Call("alternative", 7), Call("activity", 7),
       Call("otherwise", 9), Call("escape", 9),
       Call("activity", 10),
       Call("alternative", 12), Call("activity", 12),
       Call("otherwise", 14), Call("activity", 14) >>

\* A critical section that stops; a choice that terminates; an escape outside
MCEnds ==
    << Call("model", 9),
       Call("critical", 4), Call("activity", 3), Call("stop", 4),
       Variant("choose", "inclusive", 8),
       Call("alternative", 7), Call("terminate", 7),
       Call("alternative", 8),
       Call("activity", 9) >>

\* Nothing catches this escape.
MCStray ==
    << Call("model", 4), Call("activity", 2), Call("critical", 4), Call("escape", 4) >>

MCPrograms == {MCChoice("exclusive"), MCChoice("inclusive"), MCNestedChoice,
               MCLoop("pre_test"), MCLoop("post_test"), MCEscape, MCStale,
               MCEnds, MCStray}
MCSearchPrograms == {MCChoice("exclusive")}
=============================================================================
