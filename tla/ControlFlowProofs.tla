-------------------------- MODULE ControlFlowProofs --------------------------
(***************************************************************************)
(* Theorems of ControlFlow, for every program and any number of lives.     *)
(***************************************************************************)
EXTENDS ControlFlow, SequenceTheorems, FiniteSetTheorems, TLAPS

\* What ControlFlowAssumption says of one program
Tree(p) ==
    /\ p \in Seq(Calls) /\ p # <<>>
    /\ p[1].kind = "model" /\ p[1].last = Len(p)
    /\ \A n \in Nodes(p) :
          /\ p[n].last \in n .. Len(p)
          /\ \A k \in Within(p, n) : p[k].last <= p[n].last
          /\ p[n].kind = "choose" => p[n].variant \in Variants
          /\ p[n].kind \in {"activity", "stop", "terminate", "escape"} => p[n].last = n
    /\ \A n \in Nodes(p) : \A c \in Children(p, n) :
          (p[c].kind \in {"alternative", "otherwise"}) <=> (p[n].kind = "choose")

\* The calls around n
Outer(p, n) == {k \in Nodes(p) : n \in Within(p, k)}

\* No call in n is around c.
Lone(p, n, c) == \A k \in Within(p, n) : c \notin Within(p, k)

Frames(p) == [node : Nodes(p), searched : BOOLEAN, pass : {"run", "search"}]

\* The stack is the path from the model to a call.
Path(p, st) ==
    /\ st \in Seq(Frames(p)) /\ st # <<>> /\ st[1].node = 1
    /\ \A i \in 1 .. Len(st) :
          Outer(p, st[i].node) = {st[j].node : j \in 1 .. i - 1}
    /\ \A i \in 1 .. Len(st) - 1 : st[i + 1].node \in Children(p, st[i].node)

\* a is a child of the last call of the stack, or the first after it.
Reaches(p, st, a) ==
    LET n == st[Len(st)].node
    IN  a \in n + 1 .. p[n].last + 1 /\ Lone(p, n, a)
-----------------------------------------------------------------------------
LEMMA ProgramIsTree ==
    ASSUME NEW p \in Programs
    PROVE  Tree(p)
BY ControlFlowAssumption DEF Tree

LEMMA TreeFacts ==
    ASSUME NEW p, Tree(p)
    PROVE  /\ Len(p) \in Nat \ {0} /\ 1 \in Nodes(p)
           /\ \A n \in Nodes(p) :
                /\ n \in Nat /\ n >= 1 /\ n <= Len(p)
                /\ p[n] \in Calls
                /\ p[n].last \in Nat /\ n <= p[n].last /\ p[n].last <= Len(p)
                /\ Within(p, n) \subseteq Nodes(p)
                /\ \A k \in Within(p, n) : n < k /\ k <= p[n].last /\ p[k].last <= p[n].last
<1>1. Len(p) \in Nat \ {0} /\ 1 \in Nodes(p)
  BY DEF Tree, Nodes
<1>2. ASSUME NEW n \in Nodes(p)
      PROVE  /\ n \in Nat /\ n >= 1 /\ n <= Len(p)
             /\ p[n] \in Calls
             /\ p[n].last \in Nat /\ n <= p[n].last /\ p[n].last <= Len(p)
             /\ Within(p, n) \subseteq Nodes(p)
             /\ \A k \in Within(p, n) : n < k /\ k <= p[n].last /\ p[k].last <= p[n].last
  <2>1. n \in Nat /\ n >= 1 /\ n <= Len(p) /\ p[n] \in Calls
    BY <1>1 DEF Tree, Nodes
  <2>2. p[n].last \in n .. Len(p) /\ \A k \in Within(p, n) : p[k].last <= p[n].last
    BY DEF Tree
  <2>3. Within(p, n) \subseteq Nodes(p)
    BY <1>1, <2>1, <2>2 DEF Within, Nodes
  <2> QED
    BY <1>1, <2>1, <2>2, <2>3 DEF Within
<1> QED
  BY <1>1, <1>2

LEMMA ChildrenAre ==
    ASSUME NEW p, NEW n, NEW c
    PROVE  c \in Children(p, n) <=> c \in Within(p, n) /\ Lone(p, n, c)
BY DEF Children, Lone

\* The calls around a child are the parent and those around the parent.
LEMMA OuterOfChild ==
    ASSUME NEW p, Tree(p), NEW n \in Nodes(p), NEW c \in Children(p, n)
    PROVE  Outer(p, c) = {n} \cup Outer(p, n)
<1>1. c \in Within(p, n) /\ Lone(p, n, c) /\ c \in Nodes(p)
  BY ChildrenAre, TreeFacts
<1>2. ASSUME NEW k \in Outer(p, c)
      PROVE  k \in {n} \cup Outer(p, n)
  <2>1. k \in Nodes(p) /\ c \in Within(p, k)
    BY <1>2 DEF Outer
  <2>2. k \notin Within(p, n)
    BY <1>1, <2>1 DEF Lone
  <2>3. k < c /\ c <= p[k].last /\ n < c /\ c <= p[n].last /\ n \in Nat /\ k \in Nat /\ c \in Nat
        /\ p[n].last \in Nat /\ p[k].last \in Nat
    BY <1>1, <2>1, TreeFacts
  <2>4. ~(n < k)
    BY <2>2, <2>3 DEF Within
  <2>5. k < n => n \in Within(p, k)
    BY <2>3 DEF Within
  <2> QED
    BY <2>1, <2>3, <2>4, <2>5 DEF Outer
<1>3. n \in Outer(p, c)
  BY <1>1 DEF Outer
<1>4. ASSUME NEW k \in Outer(p, n)
      PROVE  k \in Outer(p, c)
  <2>1. k \in Nodes(p) /\ n \in Within(p, k)
    BY <1>4 DEF Outer
  <2>2. k < n /\ n < c /\ c <= p[n].last /\ p[n].last <= p[k].last /\ k \in Nat /\ n \in Nat
        /\ c \in Nat /\ p[n].last \in Nat /\ p[k].last \in Nat
    BY <1>1, <2>1, TreeFacts
  <2> QED
    BY <2>1, <2>2 DEF Outer, Within
<1> QED
  BY <1>2, <1>3, <1>4

\* The call that follows a child, or the end of the parent, is as good as a child.
LEMMA LoneNext ==
    ASSUME NEW p, Tree(p), NEW n \in Nodes(p), NEW c \in Children(p, n)
    PROVE  /\ Lone(p, n, p[c].last + 1)
           /\ p[c].last + 1 \in n + 1 .. p[n].last + 1
           /\ p[c].last + 1 > c
<1>1. c \in Within(p, n) /\ Lone(p, n, c) /\ c \in Nodes(p) /\ n < c /\ c <= p[n].last
      /\ p[c].last <= p[n].last /\ c <= p[c].last
      /\ n \in Nat /\ c \in Nat /\ p[c].last \in Nat /\ p[n].last \in Nat
  BY ChildrenAre, TreeFacts
<1>2. ASSUME NEW k \in Within(p, n), p[c].last + 1 \in Within(p, k)
      PROVE  FALSE
  <2>1. k \in Nodes(p) /\ k \in Nat /\ p[k].last \in Nat /\ k <= p[c].last /\ p[c].last < p[k].last
    BY <1>1, <1>2, TreeFacts DEF Within
  <2>2. CASE k < c
    BY <1>1, <1>2, <2>1, <2>2 DEF Lone, Within
  <2>3. CASE k > c
    <3>1. k \in Within(p, c)
      BY <1>1, <2>1, <2>3 DEF Within
    <3> QED
      BY <1>1, <2>1, <3>1, TreeFacts
  <2> QED
    BY <1>1, <2>1, <2>2, <2>3
<1> QED
  BY <1>1, <1>2 DEF Lone

LEMMA LoneFirst ==
    ASSUME NEW p, Tree(p), NEW n \in Nodes(p)
    PROVE  Lone(p, n, n + 1) /\ Lone(p, n, p[n].last + 1)
<1>1. ASSUME NEW k \in Within(p, n)
      PROVE  n + 1 \notin Within(p, k) /\ p[n].last + 1 \notin Within(p, k)
  <2>1. k \in Nodes(p) /\ k \in Nat /\ n \in Nat /\ n < k
        /\ p[k].last \in Nat /\ p[n].last \in Nat /\ p[k].last <= p[n].last
    BY <1>1, TreeFacts
  <2> QED
    BY <2>1 DEF Within
<1> QED
  BY <1>1 DEF Lone
-----------------------------------------------------------------------------
LEMMA PathFacts ==
    ASSUME NEW p, Tree(p), NEW st, Path(p, st)
    PROVE  /\ Len(st) \in Nat \ {0} /\ st \in Seq(Frames(p))
           /\ Last(st) = st[Len(st)]
           /\ \A i \in 1 .. Len(st) :
                /\ st[i] \in Frames(p) /\ st[i].node \in Nodes(p) /\ st[i].node \in Nat
                /\ p[st[i].node].last \in Nat
                /\ \A j \in 1 .. i - 1 :
                     /\ st[i].node \in Within(p, st[j].node)
                     /\ st[j].node < st[i].node
                     /\ p[st[i].node].last <= p[st[j].node].last
<1>1. Len(st) \in Nat \ {0} /\ st \in Seq(Frames(p))
  BY DEF Path
<1>2. ASSUME NEW i \in 1 .. Len(st)
      PROVE  st[i] \in Frames(p) /\ st[i].node \in Nodes(p) /\ st[i].node \in Nat
             /\ p[st[i].node].last \in Nat
  <2>1. st[i] \in Frames(p)
    BY <1>1, ElementOfSeq
  <2> QED
    BY <2>1, TreeFacts DEF Frames
<1>3. ASSUME NEW i \in 1 .. Len(st), NEW j \in 1 .. i - 1
      PROVE  /\ st[i].node \in Within(p, st[j].node)
             /\ st[j].node < st[i].node
             /\ p[st[i].node].last <= p[st[j].node].last
  <2>1. st[j].node \in Outer(p, st[i].node)
    BY DEF Path
  <2> QED
    BY <2>1, TreeFacts DEF Outer
<1> QED
  BY <1>1, <1>2, <1>3 DEF Last

\* A life starts in the model, before its first call.
LEMMA PathOfModel ==
    ASSUME NEW p, Tree(p), NEW f \in Frames(p), f.node = 1
    PROVE  Path(p, <<f>>) /\ Reaches(p, <<f>>, 2)
<1>1. <<f>> \in Seq(Frames(p)) /\ <<f>> # <<>> /\ Len(<<f>>) = 1 /\ <<f>>[1] = f
  OBVIOUS
<1>2. Outer(p, 1) = {}
  BY TreeFacts DEF Outer
<1>3. Path(p, <<f>>)
  BY <1>1, <1>2 DEF Path
<1> QED
  BY <1>1, <1>3, TreeFacts, LoneFirst DEF Reaches

\* Entering the call a
LEMMA PathEnter ==
    ASSUME NEW p, Tree(p), NEW st, Path(p, st), NEW a, Reaches(p, st, a),
           a <= p[st[Len(st)].node].last, NEW f \in Frames(p), f.node = a
    PROVE  /\ Path(p, Append(st, f)) /\ a \in Children(p, st[Len(st)].node)
           /\ Reaches(p, Append(st, f), a + 1)
           /\ Reaches(p, Append(st, f), p[a].last + 1)
           /\ Outer(p, a) = {st[j].node : j \in 1 .. Len(st)}
<1> DEFINE su == Append(st, f)
           d == Len(st)
           n == st[Len(st)].node
<1>1. /\ d \in Nat \ {0} /\ st \in Seq(Frames(p)) /\ n \in Nodes(p)
      /\ n \in Nat /\ p[n].last \in Nat
  BY PathFacts
<1>2. /\ su \in Seq(Frames(p)) /\ su # <<>> /\ Len(su) = d + 1
      /\ \A i \in 1 .. d : su[i] = st[i]
      /\ su[d + 1] = f
  BY <1>1, AppendProperties
<1>3. a \in Children(p, n) /\ a \in Nodes(p) /\ a \in Nat
  <2>1. a \in Within(p, n)
    BY <1>1 DEF Reaches, Within
  <2> QED
    BY <1>1, <2>1, ChildrenAre, TreeFacts DEF Reaches
<1>4. Outer(p, a) = {st[j].node : j \in 1 .. d}
  <2>1. Outer(p, a) = {n} \cup Outer(p, n)
    BY <1>1, <1>3, OuterOfChild
  <2>2. Outer(p, n) = {st[j].node : j \in 1 .. d - 1}
    <3>1. d \in 1 .. Len(st)
      BY <1>1
    <3> QED
      BY <3>1 DEF Path
  <2>3. 1 .. d = (1 .. d - 1) \cup {d}
    BY <1>1
  <2> QED
    BY <2>1, <2>2, <2>3
<1> HIDE DEF su
<1>5. ASSUME NEW i \in 1 .. d + 1
      PROVE  Outer(p, su[i].node) = {su[j].node : j \in 1 .. i - 1}
  <2>1. \A j \in 1 .. i - 1 : su[j] = st[j]
    BY <1>1, <1>2
  <2>2. {su[j].node : j \in 1 .. i - 1} = {st[j].node : j \in 1 .. i - 1}
    BY <2>1
  <2>3. CASE i \in 1 .. d
    BY <1>2, <2>2, <2>3 DEF Path
  <2>4. CASE i = d + 1
    <3>1. i - 1 = d
      BY <1>1, <2>4
    <3> QED
      BY <1>2, <1>4, <2>2, <2>4, <3>1
  <2> QED
    BY <1>1, <2>3, <2>4
<1>6. ASSUME NEW i \in 1 .. d
      PROVE  su[i + 1].node \in Children(p, su[i].node)
  <2>1. CASE i \in 1 .. d - 1
    <3>1. i + 1 \in 1 .. d
      BY <1>1, <2>1
    <3>2. st[i + 1].node \in Children(p, st[i].node)
      BY <2>1 DEF Path
    <3> QED
      BY <1>2, <3>1, <3>2
  <2>2. CASE i = d
    BY <1>2, <1>3, <2>2
  <2> QED
    BY <1>1, <2>1, <2>2
<1>7. Path(p, su)
  <2>1. su[1].node = 1
    BY <1>1, <1>2 DEF Path
  <2>2. Len(su) - 1 = d
    BY <1>1, <1>2
  <2> QED
    BY <1>2, <1>5, <1>6, <2>1, <2>2 DEF Path
<1>8. Reaches(p, su, a + 1) /\ Reaches(p, su, p[a].last + 1)
  BY <1>2, <1>3, LoneFirst, TreeFacts DEF Reaches
<1> QED
  BY <1>3, <1>4, <1>7, <1>8 DEF su

\* Going on to the call after a
LEMMA PathPass ==
    ASSUME NEW p, Tree(p), NEW st, Path(p, st), NEW a, Reaches(p, st, a),
           a <= p[st[Len(st)].node].last
    PROVE  Reaches(p, st, p[a].last + 1) /\ p[a].last + 1 > a
<1> DEFINE n == st[Len(st)].node
<1>1. n \in Nodes(p) /\ n \in Nat /\ p[n].last \in Nat
  BY PathFacts
<1>2. a \in Children(p, n)
  BY <1>1, ChildrenAre DEF Reaches, Within
<1> QED
  BY <1>1, <1>2, LoneNext DEF Reaches

\* Beginning the last call of the stack anew
LEMMA PathAgain ==
    ASSUME NEW p, Tree(p), NEW st, Path(p, st)
    PROVE  Reaches(p, st, st[Len(st)].node + 1)
<1> DEFINE n == st[Len(st)].node
<1>1. n \in Nodes(p) /\ n \in Nat /\ p[n].last \in Nat
  BY PathFacts
<1> QED
  BY <1>1, LoneFirst, TreeFacts DEF Reaches

\* Leaving the calls of the stack after the n-th, with the i-th at its end
LEMMA PathLeave ==
    ASSUME NEW p, Tree(p), NEW st, Path(p, st),
           NEW i \in 1 .. Len(st), NEW n \in {i - 1, i}, n >= 1
    PROVE  /\ Path(p, SubSeq(st, 1, n)) /\ Len(SubSeq(st, 1, n)) = n
           /\ \A j \in 1 .. n : SubSeq(st, 1, n)[j] = st[j]
           /\ Reaches(p, SubSeq(st, 1, n), p[st[i].node].last + 1)
<1> DEFINE su == SubSeq(st, 1, n)
<1>1. /\ Len(st) \in Nat \ {0} /\ st \in Seq(Frames(p)) /\ n \in 1 .. Len(st) /\ n \in Int
      /\ st[i].node \in Nodes(p) /\ st[n].node \in Nodes(p)
  BY PathFacts
<1>2. su \in Seq(Frames(p)) /\ Len(su) = n /\ \A j \in 1 .. n : su[j] = st[j]
  <2>1. \A j \in 1 .. n : st[j] \in Frames(p)
    BY <1>1, ElementOfSeq
  <2>2. /\ SubSeq(st, 1, n) \in Seq(Frames(p))
        /\ Len(SubSeq(st, 1, n)) = IF 1 <= n THEN n - 1 + 1 ELSE 0
        /\ \A j \in 1 .. n - 1 + 1 : SubSeq(st, 1, n)[j] = st[1 + j - 1]
    BY <1>1, <2>1, SubSeqProperties
  <2> QED
    BY <1>1, <2>2
<1> HIDE DEF su
<1>3. Path(p, su)
  <2>1. ASSUME NEW k \in 1 .. n
        PROVE  Outer(p, su[k].node) = {su[j].node : j \in 1 .. k - 1}
    <3>1. k \in 1 .. Len(st) /\ \A j \in 1 .. k - 1 : su[j] = st[j]
      BY <1>1, <1>2
    <3>2. {su[j].node : j \in 1 .. k - 1} = {st[j].node : j \in 1 .. k - 1}
      BY <3>1
    <3> QED
      BY <1>2, <3>1, <3>2 DEF Path
  <2>2. ASSUME NEW k \in 1 .. n - 1
        PROVE  su[k + 1].node \in Children(p, su[k].node)
    <3>1. k \in 1 .. Len(st) - 1 /\ su[k] = st[k] /\ su[k + 1] = st[k + 1]
      BY <1>1, <1>2
    <3> QED
      BY <3>1 DEF Path
  <2>3. su # <<>> /\ su[1].node = 1
    BY <1>1, <1>2 DEF Path
  <2> QED
    BY <1>2, <2>1, <2>2, <2>3 DEF Path
<1>4. Reaches(p, su, p[st[i].node].last + 1)
  <2>1. CASE n = i
    BY <1>1, <1>2, <2>1, LoneFirst, TreeFacts DEF Reaches
  <2>2. CASE n = i - 1
    <3>1. st[i].node \in Children(p, st[n].node)
      <4>1. n \in 1 .. Len(st) - 1 /\ n + 1 = i
        BY <1>1, <2>2
      <4> QED
        BY <4>1 DEF Path
    <3> QED
      BY <1>1, <1>2, <3>1, LoneNext DEF Reaches
  <2> QED
    BY <2>1, <2>2
<1> QED
  BY <1>2, <1>3, <1>4 DEF su

\* Who ends at or after a, having begun before, is on the stack.
LEMMA OpenIsOnPath ==
    ASSUME NEW p, Tree(p), NEW st, Path(p, st), NEW a, Reaches(p, st, a),
           NEW n \in Nodes(p), n < a, a <= p[n].last
    PROVE  \E i \in 1 .. Len(st) : st[i].node = n
<1> DEFINE t == st[Len(st)].node
<1>1. /\ Len(st) \in Nat \ {0} /\ t \in Nodes(p) /\ t \in Nat /\ p[t].last \in Nat
      /\ n \in Nat /\ p[n].last \in Nat
      /\ a \in Nat /\ t < a /\ a <= p[t].last + 1 /\ Lone(p, t, a)
  BY PathFacts, TreeFacts DEF Reaches
<1>2. n \notin Within(p, t)
  BY <1>1 DEF Lone, Within
<1>3. n <= t
  BY <1>1, <1>2, TreeFacts DEF Within
<1>4. CASE n = t
  BY <1>1, <1>4
<1>5. CASE n < t
  <2>1. n \in Outer(p, t)
    BY <1>1, <1>5 DEF Outer, Within
  <2>2. Outer(p, t) = {st[j].node : j \in 1 .. Len(st) - 1}
    <3>1. Len(st) \in 1 .. Len(st)
      BY <1>1
    <3> QED
      BY <3>1 DEF Path
  <2> QED
    BY <1>1, <2>1, <2>2
<1> QED
  BY <1>1, <1>3, <1>4, <1>5

\* And who is on the stack does not end before a.
LEMMA OnPathIsOpen ==
    ASSUME NEW p, Tree(p), NEW st, Path(p, st), NEW a, Reaches(p, st, a),
           NEW i \in 1 .. Len(st)
    PROVE  st[i].node < a /\ a <= p[st[i].node].last + 1
<1> DEFINE d == Len(st)
           t == st[d].node
<1>1. d \in Nat \ {0} /\ d \in 1 .. d /\ a \in t + 1 .. p[t].last + 1
      /\ t \in Nat /\ p[t].last \in Nat
  BY PathFacts DEF Reaches
<1>2. CASE i = d
  BY <1>1, <1>2
<1>3. CASE i \in 1 .. d - 1
  <2>1. st[i].node < t /\ p[t].last <= p[st[i].node].last
        /\ st[i].node \in Nat /\ p[st[i].node].last \in Nat
    BY <1>1, <1>3, PathFacts
  <2> HIDE DEF t, d
  <2> QED
    BY <1>1, <2>1
<1> QED
  BY <1>1, <1>2, <1>3

LEMMA ReachesNat ==
    ASSUME NEW p, Tree(p), NEW st, Path(p, st), NEW a, Reaches(p, st, a)
    PROVE  a \in Nat
<1>1. Len(st) \in 1 .. Len(st)
  BY PathFacts
<1>2. st[Len(st)].node \in Nat /\ p[st[Len(st)].node].last \in Nat
  BY <1>1, PathFacts
<1> QED
  BY <1>2 DEF Reaches
-----------------------------------------------------------------------------
\* The stack is a path of the program and at is where it can go on; nothing but
\* an instance that has ended has no stack.
Shape ==
    IF stack = <<>>
    THEN state \in {"Stopped", "Finished"}
    ELSE /\ state \in {"Running", "Stopping", "Finishing"}
         /\ Path(program, stack)
         /\ Reaches(program, stack, at)
         /\ \A i \in 2 .. Len(stack) : Kind(stack[i].node) # "model"

LEMMA Here ==
    ASSUME TypeOK, Shape, stack # <<>>
    PROVE  /\ Tree(program) /\ Path(program, stack) /\ Reaches(program, stack, at)
           /\ Len(stack) \in Nat \ {0} /\ Len(stack) \in 1 .. Len(stack)
           /\ Top = stack[Len(stack)]
           /\ Top \in Frames(program) /\ Top.node \in Nodes(program) /\ Top.node \in Nat
           /\ at \in Nat /\ at > Top.node /\ at <= Past(Top.node)
           /\ program[Top.node].last \in Nat
           /\ at <= program[Top.node].last => /\ at \in Children(program, Top.node)
                                             /\ at \in Within(program, Top.node)
                                             /\ at \in Nodes(program)
<1>1. Tree(program)
  BY ProgramIsTree DEF TypeOK
<1>2. Path(program, stack) /\ Reaches(program, stack, at)
  BY DEF Shape
<1>3. /\ Len(stack) \in Nat \ {0} /\ Len(stack) \in 1 .. Len(stack)
      /\ Top = stack[Len(stack)]
      /\ Top \in Frames(program) /\ Top.node \in Nodes(program) /\ Top.node \in Nat
      /\ program[Top.node].last \in Nat
  BY <1>1, <1>2, PathFacts DEF Top
<1>4. /\ at \in Nat /\ at > Top.node /\ at <= Past(Top.node)
      /\ Lone(program, Top.node, at)
  BY <1>2, <1>3 DEF Reaches, Past
<1>5. at <= program[Top.node].last => at \in Within(program, Top.node)
  BY <1>3, <1>4 DEF Within
<1> QED
  BY <1>1, <1>2, <1>3, <1>4, <1>5, ChildrenAre, TreeFacts

\* The call that comes next
LEMMA ComesHere ==
    ASSUME TypeOK, Shape, NEW k, Comes(k)
    PROVE  /\ stack # <<>> /\ at <= program[Top.node].last /\ at \in Nodes(program)
           /\ at \in Children(program, Top.node) /\ at \in Within(program, Top.node)
           /\ Kind(at) = k /\ program[at].last \in Nat /\ at <= program[at].last
           /\ program[at].last <= program[Top.node].last
<1>1. stack # <<>> /\ at < Past(Top.node) /\ Kind(at) = k
  BY DEF Comes
<1>2. at <= program[Top.node].last
  BY <1>1, Here DEF Past
<1> QED
  BY <1>1, <1>2, Here, TreeFacts

\* The lambda of the call a is entered.
LEMMA EnterStep ==
    ASSUME TypeOK, Shape, NEW k, Comes(k), program' = program, k # "model",
           NEW pass \in {"run", "search"}, stack' = Append(stack, Frame(at, pass)),
           at' \in {at + 1, Past(at)}
    PROVE  /\ Len(stack') = Len(stack) + 1 /\ stack' # <<>>
           /\ \A i \in 1 .. Len(stack) : stack'[i] = stack[i]
           /\ stack'[Len(stack) + 1] = Frame(at, pass) /\ Top' = Frame(at, pass)
           /\ Path(program, stack') /\ Reaches(program, stack', at')
           /\ \A i \in 2 .. Len(stack') : program[stack'[i].node].kind # "model"
<1>1. /\ stack # <<>> /\ at <= program[Top.node].last /\ at \in Nodes(program)
      /\ Kind(at) = k
  BY ComesHere
<1>2. /\ Tree(program) /\ Path(program, stack) /\ Reaches(program, stack, at)
      /\ Len(stack) \in Nat \ {0} /\ Top = stack[Len(stack)]
  BY <1>1, Here
<1> DEFINE f == Frame(at, pass)
<1>3. f \in Frames(program) /\ f.node = at
  BY <1>1 DEF Frame, Frames, TypeOK
<1>4. /\ Path(program, Append(stack, f))
      /\ Reaches(program, Append(stack, f), at + 1)
      /\ Reaches(program, Append(stack, f), program[at].last + 1)
  BY <1>1, <1>2, <1>3, PathEnter
<1>5. stack \in Seq(Frames(program))
  BY <1>2 DEF Path
<1> HIDE DEF f
<1>6. /\ Len(stack') = Len(stack) + 1 /\ stack' # <<>>
      /\ \A i \in 1 .. Len(stack) : stack'[i] = stack[i]
      /\ stack'[Len(stack) + 1] = f
  BY <1>3, <1>5, AppendProperties DEF f
<1>7. Top' = f
  BY <1>6 DEF Top, Last
<1>8. ASSUME NEW i \in 2 .. Len(stack')
      PROVE  program[stack'[i].node].kind # "model"
  <2>1. CASE i \in 2 .. Len(stack)
    BY <1>1, <1>2, <1>6, <2>1 DEF Shape, Kind
  <2>2. CASE i = Len(stack) + 1
    BY <1>1, <1>3, <1>6, <2>2 DEF Kind
  <2> QED
    BY <1>2, <1>6, <2>1, <2>2
<1> QED
  BY <1>4, <1>6, <1>7, <1>8 DEF f, Past

\* The call that comes next is passed over.
LEMMA PassStep ==
    ASSUME TypeOK, Shape, NEW k, Comes(k), at' = Past(at)
    PROVE  Reaches(program, stack, at') /\ at' \in Nat /\ at' > at
<1>1. stack # <<>> /\ at <= program[Top.node].last /\ program[at].last \in Nat
  BY ComesHere
<1> QED
  BY <1>1, Here, PathPass DEF Past

\* The last call of the stack is left.
LEMMA LeaveStep ==
    ASSUME TypeOK, Shape, NEW k, AtEnd(k), k # "model", stack' = Front(stack), at' = at
    PROVE  /\ Len(stack) >= 2 /\ Len(stack') = Len(stack) - 1 /\ stack' # <<>>
           /\ \A i \in 1 .. Len(stack) - 1 : stack'[i] = stack[i]
           /\ Top' = stack[Len(stack) - 1]
           /\ Top.node \in Children(program, stack[Len(stack) - 1].node)
           /\ Kind(Top.node) = k
           /\ Path(program, stack') /\ Reaches(program, stack', at')
           /\ \A i \in 2 .. Len(stack') : program[stack'[i].node].kind # "model"
<1>1. stack # <<>> /\ at = Past(Top.node) /\ Kind(Top.node) = k
  BY DEF AtEnd
<1> DEFINE d == Len(stack)
<1>2. /\ Tree(program) /\ Path(program, stack)
      /\ d \in Nat \ {0} /\ d \in 1 .. d /\ Top = stack[d]
  BY <1>1, Here
<1>3. d >= 2
  <2>1. program[stack[1].node].kind = "model"
    BY <1>2 DEF Tree, Path
  <2>2. d # 1
    BY <1>1, <1>2, <2>1 DEF Kind
  <2> HIDE DEF d
  <2> QED
    BY <1>2, <2>2
<1>4. stack' = SubSeq(stack, 1, d - 1)
  BY DEF Front
<1>5. /\ Path(program, stack') /\ Len(stack') = d - 1
      /\ \A j \in 1 .. d - 1 : stack'[j] = stack[j]
      /\ Reaches(program, stack', program[stack[d].node].last + 1)
  <2>1. d - 1 \in {d - 1, d} /\ d - 1 >= 1
    BY <1>2, <1>3
  <2> HIDE DEF d
  <2> QED
    BY <1>2, <1>4, <2>1, PathLeave DEF d
<1>6. Reaches(program, stack', at')
  BY <1>1, <1>2, <1>5 DEF Past
<1>7. stack' # <<>> /\ Top' = stack[d - 1]
  <2>1. stack' # <<>>
    BY <1>5 DEF Path
  <2>2. d - 1 \in 1 .. d - 1
    BY <1>2, <1>3
  <2> QED
    BY <1>5, <2>1, <2>2 DEF Top, Last
<1>8. Top.node \in Children(program, stack[d - 1].node)
  <2>1. d - 1 \in 1 .. d - 1 /\ (d - 1) + 1 = d
    BY <1>2, <1>3
  <2>2. stack[(d - 1) + 1].node \in Children(program, stack[d - 1].node)
    BY <1>2, <2>1 DEF Path
  <2> QED
    BY <1>2, <2>1, <2>2
<1>9. \A i \in 2 .. Len(stack') : program[stack'[i].node].kind # "model"
  BY <1>1, <1>2, <1>5 DEF Shape, Kind
<1> QED
  BY <1>1, <1>3, <1>5, <1>6, <1>7, <1>8, <1>9

\* An escape cuts the stack.
LEMMA UnwindStep ==
    ASSUME TypeOK, Shape, stack # <<>>, NEW i \in 1 .. Len(stack),
           NEW n \in {i - 1, i}, n >= 1, Unwind(i, n)
    PROVE  /\ Len(stack') = n /\ n <= Len(stack) /\ stack' # <<>>
           /\ \A j \in 1 .. n : stack'[j] = stack[j]
           /\ Top' = stack[n]
           /\ Path(program, stack') /\ Reaches(program, stack', at')
           /\ at' = Past(stack[i].node) /\ at' >= at /\ at' \in Nat
           /\ \A j \in 2 .. Len(stack') : program[stack'[j].node].kind # "model"
<1>1. /\ Tree(program) /\ Path(program, stack) /\ Reaches(program, stack, at)
      /\ Len(stack) \in Nat \ {0} /\ at \in Nat
  BY Here
<1>2. stack' = SubSeq(stack, 1, n) /\ at' = Past(stack[i].node)
  BY DEF Unwind
<1>3. /\ Path(program, stack') /\ Len(stack') = n
      /\ \A j \in 1 .. n : stack'[j] = stack[j]
      /\ Reaches(program, stack', at')
  BY <1>1, <1>2, PathLeave DEF Past
<1>4. n <= Len(stack) /\ n \in 1 .. n /\ 2 .. n \subseteq 2 .. Len(stack)
  BY <1>1
<1>5. stack' # <<>> /\ Top' = stack[n]
  BY <1>3, <1>4 DEF Top, Last, Path
<1>6. at' >= at /\ at' \in Nat
  <2>1. at <= program[stack[i].node].last + 1 /\ program[stack[i].node].last \in Nat
    BY <1>1, OnPathIsOpen, PathFacts
  <2> QED
    BY <1>1, <1>2, <2>1 DEF Past
<1>7. \A j \in 2 .. Len(stack') : program[stack'[j].node].kind # "model"
  BY <1>3, <1>4 DEF Shape, Kind
<1> QED
  BY <1>2, <1>3, <1>4, <1>5, <1>6, <1>7

\* What is cut: nothing, from the model or a loop on.
LEMMA EscapeStep ==
    ASSUME TypeOK, Shape, Escape, at' # Past(at) \/ stack' # stack
    PROVE  /\ stack # <<>> /\ ~searching /\ ~ShouldSkip
           /\ \E i \in 1 .. Len(stack) : \E n \in {i - 1, i} :
                /\ n >= 1 /\ Unwind(i, n)
                /\ \/ i = 1 /\ n = 1 /\ state' = "Stopping"
                   \/ Kind(stack[i].node) = "loop" /\ state' = state
<1>1. stack # <<>>
  BY DEF Escape, Comes
<1>2. Len(stack) \in Nat \ {0} /\ Tree(program) /\ Path(program, stack)
  BY <1>1, Here
<1>3. ~searching /\ ~ShouldSkip
  BY DEF Escape, PassOver
<1>4. CASE Unwind(1, 1) /\ state' = "Stopping"
  BY <1>1, <1>2, <1>3, <1>4
<1>5. CASE /\ state' = state
           /\ \E i \in LoopsAt : Unwind(i, IF stack[i].pass = "run" THEN i - 1 ELSE i)
  <2>1. PICK i \in LoopsAt : Unwind(i, IF stack[i].pass = "run" THEN i - 1 ELSE i)
    BY <1>5
  <2>2. i \in 1 .. Len(stack) /\ Kind(stack[i].node) = "loop"
    BY <1>2, PathFacts DEF LoopsAt
  <2>3. i # 1
    BY <1>2, <2>2 DEF Tree, Path, Kind
  <2> DEFINE n == IF stack[i].pass = "run" THEN i - 1 ELSE i
  <2>4. n \in {i - 1, i} /\ n >= 1
    BY <2>2, <2>3
  <2> QED
    BY <1>1, <1>3, <1>5, <2>1, <2>2, <2>4
<1> QED
  BY <1>3, <1>4, <1>5 DEF Escape, PassOver

\* The search has ended in the lambda of a loop.
LEMMA FlipStep ==
    ASSUME TypeOK, Shape, stack # <<>>, at' = at,
           stack' = [stack EXCEPT ![Len(stack)].pass = "run"]
    PROVE  /\ Len(stack') = Len(stack) /\ stack' # <<>>
           /\ \A i \in 1 .. Len(stack) : /\ stack'[i].node = stack[i].node
                                         /\ stack'[i].searched = stack[i].searched
           /\ Top'.node = Top.node /\ Top'.searched = Top.searched
           /\ Path(program, stack') /\ Reaches(program, stack', at')
           /\ \A i \in 2 .. Len(stack') : program[stack'[i].node].kind # "model"
<1> DEFINE d == Len(stack)
           f == [stack[d] EXCEPT !.pass = "run"]
<1>1. /\ Path(program, stack) /\ Reaches(program, stack, at)
      /\ d \in Nat \ {0} /\ d \in 1 .. d
      /\ Top = stack[d] /\ stack \in Seq(Frames(program)) /\ stack[d] \in Frames(program)
  BY Here DEF Path
<1>2. f \in Frames(program) /\ f.node = stack[d].node /\ f.searched = stack[d].searched
  BY <1>1 DEF Frames
<1>3. stack' = [stack EXCEPT ![d] = f]
  OBVIOUS
<1> HIDE DEF f
<1>4. /\ stack' \in Seq(Frames(program)) /\ Len(stack') = d
      /\ \A j \in 1 .. d : stack'[j] = IF j = d THEN f ELSE stack[j]
  BY <1>1, <1>2, <1>3, ExceptSeq
<1>5. \A i \in 1 .. d : stack'[i].node = stack[i].node /\ stack'[i].searched = stack[i].searched
  BY <1>2, <1>4
<1>6. stack' # <<>> /\ Top' = stack'[d]
  BY <1>1, <1>4 DEF Top, Last
<1> HIDE DEF d
<1>7. Path(program, stack')
  <2>1. ASSUME NEW i \in 1 .. d
        PROVE  Outer(program, stack'[i].node) = {stack'[j].node : j \in 1 .. i - 1}
    <3>1. \A j \in 1 .. i - 1 : stack'[j].node = stack[j].node
      BY <1>1, <1>5
    <3>2. Outer(program, stack[i].node) = {stack[j].node : j \in 1 .. i - 1}
      BY <1>1 DEF Path, d
    <3>3. {stack'[j].node : j \in 1 .. i - 1} = {stack[j].node : j \in 1 .. i - 1}
      BY <3>1
    <3> QED
      BY <1>5, <3>2, <3>3
  <2>2. ASSUME NEW i \in 1 .. d - 1
        PROVE  stack'[i + 1].node \in Children(program, stack'[i].node)
    <3>1. i \in 1 .. d /\ i + 1 \in 1 .. d
      BY <1>1
    <3>2. stack[i + 1].node \in Children(program, stack[i].node)
      BY <1>1 DEF Path, d
    <3> QED
      BY <1>5, <3>1, <3>2
  <2>3. stack'[1].node = 1
    BY <1>1, <1>5 DEF Path
  <2> QED
    BY <1>4, <1>6, <2>1, <2>2, <2>3 DEF Path
<1>8. Reaches(program, stack', at')
  BY <1>1, <1>4, <1>5 DEF Reaches, d
<1>9. \A i \in 2 .. d : program[stack'[i].node].kind # "model"
  <2>1. \A i \in 2 .. d : i \in 1 .. d
    BY <1>1
  <2> QED
    BY <1>5, <2>1 DEF Shape, Kind, d
<1> QED
  BY <1>1, <1>4, <1>5, <1>6, <1>7, <1>8, <1>9 DEF d

LEMMA ShapeStep ==
    ASSUME TypeOK, Shape, Next
    PROVE  Shape' /\ program' = program
<1> DEFINE Fits == /\ Path(program, stack') /\ Reaches(program, stack', at')
                   /\ \A i \in 2 .. Len(stack') : program[stack'[i].node].kind # "model"
           Going == {"Running", "Stopping", "Finishing"}
<1>1. program' = program
  BY DEF Next, vars, Choose, EndChoose, PassAlternative, Alternative, EndAlternative,
         Otherwise, EndOtherwise, Loop, LoopSearched, LoopTest, Escape, Critical,
         EndCritical, BeginActivity, CompleteActivity, LeaveActivity, Stop, Terminate,
         StopWeel, EndModel, Restart, Done
<1>2. stack' # <<>> /\ Fits /\ state' \in Going => Shape'
  BY <1>1 DEF Shape, Kind
<1>3. stack # <<>> => Fits \/ at' # at \/ stack' # stack
  BY DEF Shape, Kind
<1>4. stack # <<>> => state \in Going
  BY DEF Shape
<1>5. ASSUME NEW k, Comes(k), PassOver, state' \in Going
      PROVE  Shape'
  <2>1. stack # <<>>
    BY <1>5, ComesHere
  <2>2. Reaches(program, stack, at') /\ stack' = stack
    BY <1>5, PassStep DEF PassOver
  <2> QED
    BY <1>1, <1>5, <2>1, <2>2 DEF Shape, Kind
<1>6. ASSUME NEW k, Comes(k), k # "model", NEW pass \in {"run", "search"},
             stack' = Append(stack, Frame(at, pass)), at' \in {at + 1, Past(at)},
             state' \in Going
      PROVE  Shape'
  <2>1. Fits /\ stack' # <<>>
    BY <1>1, <1>6, EnterStep
  <2> QED
    BY <1>2, <1>6, <2>1
<1>7. ASSUME NEW k, AtEnd(k), k # "model", Leave, state' \in Going
      PROVE  Shape'
  <2>1. stack' # <<>> /\ Fits
    BY <1>7, LeaveStep DEF Leave
  <2> QED
    BY <1>2, <1>7, <2>1
<1>8. ASSUME UNCHANGED <<at, stack>>, stack # <<>>, state' \in Going
      PROVE  Shape'
  BY <1>2, <1>3, <1>8
<1> HIDE DEF Fits, Going
<1>9. {"Running", "Stopping", "Finishing"} = Going
  BY DEF Going
<1>10. \A k : Comes(k) \/ AtEnd(k) => stack # <<>> /\ state \in Going
  BY <1>4 DEF Comes, AtEnd
<1>11. CASE Choose
  BY <1>11, <1>5, <1>6, <1>10 DEF Choose, Run
<1>12. CASE EndChoose
  BY <1>12, <1>7, <1>10 DEF EndChoose
<1>13. CASE PassAlternative
  BY <1>13, <1>5, <1>10 DEF PassAlternative
<1>14. CASE Alternative
  <2>1. state' \in Going
    BY <1>14, <1>9, <1>10 DEF Alternative, Evaluate
  <2> QED
    BY <1>14, <1>5, <1>6, <2>1 DEF Alternative, Run
<1>15. CASE EndAlternative
  BY <1>15, <1>7, <1>10 DEF EndAlternative
<1>16. CASE Otherwise
  BY <1>16, <1>5, <1>6, <1>10 DEF Otherwise, Run
<1>17. CASE EndOtherwise
  BY <1>17, <1>7, <1>10 DEF EndOtherwise
<1>18. CASE Loop
  BY <1>18, <1>5, <1>6, <1>10 DEF Loop, Run
<1>19. CASE LoopSearched
  <2>1. CASE searching
    BY <1>19, <2>1, <1>7, <1>10 DEF LoopSearched
  <2>2. CASE ~searching
    <3>1. /\ stack # <<>> /\ at' = at /\ state' \in Going
          /\ stack' = [stack EXCEPT ![Len(stack)].pass = "run"]
      BY <1>10, <1>19, <2>2 DEF LoopSearched
    <3>2. Fits /\ stack' # <<>>
      BY <3>1, FlipStep DEF Fits
    <3> QED
      BY <1>1, <1>2, <3>1, <3>2
  <2> QED
    BY <2>1, <2>2
<1>20. CASE LoopTest
  <2>1. CASE Leave /\ Evaluate(FALSE)
    BY <1>20, <2>1, <1>7, <1>9, <1>10 DEF LoopTest, Evaluate
  <2>2. CASE at' = Top.node + 1 /\ UNCHANGED <<state, stack>>
    <3>1. stack # <<>> /\ state \in Going
      BY <1>20, <1>10 DEF LoopTest
    <3>2. Reaches(program, stack, at')
      BY <2>2, <3>1, Here, PathAgain
    <3> QED
      BY <1>1, <2>2, <3>1, <3>2 DEF Shape, Kind
  <2> QED
    BY <1>20, <2>1, <2>2 DEF LoopTest
<1>21. CASE Escape
  <2>1. CASE PassOver
    <3>1. state' \in Going
      BY <1>21, <1>9, <1>10 DEF Escape
    <3> QED
      BY <1>21, <1>5, <2>1, <3>1 DEF Escape
  <2>2. CASE ~PassOver
    <3>1. PICK i \in 1 .. Len(stack) : \E n \in {i - 1, i} :
            stack # <<>> /\ n >= 1 /\ Unwind(i, n) /\ state' \in {state, "Stopping"}
      BY <1>21, <2>2, EscapeStep DEF PassOver
    <3>2. PICK n \in {i - 1, i} :
            stack # <<>> /\ n >= 1 /\ Unwind(i, n) /\ state' \in {state, "Stopping"}
      BY <3>1
    <3>3. Fits /\ stack' # <<>>
      BY <3>2, UnwindStep DEF Fits
    <3>4. state' \in Going
      BY <1>4, <1>9, <3>2
    <3> QED
      BY <1>1, <1>2, <3>3, <3>4
  <2> QED
    BY <2>1, <2>2
<1>22. CASE Critical
  BY <1>22, <1>5, <1>6, <1>10 DEF Critical, Run
<1>23. CASE EndCritical
  BY <1>23, <1>7, <1>10 DEF EndCritical
<1>24. CASE BeginActivity
  BY <1>24, <1>5, <1>6, <1>10 DEF BeginActivity, Run
<1>25. CASE CompleteActivity
  <2>1. state' \in Going
    BY <1>25, <1>9, <1>10 DEF CompleteActivity
  <2> QED
    BY <1>25, <1>7, <2>1 DEF CompleteActivity
<1>26. CASE LeaveActivity
  BY <1>26, <1>7, <1>9 DEF LeaveActivity
<1>27. CASE Stop
  <2>1. state' \in Going
    BY <1>27, <1>9, <1>10 DEF Stop
  <2> QED
    BY <1>27, <1>5, <2>1 DEF Stop
<1>28. CASE Terminate
  <2>1. state' \in Going
    BY <1>28, <1>9, <1>10 DEF Terminate
  <2> QED
    BY <1>28, <1>5, <2>1 DEF Terminate
<1>29. CASE StopWeel
  <2>1. stack # <<>> /\ state' \in Going
    BY <1>9, <1>29 DEF StopWeel, Shape
  <2> QED
    BY <1>8, <1>29, <2>1 DEF StopWeel
<1>30. CASE EndModel
  BY <1>30 DEF EndModel, Shape
<1>31. CASE Restart
  <2>1. /\ state' \in Going /\ at' = 2
        /\ stack' = <<[node |-> 1, searched |-> known # NoPosition, pass |-> "run"]>>
    BY <1>9, <1>31 DEF Restart
  <2>2. Tree(program) /\ 1 \in Nodes(program)
    BY ProgramIsTree, TreeFacts DEF TypeOK
  <2>3. [node |-> 1, searched |-> known # NoPosition, pass |-> "run"] \in Frames(program)
    BY <2>2 DEF Frames
  <2>4. Fits /\ stack' # <<>>
    BY <2>1, <2>2, <2>3, PathOfModel DEF Fits
  <2> QED
    BY <1>1, <1>2, <2>1, <2>4
<1>32. CASE Done
  <2>1. stack' = stack /\ state' = state /\ at' = at
    BY <1>32 DEF Done, vars
  <2> QED
    BY <1>1, <2>1 DEF Shape, Kind
<1> QED
  BY <1>11, <1>12, <1>13, <1>14, <1>15, <1>16, <1>17, <1>18, <1>19, <1>20, <1>21,
     <1>22, <1>23, <1>24, <1>25, <1>26, <1>27, <1>28, <1>29, <1>30, <1>31, <1>32 DEF Next
-----------------------------------------------------------------------------
\* The activity that runs has begun, and its position is published; outside of
\* loops it has not been completed before.
Working ==
    stack # <<>> /\ Kind(Top.node) = "activity" =>
        /\ Top.node \in begun
        /\ known = [label |-> Top.node, detail |-> "at"]
        /\ ~searching
        /\ ~InLoop(Top.node) => Top.node \notin done

LEMMA SetLast ==
    ASSUME NEW S, NEW e \in Seq(S), e # <<>>, NEW x \in S
    PROVE  /\ [e EXCEPT ![Len(e)] = x] \in Seq(S)
           /\ Len([e EXCEPT ![Len(e)] = x]) = Len(e)
           /\ \A j \in 1 .. Len(e) - 1 : [e EXCEPT ![Len(e)] = x][j] = e[j]
           /\ [e EXCEPT ![Len(e)] = x][Len(e)] = x
<1>1. Len(e) \in 1 .. Len(e) /\ Len(e) \in Nat
  OBVIOUS
<1> QED
  BY <1>1, ExceptSeq

LEMMA MarkType ==
    ASSUME NEW e \in Seq(BOOLEAN)
    PROVE  /\ MarkExecuted(e) \in Seq(BOOLEAN)
           /\ e # <<>> => /\ Len(MarkExecuted(e)) = Len(e)
                          /\ \A j \in 1 .. Len(e) - 1 : MarkExecuted(e)[j] = e[j]
                          /\ MarkExecuted(e)[Len(e)] = TRUE
<1>1. CASE e = <<>>
  <2>1. MarkExecuted(e) = e
    BY <1>1 DEF MarkExecuted
  <2> QED
    BY <1>1, <2>1
<1>2. CASE e # <<>>
  <2>1. PICK x \in BOOLEAN : x = TRUE
    OBVIOUS
  <2>2. MarkExecuted(e) = [e EXCEPT ![Len(e)] = x]
    BY <2>1 DEF MarkExecuted
  <2> HIDE <2>1
  <2>3. /\ MarkExecuted(e) \in Seq(BOOLEAN)
        /\ Len(MarkExecuted(e)) = Len(e)
        /\ \A j \in 1 .. Len(e) - 1 : MarkExecuted(e)[j] = e[j]
        /\ MarkExecuted(e)[Len(e)] = x
    BY <1>2, <2>2, SetLast
  <2> QED
    BY <2>1, <2>3
<1> QED
  BY <1>1, <1>2

LEMMA AppendFalse ==
    ASSUME NEW e \in Seq(BOOLEAN)
    PROVE  /\ Append(e, FALSE) \in Seq(BOOLEAN) /\ Append(e, FALSE) # <<>>
           /\ Len(Append(e, FALSE)) = Len(e) + 1
           /\ \A j \in 1 .. Len(e) : Append(e, FALSE)[j] = e[j]
           /\ Append(e, FALSE)[Len(e) + 1] = FALSE
<1>1. PICK x \in BOOLEAN : x = FALSE
  OBVIOUS
<1>2. Append(e, FALSE) = Append(e, x)
  BY <1>1
<1> HIDE <1>1
<1>3. /\ Append(e, x) \in Seq(BOOLEAN) /\ Append(e, x) # <<>>
      /\ Len(Append(e, x)) = Len(e) + 1
      /\ \A j \in 1 .. Len(e) : Append(e, x)[j] = e[j]
      /\ Append(e, x)[Len(e) + 1] = x
  BY AppendProperties
<1> QED
  BY <1>1, <1>2, <1>3

LEMMA FrontType ==
    ASSUME NEW S, NEW s \in Seq(S)
    PROVE  /\ Front(s) \in Seq(S)
           /\ s # <<>> => Len(Front(s)) = Len(s) - 1
           /\ \A j \in 1 .. Len(s) - 1 : Front(s)[j] = s[j]
<1>1. Len(s) \in Nat /\ \A i \in 1 .. Len(s) - 1 : s[i] \in S
  BY ElementOfSeq
<1>2. /\ SubSeq(s, 1, Len(s) - 1) \in Seq(S)
      /\ Len(SubSeq(s, 1, Len(s) - 1)) = IF 1 <= Len(s) - 1 THEN Len(s) - 1 - 1 + 1 ELSE 0
      /\ \A i \in 1 .. Len(s) - 1 - 1 + 1 : SubSeq(s, 1, Len(s) - 1)[i] = s[1 + i - 1]
  BY <1>1, SubSeqProperties
<1>3. s # <<>> => Len(s) >= 1
  BY <1>1
<1>4. Front(s) = SubSeq(s, 1, Len(s) - 1)
  BY DEF Front
<1>5. s # <<>> => Len(Front(s)) = Len(s) - 1
  <2> DEFINE m == Len(s)
             l == Len(Front(s))
  <2>1. m \in Nat /\ l = (IF 1 <= m - 1 THEN m - 1 - 1 + 1 ELSE 0) /\ (s # <<>> => m >= 1)
    BY <1>1, <1>2, <1>3, <1>4
  <2> HIDE DEF m, l
  <2>2. s # <<>> => l = m - 1
    BY <2>1
  <2> QED
    BY <2>2 DEF m, l
<1>6. ASSUME NEW j \in 1 .. Len(s) - 1
      PROVE  Front(s)[j] = s[j]
  <2>1. j \in 1 .. Len(s) - 1 - 1 + 1 /\ 1 + j - 1 = j
    BY <1>1
  <2> QED
    BY <1>2, <1>4, <2>1
<1> QED
  BY <1>2, <1>4, <1>5, <1>6

\* Only the end of the model empties the stack.
LEMMA NeverEmpty ==
    ASSUME TypeOK, Shape, Next, stack' = <<>>
    PROVE  (EndModel \/ Done) /\ at' = at
<1>1. state' \in {"Stopped", "Finished"}
  BY ShapeStep DEF Shape
<1>4. EndModel \/ Done => at' = at
  BY DEF EndModel, Done, vars
<1>2. CASE stack # <<>>
  <2>1. state \in {"Running", "Stopping", "Finishing"}
    BY <1>2 DEF Shape
  <2>2. CASE Choose \/ EndChoose \/ PassAlternative
    BY <1>1, <2>1, <2>2 DEF Choose, EndChoose, PassAlternative
  <2>3. CASE Alternative
    BY <1>1, <2>1, <2>3 DEF Alternative, Evaluate
  <2>4. CASE EndAlternative \/ Otherwise \/ EndOtherwise
    BY <1>1, <2>1, <2>4 DEF EndAlternative, Otherwise, EndOtherwise
  <2>5. CASE Loop \/ LoopSearched
    BY <1>1, <2>1, <2>5 DEF Loop, LoopSearched
  <2>6. CASE LoopTest
    BY <1>1, <2>1, <2>6 DEF LoopTest, Evaluate
  <2>7. CASE Escape
    BY <1>1, <2>1, <2>7 DEF Escape
  <2>8. CASE Critical \/ EndCritical \/ BeginActivity
    BY <1>1, <2>1, <2>8 DEF Critical, EndCritical, BeginActivity
  <2>9. CASE CompleteActivity \/ LeaveActivity
    BY <1>1, <2>1, <2>9 DEF CompleteActivity, LeaveActivity
  <2>10. CASE Stop \/ Terminate
    BY <1>1, <2>1, <2>10 DEF Stop, Terminate
  <2>11. CASE StopWeel \/ Restart
    BY <1>1, <2>1, <2>11 DEF StopWeel, Restart
  <2> QED
    BY <1>4, <2>2, <2>3, <2>4, <2>5, <2>6, <2>7, <2>8, <2>9, <2>10, <2>11 DEF Next
<1>3. CASE stack = <<>>
  <2>1. state \in {"Stopped", "Finished"} /\ \A k : ~Comes(k) /\ ~AtEnd(k)
    BY <1>3 DEF Shape, Comes, AtEnd
  <2>2. CASE \/ Choose \/ EndChoose \/ PassAlternative \/ Alternative \/ EndAlternative
             \/ Otherwise \/ EndOtherwise \/ Loop \/ LoopSearched \/ LoopTest
    BY <2>1, <2>2 DEF Choose, EndChoose, PassAlternative, Alternative, EndAlternative,
       Otherwise, EndOtherwise, Loop, LoopSearched, LoopTest
  <2>3. CASE \/ Escape \/ Critical \/ EndCritical \/ BeginActivity \/ CompleteActivity
             \/ LeaveActivity \/ Stop \/ Terminate
    BY <2>1, <2>3 DEF Escape, Critical, EndCritical, BeginActivity, CompleteActivity,
       LeaveActivity, Stop, Terminate
  <2>4. CASE StopWeel \/ Restart
    BY <1>1, <2>1, <2>4 DEF StopWeel, Restart
  <2> QED
    BY <1>4, <2>2, <2>3, <2>4 DEF Next
<1> QED
  BY <1>2, <1>3

LEMMA TypeStep ==
    ASSUME TypeOK, Shape, Working, Next
    PROVE  TypeOK'
<1> DEFINE Data == /\ executed \in Seq(BOOLEAN) /\ mode \in Seq(Variants)
                   /\ searching \in BOOLEAN
                   /\ {position, wanted, known} \subseteq Positions \cup {NoPosition}
                   /\ turns \in 0 .. MaxTurns /\ lives \in Nat
                   /\ begun \subseteq Nodes(program)
                   /\ again \subseteq done /\ done \subseteq begun
                   /\ entered \subseteq Nodes(program)
                   /\ {hidden, unwound, terminated} \subseteq BOOLEAN
<1>1. Shape' /\ program' = program
  BY ShapeStep
<1>2. Tree(program) /\ program \in Programs /\ Len(program) \in Nat \ {0}
  BY ProgramIsTree, TreeFacts DEF TypeOK
<1>3. state' \in {"Running", "Stopping", "Stopped", "Finishing", "Finished"}
  BY <1>1 DEF Shape
<1>4. at' \in 2 .. Len(program) + 1 /\ stack' \in Seq(Frames(program))
  <2>1. CASE stack' # <<>>
    <3>1. Path(program, stack') /\ Reaches(program, stack', at')
      BY <1>1, <2>1 DEF Shape
    <3> DEFINE n == stack'[Len(stack')].node
    <3>2. /\ stack' \in Seq(Frames(program)) /\ n \in Nodes(program)
          /\ at' \in n + 1 .. program[n].last + 1
      BY <1>2, <3>1, PathFacts DEF Reaches
    <3>3. n \in Nat /\ n >= 1 /\ program[n].last \in Nat /\ program[n].last <= Len(program)
      BY <1>2, <3>2, TreeFacts
    <3> QED
      BY <1>2, <3>2, <3>3
  <2>2. CASE stack' = <<>>
    <3>1. at' = at
      BY <2>2, NeverEmpty
    <3> QED
      BY <2>2, <3>1 DEF TypeOK
  <2> QED
    BY <2>1, <2>2
<1>5. Data /\ MaxTurns \in Nat
  BY ControlFlowAssumption DEF TypeOK
<1>6. \A k : Comes(k) => /\ stack # <<>> /\ at \in Nodes(program) /\ Kind(at) = k
                         /\ [label |-> at, detail |-> "at"] \in Positions
                         /\ [label |-> at, detail |-> "after"] \in Positions
  BY ComesHere, TreeFacts DEF Positions, Nodes
<1>7. \A k : AtEnd(k) => /\ stack # <<>> /\ Top.node \in Nodes(program) /\ Kind(Top.node) = k
                         /\ [label |-> Top.node, detail |-> "after"] \in Positions
  BY Here DEF AtEnd, Positions
<1>9. LoopTest => turns' \in 0 .. MaxTurns
  <2>1. turns \in 0 .. MaxTurns /\ MaxTurns \in Nat
    BY <1>5
  <2>2. LoopTest => turns' = turns \/ (turns < MaxTurns /\ turns' = turns + 1)
    BY DEF LoopTest
  <2> QED
    BY <2>1, <2>2
<1>10. Choose => executed' \in Seq(BOOLEAN)
  <2>1. executed \in Seq(BOOLEAN)
    BY DEF TypeOK
  <2>2. Append(executed, FALSE) \in Seq(BOOLEAN)
    BY <2>1, AppendFalse
  <2> QED
    BY <2>1, <2>2 DEF Choose
<1>8. Data'
  <2> USE <1>1, <1>5
  <2>1. CASE Choose
    <3>1. program[at].variant \in Variants
      BY <1>2, <1>6, <2>1 DEF Choose, Tree, Kind
    <3>2. executed' \in Seq(BOOLEAN)
      BY <1>10, <2>1
    <3>3. mode \in Seq(Variants) /\ (mode' = mode \/ mode' = Append(mode, program[at].variant))
      BY <2>1 DEF Choose
    <3>4. mode' \in Seq(Variants)
      BY <3>1, <3>3
    <3> QED
      BY <2>1, <3>2, <3>4 DEF Choose, places, bounds, history
  <2>2. CASE EndChoose
    BY <2>2, FrontType DEF EndChoose, places, bounds, history
  <2>3. CASE PassAlternative
    BY <2>3 DEF PassAlternative, info, places, bounds
  <2>4. CASE Alternative
    BY <1>6, <2>4, MarkType DEF Alternative, Set, places, bounds
  <2>5. CASE EndAlternative
    BY <1>7, <2>5, MarkType DEF EndAlternative, Set, places, bounds
  <2>6. CASE Otherwise
    BY <1>6, <2>6 DEF Otherwise, Set, info, places, bounds
  <2>7. CASE EndOtherwise
    BY <1>7, <2>7 DEF EndOtherwise, Set, info, places, bounds
  <2>8. CASE Loop \/ LoopSearched \/ Critical \/ EndCritical \/ LeaveActivity \/ StopWeel
    BY <2>8 DEF Loop, LoopSearched, Critical, EndCritical, LeaveActivity, StopWeel,
                info, places, bounds, history
  <2>9. CASE LoopTest
      BY <1>9, <2>9 DEF LoopTest, info, places, history
  <2>10. CASE Escape
    <3>1. unwound' \in BOOLEAN
      BY <2>10 DEF Escape, Unwind
    <3> QED
      BY <2>10, <3>1 DEF Escape, info, places, bounds
  <2>11. CASE BeginActivity
    BY <1>6, <2>11 DEF BeginActivity, WeelProgress, Found, InSearchMode, bounds
  <2>12. CASE CompleteActivity
    BY <1>7, <2>12 DEF CompleteActivity, Working, WeelProgress, info, bounds
  <2>13. CASE Stop
    BY <1>6, <2>13 DEF Stop, WeelProgress, Found, bounds, history
  <2>14. CASE Terminate
    BY <2>14 DEF Terminate, info, places, bounds
  <2>15. CASE EndModel
    BY <2>15 DEF EndModel, info, bounds, history
  <2>16. CASE Restart
    <3>1. turns' \in 0 .. MaxTurns /\ lives' \in Nat
      BY <2>16 DEF Restart
    <3>2. executed' \in Seq(BOOLEAN) /\ mode' \in Seq(Variants)
      BY <2>16 DEF Restart
    <3>3. wanted' = known /\ known' = known /\ position' = NoPosition
      BY <2>16 DEF Restart
    <3>4. searching' \in BOOLEAN /\ terminated' \in BOOLEAN
      BY <2>16 DEF Restart
    <3> QED
      BY <2>16, <3>1, <3>2, <3>3, <3>4 DEF Restart
  <2>17. CASE Done
    BY <2>17 DEF Done, vars, info, places, bounds, history
  <2> QED
    BY <2>1, <2>2, <2>3, <2>4, <2>5, <2>6, <2>7, <2>8, <2>9, <2>10, <2>11, <2>12,
       <2>13, <2>14, <2>15, <2>16, <2>17 DEF Next
<1> QED
  BY <1>1, <1>2, <1>3, <1>4, <1>8 DEF TypeOK, Frames
-----------------------------------------------------------------------------
\* The steps that leave the position and what has been done alone
Quiet == \/ Choose \/ EndChoose
         \/ PassAlternative \/ Alternative \/ EndAlternative
         \/ Otherwise \/ EndOtherwise
         \/ Loop \/ LoopSearched \/ LoopTest \/ Escape
         \/ Critical \/ EndCritical
         \/ LeaveActivity \/ Terminate \/ StopWeel

\* While the instance searches, nothing but searching has been entered.
Searches(st) == \A i \in 1 .. Len(st) :
                    /\ st[i].searched
                    /\ Kind(st[i].node) = "loop" => st[i].pass = "search"

\* A call with a child is not an activity.
LEMMA ParentIsNoLeaf ==
    ASSUME NEW p, Tree(p), NEW n \in Nodes(p), NEW c \in Children(p, n)
    PROVE  p[n].kind \notin {"activity", "stop", "terminate", "escape"}
<1>1. c \in Within(p, n)
  BY ChildrenAre
<1>2. n < c /\ c <= p[n].last /\ n \in Nat /\ c \in Nat /\ p[n].last \in Nat
  BY <1>1, TreeFacts
<1> QED
  BY <1>2 DEF Tree

LEMMA QuietMoves ==
    ASSUME TypeOK, Shape, Quiet
    PROVE  /\ UNCHANGED <<program, known, wanted, position, searching, begun, done, again>>
           /\ stack # <<>> /\ stack' # <<>>
           /\ \/ at' >= at
              \/ Kind(Top.node) = "loop" /\ at = Past(Top.node) /\ at' = Top.node + 1
           /\ searching /\ Searches(stack) => Searches(stack')
           /\ Kind(Top'.node) = "activity" => Top'.node = Top.node
<1> DEFINE Unmoved == UNCHANGED <<program, known, wanted, position, searching, begun, done, again>>
           Moved == /\ stack # <<>> /\ stack' # <<>>
                    /\ \/ at' >= at
                       \/ Kind(Top.node) = "loop" /\ at = Past(Top.node) /\ at' = Top.node + 1
                    /\ searching /\ Searches(stack) => Searches(stack')
                    /\ Kind(Top'.node) = "activity" => Top'.node = Top.node
<1>1. Unmoved
  <2>1. CASE Choose \/ EndChoose \/ PassAlternative \/ Alternative \/ EndAlternative
    BY <2>1 DEF Choose, EndChoose, PassAlternative, Alternative, EndAlternative,
                info, places, history
  <2>2. CASE Otherwise \/ EndOtherwise \/ Loop \/ LoopSearched \/ LoopTest \/ Escape
    BY <2>2 DEF Otherwise, EndOtherwise, Loop, LoopSearched, LoopTest, Escape,
                info, places, history
  <2>3. CASE Critical \/ EndCritical \/ LeaveActivity \/ Terminate \/ StopWeel
    BY <2>3 DEF Critical, EndCritical, LeaveActivity, Terminate, StopWeel,
                info, places, history
  <2> QED
    BY <2>1, <2>2, <2>3 DEF Quiet
<1>2. program' = program
  BY <1>1
<1> SUFFICES Moved
  BY <1>1
<1>3. ASSUME NEW k, Comes(k), PassOver
      PROVE  Moved
  <2>1. stack # <<>> /\ at' >= at
    BY <1>3, ComesHere, PassStep, Here DEF PassOver
  <2> QED
    BY <1>3, <2>1 DEF PassOver, Top
<1>4. ASSUME NEW k, Comes(k), k \notin {"model", "activity"}, NEW pass \in {"run", "search"},
             stack' = Append(stack, Frame(at, pass)), at' \in {at + 1, Past(at)},
             searching /\ k = "loop" => pass = "search"
      PROVE  Moved
  <2>1. /\ stack # <<>> /\ at \in Nodes(program) /\ Kind(at) = k
        /\ at \in Nat /\ program[at].last \in Nat /\ at <= program[at].last
    BY <1>4, ComesHere, Here
  <2>2. /\ Len(stack') = Len(stack) + 1 /\ stack' # <<>> /\ Len(stack) \in Nat
        /\ \A i \in 1 .. Len(stack) : stack'[i] = stack[i]
        /\ stack'[Len(stack) + 1] = Frame(at, pass) /\ Top' = Frame(at, pass)
    BY <1>2, <1>4, <2>1, EnterStep, Here
  <2>3. at' >= at
    BY <1>4, <2>1 DEF Past
  <2>4. ASSUME searching, Searches(stack)
        PROVE  Searches(stack')
    <3>1. ASSUME NEW i \in 1 .. Len(stack')
          PROVE  /\ stack'[i].searched
                 /\ Kind(stack'[i].node) = "loop" => stack'[i].pass = "search"
      <4>1. CASE i \in 1 .. Len(stack)
        BY <2>2, <2>4, <4>1 DEF Searches
      <4>2. CASE i = Len(stack) + 1
        BY <1>4, <2>1, <2>2, <2>4, <4>2 DEF Frame
      <4> QED
        BY <2>2, <4>1, <4>2
    <3> QED
      BY <3>1 DEF Searches
  <2>5. Kind(Top'.node) # "activity"
    BY <1>4, <2>1, <2>2 DEF Frame
  <2> QED
    BY <2>1, <2>2, <2>3, <2>4, <2>5
<1>5. ASSUME NEW k, AtEnd(k), k # "model", Leave
      PROVE  Moved
  <2>1. /\ Len(stack) >= 2 /\ Len(stack') = Len(stack) - 1 /\ stack' # <<>>
        /\ \A i \in 1 .. Len(stack) - 1 : stack'[i] = stack[i]
        /\ Top' = stack[Len(stack) - 1]
        /\ Top.node \in Children(program, stack[Len(stack) - 1].node)
        /\ at' = at
    BY <1>5, LeaveStep DEF Leave
  <2>2. /\ stack # <<>> /\ Tree(program) /\ Path(program, stack) /\ Len(stack) \in Nat
        /\ at \in Nat
    BY <1>5, Here DEF AtEnd
  <2>3. stack[Len(stack) - 1].node \in Nodes(program)
    BY <2>1, <2>2, PathFacts
  <2>4. Kind(Top'.node) # "activity"
    BY <2>1, <2>2, <2>3, ParentIsNoLeaf DEF Kind
  <2>5. Searches(stack) => Searches(stack')
    BY <2>1, <2>2 DEF Searches
  <2> QED
    BY <2>1, <2>2, <2>4, <2>5
<1>6. CASE Choose \/ PassAlternative \/ Alternative
  <2>1. CASE Choose \/ PassAlternative
    <3>1. \/ Comes("choose") /\ (Run("run") \/ PassOver)
          \/ Comes("alternative") /\ PassOver
      BY <2>1 DEF Choose, PassAlternative
    <3> QED
      BY <1>3, <1>4, <3>1 DEF Run
  <2>2. CASE Alternative
    <3>1. Comes("alternative") /\ (Run("run") \/ PassOver)
      BY <2>2 DEF Alternative
    <3> QED
      BY <1>3, <1>4, <3>1 DEF Run
  <2> QED
    BY <1>6, <2>1, <2>2
<1>7. CASE Otherwise \/ Loop \/ Critical
  BY <1>3, <1>4, <1>7 DEF Otherwise, Loop, Critical, Run
<1>8. CASE Terminate \/ (Escape /\ at' = Past(at) /\ stack' = stack)
  BY <1>3, <1>8 DEF Terminate, Escape, PassOver
<1>9. CASE \/ EndChoose \/ EndAlternative \/ EndOtherwise \/ EndCritical \/ LeaveActivity
           \/ (LoopSearched /\ searching)
           \/ (LoopTest /\ Leave)
  BY <1>5, <1>9 DEF EndChoose, EndAlternative, EndOtherwise, EndCritical, LeaveActivity,
                    LoopSearched, LoopTest
<1>10. CASE LoopSearched /\ ~searching
  <2>1. /\ stack # <<>> /\ at' = at /\ stack' = [stack EXCEPT ![Len(stack)].pass = "run"]
    BY <1>10 DEF LoopSearched, AtEnd
  <2> QED
    BY <1>10, <2>1, FlipStep, Here
<1>11. CASE LoopTest /\ ~Leave
  <2>1. /\ stack # <<>> /\ Kind(Top.node) = "loop" /\ at = Past(Top.node)
        /\ at' = Top.node + 1 /\ stack' = stack
    BY <1>11 DEF LoopTest, AtEnd
  <2> QED
    BY <2>1 DEF Top
<1>12. CASE StopWeel
  <2>1. stack # <<>> /\ at' = at /\ stack' = stack
    BY <1>12 DEF StopWeel, Shape
  <2> QED
    BY <2>1, Here DEF Top
<1>13. CASE Escape /\ ~(at' = Past(at) /\ stack' = stack)
  <2>1. PICK i \in 1 .. Len(stack) : \E n \in {i - 1, i} :
            /\ stack # <<>> /\ ~searching /\ n >= 1 /\ Unwind(i, n)
            /\ (i = 1 /\ n = 1) \/ Kind(stack[i].node) = "loop"
    BY <1>13, EscapeStep
  <2>2. PICK n \in {i - 1, i} :
            /\ stack # <<>> /\ ~searching /\ n >= 1 /\ Unwind(i, n)
            /\ (i = 1 /\ n = 1) \/ Kind(stack[i].node) = "loop"
    BY <2>1
  <2>3. stack' # <<>> /\ Top' = stack[n] /\ at' >= at /\ n <= Len(stack)
    BY <2>2, UnwindStep
  <2>4. /\ Tree(program) /\ Path(program, stack) /\ Len(stack) \in Nat
    BY <2>2, Here
  <2>5. Kind(stack[n].node) # "activity"
    <3>1. CASE n < Len(stack)
      <4>1. n \in 1 .. Len(stack) - 1 /\ n \in 1 .. Len(stack)
        BY <2>2, <2>4, <3>1
      <4>2. stack[n + 1].node \in Children(program, stack[n].node) /\ stack[n].node \in Nodes(program)
        BY <2>4, <4>1, PathFacts DEF Path
      <4> QED
        BY <2>4, <4>2, ParentIsNoLeaf DEF Kind
    <3>2. CASE n = Len(stack)
      <4>1. n = i
        BY <2>2, <2>3, <2>4, <3>2
      <4>2. program[1].kind = "model" /\ stack[1].node = 1
        BY <2>4 DEF Tree, Path
      <4> QED
        BY <2>2, <4>1, <4>2 DEF Kind
    <3> QED
      BY <2>3, <2>4, <3>1, <3>2
  <2> QED
    BY <2>2, <2>3, <2>5
<1> HIDE DEF Moved
<1> QED
  BY <1>6, <1>7, <1>8, <1>9, <1>10, <1>11, <1>12, <1>13 DEF Quiet
-----------------------------------------------------------------------------
\* Nothing begins without a position being published, which is that of an
\* activity or a stop.
Published ==
    /\ known = NoPosition => begun = {} \/ state = "Finished"
    /\ known # NoPosition => /\ known.label \in Nodes(program)
                             /\ Kind(known.label) \in {"activity", "stop"}

\* The search is for the position that the CPEE knows.
Seeking ==
    stack # <<>> /\ searching => wanted = known /\ known # NoPosition /\ Searches(stack)

\* The position is marked as passed when its activity is done.
Settled ==
    known # NoPosition /\ known.label \in done /\ ~InLoop(known.label) =>
        known.detail = "after"

\* Where the instance has been
Marked == begun \cup (IF known = NoPosition THEN {} ELSE {known.label})

\* The calls outside of loops in which the instance has been, for the places m
\* where it has been
Reached(p, m) ==
    {k \in Nodes(p) : /\ \A j \in Outer(p, k) : p[j].kind # "loop"
                      /\ ({k} \cup Within(p, k)) \cap m # {}}

\* Outside of loops the instance only goes forward.
Progress ==
    /\ known # NoPosition => \A k \in Reached(program, Marked) : k <= known.label
    /\ stack # <<>> /\ ~searching => \A k \in Reached(program, Marked) : k < at

Positioned == Published /\ Seeking /\ Working /\ Settled /\ Progress

LEMMA InLoopIs ==
    ASSUME NEW n
    PROVE  InLoop(n) <=> \E j \in Outer(program, n) : program[j].kind = "loop"
BY DEF InLoop, Around, Outer, Kind

\* With a new place a, the calls around it are reached, too.
LEMMA ReachedMore ==
    ASSUME NEW p, Tree(p), NEW m, NEW l, NEW a, l \subseteq m \cup {a},
           NEW k \in Reached(p, l)
    PROVE  k \in Reached(p, m) \/ (k \in Nat /\ a \in Nat /\ k <= a)
<1>1. k \in Nodes(p) /\ k \in Nat
  BY TreeFacts DEF Reached
<1>2. CASE a \in {k} \cup Within(p, k)
  BY <1>1, <1>2, TreeFacts
<1>3. CASE a \notin {k} \cup Within(p, k)
  BY <1>1, <1>3 DEF Reached
<1> QED
  BY <1>2, <1>3

LEMMA ReachedIsNode ==
    ASSUME NEW p, Tree(p), NEW m, NEW k \in Reached(p, m)
    PROVE  k \in Nodes(p) /\ k \in Nat
BY TreeFacts DEF Reached

LEMMA QuietPositioned ==
    ASSUME TypeOK, Shape, Positioned, Quiet
    PROVE  Positioned'
<1>1. /\ program' = program /\ known' = known /\ wanted' = wanted /\ searching' = searching
      /\ begun' = begun /\ done' = done
      /\ stack # <<>> /\ stack' # <<>>
      /\ \/ at' >= at
         \/ Kind(Top.node) = "loop" /\ at = Past(Top.node) /\ at' = Top.node + 1
      /\ searching /\ Searches(stack) => Searches(stack')
      /\ Kind(Top'.node) = "activity" => Top'.node = Top.node
  BY QuietMoves
<1>2. Shape'
  BY ShapeStep DEF Quiet, Next
<1>3. Published'
  <2>1. state # "Finished"
    BY <1>1 DEF Shape
  <2> QED
    BY <1>1, <2>1 DEF Positioned, Published, Kind
<1>4. Seeking'
  <2>1. Searches(stack)' <=> Searches(stack')
    BY <1>1 DEF Searches, Kind
  <2> QED
    BY <1>1, <2>1 DEF Positioned, Seeking
<1>5. Working'
  <2>1. \A n : InLoop(n)' <=> InLoop(n)
    BY <1>1 DEF InLoop, Around, Kind
  <2> QED
    BY <1>1, <2>1 DEF Positioned, Working, Kind
<1>6. Settled'
  <2>1. \A n : InLoop(n)' <=> InLoop(n)
    BY <1>1 DEF InLoop, Around, Kind
  <2> QED
    BY <1>1, <2>1 DEF Positioned, Settled
<1>7. Progress'
  <2>1. Reached(program', Marked') = Reached(program, Marked)
    BY <1>1 DEF Marked
  <2>2. ASSUME ~searching, NEW k \in Reached(program, Marked)
        PROVE  k < at'
    <3>1. Tree(program) /\ at \in Nat /\ Top.node \in Nodes(program) /\ Top.node \in Nat
          /\ program[Top.node].last \in Nat
      BY <1>1, Here
    <3>2. k < at /\ k \in Nodes(program) /\ k \in Nat
      BY <1>1, <2>2, <3>1, ReachedIsNode DEF Positioned, Progress
    <3>3. CASE at' >= at
      <4>1. at' \in Nat
        BY <1>1, <1>2, <3>1, ReachesNat DEF Shape
      <4> QED
        BY <3>1, <3>2, <3>3, <4>1
    <3>4. CASE Kind(Top.node) = "loop" /\ at = Past(Top.node) /\ at' = Top.node + 1
      <4>1. k \notin Within(program, Top.node)
        BY <2>2, <3>1, <3>2, <3>4 DEF Reached, Outer, Kind
      <4> QED
        BY <3>1, <3>2, <3>4, <4>1 DEF Within, Past
    <3> QED
      BY <1>1, <3>3, <3>4
  <2> QED
    BY <1>1, <2>1, <2>2 DEF Positioned, Progress
<1> QED
  BY <1>3, <1>4, <1>5, <1>6, <1>7 DEF Positioned

\* An activity: it is passed over, or it begins.
LEMMA BeginCases ==
    ASSUME TypeOK, Shape, Positioned, BeginActivity
    PROVE  /\ stack # <<>> /\ Kind(at) = "activity" /\ at \in Nodes(program) /\ at \in Nat
           /\ at <= program[Top.node].last /\ Past(at) = at + 1 /\ Within(program, at) = {}
           /\ UNCHANGED <<program, state, wanted, done, again>>
           /\ searching' => searching
           /\ searching /\ ~searching' => known # NoPosition /\ known.label = at
           /\ searching' => wanted.label # at
           /\ \/ /\ PassOver /\ UNCHANGED <<position, known, begun>>
                 /\ \/ ShouldSkip
                    \/ searching /\ (searching' \/ known.detail = "after")
              \/ /\ ~ShouldSkip /\ Run("run") /\ ~searching'
                 /\ position' = [label |-> at, detail |-> "at"]
                 /\ known' = [label |-> at, detail |-> "at"]
                 /\ begun' = begun \cup {at}
                 /\ searching => known.detail # "after"
<1>1. Comes("activity") /\ searching' = (searching /\ ~Found(at))
  BY DEF BeginActivity
<1>2. /\ stack # <<>> /\ Kind(at) = "activity" /\ at \in Nodes(program)
      /\ at <= program[Top.node].last /\ at \in Nat
  BY <1>1, ComesHere, Here
<1>3. Past(at) = at + 1 /\ Within(program, at) = {}
  <2>1. program[at].last = at
    BY <1>2, Here DEF Tree, Kind
  <2> QED
    BY <1>2, <2>1 DEF Past, Within
<1>4. searching => wanted = known /\ known # NoPosition
  BY <1>2 DEF Positioned, Seeking
<1>5. searching' <=> searching /\ wanted.label # at
  BY <1>1 DEF Found
<1>6. InSearchMode(at) <=> searching /\ (searching' \/ known.detail = "after")
  BY <1>4, <1>5 DEF InSearchMode, Found
<1>7. UNCHANGED <<program, state, wanted, done, again>>
  BY DEF BeginActivity
<1>8. \/ /\ PassOver /\ UNCHANGED <<position, known, begun>> /\ (InSearchMode(at) \/ ShouldSkip)
      \/ /\ ~InSearchMode(at) /\ ~ShouldSkip /\ Run("run")
         /\ position' = [label |-> at, detail |-> "at"]
         /\ known' = [label |-> at, detail |-> "at"]
         /\ begun' = begun \cup {at}
  BY DEF BeginActivity, WeelProgress
<1>9. ~InSearchMode(at) => ~searching' /\ (searching => known.detail # "after")
  BY <1>5, <1>6
<1> QED
  BY <1>2, <1>3, <1>4, <1>5, <1>6, <1>7, <1>8, <1>9

\* A stop: it is passed over, or it stops the instance.
LEMMA StopCases ==
    ASSUME TypeOK, Shape, Positioned, Stop
    PROVE  /\ stack # <<>> /\ Kind(at) = "stop" /\ at \in Nodes(program) /\ at \in Nat
           /\ at <= program[Top.node].last /\ Past(at) = at + 1
           /\ PassOver /\ UNCHANGED <<program, executed, mode, wanted, bounds, history>>
           /\ searching' => searching
           /\ searching /\ ~searching' => known # NoPosition /\ known.label = at
           /\ searching' => wanted.label # at
           /\ \/ UNCHANGED <<state, position, known>> /\ (ShouldSkip \/ searching)
              \/ /\ ~searching' /\ state' = "Stopping"
                 /\ known' = [label |-> at, detail |-> "after"]
<1>1. Comes("stop") /\ searching' = (searching /\ ~Found(at))
  BY DEF Stop
<1>2. /\ stack # <<>> /\ Kind(at) = "stop" /\ at \in Nodes(program)
      /\ at <= program[Top.node].last /\ at \in Nat
  BY <1>1, ComesHere, Here
<1>3. Past(at) = at + 1
  <2>1. program[at].last = at
    BY <1>2, Here DEF Tree, Kind
  <2> QED
    BY <2>1 DEF Past
<1>4. searching => wanted = known /\ known # NoPosition
  BY <1>2 DEF Positioned, Seeking
<1>5. searching' <=> searching /\ wanted.label # at
  BY <1>1 DEF Found
<1>6. ~InSearchMode(at) => ~searching'
  BY <1>5 DEF InSearchMode, Found
<1>7. /\ PassOver /\ UNCHANGED <<program, executed, mode, wanted, bounds, history>>
      /\ \/ UNCHANGED <<state, position, known>> /\ (InSearchMode(at) \/ ShouldSkip)
         \/ /\ ~InSearchMode(at) /\ state' = "Stopping"
            /\ known' = [label |-> at, detail |-> "after"]
  BY DEF Stop, WeelProgress
<1>8. InSearchMode(at) => searching
  BY DEF InSearchMode
<1> QED
  BY <1>2, <1>3, <1>4, <1>5, <1>6, <1>7, <1>8

\* Where the instance has been lies before the next call, also when that ends
\* the search.
LEMMA ReachedBefore ==
    ASSUME TypeOK, Shape, Positioned, stack # <<>>, NEW k \in Reached(program, Marked),
           ~searching \/ (known # NoPosition /\ known.label = at)
    PROVE  k \in Nat /\ k <= at /\ (~searching => k < at)
<1>1. Tree(program) /\ at \in Nat
  BY Here
<1>2. k \in Nat
  BY <1>1, ReachedIsNode
<1>3. ~searching => k < at
  BY DEF Positioned, Progress
<1>4. known # NoPosition /\ known.label = at => k <= at
  BY DEF Positioned, Progress
<1> QED
  BY <1>1, <1>2, <1>3, <1>4

\* Nothing is published: an activity or a stop is passed over.
LEMMA PassedPositioned ==
    ASSUME TypeOK, Shape, Positioned, NEW k, Comes(k), PassOver, Shape',
           UNCHANGED <<program, known, wanted, begun, done>>, searching' \in BOOLEAN,
           searching' => searching,
           searching /\ ~searching' => known # NoPosition /\ known.label = at
    PROVE  Positioned'
<1>1. /\ stack # <<>> /\ stack' = stack /\ at' > at /\ at' \in Nat /\ at \in Nat
      /\ Kind(Top.node) # "activity" /\ Top' = Top
  <2>1. stack # <<>> /\ at \in Children(program, Top.node) /\ stack' = stack
    BY ComesHere DEF PassOver
  <2>2. Tree(program) /\ Top.node \in Nodes(program) /\ at \in Nat
    BY <2>1, Here
  <2>3. at' > at /\ at' \in Nat
    BY PassStep DEF PassOver
  <2> QED
    BY <2>1, <2>2, <2>3, ParentIsNoLeaf DEF Kind, Top
<1>2. /\ \A n : InLoop(n)' <=> InLoop(n)
      /\ Reached(program', Marked') = Reached(program, Marked)
      /\ Searches(stack)' <=> Searches(stack)
  BY <1>1 DEF InLoop, Around, Kind, Marked, Searches
<1>3. Published'
  <2>1. state # "Finished"
    BY <1>1 DEF Shape
  <2> QED
    BY <2>1 DEF Positioned, Published, Kind
<1>4. Seeking'
  BY <1>1, <1>2 DEF Positioned, Seeking
<1>5. Working'
  BY <1>1 DEF Working, Kind
<1>6. Settled'
  BY <1>2 DEF Positioned, Settled
<1>7. Progress'
  <2>1. ASSUME ~searching', NEW j \in Reached(program, Marked)
        PROVE  j < at'
    <3>1. ~searching \/ (known # NoPosition /\ known.label = at)
      BY <2>1
    <3>2. j \in Nat /\ j <= at
      BY <1>1, <3>1, ReachedBefore
    <3> QED
      BY <1>1, <3>2
  <2> QED
    BY <1>1, <1>2, <2>1 DEF Positioned, Progress
<1> QED
  BY <1>3, <1>4, <1>5, <1>6, <1>7 DEF Positioned

\* The position of the next call is published, and the instance goes on there.
LEMMA PublishedProgress ==
    ASSUME TypeOK, Shape, Positioned, stack # <<>>, program' = program, NEW detail,
           ~searching \/ (known # NoPosition /\ known.label = at),
           known' = [label |-> at, detail |-> detail], begun' \subseteq begun \cup {at},
           at' = at + 1
    PROVE  Progress'
<1>1. Tree(program) /\ at \in Nat
  BY Here
<1>2. Marked' \subseteq Marked \cup {at}
  BY DEF Marked
<1>3. ASSUME NEW k \in Reached(program, Marked')
      PROVE  k \in Nat /\ k <= at
  <2>1. k \in Reached(program, Marked) \/ (k \in Nat /\ at \in Nat /\ k <= at)
    BY <1>1, <1>2, ReachedMore
  <2> QED
    BY <2>1, ReachedBefore
<1>4. known'.label = at
  OBVIOUS
<1> QED
  BY <1>1, <1>3, <1>4 DEF Progress

LEMMA BeginPositioned ==
    ASSUME TypeOK, Shape, Positioned, BeginActivity
    PROVE  Positioned'
<1>1. Shape' /\ TypeOK'
  BY ShapeStep, TypeStep DEF Next, Positioned
<1>2. /\ stack # <<>> /\ Kind(at) = "activity" /\ at \in Nodes(program) /\ at \in Nat
      /\ at <= program[Top.node].last /\ Past(at) = at + 1 /\ Within(program, at) = {}
      /\ UNCHANGED <<program, state, wanted, done, again>>
      /\ searching' => searching
      /\ searching /\ ~searching' => known # NoPosition /\ known.label = at
  BY BeginCases
<1>3. CASE PassOver /\ UNCHANGED <<position, known, begun>>
  <2>1. Comes("activity") /\ searching' \in BOOLEAN
    BY <1>1 DEF BeginActivity, TypeOK
  <2> QED
    BY <1>1, <1>2, <1>3, <2>1, PassedPositioned
<1>4. CASE /\ Run("run") /\ ~searching'
           /\ known' = [label |-> at, detail |-> "at"]
           /\ begun' = begun \cup {at}
           /\ searching => known.detail # "after"
  <2>1. known' \in Positions /\ known' # NoPosition /\ known'.label = at /\ known'.detail = "at"
    BY <1>2, <1>4, ControlFlowAssumption DEF Positions
  <2>2. Published'
    BY <1>2, <2>1 DEF Published, Kind
  <2>3. Seeking'
    BY <1>4 DEF Seeking
  <2>4. Top'.node = at
    <3>1. Comes("activity")
      BY DEF BeginActivity
    <3>2. Top' = Frame(at, "run")
      BY <1>2, <1>4, <3>1, EnterStep DEF Run
    <3> QED
      BY <3>2 DEF Frame
  <2>5. ~InLoop(at) => at \notin done
    <3>1. ASSUME ~InLoop(at), at \in done, ~searching
          PROVE  FALSE
      <4>1. at \in begun
        BY <3>1 DEF TypeOK
      <4>2. at \in Reached(program, Marked)
        BY <1>2, <3>1, <4>1, InLoopIs DEF Reached, Marked
      <4> QED
        BY <1>2, <3>1, <4>2, ReachedBefore
    <3>2. ASSUME ~InLoop(at), at \in done, searching
          PROVE  FALSE
      BY <1>2, <1>4, <3>2 DEF Positioned, Settled
    <3> QED
      BY <3>1, <3>2
  <2>6. \A n : InLoop(n)' <=> InLoop(n)
    BY <1>2 DEF InLoop, Around, Kind
  <2>7. Working'
    BY <1>2, <1>4, <2>4, <2>5, <2>6 DEF Working
  <2>8. Settled'
    BY <1>2, <2>1, <2>5, <2>6 DEF Settled
  <2>9. Progress'
    <3>1. at' = at + 1
      BY <1>4 DEF Run
    <3>2. ~searching \/ (known # NoPosition /\ known.label = at)
      BY <1>2, <1>4
    <3> QED
      BY <1>2, <1>4, <3>1, <3>2, PublishedProgress
  <2> QED
    BY <2>2, <2>3, <2>7, <2>8, <2>9 DEF Positioned
<1> QED
  BY <1>3, <1>4, BeginCases

LEMMA CompletePositioned ==
    ASSUME TypeOK, Shape, Positioned, CompleteActivity
    PROVE  Positioned'
<1> DEFINE n == Top.node
<1>1. Shape'
  BY ShapeStep DEF Next
<1>2. AtEnd("activity") /\ Leave /\ stack # <<>> /\ Kind(n) = "activity"
  BY DEF CompleteActivity, AtEnd
<1>3. /\ Tree(program) /\ Path(program, stack) /\ Len(stack) \in Nat /\ n \in Nodes(program)
      /\ n \in Nat
  BY <1>2, Here
<1>4. n \in begun /\ known = [label |-> n, detail |-> "at"] /\ ~searching
  BY <1>2 DEF Positioned, Working
<1>5. /\ UNCHANGED <<program, executed, mode, searching, begun, at>>
      /\ known' = [label |-> n, detail |-> "after"]
      /\ done' = done \cup {n}
      /\ state' # "Finished"
  <2>1. state # "Finished"
    BY <1>2 DEF Shape
  <2> QED
    BY <2>1 DEF CompleteActivity, WeelProgress, info, Leave
<1>6. known # NoPosition /\ known' # NoPosition /\ known.label = n /\ known'.label = n
      /\ known'.detail = "after"
  BY <1>3, <1>4, <1>5, ControlFlowAssumption DEF Positions
<1>7. Published'
  BY <1>2, <1>3, <1>5, <1>6 DEF Published, Kind
<1>8. Seeking'
  BY <1>4, <1>5 DEF Seeking
<1>9. Working'
  <2>1. /\ Top' = stack[Len(stack) - 1] /\ Len(stack) >= 2
        /\ Top.node \in Children(program, stack[Len(stack) - 1].node)
    BY <1>2, LeaveStep DEF Leave
  <2>2. stack[Len(stack) - 1].node \in Nodes(program)
    BY <1>3, <2>1, PathFacts
  <2>3. program[Top'.node].kind # "activity"
    BY <1>3, <2>1, <2>2, ParentIsNoLeaf
  <2> QED
    BY <1>5, <2>3 DEF Working, Kind
<1>10. Settled'
  BY <1>6 DEF Settled
<1>11. Progress'
  <2>1. Reached(program', Marked') = Reached(program, Marked)
    BY <1>5, <1>6 DEF Marked
  <2> QED
    BY <1>2, <1>5, <1>6, <2>1 DEF Positioned, Progress
<1> QED
  BY <1>7, <1>8, <1>9, <1>10, <1>11 DEF Positioned

LEMMA StopPositioned ==
    ASSUME TypeOK, Shape, Positioned, Stop
    PROVE  Positioned'
<1>1. Shape' /\ TypeOK'
  BY ShapeStep, TypeStep DEF Next, Positioned
<1>2. /\ stack # <<>> /\ Kind(at) = "stop" /\ at \in Nodes(program) /\ at \in Nat
      /\ at <= program[Top.node].last /\ Past(at) = at + 1
      /\ PassOver /\ UNCHANGED <<program, wanted, begun, done>>
      /\ searching' => searching
      /\ searching /\ ~searching' => known # NoPosition /\ known.label = at
      /\ Comes("stop") /\ searching' \in BOOLEAN
  BY <1>1, StopCases DEF history, Stop, TypeOK
<1>3. CASE known' = known
  BY <1>1, <1>2, <1>3, PassedPositioned
<1>4. CASE ~searching' /\ state' = "Stopping" /\ known' = [label |-> at, detail |-> "after"]
  <2>1. known' # NoPosition /\ known'.label = at /\ known'.detail = "after"
    BY <1>2, <1>4, ControlFlowAssumption DEF Positions
  <2>2. Published'
    BY <1>2, <2>1 DEF Published, Kind
  <2>3. Seeking'
    BY <1>4 DEF Seeking
  <2>4. Working'
    <3>1. at \in Children(program, Top.node) /\ Tree(program) /\ Top.node \in Nodes(program)
      BY <1>2, Here
    <3>2. program[Top.node].kind # "activity" /\ Top' = Top
      BY <1>2, <3>1, ParentIsNoLeaf DEF PassOver, Top
    <3> QED
      BY <1>2, <3>2 DEF Working, Kind
  <2>5. Settled'
    BY <2>1 DEF Settled
  <2>6. Progress'
    <3>1. at' = at + 1
      BY <1>2 DEF PassOver
    <3>2. ~searching \/ (known # NoPosition /\ known.label = at)
      BY <1>2, <1>4
    <3> QED
      BY <1>2, <1>4, <3>1, <3>2, PublishedProgress
  <2> QED
    BY <2>2, <2>3, <2>4, <2>5, <2>6 DEF Positioned
<1> QED
  BY <1>3, <1>4, StopCases

LEMMA EndPositioned ==
    ASSUME TypeOK, Shape, Positioned, EndModel
    PROVE  Positioned'
<1>1. /\ stack # <<>> /\ stack' = <<>> /\ UNCHANGED <<program, begun, done>>
      /\ state' = "Finished" \/ known' = known
      /\ known' = known \/ known' = NoPosition
  BY DEF EndModel, AtEnd, history
<1>2. state # "Finished"
  BY <1>1 DEF Shape
<1>3. Published'
  BY <1>1, <1>2 DEF Positioned, Published, Kind
<1>4. Seeking' /\ Working'
  BY <1>1 DEF Seeking, Working
<1>5. Settled'
  <2>1. \A n : InLoop(n)' <=> InLoop(n)
    BY <1>1 DEF InLoop, Around, Kind
  <2> QED
    BY <1>1, <2>1 DEF Positioned, Settled
<1>6. Progress'
  <2>1. known' # NoPosition => Marked' = Marked /\ known' = known
    BY <1>1 DEF Marked
  <2> QED
    BY <1>1, <2>1 DEF Positioned, Progress
<1> QED
  BY <1>3, <1>4, <1>5, <1>6 DEF Positioned

LEMMA RestartPositioned ==
    ASSUME TypeOK, Shape, Positioned, Restart
    PROVE  Positioned'
<1>1. /\ state = "Stopped" /\ UNCHANGED <<program, known, begun, done>>
      /\ wanted' = known /\ searching' = (known # NoPosition)
      /\ stack' = <<[node |-> 1, searched |-> known # NoPosition, pass |-> "run"]>>
  BY DEF Restart
<1>2. Tree(program)
  BY ProgramIsTree DEF TypeOK
<1>3. Len(stack') = 1 /\ stack'[1].node = 1 /\ stack'[1].searched = (known # NoPosition)
      /\ Top' = stack'[1] /\ program[1].kind = "model"
  BY <1>1, <1>2 DEF Top, Last, Tree
<1>4. Published'
  BY <1>1 DEF Positioned, Published, Kind
<1>5. Seeking'
  <2>1. known # NoPosition => stack'[1].searched
    BY <1>3
  <2>2. program'[stack'[1].node].kind # "loop"
    BY <1>1, <1>3
  <2>3. known # NoPosition => Searches(stack)'
    <3>1. \A i \in 1 .. Len(stack') : i = 1
      BY <1>3
    <3> QED
      BY <2>1, <2>2, <3>1 DEF Searches, Kind
  <2> QED
    BY <1>1, <2>3 DEF Seeking
<1>6. Working'
  BY <1>1, <1>3 DEF Working, Kind
<1>7. /\ \A n : InLoop(n)' <=> InLoop(n)
      /\ Reached(program', Marked') = Reached(program, Marked)
  BY <1>1 DEF InLoop, Around, Kind, Marked
<1>8. Settled'
  BY <1>1, <1>7 DEF Positioned, Settled
<1>9. Progress'
  <2>1. ~searching' => Reached(program, Marked) = {}
    BY <1>1 DEF Positioned, Published, Marked, Reached
  <2> QED
    BY <1>1, <1>7, <2>1 DEF Positioned, Progress
<1> QED
  BY <1>4, <1>5, <1>6, <1>8, <1>9 DEF Positioned

LEMMA PositionedStep ==
    ASSUME TypeOK, Shape, Positioned, Next
    PROVE  Positioned'
<1>1. CASE Quiet
  BY <1>1, QuietPositioned
<1>2. CASE BeginActivity \/ CompleteActivity \/ Stop \/ EndModel \/ Restart
  BY <1>2, BeginPositioned, CompletePositioned, StopPositioned, EndPositioned, RestartPositioned
<1>3. CASE Done
  <2>1. UNCHANGED vars
    BY <1>3 DEF Done
  <2>2. UNCHANGED <<program, state, at, stack, searching, wanted, known, begun, done>>
    BY <2>1 DEF vars, info, places, history
  <2>3. \A n : InLoop(n)' <=> InLoop(n)
    BY <2>2 DEF InLoop, Around, Kind
  <2> QED
    BY <2>2, <2>3 DEF Positioned, Published, Seeking, Working, Settled, Progress,
                      Searches, Marked, Top, Kind
<1> QED
  BY <1>1, <1>2, <1>3 DEF Next, Quiet
-----------------------------------------------------------------------------
Chooses(p, st, i) == {j \in 1 .. i : p[st[j].node].kind = "choose"}

Height(p, st, i) == Cardinality(Chooses(p, st, i))

\* The stack of ThreadInfo with l entries, whose modes are m, is that of the
\* chooses of the stack st.
Matches(p, st, l, m) ==
    /\ l = Height(p, st, Len(st)) /\ Len(m) = l
    /\ \A i \in 1 .. Len(st) :
          p[st[i].node].kind = "choose" => m[Height(p, st, i)] = p[st[i].node].variant

\* The same path, but for the pass that is made
SameCalls(st, su, n) == \A j \in 1 .. n : su[j].node = st[j].node

LEMMA HeightIsNat ==
    ASSUME NEW p, NEW st, NEW i \in Nat
    PROVE  IsFiniteSet(Chooses(p, st, i)) /\ Height(p, st, i) \in Nat
<1>1. IsFiniteSet(1 .. i)
  BY FS_Interval
<1>2. IsFiniteSet(Chooses(p, st, i))
  BY <1>1, FS_Subset DEF Chooses
<1> QED
  BY <1>2, FS_CardinalityType DEF Height

LEMMA HeightOfNone ==
    ASSUME NEW p, NEW st
    PROVE  Height(p, st, 0) = 0
<1>1. Chooses(p, st, 0) = {}
  BY DEF Chooses
<1> QED
  BY <1>1, FS_EmptySet DEF Height

LEMMA HeightNext ==
    ASSUME NEW p, NEW st, NEW i \in Nat
    PROVE  Height(p, st, i + 1) =
             IF p[st[i + 1].node].kind = "choose" THEN Height(p, st, i) + 1 ELSE Height(p, st, i)
<1>1. 1 .. i + 1 = (1 .. i) \cup {i + 1} /\ i + 1 \notin 1 .. i
  OBVIOUS
<1>2. CASE p[st[i + 1].node].kind = "choose"
  <2>1. Chooses(p, st, i + 1) = Chooses(p, st, i) \cup {i + 1} /\ i + 1 \notin Chooses(p, st, i)
    BY <1>1, <1>2 DEF Chooses
  <2> QED
    BY <1>2, <2>1, HeightIsNat, FS_AddElement DEF Height
<1>3. CASE p[st[i + 1].node].kind # "choose"
  <2>1. Chooses(p, st, i + 1) = Chooses(p, st, i)
    BY <1>1, <1>3 DEF Chooses
  <2> QED
    BY <1>3, <2>1 DEF Height
<1> QED
  BY <1>2, <1>3

LEMMA HeightGrows ==
    ASSUME NEW p, NEW st, NEW i \in Nat, NEW j \in Nat, i <= j
    PROVE  Height(p, st, i) <= Height(p, st, j)
<1>1. Chooses(p, st, i) \subseteq Chooses(p, st, j)
  BY DEF Chooses
<1> QED
  BY <1>1, HeightIsNat, FS_Subset DEF Height

LEMMA HeightOfSame ==
    ASSUME NEW p, NEW st, NEW su, NEW n \in Nat, SameCalls(st, su, n), NEW i \in 0 .. n
    PROVE  Height(p, su, i) = Height(p, st, i)
<1>1. \A j \in 1 .. i : su[j].node = st[j].node
  BY DEF SameCalls
<1>2. Chooses(p, su, i) = Chooses(p, st, i)
  BY <1>1 DEF Chooses
<1> QED
  BY <1>2 DEF Height

\* Calls that are no chooses do not count.
LEMMA HeightOfOthers ==
    ASSUME NEW p, NEW st, NEW n \in Nat, NEW d \in Nat, n <= d,
           \A j \in n + 1 .. d : p[st[j].node].kind # "choose"
    PROVE  Height(p, st, n) = Height(p, st, d)
<1>1. Chooses(p, st, d) = Chooses(p, st, n)
  BY DEF Chooses
<1> QED
  BY <1>1 DEF Height

LEMMA MatchesPart ==
    ASSUME NEW p, NEW st, NEW su, NEW l, NEW m, Matches(p, st, l, m),
           NEW n \in Nat, Len(st) \in Nat, n <= Len(st), Len(su) = n, SameCalls(st, su, n),
           \A j \in n + 1 .. Len(st) : p[st[j].node].kind # "choose"
    PROVE  Matches(p, su, l, m)
<1>1. Height(p, su, n) = Height(p, st, n) /\ Height(p, st, n) = Height(p, st, Len(st))
  BY HeightOfSame, HeightOfOthers
<1>2. \A i \in 1 .. n : /\ Height(p, su, i) = Height(p, st, i)
                        /\ su[i].node = st[i].node
                        /\ i \in 1 .. Len(st)
  <2>1. \A i \in 0 .. n : Height(p, su, i) = Height(p, st, i)
    BY HeightOfSame
  <2>2. \A i \in 1 .. n : i \in 0 .. n /\ i \in 1 .. Len(st)
    OBVIOUS
  <2> QED
    BY <2>1, <2>2 DEF SameCalls
<1> QED
  BY <1>1, <1>2 DEF Matches

LEMMA MatchesMore ==
    ASSUME NEW p, NEW st, NEW su, NEW l, NEW m, Matches(p, st, l, m),
           Len(st) \in Nat, Len(su) = Len(st) + 1, SameCalls(st, su, Len(st)),
           p[su[Len(su)].node].kind # "choose"
    PROVE  Matches(p, su, l, m)
<1> DEFINE d == Len(st)
<1>1. \A i \in 0 .. d : Height(p, su, i) = Height(p, st, i)
  BY HeightOfSame
<1>2. Height(p, su, d + 1) = Height(p, st, d)
  <2>1. Height(p, su, d + 1) = Height(p, su, d)
    BY HeightNext
  <2> QED
    BY <1>1, <2>1
<1>4. \A i \in 1 .. d : Height(p, su, i) = Height(p, st, i) /\ su[i].node = st[i].node
  BY <1>1 DEF SameCalls
<1>3. \A i \in 1 .. Len(su) : i \in 1 .. d \/ i = Len(su)
  OBVIOUS
<1> QED
  BY <1>2, <1>3, <1>4 DEF Matches

LEMMA MatchesChoose ==
    ASSUME NEW p, NEW st, NEW su, NEW l, NEW m \in Seq(Variants), Matches(p, st, l, m),
           Len(st) \in Nat, Len(su) = Len(st) + 1, SameCalls(st, su, Len(st)),
           p[su[Len(su)].node].kind = "choose", p[su[Len(su)].node].variant \in Variants
    PROVE  Matches(p, su, l + 1, Append(m, p[su[Len(su)].node].variant))
<1> DEFINE d == Len(st)
           v == p[su[Len(su)].node].variant
           w == Append(m, v)
<1>0. \A i \in 0 .. d : Height(p, su, i) = Height(p, st, i)
  BY HeightOfSame
<1>1. \A i \in 1 .. d : Height(p, su, i) = Height(p, st, i) /\ su[i].node = st[i].node
  BY <1>0 DEF SameCalls
<1>2. Height(p, su, d + 1) = Height(p, st, d) + 1 /\ Height(p, st, d) = l /\ Len(m) = l /\ l \in Nat
  <2>1. Height(p, su, d + 1) = Height(p, su, d) + 1
    BY HeightNext
  <2>2. Height(p, su, d) = Height(p, st, d)
    BY <1>0
  <2> QED
    BY <2>1, <2>2, HeightIsNat DEF Matches
<1>3. /\ Len(w) = l + 1 /\ \A j \in 1 .. l : w[j] = m[j]
      /\ w[l + 1] = v
  BY <1>2, AppendProperties
<1>4. ASSUME NEW i \in 1 .. Len(su), p[su[i].node].kind = "choose"
      PROVE  w[Height(p, su, i)] = p[su[i].node].variant
  <2>1. CASE i \in 1 .. d
    <3>1. Height(p, st, i) \in 1 .. l
      <4>1. i - 1 \in Nat /\ (i - 1) + 1 = i /\ i \in Nat /\ i <= d
        BY <2>1
      <4>2. Height(p, st, i) = Height(p, st, i - 1) + 1
        BY <1>1, <1>4, <2>1, <4>1, HeightNext
      <4> QED
        BY <1>2, <4>1, <4>2, HeightIsNat, HeightGrows
    <3> QED
      BY <1>1, <1>3, <1>4, <2>1, <3>1 DEF Matches
  <2>2. CASE i = Len(su)
    BY <1>2, <1>3, <2>2
  <2>3. i \in 1 .. d \/ i = Len(su)
    OBVIOUS
  <2> QED
    BY <2>1, <2>2, <2>3
<1> QED
  BY <1>2, <1>3, <1>4 DEF Matches

LEMMA MatchesLeave ==
    ASSUME NEW p, NEW st, NEW su, NEW l, NEW m \in Seq(Variants), Matches(p, st, l, m),
           Len(st) \in Nat \ {0}, Len(su) = Len(st) - 1, SameCalls(st, su, Len(st) - 1),
           p[st[Len(st)].node].kind = "choose"
    PROVE  Matches(p, su, l - 1, Front(m)) /\ m # <<>> /\ l >= 1
<1> DEFINE d == Len(st) - 1
<1>1. d \in Nat /\ d + 1 = Len(st)
  OBVIOUS
<1>0. \A i \in 0 .. d : Height(p, su, i) = Height(p, st, i)
  BY <1>1, HeightOfSame
<1>2. \A i \in 1 .. d : Height(p, su, i) = Height(p, st, i) /\ su[i].node = st[i].node
  BY <1>0, <1>1 DEF SameCalls
<1>3. /\ Height(p, st, d) + 1 = l /\ Height(p, su, d) = Height(p, st, d)
      /\ Height(p, st, d) \in Nat /\ Len(m) = l
  <2>1. Height(p, st, d + 1) = Height(p, st, d) + 1
    BY <1>1, HeightNext
  <2>2. Height(p, su, d) = Height(p, st, d)
    BY <1>0, <1>1
  <2> QED
    BY <1>1, <2>1, <2>2, HeightIsNat DEF Matches
<1>4. m # <<>> /\ l >= 1 /\ Len(Front(m)) = l - 1 /\ \A j \in 1 .. l - 1 : Front(m)[j] = m[j]
  BY <1>3, FrontType
<1>5. ASSUME NEW i \in 1 .. d, p[su[i].node].kind = "choose"
      PROVE  Front(m)[Height(p, su, i)] = p[su[i].node].variant
  <2>1. Height(p, st, i) \in 1 .. l - 1
    <3>1. i - 1 \in Nat /\ (i - 1) + 1 = i /\ i \in Nat /\ i <= d
      BY <1>1
    <3>2. Height(p, st, i) = Height(p, st, i - 1) + 1
      BY <1>2, <1>5, <3>1, HeightNext
    <3>3. Height(p, st, i) <= Height(p, st, d)
      BY <1>1, <3>1, HeightGrows
    <3> QED
      BY <1>3, <3>1, <3>2, <3>3, HeightIsNat
  <2>2. i \in 1 .. Len(st)
    BY <1>1
  <2> QED
    BY <1>2, <1>4, <1>5, <2>1, <2>2 DEF Matches
<1> QED
  BY <1>1, <1>3, <1>4, <1>5 DEF Matches

LEMMA StacksMatchIs ==
    ASSUME NEW F, stack \in Seq(F)
    PROVE  StacksMatch <=> (~unwound => Matches(program, stack, Len(executed), mode))
<1>1. \A i : Depth(i) = Height(program, stack, i)
  BY DEF Depth, Height, Chooses, Kind
<1>2. DOMAIN stack = 1 .. Len(stack)
  OBVIOUS
<1> QED
  BY <1>1, <1>2 DEF StacksMatch, Matches, Kind

LEMMA StacksMatchStep ==
    ASSUME TypeOK, TypeOK', Shape, StacksMatch, Next
    PROVE  StacksMatch'
<1> DEFINE Fine == Matches(program, stack', Len(executed'), mode')
           Noted == Len(executed') = Len(executed) /\ mode' = mode
<1>1. program' = program
  BY ShapeStep
<1>2. ~unwound' => ~unwound
  BY DEF Next, Choose, EndChoose, PassAlternative, Alternative, EndAlternative,
         Otherwise, EndOtherwise, Loop, LoopSearched, LoopTest, Escape, Unwind, Critical,
         EndCritical, BeginActivity, CompleteActivity, LeaveActivity, Stop, Terminate,
         StopWeel, EndModel, Restart, Done, vars, history
<1> SUFFICES ASSUME ~unwound'
             PROVE  Fine
  <2>1. \A i : Depth(i)' = Height(program, stack', i)
    BY <1>1 DEF Depth, Height, Chooses, Kind
  <2>2. DOMAIN stack' = 1 .. Len(stack')
    BY DEF TypeOK
  <2> QED
    BY <1>1, <2>1, <2>2 DEF StacksMatch, Matches, Kind
<1>3. /\ Matches(program, stack, Len(executed), mode)
      /\ executed \in Seq(BOOLEAN) /\ mode \in Seq(Variants) /\ Len(stack) \in Nat
  BY <1>2, StacksMatchIs DEF TypeOK
<1>4. ASSUME NEW k, Comes(k), PassOver, Noted
      PROVE  Fine
  BY <1>3, <1>4 DEF PassOver
<1>5. ASSUME NEW k, Comes(k), k \notin {"model", "choose"}, NEW pass \in {"run", "search"},
             stack' = Append(stack, Frame(at, pass)), at' \in {at + 1, Past(at)}, Noted
      PROVE  Fine
  <2>1. /\ Len(stack') = Len(stack) + 1
        /\ \A i \in 1 .. Len(stack) : stack'[i] = stack[i]
        /\ stack'[Len(stack) + 1] = Frame(at, pass)
    BY <1>1, <1>5, EnterStep
  <2>2. SameCalls(stack, stack', Len(stack))
    BY <2>1 DEF SameCalls
  <2>3. program[stack'[Len(stack')].node].kind # "choose"
    BY <1>5, <2>1 DEF Frame, Comes, Kind
  <2> QED
    BY <1>3, <1>5, <2>1, <2>2, <2>3, MatchesMore
<1>6. ASSUME NEW k, AtEnd(k), k \notin {"model", "choose"}, Leave, Noted
      PROVE  Fine
  <2>1. /\ Len(stack) >= 2 /\ Len(stack') = Len(stack) - 1
        /\ \A i \in 1 .. Len(stack) - 1 : stack'[i] = stack[i]
        /\ Kind(Top.node) = k /\ Top = stack[Len(stack)]
    BY <1>6, LeaveStep, Here DEF Leave, AtEnd
  <2>2. SameCalls(stack, stack', Len(stack) - 1)
    BY <2>1 DEF SameCalls
  <2>3. \A j \in (Len(stack) - 1) + 1 .. Len(stack) : program[stack[j].node].kind # "choose"
    <3>1. \A j \in (Len(stack) - 1) + 1 .. Len(stack) : j = Len(stack)
      BY <1>3
    <3> QED
      BY <1>6, <2>1, <3>1 DEF Kind
  <2>4. Len(stack) - 1 \in Nat /\ Len(stack) - 1 <= Len(stack)
    BY <1>3, <2>1
  <2> QED
    BY <1>3, <1>6, <2>1, <2>2, <2>3, <2>4, MatchesPart
<1>7. ASSUME stack' = stack, Noted
      PROVE  Fine
  BY <1>3, <1>7
<1> HIDE DEF Fine
<1>8. CASE Choose
  <2>1. CASE PassOver /\ UNCHANGED <<executed, mode>>
    BY <1>7, <2>1 DEF PassOver
  <2>2. CASE /\ Run("run") /\ executed' = Append(executed, FALSE)
             /\ mode' = Append(mode, program[at].variant)
    <3>1. Comes("choose")
      BY <1>8 DEF Choose
    <3>2. /\ Len(stack') = Len(stack) + 1
          /\ \A i \in 1 .. Len(stack) : stack'[i] = stack[i]
          /\ stack'[Len(stack) + 1] = Frame(at, "run")
      BY <1>1, <2>2, <3>1, EnterStep DEF Run
    <3>3. SameCalls(stack, stack', Len(stack))
      BY <3>2 DEF SameCalls
    <3>4. /\ stack'[Len(stack')].node = at /\ program[at].kind = "choose"
          /\ program[at].variant \in Variants
      <4>1. at \in Nodes(program) /\ Tree(program) /\ Kind(at) = "choose"
        BY <3>1, ComesHere, ProgramIsTree DEF TypeOK
      <4> QED
        BY <3>2, <4>1 DEF Frame, Kind, Tree
    <3>5. Len(executed') = Len(executed) + 1
      BY <1>3, <2>2, AppendFalse
    <3> QED
      BY <1>3, <2>2, <3>2, <3>3, <3>4, <3>5, MatchesChoose DEF Fine
  <2> QED
    BY <1>8, <2>1, <2>2 DEF Choose
<1>9. CASE EndChoose
  <2>1. AtEnd("choose") /\ Leave /\ executed' = Front(executed) /\ mode' = Front(mode)
    BY <1>9 DEF EndChoose
  <2>2. /\ Len(stack) >= 2 /\ Len(stack') = Len(stack) - 1
        /\ \A i \in 1 .. Len(stack) - 1 : stack'[i] = stack[i]
        /\ Kind(Top.node) = "choose" /\ Top = stack[Len(stack)]
    BY <2>1, LeaveStep, Here DEF Leave, AtEnd
  <2>3. SameCalls(stack, stack', Len(stack) - 1)
    BY <2>2 DEF SameCalls
  <2>4. /\ Matches(program, stack', Len(executed) - 1, Front(mode))
        /\ Len(executed) >= 1
    <3>1. Len(stack) \in Nat \ {0} /\ program[stack[Len(stack)].node].kind = "choose"
      BY <1>3, <2>2 DEF Kind
    <3> QED
      BY <1>3, <2>2, <2>3, <3>1, MatchesLeave
  <2>5. Len(executed') = Len(executed) - 1
    <3>1. executed # <<>>
      BY <1>3, <2>4
    <3> QED
      BY <1>3, <2>1, <3>1, FrontType
  <2> QED
    BY <2>1, <2>4, <2>5 DEF Fine
<1>10. CASE PassAlternative
  BY <1>4, <1>10 DEF PassAlternative, info
<1>11. CASE Alternative
  <2>1. Len(executed') = Len(executed) /\ mode' = mode
    <3>1. executed' = executed \/ executed' = MarkExecuted(executed)
      BY <1>11 DEF Alternative
    <3>2. executed = <<>> => MarkExecuted(executed) = <<>>
      BY DEF MarkExecuted
    <3>3. mode' = mode
      BY <1>11 DEF Alternative
    <3> QED
      BY <1>3, <3>1, <3>2, <3>3, MarkType
  <2>2. Comes("alternative") /\ (Run("run") \/ PassOver)
    BY <1>11 DEF Alternative
  <2> QED
    BY <1>4, <1>5, <2>1, <2>2 DEF Run
<1>12. CASE EndAlternative
  <2>1. Len(executed') = Len(executed) /\ mode' = mode
    <3>1. executed' = executed \/ executed' = MarkExecuted(executed)
      BY <1>12 DEF EndAlternative
    <3>2. executed = <<>> => MarkExecuted(executed) = <<>>
      BY DEF MarkExecuted
    <3>3. mode' = mode
      BY <1>12 DEF EndAlternative
    <3> QED
      BY <1>3, <3>1, <3>2, <3>3, MarkType
  <2> QED
    BY <1>6, <1>12, <2>1 DEF EndAlternative
<1>13. CASE Otherwise \/ Loop \/ Critical \/ BeginActivity
  <2>1. executed' = executed /\ mode' = mode
    BY <1>13 DEF Otherwise, Loop, Critical, BeginActivity, info
  <2>2. \E k \in {"otherwise", "loop", "critical", "activity"} :
          /\ Comes(k)
          /\ \/ PassOver
             \/ \E pass \in {"run", "search"} :
                  stack' = Append(stack, Frame(at, pass)) /\ at' \in {at + 1, Past(at)}
    <3>1. \A pass : Run(pass) => stack' = Append(stack, Frame(at, pass)) /\ at' \in {at + 1, Past(at)}
      BY DEF Run
    <3>2. CASE Otherwise
      BY <3>1, <3>2 DEF Otherwise
    <3>3. CASE Loop
      BY <3>1, <3>3 DEF Loop
    <3>4. CASE Critical
      BY <3>1, <3>4 DEF Critical
    <3>5. CASE BeginActivity
      BY <3>1, <3>5 DEF BeginActivity
    <3> QED
      BY <1>13, <3>2, <3>3, <3>4, <3>5
  <2> QED
    BY <1>4, <1>5, <2>1, <2>2
<1>14. CASE \/ EndOtherwise \/ EndCritical \/ CompleteActivity \/ LeaveActivity
            \/ (LoopSearched /\ searching) \/ (LoopTest /\ Leave)
  <2>1. executed' = executed /\ mode' = mode
    BY <1>14 DEF EndOtherwise, EndCritical, CompleteActivity, LeaveActivity, LoopSearched,
                 LoopTest, info
  <2>2. \E k \in {"otherwise", "critical", "activity", "loop"} : AtEnd(k) /\ Leave
    BY <1>14 DEF EndOtherwise, EndCritical, CompleteActivity, LeaveActivity, LoopSearched,
                 LoopTest
  <2> QED
    BY <1>6, <2>1, <2>2
<1>15. CASE LoopSearched /\ ~searching
  <2>1. /\ stack # <<>> /\ at' = at /\ stack' = [stack EXCEPT ![Len(stack)].pass = "run"]
        /\ executed' = executed /\ mode' = mode
    BY <1>15 DEF LoopSearched, AtEnd, info
  <2>2. /\ Len(stack') = Len(stack)
        /\ \A i \in 1 .. Len(stack) : stack'[i].node = stack[i].node
    BY <2>1, FlipStep
  <2>3. SameCalls(stack, stack', Len(stack))
    BY <2>2 DEF SameCalls
  <2>4. \A j \in Len(stack) + 1 .. Len(stack) : program[stack[j].node].kind # "choose"
    BY <1>3
  <2>5. Matches(program, stack', Len(executed), mode)
    <3>1. Len(stack) <= Len(stack)
      BY <1>3
    <3> QED
      BY <1>3, <2>2, <2>3, <2>4, <3>1, MatchesPart
  <2> QED
    BY <2>1, <2>5 DEF Fine
<1>16. CASE (LoopTest /\ ~Leave) \/ StopWeel \/ Stop \/ Terminate
  BY <1>7, <1>16 DEF LoopTest, StopWeel, Stop, Terminate, PassOver, info
<1>17. CASE Escape
  <2>1. executed' = executed /\ mode' = mode
    BY <1>17 DEF Escape, info
  <2>2. CASE at' = Past(at) /\ stack' = stack
    BY <1>7, <2>1, <2>2
  <2>3. CASE ~(at' = Past(at) /\ stack' = stack)
    <3>1. PICK i \in 1 .. Len(stack) : \E n \in {i - 1, i} :
            /\ stack # <<>> /\ n >= 1 /\ Unwind(i, n)
            /\ (i = 1 /\ n = 1) \/ Kind(stack[i].node) = "loop"
      BY <1>17, <2>3, EscapeStep
    <3>2. PICK n \in {i - 1, i} :
            /\ stack # <<>> /\ n >= 1 /\ Unwind(i, n)
            /\ (i = 1 /\ n = 1) \/ Kind(stack[i].node) = "loop"
      BY <3>1
    <3>3. Len(stack') = n /\ n <= Len(stack) /\ \A j \in 1 .. n : stack'[j] = stack[j]
      BY <3>2, UnwindStep
    <3>4. SameCalls(stack, stack', n)
      BY <3>3 DEF SameCalls
    <3>5. \A j \in i + 1 .. Len(stack) : program[stack[j].node].kind # "choose"
      BY <3>2 DEF Unwind, Kind
    <3>6. ASSUME NEW j \in n + 1 .. Len(stack)
          PROVE  program[stack[j].node].kind # "choose"
      <4>1. j \in i + 1 .. Len(stack) \/ (j = i /\ n = i - 1)
        BY <1>3, <3>2
      <4> QED
        BY <3>2, <3>5, <4>1 DEF Kind
    <3>7. n \in Nat
      BY <3>2
    <3> QED
      BY <1>3, <2>1, <3>3, <3>4, <3>6, <3>7, MatchesPart DEF Fine
  <2> QED
    BY <2>2, <2>3
<1>18. CASE EndModel
  <2>1. /\ stack # <<>> /\ Kind(Top.node) = "model" /\ stack' = <<>>
        /\ executed' = executed /\ mode' = mode
    BY <1>18 DEF EndModel, AtEnd, info
  <2>2. Len(stack) = 1 /\ Top = stack[1]
    <3>1. Len(stack) \in Nat \ {0} /\ Top = stack[Len(stack)]
      BY <2>1, Here
    <3>2. \A i \in 2 .. Len(stack) : Kind(stack[i].node) # "model"
      BY <2>1 DEF Shape
    <3> QED
      BY <2>1, <3>1, <3>2
  <2>3. \A j \in 0 + 1 .. Len(stack) : program[stack[j].node].kind # "choose"
    BY <2>1, <2>2 DEF Kind
  <2>4. Len(stack') = 0 /\ SameCalls(stack, stack', 0)
    BY <2>1 DEF SameCalls
  <2> QED
    BY <1>3, <2>1, <2>2, <2>3, <2>4, MatchesPart DEF Fine
<1>19. CASE Restart
  <2>1. /\ executed' = <<>> /\ mode' = <<>>
        /\ stack' = <<[node |-> 1, searched |-> known # NoPosition, pass |-> "run"]>>
    BY <1>19 DEF Restart
  <2>2. Len(stack') = 1 /\ stack'[1].node = 1 /\ Len(executed') = 0 /\ Len(mode') = 0
    BY <2>1
  <2>3. program[1].kind = "model"
    BY ProgramIsTree DEF TypeOK, Tree
  <2>4. Height(program, stack', 0 + 1) = Height(program, stack', 0)
    BY <2>2, <2>3, HeightNext
  <2> QED
    BY <2>2, <2>3, <2>4, HeightOfNone DEF Fine, Matches
<1>20. CASE Done
  BY <1>7, <1>20 DEF Done, vars, info
<1> QED
  BY <1>8, <1>9, <1>10, <1>11, <1>12, <1>13, <1>14, <1>15, <1>16, <1>17, <1>18, <1>19,
     <1>20 DEF Next
-----------------------------------------------------------------------------
\* A choose outside of loops whose otherwise is its last branch
Regular(p, c) ==
    /\ p[c].kind = "choose"
    /\ \A j \in Outer(p, c) : p[j].kind # "loop"
    /\ \A k, l \in Children(p, c) : p[k].kind = "otherwise" => l <= k

\* The branches of c that have been entered, for the places m where the
\* instance has been
Been(p, c, m) == {k \in Children(p, c) : Within(p, k) \cap m # {}}

\* One instance may take the branches k and l of c.
Compatible(p, c, k, l) ==
    k # l => /\ p[c].variant = "inclusive"
             /\ p[k].kind = "alternative" /\ p[l].kind = "alternative"

Kept(p, m) ==
    \A c \in Nodes(p) : Regular(p, c) =>
        \A k, l \in Been(p, c, m) : Compatible(p, c, k, l)

\* Each branch that runs may be taken.
Follows(p, m, st) ==
    \A i \in 1 .. Len(st) - 1 : Regular(p, st[i].node) =>
        \A k \in Been(p, st[i].node, m) : Compatible(p, st[i].node, k, st[i + 1].node)

\* A choose that has taken an alternative has it marked.
Decided(p, m, c, marked) ==
    Regular(p, c) => \A k \in Been(p, c, m) : marked \/ p[k].kind = "otherwise"

\* An alternative that was not entered by the search is marked in its choose.
Noted(p, st, e) ==
    \A i \in 2 .. Len(st) :
        p[st[i].node].kind = "alternative" /\ ~st[i].searched => e[Height(p, st, i)] = TRUE

Branching ==
    ~unwound =>
        /\ Kept(program, Marked)
        /\ stack # <<>> /\ ~searching =>
              /\ Follows(program, Marked, stack)
              /\ Decided(program, Marked, Top.node, Last(executed) = TRUE)
        /\ Noted(program, stack, executed)

\* A call has one parent.
LEMMA OneParent ==
    ASSUME NEW p, Tree(p), NEW c \in Nodes(p), NEW n \in Nodes(p), NEW k,
           k \in Children(p, c), k \in Children(p, n)
    PROVE  c = n
<1>1. /\ k \in Within(p, c) /\ Lone(p, c, k) /\ k \in Within(p, n) /\ Lone(p, n, k)
      /\ c \in Nat /\ n \in Nat /\ k \in Nat /\ c < k /\ n < k
      /\ p[c].last \in Nat /\ p[n].last \in Nat /\ k <= p[c].last /\ k <= p[n].last
  BY ChildrenAre, TreeFacts
<1>2. c < n => n \in Within(p, c)
  BY <1>1 DEF Within
<1>3. n < c => c \in Within(p, n)
  BY <1>1 DEF Within
<1> QED
  BY <1>1, <1>2, <1>3 DEF Lone

\* A call is in one child.
LEMMA OneChild ==
    ASSUME NEW p, Tree(p), NEW c \in Nodes(p), NEW k \in Children(p, c),
           NEW l \in Children(p, c), NEW a, a \in Within(p, k), a \in Within(p, l)
    PROVE  k = l
<1>1. /\ k \in Within(p, c) /\ Lone(p, c, k) /\ l \in Within(p, c) /\ Lone(p, c, l)
      /\ k \in Nodes(p) /\ l \in Nodes(p)
  BY ChildrenAre, TreeFacts
<1>2. /\ k \in Nat /\ l \in Nat /\ a \in Nat /\ p[k].last \in Nat /\ p[l].last \in Nat
      /\ k < a /\ l < a /\ a <= p[k].last /\ a <= p[l].last
  BY <1>1, TreeFacts
<1>3. k < l => l \in Within(p, k)
  BY <1>2 DEF Within
<1>4. l < k => k \in Within(p, l)
  BY <1>2 DEF Within
<1> QED
  BY <1>1, <1>2, <1>3, <1>4 DEF Lone

LEMMA KeptLess ==
    ASSUME NEW p, NEW m, NEW l, l \subseteq m, Kept(p, m)
    PROVE  Kept(p, l)
<1>1. \A c : Been(p, c, l) \subseteq Been(p, c, m)
  BY DEF Been
<1> QED
  BY <1>1 DEF Kept

LEMMA FollowsPart ==
    ASSUME NEW p, NEW m, NEW st, NEW su, Follows(p, m, st), Len(su) \in Nat, Len(st) \in Nat,
           Len(su) <= Len(st), SameCalls(st, su, Len(su))
    PROVE  Follows(p, m, su)
<1>1. ASSUME NEW i \in 1 .. Len(su) - 1
      PROVE  /\ i \in 1 .. Len(st) - 1 /\ su[i].node = st[i].node
             /\ su[i + 1].node = st[i + 1].node
  <2>1. i \in 1 .. Len(su) /\ i + 1 \in 1 .. Len(su) /\ i \in 1 .. Len(st) - 1
    OBVIOUS
  <2> QED
    BY <2>1 DEF SameCalls
<1> QED
  BY <1>1 DEF Follows

LEMMA FollowsMore ==
    ASSUME NEW p, NEW m, NEW st, NEW su, Follows(p, m, st), Len(st) \in Nat \ {0},
           Len(su) = Len(st) + 1, SameCalls(st, su, Len(st)),
           Regular(p, st[Len(st)].node) =>
              \A k \in Been(p, st[Len(st)].node, m) :
                  Compatible(p, st[Len(st)].node, k, su[Len(su)].node)
    PROVE  Follows(p, m, su)
<1> DEFINE d == Len(st)
<1>1. ASSUME NEW i \in 1 .. d - 1
      PROVE  su[i].node = st[i].node /\ su[i + 1].node = st[i + 1].node
  <2>1. i \in 1 .. d /\ i + 1 \in 1 .. d
    OBVIOUS
  <2> QED
    BY <2>1 DEF SameCalls
<1>2. su[d].node = st[d].node
  <2>1. d \in 1 .. d
    OBVIOUS
  <2> QED
    BY <2>1 DEF SameCalls
<1>3. \A i \in 1 .. Len(su) - 1 : i \in 1 .. d - 1 \/ (i = d /\ i + 1 = Len(su))
  OBVIOUS
<1> QED
  BY <1>1, <1>2, <1>3 DEF Follows

\* The entry of an alternative of the stack
LEMMA HeightOfAlternative ==
    ASSUME NEW p, Tree(p), NEW st, Path(p, st), NEW i \in 2 .. Len(st),
           p[st[i].node].kind = "alternative"
    PROVE  /\ Height(p, st, i) \in Nat /\ Height(p, st, i) >= 1
           /\ Height(p, st, i) <= Height(p, st, Len(st))
           /\ Height(p, st, i) = Height(p, st, i - 1)
           /\ p[st[i - 1].node].kind = "choose"
<1>1. /\ Len(st) \in Nat /\ i \in Nat /\ i - 1 \in 1 .. Len(st) - 1 /\ (i - 1) + 1 = i
      /\ i - 2 \in Nat /\ (i - 2) + 1 = i - 1 /\ i - 1 \in Nat /\ i <= Len(st)
      /\ i - 1 \in 1 .. Len(st)
  BY PathFacts
<1>2. st[i].node \in Children(p, st[i - 1].node) /\ st[i - 1].node \in Nodes(p)
  <2>1. st[(i - 1) + 1].node \in Children(p, st[i - 1].node)
    BY <1>1 DEF Path
  <2> QED
    BY <1>1, <2>1, PathFacts
<1>3. p[st[i - 1].node].kind = "choose"
  BY <1>2 DEF Tree
<1>4. Height(p, st, i - 1) = Height(p, st, i - 2) + 1
  <2>1. Height(p, st, (i - 2) + 1) = Height(p, st, i - 2) + 1
    BY <1>1, <1>3, HeightNext
  <2> QED
    BY <1>1, <2>1
<1>5. Height(p, st, i) = Height(p, st, i - 1)
  <2>1. Height(p, st, (i - 1) + 1) = Height(p, st, i - 1)
    BY <1>1, HeightNext
  <2> QED
    BY <1>1, <2>1
<1>6. Height(p, st, i - 2) \in Nat /\ Height(p, st, i) \in Nat
  BY <1>1, HeightIsNat
<1>7. Height(p, st, i) <= Height(p, st, Len(st))
  BY <1>1, HeightGrows
<1> QED
  BY <1>3, <1>4, <1>5, <1>6, <1>7

\* A new step of the path, or a part of it, keeps what is noted.
LEMMA NotedFrom ==
    ASSUME NEW p, Tree(p), NEW st, Path(p, st), NEW su, NEW e, NEW f, Noted(p, st, e),
           NEW n \in 1 .. Len(st), SameCalls(st, su, n),
           \A j \in 1 .. n : su[j].searched = st[j].searched,
           \A h \in 1 .. Height(p, st, n) : e[h] = TRUE => f[h] = TRUE,
           Len(su) \in {n, n + 1},
           Len(su) = n + 1 /\ p[su[n + 1].node].kind = "alternative" /\ ~su[n + 1].searched
              => f[Height(p, su, n + 1)] = TRUE
    PROVE  Noted(p, su, f)
<1>1. n \in Nat /\ n <= Len(st) /\ Len(st) \in Nat
  BY PathFacts
<1>2. \A i \in 0 .. n : Height(p, su, i) = Height(p, st, i)
  BY <1>1, HeightOfSame
<1>3. ASSUME NEW i \in 2 .. n, p[su[i].node].kind = "alternative", ~su[i].searched
      PROVE  f[Height(p, su, i)] = TRUE
  <2>1. /\ i \in 1 .. n /\ i \in 0 .. n /\ i \in 2 .. Len(st) /\ i \in Nat /\ i <= n
    BY <1>1
  <2>2. su[i].node = st[i].node /\ ~st[i].searched /\ p[st[i].node].kind = "alternative"
    BY <1>3, <2>1 DEF SameCalls
  <2>3. e[Height(p, st, i)] = TRUE
    BY <2>1, <2>2 DEF Noted
  <2>4. Height(p, st, i) \in 1 .. Height(p, st, n)
    <3>1. Height(p, st, i) \in Nat /\ Height(p, st, i) >= 1
      BY <2>1, <2>2, HeightOfAlternative
    <3>2. Height(p, st, i) <= Height(p, st, n) /\ Height(p, st, n) \in Nat
      BY <1>1, <2>1, HeightGrows, HeightIsNat
    <3> QED
      BY <3>1, <3>2
  <2> QED
    BY <1>2, <2>1, <2>3, <2>4
<1>4. \A i \in 2 .. Len(su) : i \in 2 .. n \/ (i = n + 1 /\ Len(su) = n + 1)
  BY <1>1
<1> QED
  BY <1>3, <1>4 DEF Noted

\* Only a choose decides.
LEMMA DecidedOther ==
    ASSUME NEW p, NEW m, NEW c, NEW x, p[c].kind # "choose"
    PROVE  Decided(p, m, c, x)
BY DEF Decided, Regular

\* The calls of the stack are those around the next call.
LEMMA AroundNext ==
    ASSUME TypeOK, Shape, stack # <<>>, at <= program[Top.node].last
    PROVE  Outer(program, at) = {stack[j].node : j \in 1 .. Len(stack)}
<1>1. /\ Tree(program) /\ Path(program, stack) /\ Reaches(program, stack, at)
      /\ Top = stack[Len(stack)] /\ at \in Nodes(program)
  BY Here
<1>2. Frame(at, "run") \in Frames(program) /\ Frame(at, "run").node = at
  BY <1>1 DEF Frame, Frames, TypeOK
<1> QED
  BY <1>1, <1>2, PathEnter

\* With a new place in the last call of the stack, what has been said of the
\* branches still holds.
LEMMA KeptMore ==
    ASSUME NEW p, Tree(p), NEW st, Path(p, st), NEW m, NEW l, NEW a,
           Outer(p, a) = {st[j].node : j \in 1 .. Len(st)},
           l \subseteq m \cup {a}, Kept(p, m), Follows(p, m, st)
    PROVE  Kept(p, l) /\ Follows(p, l, st)
<1>1. Len(st) \in Nat \ {0}
  BY PathFacts
<1>2. ASSUME NEW c \in Nodes(p), NEW k \in Been(p, c, l), k \notin Been(p, c, m)
      PROVE  a \in Within(p, k) /\ k \in Children(p, c) /\ k \in Nodes(p)
  <2>1. k \in Children(p, c) /\ Within(p, k) \cap l # {} /\ Within(p, k) \cap m = {}
    BY <1>2 DEF Been
  <2>2. k \in Nodes(p)
    BY <2>1, ChildrenAre, TreeFacts
  <2> QED
    BY <2>1, <2>2
<1>3. ASSUME NEW c \in Nodes(p), NEW k \in Children(p, c), a \in Within(p, k)
      PROVE  \E j \in 1 .. Len(st) - 1 : c = st[j].node /\ k = st[j + 1].node
  <2>1. k \in Nodes(p) /\ k \in Within(p, c)
    BY ChildrenAre, TreeFacts
  <2>2. PICK i \in 1 .. Len(st) : k = st[i].node
    BY <1>3, <2>1 DEF Outer
  <2>3. i # 1
    <3>1. st[1].node = 1 /\ c < k /\ c >= 1 /\ c \in Nat
      BY <2>1, TreeFacts DEF Path
    <3> QED
      BY <2>2, <3>1
  <2>4. i - 1 \in 1 .. Len(st) - 1 /\ (i - 1) + 1 = i /\ i - 1 \in 1 .. Len(st)
    BY <1>1, <2>3
  <2>5. st[(i - 1) + 1].node \in Children(p, st[i - 1].node) /\ st[i - 1].node \in Nodes(p)
    BY <2>4, PathFacts DEF Path
  <2>6. c = st[i - 1].node
    BY <2>2, <2>4, <2>5, OneParent
  <2> QED
    BY <2>2, <2>4, <2>6
<1>4. ASSUME NEW c \in Nodes(p), Regular(p, c), NEW k \in Been(p, c, l), NEW n \in Been(p, c, l)
      PROVE  Compatible(p, c, k, n)
  <2>1. CASE k \in Been(p, c, m) /\ n \in Been(p, c, m)
    BY <1>4, <2>1 DEF Kept
  <2>2. CASE k \in Been(p, c, m) /\ n \notin Been(p, c, m)
    <3>1. \E j \in 1 .. Len(st) - 1 : c = st[j].node /\ n = st[j + 1].node
      BY <1>2, <1>3, <2>2
    <3> QED
      BY <1>4, <2>2, <3>1 DEF Follows
  <2>3. CASE k \notin Been(p, c, m) /\ n \in Been(p, c, m)
    <3>1. \E j \in 1 .. Len(st) - 1 : c = st[j].node /\ k = st[j + 1].node
      BY <1>2, <1>3, <2>3
    <3>2. Compatible(p, c, n, k)
      BY <1>4, <2>3, <3>1 DEF Follows
    <3> QED
      BY <3>2 DEF Compatible
  <2>4. CASE k \notin Been(p, c, m) /\ n \notin Been(p, c, m)
    <3>1. k = n
      BY <1>2, <2>4, OneChild
    <3> QED
      BY <3>1 DEF Compatible
  <2> QED
    BY <2>1, <2>2, <2>3, <2>4
<1>5. ASSUME NEW i \in 1 .. Len(st) - 1, Regular(p, st[i].node), NEW k \in Been(p, st[i].node, l)
      PROVE  Compatible(p, st[i].node, k, st[i + 1].node)
  <2>1. CASE k \in Been(p, st[i].node, m)
    BY <1>5, <2>1 DEF Follows
  <2>2. CASE k \notin Been(p, st[i].node, m)
    <3>1. i \in 1 .. Len(st) /\ i + 1 \in 1 .. Len(st)
      BY <1>1
    <3>2. st[i].node \in Nodes(p) /\ st[i + 1].node \in Children(p, st[i].node)
      BY <3>1, PathFacts DEF Path
    <3>3. a \in Within(p, st[i + 1].node)
      BY <3>1 DEF Outer
    <3>4. k = st[i + 1].node
      BY <1>2, <2>2, <3>2, <3>3, OneChild
    <3> QED
      BY <3>4 DEF Compatible
  <2> QED
    BY <2>1, <2>2
<1> QED
  BY <1>4, <1>5 DEF Kept, Follows

\* What the steps share: which entries of ThreadInfo are there, and that no
\* escape is forgotten.
LEMMA UnwoundStays ==
    ASSUME Next, ~unwound'
    PROVE  ~unwound
BY DEF Next, Choose, EndChoose, PassAlternative, Alternative, EndAlternative,
       Otherwise, EndOtherwise, Loop, LoopSearched, LoopTest, Escape, Unwind, Critical,
       EndCritical, BeginActivity, CompleteActivity, LeaveActivity, Stop, Terminate,
       StopWeel, EndModel, Restart, Done, vars, history

LEMMA Entries ==
    ASSUME TypeOK, StacksMatch, ~unwound
    PROVE  /\ Matches(program, stack, Len(executed), mode)
           /\ executed \in Seq(BOOLEAN) /\ mode \in Seq(Variants)
           /\ Len(executed) \in Nat /\ Len(mode) = Len(executed)
           /\ Len(executed) = Height(program, stack, Len(stack))
<1>1. /\ Matches(program, stack, Len(executed), mode)
      /\ executed \in Seq(BOOLEAN) /\ mode \in Seq(Variants)
  BY StacksMatchIs DEF TypeOK
<1> QED
  BY <1>1 DEF Matches

\* Calls of the stack are left, or none is.
LEMMA PartBranching ==
    ASSUME TypeOK, Shape, Shape', Branching, ~unwound, stack # <<>>, stack' # <<>>,
           program' = program, searching' = searching, Marked' = Marked,
           Len(stack') <= Len(stack), SameCalls(stack, stack', Len(stack')),
           \A j \in 1 .. Len(stack') : stack'[j].searched = stack[j].searched,
           \A h \in 1 .. Height(program, stack, Len(stack')) :
              executed[h] = TRUE => executed'[h] = TRUE,
           ~searching => Decided(program, Marked, Top'.node, Last(executed') = TRUE)
    PROVE  Branching'
<1>1. Tree(program) /\ Path(program, stack) /\ Path(program, stack')
  BY Here DEF Shape
<1>2. Len(stack') \in 1 .. Len(stack) /\ Len(stack) \in Nat /\ Len(stack') \in Nat
  BY <1>1, PathFacts
<1>3. Noted(program, stack', executed')
  <2>1. Noted(program, stack, executed)
    BY DEF Branching
  <2>2. Len(stack') \in {Len(stack'), Len(stack') + 1} /\ Len(stack') # Len(stack') + 1
    BY <1>2
  <2> QED
    BY <1>1, <1>2, <2>1, <2>2, NotedFrom
<1>4. ~searching => Follows(program, Marked, stack')
  <2>1. ~searching => Follows(program, Marked, stack)
    BY DEF Branching
  <2> QED
    BY <1>2, <2>1, FollowsPart
<1>5. Kept(program, Marked)
  BY DEF Branching
<1> QED
  BY <1>3, <1>4, <1>5 DEF Branching

\* The next call is entered.
LEMMA MoreBranching ==
    ASSUME TypeOK, Shape, Shape', Branching, ~unwound, stack # <<>>, stack' # <<>>,
           program' = program, searching' = searching, Marked' = Marked,
           Len(stack') = Len(stack) + 1, SameCalls(stack, stack', Len(stack)),
           \A j \in 1 .. Len(stack) : stack'[j].searched = stack[j].searched,
           \A h \in 1 .. Height(program, stack, Len(stack)) :
              executed[h] = TRUE => executed'[h] = TRUE,
           program[Top'.node].kind = "alternative" /\ ~Top'.searched
              => executed'[Height(program, stack', Len(stack'))] = TRUE,
           ~searching => Decided(program, Marked, Top'.node, Last(executed') = TRUE),
           ~searching /\ Regular(program, Top.node) =>
              \A k \in Been(program, Top.node, Marked) :
                  Compatible(program, Top.node, k, Top'.node)
    PROVE  Branching'
<1>1. /\ Tree(program) /\ Path(program, stack) /\ Path(program, stack')
      /\ Top = stack[Len(stack)]
  BY Here DEF Shape
<1>2. /\ Len(stack) \in 1 .. Len(stack) /\ Len(stack) \in Nat \ {0}
      /\ Top' = stack'[Len(stack')]
  BY <1>1, PathFacts DEF Top
<1>3. Noted(program, stack', executed')
  <2>1. Noted(program, stack, executed)
    BY DEF Branching
  <2> QED
    BY <1>1, <1>2, <2>1, NotedFrom
<1>4. ~searching => Follows(program, Marked, stack')
  <2>1. ~searching => Follows(program, Marked, stack)
    BY DEF Branching
  <2> QED
    BY <1>1, <1>2, <2>1, FollowsMore
<1>5. Kept(program, Marked)
  BY DEF Branching
<1> QED
  BY <1>3, <1>4, <1>5 DEF Branching

\* Branches of a choose that is outside of loops and before the next call have
\* been reached.
LEMMA BeenIsReached ==
    ASSUME NEW p, Tree(p), NEW m, NEW c \in Nodes(p), Regular(p, c), NEW k \in Been(p, c, m)
    PROVE  k \in Reached(p, m) /\ c \in Reached(p, m) /\ k \in Nat /\ c \in Nat
<1>1. k \in Children(p, c) /\ k \in Within(p, c) /\ k \in Nodes(p) /\ Within(p, k) \cap m # {}
      /\ k \in Nat /\ c \in Nat
  BY ChildrenAre, TreeFacts DEF Been
<1>2. Outer(p, k) = {c} \cup Outer(p, c)
  BY <1>1, OuterOfChild
<1>3. \A j \in Outer(p, k) : p[j].kind # "loop"
  BY <1>2 DEF Regular
<1>4. Within(p, k) \subseteq Within(p, c)
  <2>1. /\ c < k /\ p[k].last <= p[c].last /\ p[k].last \in Nat /\ p[c].last \in Nat
    BY <1>1, TreeFacts
  <2> QED
    BY <1>1, <2>1 DEF Within
<1> QED
  BY <1>1, <1>2, <1>3, <1>4 DEF Reached, Regular

\* A call that is no branch of a choose is entered: a loop or a critical section.
LEMMA EnterOther ==
    ASSUME TypeOK, Shape, Shape', Positioned, StacksMatch, Branching, ~unwound,
           NEW k \in {"loop", "critical"}, Comes(k), NEW pass \in {"run", "search"},
           stack' = Append(stack, Frame(at, pass)), at' \in {at + 1, Past(at)},
           program' = program, searching' = searching, Marked' = Marked, executed' = executed
    PROVE  Branching'
<1>1. /\ stack # <<>> /\ at \in Children(program, Top.node) /\ Kind(at) = k
      /\ at \in Nodes(program)
  BY ComesHere
<1>2. Tree(program) /\ Top.node \in Nodes(program)
  BY <1>1, Here
<1>3. /\ Len(stack') = Len(stack) + 1 /\ stack' # <<>>
      /\ \A i \in 1 .. Len(stack) : stack'[i] = stack[i]
      /\ Top'.node = at
  BY EnterStep DEF Frame
<1>4. SameCalls(stack, stack', Len(stack))
  BY <1>3 DEF SameCalls
<1>5. program[at].kind # "choose" /\ program[at].kind # "alternative"
  BY <1>1 DEF Kind
<1>6. ~Regular(program, Top.node)
  <2>1. program[Top.node].kind # "choose"
    BY <1>1, <1>2 DEF Tree, Kind
  <2> QED
    BY <2>1 DEF Regular
<1>7. Decided(program, Marked, Top'.node, Last(executed') = TRUE)
  BY <1>3, <1>5, DecidedOther
<1> QED
  BY <1>1, <1>3, <1>4, <1>5, <1>6, <1>7, MoreBranching

LEMMA ChooseBranching ==
    ASSUME TypeOK, Shape, Shape', Positioned, StacksMatch, Branching, ~unwound, Comes("choose"),
           Run("run"), executed' = Append(executed, FALSE),
           program' = program, searching' = searching, Marked' = Marked
    PROVE  Branching'
<1>1. /\ stack # <<>> /\ at \in Children(program, Top.node) /\ Kind(at) = "choose"
      /\ at \in Nodes(program)
  BY ComesHere
<1>2. Tree(program) /\ Top.node \in Nodes(program) /\ at \in Nat
  BY <1>1, Here
<1>3. /\ Len(stack') = Len(stack) + 1 /\ stack' # <<>>
      /\ \A i \in 1 .. Len(stack) : stack'[i] = stack[i]
      /\ Top'.node = at
  BY EnterStep DEF Frame, Run
<1>4. SameCalls(stack, stack', Len(stack))
  BY <1>3 DEF SameCalls
<1>5. program[at].kind = "choose"
  BY <1>1 DEF Kind
<1>6. ~Regular(program, Top.node)
  <2>1. program[Top.node].kind # "choose"
    BY <1>1, <1>2 DEF Tree, Kind
  <2> QED
    BY <2>1 DEF Regular
<1>7. \A h \in 1 .. Height(program, stack, Len(stack)) : executed'[h] = executed[h]
  BY Entries, AppendFalse
<1>8. ASSUME ~searching
      PROVE  Decided(program, Marked, Top'.node, Last(executed') = TRUE)
  <2>1. ASSUME Regular(program, at), NEW k \in Been(program, at, Marked)
        PROVE  FALSE
    <3>1. at \in Reached(program, Marked)
      BY <1>1, <1>2, <2>1, BeenIsReached
    <3>2. at < at
      BY <1>1, <1>8, <3>1, ReachedBefore
    <3> QED
      BY <1>2, <3>2
  <2> QED
    BY <1>3, <2>1 DEF Decided
<1> QED
  BY <1>1, <1>3, <1>4, <1>5, <1>6, <1>7, <1>8, MoreBranching

\* A branch of a choose is entered. What has been entered of an otherwise that is
\* the last branch is not before it.
LEMMA BranchFacts ==
    ASSUME TypeOK, Shape, Positioned, StacksMatch, Branching, ~unwound, stack # <<>>,
           at <= program[Top.node].last, Kind(at) \in {"alternative", "otherwise"}
    PROVE  /\ program[Top.node].kind = "choose" /\ program[Top.node].variant \in Variants
           /\ executed # <<>> /\ Last(executed) = executed[Len(executed)]
           /\ Last(executed) \in BOOLEAN
           /\ Last(mode) = program[Top.node].variant
           /\ ~searching /\ Regular(program, Top.node) =>
                 \A k \in Been(program, Top.node, Marked) :
                    /\ k \in Children(program, Top.node)
                    /\ k < at
                    /\ program[k].kind = "alternative"
                    /\ Last(executed) = TRUE
<1> DEFINE c == Top.node
<1>1. /\ Tree(program) /\ Path(program, stack) /\ c \in Nodes(program)
      /\ at \in Children(program, c) /\ at \in Nat /\ Top = stack[Len(stack)]
      /\ Len(stack) \in Nat \ {0} /\ Len(stack) \in 1 .. Len(stack)
  BY Here
<1>2. program[c].kind = "choose" /\ program[c].variant \in Variants
  BY <1>1 DEF Tree, Kind
<1>3. /\ executed \in Seq(BOOLEAN) /\ Len(executed) \in Nat /\ Len(mode) = Len(executed)
      /\ Len(executed) = Height(program, stack, Len(stack))
      /\ mode[Height(program, stack, Len(stack))] = program[c].variant
  BY <1>1, <1>2, Entries DEF Matches
<1>4. Len(executed) >= 1
  <2>1. Len(stack) - 1 \in Nat /\ (Len(stack) - 1) + 1 = Len(stack)
    BY <1>1
  <2>2. Height(program, stack, Len(stack)) = Height(program, stack, Len(stack) - 1) + 1
    BY <1>1, <1>2, <2>1, HeightNext
  <2>3. Height(program, stack, Len(stack) - 1) \in Nat
    BY <2>1, HeightIsNat
  <2> QED
    BY <1>3, <2>2, <2>3
<1>5. executed # <<>> /\ Last(executed) = executed[Len(executed)] /\ Last(executed) \in BOOLEAN
  <2>1. executed # <<>> /\ Len(executed) \in 1 .. Len(executed)
    BY <1>3, <1>4
  <2>2. executed[Len(executed)] \in BOOLEAN
    BY <1>3, <2>1, ElementOfSeq
  <2> QED
    BY <2>1, <2>2 DEF Last
<1>6. Last(mode) = program[c].variant
  BY <1>3 DEF Last
<1>7. ASSUME ~searching, Regular(program, c), NEW k \in Been(program, c, Marked)
      PROVE  /\ k \in Children(program, c) /\ k < at
             /\ program[k].kind = "alternative" /\ Last(executed) = TRUE
  <2>1. k \in Children(program, c)
    BY DEF Been
  <2>2. k \in Reached(program, Marked) /\ k \in Nat
    BY <1>1, <1>7, BeenIsReached
  <2>3. k < at
    BY <1>7, <2>2, ReachedBefore
  <2>4. program[k].kind # "otherwise"
    <3>1. program[k].kind = "otherwise" => at <= k
      BY <1>1, <1>7, <2>1 DEF Regular
    <3> QED
      BY <1>1, <2>2, <2>3, <3>1
  <2>5. program[k].kind = "alternative"
    <3>1. program[k].kind \in {"alternative", "otherwise"}
      BY <1>1, <1>2, <2>1 DEF Tree
    <3> QED
      BY <2>4, <3>1
  <2>6. Decided(program, Marked, c, Last(executed) = TRUE)
    BY <1>7 DEF Branching
  <2>7. (Last(executed) = TRUE) \/ program[k].kind = "otherwise"
    BY <1>7, <2>6 DEF Decided
  <2> QED
    BY <2>1, <2>3, <2>4, <2>5, <2>7
<1> QED
  BY <1>2, <1>5, <1>6, <1>7

LEMMA AlternativeBranching ==
    ASSUME TypeOK, Shape, Shape', Positioned, StacksMatch, Branching, ~unwound,
           Comes("alternative"), Run("run"), ~OtherIsExecuted,
           executed' = executed \/ executed' = MarkExecuted(executed),
           ~searching => executed' = MarkExecuted(executed),
           program' = program, searching' = searching, Marked' = Marked
    PROVE  Branching'
<1> DEFINE c == Top.node
<1>1. /\ stack # <<>> /\ at \in Children(program, c) /\ Kind(at) = "alternative"
      /\ at \in Nodes(program) /\ at <= program[Top.node].last
  BY ComesHere
<1>2. Tree(program) /\ Path(program, stack) /\ c \in Nodes(program) /\ at \in Nat
      /\ Len(stack) \in Nat \ {0}
  BY <1>1, Here
<1>3. /\ Len(stack') = Len(stack) + 1 /\ stack' # <<>>
      /\ \A i \in 1 .. Len(stack) : stack'[i] = stack[i]
      /\ Top'.node = at /\ Top'.searched = searching /\ stack'[Len(stack) + 1].node = at
  BY EnterStep DEF Frame, Run
<1>4. SameCalls(stack, stack', Len(stack))
  BY <1>3 DEF SameCalls
<1>5. program[at].kind = "alternative"
  BY <1>1 DEF Kind
<1>6. /\ executed \in Seq(BOOLEAN) /\ executed # <<>> /\ Len(executed) \in Nat
      /\ Len(executed) = Height(program, stack, Len(stack))
  BY <1>1, BranchFacts, Entries
<1>7. /\ Len(MarkExecuted(executed)) = Len(executed)
      /\ \A j \in 1 .. Len(executed) - 1 : MarkExecuted(executed)[j] = executed[j]
      /\ MarkExecuted(executed)[Len(executed)] = TRUE
  BY <1>6, MarkType
<1>8. \A h \in 1 .. Height(program, stack, Len(stack)) : executed[h] = TRUE => executed'[h] = TRUE
  <2>1. \A h \in 1 .. Len(executed) : h \in 1 .. Len(executed) - 1 \/ h = Len(executed)
    BY <1>6
  <2> QED
    BY <1>6, <1>7, <2>1
<1>9. Height(program, stack', Len(stack')) = Len(executed)
  <2>1. Height(program, stack', Len(stack) + 1) = Height(program, stack', Len(stack))
    BY <1>2, <1>3, <1>5, HeightNext
  <2>2. Height(program, stack', Len(stack)) = Height(program, stack, Len(stack))
    BY <1>2, <1>4, HeightOfSame
  <2> QED
    BY <1>3, <1>6, <2>1, <2>2
<1>10. ~Top'.searched => executed'[Height(program, stack', Len(stack'))] = TRUE
  BY <1>3, <1>7, <1>9
<1>11. Decided(program, Marked, Top'.node, Last(executed') = TRUE)
  BY <1>3, <1>5, DecidedOther
<1>12. ASSUME ~searching, Regular(program, c), NEW k \in Been(program, c, Marked)
       PROVE  Compatible(program, c, k, Top'.node)
  <2>1. /\ program[k].kind = "alternative" /\ Last(executed) = TRUE
        /\ Last(mode) = program[c].variant /\ program[c].variant \in Variants
    BY <1>1, <1>12, BranchFacts
  <2>2. program[c].variant = "inclusive"
    BY <2>1 DEF OtherIsExecuted, Variants
  <2> QED
    BY <1>3, <1>5, <2>1, <2>2 DEF Compatible
<1> QED
  BY <1>1, <1>3, <1>4, <1>8, <1>10, <1>11, <1>12, MoreBranching

LEMMA OtherwiseBranching ==
    ASSUME TypeOK, Shape, Shape', Positioned, StacksMatch, Branching, ~unwound,
           Comes("otherwise"), Run("run"), searching \/ ~Last(executed),
           program' = program, searching' = searching, Marked' = Marked, executed' = executed
    PROVE  Branching'
<1> DEFINE c == Top.node
<1>1. /\ stack # <<>> /\ Kind(at) = "otherwise" /\ at <= program[Top.node].last
  BY ComesHere
<1>3. /\ Len(stack') = Len(stack) + 1 /\ stack' # <<>>
      /\ \A i \in 1 .. Len(stack) : stack'[i] = stack[i]
      /\ Top'.node = at
  BY EnterStep DEF Frame, Run
<1>4. SameCalls(stack, stack', Len(stack))
  BY <1>3 DEF SameCalls
<1>5. program[at].kind = "otherwise"
  BY <1>1 DEF Kind
<1>6. Decided(program, Marked, Top'.node, Last(executed') = TRUE)
  BY <1>3, <1>5, DecidedOther
<1>7. ASSUME ~searching, Regular(program, c), NEW k \in Been(program, c, Marked)
      PROVE  Compatible(program, c, k, Top'.node)
  <2>1. Last(executed) = TRUE
    BY <1>1, <1>7, BranchFacts
  <2> QED
    BY <1>7, <2>1
<1> QED
  BY <1>1, <1>3, <1>4, <1>5, <1>6, <1>7, MoreBranching

\* A call is left: its parent is a choose if it is a branch.
LEMMA LeaveFacts ==
    ASSUME TypeOK, Shape, NEW k, AtEnd(k), k # "model", Leave
    PROVE  /\ stack # <<>> /\ stack' # <<>> /\ Len(stack) \in Nat
           /\ Len(stack) >= 2 /\ Len(stack') = Len(stack) - 1
           /\ SameCalls(stack, stack', Len(stack'))
           /\ \A j \in 1 .. Len(stack') : stack'[j].searched = stack[j].searched
           /\ Top = stack[Len(stack)] /\ Top' = stack[Len(stack) - 1]
           /\ Top.node \in Children(program, Top'.node)
           /\ Top'.node \in Nodes(program)
           /\ program[Top.node].kind = k
           /\ (program[Top'.node].kind = "choose") <=> k \in {"alternative", "otherwise"}
<1>1. /\ Len(stack) >= 2 /\ Len(stack') = Len(stack) - 1 /\ stack' # <<>>
      /\ \A i \in 1 .. Len(stack) - 1 : stack'[i] = stack[i]
      /\ Top' = stack[Len(stack) - 1]
      /\ Top.node \in Children(program, stack[Len(stack) - 1].node)
      /\ program[Top.node].kind = k
  BY LeaveStep DEF Leave, Kind
<1>2. /\ stack # <<>> /\ Tree(program) /\ Path(program, stack) /\ Len(stack) \in Nat
      /\ Top = stack[Len(stack)]
  BY Here DEF AtEnd
<1>3. Top'.node \in Nodes(program)
  <2>1. Len(stack) - 1 \in 1 .. Len(stack)
    BY <1>1, <1>2
  <2> QED
    BY <1>1, <1>2, <2>1, PathFacts
<1>4. (program[Top'.node].kind = "choose") <=> k \in {"alternative", "otherwise"}
  BY <1>1, <1>2, <1>3 DEF Tree
<1>5. SameCalls(stack, stack', Len(stack'))
  BY <1>1 DEF SameCalls
<1> QED
  BY <1>1, <1>2, <1>3, <1>4, <1>5

\* Height is that of the entries, less one below a choose.
LEMMA HeightBelow ==
    ASSUME TypeOK, StacksMatch, ~unwound, Len(stack) \in Nat \ {0}
    PROVE  /\ Height(program, stack, Len(stack) - 1) \in Nat
           /\ Len(executed) =
                IF program[stack[Len(stack)].node].kind = "choose"
                THEN Height(program, stack, Len(stack) - 1) + 1
                ELSE Height(program, stack, Len(stack) - 1)
<1>1. Len(stack) - 1 \in Nat /\ (Len(stack) - 1) + 1 = Len(stack)
  OBVIOUS
<1>2. Height(program, stack, (Len(stack) - 1) + 1) =
        IF program[stack[(Len(stack) - 1) + 1].node].kind = "choose"
        THEN Height(program, stack, Len(stack) - 1) + 1
        ELSE Height(program, stack, Len(stack) - 1)
  BY <1>1, HeightNext
<1> QED
  BY <1>1, <1>2, HeightIsNat, Entries

LEMMA LeaveOther ==
    ASSUME TypeOK, Shape, Shape', Branching, ~unwound,
           NEW k \in {"loop", "critical", "activity"}, AtEnd(k), Leave,
           program' = program, searching' = searching, Marked' = Marked, executed' = executed
    PROVE  Branching'
<1>1. /\ stack # <<>> /\ stack' # <<>> /\ Len(stack) \in Nat
      /\ Len(stack') = Len(stack) - 1
      /\ SameCalls(stack, stack', Len(stack'))
      /\ \A j \in 1 .. Len(stack') : stack'[j].searched = stack[j].searched
      /\ program[Top'.node].kind # "choose"
  BY LeaveFacts
<1>2. Decided(program, Marked, Top'.node, Last(executed') = TRUE)
  BY <1>1, DecidedOther
<1>3. Len(stack') <= Len(stack)
  BY <1>1
<1> QED
  BY <1>1, <1>2, <1>3, PartBranching

LEMMA EndChooseBranching ==
    ASSUME TypeOK, Shape, Shape', StacksMatch, Branching, ~unwound,
           AtEnd("choose"), Leave, executed' = Front(executed),
           program' = program, searching' = searching, Marked' = Marked
    PROVE  Branching'
<1>1. /\ stack # <<>> /\ stack' # <<>> /\ Len(stack) \in Nat /\ Len(stack) >= 2
      /\ Len(stack') = Len(stack) - 1
      /\ SameCalls(stack, stack', Len(stack'))
      /\ \A j \in 1 .. Len(stack') : stack'[j].searched = stack[j].searched
      /\ program[Top'.node].kind # "choose"
      /\ program[stack[Len(stack)].node].kind = "choose"
  BY LeaveFacts
<1>2. Decided(program, Marked, Top'.node, Last(executed') = TRUE)
  BY <1>1, DecidedOther
<1>3. Len(executed) = Height(program, stack, Len(stack')) + 1
      /\ Height(program, stack, Len(stack')) \in Nat
  BY <1>1, HeightBelow
<1>4. \A h \in 1 .. Len(executed) - 1 : executed'[h] = executed[h]
  BY Entries, FrontType
<1>5. \A h \in 1 .. Height(program, stack, Len(stack')) : executed'[h] = executed[h]
  BY <1>3, <1>4
<1>6. Len(stack') <= Len(stack)
  BY <1>1
<1> QED
  BY <1>1, <1>2, <1>5, <1>6, PartBranching

LEMMA EndAlternativeBranching ==
    ASSUME TypeOK, Shape, Shape', StacksMatch, Branching, ~unwound,
           AtEnd("alternative"), Leave,
           executed' = IF Top.searched # searching THEN MarkExecuted(executed) ELSE executed,
           program' = program, searching' = searching, Marked' = Marked
    PROVE  Branching'
<1>1. /\ stack # <<>> /\ stack' # <<>> /\ Len(stack) \in Nat /\ Len(stack) >= 2
      /\ Len(stack') = Len(stack) - 1
      /\ SameCalls(stack, stack', Len(stack'))
      /\ \A j \in 1 .. Len(stack') : stack'[j].searched = stack[j].searched
      /\ Top = stack[Len(stack)] /\ program[stack[Len(stack)].node].kind = "alternative"
  BY LeaveFacts
<1>2. Tree(program) /\ Path(program, stack) /\ Len(stack) \in 2 .. Len(stack)
  BY <1>1, Here
<1>3. /\ Len(executed) >= 1 /\ executed \in Seq(BOOLEAN) /\ Len(executed) \in Nat
      /\ executed # <<>>
      /\ Len(executed) = Height(program, stack, Len(stack))
      /\ Len(executed) = Height(program, stack, Len(stack'))
  <2>1. Len(executed) = Height(program, stack, Len(stack)) /\ executed \in Seq(BOOLEAN)
        /\ Len(executed) \in Nat
    BY Entries
  <2>2. /\ Height(program, stack, Len(stack)) >= 1
        /\ Height(program, stack, Len(stack)) = Height(program, stack, Len(stack) - 1)
    BY <1>1, <1>2, HeightOfAlternative
  <2> QED
    BY <1>1, <2>1, <2>2
<1>4. /\ Len(MarkExecuted(executed)) = Len(executed)
      /\ \A j \in 1 .. Len(executed) - 1 : MarkExecuted(executed)[j] = executed[j]
      /\ MarkExecuted(executed)[Len(executed)] = TRUE
  BY <1>3, MarkType
<1>5. \A h \in 1 .. Height(program, stack, Len(stack')) : executed[h] = TRUE => executed'[h] = TRUE
  <2>1. \A h \in 1 .. Len(executed) : h \in 1 .. Len(executed) - 1 \/ h = Len(executed)
    BY <1>3
  <2> QED
    BY <1>3, <1>4, <2>1
<1>6. ASSUME ~searching
      PROVE  Last(executed') = TRUE
  <2>1. CASE Top.searched
    <3>1. executed' = MarkExecuted(executed)
      BY <1>6, <2>1
    <3> QED
      BY <1>4, <3>1 DEF Last
  <2>2. CASE ~Top.searched
    <3>1. executed' = executed
      <4>1. Top.searched \in BOOLEAN /\ searching \in BOOLEAN
        BY <1>1, Here DEF Frames, TypeOK
      <4>2. Top.searched = FALSE /\ searching = FALSE
        BY <1>6, <2>2, <4>1
      <4> QED
        BY <4>2
    <3>2. executed[Height(program, stack, Len(stack))] = TRUE
      BY <1>1, <1>2, <2>2 DEF Branching, Noted
    <3> QED
      BY <1>3, <3>1, <3>2 DEF Last
  <2> QED
    BY <2>1, <2>2
<1>7. ~searching => Decided(program, Marked, Top'.node, Last(executed') = TRUE)
  BY <1>6 DEF Decided
<1>8. Len(stack') <= Len(stack)
  BY <1>1
<1> QED
  BY <1>1, <1>5, <1>7, <1>8, PartBranching

LEMMA EndOtherwiseBranching ==
    ASSUME TypeOK, Shape, Shape', Branching, ~unwound, AtEnd("otherwise"), Leave,
           program' = program, searching' = searching, Marked' = Marked, executed' = executed
    PROVE  Branching'
<1>1. /\ stack # <<>> /\ stack' # <<>> /\ Len(stack) \in Nat /\ Len(stack) >= 2
      /\ Len(stack') = Len(stack) - 1
      /\ SameCalls(stack, stack', Len(stack'))
      /\ \A j \in 1 .. Len(stack') : stack'[j].searched = stack[j].searched
      /\ Top = stack[Len(stack)] /\ Top' = stack[Len(stack) - 1]
      /\ program[Top.node].kind = "otherwise"
  BY LeaveFacts
<1>2. ASSUME ~searching, Regular(program, Top'.node), NEW k \in Been(program, Top'.node, Marked)
      PROVE  program[k].kind = "otherwise"
  <2>1. Len(stack) - 1 \in 1 .. Len(stack) - 1 /\ (Len(stack) - 1) + 1 = Len(stack)
    BY <1>1
  <2>2. Compatible(program, stack[Len(stack) - 1].node, k, stack[(Len(stack) - 1) + 1].node)
    BY <1>1, <1>2, <2>1 DEF Branching, Follows
  <2> QED
    BY <1>1, <2>1, <2>2 DEF Compatible
<1>3. ~searching => Decided(program, Marked, Top'.node, Last(executed') = TRUE)
  BY <1>2 DEF Decided
<1>4. Len(stack') <= Len(stack)
  BY <1>1
<1> QED
  BY <1>1, <1>3, <1>4, PartBranching

LEMMA FlipBranching ==
    ASSUME TypeOK, Shape, Shape', Branching, ~unwound, AtEnd("loop"), at' = at,
           stack' = [stack EXCEPT ![Len(stack)].pass = "run"],
           program' = program, searching' = searching, Marked' = Marked, executed' = executed
    PROVE  Branching'
<1>1. stack # <<>> /\ program[Top.node].kind = "loop" /\ Len(stack) \in Nat
  BY Here DEF AtEnd, Kind
<1>2. /\ Len(stack') = Len(stack) /\ stack' # <<>>
      /\ \A i \in 1 .. Len(stack) : /\ stack'[i].node = stack[i].node
                                    /\ stack'[i].searched = stack[i].searched
      /\ Top'.node = Top.node
  BY <1>1, FlipStep
<1>3. SameCalls(stack, stack', Len(stack'))
  BY <1>2 DEF SameCalls
<1>4. Decided(program, Marked, Top'.node, Last(executed') = TRUE)
  <2>1. program[Top'.node].kind # "choose"
    BY <1>1, <1>2
  <2> QED
    BY <2>1, DecidedOther
<1>5. Len(stack') <= Len(stack)
  BY <1>1, <1>2
<1> QED
  BY <1>1, <1>2, <1>3, <1>4, <1>5, PartBranching

LEMMA UnwindBranching ==
    ASSUME TypeOK, Shape, Shape', Branching, ~unwound, stack # <<>>,
           NEW i \in 1 .. Len(stack), NEW n \in {i - 1, i}, n >= 1, Unwind(i, n),
           (i = 1 /\ n = 1) \/ Kind(stack[i].node) = "loop",
           program' = program, searching' = searching, Marked' = Marked, executed' = executed
    PROVE  Branching'
<1>1. /\ Tree(program) /\ Path(program, stack) /\ Len(stack) \in Nat
  BY Here
<1>2. /\ Len(stack') = n /\ n <= Len(stack) /\ stack' # <<>>
      /\ \A j \in 1 .. n : stack'[j] = stack[j]
      /\ Top' = stack[n]
  BY UnwindStep
<1>3. SameCalls(stack, stack', Len(stack'))
  BY <1>2 DEF SameCalls
<1>4. program[Top'.node].kind # "choose"
  <2>1. CASE i = 1 /\ n = 1
    <3>1. program[1].kind = "model" /\ stack[1].node = 1
      BY <1>1 DEF Tree, Path
    <3> QED
      BY <1>2, <2>1, <3>1
  <2>2. CASE Kind(stack[i].node) = "loop" /\ n = i
    BY <1>2, <2>2 DEF Kind
  <2>3. CASE Kind(stack[i].node) = "loop" /\ n = i - 1
    <3>1. n \in 1 .. Len(stack) - 1 /\ n + 1 = i /\ n \in 1 .. Len(stack)
      BY <1>1, <2>3
    <3>2. stack[i].node \in Children(program, stack[n].node) /\ stack[n].node \in Nodes(program)
      <4>1. stack[n + 1].node \in Children(program, stack[n].node)
        BY <1>1, <3>1 DEF Path
      <4> QED
        BY <1>1, <3>1, <4>1, PathFacts
    <3> QED
      BY <1>1, <1>2, <2>3, <3>2 DEF Tree, Kind
  <2> QED
    BY <2>1, <2>2, <2>3
<1>5. Decided(program, Marked, Top'.node, Last(executed') = TRUE)
  BY <1>4, DecidedOther
<1> QED
  BY <1>2, <1>3, <1>5, PartBranching

\* Nothing happens to the stacks.
LEMMA SameBranching ==
    ASSUME Branching, ~unwound, stack # <<>>, stack' = stack, executed' = executed,
           program' = program, searching' = searching, Marked' = Marked
    PROVE  Branching'
<1>1. Top' = Top
  BY DEF Top
<1> QED
  BY <1>1 DEF Branching

LEMMA QuietBranching ==
    ASSUME TypeOK, Shape, Shape', Positioned, StacksMatch, Branching, Quiet, ~unwound
    PROVE  Branching'
<1>1. /\ program' = program /\ searching' = searching /\ Marked' = Marked /\ stack # <<>>
  BY QuietMoves DEF Marked
<1> DEFINE Runs(k) == Comes(k) /\ Run("run")
           Passed == PassOver /\ executed' = executed
<1>2. CASE Passed
  BY <1>1, <1>2, SameBranching DEF PassOver
<1>3. ASSUME NEW k \in {"loop", "critical"}, Comes(k), NEW pass \in {"run", "search"},
             stack' = Append(stack, Frame(at, pass)), at' \in {at + 1, Past(at)},
             executed' = executed
      PROVE  Branching'
  BY <1>1, <1>3, EnterOther
<1>4. ASSUME NEW k \in {"loop", "critical", "activity"}, AtEnd(k), Leave, executed' = executed
      PROVE  Branching'
  BY <1>1, <1>4, LeaveOther
<1>5. CASE Choose
  <2>1. Passed \/ (Runs("choose") /\ executed' = Append(executed, FALSE))
    BY <1>5 DEF Choose
  <2> QED
    BY <1>1, <1>2, <2>1, ChooseBranching
<1>6. CASE EndChoose
  BY <1>1, <1>6, EndChooseBranching DEF EndChoose
<1>7. CASE PassAlternative
  BY <1>2, <1>7 DEF PassAlternative, info
<1>8. CASE Alternative
  <2>1. PICK condition \in BOOLEAN :
          /\ executed' = IF condition THEN MarkExecuted(executed) ELSE executed
          /\ IF condition \/ searching THEN Run("run") ELSE PassOver
    BY <1>8 DEF Alternative
  <2>2. Comes("alternative") /\ ~OtherIsExecuted
    BY <1>8 DEF Alternative
  <2>3. CASE condition \/ searching
    <3>1. /\ Run("run")
          /\ executed' = executed \/ executed' = MarkExecuted(executed)
          /\ ~searching => executed' = MarkExecuted(executed)
      BY <2>1, <2>3
    <3>2. Run("run")
      BY <2>1, <2>3
    <3> QED
      BY <1>1, <2>2, <3>1, <3>2, AlternativeBranching
  <2>4. CASE ~condition /\ ~searching
    BY <1>2, <2>1, <2>4
  <2> QED
    BY <2>3, <2>4
<1>9. CASE EndAlternative
  BY <1>1, <1>9, EndAlternativeBranching DEF EndAlternative
<1>10. CASE Otherwise
  <2>1. /\ Comes("otherwise") /\ executed' = executed
        /\ PassOver \/ (Run("run") /\ (searching \/ ~Last(executed)))
    BY <1>10 DEF Otherwise, info
  <2> QED
    BY <1>1, <1>2, <2>1, OtherwiseBranching
<1>11. CASE EndOtherwise
  <2>1. AtEnd("otherwise") /\ Leave /\ executed' = executed
    BY <1>11 DEF EndOtherwise, info
  <2> QED
    BY <1>1, <2>1, EndOtherwiseBranching
<1>12. CASE Loop \/ Critical
  <2>1. executed' = executed
    BY <1>12 DEF Loop, Critical, info
  <2>2. \/ PassOver
        \/ \E k \in {"loop", "critical"} : \E pass \in {"run", "search"} :
             /\ Comes(k) /\ stack' = Append(stack, Frame(at, pass)) /\ at' \in {at + 1, Past(at)}
    BY <1>12 DEF Loop, Critical, Run
  <2> QED
    BY <1>2, <1>3, <2>1, <2>2
<1>13. CASE EndCritical \/ LeaveActivity \/ (LoopSearched /\ searching) \/ (LoopTest /\ Leave)
  <2>1. executed' = executed
    BY <1>13 DEF EndCritical, LeaveActivity, LoopSearched, LoopTest, info
  <2>2. \E k \in {"loop", "critical", "activity"} : AtEnd(k) /\ Leave
    BY <1>13 DEF EndCritical, LeaveActivity, LoopSearched, LoopTest
  <2> QED
    BY <1>4, <2>1, <2>2
<1>14. CASE LoopSearched /\ ~searching
  <2>1. /\ AtEnd("loop") /\ at' = at /\ executed' = executed
        /\ stack' = [stack EXCEPT ![Len(stack)].pass = "run"]
    BY <1>14 DEF LoopSearched, info
  <2> QED
    BY <1>1, <2>1, FlipBranching
<1>15. CASE (LoopTest /\ ~Leave) \/ StopWeel \/ Terminate
  <2>1. stack' = stack /\ executed' = executed
    BY <1>15 DEF LoopTest, StopWeel, Terminate, PassOver, info
  <2> QED
    BY <1>1, <2>1, SameBranching
<1>16. CASE Escape
  <2>1. executed' = executed
    BY <1>16 DEF Escape, info
  <2>2. CASE at' = Past(at) /\ stack' = stack
    BY <1>1, <2>1, <2>2, SameBranching
  <2>3. CASE ~(at' = Past(at) /\ stack' = stack)
    <3>1. PICK i \in 1 .. Len(stack) : \E n \in {i - 1, i} :
            /\ n >= 1 /\ Unwind(i, n)
            /\ (i = 1 /\ n = 1) \/ Kind(stack[i].node) = "loop"
      BY <1>16, <2>3, EscapeStep
    <3>2. PICK n \in {i - 1, i} :
            /\ n >= 1 /\ Unwind(i, n)
            /\ (i = 1 /\ n = 1) \/ Kind(stack[i].node) = "loop"
      BY <3>1
    <3>3. n >= 1 /\ Unwind(i, n)
      BY <3>2
    <3>4. (i = 1 /\ n = 1) \/ Kind(stack[i].node) = "loop"
      BY <3>2
    <3> QED
      BY <1>1, <2>1, <3>3, <3>4, UnwindBranching
  <2> QED
    BY <2>2, <2>3
<1> HIDE DEF Runs, Passed
<1> QED
  BY <1>5, <1>6, <1>7, <1>8, <1>9, <1>10, <1>11, <1>12, <1>13, <1>14, <1>15, <1>16 DEF Quiet

\* Where an activity or a stop goes on, the branches around it may be taken:
\* they are running, or the place has been in them before.
LEMMA FollowsHere ==
    ASSUME TypeOK, Shape, Positioned, Branching, ~unwound, stack # <<>>,
           at <= program[Top.node].last,
           ~searching \/ (known # NoPosition /\ known.label = at)
    PROVE  Follows(program, Marked, stack)
<1>1. CASE ~searching
  BY <1>1 DEF Branching
<1>2. CASE known # NoPosition /\ known.label = at
  <2>1. /\ Tree(program) /\ Path(program, stack) /\ Len(stack) \in Nat
    BY Here
  <2>2. at \in Marked
    BY <1>2 DEF Marked
  <2>3. ASSUME NEW i \in 1 .. Len(stack) - 1, Regular(program, stack[i].node),
               NEW k \in Been(program, stack[i].node, Marked)
        PROVE  Compatible(program, stack[i].node, k, stack[i + 1].node)
    <3>1. i \in 1 .. Len(stack) /\ i + 1 \in 1 .. Len(stack)
      BY <2>1
    <3>2. /\ stack[i].node \in Nodes(program)
          /\ stack[i + 1].node \in Children(program, stack[i].node)
      BY <2>1, <3>1, PathFacts DEF Path
    <3>3. stack[i + 1].node \in Outer(program, at)
      BY <3>1, AroundNext
    <3>4. stack[i + 1].node \in Been(program, stack[i].node, Marked)
      BY <2>2, <3>2, <3>3 DEF Outer, Been
    <3> QED
      BY <2>3, <3>2, <3>4 DEF Branching, Kept
  <2> QED
    BY <2>3 DEF Follows
<1> QED
  BY <1>1, <1>2

\* A call without a lambda is in no choose itself.
LEMMA LeafIsNoBranch ==
    ASSUME TypeOK, Shape, stack # <<>>, at <= program[Top.node].last,
           Kind(at) \in {"activity", "stop"}
    PROVE  program[Top.node].kind # "choose"
<1>1. Tree(program) /\ Top.node \in Nodes(program) /\ at \in Children(program, Top.node)
  BY Here
<1> QED
  BY <1>1 DEF Tree, Kind

\* It is passed over.
LEMMA PassedBranching ==
    ASSUME TypeOK, Shape, Positioned, Branching, ~unwound, stack # <<>>,
           at <= program[Top.node].last, Kind(at) \in {"activity", "stop"}, PassOver,
           searching' => searching,
           searching /\ ~searching' => known # NoPosition /\ known.label = at,
           program' = program, Marked' = Marked, executed' = executed
    PROVE  Branching'
<1>1. stack' = stack /\ Top' = Top
  BY DEF PassOver, Top
<1>2. ~searching' => Follows(program, Marked, stack)
  <2>1. ~searching' => ~searching \/ (known # NoPosition /\ known.label = at)
    OBVIOUS
  <2> QED
    BY <2>1, FollowsHere
<1>3. Decided(program, Marked, Top.node, Last(executed) = TRUE)
  BY LeafIsNoBranch, DecidedOther
<1>4. Kept(program, Marked) /\ Noted(program, stack, executed)
  BY DEF Branching
<1> QED
  BY <1>1, <1>2, <1>3, <1>4 DEF Branching

\* Its position is published.
LEMMA PublishedKept ==
    ASSUME TypeOK, Shape, Positioned, Branching, ~unwound, stack # <<>>,
           at <= program[Top.node].last,
           ~searching \/ (known # NoPosition /\ known.label = at),
           known' # NoPosition, known'.label = at, begun' \subseteq begun \cup {at}
    PROVE  Kept(program, Marked') /\ Follows(program, Marked', stack)
<1>1. Marked' \subseteq Marked \cup {at}
  BY DEF Marked
<1>2. Follows(program, Marked, stack) /\ Kept(program, Marked)
  BY FollowsHere DEF Branching
<1>3. Tree(program) /\ Path(program, stack)
  BY Here
<1> QED
  BY <1>1, <1>2, <1>3, AroundNext, KeptMore

LEMMA BeginBranching ==
    ASSUME TypeOK, Shape, Shape', Positioned, Branching, ~unwound, BeginActivity
    PROVE  Branching'
<1>1. /\ stack # <<>> /\ Kind(at) = "activity" /\ at \in Nat
      /\ at <= program[Top.node].last
      /\ program' = program
      /\ searching' => searching
      /\ searching /\ ~searching' => known # NoPosition /\ known.label = at
  BY BeginCases
<1>2. executed' = executed /\ Comes("activity")
  BY DEF BeginActivity
<1>3. CASE PassOver /\ UNCHANGED <<position, known, begun>>
  <2>1. Marked' = Marked
    BY <1>3 DEF Marked
  <2> QED
    BY <1>1, <1>2, <1>3, <2>1, PassedBranching
<1>4. CASE /\ Run("run") /\ ~searching'
           /\ known' = [label |-> at, detail |-> "at"]
           /\ begun' = begun \cup {at}
  <2>1. known' # NoPosition /\ known'.label = at
    BY <1>1, <1>4, ControlFlowAssumption DEF Positions
  <2>2. Kept(program, Marked') /\ Follows(program, Marked', stack)
    <3>1. ~searching \/ (known # NoPosition /\ known.label = at)
      BY <1>1, <1>4
    <3> QED
      BY <1>1, <1>4, <2>1, <3>1, PublishedKept
  <2>3. /\ Len(stack') = Len(stack) + 1 /\ stack' # <<>>
        /\ \A i \in 1 .. Len(stack) : stack'[i] = stack[i]
        /\ Top'.node = at /\ stack'[Len(stack) + 1].node = at
    BY <1>1, <1>2, <1>4, EnterStep DEF Frame, Run
  <2>4. /\ Tree(program) /\ Path(program, stack) /\ Len(stack) \in Nat \ {0}
        /\ Top = stack[Len(stack)] /\ Len(stack) \in 1 .. Len(stack)
    BY <1>1, Here
  <2>5. SameCalls(stack, stack', Len(stack))
    BY <2>3 DEF SameCalls
  <2>6. Follows(program, Marked', stack')
    <3>1. ~Regular(program, stack[Len(stack)].node)
      BY <1>1, <2>4, LeafIsNoBranch DEF Regular
    <3> QED
      BY <2>2, <2>3, <2>4, <2>5, <3>1, FollowsMore
  <2>7. Decided(program, Marked', Top'.node, Last(executed') = TRUE)
    BY <1>1, <2>3, DecidedOther DEF Kind
  <2>8. Noted(program, stack', executed)
    <3>1. Noted(program, stack, executed)
      BY DEF Branching
    <3>2. program[stack'[Len(stack) + 1].node].kind # "alternative"
      BY <1>1, <2>3 DEF Kind
    <3> QED
      BY <2>3, <2>4, <2>5, <3>1, <3>2, NotedFrom
  <2> QED
    BY <1>1, <1>2, <2>2, <2>6, <2>7, <2>8 DEF Branching
<1> QED
  BY <1>3, <1>4, BeginCases

LEMMA StopBranching ==
    ASSUME TypeOK, Shape, Positioned, Branching, ~unwound, Stop
    PROVE  Branching'
<1>1. /\ stack # <<>> /\ Kind(at) = "stop" /\ at \in Nat
      /\ at <= program[Top.node].last
      /\ PassOver /\ program' = program /\ executed' = executed /\ begun' = begun
      /\ searching' => searching
      /\ searching /\ ~searching' => known # NoPosition /\ known.label = at
  BY StopCases DEF history
<1>2. CASE known' = known
  <2>1. Marked' = Marked
    BY <1>1, <1>2 DEF Marked
  <2> QED
    BY <1>1, <2>1, PassedBranching
<1>3. CASE ~searching' /\ known' = [label |-> at, detail |-> "after"]
  <2>1. known' # NoPosition /\ known'.label = at
    BY <1>1, <1>3, ControlFlowAssumption DEF Positions
  <2>2. Kept(program, Marked') /\ Follows(program, Marked', stack)
    <3>1. ~searching \/ (known # NoPosition /\ known.label = at)
      BY <1>1, <1>3
    <3> QED
      BY <1>1, <2>1, <3>1, PublishedKept
  <2>3. stack' = stack /\ Top' = Top
    BY <1>1 DEF PassOver, Top
  <2>4. Decided(program, Marked', Top.node, Last(executed) = TRUE)
    BY <1>1, LeafIsNoBranch, DecidedOther
  <2>5. Noted(program, stack, executed)
    BY DEF Branching
  <2> QED
    BY <1>1, <2>2, <2>3, <2>4, <2>5 DEF Branching
<1> QED
  BY <1>2, <1>3, StopCases

LEMMA CompleteBranching ==
    ASSUME TypeOK, Shape, Shape', Positioned, Branching, ~unwound, CompleteActivity
    PROVE  Branching'
<1>1. /\ AtEnd("activity") /\ Leave /\ UNCHANGED <<program, executed, searching, begun>>
      /\ known' = [label |-> Top.node, detail |-> "after"]
  BY DEF CompleteActivity, WeelProgress, info
<1>2. stack # <<>> /\ Kind(Top.node) = "activity" /\ Top.node \in Nat
  BY <1>1, Here DEF AtEnd
<1>3. known = [label |-> Top.node, detail |-> "at"]
  BY <1>2 DEF Positioned, Working
<1>4. Marked' = Marked
  <2>1. known # NoPosition /\ known' # NoPosition /\ known'.label = known.label
    BY <1>1, <1>2, <1>3, ControlFlowAssumption DEF Positions
  <2> QED
    BY <1>1, <2>1 DEF Marked
<1> QED
  BY <1>1, <1>4, LeaveOther

LEMMA BranchingStep ==
    ASSUME TypeOK, TypeOK', Shape, Positioned, StacksMatch, Branching, Next
    PROVE  Branching'
<1>1. Shape' /\ program' = program
  BY ShapeStep
<1> SUFFICES ASSUME ~unwound
             PROVE  Branching'
  BY UnwoundStays DEF Branching
<1>2. CASE Quiet
  BY <1>1, <1>2, QuietBranching
<1>3. CASE BeginActivity \/ CompleteActivity \/ Stop
  BY <1>1, <1>3, BeginBranching, CompleteBranching, StopBranching
<1>4. CASE EndModel
  <2>1. stack' = <<>> /\ begun' = begun /\ (known' = known \/ known' = NoPosition)
    BY <1>4 DEF EndModel, history
  <2>2. Marked' \subseteq Marked
    BY <2>1 DEF Marked
  <2>3. Kept(program, Marked')
    BY <2>2, KeptLess DEF Branching
  <2>4. Noted(program, stack', executed')
    BY <2>1 DEF Noted
  <2> QED
    BY <1>1, <2>1, <2>3, <2>4 DEF Branching
<1>5. CASE Restart
  <2>1. /\ stack' = <<[node |-> 1, searched |-> known # NoPosition, pass |-> "run"]>>
        /\ begun' = begun /\ known' = known
    BY <1>5 DEF Restart
  <2>2. Len(stack') = 1 /\ stack'[1].node = 1 /\ Top'.node = 1 /\ program[1].kind = "model"
    <3>1. program[1].kind = "model"
      BY ProgramIsTree DEF TypeOK, Tree
    <3> QED
      BY <2>1, <3>1 DEF Top, Last
  <2>3. Marked' = Marked /\ Kept(program, Marked)
    BY <2>1 DEF Marked, Branching
  <2>4. Follows(program, Marked', stack') /\ Noted(program, stack', executed')
    BY <2>2 DEF Follows, Noted
  <2>5. Decided(program, Marked', Top'.node, Last(executed') = TRUE)
    BY <2>2, DecidedOther
  <2> QED
    BY <1>1, <2>3, <2>4, <2>5 DEF Branching
<1>6. CASE Done
  <2>1. UNCHANGED vars
    BY <1>6 DEF Done
  <2>2. UNCHANGED <<program, stack, executed, searching, known, begun, unwound>>
    BY <2>1 DEF vars, info, places, history
  <2>3. Marked' = Marked /\ Top' = Top
    BY <2>2 DEF Marked, Top
  <2> QED
    BY <2>2, <2>3 DEF Branching
<1> QED
  BY <1>2, <1>3, <1>4, <1>5, <1>6 DEF Next, Quiet
-----------------------------------------------------------------------------
\* What Complete asks of the call n, for the activities d that are done and the
\* branches e that have been entered
Fulfils(p, d, e, n) ==
    /\ p[n].kind = "activity" => n \in d
    /\ p[n].kind = "choose" /\ (\E k \in Children(p, n) : p[k].kind = "otherwise")
          => Children(p, n) \cap e # {}

Needed(p, n) == \A k \in Outer(p, n) : p[k].kind \in {"model", "critical"}

IsOn(st, n) == \E j \in 1 .. Len(st) : st[j].node = n

\* What ends before a and does not run has been completed.
Behind(p, d, e, st, a) ==
    \A n \in Nodes(p) : Needed(p, n) /\ p[n].last < a /\ ~IsOn(st, n) => Fulfils(p, d, e, n)

\* A choose that is marked, or is past its otherwise, has entered a branch.
Served(p, e, c, marked, a) ==
    p[c].kind = "choose" /\ (marked \/ \E k \in Children(p, c) : p[k].kind = "otherwise" /\ k < a)
        => Children(p, c) \cap e # {}

LEMMA CompleteIs ==
    Complete <=> \A n \in Nodes(program) : Needed(program, n) => Fulfils(program, done, entered, n)
BY DEF Complete, Mandatory, Around, Needed, Outer, Fulfils, Kind

LEMMA FulfilsMore ==
    ASSUME NEW p, NEW d, NEW e, NEW n, Fulfils(p, d, e, n),
           NEW d2, NEW e2, d \subseteq d2, e \subseteq e2
    PROVE  Fulfils(p, d2, e2, n)
BY DEF Fulfils

LEMMA BehindMore ==
    ASSUME NEW p, NEW d, NEW e, NEW st, NEW a, Behind(p, d, e, st, a),
           NEW d2, NEW e2, d \subseteq d2, e \subseteq e2
    PROVE  Behind(p, d2, e2, st, a)
BY FulfilsMore DEF Behind

LEMMA ServedMore ==
    ASSUME NEW p, NEW e, NEW c, NEW x, NEW a, Served(p, e, c, x, a), NEW e2, e \subseteq e2
    PROVE  Served(p, e2, c, x, a)
BY DEF Served

\* The same calls run, or more.
LEMMA BehindOn ==
    ASSUME NEW p, NEW d, NEW e, NEW st, NEW su, NEW a, Behind(p, d, e, st, a),
           \A n : IsOn(st, n) => IsOn(su, n)
    PROVE  Behind(p, d, e, su, a)
BY DEF Behind

\* Nothing that runs ends before the call that comes next.
LEMMA BehindOpen ==
    ASSUME NEW p, Tree(p), NEW st, Path(p, st), NEW a \in Nat, a <= p[st[Len(st)].node].last,
           NEW d, NEW e, Behind(p, d, e, st, a)
    PROVE  Behind(p, d, e, <<>>, a)
<1>1. ASSUME NEW n \in Nodes(p), IsOn(st, n)
      PROVE  ~(p[n].last < a)
  <2>1. PICK j \in 1 .. Len(st) : st[j].node = n
    BY <1>1 DEF IsOn
  <2>2. Len(st) \in Nat \ {0} /\ Len(st) \in 1 .. Len(st) /\ p[st[Len(st)].node].last \in Nat
    BY PathFacts
  <2>3. p[st[Len(st)].node].last <= p[n].last /\ p[n].last \in Nat
    <3>1. CASE j = Len(st)
      BY <2>1, <2>2, <3>1
    <3>2. CASE j \in 1 .. Len(st) - 1
      BY <2>1, <2>2, <3>2, PathFacts
    <3>3. j = Len(st) \/ j \in 1 .. Len(st) - 1
      BY <2>2
    <3> QED
      BY <3>1, <3>2, <3>3
  <2> QED
    BY <2>2, <2>3
<1> QED
  BY <1>1 DEF Behind

\* What lies between the call a and the place b is not needed, or runs.
LEMMA BehindFrom ==
    ASSUME NEW p, Tree(p), NEW st, Path(p, st), NEW a, Reaches(p, st, a),
           NEW d, NEW e, Behind(p, d, e, st, a), NEW b \in Nat,
           \A n \in Nodes(p) : n >= a /\ p[n].last < b /\ Needed(p, n) =>
               Fulfils(p, d, e, n) \/ IsOn(st, n)
    PROVE  Behind(p, d, e, st, b)
<1>1. ASSUME NEW n \in Nodes(p), Needed(p, n), p[n].last < b, ~IsOn(st, n)
      PROVE  Fulfils(p, d, e, n)
  <2>1. n \in Nat /\ p[n].last \in Nat /\ a \in Nat
    BY TreeFacts, ReachesNat
  <2>2. CASE p[n].last < a
    BY <1>1, <2>2 DEF Behind
  <2>3. CASE n < a /\ a <= p[n].last
    BY <1>1, <2>3, OpenIsOnPath DEF IsOn
  <2>4. CASE n >= a
    BY <1>1, <2>4
  <2> QED
    BY <2>1, <2>2, <2>3, <2>4
<1> QED
  BY <1>1 DEF Behind

\* The call a is entered, or a loop at its test.
LEMMA BehindEnter ==
    ASSUME NEW p, Tree(p), NEW st, Path(p, st), NEW a, Reaches(p, st, a), a \in Nodes(p),
           NEW d, NEW e, Behind(p, d, e, st, a),
           NEW b, b = a + 1 \/ (p[a].kind = "loop" /\ b = p[a].last + 1),
           NEW su, IsOn(su, a), \A n : IsOn(st, n) => IsOn(su, n)
    PROVE  Behind(p, d, e, su, b)
<1>1. a \in Nat /\ p[a].last \in Nat /\ b \in Nat
  BY TreeFacts
<1>2. ASSUME NEW n \in Nodes(p), Needed(p, n), p[n].last < b, ~IsOn(su, n)
      PROVE  Fulfils(p, d, e, n)
  <2>1. n \in Nat /\ p[n].last \in Nat /\ n <= p[n].last
    BY TreeFacts
  <2>2. CASE p[n].last < a
    BY <1>2, <2>2 DEF Behind
  <2>3. CASE n < a /\ a <= p[n].last
    <3>1. IsOn(st, n)
      BY <2>3, OpenIsOnPath DEF IsOn
    <3> QED
      BY <1>2, <3>1
  <2>4. CASE n = a
    BY <1>2, <2>4
  <2>5. CASE n > a
    <3>1. p[a].kind = "loop" /\ b = p[a].last + 1
      BY <1>1, <1>2, <2>1, <2>5
    <3>2. a \in Outer(p, n)
      BY <1>1, <1>2, <2>1, <2>5, <3>1 DEF Outer, Within
    <3> QED
      BY <1>2, <3>1, <3>2 DEF Needed
  <2> QED
    BY <1>1, <2>1, <2>2, <2>3, <2>4, <2>5
<1> QED
  BY <1>2 DEF Behind

\* A branch of a choose is passed over.
LEMMA BehindBranch ==
    ASSUME NEW p, Tree(p), NEW st, Path(p, st), NEW a, Reaches(p, st, a),
           a <= p[st[Len(st)].node].last, p[st[Len(st)].node].kind = "choose",
           NEW d, NEW e, Behind(p, d, e, st, a)
    PROVE  Behind(p, d, e, st, p[a].last + 1)
<1> DEFINE c == st[Len(st)].node
<1>1. /\ c \in Nodes(p) /\ c \in Nat /\ p[c].last \in Nat /\ a \in Nat /\ c < a
      /\ a \in Within(p, c) /\ a \in Nodes(p) /\ p[a].last \in Nat /\ p[a].last <= p[c].last
  <2>1. c \in Nodes(p) /\ c \in Nat /\ p[c].last \in Nat /\ a \in c + 1 .. p[c].last + 1
    BY PathFacts DEF Reaches
  <2>2. a \in Within(p, c)
    BY <2>1 DEF Within
  <2> QED
    BY <2>1, <2>2, TreeFacts
<1>2. ASSUME NEW n \in Nodes(p), n >= a, p[n].last < p[a].last + 1
      PROVE  ~Needed(p, n)
  <2>1. n \in Nat /\ p[n].last \in Nat /\ n <= p[n].last
    BY TreeFacts
  <2>2. c \in Outer(p, n)
    BY <1>1, <1>2, <2>1 DEF Outer, Within
  <2> QED
    BY <2>2 DEF Needed
<1> QED
  BY <1>1, <1>2, BehindFrom

\* A call without a lambda is passed.
LEMMA BehindLeaf ==
    ASSUME NEW p, Tree(p), NEW st, Path(p, st), NEW a, Reaches(p, st, a), a \in Nodes(p),
           p[a].last = a, NEW d, NEW e, Behind(p, d, e, st, a), Fulfils(p, d, e, a)
    PROVE  Behind(p, d, e, st, a + 1)
<1>1. a \in Nat
  BY TreeFacts
<1>2. ASSUME NEW n \in Nodes(p), n >= a, p[n].last < a + 1
      PROVE  n = a
  BY <1>1, <1>2, TreeFacts
<1> QED
  BY <1>1, <1>2, BehindFrom

\* The call c is left.
LEMMA BehindLeave ==
    ASSUME NEW p, NEW d, NEW e, NEW st, NEW su, NEW a, NEW c, Behind(p, d, e, st, a),
           \A n : IsOn(st, n) => IsOn(su, n) \/ n = c,
           Fulfils(p, d, e, c)
    PROVE  Behind(p, d, e, su, a)
BY DEF Behind

\* An escape leaves a loop.
LEMMA BehindUnwind ==
    ASSUME NEW p, Tree(p), NEW st, Path(p, st), NEW a, Reaches(p, st, a),
           NEW i \in 1 .. Len(st), p[st[i].node].kind = "loop",
           NEW d, NEW e, Behind(p, d, e, st, a),
           NEW su, \A j \in 1 .. i - 1 : IsOn(su, st[j].node)
    PROVE  Behind(p, d, e, su, p[st[i].node].last + 1)
<1> DEFINE l == st[i].node
<1>1. /\ l \in Nodes(p) /\ l \in Nat /\ p[l].last \in Nat /\ a \in Nat /\ l < a
      /\ Len(st) \in Nat
  BY PathFacts, ReachesNat, OnPathIsOpen
<1>2. Fulfils(p, d, e, l)
  BY DEF Fulfils
<1>3. ASSUME NEW n \in Nodes(p), Needed(p, n), p[n].last < p[l].last + 1, ~IsOn(su, n)
      PROVE  Fulfils(p, d, e, n)
  <2>1. n \in Nat /\ p[n].last \in Nat /\ n <= p[n].last
    BY TreeFacts
  <2>2. l \notin Outer(p, n)
    BY <1>3 DEF Needed
  <2>3. ~(l < n)
    BY <1>1, <1>3, <2>1, <2>2 DEF Outer, Within
  <2>4. CASE IsOn(st, n)
    <3>1. PICK j \in 1 .. Len(st) : st[j].node = n
      BY <2>4 DEF IsOn
    <3>2. CASE j < i
      BY <1>1, <1>3, <3>1, <3>2
    <3>3. CASE j = i
      BY <1>2, <3>1, <3>3
    <3>4. CASE j > i
      <4>1. i \in 1 .. j - 1
        BY <1>1, <3>4
      <4>2. l < n
        BY <3>1, <4>1, PathFacts
      <4> QED
        BY <2>3, <4>2
    <3> QED
      BY <1>1, <3>2, <3>3, <3>4
  <2>5. CASE ~IsOn(st, n) /\ p[n].last < a
    BY <1>3, <2>5 DEF Behind
  <2>6. CASE ~IsOn(st, n) /\ p[n].last >= a
    <3>1. n < a
      BY <1>1, <2>1, <2>3
    <3> QED
      BY <2>6, <3>1, <1>1, <2>1, OpenIsOnPath DEF IsOn
  <2> QED
    BY <1>1, <2>1, <2>4, <2>5, <2>6
<1> QED
  BY <1>3 DEF Behind

\* A loop begins anew.
LEMMA BehindBack ==
    ASSUME NEW p, Tree(p), NEW d, NEW e, NEW st, NEW a \in Nat, Behind(p, d, e, st, a),
           NEW b \in Nat, b <= a
    PROVE  Behind(p, d, e, st, b)
<1>1. \A n \in Nodes(p) : p[n].last < b => p[n].last < a
  BY TreeFacts
<1> QED
  BY <1>1 DEF Behind
-----------------------------------------------------------------------------
\* Finishing is what terminate does.
Ended == state = "Finishing" => terminated

\* The branches that were not entered by the search have been entered.
BranchesEntered ==
    \A i \in 1 .. Len(stack) :
        Kind(stack[i].node) \in {"alternative", "otherwise"} /\ ~stack[i].searched
            => stack[i].node \in entered

\* The activity whose position is marked as passed is done.
AfterIsDone ==
    known # NoPosition /\ known.detail = "after" /\ Kind(known.label) = "activity"
        => known.label \in done

\* What ends before the position has been completed.
PositionPassed ==
    ~hidden /\ known # NoPosition => Behind(program, done, entered, <<>>, known.label)

\* The search does not miss its position, and afterwards nothing is missed.
Onward ==
    ~hidden /\ stack # <<>> /\ state = "Running" =>
        /\ searching => at <= wanted.label
        /\ ~searching => /\ Behind(program, done, entered, stack, at)
                         /\ Served(program, entered, Top.node, Last(executed) = TRUE, at)

Completing ==
    Ended /\ BranchesEntered /\ AfterIsDone /\ PositionPassed /\ Onward /\ FinishedIsComplete

\* What has happened stays.
LEMMA HistoryGrows ==
    ASSUME TypeOK, Next
    PROVE  /\ done \subseteq done' /\ entered \subseteq entered' /\ (hidden => hidden')
           /\ wanted' = wanted \/ Restart
<1>1. UNCHANGED <<done, entered, hidden, wanted>> =>
        /\ done \subseteq done' /\ entered \subseteq entered' /\ (hidden => hidden')
        /\ wanted' = wanted
  OBVIOUS
<1>2. CASE \/ Choose \/ EndChoose \/ Loop \/ LoopSearched \/ LoopTest \/ Critical
           \/ EndCritical \/ LeaveActivity \/ StopWeel \/ EndModel \/ Done
  <2>1. UNCHANGED <<done, entered, hidden, wanted>>
    BY <1>2 DEF Choose, EndChoose, Loop, LoopSearched, LoopTest, Critical, EndCritical,
                LeaveActivity, StopWeel, EndModel, Done, vars, places, history
  <2> QED
    BY <1>1, <2>1
<1>3. CASE Escape \/ BeginActivity \/ Stop \/ Terminate
  <2>1. UNCHANGED <<done, entered, hidden, wanted>>
    BY <1>3 DEF Escape, BeginActivity, Stop, Terminate, places, history
  <2> QED
    BY <1>1, <2>1
<1>4. CASE PassAlternative
  <2>1. hidden \in BOOLEAN /\ hidden' = (hidden \/ (~ShouldSkip /\ searching))
    BY <1>4 DEF PassAlternative, TypeOK
  <2>2. hidden => hidden'
    BY <2>1
  <2> QED
    BY <1>4, <2>2 DEF PassAlternative, places
<1>5. CASE Alternative \/ EndAlternative \/ Otherwise \/ EndOtherwise
  BY <1>5 DEF Alternative, EndAlternative, Otherwise, EndOtherwise, Set, places
<1>6. CASE CompleteActivity \/ Restart
  BY <1>6 DEF CompleteActivity, Restart
<1> QED
  BY <1>2, <1>3, <1>4, <1>5, <1>6 DEF Next

LEMMA EndedStep ==
    ASSUME Ended, Next
    PROVE  Ended'
<1>1. CASE \/ Choose \/ EndChoose \/ PassAlternative \/ Alternative \/ EndAlternative
           \/ Otherwise \/ EndOtherwise
  BY <1>1 DEF Ended, Choose, EndChoose, PassAlternative, Alternative, EndAlternative,
              Otherwise, EndOtherwise, Evaluate, history
<1>2. CASE \/ Loop \/ LoopSearched \/ LoopTest \/ Escape \/ Critical \/ EndCritical
  BY <1>2 DEF Ended, Loop, LoopSearched, LoopTest, Escape, Critical, EndCritical, Evaluate,
              history
<1>3. CASE BeginActivity \/ CompleteActivity \/ LeaveActivity \/ Stop \/ Terminate
  BY <1>3 DEF Ended, BeginActivity, CompleteActivity, LeaveActivity, Stop, Terminate, history
<1>4. CASE StopWeel \/ EndModel \/ Restart \/ Done
  BY <1>4 DEF Ended, StopWeel, EndModel, Restart, Done, vars, history
<1> QED
  BY <1>1, <1>2, <1>3, <1>4 DEF Next

\* An instance runs on, or starts anew.
LEMMA RunningStays ==
    ASSUME Next, state' = "Running"
    PROVE  state = "Running" \/ Restart
<1>1. CASE \/ Choose \/ EndChoose \/ PassAlternative \/ Alternative \/ EndAlternative
           \/ Otherwise \/ EndOtherwise
  BY <1>1 DEF Choose, EndChoose, PassAlternative, Alternative, EndAlternative,
              Otherwise, EndOtherwise, Evaluate
<1>2. CASE \/ Loop \/ LoopSearched \/ LoopTest \/ Escape \/ Critical \/ EndCritical
  BY <1>2 DEF Loop, LoopSearched, LoopTest, Escape, Critical, EndCritical, Evaluate
<1>3. CASE BeginActivity \/ CompleteActivity \/ LeaveActivity \/ Stop \/ Terminate
  BY <1>3 DEF BeginActivity, CompleteActivity, LeaveActivity, Stop, Terminate
<1>4. CASE StopWeel \/ EndModel \/ Restart \/ Done
  BY <1>4 DEF StopWeel, EndModel, Restart, Done, vars
<1> QED
  BY <1>1, <1>2, <1>3, <1>4 DEF Next

\* Only the end of the model finishes an instance.
LEMMA FinishedStays ==
    ASSUME TypeOK, Shape, Next, state' = "Finished"
    PROVE  EndModel \/ Done
<1>1. stack' = <<>>
  BY ShapeStep DEF Shape
<1> QED
  BY <1>1, NeverEmpty

LEMMA AfterIsDoneStep ==
    ASSUME TypeOK, Shape, Positioned, AfterIsDone, Next
    PROVE  AfterIsDone'
<1>1. program' = program /\ done \subseteq done'
  BY ShapeStep, HistoryGrows
<1>2. CASE known' = known
  BY <1>1, <1>2 DEF AfterIsDone, Kind
<1>3. CASE Quiet
  BY <1>2, <1>3, QuietMoves
<1>4. CASE BeginActivity
  <2>1. known' = known \/ known' = [label |-> at, detail |-> "at"]
    BY <1>4, BeginCases
  <2> QED
    BY <1>2, <2>1 DEF AfterIsDone
<1>5. CASE CompleteActivity
  <2>1. known' = [label |-> Top.node, detail |-> "after"] /\ Top.node \in done'
    BY <1>5 DEF CompleteActivity, WeelProgress
  <2> QED
    BY <2>1 DEF AfterIsDone
<1>6. CASE Stop
  <2>1. \/ known' = known
        \/ known' = [label |-> at, detail |-> "after"] /\ program[at].kind = "stop"
    BY <1>6, StopCases DEF Kind
  <2> QED
    BY <1>1, <1>2, <2>1 DEF AfterIsDone, Kind
<1>7. CASE EndModel
  <2>1. known' = known \/ known' = NoPosition
    BY <1>7 DEF EndModel
  <2> QED
    BY <1>2, <2>1 DEF AfterIsDone
<1>8. CASE Restart \/ Done
  BY <1>2, <1>8 DEF Restart, Done, vars, places
<1> QED
  BY <1>3, <1>4, <1>5, <1>6, <1>7, <1>8 DEF Next, Quiet

LEMMA PositionPassedStep ==
    ASSUME TypeOK, Shape, Positioned, PositionPassed, Onward, Next
    PROVE  PositionPassed'
<1>1. program' = program /\ done \subseteq done' /\ entered \subseteq entered' /\ (hidden => hidden')
  BY ShapeStep, HistoryGrows
<1>2. ASSUME known # NoPosition, known'.label = known.label
      PROVE  PositionPassed'
  BY <1>1, <1>2, BehindMore DEF PositionPassed
<1>3. CASE known' = known
  BY <1>2, <1>3 DEF PositionPassed
<1>4. CASE Quiet
  BY <1>3, <1>4, QuietMoves
<1>5. ASSUME NEW detail, known' = [label |-> at, detail |-> detail], stack # <<>>,
             at <= program[Top.node].last, state = "Running",
             searching => known # NoPosition /\ known.label = at
      PROVE  PositionPassed'
  <2>1. known'.label = at
    BY <1>5
  <2>2. CASE searching
    BY <1>2, <1>5, <2>1, <2>2
  <2>3. CASE ~searching
    <3>1. ASSUME ~hidden
          PROVE  Behind(program, done, entered, <<>>, at)
      <4>1. Behind(program, done, entered, stack, at)
        BY <1>5, <2>3, <3>1 DEF Onward
      <4>2. Tree(program) /\ Path(program, stack) /\ at \in Nat /\ Top = stack[Len(stack)]
        BY <1>5, Here
      <4> QED
        BY <1>5, <4>1, <4>2, BehindOpen
    <3> QED
      BY <1>1, <2>1, <3>1, BehindMore DEF PositionPassed
  <2> QED
    BY <2>2, <2>3
<1>6. CASE BeginActivity
  <2>1. \/ known' = known
        \/ /\ stack # <<>> /\ at <= program[Top.node].last /\ ~ShouldSkip
           /\ known' = [label |-> at, detail |-> "at"]
           /\ searching => known # NoPosition /\ known.label = at
    BY <1>6, BeginCases
  <2>2. stack # <<>> /\ ~ShouldSkip => state = "Running"
    BY DEF Shape, ShouldSkip
  <2> QED
    BY <1>3, <1>5, <2>1, <2>2
<1>7. CASE CompleteActivity
  <2>1. /\ stack # <<>> /\ Kind(Top.node) = "activity"
        /\ known' = [label |-> Top.node, detail |-> "after"]
    BY <1>7 DEF CompleteActivity, WeelProgress, AtEnd
  <2>2. known = [label |-> Top.node, detail |-> "at"] /\ Top.node \in Nat
    BY <2>1, Here DEF Positioned, Working
  <2>3. known # NoPosition /\ known'.label = known.label
    BY <2>1, <2>2, ControlFlowAssumption DEF Positions
  <2> QED
    BY <1>2, <2>3
<1>8. CASE Stop
  <2>1. stack # <<>> /\ at <= program[Top.node].last
        /\ (searching /\ ~searching' => known # NoPosition /\ known.label = at)
    BY <1>8, StopCases
  <2>2. known' = known \/ (~searching' /\ ~ShouldSkip /\ known' = [label |-> at, detail |-> "after"])
    <3>1. InSearchMode(at) \/ ~searching'
      BY <1>8 DEF Stop, InSearchMode
    <3> QED
      BY <1>8, <3>1 DEF Stop, WeelProgress
  <2>3. stack # <<>> /\ ~ShouldSkip => state = "Running"
    BY DEF Shape, ShouldSkip
  <2> QED
    BY <1>3, <1>5, <2>1, <2>2, <2>3
<1>9. CASE EndModel
  <2>1. known' = known \/ known' = NoPosition
    BY <1>9 DEF EndModel
  <2> QED
    BY <1>3, <2>1 DEF PositionPassed
<1>10. CASE Restart \/ Done
  BY <1>3, <1>10 DEF Restart, Done, vars, places
<1> QED
  BY <1>4, <1>6, <1>7, <1>8, <1>9, <1>10 DEF Next, Quiet

LEMMA BranchesEnteredStep ==
    ASSUME TypeOK, Shape, BranchesEntered, Next
    PROVE  BranchesEntered'
<1>1. program' = program /\ entered \subseteq entered'
  BY ShapeStep, HistoryGrows
<1>2. ASSUME \A i \in 1 .. Len(stack') : /\ i \in 1 .. Len(stack)
                                         /\ stack'[i].node = stack[i].node
                                         /\ stack'[i].searched = stack[i].searched
      PROVE  BranchesEntered'
  BY <1>1, <1>2 DEF BranchesEntered, Kind
<1>3. CASE stack' = stack
  BY <1>2, <1>3
<1>4. ASSUME NEW k, Comes(k), k # "model", NEW pass \in {"run", "search"},
             stack' = Append(stack, Frame(at, pass)), at' \in {at + 1, Past(at)},
             k \in {"alternative", "otherwise"} /\ ~searching => at \in entered'
      PROVE  BranchesEntered'
  <2>1. /\ Len(stack') = Len(stack) + 1
        /\ \A i \in 1 .. Len(stack) : stack'[i] = stack[i]
        /\ stack'[Len(stack) + 1].node = at /\ stack'[Len(stack) + 1].searched = searching
    BY <1>1, <1>4, EnterStep DEF Frame
  <2>2. Kind(at) = k /\ Len(stack) \in Nat
    BY <1>4 DEF Comes, TypeOK
  <2>3. \A i \in 1 .. Len(stack') : i \in 1 .. Len(stack) \/ i = Len(stack) + 1
    BY <2>1, <2>2
  <2> QED
    BY <1>1, <1>4, <2>1, <2>2, <2>3 DEF BranchesEntered, Kind
<1>5. ASSUME NEW k, AtEnd(k), k # "model", Leave
      PROVE  BranchesEntered'
  <2>1. /\ Len(stack') = Len(stack) - 1 /\ Len(stack) \in Nat
        /\ \A i \in 1 .. Len(stack) - 1 : stack'[i] = stack[i]
    BY <1>5, LeaveStep DEF Leave, TypeOK
  <2>2. 1 .. Len(stack') \subseteq 1 .. Len(stack) /\ 1 .. Len(stack') = 1 .. Len(stack) - 1
    BY <2>1
  <2> QED
    BY <1>2, <2>1, <2>2
<1>6. CASE Choose \/ Loop \/ Critical \/ BeginActivity
  <2>1. \/ stack' = stack
        \/ \E k \in {"choose", "loop", "critical", "activity"} : \E pass \in {"run", "search"} :
             /\ Comes(k) /\ stack' = Append(stack, Frame(at, pass)) /\ at' \in {at + 1, Past(at)}
    BY <1>6 DEF Choose, Loop, Critical, BeginActivity, PassOver, Run
  <2> QED
    BY <1>3, <1>4, <2>1
<1>7. CASE Alternative
  <2>1. \/ stack' = stack
        \/ /\ Comes("alternative") /\ Run("run") /\ (~searching => at \in entered')
    BY <1>7 DEF Alternative, PassOver, Set
  <2> QED
    BY <1>3, <1>4, <2>1 DEF Run
<1>8. CASE Otherwise
  <2>1. \/ stack' = stack
        \/ /\ Comes("otherwise") /\ Run("run") /\ (~searching => at \in entered')
    BY <1>8 DEF Otherwise, PassOver, Set
  <2> QED
    BY <1>3, <1>4, <2>1 DEF Run
<1>9. CASE \/ EndChoose \/ EndAlternative \/ EndOtherwise \/ EndCritical
           \/ CompleteActivity \/ LeaveActivity
           \/ (LoopSearched /\ searching) \/ (LoopTest /\ Leave)
  <2>1. \E k \in {"choose", "alternative", "otherwise", "critical", "activity", "loop"} :
            AtEnd(k) /\ Leave
    BY <1>9 DEF EndChoose, EndAlternative, EndOtherwise, EndCritical, CompleteActivity,
                LeaveActivity, LoopSearched, LoopTest
  <2> QED
    BY <1>5, <2>1
<1>10. CASE LoopSearched /\ ~searching
  <2>1. /\ stack # <<>> /\ at' = at /\ stack' = [stack EXCEPT ![Len(stack)].pass = "run"]
    BY <1>10 DEF LoopSearched, AtEnd
  <2> QED
    BY <1>2, <2>1, FlipStep
<1>11. CASE (LoopTest /\ ~Leave) \/ PassAlternative \/ Stop \/ Terminate \/ StopWeel \/ Done
  BY <1>3, <1>11 DEF LoopTest, PassAlternative, Stop, Terminate, StopWeel, Done, vars, PassOver
<1>12. CASE Escape
  <2>1. CASE at' = Past(at) /\ stack' = stack
    BY <1>3, <2>1
  <2>2. CASE ~(at' = Past(at) /\ stack' = stack)
    <3>1. PICK i \in 1 .. Len(stack) : \E n \in {i - 1, i} :
            stack # <<>> /\ n >= 1 /\ Unwind(i, n)
      BY <1>12, <2>2, EscapeStep
    <3>2. PICK n \in {i - 1, i} : stack # <<>> /\ n >= 1 /\ Unwind(i, n)
      BY <3>1
    <3>3. Len(stack') = n /\ n <= Len(stack) /\ \A j \in 1 .. n : stack'[j] = stack[j]
      BY <3>2, UnwindStep
    <3>4. Len(stack) \in Nat
      BY DEF TypeOK
    <3> QED
      BY <1>2, <3>2, <3>3, <3>4
  <2> QED
    BY <2>1, <2>2
<1>13. CASE EndModel
  BY <1>13 DEF EndModel, BranchesEntered
<1>14. CASE Restart
  <2>1. stack' = <<[node |-> 1, searched |-> known # NoPosition, pass |-> "run"]>>
    BY <1>14 DEF Restart
  <2>2. \A i \in 1 .. Len(stack') : i = 1 /\ stack'[i].node = 1
    BY <2>1
  <2>3. program[1].kind = "model"
    BY ProgramIsTree DEF TypeOK, Tree
  <2> QED
    BY <1>1, <2>2, <2>3 DEF BranchesEntered, Kind
<1> QED
  BY <1>6, <1>7, <1>8, <1>9, <1>10, <1>11, <1>12, <1>13, <1>14 DEF Next

\* When the model has ended, everything is behind the instance.
LEMMA FinishedStep ==
    ASSUME TypeOK, Shape, Positioned, Ended, Onward, FinishedIsComplete, Next
    PROVE  FinishedIsComplete'
<1>1. program' = program /\ done \subseteq done' /\ entered \subseteq entered' /\ (hidden => hidden')
  BY ShapeStep, HistoryGrows
<1> SUFFICES ASSUME state' = "Finished", ~terminated', ~hidden'
             PROVE  Complete'
  BY DEF FinishedIsComplete
<1>2. CASE Done
  <2>1. UNCHANGED vars
    BY <1>2 DEF Done
  <2>2. UNCHANGED <<program, state, done, entered, hidden, terminated>>
    BY <2>1 DEF vars, history
  <2>3. Complete
    BY <2>2 DEF FinishedIsComplete
  <2> QED
    BY <2>2, <2>3 DEF Complete, Mandatory, Around, Kind
<1>3. CASE EndModel
  <2>1. /\ stack # <<>> /\ at = Past(Top.node) /\ Kind(Top.node) = "model"
        /\ state # "Stopping" /\ terminated' = terminated
        /\ done' = done /\ entered' = entered
    BY <1>3 DEF EndModel, AtEnd, history
  <2>2. state = "Running"
    <3>1. state \in {"Running", "Stopping", "Finishing"}
      BY <2>1 DEF Shape
    <3>2. state # "Finishing"
      BY <2>1 DEF Ended
    <3> QED
      BY <2>1, <3>1, <3>2
  <2>3. /\ Len(stack) = 1 /\ Top.node = 1
    <3>1. Len(stack) \in Nat \ {0} /\ Top = stack[Len(stack)]
      BY <2>1, Here
    <3>2. \A i \in 2 .. Len(stack) : Kind(stack[i].node) # "model"
      BY <2>1 DEF Shape
    <3>3. Len(stack) = 1
      <4>1. Kind(stack[Len(stack)].node) = "model"
        BY <2>1, <3>1
      <4> DEFINE d == Len(stack)
      <4>2. d \notin 2 .. d /\ d \in Nat \ {0}
        BY <3>1, <3>2, <4>1
      <4> HIDE DEF d
      <4>3. d = 1
        BY <4>2
      <4> QED
        BY <4>3 DEF d
    <3>4. stack[1].node = 1
      BY <2>1 DEF Shape, Path
    <3> QED
      BY <3>1, <3>3, <3>4
  <2>4. /\ Tree(program) /\ at = Len(program) + 1 /\ Len(program) \in Nat
    <3>1. Tree(program)
      BY <2>1, Here
    <3> QED
      BY <2>1, <2>3, <3>1, TreeFacts DEF Tree, Past
  <2>5. ~hidden
    BY <1>1
  <2>6. ~searching
    <3>1. ASSUME searching
          PROVE  FALSE
      <4>1. at <= known.label /\ known.label \in Nodes(program)
        BY <2>1, <2>2, <2>5, <3>1 DEF Onward, Positioned, Seeking, Published
      <4> QED
        BY <2>4, <4>1, TreeFacts
    <3> QED
      BY <3>1
  <2>7. Behind(program, done, entered, stack, at)
    BY <2>1, <2>2, <2>5, <2>6 DEF Onward
  <2>8. ASSUME NEW n \in Nodes(program), Needed(program, n)
        PROVE  Fulfils(program, done, entered, n)
    <3>1. program[n].last < at
      BY <2>4, TreeFacts
    <3>2. CASE IsOn(stack, n)
      <4>1. \A j \in 1 .. Len(stack) : j = 1
        BY <2>3
      <4>2. stack[1].node = 1
        BY <2>1 DEF Shape, Path
      <4>3. n = 1
        BY <3>2, <4>1, <4>2 DEF IsOn
      <4> QED
        BY <2>1, <2>3, <4>3 DEF Fulfils, Kind
    <3>3. CASE ~IsOn(stack, n)
      BY <2>7, <2>8, <3>1, <3>3 DEF Behind
    <3> QED
      BY <3>2, <3>3
  <2>9. Complete
    BY <2>8, CompleteIs
  <2> QED
    BY <1>1, <2>1, <2>9 DEF Complete, Mandatory, Around, Kind
<1> QED
  BY <1>2, <1>3, FinishedStays

\* What Onward says of an instance that runs
Going ==
    /\ searching => at <= wanted.label
    /\ ~searching => /\ Behind(program, done, entered, stack, at)
                     /\ Served(program, entered, Top.node, Last(executed) = TRUE, at)

\* Only a choose is served.
LEMMA ServedOther ==
    ASSUME NEW p, NEW e, NEW c, NEW x, NEW a, p[c].kind # "choose"
    PROVE  Served(p, e, c, x, a)
BY DEF Served

\* The search goes past a call that is not its position.
LEMMA SearchOn ==
    ASSUME TypeOK, Shape, Positioned, Going, stack # <<>>, searching, wanted' = wanted,
           at' = at \/ (at' = at + 1 /\ (Kind(at) \notin {"activity", "stop"} \/ wanted.label # at)),
           searching'
    PROVE  Going'
<1>1. /\ wanted = known /\ known.label \in Nodes(program)
      /\ Kind(known.label) \in {"activity", "stop"}
  BY DEF Positioned, Seeking, Published
<1>2. Tree(program) /\ at \in Nat
  BY Here
<1>3. wanted.label \in Nat
  BY <1>1, <1>2, TreeFacts
<1>4. at <= wanted.label
  BY DEF Going
<1>5. at' <= wanted'.label
  BY <1>1, <1>2, <1>3, <1>4
<1> QED
  BY <1>5 DEF Going

\* A lambda is entered.
LEMMA EnterGoing ==
    ASSUME TypeOK, Shape, Positioned, Going, NEW k, Comes(k), k \notin {"model", "activity", "stop"},
           NEW pass \in {"run", "search"}, stack' = Append(stack, Frame(at, pass)),
           at' = at + 1 \/ (k = "loop" /\ ~searching /\ at' = Past(at)),
           searching' = searching, wanted' = wanted, program' = program,
           done \subseteq done', entered \subseteq entered',
           k = "choose" => executed' = Append(executed, FALSE)
    PROVE  Going'
<1>1. /\ stack # <<>> /\ Kind(at) = k /\ at \in Nodes(program)
  BY ComesHere
<1>2. /\ Tree(program) /\ Path(program, stack) /\ Reaches(program, stack, at)
      /\ Len(stack) \in Nat
  BY <1>1, Here
<1>3. CASE searching
  BY <1>1, <1>3, SearchOn
<1>4. CASE ~searching
  <2>1. at' \in {at + 1, Past(at)}
    OBVIOUS
  <2>2. /\ Len(stack') = Len(stack) + 1
        /\ \A i \in 1 .. Len(stack) : stack'[i] = stack[i]
        /\ stack'[Len(stack) + 1].node = at /\ Top'.node = at
    BY <2>1, EnterStep DEF Frame
  <2>3. IsOn(stack', at)
    <3>1. Len(stack) + 1 \in 1 .. Len(stack')
      BY <1>2, <2>2
    <3> QED
      BY <2>2, <3>1 DEF IsOn
  <2>4. \A n : IsOn(stack, n) => IsOn(stack', n)
    <3>1. \A i \in 1 .. Len(stack) : i \in 1 .. Len(stack')
      BY <1>2, <2>2
    <3> QED
      BY <2>2, <3>1 DEF IsOn
  <2>5. Behind(program, done, entered, stack', at')
    <3>1. Behind(program, done, entered, stack, at)
      BY <1>4 DEF Going
    <3>2. at' = at + 1 \/ (program[at].kind = "loop" /\ at' = program[at].last + 1)
      BY <1>1 DEF Past, Kind
    <3> QED
      BY <1>1, <1>2, <2>3, <2>4, <3>1, <3>2, BehindEnter
  <2>6. Behind(program, done', entered', stack', at')
    BY <2>5, BehindMore
  <2>7. Served(program, entered', Top'.node, Last(executed') = TRUE, at')
    <3>1. CASE k = "choose"
      <4>1. Last(executed') = FALSE
        <5>1. executed \in Seq(BOOLEAN)
          BY DEF TypeOK
        <5> QED
          BY <3>1, <5>1, AppendFalse DEF Last
      <4>2. \A j \in Children(program, at) : ~(j < at')
        <5>1. at' = at + 1
          BY <3>1
        <5>2. \A j \in Children(program, at) : j \in Nat /\ j > at /\ at \in Nat
          BY <1>1, <1>2, ChildrenAre, TreeFacts
        <5> QED
          BY <5>1, <5>2
      <4> QED
        BY <2>2, <4>1, <4>2 DEF Served
    <3>2. CASE k # "choose"
      BY <1>1, <2>2, <3>2, ServedOther DEF Kind
    <3> QED
      BY <3>1, <3>2
  <2> QED
    BY <1>4, <2>6, <2>7 DEF Going
<1> QED
  BY <1>3, <1>4

\* A branch is passed over by an instance that does not search.
LEMMA PassBranchGoing ==
    ASSUME TypeOK, Shape, Positioned, Going, NEW k \in {"alternative", "otherwise"}, Comes(k),
           PassOver, ~searching, searching' = searching, program' = program,
           done \subseteq done', entered \subseteq entered', executed' = executed,
           k = "otherwise" => Last(executed) = TRUE
    PROVE  Going'
<1> DEFINE c == Top.node
<1>1. /\ stack # <<>> /\ at \in Children(program, c) /\ Kind(at) = k
      /\ at \in Nodes(program) /\ at <= program[c].last
  BY ComesHere
<1>2. /\ Tree(program) /\ Path(program, stack) /\ Reaches(program, stack, at)
      /\ Top = stack[Len(stack)] /\ c \in Nodes(program) /\ at \in Nat
  BY <1>1, Here
<1>3. program[c].kind = "choose"
  BY <1>1, <1>2 DEF Tree, Kind
<1>4. stack' = stack /\ Top' = Top /\ at' = program[at].last + 1
  BY DEF PassOver, Past, Top
<1>5. Behind(program, done, entered, stack, at)
      /\ Served(program, entered, c, Last(executed) = TRUE, at)
  BY DEF Going
<1>6. Behind(program, done, entered, stack, at')
  BY <1>1, <1>2, <1>3, <1>4, <1>5, BehindBranch
<1>7. Served(program, entered, c, Last(executed) = TRUE, at')
  <2>1. ASSUME NEW j \in Children(program, c), program[j].kind = "otherwise", j < at'
        PROVE  j < at \/ (j = at /\ k = "otherwise")
    <3>1. j \in Nodes(program) /\ j \in Nat /\ Lone(program, c, j) /\ program[at].last \in Nat
          /\ at \in Within(program, c)
      BY <1>1, <1>2, ChildrenAre, TreeFacts
    <3>2. ~(j > at)
      <4>1. j > at => j \in Within(program, at)
        BY <1>2, <1>4, <2>1, <3>1 DEF Within
      <4> QED
        BY <3>1, <4>1 DEF Lone
    <3> QED
      BY <1>1, <1>2, <2>1, <3>1, <3>2 DEF Kind
  <2> QED
    BY <1>5, <2>1 DEF Served
<1>8. Behind(program, done', entered', stack, at')
      /\ Served(program, entered', c, Last(executed) = TRUE, at')
  BY <1>6, <1>7, BehindMore, ServedMore
<1> QED
  BY <1>4, <1>8 DEF Going

\* A lambda is left, or an activity that is done.
LEMMA LeaveGoing ==
    ASSUME TypeOK, Shape, Positioned, Going, NEW k, AtEnd(k), k # "model", Leave,
           searching' = searching, wanted' = wanted, program' = program,
           done \subseteq done', entered \subseteq entered',
           k = "activity" => Top.node \in done',
           k \in {"alternative", "otherwise"} => searching \/ Top.node \in entered'
    PROVE  Going'
<1>1. /\ stack # <<>> /\ stack' # <<>> /\ Len(stack) \in Nat
      /\ Len(stack) >= 2 /\ Len(stack') = Len(stack) - 1
      /\ SameCalls(stack, stack', Len(stack'))
      /\ Top = stack[Len(stack)]
      /\ Top.node \in Children(program, Top'.node)
      /\ program[Top.node].kind = k
      /\ (program[Top'.node].kind = "choose") <=> k \in {"alternative", "otherwise"}
      /\ at' = at
  BY LeaveFacts DEF Leave
<1>2. /\ Tree(program) /\ Top.node \in Nodes(program) /\ at \in Nat /\ at = program[Top.node].last + 1
  BY <1>1, Here DEF AtEnd, Past
<1>3. CASE searching
  BY <1>1, <1>3, SearchOn
<1>4. CASE ~searching
  <2>1. /\ Behind(program, done, entered, stack, at)
        /\ Served(program, entered, Top.node, Last(executed) = TRUE, at)
    BY <1>4 DEF Going
  <2>2. Behind(program, done', entered', stack, at)
    BY <2>1, BehindMore
  <2>3. Fulfils(program, done', entered', Top.node)
    <3>1. ASSUME k = "choose", NEW j \in Children(program, Top.node), program[j].kind = "otherwise"
          PROVE  Children(program, Top.node) \cap entered # {}
      <4>1. j < at
        BY <1>2, ChildrenAre, TreeFacts
      <4> QED
        BY <1>1, <2>1, <3>1, <4>1 DEF Served
    <3> QED
      BY <1>1, <3>1 DEF Fulfils
  <2>4. \A n : IsOn(stack, n) => IsOn(stack', n) \/ n = Top.node
    <3>1. ASSUME NEW j \in 1 .. Len(stack)
          PROVE  (j \in 1 .. Len(stack') /\ stack'[j].node = stack[j].node) \/ j = Len(stack)
      BY <1>1 DEF SameCalls
    <3> QED
      BY <1>1, <3>1 DEF IsOn
  <2>5. Behind(program, done', entered', stack', at)
    BY <2>2, <2>3, <2>4, BehindLeave
  <2>6. Served(program, entered', Top'.node, Last(executed') = TRUE, at')
    BY <1>1, <1>4 DEF Served
  <2> QED
    BY <1>1, <1>4, <2>5, <2>6 DEF Going
<1> QED
  BY <1>3, <1>4

LEMMA FlipGoing ==
    ASSUME TypeOK, Shape, Positioned, Going, AtEnd("loop"), ~searching, at' = at,
           stack' = [stack EXCEPT ![Len(stack)].pass = "run"],
           searching' = searching, program' = program, done' = done, entered' = entered
    PROVE  Going'
<1>1. stack # <<>> /\ program[Top.node].kind = "loop"
  BY DEF AtEnd, Kind
<1>2. /\ Len(stack') = Len(stack)
      /\ \A i \in 1 .. Len(stack) : stack'[i].node = stack[i].node
      /\ Top'.node = Top.node
  BY <1>1, FlipStep
<1>3. \A n : IsOn(stack, n) => IsOn(stack', n)
  BY <1>2 DEF IsOn
<1>4. Behind(program, done, entered, stack', at)
  BY <1>3, BehindOn DEF Going
<1>5. Served(program, entered, Top'.node, Last(executed') = TRUE, at')
  BY <1>1, <1>2, ServedOther
<1> QED
  BY <1>4, <1>5 DEF Going

LEMMA AgainGoing ==
    ASSUME TypeOK, Shape, Positioned, Going, AtEnd("loop"), Top.pass = "run",
           at' = Top.node + 1, stack' = stack,
           searching' = searching, program' = program, done' = done, entered' = entered
    PROVE  Going'
<1>1. /\ stack # <<>> /\ program[Top.node].kind = "loop" /\ Top' = Top
      /\ Kind(Top.node) = "loop"
  BY DEF AtEnd, Kind, Top
<1>2. /\ Tree(program) /\ at \in Nat /\ Top.node \in Nat /\ at > Top.node
      /\ Top = stack[Len(stack)] /\ Len(stack) \in 1 .. Len(stack)
  BY <1>1, Here
<1>3. ~searching
  BY <1>1, <1>2 DEF Positioned, Seeking, Searches
<1>4. at' \in Nat /\ at' <= at
  BY <1>2
<1>5. Behind(program, done, entered, stack, at')
  BY <1>2, <1>3, <1>4, BehindBack DEF Going
<1>6. Served(program, entered, Top'.node, Last(executed') = TRUE, at')
  BY <1>1, ServedOther
<1> QED
  BY <1>3, <1>5, <1>6 DEF Going

LEMMA UnwindGoing ==
    ASSUME TypeOK, Shape, Positioned, Going, stack # <<>>, ~searching,
           NEW i \in 1 .. Len(stack), NEW n \in {i - 1, i}, n >= 1, Unwind(i, n),
           Kind(stack[i].node) = "loop",
           searching' = searching, program' = program, done' = done, entered' = entered
    PROVE  Going'
<1>1. /\ Tree(program) /\ Path(program, stack) /\ Reaches(program, stack, at)
      /\ Len(stack) \in Nat
  BY Here
<1>2. /\ Len(stack') = n /\ n <= Len(stack)
      /\ \A j \in 1 .. n : stack'[j] = stack[j]
      /\ Top' = stack[n] /\ at' = program[stack[i].node].last + 1
  BY UnwindStep DEF Past
<1>3. \A j \in 1 .. i - 1 : IsOn(stack', stack[j].node)
  <2>1. \A j \in 1 .. i - 1 : j \in 1 .. n
    BY <1>1
  <2> QED
    BY <1>2, <2>1 DEF IsOn
<1>4. Behind(program, done, entered, stack', at')
  BY <1>1, <1>2, <1>3, BehindUnwind DEF Going, Kind
<1>5. program[Top'.node].kind # "choose"
  <2>1. CASE n = i
    BY <1>2, <2>1 DEF Kind
  <2>2. CASE n = i - 1
    <3>1. n \in 1 .. Len(stack) - 1 /\ n + 1 = i /\ n \in 1 .. Len(stack)
      BY <1>1, <2>2
    <3>2. stack[i].node \in Children(program, stack[n].node) /\ stack[n].node \in Nodes(program)
      <4>1. stack[n + 1].node \in Children(program, stack[n].node)
        BY <1>1, <3>1 DEF Path
      <4> QED
        BY <1>1, <3>1, <4>1, PathFacts
    <3> QED
      BY <1>1, <1>2, <3>2 DEF Tree, Kind
  <2> QED
    BY <2>1, <2>2
<1>6. Served(program, entered, Top'.node, Last(executed') = TRUE, at')
  BY <1>5, ServedOther
<1> QED
  BY <1>4, <1>6 DEF Going

\* A call without a lambda is passed over in search mode, and the search goes on.
LEMMA SearchedGoing ==
    ASSUME TypeOK, Shape, Positioned, Going, NEW k, Comes(k), PassOver,
           searching, searching', wanted' = wanted, program[at].last = at,
           k \notin {"activity", "stop"} \/ wanted.label # at
    PROVE  Going'
<1>1. stack # <<>> /\ Kind(at) = k
  BY ComesHere
<1>2. at' = at + 1
  BY DEF PassOver, Past
<1> QED
  BY <1>1, <1>2, SearchOn

\* The search ends at an activity or a stop. What ends before its position has
\* been completed.
LEMMA FoundBehind ==
    ASSUME TypeOK, Shape, Positioned, PositionPassed, Going, ~hidden, stack # <<>>,
           ~searching \/ (known # NoPosition /\ known.label = at)
    PROVE  Behind(program, done, entered, stack, at)
<1>1. CASE ~searching
  BY <1>1 DEF Going
<1>2. CASE known # NoPosition /\ known.label = at
  <2>1. Behind(program, done, entered, <<>>, at)
    BY <1>2 DEF PositionPassed
  <2>2. \A n : ~IsOn(<<>>, n)
    BY DEF IsOn
  <2> QED
    BY <2>1, <2>2, BehindOn
<1> QED
  BY <1>1, <1>2

LEMMA BeginGoing ==
    ASSUME TypeOK, Shape, Positioned, AfterIsDone, PositionPassed, Going, ~hidden,
           state = "Running", BeginActivity
    PROVE  Going'
<1>1. /\ stack # <<>> /\ Kind(at) = "activity" /\ at \in Nodes(program) /\ at \in Nat
      /\ at <= program[Top.node].last /\ Past(at) = at + 1
      /\ program' = program /\ wanted' = wanted
      /\ searching' => searching
      /\ searching /\ ~searching' => known # NoPosition /\ known.label = at
      /\ searching' => wanted.label # at
  BY BeginCases
<1>2. /\ Comes("activity") /\ done' = done /\ entered' = entered /\ program[at].last = at
      /\ program[at].kind = "activity" /\ ~ShouldSkip
  <2>1. Comes("activity") /\ done' = done /\ entered' = entered
    BY DEF BeginActivity
  <2>2. program[at].last = at
    BY <1>1, Here DEF Tree, Kind
  <2> QED
    BY <1>1, <2>1, <2>2 DEF Kind, ShouldSkip
<1>3. /\ Tree(program) /\ Path(program, stack) /\ Reaches(program, stack, at)
      /\ Len(stack) \in Nat
  BY <1>1, Here
<1>4. ~searching' => Behind(program, done, entered, stack, at)
  <2>1. ~searching' => ~searching \/ (known # NoPosition /\ known.label = at)
    BY <1>1
  <2> QED
    BY <1>1, <2>1, FoundBehind
<1>5. CASE /\ PassOver /\ UNCHANGED <<position, known, begun>>
           /\ searching /\ (searching' \/ known.detail = "after")
  <2>1. CASE searching'
    BY <1>1, <1>2, <1>5, <2>1, SearchedGoing
  <2>2. CASE ~searching'
    <3>1. known # NoPosition /\ known.label = at /\ known.detail = "after"
      BY <1>1, <1>5, <2>2
    <3>2. at \in done
      BY <1>1, <3>1 DEF AfterIsDone
    <3>3. Fulfils(program, done, entered, at)
      BY <1>2, <3>2 DEF Fulfils
    <3>4. Behind(program, done, entered, stack, at + 1)
      BY <1>1, <1>2, <1>3, <1>4, <2>2, <3>3, BehindLeaf
    <3>5. stack' = stack /\ Top' = Top /\ at' = at + 1
      BY <1>1, <1>5 DEF PassOver, Top
    <3>6. Served(program, entered, Top.node, Last(executed') = TRUE, at')
      BY <1>1, LeafIsNoBranch, ServedOther
    <3> QED
      BY <1>1, <1>2, <2>2, <3>4, <3>5, <3>6 DEF Going
  <2> QED
    BY <2>1, <2>2
<1>6. CASE Run("run") /\ ~searching'
  <2>1. at' = at + 1 /\ stack' = Append(stack, Frame(at, "run"))
    BY <1>6 DEF Run
  <2>2. /\ Len(stack') = Len(stack) + 1
        /\ \A i \in 1 .. Len(stack) : stack'[i] = stack[i]
        /\ stack'[Len(stack) + 1].node = at /\ Top'.node = at
    BY <1>1, <1>2, <2>1, EnterStep DEF Frame
  <2>3. IsOn(stack', at) /\ \A n : IsOn(stack, n) => IsOn(stack', n)
    <3>1. Len(stack) + 1 \in 1 .. Len(stack') /\ \A i \in 1 .. Len(stack) : i \in 1 .. Len(stack')
      BY <1>3, <2>2
    <3> QED
      BY <2>2, <3>1 DEF IsOn
  <2>4. Behind(program, done, entered, stack', at')
    BY <1>1, <1>3, <1>4, <1>6, <2>1, <2>3, BehindEnter
  <2>5. Served(program, entered, Top'.node, Last(executed') = TRUE, at')
    BY <1>2, <2>2, ServedOther
  <2> QED
    BY <1>1, <1>2, <1>6, <2>4, <2>5 DEF Going
<1> QED
  BY <1>2, <1>5, <1>6, BeginCases

LEMMA StopGoing ==
    ASSUME TypeOK, Shape, Positioned, PositionPassed, Going, ~hidden,
           state = "Running", state' = "Running", Stop
    PROVE  Going'
<1>1. /\ stack # <<>> /\ Kind(at) = "stop" /\ at \in Nodes(program) /\ at \in Nat
      /\ at <= program[Top.node].last /\ Past(at) = at + 1
      /\ PassOver /\ program' = program /\ wanted' = wanted
      /\ searching' => searching
      /\ searching /\ ~searching' => known # NoPosition /\ known.label = at
      /\ searching' => wanted.label # at
  BY StopCases
<1>2. /\ Comes("stop") /\ done' = done /\ entered' = entered /\ program[at].last = at
      /\ program[at].kind = "stop" /\ searching
  <2>1. Comes("stop") /\ done' = done /\ entered' = entered
    BY DEF Stop, history
  <2>2. program[at].last = at
    BY <1>1, Here DEF Tree, Kind
  <2>3. searching
    BY DEF Stop, InSearchMode, ShouldSkip
  <2> QED
    BY <1>1, <2>1, <2>2, <2>3 DEF Kind
<1>3. /\ Tree(program) /\ Path(program, stack) /\ Reaches(program, stack, at)
  BY <1>1, Here
<1>4. CASE searching'
  BY <1>1, <1>2, <1>4, SearchedGoing
<1>5. CASE ~searching'
  <2>1. Behind(program, done, entered, stack, at)
    BY <1>1, <1>2, <1>5, FoundBehind
  <2>2. Fulfils(program, done, entered, at)
    BY <1>2 DEF Fulfils
  <2>3. Behind(program, done, entered, stack, at + 1)
    BY <1>1, <1>2, <1>3, <2>1, <2>2, BehindLeaf
  <2>4. stack' = stack /\ Top' = Top /\ at' = at + 1
    BY <1>1 DEF PassOver, Top
  <2>5. Served(program, entered, Top.node, Last(executed') = TRUE, at')
    BY <1>1, LeafIsNoBranch, ServedOther
  <2> QED
    BY <1>1, <1>2, <1>5, <2>3, <2>4, <2>5 DEF Going
<1> QED
  BY <1>4, <1>5

LEMMA RestartGoing ==
    ASSUME TypeOK, Shape, Positioned, Restart
    PROVE  Going'
<1>1. /\ at' = 2 /\ wanted' = known /\ searching' = (known # NoPosition)
      /\ program' = program /\ done' = done /\ entered' = entered
      /\ stack' = <<[node |-> 1, searched |-> known # NoPosition, pass |-> "run"]>>
  BY DEF Restart
<1>2. Tree(program)
  BY ProgramIsTree DEF TypeOK
<1>3. program[1].kind = "model" /\ Len(stack') = 1 /\ stack'[1].node = 1 /\ Top'.node = 1
  BY <1>1, <1>2 DEF Tree, Top, Last
<1>4. ASSUME known # NoPosition
      PROVE  2 <= known.label
  <2>1. known.label \in Nodes(program) /\ Kind(known.label) \in {"activity", "stop"}
    BY <1>4 DEF Positioned, Published
  <2>2. known.label # 1 /\ known.label \in Nat /\ known.label >= 1
    BY <1>2, <1>3, <2>1, TreeFacts DEF Kind
  <2> QED
    BY <2>2
<1>5. Behind(program, done, entered, stack', 2)
  <2>1. ASSUME NEW n \in Nodes(program), program[n].last < 2
        PROVE  IsOn(stack', n)
    <3>1. n = 1
      BY <1>2, <2>1, TreeFacts
    <3> QED
      BY <1>3, <3>1 DEF IsOn
  <2> QED
    BY <2>1 DEF Behind
<1>6. Served(program, entered, Top'.node, Last(executed') = TRUE, at')
  BY <1>3, ServedOther
<1> QED
  BY <1>1, <1>4, <1>5, <1>6 DEF Going

LEMMA OnwardStep ==
    ASSUME TypeOK, Shape, Positioned, BranchesEntered, AfterIsDone, PositionPassed, Onward, Next
    PROVE  Onward'
<1>1. /\ Shape' /\ program' = program /\ done \subseteq done' /\ entered \subseteq entered'
      /\ hidden => hidden'
  BY ShapeStep, HistoryGrows
<1>2. Onward' <=> (~hidden' /\ stack' # <<>> /\ state' = "Running" => Going')
  BY DEF Onward, Going
<1>3. CASE Restart
  BY <1>2, <1>3, RestartGoing
<1> SUFFICES ASSUME ~hidden', stack' # <<>>, state' = "Running", ~Restart
             PROVE  Going'
  BY <1>2, <1>3
<1>4. state = "Running" /\ stack # <<>> /\ ~hidden /\ ~ShouldSkip
  <2>1. state = "Running"
    BY RunningStays
  <2>2. stack # <<>>
    BY <2>1 DEF Shape
  <2> QED
    BY <1>1, <2>1, <2>2 DEF ShouldSkip
<1>5. Going
  BY <1>4 DEF Onward, Going
<1>6. wanted' = wanted
  BY HistoryGrows
<1>7. ASSUME UNCHANGED <<at, stack, executed, searching>>
      PROVE  Going'
  <2>1. Top' = Top
    BY <1>7 DEF Top
  <2>2. ~searching => /\ Behind(program, done', entered', stack, at)
                      /\ Served(program, entered', Top.node, Last(executed) = TRUE, at)
    BY <1>1, <1>5, BehindMore, ServedMore DEF Going
  <2> QED
    BY <1>1, <1>5, <1>6, <1>7, <2>1, <2>2 DEF Going
<1>8. CASE Choose
  <2>1. /\ Comes("choose") /\ Run("run") /\ executed' = Append(executed, FALSE)
        /\ searching' = searching
    BY <1>4, <1>8 DEF Choose
  <2> QED
    BY <1>1, <1>5, <1>6, <2>1, EnterGoing DEF Run
<1>9. CASE Loop \/ Critical
  <2>1. \E k \in {"loop", "critical"} : \E pass \in {"run", "search"} :
          /\ Comes(k) /\ stack' = Append(stack, Frame(at, pass))
          /\ at' = at + 1 \/ (k = "loop" /\ ~searching /\ at' = Past(at))
    BY <1>4, <1>9 DEF Loop, Critical, Run
  <2>2. searching' = searching
    BY <1>9 DEF Loop, Critical, info
  <2> QED
    BY <1>1, <1>5, <1>6, <2>1, <2>2, EnterGoing
<1>10. CASE PassAlternative
  <2>1. /\ Comes("alternative") /\ PassOver /\ searching' = searching /\ executed' = executed
    BY <1>10 DEF PassAlternative, info
  <2>2. ~searching
    <3>1. hidden' = (hidden \/ (~ShouldSkip /\ searching))
      BY <1>10 DEF PassAlternative
    <3> QED
      BY <1>4, <3>1
  <2> QED
    BY <1>1, <1>5, <2>1, <2>2, PassBranchGoing
<1>11. CASE Alternative
  <2>1. Comes("alternative") /\ searching' = searching
    BY <1>11 DEF Alternative
  <2>2. CASE Run("run")
    <3>1. \E k \in {"alternative"} : \E pass \in {"run"} :
            /\ Comes(k) /\ at' = at + 1 /\ stack' = Append(stack, Frame(at, pass))
      BY <2>1, <2>2 DEF Run
    <3> QED
      BY <1>1, <1>5, <1>6, <2>1, <3>1, EnterGoing
  <2>3. CASE PassOver /\ ~searching /\ executed' = executed
    BY <1>1, <1>5, <2>1, <2>3, PassBranchGoing
  <2> QED
    BY <1>11, <2>2, <2>3 DEF Alternative
<1>12. CASE Otherwise
  <2>1. Comes("otherwise") /\ searching' = searching /\ executed' = executed
    BY <1>12 DEF Otherwise, info
  <2>2. CASE Run("run")
    <3>1. \E k \in {"otherwise"} : \E pass \in {"run"} :
            /\ Comes(k) /\ at' = at + 1 /\ stack' = Append(stack, Frame(at, pass))
      BY <2>1, <2>2 DEF Run
    <3> QED
      BY <1>1, <1>5, <1>6, <2>1, <3>1, EnterGoing
  <2>3. CASE PassOver /\ ~searching /\ Last(executed)
    <3>1. Last(executed) = TRUE
      BY <2>3
    <3> QED
      BY <1>1, <1>5, <2>1, <2>3, <3>1, PassBranchGoing
  <2> QED
    BY <1>4, <1>12, <2>2, <2>3 DEF Otherwise
<1>13. CASE EndChoose \/ EndCritical \/ (LoopSearched /\ searching) \/ (LoopTest /\ Leave)
  <2>1. searching' = searching
    BY <1>13 DEF EndChoose, EndCritical, LoopSearched, LoopTest, info
  <2>2. \E k \in {"choose", "critical", "loop"} : AtEnd(k) /\ Leave
    BY <1>13 DEF EndChoose, EndCritical, LoopSearched, LoopTest
  <2> QED
    BY <1>1, <1>5, <1>6, <2>1, <2>2, LeaveGoing
<1>14. CASE EndAlternative \/ EndOtherwise
  <2>1. /\ searching' = searching /\ Leave
        /\ Top.searched # searching => Top.node \in entered'
        /\ AtEnd("alternative") \/ AtEnd("otherwise")
    BY <1>14 DEF EndAlternative, EndOtherwise, Set, info
  <2>2. searching \/ Top.node \in entered'
    <3>1. ASSUME ~searching, Top.searched = searching
          PROVE  Top.node \in entered
      <4>1. /\ Top = stack[Len(stack)] /\ Len(stack) \in 1 .. Len(stack)
            /\ Top.searched \in BOOLEAN /\ searching \in BOOLEAN
        BY <1>4, Here DEF Frames, TypeOK
      <4>2. ~stack[Len(stack)].searched
        BY <3>1, <4>1
      <4>3. Kind(stack[Len(stack)].node) \in {"alternative", "otherwise"}
        BY <2>1, <4>1 DEF AtEnd
      <4> QED
        BY <4>1, <4>2, <4>3 DEF BranchesEntered
    <3> QED
      BY <1>1, <2>1, <3>1
  <2> QED
    BY <1>1, <1>5, <1>6, <2>1, <2>2, LeaveGoing
<1>15. CASE LoopSearched /\ ~searching
  <2>1. /\ AtEnd("loop") /\ at' = at /\ searching' = searching
        /\ stack' = [stack EXCEPT ![Len(stack)].pass = "run"]
        /\ done' = done /\ entered' = entered
    BY <1>15 DEF LoopSearched, info, history
  <2> QED
    BY <1>1, <1>5, <1>15, <2>1, FlipGoing
<1>16. CASE LoopTest /\ ~Leave
  <2>1. /\ AtEnd("loop") /\ Top.pass = "run" /\ at' = Top.node + 1 /\ stack' = stack
        /\ searching' = searching /\ done' = done /\ entered' = entered
    BY <1>16 DEF LoopTest, info, history
  <2> QED
    BY <1>1, <1>5, <2>1, AgainGoing
<1>17. CASE Escape
  <2>1. searching' = searching /\ done' = done /\ entered' = entered /\ Comes("escape")
    BY <1>17 DEF Escape, info
  <2>2. CASE searching
    <3>1. PassOver
      BY <1>17, <2>2 DEF Escape
    <3>2. program[at].last = at
      BY <1>4, <2>1, ComesHere, Here DEF Tree, Kind
    <3> QED
      BY <1>5, <1>6, <2>1, <2>2, <3>1, <3>2, SearchedGoing
  <2>3. CASE ~searching
    <3>1. \E i \in LoopsAt : Unwind(i, IF stack[i].pass = "run" THEN i - 1 ELSE i)
      BY <1>4, <1>17, <2>3 DEF Escape
    <3>2. PICK i \in LoopsAt : Unwind(i, IF stack[i].pass = "run" THEN i - 1 ELSE i)
      BY <3>1
    <3>3. /\ Tree(program) /\ Path(program, stack) /\ Len(stack) \in Nat
      BY <1>4, Here
    <3>4. i \in 1 .. Len(stack) /\ Kind(stack[i].node) = "loop"
      BY <3>2, <3>3, PathFacts DEF LoopsAt
    <3>5. i # 1
      BY <3>3, <3>4 DEF Tree, Path, Kind
    <3> DEFINE n == IF stack[i].pass = "run" THEN i - 1 ELSE i
    <3>6. n \in {i - 1, i} /\ n >= 1 /\ Unwind(i, n)
      BY <3>2, <3>4, <3>5
    <3> HIDE DEF n
    <3> QED
      BY <1>1, <1>4, <1>5, <2>1, <2>3, <3>4, <3>6, UnwindGoing
  <2> QED
    BY <2>2, <2>3
<1>18. CASE BeginActivity
  BY <1>4, <1>5, <1>18, BeginGoing
<1>19. CASE CompleteActivity
  <2>1. AtEnd("activity") /\ Leave /\ searching' = searching /\ Top.node \in done'
    BY <1>19 DEF CompleteActivity, info
  <2> QED
    BY <1>1, <1>5, <1>6, <2>1, LeaveGoing
<1>20. CASE Stop
  BY <1>4, <1>5, <1>20, StopGoing
<1>21. CASE Terminate
  <2>1. /\ Comes("terminate") /\ PassOver /\ searching' = searching
        /\ searching
    BY <1>4, <1>21 DEF Terminate, info
  <2>2. program[at].last = at
    BY <1>4, <2>1, ComesHere, Here DEF Tree, Kind
  <2> QED
    BY <1>5, <1>6, <2>1, <2>2, SearchedGoing
<1>22. CASE LeaveActivity \/ StopWeel \/ EndModel
  BY <1>22 DEF LeaveActivity, StopWeel, EndModel
<1>23. CASE Done
  BY <1>7, <1>23 DEF Done, vars, info
<1> QED
  BY <1>8, <1>9, <1>10, <1>11, <1>12, <1>13, <1>14, <1>15, <1>16, <1>17, <1>18, <1>19,
     <1>20, <1>21, <1>22, <1>23 DEF Next
-----------------------------------------------------------------------------
\* The branches of which an activity has begun are among those that have been
\* entered.
LEMMA KeptChoices ==
    ASSUME TypeOK, Branching
    PROVE  ChoiceIsKept
<1> SUFFICES ASSUME ~unwound, NEW c \in Nodes(program), Kind(c) = "choose", ~InLoop(c),
                    OtherwiseIsLast(c), Cardinality(Taken(c)) > 1
             PROVE  /\ program[c].variant = "inclusive"
                    /\ \A k \in Taken(c) : Kind(k) = "alternative"
  BY DEF ChoiceIsKept
<1>1. Regular(program, c)
  BY InLoopIs DEF Regular, OtherwiseIsLast, Kind
<1>2. Taken(c) \subseteq Been(program, c, Marked)
  BY DEF Taken, Been, Marked
<1>3. \A k, l \in Taken(c) : Compatible(program, c, k, l)
  BY <1>1, <1>2 DEF Branching, Kept
<1>4. \A k : Taken(c) # {} /\ Taken(c) # {k}
  <2>1. Taken(c) # {}
    BY FS_EmptySet
  <2>2. ASSUME NEW k, Taken(c) = {k}
        PROVE  FALSE
    BY <2>2, FS_Singleton
  <2> QED
    BY <2>1, <2>2
<1>5. \A k \in Taken(c) : \E l \in Taken(c) : l # k
  BY <1>4
<1>6. \A k \in Taken(c) : program[c].variant = "inclusive" /\ program[k].kind = "alternative"
  BY <1>3, <1>5 DEF Compatible
<1> QED
  BY <1>4, <1>6 DEF Kind

LEMMA OnceStep ==
    ASSUME TypeOK, Shape, Positioned, CompletedOnce, Next
    PROVE  CompletedOnce'
<1>1. program' = program
  BY ShapeStep
<1>2. \A n : InLoop(n)' <=> InLoop(n)
  BY <1>1 DEF InLoop, Around, Kind
<1>3. CASE again' = again
  BY <1>2, <1>3 DEF CompletedOnce
<1>4. CASE CompleteActivity
  <2>1. again' = again \cup ({Top.node} \cap done) /\ stack # <<>> /\ Kind(Top.node) = "activity"
    BY <1>4 DEF CompleteActivity, AtEnd
  <2>2. ~InLoop(Top.node) => Top.node \notin done
    BY <2>1 DEF Positioned, Working
  <2> QED
    BY <1>2, <2>1, <2>2 DEF CompletedOnce
<1>5. CASE Quiet
  BY <1>3, <1>5, QuietMoves
<1>6. CASE BeginActivity \/ Stop \/ EndModel \/ Restart \/ Done
  BY <1>3, <1>6 DEF BeginActivity, Stop, EndModel, Restart, Done, vars, history
<1> QED
  BY <1>4, <1>5, <1>6 DEF Next, Quiet

\* The first life of an instance: nothing has happened.
LEMMA InitHolds ==
    ASSUME Init
    PROVE  /\ TypeOK /\ Shape /\ Positioned /\ StacksMatch /\ Branching /\ Completing
           /\ CompletedOnce
<1>1. /\ program \in Programs /\ state = "Running" /\ at = 2
      /\ stack = <<[node |-> 1, searched |-> FALSE, pass |-> "run"]>>
      /\ executed = <<>> /\ mode = <<>> /\ searching = FALSE
      /\ position = NoPosition /\ wanted = NoPosition /\ known = NoPosition
      /\ turns = 0 /\ lives = 1 /\ begun = {} /\ done = {} /\ again = {} /\ entered = {}
  BY DEF Init
<1>2. hidden = FALSE /\ unwound = FALSE /\ terminated = FALSE
  BY DEF Init
<1>3. Tree(program) /\ Len(program) \in Nat \ {0} /\ 1 \in Nodes(program)
  BY <1>1, ProgramIsTree, TreeFacts
<1>4. /\ Len(stack) = 1 /\ stack[1].node = 1 /\ stack[1].searched = FALSE /\ Top = stack[1]
      /\ stack # <<>> /\ program[1].kind = "model"
      /\ stack[1] = [node |-> 1, searched |-> FALSE, pass |-> "run"]
  BY <1>1, <1>3 DEF Top, Last, Tree
<1>5. \A i \in 1 .. Len(stack) : i = 1
  BY <1>4
<1>6. stack[1] \in Frames(program) /\ stack = <<stack[1]>>
  <2>1. [node |-> 1, searched |-> FALSE, pass |-> "run"] \in Frames(program)
    BY <1>3 DEF Frames
  <2> QED
    BY <1>1, <1>4, <2>1
<1>7. Path(program, stack) /\ Reaches(program, stack, at)
  BY <1>1, <1>3, <1>4, <1>6, PathOfModel
<1>8. Shape
  BY <1>1, <1>4, <1>7 DEF Shape
<1>9. TypeOK
  <2>1. stack \in Seq(Frames(program))
    BY <1>7 DEF Path
  <2>2. at \in 2 .. Len(program) + 1 /\ turns \in 0 .. MaxTurns /\ lives \in Nat
    BY <1>1, <1>3, ControlFlowAssumption
  <2>3. executed \in Seq(BOOLEAN) /\ mode \in Seq(Variants)
    BY <1>1
  <2>4. {hidden, unwound, terminated} \subseteq BOOLEAN /\ searching \in BOOLEAN
    BY <1>1, <1>2
  <2> QED
    BY <1>1, <2>1, <2>2, <2>3, <2>4 DEF TypeOK, Frames
<1>10. Marked = {} /\ Reached(program, Marked) = {}
  BY <1>1 DEF Marked, Reached
<1>11. Positioned
  BY <1>1, <1>4, <1>10 DEF Positioned, Published, Seeking, Working, Settled, Progress, Kind
<1>12. StacksMatch
  <2>1. Height(program, stack, 0 + 1) = Height(program, stack, 0)
    BY <1>4, HeightNext
  <2>2. Height(program, stack, 1) = 0
    BY <2>1, HeightOfNone
  <2>3. Matches(program, stack, Len(executed), mode)
    BY <1>1, <1>4, <1>5, <2>2 DEF Matches
  <2> QED
    BY <1>9, <2>3, StacksMatchIs DEF TypeOK
<1>13. Branching
  <2>1. Kept(program, Marked) /\ Follows(program, Marked, stack)
    BY <1>4, <1>10 DEF Kept, Follows, Been
  <2>2. Decided(program, Marked, Top.node, Last(executed) = TRUE)
    BY <1>4, DecidedOther
  <2>3. Noted(program, stack, executed)
    BY <1>4 DEF Noted
  <2> QED
    BY <2>1, <2>2, <2>3 DEF Branching
<1>14. Completing
  <2>1. Ended /\ AfterIsDone /\ PositionPassed /\ FinishedIsComplete
    BY <1>1 DEF Ended, AfterIsDone, PositionPassed, FinishedIsComplete
  <2>2. BranchesEntered
    BY <1>4, <1>5 DEF BranchesEntered, Kind
  <2>3. Behind(program, done, entered, stack, 2)
    <3>1. ASSUME NEW n \in Nodes(program), program[n].last < 2
          PROVE  IsOn(stack, n)
      <4>1. n = 1
        BY <1>3, <3>1, TreeFacts
      <4> QED
        BY <1>4, <4>1 DEF IsOn
    <3> QED
      BY <3>1 DEF Behind
  <2>4. Served(program, entered, Top.node, Last(executed) = TRUE, 2)
    BY <1>4, ServedOther
  <2>5. Onward
    BY <1>1, <2>3, <2>4 DEF Onward
  <2> QED
    BY <2>1, <2>2, <2>5 DEF Completing
<1> QED
  BY <1>1, <1>8, <1>9, <1>11, <1>12, <1>13, <1>14 DEF CompletedOnce

\* A step of another program
LEMMA StutterHolds ==
    ASSUME UNCHANGED vars
    PROVE  /\ TypeOK => TypeOK'
           /\ Shape => Shape'
           /\ Positioned => Positioned'
           /\ StacksMatch => StacksMatch'
           /\ Branching => Branching'
           /\ Completing => Completing'
           /\ CompletedOnce => CompletedOnce'
<1>1. UNCHANGED <<program, state, at, stack, executed, mode, searching, position, wanted, known,
                  turns, lives, begun, done, again, entered, hidden, unwound, terminated>>
  BY DEF vars, info, places, bounds, history
<1>2. TypeOK => TypeOK'
  BY <1>1 DEF TypeOK
<1>3. Shape => Shape'
  BY <1>1 DEF Shape, Kind
<1>4. \A n : InLoop(n)' <=> InLoop(n)
  BY <1>1 DEF InLoop, Around, Kind
<1>5. Top' = Top /\ Marked' = Marked
  BY <1>1 DEF Top, Marked
<1>6. Positioned => Positioned'
  BY <1>1, <1>4, <1>5 DEF Positioned, Published, Seeking, Working, Settled, Progress,
                          Searches, Kind
<1>7. StacksMatch => StacksMatch'
  <2>1. \A i : Depth(i)' = Depth(i)
    BY <1>1 DEF Depth, Kind
  <2> QED
    BY <1>1, <2>1 DEF StacksMatch, Kind
<1>8. Branching => Branching'
  BY <1>1, <1>5 DEF Branching
<1>9. Completing => Completing'
  <2>1. Complete' <=> Complete
    BY <1>1 DEF Complete, Mandatory, Around, Kind
  <2> QED
    BY <1>1, <1>5, <2>1 DEF Completing, Ended, BranchesEntered, AfterIsDone, PositionPassed,
                            Onward, FinishedIsComplete, Kind
<1>10. CompletedOnce => CompletedOnce'
  BY <1>1, <1>4 DEF CompletedOnce
<1> QED
  BY <1>2, <1>3, <1>6, <1>7, <1>8, <1>9, <1>10
-----------------------------------------------------------------------------
Invariant ==
    TypeOK /\ Shape /\ Positioned /\ StacksMatch /\ Branching /\ Completing /\ CompletedOnce

LEMMA InvariantStep ==
    ASSUME Invariant, [Next]_vars
    PROVE  Invariant'
<1>1. CASE UNCHANGED vars
  BY <1>1, StutterHolds DEF Invariant
<1>2. CASE Next
  <2>1. TypeOK'
    BY <1>2, TypeStep DEF Invariant, Positioned
  <2>2. Shape' /\ Positioned'
    BY <1>2, ShapeStep, PositionedStep DEF Invariant
  <2>3. StacksMatch'
    BY <1>2, <2>1, StacksMatchStep DEF Invariant
  <2>4. Branching'
    BY <1>2, <2>1, BranchingStep DEF Invariant
  <2>5. Ended' /\ AfterIsDone' /\ BranchesEntered'
    BY <1>2, EndedStep, AfterIsDoneStep, BranchesEnteredStep DEF Invariant, Completing
  <2>6. PositionPassed' /\ FinishedIsComplete'
    BY <1>2, PositionPassedStep, FinishedStep DEF Invariant, Completing
  <2>7. Onward'
    BY <1>2, OnwardStep DEF Invariant, Completing
  <2>8. CompletedOnce'
    BY <1>2, OnceStep DEF Invariant
  <2> QED
    BY <2>1, <2>2, <2>3, <2>4, <2>5, <2>6, <2>7, <2>8 DEF Invariant, Completing
<1> QED
  BY <1>1, <1>2

\* Every life of an instance, in every state: the stack of running lambdas is a
\* path of the model, the published position is that of the activity that runs,
\* the choices are kept, and nothing before the position is missing.
THEOREM AlwaysInvariant == Spec => []Invariant
<1>1. Init => Invariant
  BY InitHolds DEF Invariant
<1>2. Invariant /\ [Next]_vars => Invariant'
  BY InvariantStep
<1> QED
  BY <1>1, <1>2, PTL DEF Spec

\* The type invariant: among others, no handler of the dsl takes an entry from
\* an empty stack of ThreadInfo, and what is done had been begun.
THEOREM TypeCorrect == Spec => []TypeOK
<1>1. Invariant => TypeOK
  BY DEF Invariant
<1> QED
  BY <1>1, AlwaysInvariant, PTL

\* choose, alternative and otherwise read and write the entry of their own
\* choose in the two stacks of ThreadInfo, however chooses are nested and
\* wherever a stop, an error or a terminate ends the lambdas; escape alone may
\* leave entries behind.
THEOREM StacksAlwaysMatch == Spec => []StacksMatch
<1>1. Invariant => StacksMatch
  BY DEF Invariant
<1> QED
  BY <1>1, AlwaysInvariant, PTL

\* weel_progress publishes each completed activity as passed before the thread
\* goes on, so the search of no later life runs it again, however often the
\* instance is stopped and started.
THEOREM OnlyLoopsRepeat == Spec => []CompletedOnce
<1>1. Invariant => CompletedOnce
  BY DEF Invariant
<1> QED
  BY <1>1, AlwaysInvariant, PTL

\* One life after another takes the same branch of an exclusive choice, and
\* otherwise never besides an alternative before it: alternative marks its
\* choose when the search ends inside of it, too.
THEOREM ChoicesAreKept == Spec => []ChoiceIsKept
<1>1. Invariant => ChoiceIsKept
  BY KeptChoices DEF Invariant
<1> QED
  BY <1>1, AlwaysInvariant, PTL

\* start sets Finished only when the lives of the instance together have done
\* every activity that no condition decides about and have entered a branch of
\* every choice with an otherwise, unless the model was terminated or a search
\* has passed over an alternative.
THEOREM NothingIsMissed == Spec => []FinishedIsComplete
<1>1. Invariant => FinishedIsComplete
  BY DEF Invariant, Completing
<1> QED
  BY <1>1, AlwaysInvariant, PTL
=============================================================================
