------------------------- MODULE ConditionTraceProofs -------------------------
(***************************************************************************)
(* Theorems about recorded conditions for any number of goroutines, of     *)
(* recordings, of children and of operators called, nested in any way:     *)
(* a tree claims an operator only for a callback that called one and gave  *)
(* its answer, it follows from its children, and the conditions of a       *)
(* nested Fire do not write into a recording that is not theirs.           *)
(*                                                                         *)
(* Recordings are shared by all goroutines, so what a frame of a stack     *)
(* knows must hold whatever the others do: a callback that is running has  *)
(* its recording for itself, an operator its children; a claim is either   *)
(* the only one or makes the recording opaque.                             *)
(***************************************************************************)
EXTENDS ConditionTrace, SequenceTheorems, TLAPS

Roles == {"own", "condition", "action"}
Kinds == Operators \cup {"Leaf"}
Reports == Outcomes \cup {"none"}
NodeSpace ==
    [kind : Kinds, index : Int, outcome : Reports, reason : {"None", "ShortCircuit"},
     started : BOOLEAN, finished : BOOLEAN, operator : BOOLEAN, opaque : BOOLEAN,
     children : Seq(Nat)]
CallbackSpace == [what : {"callback"}, role : Roles, node : Nat, ctx : Nat]
OperatorSpace == [what : {"operator"}, on : Nat, kind : Operators, children : Seq(Nat),
                  next : Nat, outcome : Reports]
FireSpace == [what : {"fire"}, ctx : Nat, traced : BOOLEAN, next : {"condition", "action"}]
FrameSpace == CallbackSpace \cup OperatorSpace \cup FireSpace
ViewSpace == [kind : Kinds, index : Int, outcome : Reports, reason : {"None", "ShortCircuit"},
              children : Seq(Nat)]

TypeOK ==
    /\ nodes \in Seq(NodeSpace) /\ nodes # <<>>
    /\ stack \in [Threads -> Seq(FrameSpace)]
    /\ panicErr \in BOOLEAN
    /\ todo \in Seq(1 .. Len(nodes))
    /\ DOMAIN frozen \subseteq 1 .. Len(nodes) /\ frozen \in [DOMAIN frozen -> ViewSpace]
    /\ operators \in Seq(0 .. 2) /\ Len(operators) = Len(nodes)
    /\ answer \in Seq(Reports) /\ Len(answer) = Len(nodes)
    /\ returned \in Seq(Reports \cup {"panic"}) /\ Len(returned) = Len(nodes)

(* Frame f is the k-th of goroutine t. *)
At(t, k, f) == t \in Threads /\ k \in 1 .. Len(stack[t]) /\ stack[t][k] = f
Depth(t) == Len(stack[t])

Owned(n) ==
    \E t, k, f : At(t, k, f) /\ f.what = "operator" /\ \E i \in 1 .. Len(f.children) : f.children[i] = n

(* A child that no operator will start. *)
Dormant(n) == ~nodes[n].started /\ ~Owned(n)
Settled(n) == nodes[n].finished \/ Dormant(n)

CallbackInv(t, k, f) ==
    /\ k = 1 => f.role = "own" /\ f.node = (IF t = Main THEN 1 ELSE NoNode)
    /\ f.role = "condition" => f.ctx \in {NoNode, f.node}
    /\ f.node \in 0 .. Len(nodes)
    /\ f.node # NoNode => nodes[f.node].started /\ ~nodes[f.node].finished
    /\ f.role # "own" => \A g : At(t, k - 1, g) => g.what = "fire"

(* The children of an operator are its own: those before the next one have *)
(* finished and told it to go on, the others have not been started, but    *)
(* for the one whose callback is above it on the stack.                    *)
OperatorInv(t, k, f) ==
    /\ f.on \in 1 .. Len(nodes) /\ nodes[f.on].started
    /\ \A i \in 1 .. Len(f.children) :
         f.children[i] \in 1 .. Len(nodes) /\ nodes[f.children[i]].index = i - 1
    /\ \A i, j \in 1 .. Len(f.children) : f.children[i] = f.children[j] => i = j
    /\ f.next \in 1 .. Len(f.children) + 1
    /\ \A i \in 1 .. f.next - 1 : nodes[f.children[i]].finished
    /\ \A i \in 1 .. f.next - 2 : Combine(f.kind, nodes[f.children[i]].outcome) = "none"
    /\ f.outcome = IF f.next = 1 THEN "none"
                   ELSE Combine(f.kind, nodes[f.children[f.next - 1]].outcome)
    /\ \A i \in f.next + 1 .. Len(f.children) : ~nodes[f.children[i]].started
    /\ k = Depth(t) /\ f.next <= Len(f.children) => ~nodes[f.children[f.next]].started
    /\ \A g : At(t, k + 1, g) =>
         /\ g.what = "callback" /\ g.role = "own"
         /\ f.next <= Len(f.children) /\ f.outcome = "none" /\ g.node = f.children[f.next]

(* A recording that is not opaque knows the operator that is running on    *)
(* it, which has not answered yet.                                         *)
ClaimInv(f) ==
    ~nodes[f.on].opaque =>
        /\ nodes[f.on].operator /\ ~nodes[f.on].finished /\ nodes[f.on].outcome = "none"
        /\ nodes[f.on].kind = f.kind /\ nodes[f.on].children = f.children

Frames ==
    \A t, k, f : At(t, k, f) =>
        /\ k = 1 => f.what = "callback"
        /\ f.what = "callback" => CallbackInv(t, k, f)
        /\ f.what = "operator" => OperatorInv(t, k, f) /\ ClaimInv(f)

(* No two frames share a recording that is running, a child, or a claim    *)
(* that is not opaque.                                                     *)
Apart ==
    \A t, k, f, u, j, g : At(t, k, f) /\ At(u, j, g) /\ f.what = g.what =>
        \/ t = u /\ k = j
        \/ f.what = "callback" /\ (f.node = g.node => f.node = NoNode)
        \/ /\ f.what = "operator"
           /\ f.on = g.on => nodes[f.on].opaque
           /\ \A a \in 1 .. Len(f.children), b \in 1 .. Len(g.children) :
                f.children[a] # g.children[b]
        \/ f.what = "fire"

(* Outcome o follows for an operator of kind c from the given children.    *)
Follows(c, o, children) ==
    /\ \A i \in 1 .. Len(children) :
         children[i] \in 1 .. Len(nodes) /\ nodes[children[i]].index = i - 1
    /\ \E last \in 0 .. Len(children) :
        /\ \A i \in 1 .. last : nodes[children[i]].finished
        /\ \A i \in last + 1 .. Len(children) : Dormant(children[i])
        /\ \A i \in 1 .. last - 1 : Combine(c, nodes[children[i]].outcome) = "none"
        /\ IF last > 0 /\ Combine(c, nodes[children[last]].outcome) # "none"
           THEN o = Combine(c, nodes[children[last]].outcome)
           ELSE last = Len(children) /\ o = IF c = "All" THEN "true" ELSE "false"

NodeInv(n) ==
    /\ \A i \in 1 .. Len(nodes[n].children) : nodes[n].children[i] \in 1 .. Len(nodes)
    /\ nodes[n].started => nodes[n].reason = "None"
    /\ ~nodes[n].started => ~nodes[n].operator /\ ~nodes[n].finished
                            /\ nodes[n].reason = "ShortCircuit"
    /\ nodes[n].finished => nodes[n].outcome # "none" /\ returned[n] = nodes[n].outcome
    /\ ~nodes[n].operator =>
         /\ nodes[n].kind = "Leaf" /\ nodes[n].children = <<>> /\ ~nodes[n].opaque
         /\ operators[n] = 0 /\ answer[n] = "none"
         /\ ~nodes[n].finished => nodes[n].outcome = "none"
    /\ nodes[n].operator /\ ~nodes[n].opaque =>
         /\ n \notin DOMAIN frozen => operators[n] = 1 /\ answer[n] = nodes[n].outcome
         /\ nodes[n].outcome # "none" =>
              \A c, o, children : c = nodes[n].kind /\ o = nodes[n].outcome
                                  /\ children = nodes[n].children => Follows(c, o, children)

Nodes == \A n \in 1 .. Len(nodes) : NodeInv(n)

(* What Fire keeps no longer changes, unless a panic reached it.           *)
Kept(n, v) ==
    /\ v.kind # "Leaf" => operators[n] = 1
    /\ ~panicErr =>
         /\ Settled(n)
         /\ v.outcome = nodes[n].outcome /\ v.index = nodes[n].index
         /\ v.reason = nodes[n].reason
         /\ v.kind # "Leaf" =>
              /\ nodes[n].finished /\ answer[n] = nodes[n].outcome
              /\ Follows(v.kind, v.outcome, v.children)
              /\ \A i \in 1 .. Len(v.children) :
                   \/ v.children[i] \in DOMAIN frozen
                   \/ \E j \in 1 .. Len(todo) : todo[j] = v.children[i]

Copies ==
    /\ Depth(Main) # 0 => todo = <<>> /\ DOMAIN frozen = {}
    /\ \A n \in DOMAIN frozen : \A v : frozen[n] = v => Kept(n, v)
    /\ ~panicErr => \A j \in 1 .. Len(todo) : \A n : todo[j] = n => Settled(n)

StayOut == "condition" \notin intruders

TraceInv == TypeOK /\ Frames /\ Apart /\ Nodes /\ Copies /\ StayOut

-----------------------------------------------------------------------------
(* What the invariant says of the tree that Fire keeps. *)

LEMMA CombineType ==
    ASSUME NEW c \in Operators, NEW o \in Outcomes
    PROVE  Combine(c, o) \in Reports
  BY DEF Combine, Operators, Outcomes, Reports

LEMMA NodeFacts ==
    ASSUME TypeOK
    PROVE  /\ Len(nodes) \in Nat \ {0}
           /\ DOMAIN nodes = 1 .. Len(nodes)
           /\ \A n \in 1 .. Len(nodes) : nodes[n] \in NodeSpace
<1>1. nodes \in Seq(NodeSpace) /\ nodes # <<>>
  BY DEF TypeOK
<1>2. Len(nodes) \in Nat \ {0} /\ DOMAIN nodes = 1 .. Len(nodes)
  BY <1>1
<1>3. \A n \in 1 .. Len(nodes) : nodes[n] \in NodeSpace
  BY <1>1, ElementOfSeq
<1>. QED
  BY <1>2, <1>3

LEMMA ShownFacts ==
    ASSUME TraceInv, NEW n \in DOMAIN nodes, Shown(n)
    PROVE  /\ operators[n] = 1
           /\ ~panicErr =>
                /\ nodes[n].finished /\ answer[n] = nodes[n].outcome
                /\ answer[n] = returned[n] /\ frozen[n].outcome = nodes[n].outcome
                /\ \A c, o, s : c = frozen[n].kind /\ o = frozen[n].outcome
                                /\ s = frozen[n].children =>
                     /\ Follows(c, o, s)
                     /\ \A i \in 1 .. Len(s) : s[i] \in DOMAIN frozen
<1>1. n \in DOMAIN frozen /\ frozen[n].kind # "Leaf" /\ todo = <<>> /\ n \in 1 .. Len(nodes)
  BY NodeFacts DEF Shown, FireDone, TraceInv
<1>2. PICK v : v = frozen[n]
  OBVIOUS
<1>3. Kept(n, v)
  BY <1>1, <1>2 DEF TraceInv, Copies
<1>4. NodeInv(n)
  BY <1>1 DEF TraceInv, Nodes
<1>5. ASSUME ~panicErr PROVE Follows(v.kind, v.outcome, v.children)
  BY <1>1, <1>2, <1>3, <1>5 DEF Kept
<1>6. ASSUME ~panicErr, NEW i \in 1 .. Len(v.children) PROVE v.children[i] \in DOMAIN frozen
  <2>1. Len(todo) = 0
    BY <1>1
  <2>. QED
    BY <1>1, <1>2, <1>3, <1>6, <2>1 DEF Kept
<1>7. operators[n] = 1
  BY <1>1, <1>2, <1>3 DEF Kept
<1>8. ~panicErr => /\ nodes[n].finished /\ answer[n] = nodes[n].outcome
                   /\ answer[n] = returned[n] /\ frozen[n].outcome = nodes[n].outcome
  BY <1>1, <1>2, <1>3, <1>4 DEF Kept, NodeInv
<1>. QED
  BY <1>2, <1>5, <1>6, <1>7, <1>8

LEMMA OneOperatorFollows == TraceInv => OneOperator
  BY ShownFacts DEF OneOperator

LEMMA CopyFacts ==
    ASSUME TraceInv, ~panicErr, NEW m \in DOMAIN frozen
    PROVE  /\ m \in 1 .. Len(nodes)
           /\ frozen[m].outcome = nodes[m].outcome /\ frozen[m].index = nodes[m].index
           /\ frozen[m].reason = nodes[m].reason
           /\ nodes[m].finished => /\ nodes[m].outcome # "none" /\ nodes[m].reason = "None"
                                   /\ nodes[m].outcome = returned[m]
                                   /\ nodes[m].outcome \in Outcomes
           /\ Dormant(m) => nodes[m].outcome = "none" /\ nodes[m].reason = "ShortCircuit"
<1>1. m \in 1 .. Len(nodes)
  BY DEF TraceInv, TypeOK
<1>2. PICK v : v = frozen[m]
  OBVIOUS
<1>3. Kept(m, v)
  BY <1>2 DEF TraceInv, Copies
<1>4. NodeInv(m)
  BY <1>1 DEF TraceInv, Nodes
<1>5. nodes[m] \in NodeSpace
  BY <1>1, NodeFacts DEF TraceInv
<1>6. frozen[m].outcome = nodes[m].outcome /\ frozen[m].index = nodes[m].index
      /\ frozen[m].reason = nodes[m].reason
  BY <1>2, <1>3 DEF Kept
<1>7. nodes[m].outcome \in Reports /\ nodes[m].started \in BOOLEAN
  BY <1>5 DEF NodeSpace
<1>. QED
  BY <1>1, <1>4, <1>6, <1>7 DEF NodeInv, Dormant, Reports

LEMMA TreeFollowsHolds == TraceInv => TreeFollows
<1> SUFFICES ASSUME TraceInv, NEW n \in DOMAIN nodes, Shown(n), ~panicErr
             PROVE  LET kind == frozen[n].kind
                        cs == [i \in DOMAIN frozen[n].children |-> frozen[frozen[n].children[i]]]
                        called == {i \in DOMAIN cs : cs[i].outcome # "none"}
                    IN  \E last \in 0 .. Len(cs) :
                          /\ called = 1 .. last
                          /\ \A i \in 1 .. last - 1 : Combine(kind, cs[i].outcome) = "none"
                          /\ IF last > 0 /\ Combine(kind, cs[last].outcome) # "none"
                             THEN frozen[n].outcome = Combine(kind, cs[last].outcome)
                             ELSE last = Len(cs) /\ frozen[n].outcome =
                                                      IF kind = "All" THEN "true" ELSE "false"
                          /\ \A i \in DOMAIN cs :
                                /\ cs[i].index = i - 1
                                /\ cs[i].reason = IF i \in called THEN "None" ELSE "ShortCircuit"
                                /\ i \in called => cs[i].outcome = returned[frozen[n].children[i]]
  BY ZenonT(30) DEF TreeFollows
<1> DEFINE cs == [i \in DOMAIN frozen[n].children |-> frozen[frozen[n].children[i]]]
<1> DEFINE called == {i \in DOMAIN cs : cs[i].outcome # "none"}
<1>1. PICK kind, out, s : kind = frozen[n].kind /\ out = frozen[n].outcome
                          /\ s = frozen[n].children
  OBVIOUS
<1>2. Follows(kind, out, s) /\ \A i \in 1 .. Len(s) : s[i] \in DOMAIN frozen
  BY <1>1, ShownFacts
<1>3. s \in Seq(Nat) /\ DOMAIN s = 1 .. Len(s) /\ Len(s) \in Nat
  <2>1. n \in DOMAIN frozen /\ frozen \in [DOMAIN frozen -> ViewSpace]
    BY DEF Shown, TraceInv, TypeOK
  <2>2. frozen[n] \in ViewSpace
    BY <2>1
  <2>3. s \in Seq(Nat)
    BY <1>1, <2>2 DEF ViewSpace
  <2>. QED
    BY <2>3
<1>4. DOMAIN cs = 1 .. Len(s) /\ \A i \in 1 .. Len(s) : cs[i] = frozen[s[i]]
  BY <1>1, <1>3
<1>5. Len(cs) = Len(s)
  <2>1. cs \in [1 .. Len(s) -> {frozen[s[i]] : i \in 1 .. Len(s)}]
    BY <1>4
  <2>. QED
    BY <1>3, <1>4, <2>1
<1> HIDE DEF cs
<1>6. PICK last \in 0 .. Len(s) :
        /\ \A i \in 1 .. last : nodes[s[i]].finished
        /\ \A i \in last + 1 .. Len(s) : Dormant(s[i])
        /\ \A i \in 1 .. last - 1 : Combine(kind, nodes[s[i]].outcome) = "none"
        /\ IF last > 0 /\ Combine(kind, nodes[s[last]].outcome) # "none"
           THEN out = Combine(kind, nodes[s[last]].outcome)
           ELSE last = Len(s) /\ out = IF kind = "All" THEN "true" ELSE "false"
  BY <1>2 DEF Follows
<1>7. \A i \in 1 .. Len(s) :
        /\ cs[i].outcome = nodes[s[i]].outcome /\ cs[i].index = nodes[s[i]].index
        /\ cs[i].reason = nodes[s[i]].reason /\ nodes[s[i]].index = i - 1
        /\ nodes[s[i]].finished => /\ nodes[s[i]].outcome # "none" /\ nodes[s[i]].reason = "None"
                                   /\ nodes[s[i]].outcome = returned[s[i]]
        /\ Dormant(s[i]) => nodes[s[i]].outcome = "none" /\ nodes[s[i]].reason = "ShortCircuit"
  <2> SUFFICES ASSUME NEW i \in 1 .. Len(s)
               PROVE  /\ cs[i].outcome = nodes[s[i]].outcome /\ cs[i].index = nodes[s[i]].index
                      /\ cs[i].reason = nodes[s[i]].reason /\ nodes[s[i]].index = i - 1
                      /\ nodes[s[i]].finished =>
                           /\ nodes[s[i]].outcome # "none" /\ nodes[s[i]].reason = "None"
                           /\ nodes[s[i]].outcome = returned[s[i]]
                      /\ Dormant(s[i]) => /\ nodes[s[i]].outcome = "none"
                                          /\ nodes[s[i]].reason = "ShortCircuit"
    OBVIOUS
  <2>1. PICK m : m = s[i]
    OBVIOUS
  <2>2. m \in DOMAIN frozen /\ cs[i] = frozen[m] /\ nodes[m].index = i - 1
    BY <1>2, <1>4, <2>1 DEF Follows
  <2>3. Dormant(m) <=> Dormant(s[i])
    BY <2>1 DEF Dormant, Owned
  <2>. QED
    BY <2>1, <2>2, <2>3, CopyFacts
<1>8. \A i \in 1 .. Len(s) : i \in 1 .. last <=> cs[i].outcome # "none"
  <2> SUFFICES ASSUME NEW i \in 1 .. Len(s)
               PROVE  i \in 1 .. last <=> cs[i].outcome # "none"
    OBVIOUS
  <2>1. i \in 1 .. last \/ i \in last + 1 .. Len(s)
    BY <1>3
  <2>2. i \in last + 1 .. Len(s) => i \notin 1 .. last
    BY <1>3
  <2>. QED
    BY <1>6, <1>7, <2>1, <2>2
<1>9. called = 1 .. last
  <2>1. \A i : i \in called <=> i \in 1 .. Len(s) /\ cs[i].outcome # "none"
    BY <1>4
  <2>2. \A i \in 1 .. last : i \in 1 .. Len(s)
    BY <1>3
  <2>. QED
    BY <1>8, <2>1, <2>2
<1> HIDE DEF called
<1>10. \A i \in 1 .. last - 1 : Combine(kind, cs[i].outcome) = "none"
  <2>1. \A i \in 1 .. last - 1 : i \in 1 .. Len(s)
    BY <1>3
  <2>. QED
    BY <1>6, <1>7, <2>1
<1>11. IF last > 0 /\ Combine(kind, cs[last].outcome) # "none"
       THEN out = Combine(kind, cs[last].outcome)
       ELSE last = Len(s) /\ out = IF kind = "All" THEN "true" ELSE "false"
  <2>1. last > 0 => last \in 1 .. Len(s) /\ cs[last].outcome = nodes[s[last]].outcome
    BY <1>3, <1>7
  <2>. QED
    BY <1>6, <2>1
<1>12. \A i \in 1 .. Len(s) :
         /\ cs[i].index = i - 1
         /\ cs[i].reason = IF i \in called THEN "None" ELSE "ShortCircuit"
         /\ i \in called => cs[i].outcome = returned[s[i]]
  <2> SUFFICES ASSUME NEW i \in 1 .. Len(s)
               PROVE  /\ cs[i].index = i - 1
                      /\ cs[i].reason = IF i \in called THEN "None" ELSE "ShortCircuit"
                      /\ i \in called => cs[i].outcome = returned[s[i]]
    OBVIOUS
  <2>1. CASE i \in 1 .. last
    BY <1>6, <1>7, <1>9, <2>1
  <2>2. CASE i \notin 1 .. last
    <3>1. i \in last + 1 .. Len(s)
      BY <1>3, <2>2
    <3>. QED
      BY <1>6, <1>7, <1>9, <2>2, <3>1
  <2>. QED
    BY <2>1, <2>2
<1>13. \E l \in 0 .. Len(cs) :
         /\ called = 1 .. l
         /\ \A i \in 1 .. l - 1 : Combine(frozen[n].kind, cs[i].outcome) = "none"
         /\ IF l > 0 /\ Combine(frozen[n].kind, cs[l].outcome) # "none"
            THEN frozen[n].outcome = Combine(frozen[n].kind, cs[l].outcome)
            ELSE l = Len(cs) /\ frozen[n].outcome =
                                  IF frozen[n].kind = "All" THEN "true" ELSE "false"
         /\ \A i \in DOMAIN cs :
              /\ cs[i].index = i - 1
              /\ cs[i].reason = IF i \in called THEN "None" ELSE "ShortCircuit"
              /\ i \in called => cs[i].outcome = returned[frozen[n].children[i]]
  <2>1. last \in 0 .. Len(cs)
    BY <1>5
  <2> USE <2>1
  <2> WITNESS last \in 0 .. Len(cs)
  <2>. QED
    BY <1>1, <1>4, <1>5, <1>9, <1>10, <1>11, <1>12
<1>. QED
  BY <1>13 DEF cs, called

-----------------------------------------------------------------------------
(* Stacks. *)

LEMMA AtFacts ==
    ASSUME TypeOK, NEW t, NEW k, NEW f, At(t, k, f)
    PROVE  /\ t \in Threads /\ k \in 1 .. Depth(t) /\ Depth(t) \in Nat
           /\ f \in FrameSpace /\ f.what \in {"callback", "operator", "fire"}
           /\ f.what = "callback" => f \in CallbackSpace
           /\ f.what = "operator" => f \in OperatorSpace
           /\ f.what = "fire" => f \in FireSpace
           /\ \A g : At(t, k, g) => g = f
<1>1. stack[t] \in Seq(FrameSpace) /\ t \in Threads
  BY DEF TypeOK, At
<1>2. k \in 1 .. Depth(t) /\ Depth(t) \in Nat /\ stack[t][k] = f
  BY <1>1 DEF At, Depth
<1>3. f \in FrameSpace
  BY <1>1, <1>2, ElementOfSeq DEF Depth
<1>4. f.what \in {"callback", "operator", "fire"}
  BY <1>3 DEF FrameSpace, CallbackSpace, OperatorSpace, FireSpace
<1>5. /\ f.what = "callback" => f \in CallbackSpace
      /\ f.what = "operator" => f \in OperatorSpace
      /\ f.what = "fire" => f \in FireSpace
  BY <1>3 DEF FrameSpace, CallbackSpace, OperatorSpace, FireSpace
<1>. QED
  BY <1>1, <1>2, <1>3, <1>4, <1>5 DEF At

LEMMA TopFacts ==
    ASSUME TypeOK, NEW t \in Threads, Running(t)
    PROVE  /\ At(t, Depth(t), Top(t)) /\ Depth(t) \in Nat \ {0}
           /\ Depth(t) > 1 => At(t, Depth(t) - 1, Below(t))
<1>1. stack[t] \in Seq(FrameSpace) /\ stack[t] # <<>>
  BY DEF TypeOK, Running
<1>2. Depth(t) \in Nat \ {0}
  BY <1>1 DEF Depth
<1>. QED
  BY <1>2 DEF At, Top, Below, Depth

LEMMA StackAt ==
    ASSUME TypeOK, NEW t \in Threads, NEW s \in Seq(FrameSpace), stack' = [stack EXCEPT ![t] = s]
    PROVE  /\ stack' \in [Threads -> Seq(FrameSpace)]
           /\ \A u \in Threads : Depth(u)' = IF u = t THEN Len(s) ELSE Depth(u)
           /\ \A u, k, f : At(u, k, f)' <=> IF u = t THEN k \in 1 .. Len(s) /\ s[k] = f
                                            ELSE At(u, k, f)
<1>1. stack \in [Threads -> Seq(FrameSpace)]
  BY DEF TypeOK
<1>2. \A u \in Threads : stack'[u] = IF u = t THEN s ELSE stack[u]
  BY <1>1
<1>3. stack' \in [Threads -> Seq(FrameSpace)]
  BY <1>1
<1>. QED
  BY <1>2, <1>3 DEF At, Depth

LEMMA PushAt ==
    ASSUME TypeOK, NEW t \in Threads, NEW e \in FrameSpace, Push(t, e)
    PROVE  /\ stack' \in [Threads -> Seq(FrameSpace)] /\ Depth(t) \in Nat
           /\ \A u \in Threads : Depth(u)' = IF u = t THEN Depth(t) + 1 ELSE Depth(u)
           /\ \A u, k, f : At(u, k, f)' <=>
                At(u, k, f) \/ (u = t /\ k = Depth(t) + 1 /\ f = e)
<1>1. PICK s \in Seq(FrameSpace) : s = stack[t]
  BY DEF TypeOK
<1>2. Len(s) \in Nat /\ Len(s) = Depth(t)
  BY <1>1 DEF Depth
<1>3. PICK r : r = Append(s, e)
  OBVIOUS
<1>4. /\ r \in Seq(FrameSpace) /\ Len(r) = Len(s) + 1
      /\ \A k \in 1 .. Len(s) : r[k] = s[k]
      /\ r[Len(s) + 1] = e
  BY <1>3
<1>5. stack' = [stack EXCEPT ![t] = r]
  BY <1>1, <1>3 DEF Push
<1>6. /\ stack' \in [Threads -> Seq(FrameSpace)]
      /\ \A u \in Threads : Depth(u)' = IF u = t THEN Len(r) ELSE Depth(u)
      /\ \A u, k, f : At(u, k, f)' <=> IF u = t THEN k \in 1 .. Len(r) /\ r[k] = f
                                       ELSE At(u, k, f)
  BY <1>4, <1>5, StackAt
<1>7. ASSUME NEW k, NEW f
      PROVE  At(t, k, f)' <=> At(t, k, f) \/ (k = Depth(t) + 1 /\ f = e)
  <2>1. At(t, k, f) <=> k \in 1 .. Len(s) /\ s[k] = f
    BY <1>1 DEF At
  <2>2. At(t, k, f)' <=> k \in 1 .. Len(r) /\ r[k] = f
    BY <1>6
  <2>3. k \in 1 .. Len(r) <=> k \in 1 .. Len(s) \/ k = Len(s) + 1
    BY <1>2, <1>4
  <2>. QED
    BY <1>2, <1>4, <2>1, <2>2, <2>3
<1>. QED
  BY <1>2, <1>4, <1>6, <1>7

LEMMA Prefix ==
    ASSUME NEW S, NEW s \in Seq(S), NEW d \in 0 .. Len(s)
    PROVE  /\ SubSeq(s, 1, d) \in Seq(S) /\ Len(SubSeq(s, 1, d)) = d
           /\ \A k \in 1 .. d : SubSeq(s, 1, d)[k] = s[k]
<1>1. Len(s) \in Nat /\ d \in Nat /\ \A k \in 1 .. d : k \in 1 .. Len(s)
  OBVIOUS
<1>2. 1 \in Int /\ d \in Int /\ \A i \in 1 .. d : s[i] \in S
  BY <1>1, ElementOfSeq
<1> DEFINE p == SubSeq(s, 1, d)
<1>3. /\ p \in Seq(S)
      /\ Len(p) = IF 1 <= d THEN d - 1 + 1 ELSE 0
      /\ \A i \in 1 .. d - 1 + 1 : p[i] = s[1 + i - 1]
  BY <1>2, SubSeqProperties
<1> HIDE DEF p
<1>4. Len(p) = d
  BY <1>1, <1>3
<1>5. ASSUME NEW k \in 1 .. d PROVE p[k] = s[k]
  <2>1. k \in 1 .. d - 1 + 1 /\ 1 + k - 1 = k
    BY <1>1
  <2>. QED
    BY <1>3, <2>1
<1>6. p \in Seq(S) /\ Len(p) = d /\ \A k \in 1 .. d : p[k] = s[k]
  BY <1>3, <1>4, <1>5
<1>. QED
  BY <1>6 DEF p

LEMMA CutAt ==
    ASSUME TypeOK, NEW t \in Threads, NEW d \in 0 .. Depth(t),
           stack' = [stack EXCEPT ![t] = SubSeq(@, 1, d)]
    PROVE  /\ stack' \in [Threads -> Seq(FrameSpace)] /\ Depth(t) \in Nat
           /\ \A u \in Threads : Depth(u)' = IF u = t THEN d ELSE Depth(u)
           /\ \A u, k, f : At(u, k, f)' <=> At(u, k, f) /\ (u = t => k \in 1 .. d)
<1>1. PICK s \in Seq(FrameSpace) : s = stack[t]
  BY DEF TypeOK
<1>2. Len(s) \in Nat /\ Len(s) = Depth(t) /\ d \in 0 .. Len(s)
  BY <1>1 DEF Depth
<1>3. PICK r : r = SubSeq(s, 1, d)
  OBVIOUS
<1>4. /\ r \in Seq(FrameSpace) /\ Len(r) = d
      /\ \A k \in 1 .. d : r[k] = s[k]
  BY <1>2, <1>3, Prefix
<1>5. stack' = [stack EXCEPT ![t] = r]
  BY <1>1, <1>3
<1>6. /\ stack' \in [Threads -> Seq(FrameSpace)]
      /\ \A u \in Threads : Depth(u)' = IF u = t THEN Len(r) ELSE Depth(u)
      /\ \A u, k, f : At(u, k, f)' <=> IF u = t THEN k \in 1 .. Len(r) /\ r[k] = f
                                       ELSE At(u, k, f)
  BY <1>4, <1>5, StackAt
<1>7. ASSUME NEW k, NEW f
      PROVE  At(t, k, f)' <=> At(t, k, f) /\ k \in 1 .. d
  <2>1. At(t, k, f) <=> k \in 1 .. Len(s) /\ s[k] = f
    BY <1>1 DEF At
  <2>2. At(t, k, f)' <=> k \in 1 .. Len(r) /\ r[k] = f
    BY <1>6
  <2>3. k \in 1 .. d => k \in 1 .. Len(s)
    BY <1>2
  <2>. QED
    BY <1>4, <2>1, <2>2, <2>3
<1>. QED
  BY <1>2, <1>4, <1>6, <1>7

(* The topmost frame goes and the one below it becomes e. *)
LEMMA SwapAt ==
    ASSUME TypeOK, NEW t \in Threads, NEW e \in FrameSpace, NEW d \in Nat \ {0},
           Depth(t) = d + 1, stack' = [stack EXCEPT ![t] = [Pop(stack[t]) EXCEPT ![d] = e]]
    PROVE  /\ stack' \in [Threads -> Seq(FrameSpace)]
           /\ \A u \in Threads : Depth(u)' = IF u = t THEN d ELSE Depth(u)
           /\ \A u, k, f : At(u, k, f)' <=>
                \/ At(u, k, f) /\ (u = t => k \in 1 .. d - 1)
                \/ u = t /\ k = d /\ f = e
<1>1. PICK s \in Seq(FrameSpace) : s = stack[t]
  BY DEF TypeOK
<1>2. Len(s) = d + 1 /\ d \in 0 .. Len(s) /\ Len(s) - 1 = d
  BY <1>1 DEF Depth
<1>3. PICK r : r = SubSeq(s, 1, d)
  OBVIOUS
<1>4. /\ r \in Seq(FrameSpace) /\ Len(r) = d
      /\ \A k \in 1 .. d : r[k] = s[k]
  BY <1>2, <1>3, Prefix
<1>5. PICK q : q = [r EXCEPT ![d] = e]
  OBVIOUS
<1>6. d \in 1 .. Len(r)
  BY <1>4
<1>7. /\ q \in Seq(FrameSpace) /\ Len(q) = d
      /\ \A k \in 1 .. d : q[k] = IF k = d THEN e ELSE r[k]
  BY <1>4, <1>5, <1>6, ExceptSeq
<1>8. stack' = [stack EXCEPT ![t] = q]
  BY <1>1, <1>2, <1>3, <1>5 DEF Pop
<1>9. /\ stack' \in [Threads -> Seq(FrameSpace)]
      /\ \A u \in Threads : Depth(u)' = IF u = t THEN Len(q) ELSE Depth(u)
      /\ \A u, k, f : At(u, k, f)' <=> IF u = t THEN k \in 1 .. Len(q) /\ q[k] = f
                                       ELSE At(u, k, f)
  BY <1>7, <1>8, StackAt
<1>10. ASSUME NEW k, NEW f
       PROVE  At(t, k, f)' <=> (At(t, k, f) /\ k \in 1 .. d - 1) \/ (k = d /\ f = e)
  <2>1. At(t, k, f) <=> k \in 1 .. Len(s) /\ s[k] = f
    BY <1>1 DEF At
  <2>2. At(t, k, f)' <=> k \in 1 .. d /\ q[k] = f
    BY <1>7, <1>9
  <2>3. CASE k \in 1 .. d - 1
    <3>1. k \in 1 .. d /\ k \in 1 .. Len(s) /\ k # d
      BY <1>2, <2>3
    <3>. QED
      BY <1>4, <1>7, <2>1, <2>2, <2>3, <3>1
  <2>4. CASE k = d
    BY <1>7, <2>1, <2>2, <2>4
  <2>5. CASE k \notin 1 .. d
    BY <2>2, <2>5
  <2>. QED
    BY <2>3, <2>4, <2>5
<1>. QED
  BY <1>7, <1>9, <1>10

-----------------------------------------------------------------------------
(* Every step grows the recordings: what has finished stays as it is, what *)
(* is dormant stays dormant.                                               *)
Grows ==
    /\ Len(nodes) <= Len(nodes')
    /\ \A n \in 1 .. Len(nodes) :
         /\ nodes'[n].index = nodes[n].index
         /\ nodes[n].started => nodes'[n].started
         /\ nodes[n].finished =>
              /\ nodes'[n].finished /\ nodes'[n].outcome = nodes[n].outcome
              /\ nodes'[n].reason = nodes[n].reason /\ returned'[n] = returned[n]
         /\ Dormant(n) =>
              /\ Dormant(n)' /\ nodes'[n].outcome = nodes[n].outcome
              /\ nodes'[n].reason = nodes[n].reason

LEMMA OwnedKept ==
    ASSUME NEW n \in 1 .. Len(nodes), ~Owned(n),
           \A t, k, f : At(t, k, f)' /\ f.what = "operator" =>
             \/ \E u, j, g : At(u, j, g) /\ g.what = "operator" /\ g.children = f.children
             \/ \A i \in 1 .. Len(f.children) : f.children[i] \notin 1 .. Len(nodes)
    PROVE  ~Owned(n)'
<1> SUFFICES ASSUME NEW t, NEW k, NEW f, At(t, k, f)', f.what = "operator",
                    NEW i \in 1 .. Len(f.children), f.children[i] = n
             PROVE  FALSE
  BY DEF Owned
<1>1. PICK u, j, g : At(u, j, g) /\ g.what = "operator" /\ g.children = f.children
  OBVIOUS
<1>. QED
  BY <1>1 DEF Owned

LEMMA FollowsKept ==
    ASSUME TypeOK, TypeOK', Grows, NEW c, NEW o, NEW children, Follows(c, o, children)
    PROVE  Follows(c, o, children)'
<1>0. Len(nodes) \in Nat /\ Len(nodes') \in Nat /\ Len(nodes) <= Len(nodes')
  BY DEF TypeOK, Grows
<1>1. ASSUME NEW i \in 1 .. Len(children)
      PROVE  /\ children[i] \in 1 .. Len(nodes) /\ nodes[children[i]].index = i - 1
             /\ children[i] \in 1 .. Len(nodes') /\ nodes'[children[i]].index = i - 1
             /\ nodes[children[i]].finished =>
                  /\ nodes'[children[i]].finished
                  /\ nodes'[children[i]].outcome = nodes[children[i]].outcome
             /\ Dormant(children[i]) => Dormant(children[i])'
  <2>1. children[i] \in 1 .. Len(nodes) /\ nodes[children[i]].index = i - 1
    BY DEF Follows
  <2>2. PICK n \in 1 .. Len(nodes) : n = children[i]
    BY <2>1
  <2>3. /\ nodes'[n].index = nodes[n].index
        /\ nodes[n].finished => nodes'[n].finished /\ nodes'[n].outcome = nodes[n].outcome
        /\ Dormant(n) => Dormant(n)'
    BY DEF Grows
  <2>4. n \in 1 .. Len(nodes')
    BY <1>0
  <2>5. (Dormant(n) <=> Dormant(children[i])) /\ (Dormant(n)' <=> Dormant(children[i])')
    BY <2>2 DEF Dormant, Owned
  <2>. QED
    BY <2>1, <2>2, <2>3, <2>4, <2>5
<1>2. PICK last \in 0 .. Len(children) :
        /\ \A i \in 1 .. last : nodes[children[i]].finished
        /\ \A i \in last + 1 .. Len(children) : Dormant(children[i])
        /\ \A i \in 1 .. last - 1 : Combine(c, nodes[children[i]].outcome) = "none"
        /\ IF last > 0 /\ Combine(c, nodes[children[last]].outcome) # "none"
           THEN o = Combine(c, nodes[children[last]].outcome)
           ELSE last = Len(children) /\ o = IF c = "All" THEN "true" ELSE "false"
  BY DEF Follows
<1>3. \A i \in 1 .. last : i \in 1 .. Len(children)
  BY <1>2
<1>4. \A i \in 1 .. last : /\ nodes'[children[i]].finished
                           /\ nodes'[children[i]].outcome = nodes[children[i]].outcome
  BY <1>1, <1>2, <1>3
<1>5. \A i \in last + 1 .. Len(children) : Dormant(children[i])'
  <2>1. \A i \in last + 1 .. Len(children) : i \in 1 .. Len(children)
    BY <1>2
  <2>. QED
    BY <1>1, <1>2, <2>1
<1>6. \A i \in 1 .. last - 1 : Combine(c, nodes'[children[i]].outcome) = "none"
  <2>1. \A i \in 1 .. last - 1 : i \in 1 .. last
    BY <1>2
  <2>. QED
    BY <1>2, <1>4, <2>1
<1>7. IF last > 0 /\ Combine(c, nodes'[children[last]].outcome) # "none"
      THEN o = Combine(c, nodes'[children[last]].outcome)
      ELSE last = Len(children) /\ o = IF c = "All" THEN "true" ELSE "false"
  <2>1. last > 0 => last \in 1 .. last
    BY <1>2
  <2>. QED
    BY <1>2, <1>4, <2>1
<1>. QED
  BY <1>1, <1>4, <1>5, <1>6, <1>7 DEF Follows

LEMMA NodeKept ==
    ASSUME TypeOK, TypeOK', Grows, NEW n \in 1 .. Len(nodes), NodeInv(n), nodes'[n] = nodes[n],
           operators'[n] = operators[n], answer'[n] = answer[n],
           DOMAIN frozen \subseteq DOMAIN frozen'
    PROVE  NodeInv(n)'
<1>0. Len(nodes) \in Nat /\ Len(nodes') \in Nat /\ Len(nodes) <= Len(nodes')
  BY DEF TypeOK, Grows
<1>1. \A i \in 1 .. Len(nodes[n].children) : nodes[n].children[i] \in 1 .. Len(nodes')
  BY <1>0 DEF NodeInv
<1>2. nodes[n].finished => returned'[n] = returned[n]
  BY DEF Grows
<1>3. ASSUME nodes[n].operator, ~nodes[n].opaque, nodes[n].outcome # "none",
             NEW c, NEW o, NEW children, c = nodes[n].kind, o = nodes[n].outcome,
             children = nodes[n].children
      PROVE  Follows(c, o, children)'
  <2>1. Follows(c, o, children)
    BY <1>3 DEF NodeInv
  <2>. QED
    BY <2>1, FollowsKept
<1>. QED
  BY <1>1, <1>2, <1>3 DEF NodeInv

LEMMA SettledKept ==
    ASSUME Grows, NEW n \in 1 .. Len(nodes), Settled(n)
    PROVE  /\ Settled(n)' /\ nodes'[n].outcome = nodes[n].outcome
           /\ nodes'[n].reason = nodes[n].reason /\ nodes'[n].index = nodes[n].index
  BY DEF Grows, Settled

LEMMA CopiesKept ==
    ASSUME TypeOK, TypeOK', Grows, Copies, UNCHANGED <<frozen, todo, panicErr>>,
           Depth(Main)' # 0 => Depth(Main) # 0,
           \A n \in DOMAIN frozen : operators'[n] = operators[n] /\ answer'[n] = answer[n]
    PROVE  Copies'
<1>1. Depth(Main)' # 0 => todo' = <<>> /\ DOMAIN frozen' = {}
  BY DEF Copies
<1>2. ASSUME NEW n \in DOMAIN frozen, NEW v, frozen[n] = v PROVE Kept(n, v)'
  <2>1. Kept(n, v) /\ n \in 1 .. Len(nodes)
    BY <1>2 DEF Copies, TypeOK
  <2>2. operators'[n] = operators[n] /\ answer'[n] = answer[n]
    OBVIOUS
  <2>3. Settled(n) => /\ Settled(n)' /\ nodes'[n].outcome = nodes[n].outcome
                      /\ nodes'[n].reason = nodes[n].reason /\ nodes'[n].index = nodes[n].index
    BY <2>1, SettledKept
  <2>4. nodes[n].finished => nodes'[n].finished
    BY <2>1 DEF Grows
  <2>5. ASSUME NEW c, NEW o, NEW s, Follows(c, o, s) PROVE Follows(c, o, s)'
    BY <2>5, FollowsKept
  <2>. QED
    BY <2>1, <2>2, <2>3, <2>4, <2>5 DEF Kept
<1>3. ASSUME ~panicErr, NEW j \in 1 .. Len(todo), NEW n, todo[j] = n PROVE Settled(n)'
  <2>1. Settled(n) /\ n \in 1 .. Len(nodes)
    BY <1>3, ElementOfSeq DEF Copies, TypeOK
  <2>. QED
    BY <2>1, SettledKept
<1>. QED
  BY <1>1, <1>2, <1>3 DEF Copies

(* What a frame other than those a step moves must keep. *)
Undisturbed(g) ==
    /\ g.what = "callback" /\ g.node # NoNode => ~nodes'[g.node].finished
    /\ g.what = "operator" => ClaimInv(g)'
    /\ g.what = "operator" => \A i \in 1 .. Len(g.children) :
         ~nodes[g.children[i]].started => ~nodes'[g.children[i]].started

(* A frame that stays where it is. *)
LEMMA FrameKept ==
    ASSUME TypeOK, TypeOK', Frames, Grows, NEW t, NEW k, NEW f, At(t, k, f),
           Undisturbed(f),
           f.what = "callback" =>
             \A g : At(t, k - 1, g)' => \E h : At(t, k - 1, h) /\ h.what = g.what,
           f.what = "operator" => \A g : At(t, k + 1, g)' => At(t, k + 1, g),
           f.what = "operator" /\ k = Depth(t)' => k = Depth(t)
    PROVE  /\ k = 1 => f.what = "callback"
           /\ f.what = "callback" => CallbackInv(t, k, f)'
           /\ f.what = "operator" => OperatorInv(t, k, f)' /\ ClaimInv(f)'
<1>0. Len(nodes) \in Nat /\ Len(nodes') \in Nat /\ Len(nodes) <= Len(nodes')
  BY DEF TypeOK, Grows
<1>1. k = 1 => f.what = "callback"
  BY DEF Frames
<1>2. ASSUME f.what = "callback" PROVE CallbackInv(t, k, f)'
  <2>1. CallbackInv(t, k, f) /\ f.node \in Nat
    BY <1>2, AtFacts DEF Frames, CallbackSpace
  <2>2. f.node # NoNode => nodes[f.node].started /\ f.node \in 1 .. Len(nodes)
    BY <1>0, <2>1 DEF CallbackInv, NoNode
  <2>3. f.node # NoNode => nodes'[f.node].started
    BY <2>2 DEF Grows
  <2>4. f.node \in 0 .. Len(nodes')
    BY <1>0, <2>1 DEF CallbackInv
  <2>. QED
    BY <1>2, <2>1, <2>3, <2>4 DEF CallbackInv, Undisturbed
<1>3. ASSUME f.what = "operator" PROVE OperatorInv(t, k, f)'
  <2>1. OperatorInv(t, k, f) /\ f \in OperatorSpace
    BY <1>3, AtFacts DEF Frames
  <2>2. f.next \in Nat /\ f.children \in Seq(Nat) /\ Len(f.children) \in Nat
    BY <2>1 DEF OperatorSpace
  <2>3. ASSUME NEW i \in 1 .. Len(f.children)
        PROVE  /\ f.children[i] \in 1 .. Len(nodes') /\ nodes'[f.children[i]].index = i - 1
               /\ nodes[f.children[i]].finished =>
                    /\ nodes'[f.children[i]].finished
                    /\ nodes'[f.children[i]].outcome = nodes[f.children[i]].outcome
               /\ ~nodes[f.children[i]].started => ~nodes'[f.children[i]].started
    <3>1. f.children[i] \in 1 .. Len(nodes) /\ nodes[f.children[i]].index = i - 1
      BY <2>1 DEF OperatorInv
    <3>. QED
      BY <1>0, <1>3, <3>1 DEF Grows, Undisturbed
  <2>4. f.on \in 1 .. Len(nodes') /\ nodes'[f.on].started
    BY <1>0, <2>1 DEF OperatorInv, Grows
  <2>5. f.next \in 1 .. Len(f.children) + 1
    BY <2>1 DEF OperatorInv
  <2>6. ASSUME NEW i \in 1 .. f.next - 1
        PROVE  /\ nodes'[f.children[i]].finished
               /\ nodes'[f.children[i]].outcome = nodes[f.children[i]].outcome
    <3>1. i \in 1 .. Len(f.children) /\ nodes[f.children[i]].finished
      BY <2>1, <2>2, <2>5 DEF OperatorInv
    <3>. QED
      BY <2>3, <3>1
  <2>7. \A i \in 1 .. f.next - 2 : Combine(f.kind, nodes'[f.children[i]].outcome) = "none"
    <3>1. \A i \in 1 .. f.next - 2 : i \in 1 .. f.next - 1
      BY <2>2
    <3>. QED
      BY <2>1, <2>6, <3>1 DEF OperatorInv
  <2>8. f.outcome = IF f.next = 1 THEN "none"
                    ELSE Combine(f.kind, nodes'[f.children[f.next - 1]].outcome)
    <3>1. f.next # 1 => f.next - 1 \in 1 .. f.next - 1
      BY <2>5
    <3>. QED
      BY <2>1, <2>6, <3>1 DEF OperatorInv
  <2>9. \A i \in f.next + 1 .. Len(f.children) : ~nodes'[f.children[i]].started
    <3>1. \A i \in f.next + 1 .. Len(f.children) : i \in 1 .. Len(f.children)
      BY <2>5
    <3>. QED
      BY <2>1, <2>3, <3>1 DEF OperatorInv
  <2>10. k = Depth(t)' /\ f.next <= Len(f.children) => ~nodes'[f.children[f.next]].started
    <3>1. f.next <= Len(f.children) => f.next \in 1 .. Len(f.children)
      BY <2>2, <2>5
    <3>. QED
      BY <1>3, <2>1, <2>3, <3>1 DEF OperatorInv
  <2>11. \A g : At(t, k + 1, g)' =>
           /\ g.what = "callback" /\ g.role = "own"
           /\ f.next <= Len(f.children) /\ f.outcome = "none" /\ g.node = f.children[f.next]
    BY <1>3, <2>1 DEF OperatorInv
  <2>12. \A i, j \in 1 .. Len(f.children) : f.children[i] = f.children[j] => i = j
    BY <2>1 DEF OperatorInv
  <2>13. \A i \in 1 .. f.next - 1 : nodes'[f.children[i]].finished
    BY <2>6
  <2>14. \A i \in 1 .. Len(f.children) :
           f.children[i] \in 1 .. Len(nodes') /\ nodes'[f.children[i]].index = i - 1
    BY <2>3
  <2>. QED
    BY <2>4, <2>5, <2>7, <2>8, <2>9, <2>10, <2>11, <2>12, <2>13, <2>14 DEF OperatorInv
<1>. QED
  BY <1>1, <1>2, <1>3 DEF Undisturbed

LEMMA QuietGrows ==
    ASSUME TypeOK, nodes' = nodes,
           \A n \in 1 .. Len(nodes) : nodes[n].finished => returned'[n] = returned[n],
           \A t, k, f : At(t, k, f)' /\ f.what = "operator" =>
             \E u, j, g : At(u, j, g) /\ g.what = "operator" /\ g.children = f.children
    PROVE  Grows
<1>1. Len(nodes) \in Nat
  BY DEF TypeOK
<1>2. \A n \in 1 .. Len(nodes) : Dormant(n) => Dormant(n)'
  BY OwnedKept DEF Dormant
<1>. QED
  BY <1>1, <1>2 DEF Grows

LEMMA NodesKept ==
    ASSUME TypeOK, TypeOK', Nodes, Grows, nodes' = nodes, UNCHANGED <<operators, answer>>,
           DOMAIN frozen \subseteq DOMAIN frozen'
    PROVE  Nodes'
  BY NodeKept DEF Nodes

LEMMA ApartCut ==
    ASSUME Apart, \A t, k, f : At(t, k, f)' => At(t, k, f),
           \A t, k, f : At(t, k, f) /\ f.what = "operator" /\ nodes[f.on].opaque =>
             nodes'[f.on].opaque
    PROVE  Apart'
<1> SUFFICES ASSUME NEW t, NEW k, NEW f, NEW u, NEW j, NEW g,
                    At(t, k, f)', At(u, j, g)', f.what = g.what
             PROVE  \/ t = u /\ k = j
                    \/ f.what = "callback" /\ (f.node = g.node => f.node = NoNode)
                    \/ /\ f.what = "operator"
                       /\ f.on = g.on => nodes'[f.on].opaque
                       /\ \A a \in 1 .. Len(f.children), b \in 1 .. Len(g.children) :
                            f.children[a] # g.children[b]
                    \/ f.what = "fire"
  BY DEF Apart
<1>1. At(t, k, f) /\ At(u, j, g)
  OBVIOUS
<1>. QED
  BY <1>1 DEF Apart

(* Frame e, new at d on t, shares nothing with any other. *)
Lone(t, d, e) ==
    \A u, j, g : At(u, j, g) /\ ~(u = t /\ j = d) /\ g.what = e.what =>
        \/ e.what = "callback" /\ (e.node = g.node => e.node = NoNode)
        \/ /\ e.what = "operator"
           /\ e.on = g.on => nodes'[e.on].opaque
           /\ \A a \in 1 .. Len(e.children), b \in 1 .. Len(g.children) :
                e.children[a] # g.children[b]
        \/ e.what = "fire"

LEMMA ApartKept ==
    ASSUME Apart, NEW t0, NEW d, NEW e, Lone(t0, d, e),
           \A t, k, f : At(t, k, f)' =>
             (At(t, k, f) /\ ~(t = t0 /\ k = d)) \/ (t = t0 /\ k = d /\ f = e),
           \A t, k, f : At(t, k, f) /\ f.what = "operator" /\ nodes[f.on].opaque =>
             nodes'[f.on].opaque
    PROVE  Apart'
<1> SUFFICES ASSUME NEW t, NEW k, NEW f, NEW u, NEW j, NEW g,
                    At(t, k, f)', At(u, j, g)', f.what = g.what, ~(t = u /\ k = j)
             PROVE  \/ f.what = "callback" /\ (f.node = g.node => f.node = NoNode)
                    \/ /\ f.what = "operator"
                       /\ f.on = g.on => nodes'[f.on].opaque
                       /\ \A a \in 1 .. Len(f.children), b \in 1 .. Len(g.children) :
                            f.children[a] # g.children[b]
                    \/ f.what = "fire"
  BY DEF Apart
<1>1. CASE At(t, k, f) /\ At(u, j, g)
  BY <1>1 DEF Apart
<1>2. CASE f = e /\ At(u, j, g) /\ ~(u = t0 /\ j = d)
  BY <1>2 DEF Lone
<1>3. CASE g = e /\ At(t, k, f) /\ ~(t = t0 /\ k = d)
  BY <1>3 DEF Lone
<1>. QED
  BY <1>1, <1>2, <1>3

LEMMA FramesPush ==
    ASSUME TypeOK, TypeOK', Frames, Grows, NEW t0 \in Threads, NEW e \in FrameSpace, Push(t0, e),
           \A f : At(t0, Depth(t0), f) => f.what # "operator",
           \A t, k, f : At(t, k, f) => Undisturbed(f),
           NEW d, d = Depth(t0) + 1,
           /\ d = 1 => e.what = "callback"
           /\ e.what = "callback" => CallbackInv(t0, d, e)'
           /\ e.what = "operator" => OperatorInv(t0, d, e)' /\ ClaimInv(e)'
    PROVE  Frames'
<1>1. /\ Depth(t0) \in Nat
      /\ \A u \in Threads : Depth(u)' = IF u = t0 THEN Depth(t0) + 1 ELSE Depth(u)
      /\ \A u, k, f : At(u, k, f)' <=> At(u, k, f) \/ (u = t0 /\ k = d /\ f = e)
  BY PushAt
<1>2. ASSUME NEW t, NEW k, NEW f, At(t, k, f)
      PROVE  /\ k = 1 => f.what = "callback"
             /\ f.what = "callback" => CallbackInv(t, k, f)'
             /\ f.what = "operator" => OperatorInv(t, k, f)' /\ ClaimInv(f)'
  <2>1. t \in Threads /\ k \in 1 .. Depth(t) /\ Depth(t) \in Nat
    BY <1>2, AtFacts
  <2>2. k - 1 # d \/ t # t0
    BY <1>1, <2>1
  <2>3. \A g : At(t, k - 1, g)' => At(t, k - 1, g)
    BY <1>1, <2>2
  <2>4. ASSUME f.what = "operator" PROVE ~(t = t0 /\ k + 1 = d)
    <3>1. t = t0 /\ k + 1 = d => k = Depth(t0)
      BY <1>1, <2>1
    <3>. QED
      BY <1>2, <2>4, <3>1
  <2>5. f.what = "operator" => \A g : At(t, k + 1, g)' => At(t, k + 1, g)
    BY <1>1, <2>4
  <2>6. f.what = "operator" /\ k = Depth(t)' => k = Depth(t)
    BY <1>1, <2>1
  <2>7. Undisturbed(f)
    BY <1>2
  <2>. QED
    BY <1>2, <2>3, <2>5, <2>6, <2>7, FrameKept
<1>. QED
  BY <1>1, <1>2 DEF Frames

LEMMA FramesCut ==
    ASSUME TypeOK, TypeOK', Frames, Grows, NEW t0 \in Threads, NEW d \in 0 .. Depth(t0),
           \A u \in Threads : Depth(u)' = IF u = t0 THEN d ELSE Depth(u),
           \A u, k, f : At(u, k, f)' <=> At(u, k, f) /\ (u = t0 => k \in 1 .. d),
           \A f : At(t0, d, f) => f.what # "operator",
           \A t, k, f : At(t, k, f)' => Undisturbed(f)
    PROVE  Frames'
<1>1. ASSUME NEW t, NEW k, NEW f, At(t, k, f)'
      PROVE  /\ k = 1 => f.what = "callback"
             /\ f.what = "callback" => CallbackInv(t, k, f)'
             /\ f.what = "operator" => OperatorInv(t, k, f)' /\ ClaimInv(f)'
  <2>1. At(t, k, f)
    BY <1>1
  <2>2. t \in Threads /\ k \in 1 .. Depth(t) /\ Depth(t) \in Nat
    BY <2>1, AtFacts
  <2>3. f.what = "operator" /\ k = Depth(t)' => k = Depth(t)
    BY <2>1, <2>2
  <2>4. \A j, g : At(t, j, g)' => At(t, j, g)
    OBVIOUS
  <2>5. Undisturbed(f)
    BY <1>1
  <2>. QED
    BY <2>1, <2>3, <2>4, <2>5, FrameKept
<1>. QED
  BY <1>1 DEF Frames

LEMMA FramesSwap ==
    ASSUME TypeOK, TypeOK', Frames, Grows, NEW t0 \in Threads, NEW d \in Nat \ {0}, NEW e,
           Depth(t0) = d + 1,
           \A u \in Threads : Depth(u)' = IF u = t0 THEN d ELSE Depth(u),
           \A u, k, f : At(u, k, f)' <=> \/ At(u, k, f) /\ (u = t0 => k \in 1 .. d - 1)
                                         \/ u = t0 /\ k = d /\ f = e,
           \A f : At(t0, d, f) => f.what # "callback",
           \A t, k, f : At(t, k, f) /\ (t = t0 => k \in 1 .. d - 1) => Undisturbed(f),
           /\ d = 1 => e.what = "callback"
           /\ e.what = "callback" => CallbackInv(t0, d, e)'
           /\ e.what = "operator" => OperatorInv(t0, d, e)' /\ ClaimInv(e)'
    PROVE  Frames'
<1>1. ASSUME NEW t, NEW k, NEW f, At(t, k, f), t = t0 => k \in 1 .. d - 1
      PROVE  /\ k = 1 => f.what = "callback"
             /\ f.what = "callback" => CallbackInv(t, k, f)'
             /\ f.what = "operator" => OperatorInv(t, k, f)' /\ ClaimInv(f)'
  <2>1. t \in Threads /\ k \in 1 .. Depth(t) /\ Depth(t) \in Nat
    BY <1>1, AtFacts
  <2>2. t = t0 => k - 1 # d
    BY <1>1
  <2>3. \A g : At(t, k - 1, g)' => At(t, k - 1, g)
    BY <2>2
  <2>4. ASSUME f.what = "operator", t = t0, k + 1 = d PROVE FALSE
    <3>1. \E g : At(t0, d, g)
      BY DEF At, Depth
    <3>2. PICK g : At(t0, d, g)
      BY <3>1
    <3>3. OperatorInv(t, k, f)
      BY <1>1, <2>4 DEF Frames
    <3>4. g.what = "callback"
      BY <2>4, <3>2, <3>3 DEF OperatorInv
    <3>. QED
      BY <3>2, <3>4
  <2>5. f.what = "operator" => \A g : At(t, k + 1, g)' => At(t, k + 1, g)
    BY <2>4
  <2>6. f.what = "operator" /\ k = Depth(t)' => k = Depth(t)
    BY <1>1, <2>1
  <2>7. Undisturbed(f)
    BY <1>1
  <2>. QED
    BY <1>1, <2>3, <2>5, <2>6, <2>7, FrameKept
<1>. QED
  BY <1>1 DEF Frames

-----------------------------------------------------------------------------
(* Steps that leave the recordings alone. *)

LEMMA QuietFrames ==
    ASSUME TypeOK, Frames, nodes' = nodes, NEW t, NEW k, NEW f, At(t, k, f)
    PROVE  Undisturbed(f)
<1>1. f.what = "callback" => CallbackInv(t, k, f)
  BY DEF Frames
<1>2. f.what = "operator" => ClaimInv(f)
  BY DEF Frames
<1>. QED
  BY <1>1, <1>2 DEF CallbackInv, ClaimInv, Undisturbed

LEMMA QuietPush ==
    ASSUME TraceInv, NEW t \in Threads, NEW e \in FrameSpace, Push(t, e),
           UNCHANGED <<nodes, panicErr, todo, frozen, operators, answer, returned, intruders>>,
           \A f : At(t, Depth(t), f) => f.what # "operator",
           t = Main => Depth(t) # 0,
           NEW d, d = Depth(t) + 1,
           \/ e.what = "fire" /\ d # 1
           \/ e.what = "callback" /\ e.node = NoNode /\ CallbackInv(t, d, e)'
    PROVE  TraceInv'
<1>0. TypeOK /\ Frames /\ Apart /\ Nodes /\ Copies /\ StayOut
  BY DEF TraceInv
<1>1. /\ stack' \in [Threads -> Seq(FrameSpace)] /\ Depth(t) \in Nat
      /\ \A u \in Threads : Depth(u)' = IF u = t THEN Depth(t) + 1 ELSE Depth(u)
      /\ \A u, k, f : At(u, k, f)' <=> At(u, k, f) \/ (u = t /\ k = d /\ f = e)
  BY <1>0, PushAt
<1>2. TypeOK'
  BY <1>0, <1>1 DEF TypeOK
<1>3. Grows
  <2>1. e.what # "operator"
    OBVIOUS
  <2>2. \A u, k, f : At(u, k, f)' /\ f.what = "operator" => At(u, k, f)
    BY <1>1, <2>1
  <2>. QED
    BY <1>0, <2>2, QuietGrows
<1>4. Frames'
  <2>1. \A u, k, f : At(u, k, f) => Undisturbed(f)
    BY <1>0, QuietFrames
  <2>. QED
    BY <1>0, <1>2, <1>3, <2>1, FramesPush
<1>5. Apart'
  <2>1. Lone(t, d, e)
    BY DEF Lone
  <2>2. \A u, k, f : At(u, k, f) => ~(u = t /\ k = d)
    BY <1>0, <1>1, AtFacts
  <2>3. \A u, k, f : At(u, k, f)' =>
          (At(u, k, f) /\ ~(u = t /\ k = d)) \/ (u = t /\ k = d /\ f = e)
    BY <1>1, <2>2
  <2>4. \A u, k, f : At(u, k, f) /\ f.what = "operator" /\ nodes[f.on].opaque =>
          nodes'[f.on].opaque
    OBVIOUS
  <2>. QED
    BY <1>0, <2>1, <2>3, <2>4, ApartKept
<1>6. Nodes'
  BY <1>0, <1>2, <1>3, NodesKept
<1>7. Copies'
  <2>1. Depth(Main)' # 0 => Depth(Main) # 0
    BY <1>1 DEF Threads
  <2>2. \A n \in DOMAIN frozen : operators'[n] = operators[n] /\ answer'[n] = answer[n]
    OBVIOUS
  <2>. QED
    BY <1>0, <1>2, <1>3, <2>1, <2>2, CopiesKept
<1>8. StayOut'
  BY <1>0 DEF StayOut
<1>. QED
  BY <1>2, <1>4, <1>5, <1>6, <1>7, <1>8 DEF TraceInv

LEMMA QuietCut ==
    ASSUME TypeOK, TypeOK', Frames, Apart, Nodes, NEW t \in Threads, NEW d \in 0 .. Depth(t),
           stack' = [stack EXCEPT ![t] = SubSeq(@, 1, d)],
           nodes' = nodes, frozen' = frozen, UNCHANGED <<operators, answer>>,
           \A n \in 1 .. Len(nodes) : nodes[n].finished => returned'[n] = returned[n],
           \A f : At(t, d, f) => f.what # "operator"
    PROVE  Frames' /\ Apart' /\ Nodes' /\ Grows
<1>1. /\ stack' \in [Threads -> Seq(FrameSpace)] /\ Depth(t) \in Nat
      /\ \A u \in Threads : Depth(u)' = IF u = t THEN d ELSE Depth(u)
      /\ \A u, k, f : At(u, k, f)' <=> At(u, k, f) /\ (u = t => k \in 1 .. d)
  BY CutAt
<1>2. Grows
  <2>1. \A u, k, f : At(u, k, f)' /\ f.what = "operator" => At(u, k, f)
    BY <1>1
  <2>. QED
    BY <2>1, QuietGrows
<1>3. \A u, k, f : At(u, k, f)' => Undisturbed(f)
  BY <1>1, QuietFrames
<1>4. Frames'
  BY <1>1, <1>2, <1>3, FramesCut
<1>5. Apart'
  BY <1>1, ApartCut
<1>6. Nodes'
  BY <1>2, NodesKept
<1>. QED
  BY <1>2, <1>4, <1>5, <1>6

LEMMA InFacts ==
    ASSUME TypeOK, NEW t \in Threads, NEW what, In(t, what)
    PROVE  /\ At(t, Depth(t), Top(t)) /\ Depth(t) \in Nat \ {0} /\ Top(t).what = what
           /\ Depth(t) > 1 => At(t, Depth(t) - 1, Below(t))
           /\ \A f : At(t, Depth(t), f) => f.what = what
<1>1. Running(t) /\ Top(t).what = what
  BY DEF In
<1>2. At(t, Depth(t), Top(t)) /\ Depth(t) \in Nat \ {0}
      /\ (Depth(t) > 1 => At(t, Depth(t) - 1, Below(t)))
  BY <1>1, TopFacts
<1>3. \A f : At(t, Depth(t), f) => f = Top(t)
  BY DEF At, Depth, Top
<1>. QED
  BY <1>1, <1>2, <1>3

LEMMA CallFireInv ==
    ASSUME TraceInv, NEW t \in Threads, NEW ctx, NEW traced \in BOOLEAN, CallFire(t, ctx, traced)
    PROVE  TraceInv'
<1>0. TypeOK
  BY DEF TraceInv
<1>1. PICK e : e = [what |-> "fire", ctx |-> ctx, traced |-> traced, next |-> "condition"]
  OBVIOUS
<1>2. ctx \in Nat
  BY <1>0, NodeFacts DEF CallFire, Contexts, NoNode
<1>3. e \in FrameSpace /\ e.what = "fire"
  BY <1>1, <1>2 DEF FrameSpace, FireSpace
<1>4. Push(t, e) /\ UNCHANGED <<nodes, panicErr, todo, frozen, operators, answer, returned, intruders>>
  BY <1>1 DEF CallFire
<1>5. /\ \A f : At(t, Depth(t), f) => f.what = "callback"
      /\ Depth(t) # 0 /\ Depth(t) \in Nat
  BY <1>0, InFacts DEF CallFire
<1>6. PICK d : d = Depth(t) + 1 /\ d # 1
  BY <1>5
<1>. QED
  BY <1>3, <1>4, <1>5, <1>6, QuietPush

LEMMA PushNested ==
    ASSUME TraceInv, NEW t \in Threads, NEW role \in {"condition", "action"}, NEW ctx \in Nat,
           In(t, "fire"), Push(t, Nested(role, NoNode, ctx)), role = "condition" => ctx = NoNode,
           UNCHANGED <<nodes, panicErr, todo, frozen, history>>
    PROVE  TraceInv'
<1>0. TypeOK
  BY DEF TraceInv
<1>1. PICK e : e = Nested(role, NoNode, ctx)
  OBVIOUS
<1>2. /\ e \in FrameSpace /\ e.what = "callback" /\ e.node = NoNode /\ e.role = role
      /\ e.ctx = ctx
  BY <1>1 DEF Nested, FrameSpace, CallbackSpace, Roles, NoNode
<1>3. Push(t, e) /\ UNCHANGED <<nodes, panicErr, todo, frozen, operators, answer, returned, intruders>>
  BY <1>1 DEF history
<1>4. /\ \A f : At(t, Depth(t), f) => f.what = "fire"
      /\ Depth(t) # 0 /\ Depth(t) \in Nat
  BY <1>0, InFacts
<1>5. PICK d : d = Depth(t) + 1 /\ d # 1 /\ d - 1 = Depth(t)
  BY <1>4
<1>6. CallbackInv(t, d, e)'
  <2>1. /\ Depth(t) \in Nat
        /\ \A u, k, f : At(u, k, f)' <=> At(u, k, f) \/ (u = t /\ k = d /\ f = e)
    BY <1>0, <1>2, <1>3, <1>5, PushAt
  <2>2. \A g : At(t, d - 1, g)' => g.what = "fire"
    <3>1. d - 1 # d
      BY <1>5, <2>1
    <3>2. \A g : At(t, d - 1, g)' => At(t, d - 1, g)
      BY <2>1, <3>1
    <3>. QED
      BY <1>4, <1>5, <3>2
  <2>3. e.node \in 0 .. Len(nodes')
    BY <1>0, <1>2, <1>3, NodeFacts DEF NoNode
  <2>4. e.role = "condition" => e.ctx \in {NoNode, e.node}
    BY <1>2
  <2>. QED
    BY <1>2, <1>5, <2>2, <2>3, <2>4 DEF CallbackInv
<1>7. \A f : At(t, Depth(t), f) => f.what # "operator"
  BY <1>4
<1>. QED
  BY <1>2, <1>3, <1>4, <1>5, <1>6, <1>7, QuietPush

LEMMA StartUntracedInv ==
    ASSUME TraceInv, NEW t \in Threads, StartUntraced(t)
    PROVE  TraceInv'
<1>1. In(t, "fire") /\ Push(t, Nested("condition", NoNode, NoNode))
      /\ UNCHANGED <<nodes, panicErr, todo, frozen, history>>
  BY DEF StartUntraced, Firing, Masked
<1>. QED
  BY <1>1, PushNested DEF NoNode

LEMMA StartActionInv ==
    ASSUME TraceInv, NEW t \in Threads, StartAction(t)
    PROVE  TraceInv'
<1>1. PICK ctx : ctx = Top(t).ctx
  OBVIOUS
<1>2. In(t, "fire") /\ Push(t, Nested("action", NoNode, ctx))
      /\ UNCHANGED <<nodes, panicErr, todo, frozen, history>>
  BY <1>1 DEF StartAction, Firing
<1>3. ctx \in Nat
  <2>1. At(t, Depth(t), Top(t)) /\ Top(t).what = "fire"
    BY <1>2, InFacts DEF TraceInv
  <2>2. Top(t) \in FireSpace
    BY <2>1, AtFacts DEF TraceInv
  <2>. QED
    BY <1>1, <2>2 DEF FireSpace
<1>. QED
  BY <1>2, <1>3, PushNested

LEMMA SpawnInv ==
    ASSUME TraceInv, NEW t \in Threads, NEW u \in Goroutines, Spawn(t, u)
    PROVE  TraceInv'
<1>0. TypeOK /\ u \in Threads /\ u # Main
  BY GoroutinesAssumption DEF TraceInv, Threads
<1>1. PICK e : e = Callback(NoNode)
  OBVIOUS
<1>2. /\ e \in FrameSpace /\ e.what = "callback" /\ e.node = NoNode /\ e.role = "own"
      /\ e.ctx = NoNode
  BY <1>1 DEF Callback, FrameSpace, CallbackSpace, Roles, NoNode
<1>3. Push(u, e) /\ UNCHANGED <<nodes, panicErr, todo, frozen, operators, answer, returned, intruders>>
  BY <1>1 DEF Spawn, history
<1>4. Depth(u) = 0
  BY <1>0 DEF Spawn, Running, Depth
<1>5. \A f : At(u, Depth(u), f) => f.what # "operator"
  BY <1>4 DEF At
<1>6. PICK d : d = Depth(u) + 1 /\ d = 1
  BY <1>4
<1>7. CallbackInv(u, d, e)'
  <2>1. e.node \in 0 .. Len(nodes')
    BY <1>0, <1>2, <1>3, NodeFacts DEF NoNode
  <2>. QED
    BY <1>0, <1>2, <2>1 DEF CallbackInv
<1>. QED
  BY <1>0, <1>2, <1>3, <1>5, <1>6, <1>7, QuietPush

(* An operator or a Fire that returns leaves a callback on top. *)
LEMMA PopFacts ==
    ASSUME TypeOK, Frames, NEW t \in Threads, NEW what, In(t, what), what # "callback",
           stack' = [stack EXCEPT ![t] = Pop(@)]
    PROVE  \E d \in 0 .. Depth(t) :
             /\ d = Depth(t) - 1 /\ stack' = [stack EXCEPT ![t] = SubSeq(@, 1, d)]
             /\ \A f : At(t, d, f) => f.what # "operator"
<1>1. /\ At(t, Depth(t), Top(t)) /\ Depth(t) \in Nat \ {0} /\ Top(t).what = what
      /\ \A f : At(t, Depth(t), f) => f.what = what
  BY InFacts
<1>2. PICK d \in 0 .. Depth(t) : d = Depth(t) - 1 /\ d + 1 = Depth(t)
  BY <1>1
<1>3. stack' = [stack EXCEPT ![t] = SubSeq(@, 1, d)]
  BY <1>2 DEF Pop, Depth
<1>4. ASSUME NEW f, At(t, d, f), f.what = "operator" PROVE FALSE
  <2>1. OperatorInv(t, d, f)
    BY <1>4 DEF Frames
  <2>2. PICK g : g = Top(t)
    OBVIOUS
  <2>3. At(t, d + 1, g)
    BY <1>1, <1>2, <2>2
  <2>4. g.what = "callback"
    BY <2>1, <2>3 DEF OperatorInv
  <2>. QED
    BY <1>1, <2>2, <2>4
<1>. QED
  BY <1>2, <1>3, <1>4

LEMMA EmptyFacts ==
    ASSUME TypeOK, NEW t \in Threads, stack' = [stack EXCEPT ![t] = <<>>]
    PROVE  /\ 0 \in 0 .. Depth(t) /\ stack' = [stack EXCEPT ![t] = SubSeq(@, 1, 0)]
           /\ \A f : ~At(t, 0, f)
<1>1. PICK s \in Seq(FrameSpace) : s = stack[t]
  BY DEF TypeOK
<1>2. 0 \in 0 .. Len(s) /\ Len(s) = Depth(t)
  BY <1>1 DEF Depth
<1>3. PICK r : r = SubSeq(s, 1, 0)
  OBVIOUS
<1>4. r \in Seq(FrameSpace) /\ Len(r) = 0
  BY <1>2, <1>3, Prefix
<1>5. r = <<>>
  BY <1>4
<1>6. \A f : ~At(t, 0, f)
  BY DEF At
<1>. QED
  BY <1>1, <1>2, <1>3, <1>5, <1>6

LEMMA CutInv ==
    ASSUME TraceInv, NEW t \in Threads, NEW d \in 0 .. Depth(t),
           stack' = [stack EXCEPT ![t] = SubSeq(@, 1, d)],
           UNCHANGED <<nodes, panicErr, todo, frozen, operators, answer, intruders>>,
           \A f : At(t, d, f) => f.what # "operator",
           returned' \in Seq(Reports \cup {"panic"}), Len(returned') = Len(returned),
           \A n \in 1 .. Len(nodes) : nodes[n].finished => returned'[n] = returned[n]
    PROVE  TraceInv'
<1>0. TypeOK /\ Frames /\ Apart /\ Nodes /\ Copies /\ StayOut
  BY DEF TraceInv
<1>1. /\ stack' \in [Threads -> Seq(FrameSpace)]
      /\ \A u \in Threads : Depth(u)' = IF u = t THEN d ELSE Depth(u)
  BY <1>0, CutAt
<1>2. TypeOK'
  BY <1>0, <1>1 DEF TypeOK
<1>3. Frames' /\ Apart' /\ Nodes' /\ Grows
  BY <1>0, <1>2, QuietCut
<1>4. Copies'
  <2>1. Depth(Main)' # 0 => Depth(Main) # 0
    BY <1>1 DEF Threads
  <2>2. \A n \in DOMAIN frozen : operators'[n] = operators[n] /\ answer'[n] = answer[n]
    OBVIOUS
  <2>. QED
    BY <1>0, <1>2, <1>3, <2>1, <2>2, CopiesKept
<1>5. StayOut'
  BY <1>0 DEF StayOut
<1>. QED
  BY <1>2, <1>3, <1>4, <1>5 DEF TraceInv

LEMMA FireReturnsInv ==
    ASSUME TraceInv, NEW t \in Threads, FireReturns(t)
    PROVE  TraceInv'
<1>0. TypeOK /\ Frames
  BY DEF TraceInv
<1>1. /\ UNCHANGED <<nodes, panicErr, todo, frozen, operators, answer, returned, intruders>>
      /\ In(t, "fire") /\ stack' = [stack EXCEPT ![t] = Pop(@)]
  BY DEF FireReturns, history
<1>2. PICK d \in 0 .. Depth(t) :
        /\ d = Depth(t) - 1 /\ stack' = [stack EXCEPT ![t] = SubSeq(@, 1, d)]
        /\ \A f : At(t, d, f) => f.what # "operator"
  BY <1>0, <1>1, PopFacts
<1>3. returned' \in Seq(Reports \cup {"panic"}) /\ Len(returned') = Len(returned)
  BY <1>0, <1>1 DEF TypeOK
<1>. QED
  BY <1>1, <1>2, <1>3, CutInv

LEMMA ExitInv ==
    ASSUME TraceInv, NEW t \in Threads, Exit(t)
    PROVE  TraceInv'
<1>0. TypeOK
  BY DEF TraceInv
<1>1. /\ UNCHANGED <<nodes, panicErr, todo, frozen, operators, answer, returned, intruders>>
      /\ stack' = [stack EXCEPT ![t] = <<>>]
  BY DEF Exit, history
<1>2. /\ 0 \in 0 .. Depth(t) /\ stack' = [stack EXCEPT ![t] = SubSeq(@, 1, 0)]
      /\ \A f : At(t, 0, f) => f.what # "operator"
  BY <1>0, <1>1, EmptyFacts
<1>3. returned' \in Seq(Reports \cup {"panic"}) /\ Len(returned') = Len(returned)
  BY <1>0, <1>1 DEF TypeOK
<1>. QED
  BY <1>1, <1>2, <1>3, CutInv

(* The callbacks that a panic passes had not returned. *)
LEMMA UnwindFacts ==
    ASSUME TypeOK, Frames, NEW t \in Threads, NEW depth \in 0 .. Depth(t), Unwind(t, depth)
    PROVE  /\ returned' \in Seq(Reports \cup {"panic"}) /\ Len(returned') = Len(returned)
           /\ \A n \in 1 .. Len(nodes) : nodes[n].finished => returned'[n] = returned[n]
           /\ UNCHANGED <<nodes, frozen, operators, answer, intruders>>
           /\ stack' = [stack EXCEPT ![t] = SubSeq(@, 1, depth)]
<1>1. /\ returned \in Seq(Reports \cup {"panic"}) /\ Len(returned) \in Nat
      /\ Len(returned) = Len(nodes)
      /\ \A n \in 1 .. Len(returned) : returned[n] \in Reports \cup {"panic"}
  BY ElementOfSeq DEF TypeOK
<1>2. returned' = [n \in 1 .. Len(returned) |->
                     IF n \in Abandoned(t, depth) THEN "panic" ELSE returned[n]]
  BY DEF Unwind
<1>3. returned' \in [1 .. Len(returned) -> Reports \cup {"panic"}]
  BY <1>1, <1>2
<1>4. returned' \in Seq(Reports \cup {"panic"}) /\ Len(returned') = Len(returned)
  BY <1>1, <1>3
<1>5. ASSUME NEW n \in 1 .. Len(nodes), nodes[n].finished PROVE n \notin Abandoned(t, depth)
  <2>1. SUFFICES ASSUME NEW j \in depth + 1 .. Len(stack[t]), stack[t][j].what = "callback",
                        stack[t][j].node = n
                 PROVE  FALSE
    BY DEF Abandoned
  <2>2. PICK f : f = stack[t][j]
    OBVIOUS
  <2>3. At(t, j, f)
    <3>1. stack[t] \in Seq(FrameSpace) /\ Len(stack[t]) \in Nat
      BY DEF TypeOK
    <3>. QED
      BY <2>2, <3>1 DEF At, Depth
  <2>4. CallbackInv(t, j, f)
    BY <2>1, <2>2, <2>3 DEF Frames
  <2>. QED
    BY <1>1, <1>5, <2>1, <2>2, <2>4 DEF CallbackInv, NoNode
<1>6. \A n \in 1 .. Len(nodes) : nodes[n].finished => returned'[n] = returned[n]
  BY <1>1, <1>2, <1>5
<1>. QED
  BY <1>4, <1>6 DEF Unwind

LEMMA PanicRecoveredInv ==
    ASSUME TraceInv, NEW t \in Threads, PanicRecovered(t)
    PROVE  TraceInv'
<1>0. TypeOK /\ Frames
  BY DEF TraceInv
<1>1. PICK depth \in 1 .. Len(stack[t]) - 1 :
        stack[t][depth].what = "callback" /\ Unwind(t, depth)
  BY DEF PanicRecovered
<1>2. depth \in 0 .. Depth(t)
  <2>1. stack[t] \in Seq(FrameSpace)
    BY <1>0 DEF TypeOK
  <2>2. Len(stack[t]) \in Nat
    BY <2>1
  <2>. QED
    BY <1>1, <2>2 DEF Depth
<1>3. /\ returned' \in Seq(Reports \cup {"panic"}) /\ Len(returned') = Len(returned)
      /\ \A n \in 1 .. Len(nodes) : nodes[n].finished => returned'[n] = returned[n]
      /\ UNCHANGED <<nodes, frozen, operators, answer, intruders>>
      /\ stack' = [stack EXCEPT ![t] = SubSeq(@, 1, depth)]
  BY <1>0, <1>1, <1>2, UnwindFacts
<1>4. \A f : At(t, depth, f) => f.what # "operator"
  BY <1>1 DEF At
<1>5. UNCHANGED <<panicErr, todo>>
  BY DEF PanicRecovered
<1>. QED
  BY <1>2, <1>3, <1>4, <1>5, CutInv

LEMMA PanicReachesFireInv ==
    ASSUME TraceInv, PanicReachesFire
    PROVE  TraceInv'
<1>0. /\ TypeOK /\ Frames /\ Apart /\ Nodes /\ Copies /\ StayOut /\ Main \in Threads
  BY DEF TraceInv, Threads
<1>1. Unwind(Main, 0) /\ panicErr' = TRUE /\ todo' = <<1>> /\ In(Main, "callback")
  BY DEF PanicReachesFire, Unwind
<1>2. Depth(Main) \in Nat \ {0} /\ 0 \in 0 .. Depth(Main)
  BY <1>0, <1>1, InFacts
<1>3. /\ returned' \in Seq(Reports \cup {"panic"}) /\ Len(returned') = Len(returned)
      /\ \A n \in 1 .. Len(nodes) : nodes[n].finished => returned'[n] = returned[n]
      /\ UNCHANGED <<nodes, frozen, operators, answer, intruders>>
      /\ stack' = [stack EXCEPT ![Main] = SubSeq(@, 1, 0)]
  BY <1>0, <1>1, <1>2, UnwindFacts
<1>4. /\ stack' \in [Threads -> Seq(FrameSpace)]
      /\ \A u \in Threads : Depth(u)' = IF u = Main THEN 0 ELSE Depth(u)
  BY <1>0, <1>2, <1>3, CutAt
<1>5. TypeOK'
  <2>1. 1 \in 1 .. Len(nodes)
    BY <1>0, NodeFacts
  <2>2. todo' \in Seq(1 .. Len(nodes)')
    BY <1>1, <1>3, <2>1
  <2>. QED
    BY <1>0, <1>1, <1>3, <1>4, <2>2 DEF TypeOK
<1>6. \A f : At(Main, 0, f) => f.what # "operator"
  BY DEF At
<1>7. Frames' /\ Apart' /\ Nodes'
  BY <1>0, <1>2, <1>3, <1>5, <1>6, QuietCut
<1>8. Copies'
  BY <1>0, <1>1, <1>2, <1>3, <1>4 DEF Copies
<1>9. StayOut'
  BY <1>0, <1>3 DEF StayOut
<1>. QED
  BY <1>5, <1>7, <1>8, <1>9 DEF TraceInv
-----------------------------------------------------------------------------
(* A callback that has a recording returns: the recording finishes. *)

LEMMA FinishedFacts ==
    ASSUME NEW r \in NodeSpace, NEW o \in Outcomes, NEW q, q = Finished(r, o)
    PROVE  /\ q \in NodeSpace
           /\ q.kind = r.kind /\ q.index = r.index /\ q.reason = r.reason
           /\ q.started = r.started /\ q.operator = r.operator /\ q.children = r.children
           /\ q.finished /\ q.outcome = o
           /\ q.opaque <=> r.opaque \/ (r.operator /\ r.outcome # o)
<1>1. /\ r.kind \in Kinds /\ r.index \in Int /\ r.outcome \in Reports
      /\ r.reason \in {"None", "ShortCircuit"} /\ r.started \in BOOLEAN
      /\ r.finished \in BOOLEAN /\ r.operator \in BOOLEAN /\ r.opaque \in BOOLEAN
      /\ r.children \in Seq(Nat)
  BY DEF NodeSpace
<1>2. PICK b \in BOOLEAN : b = (r.opaque \/ (r.operator /\ r.outcome # o))
  OBVIOUS
<1>3. q = [r EXCEPT !.finished = TRUE, !.outcome = o, !.opaque = b]
  BY <1>2, Zenon DEF Finished
<1>4. q \in NodeSpace
  BY <1>3 DEF NodeSpace, Reports
<1>5. /\ q.kind = r.kind /\ q.index = r.index /\ q.reason = r.reason
      /\ q.started = r.started /\ q.operator = r.operator /\ q.children = r.children
      /\ q.finished = TRUE /\ q.outcome = o /\ q.opaque = b
  BY <1>3 DEF NodeSpace
<1>. QED
  BY <1>2, <1>4, <1>5, Zenon

(* The callback f, the k-th frame of t, returns an outcome: what becomes of *)
(* its recording c, and of the other frames.                               *)
Finishing(t, k, f, c, outcome) ==
    /\ At(t, k, f) /\ f.what = "callback" /\ c = f.node /\ c # NoNode
    /\ outcome \in Outcomes
    /\ nodes' = [nodes EXCEPT ![c] = Finished(@, outcome)]
    /\ returned' = [returned EXCEPT ![c] = outcome]

OneFinished(c, outcome) ==
    /\ nodes' \in Seq(NodeSpace) /\ nodes' # <<>> /\ Len(nodes') = Len(nodes)
    /\ returned' \in Seq(Reports \cup {"panic"}) /\ Len(returned') = Len(returned)
    /\ c \in 1 .. Len(nodes) /\ nodes[c].started /\ ~nodes[c].finished
    /\ nodes'[c] = Finished(nodes[c], outcome) /\ returned'[c] = outcome
    /\ \A n \in 1 .. Len(nodes) : n # c => nodes'[n] = nodes[n] /\ returned'[n] = returned[n]
    /\ \A n \in 1 .. Len(nodes) :
         /\ nodes'[n].started = nodes[n].started
         /\ nodes'[n].index = nodes[n].index /\ nodes'[n].reason = nodes[n].reason
         /\ nodes[n].opaque => nodes'[n].opaque
         /\ nodes[n].finished => nodes'[n].finished

LEMMA FinishFacts ==
    ASSUME TypeOK, Frames, Apart, NEW t, NEW k, NEW f, NEW c, NEW outcome,
           Finishing(t, k, f, c, outcome)
    PROVE  /\ OneFinished(c, outcome)
           /\ \A u, j, g : At(u, j, g) /\ ~(u = t /\ j = k) => Undisturbed(g)
<1>0. /\ At(t, k, f) /\ f.what = "callback" /\ c = f.node /\ c # NoNode
      /\ outcome \in Outcomes
      /\ nodes' = [nodes EXCEPT ![c] = Finished(@, outcome)]
      /\ returned' = [returned EXCEPT ![c] = outcome]
  BY DEF Finishing
<1>1. CallbackInv(t, k, f)
  BY <1>0 DEF Frames
<1>2. Len(nodes) \in Nat \ {0} /\ nodes \in Seq(NodeSpace)
  BY NodeFacts DEF TypeOK
<1>3. c \in 1 .. Len(nodes) /\ nodes[c].started /\ ~nodes[c].finished
  BY <1>0, <1>1, <1>2 DEF CallbackInv, NoNode
<1>4. PICK r \in NodeSpace : r = nodes[c]
  BY <1>3, NodeFacts
<1>5. PICK q : q = Finished(r, outcome)
  OBVIOUS
<1>6. /\ q \in NodeSpace
      /\ q.kind = r.kind /\ q.index = r.index /\ q.reason = r.reason
      /\ q.started = r.started /\ q.operator = r.operator /\ q.children = r.children
      /\ q.finished /\ q.outcome = outcome
      /\ q.opaque <=> r.opaque \/ (r.operator /\ r.outcome # outcome)
  BY <1>0, <1>5, FinishedFacts
<1>7. nodes' = [nodes EXCEPT ![c] = q]
  BY <1>0, <1>4, <1>5
<1>8. /\ nodes' \in Seq(NodeSpace) /\ Len(nodes') = Len(nodes)
      /\ \A n \in 1 .. Len(nodes) : nodes'[n] = IF n = c THEN q ELSE nodes[n]
  BY <1>2, <1>3, <1>6, <1>7, ExceptSeq
<1>9. nodes' # <<>>
  BY <1>2, <1>8
<1>10. /\ returned' \in Seq(Reports \cup {"panic"}) /\ Len(returned') = Len(returned)
       /\ \A n \in 1 .. Len(nodes) : returned'[n] = IF n = c THEN outcome ELSE returned[n]
  <2>1. /\ returned \in Seq(Reports \cup {"panic"}) /\ Len(returned) = Len(nodes)
        /\ outcome \in Reports \cup {"panic"}
    BY <1>0 DEF TypeOK, Reports
  <2>. QED
    BY <1>0, <1>3, <2>1, ExceptSeq
<1>11. \A n \in 1 .. Len(nodes) :
         /\ nodes'[n].started = nodes[n].started
         /\ nodes'[n].index = nodes[n].index /\ nodes'[n].reason = nodes[n].reason
         /\ nodes[n].opaque => nodes'[n].opaque
         /\ nodes[n].finished => nodes'[n].finished
  BY <1>4, <1>6, <1>8
<1>12. ASSUME NEW u, NEW j, NEW g, At(u, j, g), ~(u = t /\ j = k)
       PROVE  Undisturbed(g)
  <2>1. ASSUME g.what = "callback", g.node # NoNode PROVE ~nodes'[g.node].finished
    <3>1. CallbackInv(u, j, g)
      BY <1>12, <2>1 DEF Frames
    <3>2. g.node \in 1 .. Len(nodes) /\ ~nodes[g.node].finished
      BY <1>2, <2>1, <3>1 DEF CallbackInv, NoNode
    <3>3. g.node # c
      BY <1>0, <1>12, <2>1 DEF Apart
    <3>. QED
      BY <1>8, <3>2, <3>3
  <2>2. ASSUME g.what = "operator" PROVE ClaimInv(g)'
    <3>1. OperatorInv(u, j, g) /\ ClaimInv(g)
      BY <1>12, <2>2 DEF Frames
    <3>2. g.on \in 1 .. Len(nodes)
      BY <3>1 DEF OperatorInv
    <3>3. CASE g.on # c
      BY <1>8, <3>1, <3>2, <3>3 DEF ClaimInv
    <3>4. CASE g.on = c
      <4>1. nodes'[c].opaque
        BY <1>0, <1>4, <1>6, <1>8, <3>1, <3>2, <3>4 DEF ClaimInv, Outcomes
      <4>. QED
        BY <3>4, <4>1 DEF ClaimInv
    <3>. QED
      BY <3>3, <3>4
  <2>3. ASSUME g.what = "operator", NEW i \in 1 .. Len(g.children), ~nodes[g.children[i]].started
        PROVE  ~nodes'[g.children[i]].started
    <3>1. OperatorInv(u, j, g)
      BY <1>12, <2>3 DEF Frames
    <3>2. g.children[i] \in 1 .. Len(nodes)
      BY <3>1 DEF OperatorInv
    <3>. QED
      BY <1>11, <2>3, <3>2
  <2>. QED
    BY <2>1, <2>2, <2>3 DEF Undisturbed
<1>13. OneFinished(c, outcome)
  BY <1>3, <1>4, <1>5, <1>8, <1>9, <1>10, <1>11 DEF OneFinished
<1>. QED
  BY <1>12, <1>13

LEMMA FinishGrows ==
    ASSUME TypeOK, NEW c, NEW outcome, OneFinished(c, outcome),
           \A u, j, g : At(u, j, g)' /\ g.what = "operator" =>
             \E v, i, h : At(v, i, h) /\ h.what = "operator" /\ h.children = g.children
    PROVE  Grows
<1>0. Len(nodes) \in Nat
  BY NodeFacts
<1>1. /\ Len(nodes') = Len(nodes)
      /\ c \in 1 .. Len(nodes) /\ nodes[c].started /\ ~nodes[c].finished
      /\ \A n \in 1 .. Len(nodes) : n # c => nodes'[n] = nodes[n] /\ returned'[n] = returned[n]
      /\ \A n \in 1 .. Len(nodes) :
           /\ nodes'[n].started = nodes[n].started
           /\ nodes'[n].index = nodes[n].index /\ nodes'[n].reason = nodes[n].reason
           /\ nodes[n].finished => nodes'[n].finished
  BY DEF OneFinished
<1>2. \A n \in 1 .. Len(nodes) : Dormant(n) => Dormant(n)' /\ n # c
  BY <1>1, OwnedKept DEF Dormant
<1>. QED
  BY <1>0, <1>1, <1>2 DEF Grows

LEMMA FinishNodes ==
    ASSUME TypeOK, TypeOK', Nodes, Grows, NEW c, NEW outcome \in Outcomes,
           OneFinished(c, outcome), UNCHANGED <<operators, answer, frozen>>
    PROVE  Nodes'
<1>1. /\ Len(nodes') = Len(nodes)
      /\ c \in 1 .. Len(nodes) /\ nodes[c].started /\ ~nodes[c].finished
      /\ nodes'[c] = Finished(nodes[c], outcome) /\ returned'[c] = outcome
      /\ \A n \in 1 .. Len(nodes) : n # c => nodes'[n] = nodes[n] /\ returned'[n] = returned[n]
  BY DEF OneFinished
<1>2. ASSUME NEW n \in 1 .. Len(nodes), n # c PROVE NodeInv(n)'
  BY <1>1, <1>2, NodeKept DEF Nodes
<1>3. PICK r \in NodeSpace : r = nodes[c]
  BY <1>1, NodeFacts
<1>4. PICK q : q = nodes'[c]
  OBVIOUS
<1>5. /\ q.kind = r.kind /\ q.index = r.index /\ q.reason = r.reason
      /\ q.started = r.started /\ q.operator = r.operator /\ q.children = r.children
      /\ q.finished /\ q.outcome = outcome
      /\ q.opaque <=> r.opaque \/ (r.operator /\ r.outcome # outcome)
  BY <1>1, <1>3, <1>4, FinishedFacts
<1>6. NodeInv(c)
  BY <1>1 DEF Nodes
<1>7. outcome # "none"
  BY DEF Outcomes
<1>8. NodeInv(c)'
  <2>1. \A i \in 1 .. Len(q.children) : q.children[i] \in 1 .. Len(nodes')
    BY <1>1, <1>3, <1>5, <1>6 DEF NodeInv
  <2>2. /\ q.started /\ q.reason = "None"
        /\ q.finished => q.outcome # "none" /\ returned'[c] = q.outcome
    BY <1>1, <1>3, <1>5, <1>6, <1>7 DEF NodeInv
  <2>3. ~q.operator =>
          /\ q.kind = "Leaf" /\ q.children = <<>> /\ ~q.opaque
          /\ operators'[c] = 0 /\ answer'[c] = "none"
    BY <1>3, <1>5, <1>6 DEF NodeInv
  <2>4. ASSUME q.operator, ~q.opaque
        PROVE  /\ c \notin DOMAIN frozen' => operators'[c] = 1 /\ answer'[c] = q.outcome
               /\ \A kind, o, children : kind = q.kind /\ o = q.outcome /\ children = q.children
                                         => Follows(kind, o, children)'
    <3>1. r.operator /\ ~r.opaque /\ r.outcome = outcome
      BY <1>5, <2>4
    <3>2. /\ c \notin DOMAIN frozen => operators[c] = 1 /\ answer[c] = outcome
          /\ \A kind, o, children : kind = r.kind /\ o = r.outcome /\ children = r.children
                                    => Follows(kind, o, children)
      BY <1>3, <1>6, <1>7, <3>1 DEF NodeInv
    <3>3. ASSUME NEW kind, NEW o, NEW children, kind = q.kind, o = q.outcome,
                 children = q.children
          PROVE  Follows(kind, o, children)'
      <4>1. Follows(kind, o, children)
        BY <1>5, <3>1, <3>2, <3>3
      <4>. QED
        BY <4>1, FollowsKept
    <3>. QED
      BY <1>5, <3>2, <3>3
  <2>. QED
    BY <1>4, <1>5, <2>1, <2>2, <2>3, <2>4 DEF NodeInv
<1>. QED
  BY <1>1, <1>2, <1>8 DEF Nodes

LEMMA ConditionReturnsInv ==
    ASSUME TraceInv, NEW outcome \in Outcomes, ConditionReturns(outcome)
    PROVE  TraceInv'
<1>0. TypeOK /\ Frames /\ Apart /\ Nodes /\ Copies /\ StayOut /\ Main \in Threads
  BY DEF TraceInv, Threads
<1>1. /\ In(Main, "callback") /\ Len(stack[Main]) = 1
      /\ nodes' = [nodes EXCEPT ![1] = Finished(@, outcome)]
      /\ returned' = [returned EXCEPT ![1] = outcome]
      /\ stack' = [stack EXCEPT ![Main] = <<>>] /\ todo' = <<1>>
      /\ UNCHANGED <<panicErr, frozen, operators, answer, intruders>>
  BY DEF ConditionReturns
<1>2. Depth(Main) = 1
  BY <1>1 DEF Depth
<1>3. PICK f : f = Top(Main)
  OBVIOUS
<1>4. At(Main, 1, f) /\ f.what = "callback"
  BY <1>0, <1>1, <1>2, <1>3, InFacts
<1>5. f.node = 1
  BY <1>0, <1>4 DEF Frames, CallbackInv
<1>6. PICK c : c = 1
  OBVIOUS
<1>7. Finishing(Main, 1, f, c, outcome)
  BY <1>1, <1>4, <1>5, <1>6 DEF Finishing, NoNode
<1>8. /\ OneFinished(c, outcome)
      /\ \A u, j, g : At(u, j, g) /\ ~(u = Main /\ j = 1) => Undisturbed(g)
  BY <1>0, <1>7, FinishFacts
<1>9. /\ 0 \in 0 .. Depth(Main) /\ stack' = [stack EXCEPT ![Main] = SubSeq(@, 1, 0)]
      /\ \A f1 : ~At(Main, 0, f1)
  BY <1>0, <1>1, EmptyFacts
<1>10. /\ stack' \in [Threads -> Seq(FrameSpace)]
       /\ \A u \in Threads : Depth(u)' = IF u = Main THEN 0 ELSE Depth(u)
       /\ \A u, k, g : At(u, k, g)' <=> At(u, k, g) /\ (u = Main => k \in 1 .. 0)
  BY <1>0, <1>9, CutAt
<1>11. TypeOK'
  <2>1. 1 \in 1 .. Len(nodes')
    BY <1>6, <1>8 DEF OneFinished
  <2>2. todo' \in Seq(1 .. Len(nodes'))
    BY <1>1, <2>1
  <2>. QED
    BY <1>0, <1>1, <1>8, <1>10, <2>2 DEF TypeOK, OneFinished
<1>12. Grows
  BY <1>0, <1>8, <1>10, FinishGrows
<1>13. Frames'
  <2>1. \A u, k, g : At(u, k, g)' => Undisturbed(g)
    BY <1>8, <1>10
  <2>. QED
    BY <1>0, <1>9, <1>10, <1>11, <1>12, <2>1, FramesCut
<1>14. Apart'
  <2>1. ASSUME NEW u, NEW k, NEW g, At(u, k, g), g.what = "operator", nodes[g.on].opaque
        PROVE  nodes'[g.on].opaque
    <3>1. g.on \in 1 .. Len(nodes)
      BY <1>0, <2>1 DEF Frames, OperatorInv
    <3>. QED
      BY <1>8, <2>1, <3>1 DEF OneFinished
  <2>. QED
    BY <1>0, <1>10, <2>1, ApartCut
<1>15. Nodes'
  BY <1>0, <1>1, <1>8, <1>11, <1>12, FinishNodes
<1>16. Copies'
  <2>1. Depth(Main)' = 0 /\ DOMAIN frozen' = {}
    BY <1>0, <1>1, <1>2, <1>10 DEF Copies
  <2>2. nodes'[1].finished
    <3>1. c \in 1 .. Len(nodes) /\ nodes'[c] = Finished(nodes[c], outcome)
      BY <1>8 DEF OneFinished
    <3>2. PICK r \in NodeSpace : r = nodes[c]
      BY <1>0, <3>1, NodeFacts
    <3>3. PICK q : q = nodes'[c] /\ q = Finished(r, outcome)
      BY <3>1, <3>2
    <3>. QED
      BY <1>6, <3>3, FinishedFacts
  <2>3. \A j \in 1 .. Len(todo') : todo'[j] = 1
    BY <1>1
  <2>. QED
    BY <2>1, <2>2, <2>3 DEF Copies, Settled
<1>17. StayOut'
  BY <1>0, <1>1 DEF StayOut
<1>. QED
  BY <1>11, <1>13, <1>14, <1>15, <1>16, <1>17 DEF TraceInv

(* A callback returns to the operator or the Fire that called it, whose    *)
(* frame b becomes e.                                                      *)
LEMMA ReturnInv ==
    ASSUME TraceInv, NEW t \in Threads, NEW d \in Nat \ {0}, Depth(t) = d + 1,
           NEW b, At(t, d, b), b.what # "callback",
           NEW e \in FrameSpace, e.what = b.what,
           e.what = "operator" => e.on = b.on /\ e.children = b.children,
           e.what = "operator" => OperatorInv(t, d, e)' /\ ClaimInv(e)',
           stack' = [stack EXCEPT ![t] = [Pop(stack[t]) EXCEPT ![d] = e]],
           UNCHANGED <<panicErr, todo, frozen, operators, answer, intruders>>,
           nodes' \in Seq(NodeSpace), Len(nodes') = Len(nodes),
           returned' \in Seq(Reports \cup {"panic"}), Len(returned') = Len(returned),
           \A n \in 1 .. Len(nodes) : nodes[n].opaque => nodes'[n].opaque,
           \A u, j, g : At(u, j, g) /\ ~(u = t /\ j = d + 1) => Undisturbed(g),
           (\A u, j, g : At(u, j, g)' /\ g.what = "operator" =>
              \E v, i, h : At(v, i, h) /\ h.what = "operator" /\ h.children = g.children) => Grows,
           TypeOK' /\ Grows => Nodes'
    PROVE  TraceInv'
<1>0. TypeOK /\ Frames /\ Apart /\ Nodes /\ Copies /\ StayOut
  BY DEF TraceInv
<1>1. /\ stack' \in [Threads -> Seq(FrameSpace)]
      /\ \A u \in Threads : Depth(u)' = IF u = t THEN d ELSE Depth(u)
      /\ \A u, k, f : At(u, k, f)' <=>
           \/ At(u, k, f) /\ (u = t => k \in 1 .. d - 1)
           \/ u = t /\ k = d /\ f = e
  BY <1>0, SwapAt
<1>2. TypeOK'
  <2>1. Len(nodes) \in Nat \ {0}
    BY <1>0, NodeFacts
  <2>2. nodes' # <<>>
    BY <2>1
  <2>. QED
    BY <1>0, <1>1, <2>2 DEF TypeOK
<1>3. Grows
  BY <1>1
<1>4. Frames'
  <2>1. d # 1 \/ e.what = "callback"
    BY <1>0 DEF Frames
  <2>2. \A f : At(t, d, f) => f.what # "callback"
    BY <1>0, AtFacts
  <2>3. \A u, k, f : At(u, k, f) /\ (u = t => k \in 1 .. d - 1) => Undisturbed(f)
    OBVIOUS
  <2>. QED
    BY <1>0, <1>1, <1>2, <1>3, <2>1, <2>2, <2>3, FramesSwap
<1>5. ASSUME NEW u, NEW k, NEW g, At(u, k, g), g.what = "operator", nodes[g.on].opaque
      PROVE  nodes'[g.on].opaque
  <2>1. g.on \in 1 .. Len(nodes)
    BY <1>0, <1>5 DEF Frames, OperatorInv
  <2>. QED
    BY <1>5, <2>1
<1>6. Apart'
  <2>1. Lone(t, d, e)
    <3> SUFFICES ASSUME NEW u, NEW j, NEW g, At(u, j, g), ~(u = t /\ j = d), g.what = e.what
                 PROVE  \/ /\ e.what = "operator"
                           /\ e.on = g.on => nodes'[e.on].opaque
                           /\ \A x \in 1 .. Len(e.children), y \in 1 .. Len(g.children) :
                                e.children[x] # g.children[y]
                        \/ e.what = "fire"
      BY DEF Lone
    <3>1. \/ /\ b.what = "operator"
             /\ b.on = g.on => nodes[b.on].opaque
             /\ \A x \in 1 .. Len(b.children), y \in 1 .. Len(g.children) :
                  b.children[x] # g.children[y]
          \/ b.what = "fire"
      BY <1>0 DEF Apart
    <3>2. b.what = "operator" /\ nodes[b.on].opaque => nodes'[b.on].opaque
      BY <1>5
    <3>. QED
      BY <3>1, <3>2
  <2>2. \A u, k, f : At(u, k, f)' =>
          (At(u, k, f) /\ ~(u = t /\ k = d)) \/ (u = t /\ k = d /\ f = e)
    BY <1>1
  <2>. QED
    BY <1>0, <1>5, <2>1, <2>2, ApartKept
<1>7. Nodes'
  BY <1>2, <1>3
<1>8. Copies'
  <2>1. Depth(Main)' # 0 => Depth(Main) # 0
    BY <1>1 DEF Threads
  <2>2. \A n \in DOMAIN frozen : operators'[n] = operators[n] /\ answer'[n] = answer[n]
    OBVIOUS
  <2>. QED
    BY <1>0, <1>2, <1>3, <2>1, <2>2, CopiesKept
<1>9. StayOut'
  BY <1>0 DEF StayOut
<1>. QED
  BY <1>2, <1>4, <1>6, <1>7, <1>8, <1>9 DEF TraceInv

LEMMA ChildReturnsInv ==
    ASSUME TraceInv, NEW t \in Threads, NEW outcome \in Outcomes, ChildReturns(t, outcome)
    PROVE  TraceInv'
<1>0. TypeOK /\ Frames /\ Apart /\ Nodes
  BY DEF TraceInv
<1>1. PICK f, b : f = Top(t) /\ b = Below(t)
  OBVIOUS
<1>2. PICK s \in Seq(FrameSpace) : s = stack[t]
  BY <1>0 DEF TypeOK
<1>3. /\ In(t, "callback") /\ Len(Pop(s)) > 0 /\ b.what = "operator"
      /\ nodes' = [nodes EXCEPT ![f.node] = Finished(@, outcome)]
      /\ returned' = [returned EXCEPT ![f.node] = outcome]
      /\ stack' = [stack EXCEPT ![t] =
           [Pop(s) EXCEPT ![Len(Pop(s))] =
              [b EXCEPT !.next = b.next + 1, !.outcome = Combine(b.kind, outcome)]]]
      /\ UNCHANGED <<panicErr, todo, frozen, operators, answer, intruders>>
  BY <1>1, <1>2 DEF ChildReturns
<1>4. At(t, Depth(t), f) /\ Depth(t) \in Nat \ {0} /\ f.what = "callback"
      /\ (Depth(t) > 1 => At(t, Depth(t) - 1, b))
  BY <1>0, <1>1, <1>3, InFacts
<1>5. PICK d \in Nat : d = Depth(t) - 1 /\ Depth(t) = d + 1
  BY <1>4
<1>6. d \in 0 .. Len(s) /\ Len(s) - 1 = d
  BY <1>2, <1>5 DEF Depth
<1>7. Len(Pop(s)) = d /\ d \in Nat \ {0}
  BY <1>3, <1>6, Prefix DEF Pop
<1>8. At(t, d, b) /\ At(t, d + 1, f)
  <2>1. Depth(t) > 1 /\ Depth(t) - 1 = d
    BY <1>5, <1>7
  <2>. QED
    BY <1>4, <1>5, <2>1
<1>9. b \in OperatorSpace /\ OperatorInv(t, d, b) /\ ClaimInv(b)
  <2>1. At(t, d, b)
    BY <1>8
  <2>2. OperatorInv(t, d, b) /\ ClaimInv(b)
    BY <1>0, <1>3, <2>1 DEF Frames
  <2>3. b.what = "operator" => b \in OperatorSpace
    BY <1>0, <2>1, AtFacts
  <2>. QED
    BY <1>3, <2>2, <2>3
<1>10. /\ b.next \in 1 .. Len(b.children) /\ b.outcome = "none" /\ f.node = b.children[b.next]
       /\ b.children \in Seq(Nat) /\ Len(b.children) \in Nat /\ b.kind \in Operators
  <2>1. /\ b.next <= Len(b.children) /\ b.outcome = "none" /\ f.node = b.children[b.next]
        /\ b.next \in 1 .. Len(b.children) + 1
    BY <1>8, <1>9 DEF OperatorInv
  <2>2. b.children \in Seq(Nat) /\ b.kind \in Operators
    BY <1>9 DEF OperatorSpace
  <2>. QED
    BY <2>1, <2>2
<1>11. PICK e : e = [b EXCEPT !.next = b.next + 1, !.outcome = Combine(b.kind, outcome)]
  OBVIOUS
<1>12. /\ e \in OperatorSpace /\ e.what = "operator" /\ e.on = b.on /\ e.kind = b.kind
       /\ e.children = b.children /\ e.next = b.next + 1
       /\ e.outcome = Combine(b.kind, outcome)
  <2>1. PICK o \in Reports : o = Combine(b.kind, outcome)
    BY <1>10, CombineType
  <2>2. PICK n \in Nat : n = b.next + 1
    BY <1>9 DEF OperatorSpace
  <2>3. e = [b EXCEPT !.next = n, !.outcome = o]
    BY <1>11, <2>1, <2>2, Zenon
  <2>4. b \in OperatorSpace
    BY <1>9
  <2>5. e \in OperatorSpace
    BY <2>3, <2>4 DEF OperatorSpace
  <2>6. /\ e.what = b.what /\ e.on = b.on /\ e.kind = b.kind /\ e.children = b.children
        /\ e.next = n /\ e.outcome = o
    BY <2>3, <2>4 DEF OperatorSpace
  <2>. QED
    BY <1>3, <2>1, <2>2, <2>5, <2>6
<1>13. stack' = [stack EXCEPT ![t] = [Pop(stack[t]) EXCEPT ![d] = e]]
  <2>1. stack' = [stack EXCEPT ![t] = [Pop(s) EXCEPT ![Len(Pop(s))] = e]]
    BY <1>3, <1>11, Zenon
  <2>. QED
    BY <1>2, <1>7, <2>1
<1>14. PICK c : c = f.node
  OBVIOUS
<1>15. c \in 1 .. Len(nodes) /\ c # NoNode
  BY <1>9, <1>10, <1>14 DEF OperatorInv, NoNode
<1>16. Finishing(t, d + 1, f, c, outcome)
  BY <1>3, <1>4, <1>8, <1>14, <1>15 DEF Finishing
<1>17. /\ OneFinished(c, outcome)
       /\ \A u, j, g : At(u, j, g) /\ ~(u = t /\ j = d + 1) => Undisturbed(g)
  BY <1>0, <1>16, FinishFacts
<1>18. ClaimInv(e)'
  <2>1. Undisturbed(b)
    BY <1>8, <1>17
  <2>2. ClaimInv(b)'
    BY <1>3, <2>1 DEF Undisturbed
  <2>. QED
    BY <1>12, <2>2 DEF ClaimInv
<1>19. e \in FrameSpace
  BY <1>12 DEF FrameSpace
<1>20. /\ \A u \in Threads : Depth(u)' = IF u = t THEN d ELSE Depth(u)
       /\ \A u, k, g : At(u, k, g)' <=>
            \/ At(u, k, g) /\ (u = t => k \in 1 .. d - 1)
            \/ u = t /\ k = d /\ g = e
  BY <1>0, <1>5, <1>7, <1>13, <1>19, SwapAt
<1>21. OperatorInv(t, d, e)'
  <2>1. PICK x, n : x = b.next /\ n = Len(b.children)
    OBVIOUS
  <2>2. x \in 1 .. n /\ n \in Nat /\ x \in Nat
    BY <1>10, <2>1
  <2>3. PICK s1 : s1 = b.children
    OBVIOUS
  <2>4. /\ b.on \in 1 .. Len(nodes) /\ nodes[b.on].started
        /\ \A i \in 1 .. n : s1[i] \in 1 .. Len(nodes) /\ nodes[s1[i]].index = i - 1
        /\ \A i, j \in 1 .. n : s1[i] = s1[j] => i = j
        /\ \A i \in 1 .. x - 1 : nodes[s1[i]].finished
        /\ \A i \in 1 .. x - 2 : Combine(b.kind, nodes[s1[i]].outcome) = "none"
        /\ "none" = IF x = 1 THEN "none" ELSE Combine(b.kind, nodes[s1[x - 1]].outcome)
        /\ \A i \in x + 1 .. n : ~nodes[s1[i]].started
    BY <1>9, <1>10, <2>1, <2>3 DEF OperatorInv
  <2>5. /\ Len(nodes') = Len(nodes) /\ nodes'[c] = Finished(nodes[c], outcome)
        /\ \A m \in 1 .. Len(nodes) : m # c => nodes'[m] = nodes[m]
        /\ \A m \in 1 .. Len(nodes) :
             /\ nodes'[m].started = nodes[m].started /\ nodes'[m].index = nodes[m].index
             /\ nodes[m].finished => nodes'[m].finished
    BY <1>17 DEF OneFinished
  <2>6. nodes'[c].finished /\ nodes'[c].outcome = outcome /\ c = s1[x]
    <3>1. PICK r \in NodeSpace : r = nodes[c]
      BY <1>0, <1>15, NodeFacts
    <3>2. PICK q : q = nodes'[c] /\ q = Finished(r, outcome)
      BY <2>5, <3>1
    <3>. QED
      BY <1>10, <1>14, <2>1, <2>3, <3>2, FinishedFacts
  <2>7. \A i \in 1 .. x - 1 : i \in 1 .. n /\ i # x
    BY <2>2
  <2>8. \A i \in 1 .. x - 1 : nodes'[s1[i]] = nodes[s1[i]]
    BY <2>2, <2>4, <2>5, <2>6, <2>7
  <2>9. \A i \in 1 .. x : nodes'[s1[i]].finished
    <3> SUFFICES ASSUME NEW i \in 1 .. x PROVE nodes'[s1[i]].finished
      OBVIOUS
    <3>1. i = x \/ i \in 1 .. x - 1
      BY <2>2
    <3>. QED
      BY <2>4, <2>6, <2>8, <3>1
  <2>10. \A i \in 1 .. x - 1 : Combine(b.kind, nodes'[s1[i]].outcome) = "none"
    <3> SUFFICES ASSUME NEW i \in 1 .. x - 1
                 PROVE  Combine(b.kind, nodes'[s1[i]].outcome) = "none"
      OBVIOUS
    <3>1. i \in 1 .. x - 2 \/ (i = x - 1 /\ x # 1)
      BY <2>2
    <3>. QED
      BY <2>4, <2>8, <3>1
  <2>11. \A i \in x + 1 .. n : ~nodes'[s1[i]].started
    <3>1. \A i \in x + 1 .. n : i \in 1 .. n
      BY <2>2
    <3>. QED
      BY <2>4, <2>5, <3>1
  <2>12. \A i \in 1 .. n : s1[i] \in 1 .. Len(nodes') /\ nodes'[s1[i]].index = i - 1
    BY <2>4, <2>5
  <2>13. b.on \in 1 .. Len(nodes') /\ nodes'[b.on].started
    BY <2>4, <2>5
  <2>14. \A g : ~At(t, d + 1, g)'
    <3>1. d + 1 # d /\ d + 1 \notin 1 .. d - 1
      OBVIOUS
    <3>. QED
      BY <1>20, <3>1
  <2>15. PICK y : y = x + 1
    OBVIOUS
  <2>16. /\ e.on = b.on /\ e.children = s1 /\ Len(e.children) = n /\ e.next = y /\ e.kind = b.kind
         /\ e.outcome = Combine(b.kind, nodes'[s1[x]].outcome)
    BY <1>12, <2>1, <2>3, <2>6, <2>15
  <2>17. y \in 1 .. n + 1 /\ y - 1 = x /\ y - 2 = x - 1 /\ y # 1 /\ y \in Nat
    BY <2>2, <2>15
  <2>18. \A i \in y + 1 .. n : ~nodes'[s1[i]].started
    <3>1. \A i \in y + 1 .. n : i \in x + 1 .. n
      BY <2>2, <2>15
    <3>. QED
      BY <2>11, <3>1
  <2>19. y <= n => ~nodes'[s1[y]].started
    <3>1. y <= n => y \in x + 1 .. n
      BY <2>2, <2>15
    <3>. QED
      BY <2>11, <3>1
  <2>. QED
    BY SMTT(30), <2>4, <2>9, <2>10, <2>12, <2>13, <2>14, <2>16, <2>17, <2>18, <2>19 DEF OperatorInv
<1>22. /\ nodes' \in Seq(NodeSpace) /\ Len(nodes') = Len(nodes)
       /\ returned' \in Seq(Reports \cup {"panic"}) /\ Len(returned') = Len(returned)
       /\ \A n \in 1 .. Len(nodes) : nodes[n].opaque => nodes'[n].opaque
  BY <1>17 DEF OneFinished
<1>23. (\A u, j, g : At(u, j, g)' /\ g.what = "operator" =>
          \E v, i, h : At(v, i, h) /\ h.what = "operator" /\ h.children = g.children) => Grows
  BY <1>0, <1>17, FinishGrows
<1>24. TypeOK' /\ Grows => Nodes'
  BY <1>0, <1>3, <1>17, FinishNodes
<1>. QED
  <2>1. d \in Nat \ {0} /\ Depth(t) = d + 1
    BY <1>5, <1>7
  <2>2. At(t, d, b) /\ b.what # "callback" /\ e.what = b.what
    BY <1>3, <1>8, <1>12
  <2>3. /\ e.what = "operator" => e.on = b.on /\ e.children = b.children
        /\ e.what = "operator" => OperatorInv(t, d, e)' /\ ClaimInv(e)'
    BY <1>12, <1>18, <1>21
  <2>4. \A u, j, g : At(u, j, g) /\ ~(u = t /\ j = d + 1) => Undisturbed(g)
    BY <1>17
  <2>5. UNCHANGED <<panicErr, todo, frozen, operators, answer, intruders>>
    BY <1>3
  <2>. QED
    BY <1>13, <1>19, <1>22, <1>23, <1>24, <2>1, <2>2, <2>3, <2>4, <2>5, ReturnInv

LEMMA NestedReturnsInv ==
    ASSUME TraceInv, NEW t \in Threads, NEW outcome \in Outcomes, NestedReturns(t, outcome)
    PROVE  TraceInv'
<1>0. TypeOK /\ Frames /\ Apart /\ Nodes
  BY DEF TraceInv
<1>1. PICK f, c, next : /\ f = Top(t) /\ c = f.node
                        /\ next = IF f.role = "condition" /\ outcome = "true"
                                  THEN "action" ELSE "condition"
  OBVIOUS
<1>2. PICK s \in Seq(FrameSpace) : s = stack[t]
  BY <1>0 DEF TypeOK
<1>3. /\ In(t, "callback") /\ f.role # "own"
      /\ IF c = NoNode THEN UNCHANGED <<nodes, returned>>
         ELSE /\ nodes' = [nodes EXCEPT ![c] = Finished(@, outcome)]
              /\ returned' = [returned EXCEPT ![c] = outcome]
      /\ stack' = [stack EXCEPT ![t] = [Pop(s) EXCEPT ![Len(Pop(s))].next = next]]
      /\ UNCHANGED <<panicErr, todo, frozen, operators, answer, intruders>>
  BY <1>1, <1>2, Zenon DEF NestedReturns
<1>4. At(t, Depth(t), f) /\ Depth(t) \in Nat \ {0} /\ f.what = "callback"
  BY <1>0, <1>1, <1>3, InFacts
<1>5. CallbackInv(t, Depth(t), f)
  BY <1>0, <1>4 DEF Frames
<1>6. PICK d \in Nat \ {0} : d = Depth(t) - 1 /\ Depth(t) = d + 1
  <2>1. Depth(t) # 1
    BY <1>3, <1>5 DEF CallbackInv
  <2>. QED
    BY <1>4, <2>1
<1>7. PICK b : b = s[d]
  OBVIOUS
<1>8. At(t, d, b) /\ At(t, d + 1, f)
  <2>1. d \in 1 .. Depth(t)
    BY <1>6
  <2>. QED
    BY <1>2, <1>4, <1>6, <1>7, <2>1 DEF At, Depth
<1>9. b.what = "fire" /\ b \in FireSpace
  <2>1. b.what = "fire"
    BY <1>3, <1>5, <1>6, <1>8 DEF CallbackInv
  <2>. QED
    BY <1>0, <1>8, <2>1, AtFacts
<1>10. PICK e : e = [b EXCEPT !.next = next]
  OBVIOUS
<1>11. e \in FrameSpace /\ e.what = "fire"
  BY <1>1, <1>9, <1>10 DEF FrameSpace, FireSpace
<1>12. stack' = [stack EXCEPT ![t] = [Pop(stack[t]) EXCEPT ![d] = e]]
  <2>0. Len(s) = d + 1
    BY <1>2, <1>6 DEF Depth
  <2>1. d \in 0 .. Len(s) /\ d \in 1 .. d /\ Len(s) - 1 = d
    BY <2>0
  <2>2. Len(Pop(s)) = d /\ Pop(s)[d] = b
    BY <1>7, <2>1, Prefix DEF Pop
  <2>3. PICK y : y = [Pop(s)[Len(Pop(s))] EXCEPT !.next = next]
    OBVIOUS
  <2>4. stack' = [stack EXCEPT ![t] = [Pop(s) EXCEPT ![Len(Pop(s))] = y]]
    BY <1>3, <2>3
  <2>5. y = e
    BY <1>10, <2>2, <2>3
  <2>. QED
    BY <1>2, <2>2, <2>4, <2>5
<1>13. /\ nodes' \in Seq(NodeSpace) /\ Len(nodes') = Len(nodes)
       /\ returned' \in Seq(Reports \cup {"panic"}) /\ Len(returned') = Len(returned)
       /\ \A n \in 1 .. Len(nodes) : nodes[n].opaque => nodes'[n].opaque
       /\ \A u, j, g : At(u, j, g) /\ ~(u = t /\ j = d + 1) => Undisturbed(g)
       /\ (\A u, j, g : At(u, j, g)' /\ g.what = "operator" =>
             \E v, i, h : At(v, i, h) /\ h.what = "operator" /\ h.children = g.children)
          => Grows
       /\ TypeOK' /\ Grows => Nodes'
  <2>1. CASE c = NoNode
    <3>1. nodes' = nodes /\ returned' = returned
      BY <1>3, <2>1
    <3>2. /\ nodes' \in Seq(NodeSpace) /\ Len(nodes') = Len(nodes)
          /\ returned' \in Seq(Reports \cup {"panic"}) /\ Len(returned') = Len(returned)
          /\ \A n \in 1 .. Len(nodes) : nodes[n].opaque => nodes'[n].opaque
      BY <1>0, <3>1 DEF TypeOK
    <3>3. \A u, j, g : At(u, j, g) => Undisturbed(g)
      BY <1>0, <3>1, QuietFrames
    <3>4. (\A u, j, g : At(u, j, g)' /\ g.what = "operator" =>
             \E v, i, h : At(v, i, h) /\ h.what = "operator" /\ h.children = g.children)
          => Grows
      BY <1>0, <3>1, QuietGrows
    <3>5. ASSUME TypeOK', Grows PROVE Nodes'
      BY <1>0, <1>3, <3>1, <3>5, NodesKept
    <3>. QED
      BY <3>2, <3>3, <3>4, <3>5
  <2>2. CASE c # NoNode
    <3>1. Finishing(t, d + 1, f, c, outcome)
      BY <1>1, <1>3, <1>4, <1>8, <2>2 DEF Finishing
    <3>2. /\ OneFinished(c, outcome)
          /\ \A u, j, g : At(u, j, g) /\ ~(u = t /\ j = d + 1) => Undisturbed(g)
      BY <1>0, <3>1, FinishFacts
    <3>3. /\ nodes' \in Seq(NodeSpace) /\ Len(nodes') = Len(nodes)
          /\ returned' \in Seq(Reports \cup {"panic"}) /\ Len(returned') = Len(returned)
          /\ \A n \in 1 .. Len(nodes) : nodes[n].opaque => nodes'[n].opaque
      BY <3>2 DEF OneFinished
    <3>4. (\A u, j, g : At(u, j, g)' /\ g.what = "operator" =>
             \E v, i, h : At(v, i, h) /\ h.what = "operator" /\ h.children = g.children)
          => Grows
      BY <1>0, <3>2, FinishGrows
    <3>5. TypeOK' /\ Grows => Nodes'
      BY <1>0, <1>3, <3>2, FinishNodes
    <3>. QED
      BY <3>2, <3>3, <3>4, <3>5
  <2>. QED
    BY <2>1, <2>2
<1>14. At(t, d, b) /\ b.what # "callback" /\ e.what = b.what
  BY <1>8, <1>9, <1>11
<1>15. /\ e.what = "operator" => e.on = b.on /\ e.children = b.children
       /\ e.what = "operator" => OperatorInv(t, d, e)' /\ ClaimInv(e)'
  BY <1>11
<1>16. UNCHANGED <<panicErr, todo, frozen, operators, answer, intruders>>
  BY <1>3
<1>. QED
  BY <1>6, <1>11, <1>12, <1>13, <1>14, <1>15, <1>16, ReturnInv

-----------------------------------------------------------------------------
(* An operator answers. *)

LEMMA AnsweredFacts ==
    ASSUME NEW r \in NodeSpace, NEW o \in Outcomes, NEW q, q = Answered(r, o)
    PROVE  /\ q \in NodeSpace
           /\ q.kind = r.kind /\ q.index = r.index /\ q.reason = r.reason
           /\ q.started = r.started /\ q.operator = r.operator /\ q.children = r.children
           /\ q.finished = r.finished /\ q.opaque = r.opaque
           /\ q.outcome = IF r.finished THEN r.outcome ELSE o
<1>1. CASE r.finished
  BY <1>1 DEF Answered
<1>2. CASE ~r.finished
  <2>1. q = [r EXCEPT !.outcome = o]
    BY <1>2 DEF Answered
  <2>2. q \in NodeSpace
    BY <2>1 DEF NodeSpace, Reports
  <2>. QED
    BY <1>2, <2>1, <2>2 DEF NodeSpace
<1>. QED
  BY <1>1, <1>2

(* Outcome o follows from the children of operator op of t, none of which  *)
(* another operator will start.                                            *)
Decided(t, op, o) ==
    /\ \A i \in 1 .. Len(op.children) :
         op.children[i] \in 1 .. Len(nodes) /\ nodes[op.children[i]].index = i - 1
    /\ \E last \in 0 .. Len(op.children) :
        /\ \A i \in 1 .. last : nodes[op.children[i]].finished
        /\ \A i \in last + 1 .. Len(op.children) :
             /\ ~nodes[op.children[i]].started
             /\ \A u, j, g : At(u, j, g) /\ g.what = "operator" /\ ~(u = t /\ j = Depth(t)) =>
                  \A x \in 1 .. Len(g.children) : g.children[x] # op.children[i]
        /\ \A i \in 1 .. last - 1 : Combine(op.kind, nodes[op.children[i]].outcome) = "none"
        /\ IF last > 0 /\ Combine(op.kind, nodes[op.children[last]].outcome) # "none"
           THEN o = Combine(op.kind, nodes[op.children[last]].outcome)
           ELSE last = Len(op.children) /\ o = IF op.kind = "All" THEN "true" ELSE "false"

LEMMA AnswerFollows ==
    ASSUME TypeOK, Frames, Apart, NEW t \in Threads, NEW op, At(t, Depth(t), op),
           op.what = "operator", op.outcome # "none" \/ op.next > Len(op.children),
           NEW ans, ans = Answer(op)
    PROVE  ans \in Outcomes /\ Decided(t, op, ans)
<1>1. OperatorInv(t, Depth(t), op) /\ op \in OperatorSpace
  BY AtFacts DEF Frames
<1>2. /\ op.next \in 1 .. Len(op.children) + 1 /\ Len(op.children) \in Nat
      /\ op.children \in Seq(Nat) /\ op.outcome \in Reports
  BY <1>1 DEF OperatorInv, OperatorSpace
<1>3. PICK x, n, s : x = op.next /\ n = Len(op.children) /\ s = op.children
  OBVIOUS
<1>4. x \in 1 .. n + 1 /\ n \in Nat /\ x \in Nat
  BY <1>2, <1>3
<1>5. /\ \A i \in 1 .. n : s[i] \in 1 .. Len(nodes) /\ nodes[s[i]].index = i - 1
      /\ \A i \in 1 .. x - 1 : nodes[s[i]].finished
      /\ \A i \in 1 .. x - 2 : Combine(op.kind, nodes[s[i]].outcome) = "none"
      /\ op.outcome = IF x = 1 THEN "none" ELSE Combine(op.kind, nodes[s[x - 1]].outcome)
      /\ \A i \in x + 1 .. n : ~nodes[s[i]].started
      /\ x <= n => ~nodes[s[x]].started
  BY <1>1, <1>3 DEF OperatorInv
<1>6. PICK last \in 0 .. n : last = x - 1
  BY <1>4
<1>7. \A i \in last + 1 .. n :
        /\ ~nodes[s[i]].started
        /\ \A u, j, g : At(u, j, g) /\ g.what = "operator" /\ ~(u = t /\ j = Depth(t)) =>
             \A y \in 1 .. Len(g.children) : g.children[y] # s[i]
  <2> SUFFICES ASSUME NEW i \in last + 1 .. n
               PROVE  /\ ~nodes[s[i]].started
                      /\ \A u, j, g : /\ At(u, j, g) /\ g.what = "operator"
                                      /\ ~(u = t /\ j = Depth(t))
                           => \A y \in 1 .. Len(g.children) : g.children[y] # s[i]
    OBVIOUS
  <2>1. i = x \/ i \in x + 1 .. n
    BY <1>4, <1>6
  <2>2. i \in 1 .. n
    BY <1>4, <1>6
  <2>3. x = i => x <= n
    BY <1>4, <2>2
  <2>4. ~nodes[s[i]].started
    BY <1>5, <2>1, <2>3
  <2>5. ASSUME NEW u, NEW j, NEW g, At(u, j, g), g.what = "operator", ~(u = t /\ j = Depth(t)),
               NEW y \in 1 .. Len(g.children)
        PROVE  g.children[y] # s[i]
    BY <1>3, <2>2, <2>5 DEF Apart
  <2>. QED
    BY <2>4, <2>5
<1>8. \A i \in 1 .. last - 1 : Combine(op.kind, nodes[s[i]].outcome) = "none"
  <2>1. last - 1 = x - 2
    BY <1>4, <1>6
  <2>. QED
    BY <1>5, <2>1
<1>9. IF last > 0 /\ Combine(op.kind, nodes[s[last]].outcome) # "none"
      THEN ans = Combine(op.kind, nodes[s[last]].outcome)
      ELSE last = n /\ ans = IF op.kind = "All" THEN "true" ELSE "false"
  <2>1. last > 0 <=> x # 1
    BY <1>4, <1>6
  <2>2. x > n => last = n
    BY <1>4, <1>6
  <2>. QED
    BY <1>3, <1>5, <1>6, <2>1, <2>2 DEF Answer
<1>10. ans \in Outcomes
  BY <1>2 DEF Answer, Outcomes, Reports
<1>11. \A i \in 1 .. last : nodes[s[i]].finished
  BY <1>5, <1>6
<1>12. \E l \in 0 .. Len(op.children) :
         /\ \A i \in 1 .. l : nodes[op.children[i]].finished
         /\ \A i \in l + 1 .. Len(op.children) :
              /\ ~nodes[op.children[i]].started
              /\ \A u, j, g : At(u, j, g) /\ g.what = "operator" /\ ~(u = t /\ j = Depth(t)) =>
                   \A y \in 1 .. Len(g.children) : g.children[y] # op.children[i]
         /\ \A i \in 1 .. l - 1 : Combine(op.kind, nodes[op.children[i]].outcome) = "none"
         /\ IF l > 0 /\ Combine(op.kind, nodes[op.children[l]].outcome) # "none"
            THEN ans = Combine(op.kind, nodes[op.children[l]].outcome)
            ELSE /\ l = Len(op.children)
                 /\ ans = IF op.kind = "All" THEN "true" ELSE "false"
  <2>1. last \in 0 .. Len(op.children)
    BY <1>3
  <2> USE <2>1
  <2> WITNESS last \in 0 .. Len(op.children)
  <2>2. \A i \in 1 .. last : nodes[op.children[i]].finished
    BY <1>3, <1>11
  <2>3. \A i \in last + 1 .. Len(op.children) :
          /\ ~nodes[op.children[i]].started
          /\ \A u, j, g : At(u, j, g) /\ g.what = "operator" /\ ~(u = t /\ j = Depth(t)) =>
               \A y \in 1 .. Len(g.children) : g.children[y] # op.children[i]
    BY <1>3, <1>7
  <2>4. \A i \in 1 .. last - 1 : Combine(op.kind, nodes[op.children[i]].outcome) = "none"
    BY <1>3, <1>8
  <2>5. IF last > 0 /\ Combine(op.kind, nodes[op.children[last]].outcome) # "none"
        THEN ans = Combine(op.kind, nodes[op.children[last]].outcome)
        ELSE /\ last = Len(op.children)
             /\ ans = IF op.kind = "All" THEN "true" ELSE "false"
    BY <1>3, <1>9
  <2>. QED
    BY <2>2, <2>3, <2>4, <2>5
<1>. QED
  BY <1>3, <1>5, <1>10, <1>12 DEF Decided

LEMMA OperatorReturnsInv ==
    ASSUME TraceInv, NEW t \in Threads, OperatorReturns(t)
    PROVE  TraceInv'
<1>0. TypeOK /\ Frames /\ Apart /\ Nodes /\ Copies /\ StayOut
  BY DEF TraceInv
<1>1. PICK op, m, ans : op = Top(t) /\ m = op.on /\ ans = Answer(op)
  OBVIOUS
<1>2. /\ In(t, "operator") /\ (op.outcome # "none" \/ op.next > Len(op.children))
      /\ nodes' = [nodes EXCEPT ![m] = Answered(@, ans)]
      /\ answer' = [answer EXCEPT ![m] =
                      IF operators[m] = 1 /\ @ = "none" /\ Open(m) THEN ans ELSE @]
      /\ stack' = [stack EXCEPT ![t] = Pop(@)]
      /\ UNCHANGED <<panicErr, todo, frozen, operators, returned, intruders>>
  BY <1>1 DEF OperatorReturns
<1>3. At(t, Depth(t), op) /\ op.what = "operator" /\ Depth(t) \in Nat \ {0}
  BY <1>0, <1>1, <1>2, InFacts
<1>4. OperatorInv(t, Depth(t), op) /\ ClaimInv(op)
  BY <1>0, <1>3 DEF Frames
<1>5. PICK d \in 0 .. Depth(t) :
        /\ d = Depth(t) - 1 /\ stack' = [stack EXCEPT ![t] = SubSeq(@, 1, d)]
        /\ \A f : At(t, d, f) => f.what # "operator"
  BY <1>0, <1>2, PopFacts
<1>6. /\ stack' \in [Threads -> Seq(FrameSpace)]
      /\ \A u \in Threads : Depth(u)' = IF u = t THEN d ELSE Depth(u)
      /\ \A u, k, f : At(u, k, f)' <=> At(u, k, f) /\ (u = t => k \in 1 .. d)
  BY ZenonT(30), <1>0, <1>5, CutAt
<1>7. ans \in Outcomes /\ Decided(t, op, ans)
  <2>1. /\ At(t, Depth(t), op) /\ op.what = "operator" /\ ans = Answer(op)
        /\ op.outcome # "none" \/ op.next > Len(op.children)
    BY <1>1, <1>2, <1>3
  <2>. QED
    BY <1>0, <2>1, AnswerFollows
<1>8. /\ Len(nodes) \in Nat \ {0} /\ nodes \in Seq(NodeSpace) /\ m \in 1 .. Len(nodes)
      /\ nodes[m].started
  BY <1>0, <1>1, <1>4, NodeFacts DEF TypeOK, OperatorInv
<1>9. PICK r \in NodeSpace : r = nodes[m]
  BY <1>0, <1>8, NodeFacts
<1>10. PICK q : q = Answered(r, ans)
  OBVIOUS
<1>11. /\ q \in NodeSpace
       /\ q.kind = r.kind /\ q.index = r.index /\ q.reason = r.reason
       /\ q.started = r.started /\ q.operator = r.operator /\ q.children = r.children
       /\ q.finished = r.finished /\ q.opaque = r.opaque
       /\ q.outcome = IF r.finished THEN r.outcome ELSE ans
  BY <1>7, <1>10, AnsweredFacts
<1>12. /\ nodes' \in Seq(NodeSpace) /\ Len(nodes') = Len(nodes)
       /\ \A n \in 1 .. Len(nodes) : nodes'[n] = IF n = m THEN q ELSE nodes[n]
  <2>1. nodes' = [nodes EXCEPT ![m] = q]
    BY <1>2, <1>9, <1>10
  <2>. QED
    BY <1>8, <1>11, <2>1, ExceptSeq
<1>13. /\ answer' \in Seq(Reports) /\ Len(answer') = Len(answer)
       /\ \A n \in 1 .. Len(nodes) : answer'[n] =
            IF n = m /\ operators[m] = 1 /\ answer[m] = "none" /\ Open(m) THEN ans ELSE answer[n]
  <2>1. answer \in Seq(Reports) /\ Len(answer) = Len(nodes) /\ m \in 1 .. Len(answer)
    BY <1>0, <1>8 DEF TypeOK
  <2>2. PICK a : a = IF operators[m] = 1 /\ answer[m] = "none" /\ Open(m) THEN ans ELSE answer[m]
    OBVIOUS
  <2>3. a \in Reports
    BY <1>7, <2>1, <2>2, ElementOfSeq DEF Reports
  <2>4. answer' = [answer EXCEPT ![m] = a]
    BY <1>2, <2>2, Zenon
  <2>5. /\ answer' \in Seq(Reports) /\ Len(answer') = Len(answer)
        /\ \A n \in 1 .. Len(nodes) : answer'[n] = IF n = m THEN a ELSE answer[n]
    BY <2>1, <2>3, <2>4, ExceptSeq
  <2>. QED
    BY <2>2, <2>5
<1>14. TypeOK'
  <2>1. nodes' # <<>>
    BY <1>8, <1>12
  <2>. QED
    BY <1>0, <1>2, <1>6, <1>12, <1>13, <2>1 DEF TypeOK
<1>15. \A n \in 1 .. Len(nodes) :
         /\ nodes'[n].index = nodes[n].index /\ nodes'[n].reason = nodes[n].reason
         /\ nodes'[n].started = nodes[n].started /\ nodes'[n].finished = nodes[n].finished
         /\ nodes'[n].opaque = nodes[n].opaque
         /\ nodes[n].finished => nodes'[n].outcome = nodes[n].outcome
  BY <1>9, <1>11, <1>12
<1>16. Grows
  <2>1. \A u, k, f : At(u, k, f)' /\ f.what = "operator" => At(u, k, f)
    BY <1>6
  <2>2. \A n \in 1 .. Len(nodes) : Dormant(n) => Dormant(n)' /\ n # m
    BY <1>8, <1>15, <2>1, OwnedKept DEF Dormant
  <2>. QED
    BY <1>2, <1>8, <1>12, <1>15, <2>2 DEF Grows
<1>17. Frames'
  <2>1. ASSUME NEW u, NEW k, NEW f, At(u, k, f)' PROVE Undisturbed(f)
    <3>1. At(u, k, f) /\ ~(u = t /\ k = Depth(t))
      BY <1>3, <1>5, <1>6, <2>1
    <3>2. ASSUME f.what = "callback", f.node # NoNode PROVE ~nodes'[f.node].finished
      <4>1. CallbackInv(u, k, f)
        BY <1>0, <3>1, <3>2 DEF Frames
      <4>2. f.node \in 1 .. Len(nodes) /\ ~nodes[f.node].finished
        BY <1>8, <3>2, <4>1 DEF CallbackInv, NoNode
      <4>. QED
        BY <1>15, <4>2
    <3>3. ASSUME f.what = "operator" PROVE ClaimInv(f)'
      <4>1. OperatorInv(u, k, f) /\ ClaimInv(f)
        BY <1>0, <3>1, <3>3 DEF Frames
      <4>2. f.on \in 1 .. Len(nodes)
        BY <4>1 DEF OperatorInv
      <4>3. CASE f.on # m
        BY <1>12, <4>1, <4>2, <4>3 DEF ClaimInv
      <4>4. CASE f.on = m
        <5>1. nodes[m].opaque
          BY <1>0, <1>1, <1>3, <3>1, <3>3, <4>4 DEF Apart
        <5>2. nodes'[m].opaque
          BY <1>8, <1>15, <5>1
        <5>. QED
          BY <4>4, <5>2 DEF ClaimInv
      <4>. QED
        BY <4>3, <4>4
    <3>4. ASSUME f.what = "operator", NEW i \in 1 .. Len(f.children), ~nodes[f.children[i]].started
          PROVE  ~nodes'[f.children[i]].started
      <4>1. f.children[i] \in 1 .. Len(nodes)
        BY <1>0, <3>1, <3>4 DEF Frames, OperatorInv
      <4>. QED
        BY <1>15, <3>4, <4>1
    <3>. QED
      BY <3>2, <3>3, <3>4 DEF Undisturbed
  <2>. QED
    BY <1>0, <1>5, <1>6, <1>14, <1>16, <2>1, FramesCut
<1>18. Apart'
  <2>1. ASSUME NEW u, NEW k, NEW g, At(u, k, g), g.what = "operator", nodes[g.on].opaque
        PROVE  nodes'[g.on].opaque
    <3>1. g.on \in 1 .. Len(nodes)
      BY <1>0, <2>1 DEF Frames, OperatorInv
    <3>. QED
      BY <1>15, <2>1, <3>1
  <2>. QED
    BY <1>0, <1>6, <2>1, ApartCut
<1>19. ASSUME ~r.opaque, NEW c, NEW o, NEW children, c = r.kind, o = q.outcome, children = r.children
       PROVE  Follows(c, o, children)'
  <2>1. ~r.finished /\ c = op.kind /\ children = op.children /\ o = ans
    BY <1>1, <1>4, <1>9, <1>11, <1>19 DEF ClaimInv
  <2>2. PICK last \in 0 .. Len(children) :
          /\ \A i \in 1 .. last : nodes[children[i]].finished
          /\ \A i \in last + 1 .. Len(children) :
               /\ ~nodes[children[i]].started
               /\ \A u, j, g : At(u, j, g) /\ g.what = "operator" /\ ~(u = t /\ j = Depth(t)) =>
                    \A x \in 1 .. Len(g.children) : g.children[x] # children[i]
          /\ \A i \in 1 .. last - 1 : Combine(c, nodes[children[i]].outcome) = "none"
          /\ IF last > 0 /\ Combine(c, nodes[children[last]].outcome) # "none"
             THEN o = Combine(c, nodes[children[last]].outcome)
             ELSE last = Len(children) /\ o = IF c = "All" THEN "true" ELSE "false"
    BY <1>7, <2>1 DEF Decided
  <2>3. Len(children) \in Nat /\ last \in Nat /\ last <= Len(children)
    <3>1. children \in Seq(Nat)
      BY <1>19 DEF NodeSpace
    <3>. QED
      BY <3>1
  <2>4. \A i \in 1 .. Len(children) :
          children[i] \in 1 .. Len(nodes) /\ nodes[children[i]].index = i - 1
    BY <1>7, <2>1 DEF Decided
  <2>5. \A i \in 1 .. Len(children) :
          children[i] \in 1 .. Len(nodes') /\ nodes'[children[i]].index = i - 1
    BY <1>12, <1>15, <2>4
  <2>6. \A i \in 1 .. last : /\ nodes'[children[i]].finished
                             /\ nodes'[children[i]].outcome = nodes[children[i]].outcome
    <3>1. \A i \in 1 .. last : i \in 1 .. Len(children)
      BY <2>3
    <3>. QED
      BY <1>15, <2>2, <2>4, <3>1
  <2>7. ASSUME NEW i \in last + 1 .. Len(children) PROVE Dormant(children[i])'
    <3>1. children[i] \in 1 .. Len(nodes)
      BY <2>3, <2>4
    <3>2. ~nodes'[children[i]].started
      BY <1>15, <2>2, <3>1
    <3>3. ASSUME NEW u, NEW j, NEW g, At(u, j, g)', g.what = "operator",
                 NEW x \in 1 .. Len(g.children), g.children[x] = children[i]
          PROVE  FALSE
      <4>1. At(u, j, g) /\ ~(u = t /\ j = Depth(t))
        BY <1>3, <1>5, <1>6, <3>3
      <4>. QED
        BY <2>2, <3>3, <4>1
    <3>4. ~Owned(children[i])'
      BY <3>3 DEF Owned
    <3>. QED
      BY <3>2, <3>4 DEF Dormant
  <2>8. \A i \in 1 .. last - 1 : Combine(c, nodes'[children[i]].outcome) = "none"
    <3>1. \A i \in 1 .. last - 1 : i \in 1 .. last
      BY <2>3
    <3>. QED
      BY <2>2, <2>6, <3>1
  <2>9. IF last > 0 /\ Combine(c, nodes'[children[last]].outcome) # "none"
        THEN o = Combine(c, nodes'[children[last]].outcome)
        ELSE last = Len(children) /\ o = IF c = "All" THEN "true" ELSE "false"
    <3>1. last > 0 => last \in 1 .. last
      BY <2>3
    <3>. QED
      BY <2>2, <2>6, <3>1
  <2>10. \A i \in 1 .. last : nodes'[children[i]].finished
    BY <2>6
  <2>. QED
    BY <2>5, <2>7, <2>8, <2>9, <2>10 DEF Follows
<1>20. Nodes'
  <2>1. ASSUME NEW n \in 1 .. Len(nodes), n # m PROVE NodeInv(n)'
    <3>1. /\ nodes'[n] = nodes[n] /\ operators'[n] = operators[n] /\ answer'[n] = answer[n]
          /\ NodeInv(n)
      BY <1>0, <1>2, <1>12, <1>13, <2>1 DEF Nodes
    <3>. QED
      BY <1>0, <1>2, <1>14, <1>16, <3>1, NodeKept
  <2>2. NodeInv(m)'
    <3>1. NodeInv(m) /\ nodes'[m] = q /\ r.operator
      <4>1. NodeInv(m)
        BY <1>0, <1>8 DEF Nodes
      <4>2. r.operator
        BY <1>1, <1>4, <1>9, <4>1 DEF ClaimInv, NodeInv
      <4>. QED
        BY <1>8, <1>12, <4>1, <4>2
    <3>2. \A i \in 1 .. Len(q.children) : q.children[i] \in 1 .. Len(nodes')
      BY <1>9, <1>11, <1>12, <3>1 DEF NodeInv
    <3>3. /\ q.started /\ q.reason = "None"
          /\ q.finished => q.outcome # "none" /\ returned'[m] = q.outcome
      BY <1>2, <1>8, <1>9, <1>11, <3>1 DEF NodeInv
    <3>4. ASSUME ~q.opaque, m \notin DOMAIN frozen'
          PROVE  operators'[m] = 1 /\ answer'[m] = q.outcome
      <4>1. ~r.finished /\ r.outcome = "none" /\ ~r.opaque
        BY <1>1, <1>4, <1>9, <1>11, <3>4 DEF ClaimInv
      <4>2. m \notin DOMAIN frozen /\ operators[m] = 1 /\ answer[m] = "none"
        BY <1>2, <1>9, <3>1, <3>4, <4>1 DEF NodeInv
      <4>3. Open(m)
        BY <1>9, <4>1, <4>2 DEF Open
      <4>. QED
        BY <1>2, <1>8, <1>11, <1>13, <4>1, <4>2, <4>3
    <3>5. ~q.opaque => \A c, o, children : c = q.kind /\ o = q.outcome /\ children = q.children
                                           => Follows(c, o, children)'
      BY <1>11, <1>19
    <3>. QED
      BY <1>11, <3>1, <3>2, <3>3, <3>4, <3>5 DEF NodeInv
  <2>. QED
    BY <1>12, <2>1, <2>2 DEF Nodes
<1>21. Copies'
  <2>1. Depth(Main)' # 0 => Depth(Main) # 0
    BY <1>5, <1>6 DEF Threads
  <2>2. \A n \in DOMAIN frozen : operators'[n] = operators[n] /\ answer'[n] = answer[n]
    <3>1. \A n \in DOMAIN frozen : n \in 1 .. Len(nodes) /\ (n = m => ~Open(m))
      BY <1>0 DEF TypeOK, Open
    <3>. QED
      BY <1>2, <1>13, <3>1
  <2>. QED
    BY <1>0, <1>2, <1>14, <1>16, <2>1, <2>2, CopiesKept
<1>22. StayOut'
  BY <1>0, <1>2 DEF StayOut
<1>. QED
  BY <1>14, <1>17, <1>18, <1>20, <1>21, <1>22 DEF TraceInv

-----------------------------------------------------------------------------
(* An operator starts its next child. *)

LEMMA StartChildInv ==
    ASSUME TraceInv, NEW t \in Threads, StartChild(t)
    PROVE  TraceInv'
<1>0. TypeOK /\ Frames /\ Apart /\ Nodes /\ Copies /\ StayOut
  BY DEF TraceInv
<1>1. PICK op, c : op = Top(t) /\ c = op.children[op.next]
  OBVIOUS
<1>2. /\ In(t, "operator") /\ op.outcome = "none" /\ op.next <= Len(op.children)
      /\ nodes' = [nodes EXCEPT ![c].started = TRUE, ![c].reason = "None"]
      /\ Push(t, Callback(c))
      /\ UNCHANGED <<panicErr, todo, frozen, history>>
  BY <1>1 DEF StartChild
<1>3. UNCHANGED <<panicErr, todo, frozen, operators, answer, returned, intruders>>
  BY <1>2 DEF history
<1>4. At(t, Depth(t), op) /\ op.what = "operator" /\ Depth(t) \in Nat \ {0}
  BY <1>0, <1>1, <1>2, InFacts
<1>5. OperatorInv(t, Depth(t), op) /\ ClaimInv(op) /\ op \in OperatorSpace
  <2>1. OperatorInv(t, Depth(t), op) /\ ClaimInv(op)
    BY <1>0, <1>4 DEF Frames
  <2>. QED
    BY <1>0, <1>4, <2>1, AtFacts
<1>6. PICK x, n, s : x = op.next /\ n = Len(op.children) /\ s = op.children
  OBVIOUS
<1>7. x \in 1 .. n /\ n \in Nat /\ c = s[x]
  <2>1. x \in 1 .. n + 1 /\ x <= n /\ s \in Seq(Nat)
    BY <1>2, <1>5, <1>6 DEF OperatorInv, OperatorSpace
  <2>2. n \in Nat
    BY <1>6, <2>1
  <2>. QED
    BY <1>1, <1>6, <2>1, <2>2
<1>8. /\ op.on \in 1 .. Len(nodes) /\ nodes[op.on].started
      /\ \A i \in 1 .. n : s[i] \in 1 .. Len(nodes) /\ nodes[s[i]].index = i - 1
      /\ \A i, j \in 1 .. n : s[i] = s[j] => i = j
      /\ \A i \in 1 .. x - 1 : nodes[s[i]].finished
      /\ \A i \in x + 1 .. n : ~nodes[s[i]].started
      /\ ~nodes[s[x]].started
  BY <1>5, <1>6, <1>7 DEF OperatorInv
<1>9. Len(nodes) \in Nat \ {0} /\ nodes \in Seq(NodeSpace)
      /\ c \in 1 .. Len(nodes) /\ ~nodes[c].started /\ c # NoNode
  BY <1>0, <1>7, <1>8, NodeFacts DEF TypeOK, NoNode
<1>10. NodeInv(c) /\ ~nodes[c].finished /\ ~nodes[c].operator
  BY <1>0, <1>9 DEF Nodes, NodeInv
<1>11. PICK r \in NodeSpace : r = nodes[c]
  BY <1>0, <1>9, NodeFacts
<1>12. PICK q : q = [r EXCEPT !.started = TRUE, !.reason = "None"]
  OBVIOUS
<1>13. /\ q \in NodeSpace
       /\ q.kind = r.kind /\ q.index = r.index /\ q.reason = "None" /\ q.started
       /\ q.operator = r.operator /\ q.children = r.children /\ q.finished = r.finished
       /\ q.opaque = r.opaque /\ q.outcome = r.outcome
  <2>1. q \in NodeSpace
    BY <1>12 DEF NodeSpace
  <2>. QED
    BY <1>12, <2>1 DEF NodeSpace
<1>14. /\ nodes' \in Seq(NodeSpace) /\ Len(nodes') = Len(nodes)
       /\ \A m \in 1 .. Len(nodes) : nodes'[m] = IF m = c THEN q ELSE nodes[m]
  <2>1. nodes' = [nodes EXCEPT ![c] = q]
    BY <1>2, <1>9, <1>11, <1>12
  <2>. QED
    BY <1>9, <1>13, <2>1, ExceptSeq
<1>15. PICK e, d : e = Callback(c) /\ d = Depth(t) + 1
  OBVIOUS
<1>16. /\ e \in FrameSpace /\ e.what = "callback" /\ e.role = "own" /\ e.node = c
       /\ e.ctx = c /\ Push(t, e)
  BY <1>2, <1>9, <1>15 DEF Callback, FrameSpace, CallbackSpace, Roles
<1>17. /\ stack' \in [Threads -> Seq(FrameSpace)]
       /\ \A u \in Threads : Depth(u)' = IF u = t THEN Depth(t) + 1 ELSE Depth(u)
       /\ \A u, k, f : At(u, k, f)' <=> At(u, k, f) \/ (u = t /\ k = d /\ f = e)
  BY <1>0, <1>15, <1>16, PushAt
<1>18. TypeOK'
  <2>1. nodes' # <<>>
    BY <1>9, <1>14
  <2>. QED
    BY <1>0, <1>3, <1>14, <1>17, <2>1 DEF TypeOK
<1>19. Owned(c)
  BY <1>4, <1>6, <1>7 DEF Owned
<1>20. Grows
  <2>1. \A u, k, f : At(u, k, f)' /\ f.what = "operator" => At(u, k, f)
    BY <1>16, <1>17
  <2>2. \A m \in 1 .. Len(nodes) : Dormant(m) => Dormant(m)' /\ m # c
    <3>1. \A m \in 1 .. Len(nodes) : ~Owned(m) => m # c /\ ~Owned(m)'
      BY <1>19, <2>1, OwnedKept
    <3>. QED
      BY <1>14, <3>1 DEF Dormant
  <2>. QED
    BY <1>3, <1>9, <1>10, <1>11, <1>13, <1>14, <2>2 DEF Grows
<1>21. \A m \in 1 .. Len(nodes) :
         /\ nodes'[m].index = nodes[m].index /\ nodes'[m].finished = nodes[m].finished
         /\ nodes[m].started => nodes'[m] = nodes[m]
         /\ nodes'[m].opaque = nodes[m].opaque
  BY <1>9, <1>11, <1>13, <1>14
<1>22. ASSUME NEW u, NEW k, NEW f, At(u, k, f), f.what = "operator" PROVE ClaimInv(f)'
  <2>1. OperatorInv(u, k, f) /\ ClaimInv(f)
    BY <1>0, <1>22 DEF Frames
  <2>2. f.on \in 1 .. Len(nodes) /\ nodes[f.on].started
    BY <2>1 DEF OperatorInv
  <2>3. nodes'[f.on] = nodes[f.on]
    BY <1>21, <2>2
  <2>. QED
    BY <2>1, <2>3 DEF ClaimInv
<1>23. ASSUME NEW u, NEW k, NEW f, At(u, k, f), ~(u = t /\ k = Depth(t))
       PROVE  /\ k = 1 => f.what = "callback"
              /\ f.what = "callback" => CallbackInv(u, k, f)'
              /\ f.what = "operator" => OperatorInv(u, k, f)' /\ ClaimInv(f)'
  <2>1. ASSUME f.what = "callback", f.node # NoNode PROVE ~nodes'[f.node].finished
    <3>1. CallbackInv(u, k, f)
      BY <1>0, <1>23, <2>1 DEF Frames
    <3>2. f.node \in 1 .. Len(nodes) /\ ~nodes[f.node].finished
      BY <1>9, <2>1, <3>1 DEF CallbackInv, NoNode
    <3>. QED
      BY <1>21, <3>2
  <2>2. ASSUME f.what = "operator", NEW i \in 1 .. Len(f.children), ~nodes[f.children[i]].started
        PROVE  ~nodes'[f.children[i]].started
    <3>1. f.children[i] \in 1 .. Len(nodes)
      BY <1>0, <1>23, <2>2 DEF Frames, OperatorInv
    <3>2. f.children[i] # c
      BY <1>0, <1>4, <1>6, <1>7, <1>23, <2>2 DEF Apart
    <3>. QED
      BY <1>14, <2>2, <3>1, <3>2
  <2>3. Undisturbed(f)
    BY <1>22, <1>23, <2>1, <2>2 DEF Undisturbed
  <2>4. u \in Threads /\ k \in 1 .. Depth(u) /\ Depth(u) \in Nat
    BY <1>0, <1>23, AtFacts
  <2>5. \A g : At(u, k - 1, g)' => At(u, k - 1, g)
    <3>1. ~(u = t /\ k - 1 = d)
      BY <1>15, <2>4
    <3>. QED
      BY <1>17, <3>1
  <2>6. \A g : At(u, k + 1, g)' => At(u, k + 1, g)
    <3>1. ~(u = t /\ k + 1 = d)
      BY <1>4, <1>15, <1>23, <2>4
    <3>. QED
      BY <1>17, <3>1
  <2>7. k = Depth(u)' => k = Depth(u)
    BY <1>17, <2>4
  <2>. QED
    BY <1>0, <1>18, <1>20, <1>23, <2>3, <2>5, <2>6, <2>7, FrameKept
<1>24. ASSUME NEW k, k = Depth(t) PROVE OperatorInv(t, k, op)'
  <2>1. op.on \in 1 .. Len(nodes') /\ nodes'[op.on].started
    BY <1>8, <1>14, <1>21
  <2>2. \A i \in 1 .. n : s[i] \in 1 .. Len(nodes') /\ nodes'[s[i]].index = i - 1
    BY <1>8, <1>14, <1>21
  <2>3. \A i \in 1 .. x - 1 : i \in 1 .. n /\ i # x
    BY <1>7
  <2>4. \A i \in 1 .. x - 1 : nodes'[s[i]] = nodes[s[i]]
    BY <1>7, <1>8, <1>14, <2>3
  <2>5. \A i \in 1 .. x - 2 : i \in 1 .. x - 1
    BY <1>7
  <2>6. \A i \in 1 .. x - 2 : Combine(op.kind, nodes'[s[i]].outcome) = "none"
    <3>1. \A i \in 1 .. x - 2 : Combine(op.kind, nodes[s[i]].outcome) = "none"
      BY <1>5, <1>6 DEF OperatorInv
    <3>. QED
      BY <2>4, <2>5, <3>1
  <2>7. op.outcome = IF x = 1 THEN "none" ELSE Combine(op.kind, nodes'[s[x - 1]].outcome)
    <3>1. op.outcome = IF x = 1 THEN "none" ELSE Combine(op.kind, nodes[s[x - 1]].outcome)
      BY <1>5, <1>6 DEF OperatorInv
    <3>2. x # 1 => x - 1 \in 1 .. x - 1
      BY <1>7
    <3>. QED
      BY <2>4, <3>1, <3>2
  <2>8. \A i \in x + 1 .. n : ~nodes'[s[i]].started
    <3>1. \A i \in x + 1 .. n : i \in 1 .. n /\ i # x
      BY <1>7
    <3>. QED
      BY <1>7, <1>8, <1>14, <3>1
  <2>9. k # Depth(t)'
    BY <1>4, <1>17, <1>24
  <2>10. \A g : At(t, k + 1, g)' =>
           /\ g.what = "callback" /\ g.role = "own"
           /\ x <= n /\ op.outcome = "none" /\ g.node = s[x]
    <3> SUFFICES ASSUME NEW g, At(t, k + 1, g)'
                 PROVE  /\ g.what = "callback" /\ g.role = "own"
                        /\ x <= n /\ op.outcome = "none" /\ g.node = s[x]
      OBVIOUS
    <3>1. ~At(t, k + 1, g)
      <4>1. k + 1 \notin 1 .. Depth(t)
        BY <1>4, <1>24
      <4>. QED
        BY <1>0, <4>1, AtFacts
    <3>2. g = e
      BY <1>17, <3>1
    <3>. QED
      BY <1>2, <1>6, <1>7, <1>16, <3>2
  <2>11. \A i \in 1 .. x - 1 : nodes'[s[i]].finished
    BY <1>8, <2>4
  <2>12. x \in 1 .. n + 1
    BY <1>7
  <2>. QED
    BY <1>6, <1>8, <2>1, <2>2, <2>6, <2>7, <2>8, <2>9, <2>10, <2>11, <2>12 DEF OperatorInv
<1>25. CallbackInv(t, d, e)'
  <2>1. d # 1
    BY <1>4, <1>15
  <2>2. nodes'[c] = q /\ q.started /\ ~q.finished
    BY <1>9, <1>10, <1>11, <1>13, <1>14
  <2>3. c \in 0 .. Len(nodes')
    BY <1>9, <1>14
  <2>. QED
    BY <1>16, <2>1, <2>2, <2>3 DEF CallbackInv
<1>26. Frames'
  <2>1. ASSUME NEW u, NEW k, NEW f, At(u, k, f)'
        PROVE  /\ k = 1 => f.what = "callback"
               /\ f.what = "callback" => CallbackInv(u, k, f)'
               /\ f.what = "operator" => OperatorInv(u, k, f)' /\ ClaimInv(f)'
    <3>1. CASE At(u, k, f) /\ ~(u = t /\ k = Depth(t))
      BY <1>23, <3>1
    <3>2. CASE At(u, k, f) /\ u = t /\ k = Depth(t)
      <4>1. f = op /\ At(t, k, op)
        BY <1>0, <1>4, <3>2, AtFacts
      <4>2. k = 1 => f.what = "callback"
        BY <1>0, <3>2 DEF Frames
      <4>. QED
        BY <1>4, <1>22, <1>24, <3>2, <4>1, <4>2
    <3>3. CASE u = t /\ k = d /\ f = e
      <4>1. k # 1
        BY <1>4, <1>15, <3>3
      <4>. QED
        BY <1>16, <1>25, <3>3, <4>1
    <3>. QED
      BY <1>17, <2>1, <3>1, <3>2, <3>3
  <2>. QED
    BY <2>1 DEF Frames
<1>27. Apart'
  <2>1. Lone(t, d, e)
    <3> SUFFICES ASSUME NEW u, NEW j, NEW g, At(u, j, g), g.what = "callback", g.node = c
                 PROVE  FALSE
      BY <1>16 DEF Lone
    <3>1. CallbackInv(u, j, g)
      BY <1>0 DEF Frames
    <3>. QED
      BY <1>9, <3>1 DEF CallbackInv
  <2>2. \A u, k, f : At(u, k, f) => ~(u = t /\ k = d)
    BY <1>0, <1>4, <1>15, AtFacts
  <2>3. \A u, k, f : At(u, k, f)' =>
          (At(u, k, f) /\ ~(u = t /\ k = d)) \/ (u = t /\ k = d /\ f = e)
    BY <1>17, <2>2
  <2>4. ASSUME NEW u, NEW k, NEW g, At(u, k, g), g.what = "operator", nodes[g.on].opaque
        PROVE  nodes'[g.on].opaque
    <3>1. g.on \in 1 .. Len(nodes)
      BY <1>0, <2>4 DEF Frames, OperatorInv
    <3>. QED
      BY <1>21, <2>4, <3>1
  <2>. QED
    BY <1>0, <2>1, <2>3, <2>4, ApartKept
<1>28. Nodes'
  <2>1. ASSUME NEW m \in 1 .. Len(nodes), m # c PROVE NodeInv(m)'
    <3>1. nodes'[m] = nodes[m] /\ NodeInv(m)
      BY <1>0, <1>14, <2>1 DEF Nodes
    <3>. QED
      BY <1>0, <1>3, <1>18, <1>20, <3>1, NodeKept
  <2>2. NodeInv(c)'
    <3>1. nodes'[c] = q
      BY <1>9, <1>14
    <3>. QED
      BY <1>3, <1>10, <1>11, <1>13, <1>14, <3>1 DEF NodeInv
  <2>. QED
    BY <1>14, <2>1, <2>2 DEF Nodes
<1>29. Copies'
  <2>1. Depth(Main)' # 0 => Depth(Main) # 0
    BY <1>4, <1>17 DEF Threads
  <2>2. \A m \in DOMAIN frozen : operators'[m] = operators[m] /\ answer'[m] = answer[m]
    BY <1>3
  <2>. QED
    BY <1>0, <1>3, <1>18, <1>20, <2>1, <2>2, CopiesKept
<1>30. StayOut'
  BY <1>0, <1>3 DEF StayOut
<1>. QED
  BY <1>18, <1>26, <1>27, <1>28, <1>29, <1>30 DEF TraceInv

-----------------------------------------------------------------------------
(* Recordings are added: one for a condition of a nested Fire, or one for  *)
(* each child of an operator.                                              *)

LEMMA Appended ==
    ASSUME NEW S, NEW s \in Seq(S), NEW e \in S, NEW q, q = Append(s, e)
    PROVE  /\ q \in Seq(S) /\ Len(s) \in Nat /\ Len(q) = Len(s) + 1
           /\ \A i \in 1 .. Len(s) : q[i] = s[i]
           /\ q[Len(s) + 1] = e
  OBVIOUS

LEMMA Extended ==
    ASSUME NEW S, NEW s \in Seq(S), NEW r \in Seq(S), NEW q, q = s \o r,
           NEW l, l = Len(s), NEW n, n = Len(r)
    PROVE  /\ q \in Seq(S) /\ Len(q) = l + n
           /\ \A i \in 1 .. l : q[i] = s[i]
           /\ \A i \in 1 .. n : q[l + i] = r[i]
<1>1. /\ q \in Seq(S) /\ l \in Nat /\ n \in Nat /\ Len(q) = l + n
      /\ \A i \in 1 .. l + n : q[i] = IF i <= l THEN s[i] ELSE r[i - l]
  BY ConcatProperties
<1>2. \A i \in 1 .. l : i \in 1 .. l + n /\ i <= l
  BY <1>1
<1>3. \A i \in 1 .. n : l + i \in 1 .. l + n /\ ~(l + i <= l) /\ l + i - l = i
  BY <1>1
<1>. QED
  BY <1>1, <1>2, <1>3

LEMMA RecordingFacts ==
    ASSUME NEW i \in Int, NEW b \in BOOLEAN, NEW r, r = Recording(i, b)
    PROVE  /\ r \in NodeSpace /\ r.kind = "Leaf" /\ r.index = i /\ r.outcome = "none"
           /\ r.reason = "None" /\ r.started = b /\ ~r.finished /\ ~r.operator /\ ~r.opaque
           /\ r.children = <<>>
<1>1. r = [kind |-> "Leaf", index |-> i, outcome |-> "none", reason |-> "None",
           started |-> b, finished |-> FALSE, operator |-> FALSE,
           opaque |-> FALSE, children |-> <<>>]
  BY DEF Recording
<1>2. "Leaf" \in Kinds /\ "none" \in Reports /\ <<>> \in Seq(Nat)
  BY DEF Kinds, Reports
<1>3. r \in NodeSpace
  BY <1>1, <1>2 DEF NodeSpace
<1>. QED
  BY <1>1, <1>3

LEMMA UnreachedFacts ==
    ASSUME NEW i \in Int, NEW r, r = Unreached(i)
    PROVE  /\ r \in NodeSpace /\ r.kind = "Leaf" /\ r.index = i /\ r.outcome = "none"
           /\ r.reason = "ShortCircuit" /\ ~r.started /\ ~r.finished /\ ~r.operator /\ ~r.opaque
           /\ r.children = <<>>
<1>1. r = [[kind |-> "Leaf", index |-> i, outcome |-> "none", reason |-> "None",
            started |-> FALSE, finished |-> FALSE, operator |-> FALSE,
            opaque |-> FALSE, children |-> <<>>] EXCEPT !.reason = "ShortCircuit"]
  BY DEF Unreached, Recording
<1>2. "Leaf" \in Kinds /\ "none" \in Reports /\ <<>> \in Seq(Nat)
  BY DEF Kinds, Reports
<1>3. r = [kind |-> "Leaf", index |-> i, outcome |-> "none", reason |-> "ShortCircuit",
           started |-> FALSE, finished |-> FALSE, operator |-> FALSE,
           opaque |-> FALSE, children |-> <<>>]
  BY <1>1
<1>4. r \in NodeSpace
  BY <1>2, <1>3 DEF NodeSpace
<1>. QED
  BY <1>3, <1>4

LEMMA StartTracedInv ==
    ASSUME TraceInv, NEW t \in Threads, StartTraced(t)
    PROVE  TraceInv'
<1>0. TypeOK /\ Frames /\ Apart /\ Nodes /\ Copies /\ StayOut
  BY DEF TraceInv
<1>1. PICK m, r : m = Len(nodes) + 1 /\ r = Recording(-1, TRUE)
  OBVIOUS
<1>2. /\ In(t, "fire") /\ nodes' = Append(nodes, r)
      /\ operators' = Append(operators, 0) /\ answer' = Append(answer, "none")
      /\ returned' = Append(returned, "none")
      /\ Push(t, Nested("condition", m, m))
      /\ UNCHANGED <<panicErr, todo, frozen, intruders>>
  BY <1>1 DEF StartTraced, Firing
<1>3. /\ r \in NodeSpace /\ r.kind = "Leaf" /\ r.index = -1 /\ r.outcome = "none"
      /\ r.reason = "None" /\ r.started /\ ~r.finished /\ ~r.operator /\ ~r.opaque
      /\ r.children = <<>>
  <2>1. PICK i \in Int : i = -1
    OBVIOUS
  <2>2. PICK b \in BOOLEAN : b /\ r = Recording(i, b)
    BY <1>1, <2>1, Zenon
  <2>3. r = Recording(i, b)
    BY <2>2, Zenon
  <2>4. /\ r \in NodeSpace /\ r.kind = "Leaf" /\ r.index = i /\ r.outcome = "none"
        /\ r.reason = "None" /\ r.started = b /\ ~r.finished /\ ~r.operator /\ ~r.opaque
        /\ r.children = <<>>
    BY <2>3, RecordingFacts
  <2>5. r.started
    BY <2>2, <2>4, Zenon
  <2>. QED
    BY <2>1, <2>4, <2>5
<1>4. /\ Len(nodes) \in Nat \ {0} /\ nodes \in Seq(NodeSpace)
      /\ Len(operators) = Len(nodes) /\ Len(answer) = Len(nodes) /\ Len(returned) = Len(nodes)
  BY <1>0, NodeFacts DEF TypeOK
<1>5. /\ nodes' \in Seq(NodeSpace) /\ Len(nodes') = m /\ nodes'[m] = r
      /\ \A i \in 1 .. Len(nodes) : nodes'[i] = nodes[i]
  <2>1. nodes \in Seq(NodeSpace) /\ r \in NodeSpace /\ nodes' = Append(nodes, r)
    BY <1>2, <1>3, <1>4
  <2>2. /\ nodes' \in Seq(NodeSpace) /\ Len(nodes') = Len(nodes) + 1
        /\ nodes'[Len(nodes) + 1] = r
        /\ \A i \in 1 .. Len(nodes) : nodes'[i] = nodes[i]
    BY <2>1, Appended
  <2>. QED
    BY <1>1, <2>2
<1>6. /\ operators' \in Seq(0 .. 2) /\ Len(operators') = m /\ operators'[m] = 0
      /\ \A i \in 1 .. Len(nodes) : operators'[i] = operators[i]
  <2>1. operators \in Seq(0 .. 2) /\ 0 \in 0 .. 2
    BY <1>0 DEF TypeOK
  <2>. QED
    BY <1>1, <1>2, <1>4, <2>1, Appended
<1>7. /\ answer' \in Seq(Reports) /\ Len(answer') = m /\ answer'[m] = "none"
      /\ \A i \in 1 .. Len(nodes) : answer'[i] = answer[i]
  <2>1. answer \in Seq(Reports) /\ "none" \in Reports
    BY <1>0 DEF TypeOK, Reports
  <2>. QED
    BY <1>1, <1>2, <1>4, <2>1, Appended
<1>8. /\ returned' \in Seq(Reports \cup {"panic"}) /\ Len(returned') = m
      /\ \A i \in 1 .. Len(nodes) : returned'[i] = returned[i]
  <2>1. returned \in Seq(Reports \cup {"panic"}) /\ "none" \in Reports \cup {"panic"}
    BY <1>0 DEF TypeOK, Reports
  <2>. QED
    BY <1>1, <1>2, <1>4, <2>1, Appended
<1>9. m \in Nat /\ m # NoNode /\ m \notin 1 .. Len(nodes)
      /\ \A i : i \in 1 .. m <=> i \in 1 .. Len(nodes) \/ i = m
  BY <1>1, <1>4 DEF NoNode
<1>10. PICK e, d : e = Nested("condition", m, m) /\ d = Depth(t) + 1
  OBVIOUS
<1>11. /\ e \in FrameSpace /\ e.what = "callback" /\ e.role = "condition" /\ e.node = m
       /\ e.ctx = m /\ Push(t, e)
  BY <1>2, <1>9, <1>10 DEF Nested, FrameSpace, CallbackSpace, Roles
<1>12. /\ stack' \in [Threads -> Seq(FrameSpace)] /\ Depth(t) \in Nat
       /\ \A u \in Threads : Depth(u)' = IF u = t THEN Depth(t) + 1 ELSE Depth(u)
       /\ \A u, k, f : At(u, k, f)' <=> At(u, k, f) \/ (u = t /\ k = d /\ f = e)
  BY <1>0, <1>10, <1>11, PushAt
<1>13. /\ \A f : At(t, Depth(t), f) => f.what = "fire"
       /\ Depth(t) # 0
  BY <1>0, <1>2, InFacts
<1>14. TypeOK'
  <2>1. nodes' # <<>>
    BY <1>5, <1>9
  <2>2. todo' \in Seq(1 .. Len(nodes'))
    <3>1. todo \in Seq(1 .. Len(nodes)) /\ \A i \in 1 .. Len(nodes) : i \in 1 .. Len(nodes')
      BY <1>0, <1>5, <1>9 DEF TypeOK
    <3>2. Len(todo) \in Nat /\ \A j \in 1 .. Len(todo) : todo[j] \in 1 .. Len(nodes')
      BY <3>1, ElementOfSeq
    <3>3. todo \in [1 .. Len(todo) -> 1 .. Len(nodes')]
      BY <3>1, <3>2
    <3>4. todo \in Seq(1 .. Len(nodes'))
      BY <3>2, <3>3
    <3>. QED
      BY <1>2, <3>4
  <2>3. DOMAIN frozen' \subseteq 1 .. Len(nodes') /\ frozen' \in [DOMAIN frozen' -> ViewSpace]
    BY <1>0, <1>2, <1>5, <1>9 DEF TypeOK
  <2>. QED
    BY <1>0, <1>2, <1>5, <1>6, <1>7, <1>8, <1>12, <2>1, <2>2, <2>3 DEF TypeOK
<1>15. Grows
  <2>1. \A u, k, f : At(u, k, f)' /\ f.what = "operator" => At(u, k, f)
    BY <1>11, <1>12
  <2>2. \A i \in 1 .. Len(nodes) : Dormant(i) => Dormant(i)'
    <3>1. \A i \in 1 .. Len(nodes) : ~Owned(i) => ~Owned(i)'
      BY <2>1, OwnedKept
    <3>. QED
      BY <1>5, <3>1 DEF Dormant
  <2>. QED
    BY <1>1, <1>4, <1>5, <1>8, <2>2 DEF Grows
<1>16. ASSUME NEW u, NEW k, NEW f, At(u, k, f) PROVE Undisturbed(f)
  <2>1. ASSUME f.what = "callback", f.node # NoNode PROVE ~nodes'[f.node].finished
    <3>1. CallbackInv(u, k, f)
      BY <1>0, <1>16, <2>1 DEF Frames
    <3>2. f.node \in 1 .. Len(nodes) /\ ~nodes[f.node].finished
      BY <1>4, <2>1, <3>1 DEF CallbackInv, NoNode
    <3>. QED
      BY <1>5, <3>2
  <2>2. ASSUME f.what = "operator" PROVE ClaimInv(f)'
    <3>1. OperatorInv(u, k, f) /\ ClaimInv(f)
      BY <1>0, <1>16, <2>2 DEF Frames
    <3>2. f.on \in 1 .. Len(nodes)
      BY <3>1 DEF OperatorInv
    <3>. QED
      BY <1>5, <3>1, <3>2 DEF ClaimInv
  <2>3. ASSUME f.what = "operator", NEW i \in 1 .. Len(f.children), ~nodes[f.children[i]].started
        PROVE  ~nodes'[f.children[i]].started
    <3>1. f.children[i] \in 1 .. Len(nodes)
      BY <1>0, <1>16, <2>3 DEF Frames, OperatorInv
    <3>. QED
      BY <1>5, <2>3, <3>1
  <2>. QED
    BY <2>1, <2>2, <2>3 DEF Undisturbed
<1>17. CallbackInv(t, d, e)'
  <2>1. d # 1 /\ d - 1 = Depth(t) /\ d - 1 # d
    BY <1>10, <1>12, <1>13
  <2>2. \A g : At(t, d - 1, g)' => g.what = "fire"
    BY <1>12, <1>13, <2>1
  <2>3. nodes'[m].started /\ ~nodes'[m].finished /\ m \in 0 .. Len(nodes')
    BY <1>3, <1>5, <1>9
  <2>. QED
    BY <1>11, <2>1, <2>2, <2>3 DEF CallbackInv
<1>18. Frames'
  <2>1. \A f : At(t, Depth(t), f) => f.what # "operator"
    BY <1>13
  <2>2. d # 1
    BY <1>10, <1>12, <1>13
  <2>. QED
    BY <1>0, <1>10, <1>11, <1>14, <1>15, <1>16, <1>17, <2>1, <2>2, FramesPush
<1>19. Apart'
  <2>1. Lone(t, d, e)
    <3> SUFFICES ASSUME NEW u, NEW j, NEW g, At(u, j, g), g.what = "callback", g.node = m
                 PROVE  FALSE
      BY <1>11 DEF Lone
    <3>1. CallbackInv(u, j, g)
      BY <1>0 DEF Frames
    <3>. QED
      BY <1>4, <1>9, <3>1 DEF CallbackInv, NoNode
  <2>2. \A u, k, f : At(u, k, f) => ~(u = t /\ k = d)
    BY <1>0, <1>10, <1>12, AtFacts
  <2>3. \A u, k, f : At(u, k, f)' =>
          (At(u, k, f) /\ ~(u = t /\ k = d)) \/ (u = t /\ k = d /\ f = e)
    BY <1>12, <2>2
  <2>4. ASSUME NEW u, NEW k, NEW g, At(u, k, g), g.what = "operator", nodes[g.on].opaque
        PROVE  nodes'[g.on].opaque
    <3>1. g.on \in 1 .. Len(nodes)
      BY <1>0, <2>4 DEF Frames, OperatorInv
    <3>. QED
      BY <1>5, <2>4, <3>1
  <2>. QED
    BY <1>0, <2>1, <2>3, <2>4, ApartKept
<1>20. Nodes'
  <2>1. ASSUME NEW i \in 1 .. Len(nodes) PROVE NodeInv(i)'
    <3>1. /\ nodes'[i] = nodes[i] /\ operators'[i] = operators[i] /\ answer'[i] = answer[i]
          /\ NodeInv(i)
      BY <1>0, <1>5, <1>6, <1>7 DEF Nodes
    <3>. QED
      BY <1>0, <1>2, <1>14, <1>15, <3>1, NodeKept
  <2>2. NodeInv(m)'
    BY <1>3, <1>5, <1>6, <1>7 DEF NodeInv
  <2>. QED
    BY <1>5, <1>9, <2>1, <2>2 DEF Nodes
<1>21. Copies'
  <2>1. Depth(Main)' # 0 => Depth(Main) # 0
    BY <1>12, <1>13 DEF Threads
  <2>2. \A i \in DOMAIN frozen : operators'[i] = operators[i] /\ answer'[i] = answer[i]
    BY <1>0, <1>6, <1>7 DEF TypeOK
  <2>. QED
    BY <1>0, <1>2, <1>14, <1>15, <2>1, <2>2, CopiesKept
<1>22. StayOut'
  BY <1>0, <1>2 DEF StayOut
<1>. QED
  BY <1>14, <1>18, <1>19, <1>20, <1>21, <1>22 DEF TraceInv

-----------------------------------------------------------------------------
(* An operator is called. *)

LEMMA ClaimedFacts ==
    ASSUME NEW r \in NodeSpace, NEW kind \in Operators, NEW children \in Seq(Nat),
           NEW q, q = Claimed(r, kind, children)
    PROVE  /\ q \in NodeSpace
           /\ q.kind = kind /\ q.index = r.index /\ q.reason = r.reason
           /\ q.started = r.started /\ q.operator /\ q.children = children
           /\ q.finished = r.finished /\ q.outcome = r.outcome
           /\ q.opaque <=> r.opaque \/ r.operator \/ r.finished
<1>1. r.opaque \in BOOLEAN /\ r.operator \in BOOLEAN /\ r.finished \in BOOLEAN
  BY DEF NodeSpace
<1>2. PICK b \in BOOLEAN : b = (r.opaque \/ r.operator \/ r.finished)
  OBVIOUS
<1>3. q = [r EXCEPT !.opaque = b, !.operator = TRUE, !.kind = kind, !.children = children]
  BY <1>2, Zenon DEF Claimed
<1>4. q \in NodeSpace
  BY <1>3 DEF NodeSpace, Kinds
<1>5. /\ q.kind = kind /\ q.index = r.index /\ q.reason = r.reason
      /\ q.started = r.started /\ q.operator = TRUE /\ q.children = children
      /\ q.finished = r.finished /\ q.outcome = r.outcome /\ q.opaque = b
  BY <1>3 DEF NodeSpace
<1>. QED
  BY <1>2, <1>4, <1>5, Zenon

LEMMA Repeated ==
    ASSUME NEW S, NEW v \in S, NEW n \in Nat, NEW s, s = [i \in 1 .. n |-> v]
    PROVE  s \in Seq(S) /\ Len(s) = n /\ \A i \in 1 .. n : s[i] = v
<1>1. s \in [1 .. n -> S] /\ \A i \in 1 .. n : s[i] = v
  OBVIOUS
<1>2. s \in Seq(S)
  BY <1>1
<1>3. Len(s) = n
  BY <1>1, <1>2
<1>. QED
  BY <1>1, <1>2, <1>3

(* What Call makes of the recordings: on is claimed, n children are added. *)
OneClaimed(on, kind, children, n) ==
    LET l == Len(nodes)
    IN  /\ nodes' \in Seq(NodeSpace) /\ Len(nodes') = l + n
        /\ nodes'[on] = Claimed(nodes[on], kind, children)
        /\ \A m \in 1 .. l : m # on => nodes'[m] = nodes[m]
        /\ \A i \in 1 .. n : nodes'[l + i] = Unreached(i - 1)
        /\ operators' \in Seq(0 .. 2) /\ Len(operators') = l + n
        /\ operators'[on] = IF Open(on) /\ operators[on] < 2 THEN operators[on] + 1
                            ELSE operators[on]
        /\ \A m \in 1 .. l : m # on => operators'[m] = operators[m]
        /\ \A i \in 1 .. n : operators'[l + i] = 0
        /\ answer' \in Seq(Reports) /\ Len(answer') = l + n
        /\ \A m \in 1 .. l : answer'[m] = answer[m]
        /\ \A i \in 1 .. n : answer'[l + i] = "none"
        /\ returned' \in Seq(Reports \cup {"panic"}) /\ Len(returned') = l + n
        /\ \A m \in 1 .. l : returned'[m] = returned[m]
        /\ children \in Seq(Nat) /\ Len(children) = n
        /\ \A i \in 1 .. n : children[i] = l + i

LEMMA CallEffect ==
    ASSUME TypeOK, NEW t \in Threads, NEW on \in 1 .. Len(nodes), NEW kind \in Operators,
           NEW n \in Nat, Call(t, on, kind, n),
           NEW children, children = [i \in 1 .. n |-> Len(nodes) + i]
    PROVE  OneClaimed(on, kind, children, n)
<1>1. PICK l \in Nat : l = Len(nodes)
  BY NodeFacts
<1>2. /\ nodes \in Seq(NodeSpace) /\ operators \in Seq(0 .. 2) /\ Len(operators) = l
      /\ answer \in Seq(Reports) /\ Len(answer) = l
      /\ returned \in Seq(Reports \cup {"panic"}) /\ Len(returned) = l
      /\ on \in 1 .. l
  BY <1>1 DEF TypeOK
<1>3. /\ nodes' = [nodes EXCEPT ![on] = Claimed(@, kind, children)]
                  \o [i \in 1 .. n |-> Unreached(i - 1)]
      /\ operators' = [operators EXCEPT ![on] = IF Open(on) /\ @ < 2 THEN @ + 1 ELSE @]
                      \o [i \in 1 .. n |-> 0]
      /\ answer' = answer \o [i \in 1 .. n |-> "none"]
      /\ returned' = returned \o [i \in 1 .. n |-> "none"]
  BY Zenon DEF Call
<1>4. children \in Seq(Nat) /\ Len(children) = n /\ \A i \in 1 .. n : children[i] = l + i
  <2>1. children \in [1 .. n -> Nat] /\ \A i \in 1 .. n : children[i] = l + i
    BY <1>1
  <2>2. children \in Seq(Nat)
    BY <2>1
  <2>3. Len(children) = n
    BY <2>1, <2>2
  <2>. QED
    BY <2>1, <2>2, <2>3
<1>5. /\ nodes' \in Seq(NodeSpace) /\ Len(nodes') = l + n
      /\ nodes'[on] = Claimed(nodes[on], kind, children)
      /\ \A m \in 1 .. l : m # on => nodes'[m] = nodes[m]
      /\ \A i \in 1 .. n : nodes'[l + i] = Unreached(i - 1)
  <2>1. PICK r \in NodeSpace : r = nodes[on]
    BY NodeFacts
  <2>2. PICK q : q = Claimed(r, kind, children)
    OBVIOUS
  <2>3. q \in NodeSpace
    BY <1>4, <2>2, ClaimedFacts
  <2>4. PICK s1 : s1 = [nodes EXCEPT ![on] = q]
    OBVIOUS
  <2>5. s1 \in Seq(NodeSpace) /\ Len(s1) = l /\ \A m \in 1 .. l : s1[m] = IF m = on THEN q ELSE nodes[m]
    BY <1>1, <1>2, <2>3, <2>4, ExceptSeq
  <2>6. PICK s2 : s2 = [i \in 1 .. n |-> Unreached(i - 1)]
    OBVIOUS
  <2>7. \A i \in 1 .. n : Unreached(i - 1) \in NodeSpace
    <3>1. \A i \in 1 .. n : i - 1 \in Int
      OBVIOUS
    <3>. QED
      BY <3>1, UnreachedFacts
  <2>8. s2 \in [1 .. n -> NodeSpace] /\ \A i \in 1 .. n : s2[i] = Unreached(i - 1)
    BY <2>6, <2>7
  <2>9. s2 \in Seq(NodeSpace)
    BY <2>8
  <2>10. Len(s2) = n
    BY <2>8, <2>9
  <2>11. nodes' = s1 \o s2
    BY <1>3, <2>1, <2>2, <2>4, <2>6
  <2>12. /\ nodes' \in Seq(NodeSpace) /\ Len(nodes') = l + n
         /\ \A i \in 1 .. l : nodes'[i] = s1[i]
         /\ \A i \in 1 .. n : nodes'[l + i] = s2[i]
    <3>1. s1 \in Seq(NodeSpace) /\ s2 \in Seq(NodeSpace) /\ l = Len(s1) /\ n = Len(s2)
      BY <2>5, <2>9, <2>10
    <3>. QED
      BY <2>11, <3>1, Extended
  <2>. QED
    BY <1>2, <2>1, <2>2, <2>5, <2>8, <2>12
<1>6. /\ operators' \in Seq(0 .. 2) /\ Len(operators') = l + n
      /\ operators'[on] = IF Open(on) /\ operators[on] < 2 THEN operators[on] + 1
                          ELSE operators[on]
      /\ \A m \in 1 .. l : m # on => operators'[m] = operators[m]
      /\ \A i \in 1 .. n : operators'[l + i] = 0
  <2>1. PICK q : q = IF Open(on) /\ operators[on] < 2 THEN operators[on] + 1 ELSE operators[on]
    OBVIOUS
  <2>2. operators[on] \in 0 .. 2
    BY <1>2, ElementOfSeq
  <2>3. q \in 0 .. 2
    BY <2>1, <2>2
  <2>4. PICK s1 : s1 = [operators EXCEPT ![on] = q]
    OBVIOUS
  <2>5. /\ s1 \in Seq(0 .. 2) /\ Len(s1) = l
        /\ \A m \in 1 .. l : s1[m] = IF m = on THEN q ELSE operators[m]
    BY <1>2, <2>3, <2>4, ExceptSeq
  <2>6. PICK s2 : s2 = [i \in 1 .. n |-> 0]
    OBVIOUS
  <2>7. s2 \in Seq(0 .. 2) /\ Len(s2) = n /\ \A i \in 1 .. n : s2[i] = 0
    <3>1. 0 \in 0 .. 2
      OBVIOUS
    <3>. QED
      BY <2>6, <3>1, Repeated
  <2>8. operators' = s1 \o s2
    BY <1>3, <2>1, <2>4, <2>6, Zenon
  <2>9. /\ operators' \in Seq(0 .. 2) /\ Len(operators') = l + n
        /\ \A i \in 1 .. l : operators'[i] = s1[i]
        /\ \A i \in 1 .. n : operators'[l + i] = s2[i]
    <3>1. s1 \in Seq(0 .. 2) /\ s2 \in Seq(0 .. 2) /\ l = Len(s1) /\ n = Len(s2)
      BY <2>5, <2>7
    <3>. QED
      BY <2>8, <3>1, Extended
  <2>. QED
    BY <1>2, <2>1, <2>5, <2>7, <2>9
<1>7. /\ answer' \in Seq(Reports) /\ Len(answer') = l + n
      /\ \A m \in 1 .. l : answer'[m] = answer[m]
      /\ \A i \in 1 .. n : answer'[l + i] = "none"
  <2>1. PICK s2 : s2 = [i \in 1 .. n |-> "none"]
    OBVIOUS
  <2>2. s2 \in Seq(Reports) /\ Len(s2) = n /\ \A i \in 1 .. n : s2[i] = "none"
    <3>1. "none" \in Reports
      BY DEF Reports
    <3>. QED
      BY <2>1, <3>1, Repeated
  <2>3. answer' = answer \o s2
    BY <1>3, <2>1
  <2>4. /\ answer' \in Seq(Reports) /\ Len(answer') = l + n
        /\ \A i \in 1 .. l : answer'[i] = answer[i]
        /\ \A i \in 1 .. n : answer'[l + i] = s2[i]
    <3>1. answer \in Seq(Reports) /\ s2 \in Seq(Reports) /\ l = Len(answer) /\ n = Len(s2)
      BY <1>2, <2>2
    <3>. QED
      BY <2>3, <3>1, Extended
  <2>. QED
    BY <1>2, <2>2, <2>4
<1>8. /\ returned' \in Seq(Reports \cup {"panic"}) /\ Len(returned') = l + n
      /\ \A m \in 1 .. l : returned'[m] = returned[m]
  <2>1. PICK s2 : s2 = [i \in 1 .. n |-> "none"]
    OBVIOUS
  <2>2. s2 \in Seq(Reports \cup {"panic"}) /\ Len(s2) = n
    <3>1. "none" \in Reports \cup {"panic"}
      BY DEF Reports
    <3>. QED
      BY <2>1, <3>1, Repeated
  <2>3. returned' = returned \o s2
    BY <1>3, <2>1
  <2>4. /\ returned' \in Seq(Reports \cup {"panic"}) /\ Len(returned') = l + n
        /\ \A i \in 1 .. l : returned'[i] = returned[i]
    <3>1. /\ returned \in Seq(Reports \cup {"panic"}) /\ s2 \in Seq(Reports \cup {"panic"})
          /\ l = Len(returned) /\ n = Len(s2)
      BY <1>2, <2>2
    <3>. QED
      BY <2>3, <3>1, Extended
  <2>. QED
    BY <1>2, <2>2, <2>4
<1>. QED
  BY <1>1, <1>4, <1>5, <1>6, <1>7, <1>8 DEF OneClaimed

LEMMA CallInv ==
    ASSUME TraceInv, NEW t \in Threads, NEW on \in 1 .. Len(nodes), NEW kind \in Operators,
           NEW n \in Nat, Call(t, on, kind, n)
    PROVE  TraceInv'
<1>0. TypeOK /\ Frames /\ Apart /\ Nodes /\ Copies /\ StayOut
  BY DEF TraceInv
<1>1. PICK children, l, d : children = [i \in 1 .. n |-> Len(nodes) + i] /\ l = Len(nodes)
                            /\ d = Depth(t) + 1
  OBVIOUS
<1>2. PICK e : e = Operator(on, kind, children)
  OBVIOUS
<1>3. /\ In(t, "callback") /\ nodes[on].started
      /\ Push(t, e) /\ UNCHANGED <<panicErr, todo, frozen>>
      /\ intruders' = IF on = Top(t).ctx /\ on # Top(t).node
                      THEN intruders \cup {Top(t).role} ELSE intruders
  BY <1>1, <1>2 DEF Call
<1>4. /\ l \in Nat \ {0} /\ nodes \in Seq(NodeSpace) /\ on \in 1 .. l
      /\ \A i : i \in 1 .. l + n <=> (i \in 1 .. l \/ \E j \in 1 .. n : i = l + j)
      /\ \A i \in 1 .. l : i \in 1 .. l + n
      /\ \A j \in 1 .. n : l + j \in 1 .. l + n /\ l + j \notin 1 .. l /\ l + j \in Nat
  <2>1. l \in Nat \ {0} /\ nodes \in Seq(NodeSpace) /\ on \in 1 .. l
    BY <1>0, <1>1, NodeFacts DEF TypeOK
  <2>2. ASSUME NEW i \in 1 .. l + n PROVE i \in 1 .. l \/ \E j \in 1 .. n : i = l + j
    <3>1. CASE i > l
      <4>1. i - l \in 1 .. n /\ i = l + (i - l)
        BY <2>1, <3>1
      <4>. QED
        BY <4>1
    <3>. QED
      BY <2>1, <3>1
  <2>3. /\ \A i \in 1 .. l : i \in 1 .. l + n
        /\ \A j \in 1 .. n : l + j \in 1 .. l + n /\ l + j \notin 1 .. l /\ l + j \in Nat
    BY <2>1
  <2>. QED
    BY <2>1, <2>2, <2>3
<1>5. OneClaimed(on, kind, children, n)
  BY <1>0, <1>1, CallEffect
<1>6. /\ nodes' \in Seq(NodeSpace) /\ Len(nodes') = l + n
      /\ \A m \in 1 .. l : m # on => nodes'[m] = nodes[m]
      /\ \A i \in 1 .. n : nodes'[l + i] = Unreached(i - 1)
      /\ children \in Seq(Nat) /\ Len(children) = n
      /\ \A i \in 1 .. n : children[i] = l + i
  BY <1>1, <1>5 DEF OneClaimed
<1>7. /\ operators' \in Seq(0 .. 2) /\ Len(operators') = l + n
      /\ operators'[on] = IF Open(on) /\ operators[on] < 2 THEN operators[on] + 1
                          ELSE operators[on]
      /\ \A m \in 1 .. l : m # on => operators'[m] = operators[m]
      /\ \A i \in 1 .. n : operators'[l + i] = 0
      /\ answer' \in Seq(Reports) /\ Len(answer') = l + n
      /\ \A m \in 1 .. l : answer'[m] = answer[m]
      /\ \A i \in 1 .. n : answer'[l + i] = "none"
      /\ returned' \in Seq(Reports \cup {"panic"}) /\ Len(returned') = l + n
      /\ \A m \in 1 .. l : returned'[m] = returned[m]
  BY <1>1, <1>5 DEF OneClaimed
<1>8. PICK r \in NodeSpace : r = nodes[on]
  BY <1>0, NodeFacts
<1>9. PICK q : q = nodes'[on] /\ q = Claimed(r, kind, children)
  BY <1>5, <1>8 DEF OneClaimed
<1>10. /\ q \in NodeSpace
       /\ q.kind = kind /\ q.index = r.index /\ q.reason = r.reason
       /\ q.started = r.started /\ q.operator /\ q.children = children
       /\ q.finished = r.finished /\ q.outcome = r.outcome
       /\ q.opaque <=> r.opaque \/ r.operator \/ r.finished
  BY <1>6, <1>9, ClaimedFacts
<1>11. ASSUME NEW i \in 1 .. n
       PROVE  /\ nodes'[l + i].kind = "Leaf" /\ nodes'[l + i].index = i - 1
              /\ nodes'[l + i].outcome = "none" /\ nodes'[l + i].reason = "ShortCircuit"
              /\ ~nodes'[l + i].started /\ ~nodes'[l + i].finished
              /\ ~nodes'[l + i].operator /\ ~nodes'[l + i].opaque
              /\ nodes'[l + i].children = <<>>
  <2>0. PICK j \in Int : j = i - 1
    OBVIOUS
  <2>1. PICK x : x = nodes'[l + i] /\ x = Unreached(j)
    BY <1>6, <2>0
  <2>2. /\ x.kind = "Leaf" /\ x.index = j /\ x.outcome = "none"
        /\ x.reason = "ShortCircuit" /\ ~x.started /\ ~x.finished /\ ~x.operator /\ ~x.opaque
        /\ x.children = <<>>
    BY <2>1, UnreachedFacts
  <2>. QED
    BY <2>0, <2>1, <2>2
<1>12. NodeInv(on)
  BY <1>0 DEF Nodes
<1>13. /\ e.what = "operator" /\ e.on = on /\ e.kind = kind /\ e.children = children
       /\ e.next = 1 /\ e.outcome = "none" /\ e \in FrameSpace
  <2>1. e = [what |-> "operator", on |-> on, kind |-> kind, children |-> children,
             next |-> 1, outcome |-> "none"]
    BY <1>2 DEF Operator
  <2>2. on \in Nat /\ "none" \in Reports /\ 1 \in Nat
    BY <1>4 DEF Reports
  <2>3. e \in OperatorSpace
    BY <1>6, <2>1, <2>2 DEF OperatorSpace
  <2>. QED
    BY <2>1, <2>3 DEF FrameSpace
<1>14. /\ stack' \in [Threads -> Seq(FrameSpace)] /\ Depth(t) \in Nat
       /\ \A u \in Threads : Depth(u)' = IF u = t THEN Depth(t) + 1 ELSE Depth(u)
       /\ \A u, k, f : At(u, k, f)' <=> At(u, k, f) \/ (u = t /\ k = d /\ f = e)
  BY <1>0, <1>1, <1>3, <1>13, PushAt
<1>15. /\ At(t, Depth(t), Top(t)) /\ Top(t).what = "callback"
       /\ \A f : At(t, Depth(t), f) => f.what = "callback"
       /\ Depth(t) # 0
  BY <1>0, <1>3, InFacts
<1>16. TypeOK'
  <2>1. nodes' # <<>>
    BY <1>4, <1>6
  <2>2. todo' \in Seq(1 .. Len(nodes'))
    <3>1. todo \in Seq(1 .. Len(nodes)) /\ \A i \in 1 .. Len(nodes) : i \in 1 .. Len(nodes')
      BY <1>0, <1>1, <1>4, <1>6 DEF TypeOK
    <3>2. Len(todo) \in Nat /\ \A j \in 1 .. Len(todo) : todo[j] \in 1 .. Len(nodes')
      BY <3>1, ElementOfSeq
    <3>3. todo \in [1 .. Len(todo) -> 1 .. Len(nodes')]
      BY <3>1, <3>2
    <3>4. todo \in Seq(1 .. Len(nodes'))
      BY <3>2, <3>3
    <3>. QED
      BY <1>3, <3>4
  <2>3. DOMAIN frozen' \subseteq 1 .. Len(nodes') /\ frozen' \in [DOMAIN frozen' -> ViewSpace]
    <3>1. DOMAIN frozen \subseteq 1 .. Len(nodes) /\ frozen \in [DOMAIN frozen -> ViewSpace]
      BY <1>0 DEF TypeOK
    <3>. QED
      BY <1>1, <1>3, <1>4, <1>6, <3>1
  <2>4. panicErr' \in BOOLEAN
    BY <1>0, <1>3 DEF TypeOK
  <2>. QED
    BY <1>6, <1>7, <1>14, <2>1, <2>2, <2>3, <2>4 DEF TypeOK
<1>17. Grows
  <2>1. ASSUME NEW i \in 1 .. Len(nodes), ~Owned(i) PROVE ~Owned(i)'
    <3>1. ASSUME NEW u, NEW k, NEW f, At(u, k, f)', f.what = "operator"
          PROVE  \/ \E v, j, g : At(v, j, g) /\ g.what = "operator" /\ g.children = f.children
                 \/ \A a \in 1 .. Len(f.children) : f.children[a] \notin 1 .. Len(nodes)
      <4>1. CASE f = e
        BY <1>1, <1>4, <1>6, <1>13, <4>1
      <4>2. CASE At(u, k, f)
        BY <3>1, <4>2
      <4>. QED
        BY <1>14, <3>1, <4>1, <4>2
    <3>. QED
      BY <2>1, <3>1, OwnedKept
  <2>2. ASSUME NEW i \in 1 .. Len(nodes), i # on
        PROVE  nodes'[i] = nodes[i] /\ returned'[i] = returned[i] /\ (Dormant(i) => Dormant(i)')
    <3>1. nodes'[i] = nodes[i] /\ returned'[i] = returned[i]
      BY <1>1, <1>6, <1>7, <2>2
    <3>. QED
      BY <2>1, <3>1 DEF Dormant
  <2>3. ~Dormant(on) /\ returned'[on] = returned[on]
    BY <1>1, <1>3, <1>7 DEF Dormant
  <2>4. Len(nodes) <= Len(nodes')
    BY <1>1, <1>4, <1>6
  <2>5. nodes[on] = r /\ nodes'[on] = q
    BY <1>8, <1>9
  <2>6. /\ nodes'[on].index = nodes[on].index
        /\ nodes[on].started => nodes'[on].started
        /\ nodes[on].finished =>
             /\ nodes'[on].finished /\ nodes'[on].outcome = nodes[on].outcome
             /\ nodes'[on].reason = nodes[on].reason
    BY <1>10, <2>5
  <2>. QED
    BY <2>2, <2>3, <2>4, <2>6 DEF Grows
<1>18. ASSUME NEW u, NEW k, NEW f, At(u, k, f) PROVE Undisturbed(f)
  <2>1. ASSUME f.what = "callback", f.node # NoNode PROVE ~nodes'[f.node].finished
    <3>1. CallbackInv(u, k, f)
      BY <1>0, <1>18, <2>1 DEF Frames
    <3>2. f.node \in 1 .. l /\ ~nodes[f.node].finished
      BY <1>1, <1>4, <2>1, <3>1 DEF CallbackInv, NoNode
    <3>3. f.node = on => ~q.finished
      BY <1>8, <1>10, <3>2
    <3>. QED
      BY <1>6, <1>9, <3>2, <3>3
  <2>2. ASSUME f.what = "operator" PROVE ClaimInv(f)'
    <3>1. OperatorInv(u, k, f) /\ ClaimInv(f)
      BY <1>0, <1>18, <2>2 DEF Frames
    <3>2. f.on \in 1 .. l
      BY <1>1, <3>1 DEF OperatorInv
    <3>3. f.on = on => q.opaque
      BY <1>8, <1>10, <3>1 DEF ClaimInv
    <3>4. f.on # on => nodes'[f.on] = nodes[f.on]
      BY <1>6, <3>2
    <3>. QED
      BY <1>9, <3>1, <3>3, <3>4 DEF ClaimInv
  <2>3. ASSUME f.what = "operator", NEW i \in 1 .. Len(f.children), ~nodes[f.children[i]].started
        PROVE  ~nodes'[f.children[i]].started
    <3>1. f.children[i] \in 1 .. l
      BY <1>0, <1>1, <1>18, <2>3 DEF Frames, OperatorInv
    <3>2. f.children[i] # on
      BY <1>3, <2>3
    <3>. QED
      BY <1>6, <2>3, <3>1, <3>2
  <2>. QED
    BY <2>1, <2>2, <2>3 DEF Undisturbed
<1>19. OperatorInv(t, d, e)'
  <2>1. \A i \in 1 .. n : children[i] \in 1 .. Len(nodes') /\ nodes'[children[i]].index = i - 1
    BY <1>4, <1>6, <1>11
  <2>2. \A i, j \in 1 .. n : children[i] = children[j] => i = j
    BY <1>4, <1>6
  <2>3. \A i \in 1 .. n : ~nodes'[children[i]].started
    BY <1>6, <1>11
  <2>4. \A g : ~At(t, d + 1, g)'
    <3>1. \A g : ~At(t, d + 1, g)
      BY <1>0, <1>1, <1>14, AtFacts
    <3>2. d + 1 # d
      BY <1>1, <1>14
    <3>. QED
      BY <1>14, <3>1, <3>2
  <2>5. on \in 1 .. Len(nodes') /\ nodes'[on].started
    BY <1>3, <1>4, <1>6, <1>8, <1>9, <1>10
  <2>6. /\ 1 \in 1 .. n + 1 /\ \A i : i \notin 1 .. 0 /\ i \notin 1 .. -1
        /\ \A i \in 2 .. n : i \in 1 .. n
        /\ 1 <= n => 1 \in 1 .. n
    OBVIOUS
  <2>7. /\ e.on \in 1 .. Len(nodes') /\ nodes'[e.on].started
        /\ \A i \in 1 .. Len(e.children) :
             e.children[i] \in 1 .. Len(nodes') /\ nodes'[e.children[i]].index = i - 1
        /\ \A i, j \in 1 .. Len(e.children) : e.children[i] = e.children[j] => i = j
    BY <1>6, <1>13, <2>1, <2>2, <2>5
  <2>8. /\ e.next \in 1 .. Len(e.children) + 1
        /\ \A i \in 1 .. e.next - 1 : nodes'[e.children[i]].finished
        /\ \A i \in 1 .. e.next - 2 : Combine(e.kind, nodes'[e.children[i]].outcome) = "none"
        /\ e.outcome = IF e.next = 1 THEN "none"
                       ELSE Combine(e.kind, nodes'[e.children[e.next - 1]].outcome)
    BY <1>6, <1>13, <2>6
  <2>9. /\ \A i \in e.next + 1 .. Len(e.children) : ~nodes'[e.children[i]].started
        /\ e.next <= Len(e.children) => ~nodes'[e.children[e.next]].started
    BY <1>6, <1>13, <2>3, <2>6
  <2>. QED
    BY <2>4, <2>7, <2>8, <2>9 DEF OperatorInv
<1>20. ClaimInv(e)'
  <2>1. ~q.opaque => ~r.finished /\ r.outcome = "none"
    BY <1>8, <1>10, <1>12 DEF NodeInv
  <2>. QED
    BY <1>9, <1>10, <1>13, <2>1 DEF ClaimInv
<1>21. Frames'
  <2>1. \A f : At(t, Depth(t), f) => f.what # "operator"
    BY <1>15
  <2>2. d # 1
    BY <1>1, <1>14, <1>15
  <2>3. \A u, k, f : At(u, k, f) => Undisturbed(f)
    BY <1>18
  <2>. QED
    BY <1>0, <1>1, <1>3, <1>13, <1>16, <1>17, <1>19, <1>20, <2>1, <2>2, <2>3, FramesPush
<1>22. Apart'
  <2>1. Lone(t, d, e)
    <3> SUFFICES ASSUME NEW u, NEW j, NEW g, At(u, j, g), g.what = "operator"
                 PROVE  /\ e.on = g.on => nodes'[e.on].opaque
                        /\ \A a \in 1 .. Len(e.children), b \in 1 .. Len(g.children) :
                             e.children[a] # g.children[b]
      BY <1>13 DEF Lone
    <3>1. OperatorInv(u, j, g) /\ ClaimInv(g)
      BY <1>0 DEF Frames
    <3>2. g.on = on => q.opaque
      BY <1>8, <1>10, <3>1 DEF ClaimInv
    <3>3. \A b \in 1 .. Len(g.children) : g.children[b] \in 1 .. l
      BY <1>1, <3>1 DEF OperatorInv
    <3>4. \A a \in 1 .. Len(e.children) : e.children[a] \notin 1 .. l
      BY <1>4, <1>6, <1>13
    <3>. QED
      BY <1>9, <1>13, <3>2, <3>3, <3>4
  <2>2. \A u, k, f : At(u, k, f) => ~(u = t /\ k = d)
    BY <1>0, <1>1, <1>14, AtFacts
  <2>3. \A u, k, f : At(u, k, f)' =>
          (At(u, k, f) /\ ~(u = t /\ k = d)) \/ (u = t /\ k = d /\ f = e)
    BY <1>14, <2>2
  <2>4. ASSUME NEW u, NEW k, NEW g, At(u, k, g), g.what = "operator", nodes[g.on].opaque
        PROVE  nodes'[g.on].opaque
    <3>1. g.on \in 1 .. l
      BY <1>0, <1>1, <2>4 DEF Frames, OperatorInv
    <3>2. g.on = on => q.opaque
      BY <1>8, <1>10, <2>4
    <3>3. g.on # on => nodes'[g.on] = nodes[g.on]
      BY <1>6, <3>1
    <3>. QED
      BY <1>9, <2>4, <3>2, <3>3
  <2>. QED
    BY <1>0, <2>1, <2>3, <2>4, ApartKept
<1>23. Nodes'
  <2>1. ASSUME NEW i \in 1 .. l, i # on PROVE NodeInv(i)'
    <3>1. /\ nodes'[i] = nodes[i] /\ operators'[i] = operators[i] /\ answer'[i] = answer[i]
          /\ NodeInv(i) /\ i \in 1 .. Len(nodes)
      BY <1>0, <1>1, <1>6, <1>7, <2>1 DEF Nodes
    <3>. QED
      BY <1>0, <1>3, <1>16, <1>17, <3>1, NodeKept
  <2>2. ASSUME NEW i \in 1 .. n, NEW m, m = l + i PROVE NodeInv(m)'
    <3>1. /\ nodes'[m].kind = "Leaf" /\ nodes'[m].reason = "ShortCircuit"
          /\ nodes'[m].outcome = "none"
          /\ ~nodes'[m].started /\ ~nodes'[m].finished
          /\ ~nodes'[m].operator /\ ~nodes'[m].opaque /\ nodes'[m].children = <<>>
      BY <1>11, <2>2
    <3>2. operators'[m] = 0 /\ answer'[m] = "none"
      BY <1>7, <2>2
    <3>3. Len(nodes'[m].children) = 0
      BY <3>1
    <3>4. \A i1 \in 1 .. Len(nodes'[m].children) : nodes'[m].children[i1] \in 1 .. Len(nodes')
      BY <3>3
    <3>. QED
      BY <3>1, <3>2, <3>4 DEF NodeInv
  <2>3. NodeInv(on)'
    <3>1. \A i \in 1 .. Len(q.children) : q.children[i] \in 1 .. Len(nodes')
      BY <1>4, <1>6, <1>10
    <3>2. q.reason = "None" /\ q.started /\ q.operator
      BY <1>3, <1>8, <1>10, <1>12 DEF NodeInv
    <3>3. q.finished => q.outcome # "none" /\ returned'[on] = q.outcome
      BY <1>4, <1>7, <1>8, <1>10, <1>12 DEF NodeInv
    <3>4. ASSUME ~q.opaque
          PROVE  /\ on \notin DOMAIN frozen' => operators'[on] = 1 /\ answer'[on] = q.outcome
                 /\ q.outcome = "none"
      <4>1. ~r.operator /\ ~r.finished
        BY <1>10, <3>4
      <4>2. operators[on] = 0 /\ answer[on] = "none" /\ r.outcome = "none"
        BY <1>8, <1>12, <4>1 DEF NodeInv
      <4>3. on \notin DOMAIN frozen' => Open(on)
        BY <1>3, <1>8, <4>1 DEF Open
      <4>. QED
        BY <1>4, <1>7, <1>10, <4>2, <4>3
    <3>. QED
      BY <1>9, <3>1, <3>2, <3>3, <3>4 DEF NodeInv
  <2>4. ASSUME NEW m \in 1 .. Len(nodes') PROVE NodeInv(m)'
    <3>1. m \in 1 .. l \/ \E j \in 1 .. n : m = l + j
      BY <1>4, <1>6
    <3>2. CASE m \in 1 .. l
      BY <2>1, <2>3, <3>2
    <3>3. ASSUME NEW j \in 1 .. n, m = l + j PROVE NodeInv(m)'
      BY <2>2, <3>3
    <3>. QED
      BY <3>1, <3>2, <3>3
  <2>. QED
    BY <2>4 DEF Nodes
<1>24. Copies'
  <2>1. Depth(Main)' # 0 => Depth(Main) # 0
    BY <1>14, <1>15 DEF Threads
  <2>2. ASSUME NEW i \in DOMAIN frozen PROVE operators'[i] = operators[i] /\ answer'[i] = answer[i]
    <3>1. i \in 1 .. l
      BY <1>0, <1>1 DEF TypeOK
    <3>2. i = on => ~Open(on)
      BY DEF Open
    <3>. QED
      BY <1>7, <3>1, <3>2
  <2>. QED
    BY <1>0, <1>3, <1>16, <1>17, <2>1, <2>2, CopiesKept
<1>25. StayOut'
  <2>1. PICK f : f = Top(t)
    OBVIOUS
  <2>2. CallbackInv(t, Depth(t), f)
    BY <1>0, <1>15, <2>1 DEF Frames
  <2>3. f.role = "condition" => f.ctx \in {NoNode, f.node}
    BY <2>2 DEF CallbackInv
  <2>4. on # NoNode
    BY <1>4 DEF NoNode
  <2>. QED
    BY <1>0, <1>3, <2>1, <2>3, <2>4 DEF StayOut
<1>. QED
  BY <1>16, <1>21, <1>22, <1>23, <1>24, <1>25 DEF TraceInv

-----------------------------------------------------------------------------
(* Fire keeps a copy of the tree. *)

LEMMA ViewFacts ==
    ASSUME NEW r \in NodeSpace, panicErr \in BOOLEAN, NEW v, v = View(r)
    PROVE  /\ v \in ViewSpace /\ v.index = r.index /\ v.reason = r.reason
           /\ v.kind # "Leaf" => ~r.opaque /\ v.kind = r.kind
           /\ ~r.opaque => v.children = r.children
           /\ r.opaque => v.children = <<>>
           /\ ~panicErr => v.outcome = r.outcome
<1>1. PICK k, o, c : /\ k = IF r.opaque THEN "Leaf" ELSE r.kind
                     /\ o = IF panicErr /\ r.started /\ ~r.finished THEN "error" ELSE r.outcome
                     /\ c = IF r.opaque THEN <<>> ELSE r.children
  OBVIOUS
<1>2. v = [kind |-> k, index |-> r.index, outcome |-> o, reason |-> r.reason, children |-> c]
  BY <1>1 DEF View
<1>3. k \in Kinds /\ o \in Reports /\ c \in Seq(Nat)
  BY <1>1 DEF NodeSpace, Kinds, Reports, Outcomes
<1>4. v \in ViewSpace
  BY <1>2, <1>3 DEF NodeSpace, ViewSpace
<1>. QED
  BY <1>1, <1>2, <1>4

LEMMA FreezeInv ==
    ASSUME TraceInv, Freeze
    PROVE  TraceInv'
<1>0. TypeOK /\ Frames /\ Apart /\ Nodes /\ Copies /\ StayOut
  BY DEF TraceInv
<1>1. PICK n, v, rest : n = Head(todo) /\ v = View(nodes[n]) /\ rest = Tail(todo)
  OBVIOUS
<1>2. /\ todo # <<>> /\ todo' = v.children \o rest
      /\ frozen' = [m \in DOMAIN frozen \cup {n} |->
                      IF m \in DOMAIN frozen THEN frozen[m] ELSE v]
      /\ UNCHANGED <<nodes, stack, panicErr, operators, answer, returned, intruders>>
  BY <1>1 DEF Freeze, history
<1>3. /\ n \in 1 .. Len(nodes) /\ rest \in Seq(1 .. Len(nodes)) /\ n = todo[1]
      /\ 1 \in 1 .. Len(todo)
      /\ Len(rest) = Len(todo) - 1 /\ \A j \in 1 .. Len(rest) : rest[j] = todo[j + 1]
      /\ Len(todo) \in Nat
  <2>1. todo \in Seq(1 .. Len(nodes)) /\ todo # <<>>
    BY <1>0, <1>2 DEF TypeOK
  <2>. QED
    BY <1>1, <2>1, ElementOfSeq
<1>4. PICK r \in NodeSpace : r = nodes[n]
  BY <1>0, <1>3, NodeFacts
<1>5. /\ v \in ViewSpace /\ v.index = r.index /\ v.reason = r.reason
      /\ v.kind # "Leaf" => ~r.opaque /\ v.kind = r.kind
      /\ ~r.opaque => v.children = r.children
      /\ r.opaque => v.children = <<>>
      /\ ~panicErr => v.outcome = r.outcome
  <2>1. v = View(r) /\ panicErr \in BOOLEAN
    BY <1>0, <1>1, <1>4 DEF TypeOK
  <2>. QED
    BY <2>1, ViewFacts
<1>6. NodeInv(n)
  BY <1>0, <1>3 DEF Nodes
<1>7. PICK s : s = v.children
  OBVIOUS
<1>8. /\ s \in Seq(Nat) /\ Len(s) \in Nat /\ s \in Seq(1 .. Len(nodes))
      /\ \A i \in 1 .. Len(s) : s[i] \in 1 .. Len(nodes)
  <2>1. s \in Seq(Nat) /\ Len(s) \in Nat
    BY <1>5, <1>7 DEF ViewSpace
  <2>2. \A i \in 1 .. Len(s) : s[i] \in 1 .. Len(nodes)
    <3>1. CASE r.opaque
      <4>1. Len(s) = 0
        BY <1>5, <1>7, <3>1
      <4>. QED
        BY <4>1
    <3>2. CASE ~r.opaque
      BY <1>4, <1>5, <1>6, <1>7, <3>2 DEF NodeInv
    <3>. QED
      BY <3>1, <3>2
  <2>3. s \in [1 .. Len(s) -> 1 .. Len(nodes)]
    BY <2>1, <2>2
  <2>. QED
    BY <2>1, <2>2, <2>3
<1>9. /\ todo' \in Seq(1 .. Len(nodes)) /\ Len(todo') = Len(s) + Len(rest)
      /\ \A i \in 1 .. Len(s) : todo'[i] = s[i]
      /\ \A i \in 1 .. Len(rest) : todo'[Len(s) + i] = rest[i]
  <2>1. todo' = s \o rest
    BY <1>2, <1>7
  <2>. QED
    BY <1>3, <1>8, <2>1, Extended
<1>10. \A j \in 1 .. Len(todo') :
         \/ \E i \in 1 .. Len(s) : todo'[j] = s[i]
         \/ \E i \in 1 .. Len(todo) : todo'[j] = todo[i]
  <2> SUFFICES ASSUME NEW j \in 1 .. Len(todo')
               PROVE  \/ \E i \in 1 .. Len(s) : todo'[j] = s[i]
                      \/ \E i \in 1 .. Len(todo) : todo'[j] = todo[i]
    OBVIOUS
  <2>1. CASE j \in 1 .. Len(s)
    BY <1>9, <2>1
  <2>2. CASE j \notin 1 .. Len(s)
    <3>1. PICK i : i = j - Len(s)
      OBVIOUS
    <3>2. /\ i \in 1 .. Len(rest) /\ Len(s) + i = j
          /\ i + 1 \in 1 .. Len(todo)
      BY <1>3, <1>8, <1>9, <2>2, <3>1
    <3>3. todo'[j] = todo[i + 1]
      BY <1>3, <1>9, <3>2
    <3>. QED
      BY <3>2, <3>3
  <2>. QED
    BY <2>1, <2>2
<1>11. /\ DOMAIN frozen' = DOMAIN frozen \cup {n}
       /\ \A y \in DOMAIN frozen : frozen'[y] = frozen[y]
       /\ n \notin DOMAIN frozen => frozen'[n] = v
       /\ frozen' \in [DOMAIN frozen \cup {n} -> {frozen[y] : y \in DOMAIN frozen} \cup {v}]
  BY <1>2
<1>12. TypeOK'
  <2>1. DOMAIN frozen' \subseteq 1 .. Len(nodes') /\ frozen' \in [DOMAIN frozen' -> ViewSpace]
    <3>1. DOMAIN frozen \subseteq 1 .. Len(nodes) /\ frozen \in [DOMAIN frozen -> ViewSpace]
      BY <1>0 DEF TypeOK
    <3>2. {frozen[y] : y \in DOMAIN frozen} \cup {v} \subseteq ViewSpace
      BY <1>5, <3>1
    <3>. QED
      BY <1>2, <1>3, <1>11, <3>1, <3>2
  <2>. QED
    BY <1>0, <1>2, <1>9, <2>1 DEF TypeOK
<1>13. /\ \A t, k, f : At(t, k, f)' <=> At(t, k, f)
       /\ \A t : Depth(t)' = Depth(t)
       /\ \A m : Settled(m)' <=> Settled(m)
  BY <1>2 DEF At, Depth, Settled, Dormant, Owned
<1>14. Grows
  BY <1>0, <1>2, <1>13, QuietGrows
<1>15. Frames'
  <2>1. ASSUME NEW t, NEW k, NEW f, At(t, k, f)
        PROVE  /\ k = 1 => f.what = "callback"
               /\ f.what = "callback" => CallbackInv(t, k, f)'
               /\ f.what = "operator" => OperatorInv(t, k, f)' /\ ClaimInv(f)'
    <3>1. Undisturbed(f)
      BY <1>0, <1>2, <2>1, QuietFrames
    <3>. QED
      BY <1>0, <1>12, <1>13, <1>14, <2>1, <3>1, FrameKept
  <2>. QED
    BY <1>13, <2>1 DEF Frames
<1>16. Apart'
  BY <1>0, <1>2, <1>13, ApartCut
<1>17. Nodes'
  BY <1>0, <1>2, <1>11, <1>12, <1>14, NodesKept
<1>18. ASSUME ~panicErr, s # <<>>
       PROVE  /\ ~r.opaque /\ r.operator /\ r.finished /\ Follows(r.kind, r.outcome, s)
              /\ \A i \in 1 .. Len(s) : Settled(s[i])
  <2>1. ~r.opaque /\ s = r.children
    BY <1>5, <1>7, <1>18
  <2>2. r.operator
    BY <1>4, <1>6, <1>18, <2>1 DEF NodeInv
  <2>3. Settled(n)
    BY <1>0, <1>3, <1>18 DEF Copies
  <2>4. r.finished /\ r.outcome # "none"
    BY <1>4, <1>6, <2>2, <2>3 DEF NodeInv, Settled, Dormant
  <2>5. \A c, o, children : c = r.kind /\ o = r.outcome /\ children = r.children
                            => Follows(c, o, children)
    BY <1>4, <1>6, <2>1, <2>2, <2>4 DEF NodeInv
  <2>6. Follows(r.kind, r.outcome, s)
    BY <2>1, <2>5
  <2>7. \A i \in 1 .. Len(s) : Settled(s[i])
    BY <1>8, <2>6 DEF Follows, Settled
  <2>. QED
    BY <2>1, <2>2, <2>4, <2>6, <2>7
<1>19. Copies'
  <2>1. Depth(Main)' # 0 => todo' = <<>> /\ DOMAIN frozen' = {}
    BY <1>0, <1>2, <1>13 DEF Copies
  <2>2. ASSUME NEW m \in DOMAIN frozen, NEW w, frozen[m] = w PROVE Kept(m, w)'
    <3>1. Kept(m, w)
      BY <1>0, <2>2 DEF Copies
    <3>2. ASSUME NEW c, NEW o, NEW q, Follows(c, o, q) PROVE Follows(c, o, q)'
      BY <1>0, <1>12, <1>14, <3>2, FollowsKept
    <3>3. ASSUME NEW x, x \in DOMAIN frozen \/ \E j \in 1 .. Len(todo) : todo[j] = x
          PROVE  x \in DOMAIN frozen' \/ \E j \in 1 .. Len(todo') : todo'[j] = x
      <4>1. CASE x \in DOMAIN frozen
        BY <1>11, <4>1
      <4>2. ASSUME NEW j \in 1 .. Len(todo), todo[j] = x
            PROVE  x \in DOMAIN frozen' \/ \E i \in 1 .. Len(todo') : todo'[i] = x
        <5>1. CASE j = 1
          BY <1>3, <1>11, <4>2, <5>1
        <5>2. CASE j # 1
          <6>1. /\ j - 1 \in 1 .. Len(rest) /\ j - 1 + 1 = j
                /\ Len(s) + (j - 1) \in 1 .. Len(todo')
            BY <1>3, <1>8, <1>9, <5>2
          <6>2. todo'[Len(s) + (j - 1)] = x
            BY <1>3, <1>9, <4>2, <6>1
          <6>. QED
            BY <6>1, <6>2
        <5>. QED
          BY <5>1, <5>2
      <4>. QED
        BY <3>3, <4>1, <4>2
    <3>. QED
      BY <1>2, <1>13, <3>1, <3>2, <3>3 DEF Kept
  <2>3. ASSUME n \notin DOMAIN frozen PROVE Kept(n, v)'
    <3>1. v.kind # "Leaf" => r.operator /\ operators[n] = 1 /\ answer[n] = r.outcome
      BY <1>4, <1>5, <1>6, <2>3 DEF NodeInv
    <3>2. ASSUME ~panicErr
          PROVE  /\ Settled(n)' /\ v.outcome = r.outcome
                 /\ v.kind # "Leaf" => r.finished /\ Follows(v.kind, v.outcome, s)
      <4>1. Settled(n)
        BY <1>0, <1>3, <3>2 DEF Copies
      <4>2. ASSUME v.kind # "Leaf" PROVE r.finished /\ r.outcome # "none"
        BY <1>4, <1>6, <3>1, <4>1, <4>2 DEF NodeInv, Settled, Dormant
      <4>3. ASSUME v.kind # "Leaf" PROVE Follows(v.kind, v.outcome, s)
        <5>1. ~r.opaque /\ v.kind = r.kind /\ v.outcome = r.outcome /\ s = r.children
          BY <1>5, <1>7, <3>2, <4>3
        <5>. QED
          BY <1>4, <1>6, <3>1, <4>2, <4>3, <5>1 DEF NodeInv
      <4>. QED
        BY <1>5, <1>13, <3>2, <4>1, <4>2, <4>3
    <3>3. \A i \in 1 .. Len(s) : \E j \in 1 .. Len(todo') : todo'[j] = s[i]
      <4>1. \A i \in 1 .. Len(s) : i \in 1 .. Len(todo')
        BY <1>3, <1>8, <1>9
      <4>. QED
        BY <1>9, <4>1
    <3>4. ASSUME NEW c, NEW o, NEW q, Follows(c, o, q) PROVE Follows(c, o, q)'
      BY <1>0, <1>12, <1>14, <3>4, FollowsKept
    <3>5. operators' = operators /\ answer' = answer /\ nodes' = nodes /\ panicErr' = panicErr
      BY <1>2
    <3>. QED
      BY <1>4, <1>5, <1>7, <3>1, <3>2, <3>3, <3>4, <3>5 DEF Kept
  <2>4. ASSUME ~panicErr, NEW j \in 1 .. Len(todo'), NEW m, todo'[j] = m PROVE Settled(m)'
    <3>1. CASE \E i \in 1 .. Len(s) : m = s[i]
      <4>1. PICK i \in 1 .. Len(s) : m = s[i]
        BY <3>1
      <4>2. s # <<>>
        BY <4>1
      <4>3. Settled(s[i])
        BY <1>18, <2>4, <4>2
      <4>. QED
        BY <1>13, <4>1, <4>3
    <3>2. CASE \E i \in 1 .. Len(todo) : m = todo[i]
      BY <1>0, <1>13, <2>4, <3>2 DEF Copies
    <3>. QED
      BY <1>10, <2>4, <3>1, <3>2
  <2>5. \A m \in DOMAIN frozen' : \A w : frozen'[m] = w => Kept(m, w)'
    BY <1>11, <2>2, <2>3
  <2>. QED
    BY <1>2, <2>1, <2>4, <2>5 DEF Copies
<1>20. StayOut'
  BY <1>0, <1>2 DEF StayOut
<1>. QED
  BY <1>12, <1>15, <1>16, <1>17, <1>19, <1>20 DEF TraceInv

-----------------------------------------------------------------------------
(* The invariant. *)

LEMMA InitInv == Init => TraceInv
<1> SUFFICES ASSUME Init PROVE TraceInv
  OBVIOUS
<1>1. PICK r : r = Recording(-1, TRUE)
  OBVIOUS
<1>2. /\ r \in NodeSpace /\ r.kind = "Leaf" /\ r.index = -1 /\ r.outcome = "none"
      /\ r.reason = "None" /\ r.started /\ ~r.finished /\ ~r.operator /\ ~r.opaque
      /\ r.children = <<>>
  <2>1. PICK i \in Int : i = -1
    OBVIOUS
  <2>2. PICK b \in BOOLEAN : b /\ r = Recording(i, b)
    BY <1>1, <2>1, Zenon
  <2>3. r = Recording(i, b)
    BY <2>2, Zenon
  <2>4. /\ r \in NodeSpace /\ r.kind = "Leaf" /\ r.index = i /\ r.outcome = "none"
        /\ r.reason = "None" /\ r.started = b /\ ~r.finished /\ ~r.operator /\ ~r.opaque
        /\ r.children = <<>>
    BY <2>3, RecordingFacts
  <2>5. r.started
    BY <2>2, <2>4, Zenon
  <2>. QED
    BY <2>1, <2>4, <2>5
<1>3. PICK e : e = Callback(1)
  OBVIOUS
<1>4. /\ e \in FrameSpace /\ e.what = "callback" /\ e.role = "own" /\ e.node = 1
  BY <1>3 DEF Callback, FrameSpace, CallbackSpace, Roles
<1>5. /\ nodes = <<r>> /\ stack = [t \in Threads |-> IF t = Main THEN <<e>> ELSE <<>>]
      /\ panicErr = FALSE /\ todo = <<>> /\ frozen = <<>>
      /\ operators = <<0>> /\ answer = <<"none">> /\ returned = <<"none">>
      /\ intruders = {}
  BY <1>1, <1>3 DEF Init
<1>6. /\ nodes \in Seq(NodeSpace) /\ nodes # <<>> /\ Len(nodes) = 1 /\ nodes[1] = r
      /\ operators[1] = 0 /\ answer[1] = "none"
      /\ \A i \in 1 .. Len(nodes) : i = 1
  BY <1>2, <1>5
<1>7. \A t, k, f : At(t, k, f) => t = Main /\ k = 1 /\ f = e
  BY <1>5 DEF At
<1>8. DOMAIN frozen = {} /\ Len(todo) = 0
  BY <1>5
<1>9. TypeOK
  <2>1. stack \in [Threads -> Seq(FrameSpace)]
    BY <1>4, <1>5
  <2>2. /\ operators \in Seq(0 .. 2) /\ Len(operators) = 1
        /\ answer \in Seq(Reports) /\ Len(answer) = 1
        /\ returned \in Seq(Reports \cup {"panic"}) /\ Len(returned) = 1
    BY <1>5 DEF Reports
  <2>3. todo \in Seq(1 .. Len(nodes)) /\ panicErr \in BOOLEAN
    <3>1. \A S : <<>> \in Seq(S)
      OBVIOUS
    <3>2. panicErr \in BOOLEAN
      BY <1>5
    <3>. QED
      BY <1>5, <3>1, <3>2
  <2>4. DOMAIN frozen \subseteq 1 .. Len(nodes) /\ frozen \in [DOMAIN frozen -> ViewSpace]
    BY <1>5, <1>8
  <2>. QED
    BY <1>6, <2>1, <2>2, <2>3, <2>4 DEF TypeOK
<1>10. Frames
  <2>1. CallbackInv(Main, 1, e)
    <3>1. 1 \in 0 .. Len(nodes) /\ nodes[1].started /\ ~nodes[1].finished
      BY <1>2, <1>6
    <3>. QED
      BY <1>4, <3>1 DEF CallbackInv
  <2>. QED
    BY <1>4, <1>7, <2>1 DEF Frames
<1>11. Apart
  BY <1>7 DEF Apart
<1>12. Nodes
  <2>1. Len(r.children) = 0
    BY <1>2
  <2>2. NodeInv(1)
    BY <1>2, <1>6, <2>1 DEF NodeInv
  <2>. QED
    BY <1>6, <2>2 DEF Nodes
<1>13. Copies
  BY <1>5, <1>8 DEF Copies
<1>14. StayOut
  BY <1>5 DEF StayOut
<1>. QED
  BY <1>9, <1>10, <1>11, <1>12, <1>13, <1>14 DEF TraceInv

LEMMA StutterInv == TraceInv /\ UNCHANGED vars => TraceInv'
<1> SUFFICES ASSUME TraceInv, UNCHANGED vars PROVE TraceInv'
  OBVIOUS
<1>1. /\ nodes' = nodes /\ stack' = stack /\ panicErr' = panicErr /\ todo' = todo
      /\ frozen' = frozen /\ operators' = operators /\ answer' = answer
      /\ returned' = returned /\ intruders' = intruders
  BY DEF vars, history
<1>2. TypeOK /\ Frames /\ Apart /\ Nodes /\ Copies /\ StayOut
  BY DEF TraceInv
<1>3. TypeOK'
  BY <1>1, <1>2 DEF TypeOK
<1>4. (\A t, k, f : At(t, k, f)' <=> At(t, k, f)) /\ \A t : Depth(t)' = Depth(t)
  BY <1>1 DEF At, Depth
<1>5. Grows
  BY <1>1, <1>2, <1>4, QuietGrows
<1>6. Frames'
  <2>1. ASSUME NEW t, NEW k, NEW f, At(t, k, f)
        PROVE  /\ k = 1 => f.what = "callback"
               /\ f.what = "callback" => CallbackInv(t, k, f)'
               /\ f.what = "operator" => OperatorInv(t, k, f)' /\ ClaimInv(f)'
    <3>1. Undisturbed(f)
      BY <1>1, <1>2, <2>1, QuietFrames
    <3>. QED
      BY <1>2, <1>3, <1>4, <1>5, <2>1, <3>1, FrameKept
  <2>. QED
    BY <1>4, <2>1 DEF Frames
<1>7. Apart'
  BY <1>1, <1>2, <1>4, ApartCut
<1>8. Nodes'
  BY <1>1, <1>2, <1>3, <1>5, NodesKept
<1>9. Copies'
  BY <1>1, <1>2, <1>3, <1>4, <1>5, CopiesKept
<1>10. StayOut'
  BY <1>1, <1>2 DEF StayOut
<1>. QED
  BY <1>3, <1>6, <1>7, <1>8, <1>9, <1>10 DEF TraceInv

LEMMA TraceStep == TraceInv /\ [Next]_vars => TraceInv'
<1> SUFFICES ASSUME TraceInv, [Next]_vars PROVE TraceInv'
  OBVIOUS
<1>0. DOMAIN nodes = 1 .. Len(nodes)
  BY NodeFacts DEF TraceInv
<1>1. CASE UNCHANGED vars
  BY <1>1, StutterInv
<1>2. ASSUME NEW t \in Threads, NEW on \in DOMAIN nodes, NEW kind \in {"All", "Any"},
             NEW n \in 0 .. MaxChildren, Call(t, on, kind, n)
      PROVE  TraceInv'
  <2>1. n \in Nat /\ kind \in Operators /\ on \in 1 .. Len(nodes)
    BY <1>0 DEF Operators
  <2>. QED
    BY <1>2, <2>1, CallInv
<1>3. ASSUME NEW t \in Threads, NEW on \in DOMAIN nodes, Call(t, on, "Not", 1)
      PROVE  TraceInv'
  <2>1. 1 \in Nat /\ "Not" \in Operators /\ on \in 1 .. Len(nodes)
    BY <1>0 DEF Operators
  <2>. QED
    BY <1>3, <2>1, CallInv
<1>4. ASSUME NEW t \in Threads, StartChild(t) PROVE TraceInv'
  BY <1>4, StartChildInv
<1>5. ASSUME NEW t \in Threads, NEW outcome \in Outcomes, ChildReturns(t, outcome)
      PROVE  TraceInv'
  BY <1>5, ChildReturnsInv
<1>6. ASSUME NEW t \in Threads, OperatorReturns(t) PROVE TraceInv'
  BY <1>6, OperatorReturnsInv
<1>7. ASSUME NEW t \in Threads, NEW ctx, NEW traced \in BOOLEAN, CallFire(t, ctx, traced)
      PROVE  TraceInv'
  BY <1>7, CallFireInv
<1>8. ASSUME NEW t \in Threads, StartUntraced(t) \/ StartTraced(t) \/ StartAction(t)
      PROVE  TraceInv'
  BY <1>8, StartUntracedInv, StartTracedInv, StartActionInv
<1>9. ASSUME NEW t \in Threads, NEW outcome \in Outcomes, NestedReturns(t, outcome)
      PROVE  TraceInv'
  BY <1>9, NestedReturnsInv
<1>10. ASSUME NEW t \in Threads, FireReturns(t) \/ PanicRecovered(t) \/ Exit(t)
       PROVE  TraceInv'
  BY <1>10, FireReturnsInv, PanicRecoveredInv, ExitInv
<1>11. ASSUME NEW t \in Threads, NEW u \in Goroutines, Spawn(t, u) PROVE TraceInv'
  BY <1>11, SpawnInv
<1>12. ASSUME NEW outcome \in Outcomes, ConditionReturns(outcome) PROVE TraceInv'
  BY <1>12, ConditionReturnsInv
<1>13. CASE PanicReachesFire
  BY <1>13, PanicReachesFireInv
<1>14. CASE Freeze
  BY <1>14, FreezeInv
<1>15. CASE Terminated
  BY <1>1, <1>15 DEF Terminated
<1>. QED
  BY <1>1, <1>2, <1>3, <1>4, <1>5, <1>6, <1>7, <1>8, <1>9, <1>10, <1>11, <1>12, <1>13,
     <1>14, <1>15 DEF Next

LEMMA TraceHolds == Spec => []TraceInv
  BY InitInv, TraceStep, PTL DEF Spec

-----------------------------------------------------------------------------
(* A tree claims an operator only for a callback that called exactly one   *)
(* operator with its context, and, unless a panic reached Fire, gave the   *)
(* answer of that operator (trace.go:121-122).                             *)
THEOREM OneOperatorTrue == Spec => []OneOperator
  BY TraceHolds, OneOperatorFollows, PTL

(* An operator node of a kept tree follows from its children, whatever     *)
(* wrote to the recordings concurrently while and after they were copied   *)
(* (condition_trace_internal.go: traceCombined, finish, freeze).           *)
THEOREM TreeTrue == Spec => []TreeFollows
  BY TraceHolds, TreeFollowsHolds, PTL

LEMMA StayOutFollows == TraceInv => NestedConditionsStayOut
  BY DEF TraceInv, StayOut, NestedConditionsStayOut

(* A condition of a nested Fire, given its context, never writes into the  *)
(* recording of the condition that called Fire, traced or not              *)
(* (execution_internal.go:57-61, trace_test.go:234-259).                   *)
THEOREM NestedOut == Spec => []NestedConditionsStayOut
  BY TraceHolds, StayOutFollows, PTL
=============================================================================
