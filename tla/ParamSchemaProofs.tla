-------------------------- MODULE ParamSchemaProofs --------------------------
(***************************************************************************)
(* Theorems about the walk of validateParamType, for every type graph,     *)
(* shared or cyclic, and every limit: what it accepts is sound, and what   *)
(* it refuses has the reason that it names.                                *)
(*                                                                         *)
(* The walk is a depth-first search.  A type is active while its call is   *)
(* in progress, settled when the call has returned; a call that returned   *)
(* has seen all that its type leads to.                                    *)
(***************************************************************************)
EXTENDS ParamSchema, FiniteSetTheorems, SequenceTheorems, WellFoundedInduction, TLAPS

Settled == seen \ Active
FieldsOf(t) == shape[t].fields

TypeOK ==
    /\ shape \in Shapes
    /\ stack \in Seq([type : Types, next : Nat \ {0}])
    /\ call = <<>> \/ \E t \in Types : call = <<t>>
    /\ seen \subseteq Types

(* The active types are a path from the root, without repetition. *)
OnPath ==
    /\ \A k \in 1 .. Len(stack) : stack[k].type \in Walks[k - 1]
    /\ \A k \in 1 .. Len(stack) - 1 : \A t : stack[k].type = t =>
         stack[k + 1].type \in StepsFrom(t)
    /\ \A j, k \in 1 .. Len(stack) : stack[j].type = stack[k].type => j = k
    /\ \A t \in Types : call = <<t>> =>
         /\ t \in Walks[Len(stack)]
         /\ \A u : stack # <<>> /\ stack[Len(stack)].type = u => t \in StepsFrom(u)
    /\ Active \subseteq seen
    /\ IsFiniteSet(Active) /\ Cardinality(Active) = Len(stack)
    /\ Len(stack) <= MaxDepth + 1

(* A type is seen once it has been reached and found sound in itself. *)
Reached ==
    /\ seen \subseteq Reachable
    /\ Cardinality(seen) <= MaxTypes
    /\ \A t \in seen : shape[t].fault = "none"

(* What is behind the field that comes next was visited: nothing bad, and  *)
(* every type settled, but for the one whose call is due or in progress.   *)
Explored ==
    \A k \in 1 .. Len(stack) :
        LET fields == FieldsOf(stack[k].type)
        IN  /\ stack[k].next <= Len(fields) + 1
            /\ \A i \in 1 .. stack[k].next - 1 :
                 /\ fields[i].status = "bad" => result = "field"
                 /\ fields[i].status = "ok" =>
                      \/ fields[i].type \in Settled
                      \/ k < Len(stack) /\ fields[i].type = stack[k + 1].type
                      \/ k = Len(stack) /\ call = <<fields[i].type>>

(* Settled types lead to settled types only, and never back: each has a    *)
(* rank above all that it leads to.                                        *)
Ranks(rank, types) ==
    /\ rank \in [types -> 1 .. Cardinality(types)]
    /\ \A t \in types : \A u \in StepsFrom(t) : u \in types /\ rank[u] < rank[t]

Ranked ==
    /\ \E rank : Ranks(rank, Settled)
    /\ \A t \in Settled : ~BadField(t)

Verdicts ==
    /\ stack # <<>> => Root \in seen
    /\ result = "accepted" => stack = <<>> /\ Root \in seen
    /\ result = "field" => \E t \in seen : BadField(t)
    /\ result \notin {"walking", "accepted", "field"} =>
         \E t \in Types : call = <<t>> /\ result = Refusal(t) /\ result # "nil"

WalkInv == TypeOK /\ OnPath /\ Reached /\ Explored /\ Ranked /\ Verdicts

-----------------------------------------------------------------------------
(* Walks over a type graph. *)

LEMMA LeastElement ==
    ASSUME NEW S, S \subseteq Nat, S # {}
    PROVE  \E n \in S : \A m \in S : n <= m
<1>1. PICK n \in S : \A m \in S : <<m, n>> \notin OpToRel(<, Nat)
  BY NatLessThanWellFounded, WFMin
<1>2. \A m \in S : ~(m < n)
  BY <1>1 DEF OpToRel
<1>. QED
  BY <1>2

LEMMA SameElements ==
    ASSUME NEW A, NEW B, \A u : u \in A <=> u \in B
    PROVE  A = B
  OBVIOUS

LEMMA ShapeFacts ==
    ASSUME shape \in Shapes
    PROVE  \A t \in Types :
             /\ shape[t].fault \in Faults
             /\ FieldsOf(t) \in Seq([status : {"ok", "hidden", "bad"}, type : Types])
             /\ Len(FieldsOf(t)) \in Nat
             /\ \A k \in 1 .. Len(FieldsOf(t)) :
                  FieldsOf(t)[k].status \in {"ok", "hidden", "bad"} /\ FieldsOf(t)[k].type \in Types
<1>1. shape \in ShapeSpace
  BY ShapesAssumption
<1> SUFFICES ASSUME NEW t \in Types
             PROVE  /\ shape[t].fault \in Faults
                    /\ FieldsOf(t) \in Seq([status : {"ok", "hidden", "bad"}, type : Types])
                    /\ Len(FieldsOf(t)) \in Nat
                    /\ \A k \in 1 .. Len(FieldsOf(t)) :
                         /\ FieldsOf(t)[k].status \in {"ok", "hidden", "bad"}
                         /\ FieldsOf(t)[k].type \in Types
  OBVIOUS
<1>2. shape[t] \in [fault : Faults,
                    fields : Seq([status : {"ok", "hidden", "bad"}, type : Types])]
  BY <1>1 DEF ShapeSpace
<1>3. /\ shape[t].fault \in Faults
      /\ FieldsOf(t) \in Seq([status : {"ok", "hidden", "bad"}, type : Types])
  BY <1>2 DEF FieldsOf
<1>4. Len(FieldsOf(t)) \in Nat
  BY <1>3
<1>5. \A k \in 1 .. Len(FieldsOf(t)) :
        FieldsOf(t)[k] \in [status : {"ok", "hidden", "bad"}, type : Types]
  BY <1>3, ElementOfSeq
<1>. QED
  BY <1>3, <1>4, <1>5

LEMMA StepsAreFields ==
    ASSUME shape \in Shapes, NEW t \in Types, NEW u
    PROVE  /\ u \in StepsFrom(t) <=>
                \E k \in 1 .. Len(FieldsOf(t)) :
                   FieldsOf(t)[k].status = "ok" /\ FieldsOf(t)[k].type = u
           /\ BadField(t) <=> \E k \in 1 .. Len(FieldsOf(t)) : FieldsOf(t)[k].status = "bad"
           /\ StepsFrom(t) \subseteq Types
<1>1. FieldsOf(t) \in Seq([status : {"ok", "hidden", "bad"}, type : Types])
  BY ShapeFacts
<1>2. DOMAIN FieldsOf(t) = 1 .. Len(FieldsOf(t))
  BY <1>1
<1>3. u \in StepsFrom(t) <=>
        \E k \in 1 .. Len(FieldsOf(t)) :
           FieldsOf(t)[k].status = "ok" /\ FieldsOf(t)[k].type = u
  BY <1>2 DEF StepsFrom, FieldsOf
<1>4. BadField(t) <=> \E k \in 1 .. Len(FieldsOf(t)) : FieldsOf(t)[k].status = "bad"
  BY <1>2 DEF BadField, FieldsOf
<1>5. StepsFrom(t) \subseteq Types
  <2>1. ASSUME NEW w \in StepsFrom(t) PROVE w \in Types
    <3>1. PICK k \in 1 .. Len(FieldsOf(t)) : FieldsOf(t)[k].type = w
      BY <1>2 DEF StepsFrom, FieldsOf
    <3>. QED
      BY <3>1, ShapeFacts
  <2>. QED
    BY <2>1
<1>. QED
  BY <1>3, <1>4, <1>5

(* The ends of the paths of n steps from the root solve the equation of    *)
(* Walks, so that Walks satisfies it.                                      *)
Paths(n) ==
    {p \in [0 .. n -> Types] :
        p[0] = Root /\ \A i \in 0 .. n - 1 : p[i + 1] \in StepsFrom(p[i])}
Ends(n) == {p[n] : p \in Paths(n)}

LEMMA EndsSolve ==
    ASSUME shape \in Shapes, NEW n \in Nat
    PROVE  Ends(n) = IF n = 0 THEN {Root} ELSE UNION {StepsFrom(t) : t \in Ends(n - 1)}
<1>1. CASE n = 0
  <2> DEFINE p == [i \in 0 .. 0 |-> Root]
  <2>1. p \in Paths(0)
    BY RootAssumption DEF Paths
  <2>2. \A q \in Paths(0) : q[0] = Root
    BY DEF Paths
  <2>. QED
    BY <1>1, <2>1, <2>2 DEF Ends
<1>2. CASE n # 0
  <2>0. n - 1 \in Nat /\ n \in 0 .. n /\ n - 1 \in 0 .. n - 1 /\ n - 1 + 1 = n
    BY <1>2
  <2>1. ASSUME NEW u \in Ends(n) PROVE \E t \in Ends(n - 1) : u \in StepsFrom(t)
    <3>1. PICK p \in Paths(n) : u = p[n]
      BY DEF Ends
    <3>2. u \in StepsFrom(p[n - 1])
      BY <2>0, <3>1 DEF Paths
    <3> DEFINE q == [i \in 0 .. n - 1 |-> p[i]]
    <3>3. q \in [0 .. n - 1 -> Types]
      BY <2>0 DEF Paths
    <3>4. q[0] = Root
      BY <2>0 DEF Paths
    <3>5. \A i \in 0 .. n - 1 - 1 : q[i + 1] \in StepsFrom(q[i])
      BY <2>0 DEF Paths
    <3>6. q \in Paths(n - 1) /\ q[n - 1] = p[n - 1]
      BY <2>0, <3>3, <3>4, <3>5 DEF Paths
    <3>. QED
      BY <3>2, <3>6 DEF Ends
  <2>2. ASSUME NEW t \in Ends(n - 1), NEW u \in StepsFrom(t) PROVE u \in Ends(n)
    <3>1. PICK p \in Paths(n - 1) : t = p[n - 1]
      BY DEF Ends
    <3>2. t \in Types /\ u \in Types
      <4>1. t \in Types
        BY <2>0, <3>1 DEF Paths
      <4>. QED
        BY <4>1, StepsAreFields
    <3> DEFINE q == [i \in 0 .. n |-> IF i = n THEN u ELSE p[i]]
    <3>3. q \in [0 .. n -> Types]
      BY <2>0, <3>2 DEF Paths
    <3>4. q[0] = Root
      BY <1>2, <2>0 DEF Paths
    <3>5. ASSUME NEW i \in 0 .. n - 1 PROVE q[i + 1] \in StepsFrom(q[i])
      <4>1. CASE i = n - 1
        BY <2>0, <3>1, <4>1
      <4>2. CASE i # n - 1
        BY <2>0, <3>1, <4>2 DEF Paths
      <4>. QED
        BY <4>1, <4>2
    <3>6. q \in Paths(n) /\ q[n] = u
      BY <2>0, <3>3, <3>4, <3>5 DEF Paths
    <3>. QED
      BY <3>6 DEF Ends
  <2>. QED
    BY <1>2, <2>1, <2>2
<1>. QED
  BY <1>1, <1>2

LEMMA WalksEquation ==
    ASSUME shape \in Shapes
    PROVE  \A n \in Nat :
             Walks[n] = IF n = 0 THEN {Root} ELSE UNION {StepsFrom(t) : t \in Walks[n - 1]}
<1> DEFINE f == [n \in Nat |-> Ends(n)]
<1>1. \A n \in Nat : f[n] = IF n = 0 THEN {Root} ELSE UNION {StepsFrom(t) : t \in f[n - 1]}
  <2> SUFFICES ASSUME NEW n \in Nat
               PROVE f[n] = IF n = 0 THEN {Root} ELSE UNION {StepsFrom(t) : t \in f[n - 1]}
    OBVIOUS
  <2>1. n # 0 => n - 1 \in Nat
    OBVIOUS
  <2>. QED
    BY <2>1, EndsSolve
<1>2. f = [n \in Nat |-> IF n = 0 THEN {Root} ELSE UNION {StepsFrom(t) : t \in f[n - 1]}]
  BY <1>1
<1> HIDE DEF f
<1>3. \E g : g = [n \in Nat |-> IF n = 0 THEN {Root} ELSE UNION {StepsFrom(t) : t \in g[n - 1]}]
  BY <1>2, Zenon
<1>4. Walks = [n \in Nat |-> IF n = 0 THEN {Root}
                             ELSE UNION {StepsFrom(t) : t \in Walks[n - 1]}]
  BY <1>3, Zenon DEF Walks
<1>. QED
  BY <1>4, Zenon

Follows(w) ==
    /\ w[0] = {Root}
    /\ \A n \in Nat : \A u : u \in w[n + 1] <=> \E t \in w[n] : u \in StepsFrom(t)

LEMMA WalksFollow == shape \in Shapes => Follows(Walks)
<1> SUFFICES ASSUME shape \in Shapes PROVE Follows(Walks)
  OBVIOUS
<1>1. Walks[0] = {Root}
  BY WalksEquation
<1>2. \A m \in Nat : m # 0 =>
        \A u : u \in Walks[m] <=> \E t \in Walks[m - 1] : u \in StepsFrom(t)
  <2> SUFFICES ASSUME NEW m \in Nat, m # 0
               PROVE  \A u : u \in Walks[m] <=> \E t \in Walks[m - 1] : u \in StepsFrom(t)
    OBVIOUS
  <2>1. Walks[m] = IF m = 0 THEN {Root} ELSE UNION {StepsFrom(t) : t \in Walks[m - 1]}
    BY WalksEquation, Zenon
  <2>2. Walks[m] = UNION {StepsFrom(t) : t \in Walks[m - 1]}
    BY <2>1, Zenon
  <2>. QED
    BY <2>2, Zenon
<1>3. ASSUME NEW n \in Nat, NEW u
      PROVE  u \in Walks[n + 1] <=> \E t \in Walks[n] : u \in StepsFrom(t)
  <2>1. n + 1 \in Nat /\ n + 1 # 0 /\ n + 1 - 1 = n
    OBVIOUS
  <2>. QED
    BY <1>2, <2>1
<1>. QED
  BY <1>1, <1>3 DEF Follows

LEMMA WalksFacts ==
    ASSUME shape \in Shapes
    PROVE  /\ Walks[0] = {Root}
           /\ \A n \in Nat : \A u : u \in Walks[n + 1] <=>
                \E t \in Walks[n] : u \in StepsFrom(t)
  BY WalksFollow DEF Follows

(* The graph does not change while it is walked. *)
LEMMA GraphKept ==
    ASSUME shape \in Shapes, shape' = shape
    PROVE  /\ \A n \in Nat : Walks'[n] = Walks[n]
           /\ Reachable' = Reachable
           /\ \A t : StepsFrom(t)' = StepsFrom(t) /\ FieldsOf(t)' = FieldsOf(t)
                     /\ BadField(t)' = BadField(t)
<1>1. \A t : StepsFrom(t)' = StepsFrom(t) /\ FieldsOf(t)' = FieldsOf(t)
             /\ BadField(t)' = BadField(t)
  BY DEF StepsFrom, FieldsOf, BadField
<1>2. (shape \in Shapes)' => Follows(Walks)'
  BY WalksFollow, PTL
<1>3. /\ Walks'[0] = {Root}
      /\ \A n \in Nat : \A u : u \in Walks'[n + 1] <=> \E t \in Walks'[n] : u \in StepsFrom(t)
  BY <1>1, <1>2 DEF Follows
<1>4. \A n \in Nat : Walks'[n] = Walks[n]
  <2> DEFINE Bad == {n \in Nat : Walks'[n] # Walks[n]}
  <2> SUFFICES ASSUME Bad # {} PROVE FALSE
    OBVIOUS
  <2>1. PICK n \in Bad : \A m \in Bad : n <= m
    BY LeastElement
  <2>2. n # 0
    BY <1>3, WalksFacts
  <2>3. n - 1 \in Nat /\ n - 1 \notin Bad /\ n - 1 + 1 = n
    BY <2>1, <2>2
  <2>4. \A u : u \in Walks'[n - 1 + 1] <=> u \in Walks[n - 1 + 1]
    BY <1>3, <2>3, WalksFacts
  <2>5. \A u : u \in Walks'[n] <=> u \in Walks[n]
    BY <2>3, <2>4
  <2>6. Walks'[n] = Walks[n]
    BY <2>5, SameElements
  <2>. QED
    BY <2>6
<1>5. Reachable' = Reachable
  <2>1. \A u : u \in Reachable' <=> \E n \in 0 .. Cardinality(Types) - 1 : u \in Walks'[n]
    BY DEF Reachable
  <2>2. \A u : u \in Reachable <=> \E n \in 0 .. Cardinality(Types) - 1 : u \in Walks[n]
    BY DEF Reachable
  <2>3. Cardinality(Types) \in Nat
    BY RootAssumption, FS_CardinalityType
  <2>4. \A u : u \in Reachable' <=> u \in Reachable
    BY <1>4, <2>1, <2>2, <2>3
  <2>. QED
    BY <2>4, SameElements
<1>. QED
  BY <1>1, <1>4, <1>5

(* Where every member has a successor, walks never end. *)
LEMMA Endless ==
    ASSUME shape \in Shapes, NEW S, Root \in S, \A t \in S : \E u \in S : u \in StepsFrom(t)
    PROVE  \A n \in Nat : \E u \in S : u \in Walks[n]
<1> DEFINE Bad == {n \in Nat : ~\E u \in S : u \in Walks[n]}
<1> SUFFICES ASSUME Bad # {} PROVE FALSE
  OBVIOUS
<1>1. PICK n \in Bad : \A m \in Bad : n <= m
  BY LeastElement
<1>2. n # 0
  BY WalksFacts
<1>3. n - 1 \in Nat /\ n - 1 \notin Bad /\ n - 1 + 1 = n
  BY <1>1, <1>2
<1>4. PICK t \in S : t \in Walks[n - 1]
  BY <1>3
<1>5. PICK u \in S : u \in StepsFrom(t)
  BY <1>4
<1>6. u \in Walks[n - 1 + 1]
  BY <1>3, <1>4, <1>5, WalksFacts
<1>. QED
  BY <1>3, <1>6

(* Where every step descends, a walk is no longer than there are ranks. *)
LEMMA Descending ==
    ASSUME shape \in Shapes, NEW S, IsFiniteSet(S), Root \in S, NEW rank, Ranks(rank, S)
    PROVE  \A n \in Nat : \A u \in Walks[n] : u \in S /\ rank[u] + n <= Cardinality(S)
<1>0. Cardinality(S) \in Nat /\ \A t \in S : rank[t] \in 1 .. Cardinality(S)
  BY FS_CardinalityType DEF Ranks
<1> DEFINE Bad == {n \in Nat : ~\A u \in Walks[n] : u \in S /\ rank[u] + n <= Cardinality(S)}
<1> SUFFICES ASSUME Bad # {} PROVE FALSE
  OBVIOUS
<1>1. PICK n \in Bad : \A m \in Bad : n <= m
  BY LeastElement
<1>2. n # 0
  BY <1>0, WalksFacts
<1>3. n - 1 \in Nat /\ n - 1 \notin Bad /\ n - 1 + 1 = n
  BY <1>1, <1>2
<1>4. ASSUME NEW u \in Walks[n] PROVE u \in S /\ rank[u] + n <= Cardinality(S)
  <2>1. PICK t \in Walks[n - 1] : u \in StepsFrom(t)
    BY <1>3, WalksFacts
  <2>2. t \in S /\ rank[t] + (n - 1) <= Cardinality(S)
    BY <1>3
  <2>3. u \in S /\ rank[u] < rank[t]
    BY <2>1, <2>2 DEF Ranks
  <2>. QED
    BY <1>0, <1>1, <2>2, <2>3
<1>. QED
  BY <1>4

LEMMA ReachableFacts ==
    ASSUME shape \in Shapes
    PROVE  /\ Cardinality(Types) \in Nat \ {0}
           /\ Root \in Reachable
           /\ \A n \in Nat : Walks[n] \subseteq Types
           /\ Reachable \subseteq Types /\ IsFiniteSet(Reachable)
<1>1. Cardinality(Types) \in Nat \ {0}
  BY RootAssumption, FS_CardinalityType, FS_EmptySet
<1>2. Root \in Reachable
  <2>1. 0 \in 0 .. Cardinality(Types) - 1 /\ Root \in Walks[0]
    BY <1>1, WalksFacts
  <2>. QED
    BY <2>1 DEF Reachable
<1>3. ASSUME NEW n \in Nat PROVE Walks[n] \subseteq Types
  <2> DEFINE Bad == {m \in Nat : ~(Walks[m] \subseteq Types)}
  <2> SUFFICES ASSUME Bad # {} PROVE FALSE
    OBVIOUS
  <2>1. PICK m \in Bad : \A l \in Bad : m <= l
    BY LeastElement
  <2>2. m # 0
    BY WalksFacts, RootAssumption
  <2>3. m - 1 \in Nat /\ m - 1 \notin Bad /\ m - 1 + 1 = m
    BY <2>1, <2>2
  <2>4. ASSUME NEW u \in Walks[m] PROVE u \in Types
    <3>1. PICK t \in Walks[m - 1] : u \in StepsFrom(t)
      BY <2>3, WalksFacts
    <3>2. t \in Types
      BY <2>3
    <3>. QED
      BY <3>1, <3>2, StepsAreFields
  <2>. QED
    BY <2>4
<1>4. Reachable \subseteq Types
  BY <1>1, <1>3 DEF Reachable
<1>5. IsFiniteSet(Reachable)
  BY <1>4, RootAssumption, FS_Subset
<1>. QED
  BY <1>1, <1>2, <1>3, <1>4, <1>5

LEMMA ActiveFacts ==
    ASSUME TypeOK
    PROVE  /\ Len(stack) \in Nat
           /\ \A t : t \in Active <=> \E k \in 1 .. Len(stack) : stack[k].type = t
           /\ \A k \in 1 .. Len(stack) : stack[k].type \in Types /\ stack[k].next \in Nat \ {0}
<1>1. stack \in Seq([type : Types, next : Nat \ {0}])
  BY DEF TypeOK
<1>2. Len(stack) \in Nat /\ DOMAIN stack = 1 .. Len(stack)
  BY <1>1
<1>3. \A k \in 1 .. Len(stack) : stack[k] \in [type : Types, next : Nat \ {0}]
  BY <1>1, ElementOfSeq
<1>4. \A t : t \in Active <=> \E k \in 1 .. Len(stack) : stack[k].type = t
  BY <1>2 DEF Active
<1>5. \A k \in 1 .. Len(stack) : stack[k].type \in Types /\ stack[k].next \in Nat \ {0}
  BY <1>3
<1>. QED
  BY <1>2, <1>4, <1>5

LEMMA AcceptFollows == WalkInv => AcceptedIsSound
<1> SUFFICES ASSUME WalkInv, result = "accepted"
             PROVE  /\ ~Cyclic /\ FaultsIn(Reachable) = {"none"}
                    /\ \A t \in Reachable : ~BadField(t)
                    /\ Cardinality(Reachable) <= MaxTypes
  BY DEF AcceptedIsSound
<1>1. shape \in Shapes /\ seen \subseteq Types /\ stack = <<>> /\ Root \in seen
  BY DEF WalkInv, TypeOK, Verdicts
<1>2. Settled = seen
  <2>1. Len(stack) = 0
    BY <1>1
  <2>2. Active = {}
    BY <2>1, ActiveFacts DEF WalkInv
  <2>. QED
    BY <2>2 DEF Settled
<1>3. /\ IsFiniteSet(seen) /\ Cardinality(seen) \in Nat
      /\ Cardinality(seen) <= Cardinality(Types) /\ Cardinality(Types) \in Nat
  BY <1>1, RootAssumption, FS_Subset, FS_CardinalityType
<1>4. PICK rank : Ranks(rank, seen)
  BY <1>2 DEF WalkInv, Ranked
<1>5. \A n \in Nat : \A u \in Walks[n] : u \in seen /\ rank[u] + n <= Cardinality(seen)
  BY <1>1, <1>3, <1>4, Descending
<1>6. ~Cyclic
  <2>1. ASSUME NEW u \in Walks[Cardinality(Types)] PROVE FALSE
    <3>1. u \in seen /\ rank[u] + Cardinality(Types) <= Cardinality(seen)
      BY <1>3, <1>5
    <3>2. rank[u] \in 1 .. Cardinality(seen)
      BY <1>4, <3>1 DEF Ranks
    <3>. QED
      BY <1>3, <3>1, <3>2
  <2>. QED
    BY <2>1 DEF Cyclic
<1>7. Reachable \subseteq seen
  BY <1>3, <1>5 DEF Reachable
<1>8. \A t \in Reachable : shape[t].fault = "none" /\ ~BadField(t)
  BY <1>2, <1>7 DEF WalkInv, Reached, Ranked
<1>9. FaultsIn(Reachable) = {"none"}
  BY <1>1, <1>8, ReachableFacts DEF FaultsIn
<1>10. Cardinality(Reachable) <= MaxTypes
  <2>1. Cardinality(Reachable) <= Cardinality(seen) /\ Cardinality(Reachable) \in Nat
    BY <1>3, <1>7, FS_Subset, FS_CardinalityType
  <2>2. Cardinality(seen) <= MaxTypes /\ MaxTypes \in Nat
    BY LimitsAssumption DEF WalkInv, Reached
  <2>. QED
    BY <1>3, <2>1, <2>2
<1>. QED
  BY <1>6, <1>8, <1>9, <1>10

(* A type that is due and not active has been reached by a path short      *)
(* enough for Reachable.                                                   *)
LEMMA DueIsReachable ==
    ASSUME TypeOK, OnPath, NEW t \in Types, call = <<t>>, t \notin Active
    PROVE  t \in Reachable
<1>1. /\ shape \in Shapes /\ seen \subseteq Types /\ Len(stack) \in Nat
      /\ Active \subseteq seen /\ IsFiniteSet(Active) /\ Cardinality(Active) = Len(stack)
      /\ t \in Walks[Len(stack)]
  BY ActiveFacts DEF TypeOK, OnPath
<1>2. Cardinality(Active \cup {t}) = Len(stack) + 1
  BY <1>1, FS_AddElement
<1>3. Cardinality(Active \cup {t}) <= Cardinality(Types) /\ Cardinality(Types) \in Nat
  <2>1. Active \cup {t} \subseteq Types
    BY <1>1
  <2>. QED
    BY <2>1, RootAssumption, FS_Subset, FS_CardinalityType
<1>4. Len(stack) \in 0 .. Cardinality(Types) - 1
  BY <1>1, <1>2, <1>3
<1>. QED
  BY <1>1, <1>4 DEF Reachable

LEMMA RefusalFollows == WalkInv => RefusalIsTrue
<1> SUFFICES ASSUME WalkInv PROVE RefusalIsTrue
  OBVIOUS
<1>0. /\ TypeOK /\ OnPath /\ Reached /\ Verdicts /\ shape \in Shapes
      /\ MaxDepth \in Nat /\ MaxTypes \in Nat
  BY LimitsAssumption DEF WalkInv, TypeOK
<1>1. ASSUME NEW t \in Types, call = <<t>>, t \notin Active
      PROVE  t \in Reachable
  BY <1>0, <1>1, DueIsReachable
<1>2. ASSUME result = "recursive" PROVE Cyclic
  <2>1. PICK t \in Types : call = <<t>> /\ Refusal(t) = "recursive"
    BY <1>0, <1>2 DEF Verdicts
  <2>2. t \in Active
    <3>1. shape[t].fault # "recursive"
      BY <1>0, ShapeFacts DEF Faults
    <3>. QED
      BY <2>1, <3>1 DEF Refusal
  <2>3. Len(stack) \in Nat /\ stack # <<>>
    <3>1. Len(stack) # 0
      BY <1>0, <2>2, ActiveFacts
    <3>. QED
      BY <1>0, <3>1, ActiveFacts
  <2>4. Root \in Active
    <3>1. 1 \in 1 .. Len(stack) /\ stack[1].type \in Walks[1 - 1]
      <4>1. Len(stack) # 0
        BY <1>0, <2>2, ActiveFacts
      <4>. QED
        BY <1>0, <2>3, <4>1 DEF OnPath
    <3>. QED
      BY <1>0, <3>1, WalksFacts, ActiveFacts
  <2>5. ASSUME NEW u \in Active PROVE \E w \in Active : w \in StepsFrom(u)
    <3>1. PICK k \in 1 .. Len(stack) : stack[k].type = u
      BY <1>0, ActiveFacts
    <3>2. CASE k < Len(stack)
      <4>1. k + 1 \in 1 .. Len(stack) /\ k \in 1 .. Len(stack) - 1
        BY <2>3, <3>2
      <4>. QED
        BY <1>0, <3>1, <4>1, ActiveFacts DEF OnPath
    <3>3. CASE k = Len(stack)
      BY <1>0, <2>1, <2>2, <2>3, <3>1, <3>3 DEF OnPath
    <3>. QED
      BY <2>3, <3>2, <3>3
  <2>6. Cardinality(Types) \in Nat
    BY <1>0, ReachableFacts
  <2>. QED
    BY <1>0, <2>4, <2>5, <2>6, Endless DEF Cyclic
<1>3. ASSUME result = "limit"
      PROVE  \/ Walks[MaxDepth + 1] # {}
             \/ Cardinality(Reachable) > MaxTypes
             \/ FaultsIn(Reachable) \cap {"large", "crowded"} # {}
  <2>1. PICK t \in Types : call = <<t>> /\ Refusal(t) = "limit"
    BY <1>0, <1>3 DEF Verdicts
  <2>2. shape[t].fault # "limit"
    BY <1>0, ShapeFacts DEF Faults
  <2>3. \/ Len(stack) > MaxDepth
        \/ shape[t].fault \in {"large", "crowded"}
        \/ Cardinality(seen) >= MaxTypes /\ t \notin seen
    BY <2>1, <2>2 DEF Refusal, Full, Depth
  <2>4. CASE Len(stack) > MaxDepth
    <3>1. Len(stack) = MaxDepth + 1
      BY <1>0, <2>4, ActiveFacts DEF OnPath
    <3>. QED
      BY <1>0, <2>1, <3>1 DEF OnPath
  <2>5. CASE shape[t].fault \in {"large", "crowded"}
    <3>1. t \notin Active
      BY <1>0, <2>5 DEF OnPath, Reached
    <3>. QED
      BY <1>1, <2>1, <2>5, <3>1 DEF FaultsIn
  <2>6. CASE Cardinality(seen) >= MaxTypes /\ t \notin seen
    <3>1. t \in Reachable
      BY <1>0, <1>1, <2>1, <2>6 DEF OnPath
    <3>2. seen \cup {t} \subseteq Reachable /\ IsFiniteSet(Reachable) /\ IsFiniteSet(seen)
      BY <1>0, <3>1, ReachableFacts, FS_Subset DEF Reached
    <3>3. /\ Cardinality(seen \cup {t}) = Cardinality(seen) + 1
          /\ Cardinality(seen \cup {t}) <= Cardinality(Reachable)
          /\ Cardinality(seen) \in Nat /\ Cardinality(Reachable) \in Nat
      BY <2>6, <3>2, FS_AddElement, FS_Subset, FS_CardinalityType
    <3>. QED
      BY <1>0, <2>6, <3>3
  <2>. QED
    BY <2>3, <2>4, <2>5, <2>6
<1>4. ASSUME result = "field" PROVE \E t \in Reachable : BadField(t)
  BY <1>0, <1>4 DEF Verdicts, Reached
<1>5. ASSUME result \in Faults PROVE result \in FaultsIn(Reachable)
  <2>1. PICK t \in Types : call = <<t>> /\ result = Refusal(t) /\ result # "nil"
    BY <1>0, <1>5 DEF Verdicts, Faults
  <2>2. t \notin Active /\ result = shape[t].fault
    BY <1>5, <2>1 DEF Refusal, Faults
  <2>. QED
    BY <1>1, <2>1, <2>2 DEF FaultsIn
<1>. QED
  BY <1>2, <1>3, <1>4, <1>5 DEF RefusalIsTrue

-----------------------------------------------------------------------------
(* The walk keeps its invariant. *)

LEMMA InitWalk == Init => WalkInv
<1> SUFFICES ASSUME Init PROVE WalkInv
  OBVIOUS
<1>1. /\ shape \in Shapes /\ stack = <<>> /\ call = <<Root>> /\ seen = {}
      /\ result = "walking" /\ Root \in Types
  BY RootAssumption DEF Init
<1>2. Len(stack) = 0
  BY <1>1
<1>3. TypeOK
  BY <1>1 DEF TypeOK
<1>4. Active = {} /\ Settled = {}
  <2>1. Active = {}
    BY <1>2, <1>3, ActiveFacts
  <2>. QED
    BY <1>1, <2>1 DEF Settled
<1>5. IsFiniteSet({}) /\ Cardinality({}) = 0
  BY FS_EmptySet
<1>6. OnPath
  <2>1. \A t \in Types : call = <<t>> => t \in Walks[Len(stack)]
    BY <1>1, <1>2, WalksFacts
  <2>. QED
    BY <1>1, <1>2, <1>4, <1>5, <2>1, LimitsAssumption DEF OnPath
<1>7. Reached
  BY <1>1, <1>5, LimitsAssumption DEF Reached
<1>8. Explored
  BY <1>2 DEF Explored
<1>9. Ranked
  <2> DEFINE rank == [t \in {} |-> 0]
  <2>1. Ranks(rank, {})
    BY DEF Ranks
  <2>. QED
    BY <1>4, <2>1 DEF Ranked
<1>10. Verdicts
  BY <1>1 DEF Verdicts
<1>. QED
  BY <1>3, <1>6, <1>7, <1>8, <1>9, <1>10 DEF WalkInv

(* A step that leaves the stack alone and settles nothing. *)
LEMMA StackKept ==
    ASSUME WalkInv, UNCHANGED <<shape, stack, seen>>
    PROVE  /\ Active' = Active /\ Settled' = Settled
           /\ \A n \in Nat : Walks'[n] = Walks[n]
           /\ Reachable' = Reachable
           /\ \A t : StepsFrom(t)' = StepsFrom(t) /\ FieldsOf(t)' = FieldsOf(t)
                     /\ BadField(t)' = BadField(t)
           /\ Reached' /\ Ranked'
<1>1. shape \in Shapes
  BY DEF WalkInv, TypeOK
<1>2. Active' = Active /\ Settled' = Settled
  BY DEF Active, Settled
<1>3. /\ \A n \in Nat : Walks'[n] = Walks[n]
      /\ Reachable' = Reachable
      /\ \A t : StepsFrom(t)' = StepsFrom(t) /\ FieldsOf(t)' = FieldsOf(t)
                /\ BadField(t)' = BadField(t)
  BY <1>1, GraphKept
<1>4. Reached'
  BY <1>3 DEF WalkInv, Reached
<1>5. Ranked'
  BY <1>2, <1>3 DEF WalkInv, Ranked, Ranks
<1>. QED
  BY <1>2, <1>3, <1>4, <1>5

LEMMA RefuseWalk == WalkInv /\ Refuse => WalkInv'
<1> SUFFICES ASSUME WalkInv, Refuse PROVE WalkInv'
  OBVIOUS
<1>1. /\ UNCHANGED <<shape, stack, call, seen>> /\ Walking
      /\ call # <<>> /\ result' = Refusal(Head(call)) /\ result' # "nil"
  BY DEF Refuse
<1>2. PICK t \in Types : call = <<t>>
  BY <1>1 DEF WalkInv, TypeOK
<1>3. result' = Refusal(t) /\ Refusal(t)' = Refusal(t)
  <2>1. Head(call) = t
    BY <1>2
  <2>2. Refusal(t)' = Refusal(t)
    BY <1>1 DEF Refusal, Depth, Full, Active
  <2>. QED
    BY <1>1, <2>1, <2>2
<1>4. result' \notin {"walking", "accepted", "field"}
  <2>1. shape[t].fault \in Faults
    BY ShapeFacts DEF WalkInv, TypeOK
  <2>. QED
    BY <1>3, <2>1 DEF Refusal, Faults
<1>5. TypeOK'
  BY <1>1 DEF WalkInv, TypeOK
<1>6. OnPath'
  BY <1>1, StackKept, ActiveFacts DEF WalkInv, OnPath
<1>7. Explored'
  <2>1. \A u : FieldsOf(u)' = FieldsOf(u)
    BY <1>1, StackKept
  <2>2. Settled' = Settled /\ result # "field"
    BY <1>1, StackKept DEF Walking
  <2>. QED
    BY <1>1, <2>1, <2>2 DEF WalkInv, Explored
<1>8. Verdicts'
  BY <1>1, <1>2, <1>3, <1>4 DEF WalkInv, Verdicts, Walking
<1>. QED
  BY <1>1, <1>5, <1>6, <1>7, <1>8, StackKept DEF WalkInv

LEMMA SkipSeenWalk == WalkInv /\ SkipSeen => WalkInv'
<1> SUFFICES ASSUME WalkInv, SkipSeen PROVE WalkInv'
  OBVIOUS
<1>1. /\ UNCHANGED <<shape, stack, seen, result>> /\ Walking
      /\ call # <<>> /\ call' = <<>> /\ Refusal(Head(call)) = "nil" /\ Head(call) \in seen
  BY DEF SkipSeen
<1>2. PICK t \in Types : call = <<t>>
  BY <1>1 DEF WalkInv, TypeOK
<1>3. t \in Settled
  <2>1. Head(call) = t
    BY <1>2
  <2>2. t \notin Active
    BY <1>1, <2>1 DEF Refusal
  <2>. QED
    BY <1>1, <2>1, <2>2 DEF Settled
<1>4. TypeOK'
  BY <1>1 DEF WalkInv, TypeOK
<1>5. OnPath'
  <2>1. \A u \in Types : call' # <<u>>
    BY <1>1
  <2>. QED
    BY <1>1, <2>1, StackKept, ActiveFacts DEF WalkInv, OnPath
<1>6. Explored'
  <2>1. ASSUME NEW f, call = <<f>> PROVE f \in Settled
    BY <1>2, <1>3, <2>1
  <2>. QED
    BY <1>1, <2>1, StackKept DEF WalkInv, Explored
<1>7. Verdicts'
  BY <1>1, StackKept DEF WalkInv, Verdicts, Walking
<1>. QED
  BY <1>1, <1>4, <1>5, <1>6, <1>7, StackKept DEF WalkInv

LEMMA Appended ==
    ASSUME NEW S, NEW s \in Seq(S), NEW e \in S
    PROVE  /\ Append(s, e) \in Seq(S) /\ Append(s, e) # <<>>
           /\ Len(Append(s, e)) = Len(s) + 1 /\ Len(s) \in Nat
           /\ \A k \in 1 .. Len(s) : Append(s, e)[k] = s[k]
           /\ Append(s, e)[Len(s) + 1] = e
  OBVIOUS

LEMMA Popped ==
    ASSUME NEW S, NEW s \in Seq(S), s # <<>>
    PROVE  /\ SubSeq(s, 1, Len(s) - 1) \in Seq(S)
           /\ Len(SubSeq(s, 1, Len(s) - 1)) = Len(s) - 1
           /\ Len(s) \in Nat \ {0} /\ Len(s) \in 1 .. Len(s)
           /\ \A k \in 1 .. Len(s) - 1 : SubSeq(s, 1, Len(s) - 1)[k] = s[k]
<1>1. Len(s) \in Nat \ {0}
  OBVIOUS
<1>2. Len(s) - 1 \in 0 .. Len(s) /\ \A k \in 1 .. Len(s) - 1 : k \in 1 .. Len(s)
  BY <1>1
<1>3. 1 \in Int /\ Len(s) - 1 \in Int /\ \A i \in 1 .. Len(s) - 1 : s[i] \in S
  BY <1>1, <1>2, ElementOfSeq
<1> DEFINE p == SubSeq(s, 1, Len(s) - 1)
<1>4. /\ p \in Seq(S)
      /\ Len(p) = IF 1 <= Len(s) - 1 THEN (Len(s) - 1) - 1 + 1 ELSE 0
      /\ \A i \in 1 .. (Len(s) - 1) - 1 + 1 : p[i] = s[1 + i - 1]
  BY <1>3, SubSeqProperties
<1>5. Len(p) = Len(s) - 1
  <2>1. PICK n \in Nat \ {0} : n = Len(s)
    BY <1>1
  <2>2. Len(p) = IF 1 <= n - 1 THEN (n - 1) - 1 + 1 ELSE 0
    BY <1>4, <2>1
  <2>3. Len(p) = n - 1
    <3> HIDE DEF p
    <3>. QED
      BY <2>2
  <2>. QED
    BY <2>1, <2>3
<1> HIDE DEF p
<1>6. ASSUME NEW k \in 1 .. Len(s) - 1 PROVE p[k] = s[k]
  <2>1. k \in 1 .. (Len(s) - 1) - 1 + 1 /\ 1 + k - 1 = k
    BY <1>1
  <2>. QED
    BY <1>4, <2>1
<1>7. /\ p \in Seq(S) /\ Len(p) = Len(s) - 1 /\ Len(s) \in 1 .. Len(s)
      /\ \A k \in 1 .. Len(s) - 1 : p[k] = s[k]
  BY <1>1, <1>4, <1>5, <1>6
<1>. QED
  BY <1>1, <1>7 DEF p

LEMMA EnterWalk == WalkInv /\ Enter => WalkInv'
<1> SUFFICES ASSUME WalkInv, Enter PROVE WalkInv'
  OBVIOUS
<1> DEFINE frame(t) == [type |-> t, next |-> 1]
<1>0. TypeOK /\ OnPath /\ Reached /\ Explored /\ Ranked /\ Verdicts
  BY DEF WalkInv
<1>1. PICK t \in Types : call = <<t>> /\ Head(call) = t
  BY <1>0 DEF Enter, TypeOK
<1>2. /\ stack' = Append(stack, frame(t)) /\ seen' = seen \cup {t} /\ call' = <<>>
      /\ shape' = shape /\ result = "walking" /\ result' = "walking"
      /\ Refusal(t) = "nil" /\ t \notin seen
  BY <1>1 DEF Enter, Walking
<1>3. /\ t \notin Active /\ Len(stack) <= MaxDepth /\ Cardinality(seen) < MaxTypes
      /\ shape[t].fault = "none"
  <2>1. shape[t].fault \in Faults
    BY <1>0, ShapeFacts DEF TypeOK
  <2>2. IsFiniteSet(seen) /\ Cardinality(seen) \in Nat /\ Len(stack) \in Nat
        /\ MaxDepth \in Nat /\ MaxTypes \in Nat
    BY <1>0, RootAssumption, LimitsAssumption, ActiveFacts, FS_Subset, FS_CardinalityType DEF TypeOK
  <2>3. ~(Depth > MaxDepth) /\ shape[t].fault # "large" /\ ~Full(t) /\ t \notin Active
    BY <1>2 DEF Refusal
  <2>4. shape[t].fault = "none"
    BY <1>2, <2>1, <2>3 DEF Refusal, Faults
  <2>. QED
    BY <1>2, <2>2, <2>3, <2>4 DEF Depth, Full
<1>4. /\ Len(stack) \in Nat /\ Len(stack') = Len(stack) + 1 /\ stack' # <<>>
      /\ \A k \in 1 .. Len(stack) : stack'[k] = stack[k]
      /\ stack'[Len(stack) + 1].type = t /\ stack'[Len(stack) + 1].next = 1
      /\ stack' \in Seq([type : Types, next : Nat \ {0}])
  <2>1. frame(t) \in [type : Types, next : Nat \ {0}] /\ frame(t).type = t /\ frame(t).next = 1
    OBVIOUS
  <2> HIDE DEF frame
  <2>. QED
    BY <1>0, <1>2, <2>1, Appended DEF TypeOK
<1>5. TypeOK'
  BY <1>0, <1>2, <1>4 DEF TypeOK
<1>6. Active' = Active \cup {t}
  <2>1. \A u : u \in Active' <=> \E k \in 1 .. Len(stack') : stack'[k].type = u
    <3>1. DOMAIN stack' = 1 .. Len(stack')
      BY <1>4
    <3>. QED
      BY <3>1 DEF Active
  <2>2. ASSUME NEW u PROVE u \in Active' <=> u \in Active \cup {t}
    <3>1. u \in Active <=> \E k \in 1 .. Len(stack) : stack[k].type = u
      BY <1>0, ActiveFacts
    <3>2. u \in Active' <=> \E k \in 1 .. Len(stack') : stack'[k].type = u
      BY <2>1
    <3>3. \A k : k \in 1 .. Len(stack') <=> k \in 1 .. Len(stack) \/ k = Len(stack) + 1
      BY <1>4
    <3>4. /\ \A k \in 1 .. Len(stack) : stack'[k].type = stack[k].type
          /\ stack'[Len(stack) + 1].type = t
      BY <1>4
    <3>. QED
      BY <3>1, <3>2, <3>3, <3>4
  <2>. QED
    BY <2>2, SameElements
<1>7. Settled' = Settled
  BY <1>2, <1>6 DEF Settled
<1>8. /\ \A n \in Nat : Walks'[n] = Walks[n]
      /\ Reachable' = Reachable
      /\ \A u : StepsFrom(u)' = StepsFrom(u) /\ FieldsOf(u)' = FieldsOf(u)
                /\ BadField(u)' = BadField(u)
  BY <1>0, <1>2, GraphKept DEF TypeOK
<1>9. t \in Walks[Len(stack)] /\ (stack # <<>> => t \in StepsFrom(stack[Len(stack)].type))
  BY <1>0, <1>1 DEF OnPath
<1>10. OnPath'
  <2>1. \A k \in 1 .. Len(stack') : stack'[k].type \in Walks'[k - 1]
    <3> SUFFICES ASSUME NEW k \in 1 .. Len(stack') PROVE stack'[k].type \in Walks[k - 1]
      <4>1. \A k \in 1 .. Len(stack') : k - 1 \in Nat
        BY <1>4
      <4>. QED
        BY <1>8, <4>1
    <3>1. CASE k = Len(stack) + 1
      BY <1>4, <1>9, <3>1
    <3>2. CASE k # Len(stack) + 1
      <4>1. k \in 1 .. Len(stack)
        BY <1>4, <3>2
      <4>2. stack[k].type \in Walks[k - 1]
        BY <1>0, <4>1 DEF OnPath
      <4>. QED
        BY <1>4, <4>1, <4>2
    <3>. QED
      BY <3>1, <3>2
  <2>2. \A k \in 1 .. Len(stack') - 1 : \A u : stack'[k].type = u =>
           stack'[k + 1].type \in StepsFrom(u)
    <3> SUFFICES ASSUME NEW k \in 1 .. Len(stack), NEW u, stack[k].type = u
                 PROVE stack'[k + 1].type \in StepsFrom(u)
      <4>1. Len(stack') - 1 = Len(stack)
        BY <1>4
      <4>. QED
        BY <1>4, <4>1
    <3>1. CASE k = Len(stack)
      <4>1. stack # <<>>
        BY <3>1
      <4>. QED
        BY <1>4, <1>9, <3>1, <4>1
    <3>2. CASE k # Len(stack)
      <4>1. k \in 1 .. Len(stack) - 1 /\ k + 1 \in 1 .. Len(stack)
        BY <1>4, <3>2
      <4>. QED
        BY <1>0, <1>4, <4>1 DEF OnPath
    <3>. QED
      BY <3>1, <3>2
  <2>3. \A j, k \in 1 .. Len(stack') : stack'[j].type = stack'[k].type => j = k
    <3>1. \A k \in 1 .. Len(stack) : stack[k].type # t
      BY <1>0, <1>3, ActiveFacts
    <3>. QED
      BY SMTT(30), <1>0, <1>4, <3>1 DEF OnPath
  <2>4. \A u \in Types : call' # <<u>>
    BY <1>2
  <2>5. /\ IsFiniteSet(Active') /\ Cardinality(Active') = Len(stack') /\ Active' \subseteq seen'
    <3>1. IsFiniteSet(Active) /\ Cardinality(Active) = Len(stack) /\ Active \subseteq seen
      BY <1>0 DEF OnPath
    <3>2. IsFiniteSet(Active \cup {t}) /\ Cardinality(Active \cup {t}) = Cardinality(Active) + 1
      BY <1>3, <3>1, FS_AddElement
    <3>. QED
      BY <1>2, <1>4, <1>6, <3>1, <3>2
  <2>6. Len(stack') <= MaxDepth + 1
    BY <1>3, <1>4, LimitsAssumption
  <2>. QED
    BY <1>8, <2>1, <2>2, <2>3, <2>4, <2>5, <2>6 DEF OnPath
<1>11. Reached'
  <2>1. t \in Reachable
    BY <1>0, <1>1, <1>3, DueIsReachable
  <2>2. Cardinality(seen') <= MaxTypes
    <3>1. IsFiniteSet(seen) /\ Cardinality(seen) \in Nat
      BY <1>0, RootAssumption, FS_Subset, FS_CardinalityType DEF TypeOK
    <3>2. Cardinality(seen \cup {t}) = Cardinality(seen) + 1
      BY <1>2, <3>1, FS_AddElement
    <3>. QED
      BY <1>2, <1>3, <3>1, <3>2, LimitsAssumption
  <2>. QED
    BY <1>0, <1>2, <1>3, <1>8, <2>1, <2>2 DEF Reached
<1>12. Explored'
  <2> SUFFICES ASSUME NEW k \in 1 .. Len(stack')
               PROVE  /\ stack'[k].next <= Len(FieldsOf(stack'[k].type)) + 1
                      /\ \A i \in 1 .. stack'[k].next - 1 :
                           /\ FieldsOf(stack'[k].type)[i].status = "bad" => result' = "field"
                           /\ FieldsOf(stack'[k].type)[i].status = "ok" =>
                                \/ FieldsOf(stack'[k].type)[i].type \in Settled
                                \/ /\ k < Len(stack')
                                   /\ FieldsOf(stack'[k].type)[i].type = stack'[k + 1].type
    BY <1>7, <1>8 DEF Explored
  <2>1. CASE k = Len(stack) + 1
    <3>1. Len(FieldsOf(t)) \in Nat
      BY <1>0, ShapeFacts DEF TypeOK
    <3>. QED
      BY <1>4, <2>1, <3>1
  <2>2. CASE k # Len(stack) + 1
    <3>1. k \in 1 .. Len(stack) /\ stack'[k] = stack[k] /\ k < Len(stack')
      BY <1>4, <2>2
    <3>2. k < Len(stack) => stack'[k + 1] = stack[k + 1]
      BY SMTT(30), <1>4, <3>1
    <3>3. \A u : call = <<u>> => u = t
      BY <1>1
    <3>4. PICK fs, m, u : fs = FieldsOf(stack[k].type) /\ m = stack[k].next
                          /\ u = stack[k].type
      OBVIOUS
    <3>5. /\ m <= Len(fs) + 1
          /\ \A i \in 1 .. m - 1 :
               /\ fs[i].status = "bad" => result = "field"
               /\ fs[i].status = "ok" =>
                    \/ fs[i].type \in Settled
                    \/ k < Len(stack) /\ fs[i].type = stack[k + 1].type
                    \/ k = Len(stack) /\ call = <<fs[i].type>>
      BY <1>0, <3>1, <3>4 DEF Explored
    <3>6. k = Len(stack) => stack'[k + 1].type = t
      BY <1>4
    <3>7. \A i \in 1 .. m - 1 :
            /\ fs[i].status = "bad" => result' = "field"
            /\ fs[i].status = "ok" => \/ fs[i].type \in Settled
                                     \/ fs[i].type = stack'[k + 1].type
      BY <1>2, <3>2, <3>3, <3>5, <3>6
    <3>. QED
      BY <3>1, <3>4, <3>5, <3>7
  <2>. QED
    BY <2>1, <2>2
<1>13. Ranked'
  BY <1>0, <1>7, <1>8 DEF Ranked, Ranks
<1>14. Verdicts'
  <2>1. stack = <<>> => t = Root
    BY <1>0, <1>9, WalksFacts DEF TypeOK
  <2>. QED
    BY <1>0, <1>2, <2>1 DEF Verdicts
<1>. QED
  BY <1>5, <1>10, <1>11, <1>12, <1>13, <1>14 DEF WalkInv

LEMMA VisitFieldWalk == WalkInv /\ VisitField => WalkInv'
<1> SUFFICES ASSUME WalkInv, VisitField PROVE WalkInv'
  OBVIOUS
<1>0. TypeOK /\ OnPath /\ Reached /\ Explored /\ Ranked /\ Verdicts
  BY DEF WalkInv
<1>1. PICK n \in Nat \ {0} : n = Len(stack) /\ n \in 1 .. Len(stack) /\ n \in 1 .. n
  <2>1. Len(stack) \in Nat \ {0}
    BY <1>0 DEF VisitField, TypeOK
  <2>. QED
    BY <2>1
<1>2. PICK u \in Types, i \in Nat \ {0} : stack[n].type = u /\ stack[n].next = i
  BY <1>0, <1>1, ActiveFacts
<1>3. i \in 1 .. Len(FieldsOf(u)) /\ Len(FieldsOf(u)) \in Nat
  <2>1. i <= Len(FieldsOf(u))
    BY <1>1, <1>2 DEF VisitField, Fields, Top, FieldsOf
  <2>2. Len(FieldsOf(u)) \in Nat
    BY <1>0, <1>2, ShapeFacts DEF TypeOK
  <2>. QED
    BY <1>2, <2>1, <2>2
<1>4. PICK f : f = FieldsOf(u)[i]
  OBVIOUS
<1>5. f.status \in {"ok", "hidden", "bad"} /\ f.type \in Types
  BY <1>0, <1>2, <1>3, <1>4, ShapeFacts DEF TypeOK
<1>6. /\ shape' = shape /\ seen' = seen /\ call = <<>> /\ result = "walking"
      /\ result' = IF f.status = "bad" THEN "field" ELSE "walking"
      /\ call' = IF f.status = "ok" THEN <<f.type>> ELSE <<>>
      /\ stack' = [stack EXCEPT ![n].next = @ + 1]
  BY <1>1, <1>2, <1>4 DEF VisitField, Walking, Fields, Top, FieldsOf
<1>7. /\ Len(stack') = n /\ stack' # <<>>
      /\ stack'[n].type = u /\ stack'[n].next = i + 1
      /\ \A k \in 1 .. n : stack'[k].type = stack[k].type
      /\ \A k \in 1 .. n : k # n => stack'[k] = stack[k]
      /\ stack' \in Seq([type : Types, next : Nat \ {0}])
  <2>1. stack \in Seq([type : Types, next : Nat \ {0}]) /\ DOMAIN stack = 1 .. n
    BY <1>0, <1>1 DEF TypeOK
  <2> DEFINE e == [type |-> u, next |-> i + 1]
  <2>2. e \in [type : Types, next : Nat \ {0}] /\ e.type = u /\ e.next = i + 1
    BY <1>2
  <2>3. stack' = [stack EXCEPT ![n] = e]
    <3>1. stack[n] \in [type : Types, next : Nat \ {0}]
      <4>1. \A k \in 1 .. Len(stack) : stack[k] \in [type : Types, next : Nat \ {0}]
        BY <2>1, ElementOfSeq
      <4>. QED
        BY <1>1, <4>1
    <3>2. [stack[n] EXCEPT !.next = @ + 1] = e
      <4>1. PICK r \in [type : Types, next : Nat \ {0}] : r = stack[n]
        BY <3>1
      <4>2. r.type = u /\ r.next = i
        BY <1>2, <4>1
      <4>3. [r EXCEPT !.next = @ + 1] = e
        BY <4>2
      <4>. QED
        BY <4>1, <4>3
    <3> HIDE DEF e
    <3>. QED
      BY <1>6, <3>2
  <2> HIDE DEF e
  <2>4. /\ stack' \in Seq([type : Types, next : Nat \ {0}]) /\ Len(stack') = n
        /\ \A k \in 1 .. n : stack'[k] = IF k = n THEN e ELSE stack[k]
    BY <1>1, <2>1, <2>2, <2>3, ExceptSeq
  <2>5. stack' # <<>>
    BY <1>1, <2>4
  <2>6. stack'[n].type = u /\ stack'[n].next = i + 1
    BY <1>1, <2>2, <2>4
  <2>7. \A k \in 1 .. n : k # n => stack'[k] = stack[k]
    BY <2>4
  <2>. QED
    BY <1>2, <2>4, <2>5, <2>6, <2>7
<1>8. TypeOK'
  <2>1. call' = <<>> \/ \E t \in Types : call' = <<t>>
    BY <1>5, <1>6
  <2>. QED
    BY <1>0, <1>6, <1>7, <2>1 DEF TypeOK
<1>9. Active' = Active
  <2>1. \A t : t \in Active' <=> \E k \in 1 .. n : stack'[k].type = t
    <3>1. DOMAIN stack' = 1 .. n
      BY <1>7
    <3>. QED
      BY <3>1 DEF Active
  <2>2. \A t : t \in Active' <=> t \in Active
    BY <1>0, <1>1, <1>7, <2>1, ActiveFacts
  <2>. QED
    BY <2>2, SameElements
<1>10. Settled' = Settled
  BY <1>6, <1>9 DEF Settled
<1>11. /\ \A m \in Nat : Walks'[m] = Walks[m]
       /\ Reachable' = Reachable
       /\ \A t : StepsFrom(t)' = StepsFrom(t) /\ FieldsOf(t)' = FieldsOf(t)
                 /\ BadField(t)' = BadField(t)
  BY <1>0, <1>6, GraphKept DEF TypeOK
<1>12. ASSUME f.status = "ok" PROVE f.type \in StepsFrom(u) /\ f.type \in Walks[n]
  <2>1. f.type \in StepsFrom(u)
    BY <1>0, <1>2, <1>3, <1>4, <1>12, StepsAreFields DEF TypeOK
  <2>2. u \in Walks[n - 1]
    BY <1>0, <1>1, <1>2 DEF OnPath
  <2>3. n - 1 \in Nat /\ n - 1 + 1 = n
    BY <1>1
  <2>4. f.type \in Walks[n - 1 + 1]
    BY <1>0, <2>1, <2>2, <2>3, WalksFacts DEF TypeOK
  <2>. QED
    BY <2>1, <2>3, <2>4
<1>13. OnPath'
  <2>1. \A k \in 1 .. n : stack'[k].type \in Walks'[k - 1]
    <3> SUFFICES ASSUME NEW k \in 1 .. n PROVE stack'[k].type \in Walks'[k - 1]
      OBVIOUS
    <3>1. stack[k].type \in Walks[k - 1] /\ k - 1 \in Nat
      BY <1>0, <1>1 DEF OnPath
    <3>. QED
      BY <1>7, <1>11, <3>1
  <2>2. \A k \in 1 .. n - 1 : \A t : stack'[k].type = t => stack'[k + 1].type \in StepsFrom(t)
    <3> SUFFICES ASSUME NEW k \in 1 .. n - 1, NEW t, stack'[k].type = t
                 PROVE  stack'[k + 1].type \in StepsFrom(t)
      OBVIOUS
    <3>1. k \in 1 .. n /\ k + 1 \in 1 .. n /\ k \in 1 .. Len(stack) - 1
      BY <1>1
    <3>2. stack'[k].type = stack[k].type /\ stack'[k + 1].type = stack[k + 1].type
      BY <1>7, <3>1
    <3>. QED
      BY <1>0, <3>1, <3>2 DEF OnPath
  <2>3. \A j, k \in 1 .. n : stack'[j].type = stack'[k].type => j = k
    BY <1>0, <1>1, <1>7 DEF OnPath
  <2>4. \A t \in Types : call' = <<t>> => t \in Walks'[n] /\ t \in StepsFrom(u)
    BY <1>6, <1>11, <1>12
  <2>5. IsFiniteSet(Active') /\ Cardinality(Active') = n /\ Active' \subseteq seen'
    BY <1>0, <1>1, <1>6, <1>9 DEF OnPath
  <2>6. n <= MaxDepth + 1
    BY <1>0, <1>1 DEF OnPath
  <2>7. \A t \in Types : call' = <<t>> =>
          /\ t \in Walks'[Len(stack')]
          /\ \A w : stack' # <<>> /\ stack'[Len(stack')].type = w => t \in StepsFrom(w)
    BY <1>7, <2>4
  <2>. QED
    BY <1>7, <1>11, <2>1, <2>2, <2>3, <2>5, <2>6, <2>7 DEF OnPath
<1>14. Reached'
  BY <1>0, <1>6, <1>11 DEF Reached
<1>15. Explored'
  <2> SUFFICES ASSUME NEW k \in 1 .. n
               PROVE  /\ stack'[k].next <= Len(FieldsOf(stack'[k].type)) + 1
                      /\ \A j \in 1 .. stack'[k].next - 1 :
                           /\ FieldsOf(stack'[k].type)[j].status = "bad" => result' = "field"
                           /\ FieldsOf(stack'[k].type)[j].status = "ok" =>
                                \/ FieldsOf(stack'[k].type)[j].type \in Settled
                                \/ /\ k < n
                                   /\ FieldsOf(stack'[k].type)[j].type = stack'[k + 1].type
                                \/ k = n /\ call' = <<FieldsOf(stack'[k].type)[j].type>>
    BY <1>7, <1>10, <1>11 DEF Explored
  <2>1. /\ stack[k].next <= Len(FieldsOf(stack[k].type)) + 1
        /\ \A j \in 1 .. stack[k].next - 1 :
             /\ FieldsOf(stack[k].type)[j].status # "bad"
             /\ FieldsOf(stack[k].type)[j].status = "ok" =>
                  \/ FieldsOf(stack[k].type)[j].type \in Settled
                  \/ k < n /\ FieldsOf(stack[k].type)[j].type = stack[k + 1].type
    BY <1>0, <1>1, <1>6 DEF Explored
  <2>2. CASE k # n
    <3>1. k + 1 \in 1 .. n /\ stack'[k] = stack[k]
      BY <1>7, <2>2
    <3>2. stack'[k + 1].type = stack[k + 1].type
      BY <1>7, <3>1
    <3>. QED
      BY <2>1, <2>2, <3>1, <3>2
  <2>3. CASE k = n
    <3>1. i + 1 <= Len(FieldsOf(u)) + 1
      BY <1>3
    <3>2. ASSUME NEW j \in 1 .. i + 1 - 1
          PROVE  /\ FieldsOf(u)[j].status = "bad" => result' = "field"
                 /\ FieldsOf(u)[j].status = "ok" =>
                      FieldsOf(u)[j].type \in Settled \/ call' = <<FieldsOf(u)[j].type>>
      <4>1. CASE j = i
        BY <1>4, <1>6, <4>1
      <4>2. CASE j # i
        <5>1. j \in 1 .. i - 1
          BY <1>2, <4>2
        <5>. QED
          BY <1>2, <2>1, <2>3, <5>1
      <4>. QED
        BY <4>1, <4>2
    <3>. QED
      BY <1>7, <2>3, <3>1, <3>2
  <2>. QED
    BY <2>2, <2>3
<1>16. Ranked'
  BY <1>0, <1>10, <1>11 DEF Ranked, Ranks
<1>17. Verdicts'
  <2>1. u \in seen
    BY <1>0, <1>1, <1>2, ActiveFacts DEF OnPath
  <2>2. f.status = "bad" => BadField(u)
    BY <1>0, <1>2, <1>3, <1>4, StepsAreFields DEF TypeOK
  <2>3. stack # <<>>
    BY <1>1
  <2>. QED
    BY <1>0, <1>6, <1>7, <1>11, <2>1, <2>2, <2>3 DEF Verdicts
<1>. QED
  BY <1>8, <1>13, <1>14, <1>15, <1>16, <1>17 DEF WalkInv

(* A type settles above all that it leads to. *)
LEMMA RanksGrow ==
    ASSUME NEW S, IsFiniteSet(S), NEW t, t \notin S, \A u \in StepsFrom(t) : u \in S,
           \E rank : Ranks(rank, S)
    PROVE  \E rank : Ranks(rank, S \cup {t})
<1>1. PICK rank : Ranks(rank, S)
  OBVIOUS
<1>2. PICK c \in Nat : c = Cardinality(S) /\ Cardinality(S \cup {t}) = c + 1
  BY FS_AddElement, FS_CardinalityType
<1>3. \A u \in S : rank[u] \in 1 .. c
  BY <1>1, <1>2 DEF Ranks
<1> DEFINE grown == [u \in S \cup {t} |-> IF u = t THEN c + 1 ELSE rank[u]]
<1>4. grown \in [S \cup {t} -> 1 .. c + 1]
  BY <1>2, <1>3
<1>5. ASSUME NEW w \in S \cup {t}, NEW u \in StepsFrom(w)
      PROVE  u \in S \cup {t} /\ grown[u] < grown[w]
  <2>1. CASE w = t
    <3>1. u \in S /\ u # t
      BY <1>5, <2>1
    <3>. QED
      BY <1>2, <1>3, <2>1, <3>1
  <2>2. CASE w # t
    <3>1. u \in S /\ rank[u] < rank[w] /\ w \in S
      BY <1>1, <1>5, <2>2 DEF Ranks
    <3>. QED
      BY <2>2, <3>1
  <2>. QED
    BY <2>1, <2>2
<1> HIDE DEF grown
<1>6. Ranks(grown, S \cup {t})
  BY <1>2, <1>4, <1>5 DEF Ranks
<1>. QED
  BY <1>6

LEMMA LeaveWalk == WalkInv /\ Leave => WalkInv'
<1> SUFFICES ASSUME WalkInv, Leave PROVE WalkInv'
  OBVIOUS
<1>0. TypeOK /\ OnPath /\ Reached /\ Explored /\ Ranked /\ Verdicts
  BY DEF WalkInv
<1>1. PICK n \in Nat \ {0} : n = Len(stack) /\ n \in 1 .. Len(stack) /\ n \in 1 .. n
  <2>1. Len(stack) \in Nat \ {0}
    BY <1>0 DEF Leave, TypeOK
  <2>. QED
    BY <2>1
<1>2. PICK t \in Types, i \in Nat \ {0} : stack[n].type = t /\ stack[n].next = i
  BY <1>0, <1>1, ActiveFacts
<1>3. i = Len(FieldsOf(t)) + 1 /\ Len(FieldsOf(t)) \in Nat
  <2>1. i > Len(FieldsOf(t))
    BY <1>1, <1>2 DEF Leave, Fields, Top, FieldsOf
  <2>2. Len(FieldsOf(t)) \in Nat
    BY <1>0, <1>2, ShapeFacts DEF TypeOK
  <2>3. i <= Len(FieldsOf(t)) + 1
    BY <1>0, <1>1, <1>2 DEF Explored
  <2>. QED
    BY <1>2, <2>1, <2>2, <2>3
<1>4. /\ shape' = shape /\ seen' = seen /\ call = <<>> /\ call' = <<>> /\ result = "walking"
      /\ stack' = SubSeq(stack, 1, Len(stack) - 1)
      /\ result' = IF stack' = <<>> THEN "accepted" ELSE "walking"
  BY DEF Leave, Walking, Pop
<1>5. /\ stack' \in Seq([type : Types, next : Nat \ {0}]) /\ Len(stack') = n - 1
      /\ \A k \in 1 .. n - 1 : stack'[k] = stack[k]
  <2>1. stack \in Seq([type : Types, next : Nat \ {0}]) /\ stack # <<>>
    BY <1>0, <1>1 DEF TypeOK
  <2>. QED
    BY <1>1, <1>4, <2>1, Popped
<1>6. TypeOK'
  BY <1>0, <1>4, <1>5 DEF TypeOK
<1>7. \A k \in 1 .. n - 1 : k \in 1 .. n /\ k \in 1 .. Len(stack) /\ k # n
  BY <1>1
<1>8. Active' = Active \ {t}
  <2>1. \A u : u \in Active' <=> \E k \in 1 .. n - 1 : stack'[k].type = u
    <3>1. DOMAIN stack' = 1 .. n - 1
      BY <1>1, <1>5
    <3>. QED
      BY <3>1 DEF Active
  <2>2. \A u : u \in Active <=> \E k \in 1 .. n : stack[k].type = u
    BY <1>0, <1>1, ActiveFacts
  <2>3. \A k \in 1 .. n - 1 : stack[k].type # t
    BY <1>0, <1>1, <1>2, <1>7 DEF OnPath
  <2>4. ASSUME NEW u PROVE u \in Active' <=> u \in Active \ {t}
    <3>1. ASSUME u \in Active' PROVE u \in Active \ {t}
      <4>1. PICK k \in 1 .. n - 1 : stack[k].type = u
        BY <1>5, <2>1, <3>1
      <4>. QED
        BY <1>7, <2>2, <2>3, <4>1
    <3>2. ASSUME u \in Active \ {t} PROVE u \in Active'
      <4>1. PICK k \in 1 .. n : stack[k].type = u
        BY <2>2, <3>2
      <4>2. k \in 1 .. n - 1
        BY <1>1, <1>2, <3>2, <4>1
      <4>. QED
        BY <1>5, <2>1, <4>1, <4>2
    <3>. QED
      BY <3>1, <3>2
  <2>. QED
    BY <2>4, SameElements
<1>9. t \in Active /\ t \in seen /\ Settled' = Settled \cup {t} /\ t \notin Settled
  <2>1. t \in Active
    BY <1>0, <1>1, <1>2, ActiveFacts
  <2>2. t \in seen
    BY <1>0, <2>1 DEF OnPath
  <2>. QED
    BY <1>4, <1>8, <2>1, <2>2 DEF Settled
<1>10. /\ \A m \in Nat : Walks'[m] = Walks[m]
       /\ Reachable' = Reachable
       /\ \A u : StepsFrom(u)' = StepsFrom(u) /\ FieldsOf(u)' = FieldsOf(u)
                 /\ BadField(u)' = BadField(u)
  BY <1>0, <1>4, GraphKept DEF TypeOK
<1>11. \A j \in 1 .. Len(FieldsOf(t)) :
         /\ FieldsOf(t)[j].status # "bad"
         /\ FieldsOf(t)[j].status = "ok" => FieldsOf(t)[j].type \in Settled
  <2>1. \A j \in 1 .. i - 1 :
          /\ FieldsOf(t)[j].status = "bad" => result = "field"
          /\ FieldsOf(t)[j].status = "ok" =>
               FieldsOf(t)[j].type \in Settled \/ call = <<FieldsOf(t)[j].type>>
    BY <1>0, <1>1, <1>2 DEF Explored
  <2>2. i - 1 = Len(FieldsOf(t))
    BY <1>3
  <2>. QED
    BY <1>4, <2>1, <2>2
<1>12. OnPath'
  <2>1. \A k \in 1 .. n - 1 : stack'[k].type \in Walks'[k - 1]
    <3> SUFFICES ASSUME NEW k \in 1 .. n - 1 PROVE stack'[k].type \in Walks'[k - 1]
      OBVIOUS
    <3>1. k \in 1 .. Len(stack) /\ k - 1 \in Nat
      BY <1>1
    <3>2. stack[k].type \in Walks[k - 1]
      BY <1>0, <3>1 DEF OnPath
    <3>. QED
      BY <1>5, <1>10, <3>1, <3>2
  <2>2. \A k \in 1 .. n - 1 - 1 : \A u : stack'[k].type = u =>
          stack'[k + 1].type \in StepsFrom(u)
    <3> SUFFICES ASSUME NEW k \in 1 .. n - 1 - 1, NEW u, stack'[k].type = u
                 PROVE  stack'[k + 1].type \in StepsFrom(u)
      OBVIOUS
    <3>1. k \in 1 .. n - 1 /\ k + 1 \in 1 .. n - 1 /\ k \in 1 .. Len(stack) - 1
      BY <1>1
    <3>2. stack'[k] = stack[k] /\ stack'[k + 1] = stack[k + 1]
      BY <1>5, <3>1
    <3>. QED
      BY <1>0, <3>1, <3>2 DEF OnPath
  <2>3. \A j, k \in 1 .. n - 1 : stack'[j].type = stack'[k].type => j = k
    BY <1>0, <1>5, <1>7 DEF OnPath
  <2>4. \A u \in Types : call' # <<u>>
    BY <1>4
  <2>5. IsFiniteSet(Active') /\ Cardinality(Active') = n - 1 /\ Active' \subseteq seen'
    <3>1. IsFiniteSet(Active) /\ Cardinality(Active) = n /\ Active \subseteq seen
      BY <1>0, <1>1 DEF OnPath
    <3>2. IsFiniteSet(Active \ {t}) /\ Cardinality(Active \ {t}) = Cardinality(Active) - 1
      BY <1>9, <3>1, FS_RemoveElement
    <3>. QED
      BY <1>4, <1>8, <3>1, <3>2
  <2>6. n - 1 <= MaxDepth + 1
    <3>1. n <= MaxDepth + 1
      BY <1>0, <1>1 DEF OnPath
    <3>. QED
      BY <3>1, <1>1, LimitsAssumption
  <2>. QED
    BY <1>5, <1>10, <2>1, <2>2, <2>3, <2>4, <2>5, <2>6 DEF OnPath
<1>13. Reached'
  BY <1>0, <1>4, <1>10 DEF Reached
<1>14. Explored'
  <2> SUFFICES ASSUME NEW k \in 1 .. n - 1
               PROVE  /\ stack'[k].next <= Len(FieldsOf(stack'[k].type)) + 1
                      /\ \A j \in 1 .. stack'[k].next - 1 :
                           /\ FieldsOf(stack'[k].type)[j].status = "bad" => result' = "field"
                           /\ FieldsOf(stack'[k].type)[j].status = "ok" =>
                                \/ FieldsOf(stack'[k].type)[j].type \in Settled'
                                \/ /\ k < n - 1
                                   /\ FieldsOf(stack'[k].type)[j].type = stack'[k + 1].type
    BY <1>5, <1>10 DEF Explored
  <2>1. stack'[k] = stack[k] /\ k < n /\ k \in 1 .. Len(stack)
    BY <1>1, <1>5
  <2>2. k < n - 1 => stack'[k + 1] = stack[k + 1]
    <3>1. k < n - 1 => k + 1 \in 1 .. n - 1
      BY <1>1
    <3>. QED
      BY <1>5, <3>1
  <2>3. k = n - 1 => stack[k + 1].type = t
    BY <1>1, <1>2
  <2>4. /\ stack[k].next <= Len(FieldsOf(stack[k].type)) + 1
        /\ \A j \in 1 .. stack[k].next - 1 :
             /\ FieldsOf(stack[k].type)[j].status # "bad"
             /\ FieldsOf(stack[k].type)[j].status = "ok" =>
                  \/ FieldsOf(stack[k].type)[j].type \in Settled
                  \/ FieldsOf(stack[k].type)[j].type = stack[k + 1].type
    BY <1>0, <1>1, <1>4, <2>1 DEF Explored
  <2>5. Settled' = Settled \cup {t}
    BY <1>9
  <2>6. k < n - 1 \/ k = n - 1
    BY <1>1
  <2>. QED
    BY <2>1, <2>2, <2>3, <2>4, <2>5, <2>6
<1>15. Ranked'
  <2>1. IsFiniteSet(Settled)
    BY <1>0, RootAssumption, FS_Subset DEF TypeOK, Settled
  <2>2. \A u \in StepsFrom(t) : u \in Settled
    BY <1>0, <1>2, <1>11, StepsAreFields DEF TypeOK
  <2>3. \E rank : Ranks(rank, Settled \cup {t})
    <3>1. \E rank : Ranks(rank, Settled)
      BY <1>0 DEF Ranked
    <3>. QED
      BY <1>9, <2>1, <2>2, <3>1, RanksGrow
  <2>4. ~BadField(t)
    BY SMTT(30), <1>0, <1>2, <1>11, StepsAreFields DEF TypeOK
  <2>5. \E rank : Ranks(rank, Settled)'
    BY <1>9, <1>10, <2>3 DEF Ranks
  <2>. QED
    BY <1>0, <1>9, <1>10, <2>4, <2>5 DEF Ranked
<1>16. Verdicts'
  <2>1. stack # <<>>
    BY <1>1
  <2>. QED
    BY <1>0, <1>4, <2>1 DEF Verdicts
<1>. QED
  BY <1>6, <1>12, <1>13, <1>14, <1>15, <1>16 DEF WalkInv

LEMMA WalkStep == WalkInv /\ [Next]_vars => WalkInv'
<1> SUFFICES ASSUME WalkInv, [Next]_vars PROVE WalkInv'
  OBVIOUS
<1>1. CASE Refuse
  BY <1>1, RefuseWalk
<1>2. CASE SkipSeen
  BY <1>2, SkipSeenWalk
<1>3. CASE Enter
  BY <1>3, EnterWalk
<1>4. CASE VisitField
  BY <1>4, VisitFieldWalk
<1>5. CASE Leave
  BY <1>5, LeaveWalk
<1>6. CASE UNCHANGED vars
  <2>1. UNCHANGED <<shape, stack, call, seen, result>>
    BY <1>6 DEF vars
  <2>2. TypeOK'
    BY <2>1 DEF WalkInv, TypeOK
  <2>3. OnPath'
    <3>1. /\ Active' = Active /\ \A n \in Nat : Walks'[n] = Walks[n]
          /\ \A t : StepsFrom(t)' = StepsFrom(t)
      BY <2>1, StackKept
    <3>2. Len(stack) \in Nat /\ OnPath
      BY ActiveFacts DEF WalkInv
    <3>3. \A k \in 1 .. Len(stack) : k - 1 \in Nat
      BY <3>2
    <3>. QED
      BY <2>1, <3>1, <3>2, <3>3 DEF OnPath
  <2>4. Explored'
    <3>1. Settled' = Settled /\ \A t : FieldsOf(t)' = FieldsOf(t)
      BY <2>1, StackKept
    <3>2. Explored
      BY DEF WalkInv
    <3>. QED
      BY <2>1, <3>1, <3>2 DEF Explored
  <2>5. Verdicts'
    <3>1. \A t : Refusal(t)' = Refusal(t)
      BY <2>1 DEF Refusal, Depth, Full, Active
    <3>. QED
      BY <2>1, <3>1, StackKept DEF WalkInv, Verdicts
  <2>. QED
    BY <2>1, <2>2, <2>3, <2>4, <2>5, StackKept DEF WalkInv
<1>. QED
  BY <1>1, <1>2, <1>3, <1>4, <1>5, <1>6 DEF Next, Decided

LEMMA WalkHolds == Spec => []WalkInv
  BY InitWalk, WalkStep, PTL DEF Spec

(* A parameter type that validateParamType accepts (dynamic/params.go) is  *)
(* free of faults in every type it reaches, is not recursive and has no    *)
(* more types than allowed, although a type met again is not walked again. *)
THEOREM AcceptedSound == Spec => []AcceptedIsSound
  BY WalkHolds, AcceptFollows, PTL

(* A refusal of validateParamType names a reason that the type graph has:  *)
(* "recursive" a cycle, a limit a walk or a number of types beyond it, a   *)
(* fault a reachable type with that fault.                                 *)
THEOREM RefusalTrue == Spec => []RefusalIsTrue
  BY WalkHolds, RefusalFollows, PTL
=============================================================================
