------------------------------ MODULE CelProofs ------------------------------
(***************************************************************************)
(* Theorems about the builder of CelBuilder and the call of CelCondition,  *)
(* for every host, limit and traversal, about the comparison of            *)
(* CelEquality, for all objects and limits, and about the integer maps of  *)
(* CelLookup, for all maps and widths.                                     *)
(***************************************************************************)
EXTENDS CelCondition, CelEquality, CelLookup, FiniteSetTheorems, WellFoundedInduction, TLAPS

LEMMA LeastElement ==
    ASSUME NEW S, S \subseteq Nat, S # {}
    PROVE  \E n \in S : \A m \in S : n <= m
<1>1. PICK n \in S : \A m \in S : <<m, n>> \notin OpToRel(<, Nat)
  BY NatLessThanWellFounded, WFMin
<1>2. \A m \in S : ~(m < n)
  BY <1>1 DEF OpToRel
<1> QED
  BY <1>2

LEMMA Element ==
    ASSUME NEW S, NEW s \in Seq(S), NEW k \in 1 .. Len(s)
    PROVE  s[k] \in S
  OBVIOUS

(***************************************************************************)
(* Total: the sums of the first n costs exist, and add up one by one.      *)
(***************************************************************************)
Adds(f, costs, n) == f = [i \in 0 .. n |-> IF i = 0 THEN 0 ELSE f[i - 1] + costs[i]]

LEMMA AddsExist ==
    ASSUME NEW costs, NEW N \in Nat
    PROVE  \E f : Adds(f, costs, N)
<1> DEFINE Bad == {n \in Nat : ~\E f : Adds(f, costs, n)}
<1> SUFFICES ASSUME Bad # {} PROVE FALSE
  OBVIOUS
<1>1. PICK n \in Bad : \A m \in Bad : n <= m
  BY LeastElement
<1>2. n # 0
  <2> DEFINE g == [i \in 0 .. 0 |-> 0]
  <2>1. g = [i \in 0 .. 0 |-> IF i = 0 THEN 0 ELSE g[i - 1] + costs[i]]
    OBVIOUS
  <2>2. Adds(g, costs, 0)
    BY <2>1 DEF Adds
  <2> QED
    BY <2>2
<1>3. n - 1 \in Nat /\ n - 1 \notin Bad
  BY <1>1, <1>2
<1>4. PICK f : Adds(f, costs, n - 1)
  BY <1>3
<1> DEFINE g == [i \in 0 .. n |-> IF i < n THEN f[i] ELSE f[n - 1] + costs[n]]
<1>5. \A i \in 0 .. n : i # n => g[i] = f[i]
  OBVIOUS
<1>6. \A i \in 0 .. n - 1 : f[i] = IF i = 0 THEN 0 ELSE f[i - 1] + costs[i]
  BY <1>3, <1>4 DEF Adds
<1>7. ASSUME NEW i \in 0 .. n
      PROVE  g[i] = IF i = 0 THEN 0 ELSE g[i - 1] + costs[i]
  <2>1. CASE i = n
    <3>1. n - 1 \in 0 .. n /\ n - 1 # n /\ n \in 0 .. n
      BY <1>3
    <3> QED
      BY <1>2, <1>3, <1>5, <2>1, <3>1
  <2>2. CASE i < n
    <3>1. i \in 0 .. n - 1 /\ g[i] = f[i]
      BY <1>3, <2>2
    <3>2. i # 0 => i - 1 \in 0 .. n /\ i - 1 # n
      BY <1>3, <2>2
    <3> HIDE DEF g
    <3> QED
      BY <1>5, <1>6, <3>1, <3>2
  <2> QED
    BY <1>3, <2>1, <2>2
<1>8. Adds(g, costs, n)
  <2> DEFINE h == [i \in 0 .. n |-> IF i = 0 THEN 0 ELSE g[i - 1] + costs[i]]
  <2>1. g = [i \in 0 .. n |-> g[i]]
    OBVIOUS
  <2> HIDE DEF g
  <2>2. h = [i \in 0 .. n |-> g[i]]
    BY <1>7
  <2> QED
    BY <2>1, <2>2 DEF Adds
<1> QED
  BY <1>1, <1>8

LEMMA TotalIs ==
    ASSUME NEW costs, NEW n \in Nat
    PROVE  \E f : Adds(f, costs, n) /\ Total(costs, n) = f[n]
<1> DEFINE c == CHOOSE f : Adds(f, costs, n)
<1>1. Adds(c, costs, n)
  <2> HIDE DEF c
  <2>1. \E f : Adds(f, costs, n)
    BY AddsExist
  <2> QED
    BY <2>1 DEF c
<1>2. Total(costs, n) = c[n]
  BY Zenon DEF Total, Adds
<1> QED
  BY <1>1, <1>2

LEMMA AddsRestrict ==
    ASSUME NEW costs, NEW n \in Nat, NEW f, Adds(f, costs, n + 1)
    PROVE  Adds([i \in 0 .. n |-> f[i]], costs, n)
<1> DEFINE g == [i \in 0 .. n |-> f[i]]
<1>1. \A i \in 0 .. n : f[i] = IF i = 0 THEN 0 ELSE f[i - 1] + costs[i]
  BY DEF Adds
<1>2. \A i \in 0 .. n : i # 0 => i - 1 \in 0 .. n
  OBVIOUS
<1>3. \A i \in 0 .. n : g[i] = IF i = 0 THEN 0 ELSE g[i - 1] + costs[i]
  BY <1>1, <1>2
<1>4. g = [i \in 0 .. n |-> g[i]]
  OBVIOUS
<1> HIDE DEF g
<1>5. [i \in 0 .. n |-> IF i = 0 THEN 0 ELSE g[i - 1] + costs[i]] = [i \in 0 .. n |-> g[i]]
  BY <1>3
<1>6. Adds(g, costs, n)
  BY <1>4, <1>5 DEF Adds
<1> QED
  BY <1>6 DEF g

(* Two functions that add up the same costs agree. *)
LEMMA AddsUnique ==
    ASSUME NEW costs, NEW other, NEW n \in Nat, \A i \in 1 .. n : costs[i] = other[i],
           NEW f, Adds(f, costs, n), NEW g, Adds(g, other, n)
    PROVE  \A i \in 0 .. n : f[i] = g[i]
<1> DEFINE Bad == {i \in 0 .. n : f[i] # g[i]}
<1> SUFFICES ASSUME Bad # {} PROVE FALSE
  OBVIOUS
<1>0. Bad \subseteq Nat
  OBVIOUS
<1>1. PICK i \in Bad : \A j \in Bad : i <= j
  BY <1>0, LeastElement
<1>2. \A j \in 0 .. n : /\ f[j] = IF j = 0 THEN 0 ELSE f[j - 1] + costs[j]
                        /\ g[j] = IF j = 0 THEN 0 ELSE g[j - 1] + other[j]
  BY DEF Adds
<1>3. i # 0
  BY <1>2
<1>4. i \in 1 .. n /\ i - 1 \in 0 .. n /\ i - 1 \notin Bad
  BY <1>1, <1>3
<1>5. f[i - 1] = g[i - 1] /\ costs[i] = other[i]
  BY <1>4
<1>6. f[i] = g[i]
  BY <1>2, <1>3, <1>4, <1>5
<1> QED
  BY <1>6

LEMMA TotalSame ==
    ASSUME NEW costs, NEW other, NEW n \in Nat, \A i \in 1 .. n : costs[i] = other[i]
    PROVE  Total(costs, n) = Total(other, n)
<1>1. PICK f : Adds(f, costs, n) /\ Total(costs, n) = f[n]
  BY TotalIs
<1>2. PICK g : Adds(g, other, n) /\ Total(other, n) = g[n]
  BY TotalIs
<1>3. \A i \in 0 .. n : f[i] = g[i]
  BY <1>1, <1>2, AddsUnique
<1> QED
  BY <1>1, <1>2, <1>3

LEMMA TotalNone ==
    ASSUME NEW costs
    PROVE  Total(costs, 0) = 0
<1>1. PICK f : Adds(f, costs, 0) /\ Total(costs, 0) = f[0]
  BY TotalIs
<1> QED
  BY <1>1 DEF Adds

LEMMA TotalMore ==
    ASSUME NEW costs, NEW n \in Nat
    PROVE  Total(costs, n + 1) = Total(costs, n) + costs[n + 1]
<1>1. PICK f : Adds(f, costs, n + 1) /\ Total(costs, n + 1) = f[n + 1]
  BY TotalIs
<1>2. PICK g : Adds(g, costs, n) /\ Total(costs, n) = g[n]
  BY TotalIs
<1>3. PICK h : Adds(h, costs, n) /\ h[n] = f[n]
  <2> DEFINE h == [i \in 0 .. n |-> f[i]]
  <2>1. Adds(h, costs, n)
    BY <1>1, AddsRestrict
  <2>2. n \in 0 .. n
    OBVIOUS
  <2>3. h[n] = f[n]
    BY <2>2
  <2> HIDE DEF h
  <2> QED
    BY <2>1, <2>3
<1>4. PICK other : other = costs
  OBVIOUS
<1>5. f[n] = g[n]
  <2>1. \A i \in 1 .. n : costs[i] = other[i]
    BY <1>4
  <2>2. Adds(g, other, n)
    BY <1>2, <1>4
  <2>3. \A i \in 0 .. n : h[i] = g[i]
    BY <1>3, <2>1, <2>2, AddsUnique
  <2> QED
    BY <1>3, <2>3
<1>6. f[n + 1] = f[n] + costs[n + 1]
  <2>1. \A j \in 0 .. n + 1 : f[j] = IF j = 0 THEN 0 ELSE f[j - 1] + costs[j]
    BY <1>1 DEF Adds
  <2>2. n + 1 \in 0 .. n + 1 /\ n + 1 # 0 /\ (n + 1) - 1 = n
    OBVIOUS
  <2> QED
    BY <2>1, <2>2
<1> QED
  BY <1>1, <1>2, <1>5, <1>6

(* Sums of natural numbers are natural numbers, and grow. *)
LEMMA TotalGrows ==
    ASSUME NEW n \in Nat, NEW costs, \A i \in 1 .. n : costs[i] \in Nat
    PROVE  \A k \in 0 .. n : Total(costs, k) \in Nat /\ Total(costs, k) <= Total(costs, n)
<1> DEFINE Bad == {k \in 0 .. n : Total(costs, k) \notin Nat}
<1>1. Bad = {}
  <2> SUFFICES ASSUME Bad # {} PROVE FALSE
    OBVIOUS
  <2>0. Bad \subseteq Nat
    OBVIOUS
  <2>1. PICK k \in Bad : \A j \in Bad : k <= j
    BY <2>0, LeastElement
  <2>2. k # 0
    BY TotalNone
  <2>3. k - 1 \in Nat /\ k - 1 \in 0 .. n /\ k - 1 \notin Bad /\ k \in 1 .. n /\ (k - 1) + 1 = k
    BY <2>1, <2>2
  <2>4. Total(costs, k) = Total(costs, k - 1) + costs[k]
    BY <2>3, TotalMore
  <2> QED
    BY <2>3, <2>4
<1>2. \A k \in 0 .. n : Total(costs, k) \in Nat
  BY <1>1
<1> DEFINE High == {j \in 0 .. n : \E k \in 0 .. j : ~(Total(costs, k) <= Total(costs, j))}
<1>3. High = {}
  <2> SUFFICES ASSUME High # {} PROVE FALSE
    OBVIOUS
  <2>0. High \subseteq Nat
    OBVIOUS
  <2>1. PICK j \in High : \A i \in High : j <= i
    BY <2>0, LeastElement
  <2>2. PICK k \in 0 .. j : ~(Total(costs, k) <= Total(costs, j))
    BY <2>1
  <2>3. k # j
    BY <1>2, <2>1, <2>2
  <2>4. j - 1 \in Nat /\ j - 1 \in 0 .. n /\ j - 1 \notin High /\ j \in 1 .. n /\ (j - 1) + 1 = j
    BY <2>1, <2>2, <2>3
  <2>5. Total(costs, j) = Total(costs, j - 1) + costs[j]
    BY <2>4, TotalMore
  <2>6. k \in 0 .. j - 1
    BY <2>2, <2>3
  <2>7. Total(costs, k) <= Total(costs, j - 1)
    BY <2>4, <2>6
  <2>8. costs[j] \in Nat /\ Total(costs, j - 1) \in Nat /\ Total(costs, k) \in Nat
    BY <1>2, <2>4, <2>6
  <2> HIDE DEF Bad, High
  <2> QED
    BY <2>2, <2>5, <2>7, <2>8
<1> QED
  BY <1>2, <1>3
-----------------------------------------------------------------------------
(* The inductive invariant of the call.  Every compiled condition, and the *)
(* one called, resolves its names in the bindings of its own compiler.     *)
Resolves(c) ==
    /\ c.by.bindings \in Seq(host.entries)
    /\ c.source.uses \subseteq Names(c.by.bindings) \cup Names(c.by.functions)

NamesInv ==
    /\ bindings \in Seq(host.entries)
    /\ compiler.valid => compiler.bindings \in Seq(host.entries)
    /\ condition.valid => Resolves(condition)
    /\ pc # "idle" => Resolves(program)

Budgets == [visits : Nat, bytes : Nat, items : Nat]
CallTypeOK ==
    /\ pc \in {"idle", "called", "project", "projecting", "ErrNilBinding", "ErrProtoDescriptor", "scan",
               "evaluating", "returned", "unwound"}
    /\ values \in Seq(Seq(ChargeSpace)) /\ todo \in Seq(ChargeSpace)
    /\ budget \in Budgets /\ called \in Seq(Nat)
    /\ given \in Arguments /\ ended \in BOOLEAN /\ late \in BOOLEAN

(* One projector after the other, each once. *)
ProgressInv ==
    /\ \A b \in 1 .. Len(called) : called[b] = b
    /\ pc \in {"idle", "called"} => values = <<>> /\ called = <<>>
    /\ pc \notin {"idle", "called"} => Len(values) <= Len(Bindings)
    /\ pc \in {"project", "scan", "evaluating"} \/ Answered => Len(called) = Len(values)
    /\ pc = "projecting" => Len(called) = Len(values) + 1 /\ Len(values) < Len(Bindings)
    /\ pc = "evaluating" \/ Answered => Len(values) = Len(Bindings)

(* The budget pays for every value before the last, and for the first k    *)
(* charges of the last one while it is scanned.                            *)
Kinds == {"visit", "bytes", "items"}
Left(what) == IF what = "visit" THEN budget.visits ELSE budget[what]
Limit(what) == CASE what = "visit" -> MaxVisits [] what = "bytes" -> MaxBytes
                 [] what = "items" -> MaxItems

Before(vs, what, n) ==
    Total([b \in DOMAIN vs |-> Total(Costs(vs[b], what), Len(vs[b]))], n)
Shallow(v, k) == \A i \in 1 .. k : v[i].what = "visit" => v[i].n <= MaxDepth
Newest == values[Len(values)]

Scanning(k) ==
    /\ Len(todo) = Len(Newest) - k /\ \A i \in 1 .. Len(todo) : todo[i] = Newest[k + i]
    /\ \A b \in 1 .. Len(values) - 1 : Shallow(values[b], Len(values[b]))
    /\ Shallow(Newest, k)
    /\ \A what \in Kinds :
          Left(what) + Before(values, what, Len(values) - 1) + Total(Costs(Newest, what), k)
              = Limit(what)

Paid ==
    /\ \A b \in 1 .. Len(values) : Shallow(values[b], Len(values[b]))
    /\ \A what \in Kinds : Left(what) + Before(values, what, Len(values)) = Limit(what)

BudgetInv ==
    /\ pc \in {"idle", "called", "project", "projecting", "evaluating"} => todo = <<>>
    /\ pc \in {"idle", "called", "project", "projecting", "evaluating"} \/ Answered => Paid
    /\ pc = "scan" => values # <<>> /\ \E k \in 0 .. Len(Newest) : Scanning(k)

(* While the call goes on, no callback has returned to an ended context. *)
LateInv ==
    /\ late => ended
    /\ pc \notin {"returned", "unwound"} \/ Answered => ~late

CallInv == NamesInv /\ CallTypeOK /\ ProgressInv /\ BudgetInv /\ LateInv /\ FailureIsTrue

LEMMA KindNames == Kinds = {"visit", "bytes", "items"}
  BY DEF Kinds

LEMMA SumIs ==
    ASSUME NEW what
    PROVE  Sum(what) = Before(values, what, Len(values))
  BY DEF Sum, Sums, Before

LEMMA CostTyped ==
    ASSUME NEW v \in Seq(ChargeSpace), NEW what, NEW i \in 1 .. Len(v)
    PROVE  Costs(v, what)[i] \in Nat /\ Costs(v, what)[i] = Cost(v[i], what)
<1>1. v[i] \in ChargeSpace /\ i \in DOMAIN v
  BY Element
<1>2. Cost(v[i], what) \in Nat
  BY <1>1 DEF Cost, ChargeSpace
<1> QED
  BY <1>1, <1>2 DEF Costs

LEMMA SpentTyped ==
    ASSUME NEW v \in Seq(ChargeSpace), NEW what
    PROVE  \A k \in 0 .. Len(v) :
              /\ Total(Costs(v, what), k) \in Nat
              /\ Total(Costs(v, what), k) <= Total(Costs(v, what), Len(v))
<1>1. PICK costs : costs = Costs(v, what)
  OBVIOUS
<1>2. \A i \in 1 .. Len(v) : costs[i] \in Nat
  BY <1>1, CostTyped
<1>3. Len(v) \in Nat
  OBVIOUS
<1> QED
  BY <1>1, <1>2, <1>3, TotalGrows

LEMMA BeforeTyped ==
    ASSUME NEW vs \in Seq(Seq(ChargeSpace)), NEW what
    PROVE  \A n \in 0 .. Len(vs) : Before(vs, what, n) \in Nat
<1> DEFINE costs == [b \in DOMAIN vs |-> Total(Costs(vs[b], what), Len(vs[b]))]
<1>1. ASSUME NEW b \in 1 .. Len(vs)
      PROVE  costs[b] \in Nat
  <2>1. vs[b] \in Seq(ChargeSpace) /\ b \in DOMAIN vs
    BY Element
  <2>2. Len(vs[b]) \in 0 .. Len(vs[b])
    BY <2>1
  <2> QED
    BY <2>1, <2>2, SpentTyped
<1> HIDE DEF costs
<1>2. Len(vs) \in Nat
  OBVIOUS
<1>3. \A n \in 0 .. Len(vs) : Total(costs, n) \in Nat
  BY <1>1, <1>2, TotalGrows
<1> QED
  BY <1>3 DEF costs, Before

(* The last value, and what was there before it. *)
LEMMA BeforeLast ==
    ASSUME NEW vs \in Seq(Seq(ChargeSpace)), NEW what, Len(vs) # 0
    PROVE  Before(vs, what, Len(vs)) =
              Before(vs, what, Len(vs) - 1) + Total(Costs(vs[Len(vs)], what), Len(vs[Len(vs)]))
<1> DEFINE costs == [b \in DOMAIN vs |-> Total(Costs(vs[b], what), Len(vs[b]))]
<1>1. PICK n \in Nat : n + 1 = Len(vs) /\ n = Len(vs) - 1
  <2>1. Len(vs) - 1 \in Nat
    OBVIOUS
  <2> QED
    BY <2>1
<1>2. costs[n + 1] = Total(Costs(vs[n + 1], what), Len(vs[n + 1]))
  BY <1>1
<1> HIDE DEF costs
<1>3. Total(costs, n + 1) = Total(costs, n) + costs[n + 1]
  BY TotalMore
<1>4. Before(vs, what, n + 1) = Total(costs, n + 1) /\ Before(vs, what, n) = Total(costs, n)
  BY DEF Before, costs
<1> QED
  BY <1>1, <1>2, <1>3, <1>4

LEMMA BeforeAppend ==
    ASSUME NEW vs \in Seq(Seq(ChargeSpace)), NEW v \in Seq(ChargeSpace), NEW what
    PROVE  Before(Append(vs, v), what, Len(vs)) = Before(vs, what, Len(vs))
<1> DEFINE costs == [b \in DOMAIN vs |-> Total(Costs(vs[b], what), Len(vs[b]))]
           more == [b \in DOMAIN Append(vs, v) |->
                       Total(Costs(Append(vs, v)[b], what), Len(Append(vs, v)[b]))]
<1>1. \A b \in 1 .. Len(vs) : b \in DOMAIN vs /\ b \in DOMAIN Append(vs, v)
                              /\ Append(vs, v)[b] = vs[b]
  OBVIOUS
<1>2. \A b \in 1 .. Len(vs) : more[b] = costs[b]
  BY <1>1
<1> HIDE DEF costs, more
<1>3. Total(more, Len(vs)) = Total(costs, Len(vs))
  BY <1>2, TotalSame
<1> QED
  BY <1>3 DEF Before, costs, more

(* How the actions with several outcomes end. *)
Failed == pc' = "returned" /\ ~Answered'

LEMMA FailIs ==
    ASSUME NEW causes, Fail(causes), causes # {}
    PROVE  Failed /\ reply'.causes = causes /\ reply'.answer = "false"
  BY DEF Fail, Failed, Answered

LEMMA ContextAdded ==
    ASSUME NEW causes
    PROVE  /\ causes \subseteq WithContext(causes) /\ WithContext(causes) \subseteq causes \cup {"context"}
           /\ ended => "context" \in WithContext(causes)
           /\ "context" \in WithContext(causes) => ended \/ "context" \in causes
           /\ causes # {} => WithContext(causes) # {}
  BY DEF WithContext

LEMMA PreflightIs ==
    ASSUME Preflight
    PROVE  Failed \/ (pc' = "project" /\ reply' = reply)
<1>1. CASE given # "valid"
  BY <1>1, FailIs DEF Preflight
<1>2. CASE given = "valid" /\ ended
  BY <1>2, FailIs DEF Preflight
<1>3. CASE given = "valid" /\ ~ended
  BY <1>3 DEF Preflight
<1> QED
  BY <1>1, <1>2, <1>3

LEMMA ProjectIs ==
    ASSUME Project
    PROVE  \/ Failed /\ called' = called
           \/ pc' = "projecting" /\ reply' = reply /\ called' = Append(called, Len(values) + 1)
<1>1. CASE ended
  BY <1>1, FailIs DEF Project
<1>2. CASE ~ended
  BY <1>2 DEF Project
<1> QED
  BY <1>1, <1>2

LEMMA ReturnsIs ==
    ASSUME NEW traversal, ProjectorReturns(traversal)
    PROVE  \/ Failed /\ values' = values /\ todo' = todo
           \/ /\ pc' = "scan" /\ reply' = reply /\ ~ended
              /\ values' = Append(values, traversal) /\ todo' = traversal
<1>1. CASE ended
  BY <1>1, FailIs DEF ProjectorReturns
<1>2. CASE ~ended
  BY <1>2 DEF ProjectorReturns
<1> QED
  BY <1>1, <1>2

LEMMA UnusableIs ==
    ASSUME NEW fault \in Unusable, ProjectorReturnsUnusable(fault)
    PROVE  /\ pc = "projecting" /\ late' = (late \/ ended) /\ fault \in {"ErrNilBinding", "ErrProtoDescriptor"}
           /\ UNCHANGED <<given, program, ended, values, todo, budget, called>>
           /\ \/ Failed /\ pc' = "returned"
              \/ pc' = fault /\ ~ended
<1>1. CASE ended
  BY <1>1, FailIs DEF ProjectorReturnsUnusable, Returns, Unusable, Failed
<1>2. CASE ~ended
  BY <1>2 DEF ProjectorReturnsUnusable, Returns, Unusable
<1> QED
  BY <1>1, <1>2

LEMMA RefuseValueIs ==
    ASSUME RefuseValue
    PROVE  /\ pc \in {"ErrNilBinding", "ErrProtoDescriptor"} /\ Failed /\ pc' = "returned"
           /\ UNCHANGED <<given, program, ended, values, todo, budget, called, late>>
<1>1. Fail(WithContext({pc})) /\ WithContext({pc}) # {}
  BY ContextAdded DEF RefuseValue
<1> QED
  BY <1>1, FailIs DEF RefuseValue, Unusable, Failed

LEMMA VisitIs ==
    ASSUME Visit
    PROVE  \/ Failed
           \/ /\ pc' = pc /\ reply' = reply /\ ~VisitRefused(Head(todo).n)
              /\ budget' = [budget EXCEPT !.visits = @ - 1] /\ todo' = Tail(todo)
<1>1. CASE VisitRefused(Head(todo).n)
  <2>1. Fail(WithContext({"input limit"}))
    BY <1>1 DEF Visit
  <2>2. WithContext({"input limit"}) # {}
    BY ContextAdded
  <2> QED
    BY <2>1, <2>2, FailIs
<1>2. CASE ~VisitRefused(Head(todo).n)
  <2>1. CASE budget'.visits % Poll = 0 /\ ended
    <3>1. Fail({"context"})
      BY <1>2, <2>1 DEF Visit
    <3> QED
      BY <3>1, FailIs
  <2>2. CASE ~(budget'.visits % Poll = 0 /\ ended)
    BY <1>2, <2>2 DEF Visit
  <2> QED
    BY <2>1, <2>2
<1> QED
  BY <1>1, <1>2

LEMMA TakeIs ==
    ASSUME NEW what, Take(what)
    PROVE  \/ Failed
           \/ /\ pc' = pc /\ reply' = reply /\ ~(Head(todo).n > budget[what])
              /\ budget' = [budget EXCEPT ![what] = @ - Head(todo).n] /\ todo' = Tail(todo)
<1>1. CASE Head(todo).n > budget[what]
  <2>1. Fail(WithContext({"input limit"}))
    BY <1>1 DEF Take
  <2>2. WithContext({"input limit"}) # {}
    BY ContextAdded
  <2> QED
    BY <2>1, <2>2, FailIs
<1>2. CASE ~(Head(todo).n > budget[what])
  BY <1>2 DEF Take
<1> QED
  BY <1>1, <1>2

LEMMA MatchedIs ==
    ASSUME NEW matched, EvaluationReturns(matched)
    PROVE  \/ Failed
           \/ /\ pc' = "returned" /\ ~ended
              /\ reply' = [answer |-> matched, causes |-> {}]
<1>1. CASE ended
  BY <1>1, FailIs DEF EvaluationReturns
<1>2. CASE ~ended
  BY <1>2 DEF EvaluationReturns
<1> QED
  BY <1>1, <1>2

LEMMA ProgressKept ==
    ASSUME CallInv, CallNext, UNCHANGED builderVars
    PROVE  ProgressInv'
<1>1. ASSUME NEW argument \in Arguments, Call(argument)
      PROVE  ProgressInv'
  BY <1>1 DEF CallInv, NamesInv, Resolves, CallTypeOK, ProgressInv, builderVars, Bindings, Answered, Call, Go
<1>2. ASSUME ContextEnds
      PROVE  ProgressInv'
  BY <1>2 DEF CallInv, NamesInv, Resolves, CallTypeOK, ProgressInv, builderVars, Bindings, Answered, ContextEnds, Called
<1>3. ASSUME Preflight
      PROVE  ProgressInv'
  <2>1. pc = "called" /\ UNCHANGED <<program, values, called>>
    BY <1>3 DEF Preflight
  <2> QED
    BY <1>3, <2>1, PreflightIs DEF CallInv, NamesInv, Resolves, CallTypeOK, ProgressInv, builderVars, Bindings, Answered, Failed
<1>4. ASSUME Project
      PROVE  ProgressInv'
  <2>1. /\ pc = "project" /\ Len(values) < Len(Bindings) /\ Bindings' = Bindings
        /\ values' = values
    BY <1>4 DEF Project, Bindings
  <2>2. /\ called \in Seq(Nat) /\ values \in Seq(Seq(ChargeSpace)) /\ Len(called) = Len(values)
        /\ \A b \in 1 .. Len(called) : called[b] = b
    BY <2>1 DEF CallInv, CallTypeOK, ProgressInv
  <2>3. CASE Failed /\ called' = called
    <3>1. Len(values) \in Nat /\ Len(values) <= Len(Bindings)
      BY <2>1, <2>2 DEF CallInv, ProgressInv
    <3> QED
      BY <2>1, <2>2, <2>3, <3>1 DEF Failed, ProgressInv
  <2>4. CASE pc' = "projecting" /\ called' = Append(called, Len(values) + 1)
    <3>1. Len(values) \in Nat /\ Len(values) <= Len(Bindings)
      BY <2>1, <2>2 DEF CallInv, ProgressInv
    <3>2. /\ Len(called') = Len(values) + 1
          /\ \A b \in 1 .. Len(called') : called'[b] = b
      BY <2>2, <2>4
    <3> QED
      BY <2>1, <2>4, <3>1, <3>2 DEF ProgressInv, Answered
  <2> QED
    BY <1>4, <2>3, <2>4, ProjectIs
<1>5. ASSUME ProjectorFails
      PROVE  ProgressInv'
  BY <1>5 DEF CallInv, NamesInv, Resolves, CallTypeOK, ProgressInv, builderVars, Bindings, Answered, ProjectorFails, Returns, Fail, WithContext
<1>6. ASSUME ProjectorPanics
      PROVE  ProgressInv'
  BY <1>6 DEF CallInv, NamesInv, Resolves, CallTypeOK, ProgressInv, builderVars, Bindings, Answered, ProjectorPanics, Returns, Go
<1>7. ASSUME NEW fault \in Unusable, ProjectorReturnsUnusable(fault)
      PROVE  ProgressInv'
  BY <1>7, UnusableIs DEF CallInv, NamesInv, Resolves, CallTypeOK, ProgressInv, builderVars, Bindings, Answered, Failed
<1>8. ASSUME NEW traversal \in Traversals, ProjectorReturns(traversal)
      PROVE  ProgressInv'
  <2>1. pc = "projecting" /\ Bindings' = Bindings /\ called' = called
    BY <1>8 DEF ProjectorReturns, Bindings
  <2>2. /\ called \in Seq(Nat) /\ values \in Seq(Seq(ChargeSpace))
        /\ Len(called) = Len(values) + 1 /\ Len(values) < Len(Bindings)
        /\ \A b \in 1 .. Len(called) : called[b] = b
    BY <2>1 DEF CallInv, CallTypeOK, ProgressInv
  <2>3. Len(Bindings) \in Nat
    BY <2>1 DEF CallInv, NamesInv, Resolves, Bindings
  <2>4. CASE Failed /\ values' = values
    <3>1. Len(values) \in Nat /\ Len(values) <= Len(Bindings)
      BY <2>2, <2>3
    <3> QED
      BY <2>1, <2>2, <2>4, <3>1 DEF Failed, ProgressInv
  <2>5. CASE pc' = "scan" /\ values' = Append(values, traversal)
    <3>1. Len(values') = Len(values) + 1 /\ Len(values') <= Len(Bindings)
      BY <2>2, <2>3, <2>5, TraversalsAssumption
    <3> QED
      BY <2>1, <2>2, <2>5, <3>1 DEF ProgressInv, Answered
  <2> QED
    BY <1>8, <2>4, <2>5, ReturnsIs
<1>9. ASSUME Visit
      PROVE  ProgressInv'
  <2>1. pc = "scan" /\ UNCHANGED <<program, values, called>>
    BY <1>9 DEF Visit
  <2> QED
    BY <1>9, <2>1, VisitIs DEF CallInv, NamesInv, Resolves, CallTypeOK, ProgressInv, builderVars, Bindings, Answered, Failed
<1>10. ASSUME NEW what \in {"bytes", "items"}, Take(what)
      PROVE  ProgressInv'
  <2>1. pc = "scan" /\ UNCHANGED <<program, values, called>>
    BY <1>10 DEF Take
  <2> QED
    BY <1>10, <2>1, TakeIs DEF CallInv, NamesInv, Resolves, CallTypeOK, ProgressInv, builderVars, Bindings, Answered, Failed
<1>11. ASSUME Scanned
      PROVE  ProgressInv'
  BY <1>11 DEF CallInv, NamesInv, Resolves, CallTypeOK, ProgressInv, builderVars, Bindings, Answered, Scanned, Go, LeftOver
<1>12. ASSUME Evaluate
      PROVE  ProgressInv'
  BY <1>12 DEF CallInv, NamesInv, Resolves, CallTypeOK, ProgressInv, builderVars, Bindings, Answered, Evaluate, Go
<1>13. ASSUME EvaluationInterrupted
      PROVE  ProgressInv'
  BY <1>13 DEF CallInv, NamesInv, Resolves, CallTypeOK, ProgressInv, builderVars, Bindings, Answered, EvaluationInterrupted, EvaluationFails, Returns, Fail, WithContext
<1>14. ASSUME NEW cause \in EvaluationFailures, EvaluationFails(cause)
      PROVE  ProgressInv'
  BY <1>14 DEF CallInv, NamesInv, Resolves, CallTypeOK, ProgressInv, builderVars, Bindings, Answered, EvaluationFails, EvaluationFailures, Returns, Fail, WithContext
<1>15. ASSUME NEW matched \in {"true", "false"}, EvaluationReturns(matched)
      PROVE  ProgressInv'
  BY <1>15 DEF CallInv, NamesInv, Resolves, CallTypeOK, ProgressInv, builderVars, Bindings, Answered, EvaluationReturns, Returns, Fail
<1>16. ASSUME RefuseValue
      PROVE  ProgressInv'
  BY <1>16, RefuseValueIs DEF CallInv, NamesInv, Resolves, CallTypeOK, ProgressInv, builderVars, Bindings, Answered, Failed
<1> QED
  BY <1>1, <1>2, <1>3, <1>4, <1>5, <1>6, <1>7, <1>8, <1>9, <1>10, <1>11, <1>12, <1>13, <1>14, <1>15, <1>16 DEF CallNext

LEMMA LateKept ==
    ASSUME CallInv, CallNext, UNCHANGED builderVars
    PROVE  LateInv'
<1>1. ASSUME NEW argument \in Arguments, Call(argument)
      PROVE  LateInv'
  BY <1>1 DEF CallInv, CallTypeOK, LateInv, Answered, Call, Go
<1>2. ASSUME ContextEnds
      PROVE  LateInv'
  BY <1>2 DEF CallInv, CallTypeOK, LateInv, Answered, ContextEnds, Called
<1>3. ASSUME Preflight
      PROVE  LateInv'
  BY <1>3 DEF CallInv, CallTypeOK, LateInv, Answered, Preflight, Fail
<1>4. ASSUME Project
      PROVE  LateInv'
  BY <1>4 DEF CallInv, CallTypeOK, LateInv, Answered, Project, Fail
<1>5. ASSUME ProjectorFails
      PROVE  LateInv'
  BY <1>5 DEF CallInv, CallTypeOK, LateInv, Answered, ProjectorFails, Returns, Fail, WithContext
<1>6. ASSUME ProjectorPanics
      PROVE  LateInv'
  BY <1>6 DEF CallInv, CallTypeOK, LateInv, Answered, ProjectorPanics, Returns, Go
<1>7. ASSUME NEW fault \in Unusable, ProjectorReturnsUnusable(fault)
      PROVE  LateInv'
  BY <1>7, UnusableIs DEF CallInv, CallTypeOK, LateInv, Failed, Answered
<1>8. ASSUME NEW traversal \in Traversals, ProjectorReturns(traversal)
      PROVE  LateInv'
  <2>1. pc = "projecting" /\ late' = (late \/ ended) /\ ended' = ended
    BY <1>8 DEF ProjectorReturns, Returns
  <2> QED
    BY <1>8, <2>1, ReturnsIs DEF CallInv, CallTypeOK, LateInv, Failed
<1>9. ASSUME Visit
      PROVE  LateInv'
  BY <1>9 DEF CallInv, CallTypeOK, LateInv, Answered, Visit, VisitRefused, Fail, WithContext
<1>10. ASSUME NEW what \in {"bytes", "items"}, Take(what)
      PROVE  LateInv'
  BY <1>10 DEF CallInv, CallTypeOK, LateInv, Answered, Take, Fail, WithContext
<1>11. ASSUME Scanned
      PROVE  LateInv'
  BY <1>11 DEF CallInv, CallTypeOK, LateInv, Answered, Scanned, Go, LeftOver
<1>12. ASSUME Evaluate
      PROVE  LateInv'
  BY <1>12 DEF CallInv, CallTypeOK, LateInv, Answered, Evaluate, Go
<1>13. ASSUME EvaluationInterrupted
      PROVE  LateInv'
  BY <1>13 DEF CallInv, CallTypeOK, LateInv, Answered, EvaluationInterrupted, EvaluationFails, Returns, Fail, WithContext
<1>14. ASSUME NEW cause \in EvaluationFailures, EvaluationFails(cause)
      PROVE  LateInv'
  BY <1>14 DEF CallInv, CallTypeOK, LateInv, Answered, EvaluationFails, EvaluationFailures, Returns, Fail, WithContext
<1>15. ASSUME NEW matched \in {"true", "false"}, EvaluationReturns(matched)
      PROVE  LateInv'
  <2>1. pc = "evaluating" /\ late' = (late \/ ended) /\ ended' = ended
    BY <1>15 DEF EvaluationReturns, Returns
  <2> QED
    BY <1>15, <2>1, MatchedIs DEF CallInv, CallTypeOK, LateInv, Failed
<1>16. ASSUME RefuseValue
      PROVE  LateInv'
  BY <1>16, RefuseValueIs DEF CallInv, CallTypeOK, LateInv, Failed, Answered
<1> QED
  BY <1>1, <1>2, <1>3, <1>4, <1>5, <1>6, <1>7, <1>8, <1>9, <1>10, <1>11, <1>12, <1>13, <1>14, <1>15, <1>16 DEF CallNext

LEMMA NamesKept ==
    ASSUME CallInv, CallNext, UNCHANGED builderVars
    PROVE  NamesInv'
<1>1. ASSUME NEW argument \in Arguments, Call(argument)
      PROVE  NamesInv'
  BY <1>1 DEF CallInv, NamesInv, Resolves, builderVars, Names, Call, Go
<1>2. ASSUME ContextEnds
      PROVE  NamesInv'
  BY <1>2 DEF CallInv, NamesInv, Resolves, builderVars, Names, ContextEnds, Called
<1>3. ASSUME Preflight
      PROVE  NamesInv'
  BY <1>3 DEF CallInv, NamesInv, Resolves, builderVars, Names, Preflight, Fail
<1>4. ASSUME Project
      PROVE  NamesInv'
  BY <1>4 DEF CallInv, NamesInv, Resolves, builderVars, Names, Project, Fail
<1>5. ASSUME ProjectorFails
      PROVE  NamesInv'
  BY <1>5 DEF CallInv, NamesInv, Resolves, builderVars, Names, ProjectorFails, Returns, Fail, WithContext
<1>6. ASSUME ProjectorPanics
      PROVE  NamesInv'
  BY <1>6 DEF CallInv, NamesInv, Resolves, builderVars, Names, ProjectorPanics, Returns, Go
<1>7. ASSUME NEW fault \in Unusable, ProjectorReturnsUnusable(fault)
      PROVE  NamesInv'
  BY <1>7, UnusableIs DEF CallInv, NamesInv, Resolves, builderVars, Names
<1>8. ASSUME NEW traversal \in Traversals, ProjectorReturns(traversal)
      PROVE  NamesInv'
  BY <1>8 DEF CallInv, NamesInv, Resolves, builderVars, Names, ProjectorReturns, Returns, Fail
<1>9. ASSUME Visit
      PROVE  NamesInv'
  <2>1. pc = "scan" /\ program' = program
    BY <1>9 DEF Visit
  <2> QED
    BY <1>9, <2>1 DEF CallInv, NamesInv, Resolves, builderVars, Names
<1>10. ASSUME NEW what \in {"bytes", "items"}, Take(what)
      PROVE  NamesInv'
  <2>1. pc = "scan" /\ program' = program
    BY <1>10 DEF Take
  <2> QED
    BY <1>10, <2>1 DEF CallInv, NamesInv, Resolves, builderVars, Names
<1>11. ASSUME Scanned
      PROVE  NamesInv'
  BY <1>11 DEF CallInv, NamesInv, Resolves, builderVars, Names, Scanned, Go, LeftOver
<1>12. ASSUME Evaluate
      PROVE  NamesInv'
  BY <1>12 DEF CallInv, NamesInv, Resolves, builderVars, Names, Evaluate, Go
<1>13. ASSUME EvaluationInterrupted
      PROVE  NamesInv'
  BY <1>13 DEF CallInv, NamesInv, Resolves, builderVars, Names, EvaluationInterrupted, EvaluationFails, Returns, Fail, WithContext
<1>14. ASSUME NEW cause \in EvaluationFailures, EvaluationFails(cause)
      PROVE  NamesInv'
  BY <1>14 DEF CallInv, NamesInv, Resolves, builderVars, Names, EvaluationFails, EvaluationFailures, Returns, Fail, WithContext
<1>15. ASSUME NEW matched \in {"true", "false"}, EvaluationReturns(matched)
      PROVE  NamesInv'
  BY <1>15 DEF CallInv, NamesInv, Resolves, builderVars, Names, EvaluationReturns, Returns, Fail
<1>16. ASSUME RefuseValue
      PROVE  NamesInv'
  BY <1>16, RefuseValueIs DEF CallInv, NamesInv, Resolves, builderVars, Names
<1> QED
  BY <1>1, <1>2, <1>3, <1>4, <1>5, <1>6, <1>7, <1>8, <1>9, <1>10, <1>11, <1>12, <1>13, <1>14, <1>15, <1>16 DEF CallNext

LEMMA TypesKept ==
    ASSUME CallInv, CallNext, UNCHANGED builderVars
    PROVE  CallTypeOK'
<1>1. ASSUME NEW argument \in Arguments, Call(argument)
      PROVE  CallTypeOK'
  BY <1>1 DEF CallInv, CallTypeOK, Call, Go
<1>2. ASSUME ContextEnds
      PROVE  CallTypeOK'
  BY <1>2 DEF CallInv, CallTypeOK, ContextEnds, Called
<1>3. ASSUME Preflight
      PROVE  CallTypeOK'
  <2>1. UNCHANGED <<given, ended, values, todo, budget, called, late>>
    BY <1>3 DEF Preflight
  <2> QED
    BY <1>3, <2>1, PreflightIs DEF CallInv, CallTypeOK, Failed
<1>4. ASSUME Project
      PROVE  CallTypeOK'
  <2>1. /\ pc = "project" /\ UNCHANGED <<given, ended, values, todo, budget, late>>
        /\ Len(values) + 1 \in Nat
    BY <1>4 DEF Project, CallInv, CallTypeOK
  <2>2. called' \in Seq(Nat)
    <3>1. CASE called' = called
      BY <3>1 DEF CallInv, CallTypeOK
    <3>2. CASE called' = Append(called, Len(values) + 1)
      BY <2>1, <3>2 DEF CallInv, CallTypeOK
    <3> QED
      BY <1>4, <3>1, <3>2, ProjectIs
  <2> QED
    BY <1>4, <2>1, <2>2, ProjectIs DEF CallInv, CallTypeOK, Failed
<1>5. ASSUME ProjectorFails
      PROVE  CallTypeOK'
  BY <1>5 DEF CallInv, CallTypeOK, ProjectorFails, Returns, Fail, WithContext
<1>6. ASSUME ProjectorPanics
      PROVE  CallTypeOK'
  BY <1>6 DEF CallInv, CallTypeOK, ProjectorPanics, Returns, Go
<1>7. ASSUME NEW fault \in Unusable, ProjectorReturnsUnusable(fault)
      PROVE  CallTypeOK'
  BY <1>7, UnusableIs DEF CallInv, CallTypeOK, Failed
<1>8. ASSUME NEW traversal \in Traversals, ProjectorReturns(traversal)
      PROVE  CallTypeOK'
  <2>1. UNCHANGED <<given, ended, budget, called>> /\ late' \in BOOLEAN
    BY <1>8 DEF ProjectorReturns, Returns
  <2>2. traversal \in Seq(ChargeSpace)
    BY TraversalsAssumption
  <2>3. values' \in Seq(Seq(ChargeSpace)) /\ todo' \in Seq(ChargeSpace)
    <3>1. values \in Seq(Seq(ChargeSpace)) /\ todo \in Seq(ChargeSpace)
      BY DEF CallInv, CallTypeOK
    <3>2. Append(values, traversal) \in Seq(Seq(ChargeSpace))
      BY <2>2, <3>1
    <3>3. \/ values' = values /\ todo' = todo
          \/ values' = Append(values, traversal) /\ todo' = traversal
      BY <1>8, ReturnsIs
    <3> QED
      BY <2>2, <3>1, <3>2, <3>3
  <2> QED
    BY <1>8, <2>1, <2>3, ReturnsIs DEF CallInv, CallTypeOK, Failed
<1>9. ASSUME Visit
      PROVE  CallTypeOK'
  <2>1. UNCHANGED <<given, ended, values, called, late>> /\ todo # <<>> /\ pc = "scan"
    BY <1>9 DEF Visit
  <2>2. budget' \in Budgets /\ todo' \in Seq(ChargeSpace)
    <3>1. todo \in Seq(ChargeSpace) /\ budget \in Budgets
      BY DEF CallInv, CallTypeOK
    <3>2. Tail(todo) \in Seq(ChargeSpace)
      BY <2>1, <3>1
    <3>3. CASE VisitRefused(Head(todo).n)
      BY <1>9, <3>1, <3>3 DEF Visit
    <3>4. CASE ~VisitRefused(Head(todo).n)
      <4>1. budget' = [budget EXCEPT !.visits = @ - 1] /\ budget.visits # 0
        BY <1>9, <3>4 DEF Visit, VisitRefused
      <4>2. budget' \in Budgets
        BY <3>1, <4>1 DEF Budgets
      <4>3. todo' = todo \/ todo' = Tail(todo)
        BY <1>9, <3>4 DEF Visit
      <4> QED
        BY <3>1, <3>2, <4>2, <4>3
    <3> QED
      BY <3>3, <3>4
  <2> QED
    BY <1>9, <2>1, <2>2, VisitIs DEF CallInv, CallTypeOK, Failed
<1>10. ASSUME NEW what \in {"bytes", "items"}, Take(what)
      PROVE  CallTypeOK'
  <2>1. UNCHANGED <<given, ended, values, called, late>> /\ todo # <<>> /\ pc = "scan"
    BY <1>10 DEF Take
  <2>2. budget' \in Budgets /\ todo' \in Seq(ChargeSpace)
    <3>1. todo \in Seq(ChargeSpace) /\ budget \in Budgets
      BY DEF CallInv, CallTypeOK
    <3>2. Tail(todo) \in Seq(ChargeSpace) /\ Head(todo).n \in Nat
      <4>1. Tail(todo) \in Seq(ChargeSpace) /\ Head(todo) \in ChargeSpace
        BY <2>1, <3>1
      <4> QED
        BY <4>1 DEF ChargeSpace
    <3>3. CASE Head(todo).n > budget[what]
      BY <1>10, <3>1, <3>3 DEF Take
    <3>4. CASE ~(Head(todo).n > budget[what])
      <4>1. budget' = [budget EXCEPT ![what] = @ - Head(todo).n] /\ todo' = Tail(todo)
        BY <1>10, <3>4 DEF Take
      <4>2. budget[what] \in Nat
        BY <3>1 DEF Budgets
      <4>3. budget[what] - Head(todo).n \in Nat
        BY <3>2, <3>4, <4>2
      <4>4. budget' \in Budgets
        BY <3>1, <4>1, <4>3 DEF Budgets
      <4> QED
        BY <3>2, <4>1, <4>4
    <3> QED
      BY <3>3, <3>4
  <2> QED
    BY <1>10, <2>1, <2>2, TakeIs DEF CallInv, CallTypeOK, Failed
<1>11. ASSUME Scanned
      PROVE  CallTypeOK'
  BY <1>11 DEF CallInv, CallTypeOK, Scanned, Go, LeftOver
<1>12. ASSUME Evaluate
      PROVE  CallTypeOK'
  BY <1>12 DEF CallInv, CallTypeOK, Evaluate, Go
<1>13. ASSUME EvaluationInterrupted
      PROVE  CallTypeOK'
  BY <1>13 DEF CallInv, CallTypeOK, EvaluationInterrupted, EvaluationFails, Returns, Fail, WithContext
<1>14. ASSUME NEW cause \in EvaluationFailures, EvaluationFails(cause)
      PROVE  CallTypeOK'
  BY <1>14 DEF CallInv, CallTypeOK, EvaluationFails, EvaluationFailures, Returns, Fail, WithContext
<1>15. ASSUME NEW matched \in {"true", "false"}, EvaluationReturns(matched)
      PROVE  CallTypeOK'
  BY <1>15 DEF CallInv, CallTypeOK, EvaluationReturns, Returns, Fail
<1>16. ASSUME RefuseValue
      PROVE  CallTypeOK'
  BY <1>16, RefuseValueIs DEF CallInv, CallTypeOK, Failed
<1> QED
  BY <1>1, <1>2, <1>3, <1>4, <1>5, <1>6, <1>7, <1>8, <1>9, <1>10, <1>11, <1>12, <1>13, <1>14, <1>15, <1>16 DEF CallNext

LEMMA LimitIs ==
    /\ Limit("visit") = MaxVisits /\ Limit("bytes") = MaxBytes /\ Limit("items") = MaxItems
    /\ \A what \in Kinds : Limit(what) \in Nat
  BY BudgetAssumption DEF Limit, Kinds

LEMMA LeftIs ==
    ASSUME budget \in Budgets, NEW what \in Kinds
    PROVE  Left(what) \in Nat
  BY DEF Left, Kinds, Budgets

LEMMA PaidFrame ==
    ASSUME Paid, values' = values, budget' = budget
    PROVE  Paid'
  BY DEF Paid, Left, Limit, Before, Costs, Cost, Shallow

LEMMA ScanningFrame ==
    ASSUME NEW k, Scanning(k), values' = values, budget' = budget, todo' = todo
    PROVE  Scanning(k)'
  BY DEF Scanning, Newest, Left, Limit, Before, Costs, Cost, Shallow

(* What the actions that touch the budget or the values do to it. *)
LEMMA AppendIs ==
    ASSUME NEW S, NEW s \in Seq(S), NEW e \in S
    PROVE  /\ Append(s, e) \in Seq(S) /\ Len(Append(s, e)) = Len(s) + 1
           /\ Append(s, e)[Len(s) + 1] = e /\ Append(s, e) # <<>>
           /\ \A b \in 1 .. Len(s) : Append(s, e)[b] = s[b]
  OBVIOUS

LEMMA ValueBegins ==
    ASSUME CallTypeOK, Paid, NEW traversal \in Seq(ChargeSpace), budget' = budget,
           values' = Append(values, traversal), todo' = traversal
    PROVE  values' # <<>> /\ 0 \in 0 .. Len(Newest') /\ Scanning(0)'
<1>1. values \in Seq(Seq(ChargeSpace)) /\ budget \in Budgets
  BY DEF CallTypeOK
<1>2. /\ Len(values') = Len(values) + 1 /\ values'[Len(values')] = traversal
      /\ \A b \in 1 .. Len(values) : values'[b] = values[b]
      /\ values' # <<>>
  <2>1. PICK S : S = Seq(ChargeSpace)
    OBVIOUS
  <2>2. values \in Seq(S) /\ traversal \in S
    BY <1>1, <2>1
  <2> QED
    BY <2>2, AppendIs
<1>3. Newest' = traversal
  BY <1>2 DEF Newest
<1>4. \A b \in 1 .. Len(values') - 1 : Shallow(values'[b], Len(values'[b]))
  <2>1. \A b \in 1 .. Len(values') - 1 : b \in 1 .. Len(values) /\ values'[b] = values[b]
    BY <1>1, <1>2
  <2>2. \A b \in 1 .. Len(values) : Shallow(values[b], Len(values[b]))
    BY DEF Paid
  <2> QED
    BY <2>1, <2>2
<1>5. Shallow(traversal, 0)
  BY DEF Shallow
<1>6. ASSUME NEW what \in Kinds
      PROVE  Left(what)' + Before(values', what, Len(values') - 1)
                + Total(Costs(traversal, what), 0) = Limit(what)
  <2>1. Len(values') - 1 = Len(values)
    BY <1>1, <1>2
  <2>2. Before(values', what, Len(values)) = Before(values, what, Len(values))
    BY <1>1, BeforeAppend
  <2>3. Total(Costs(traversal, what), 0) = 0
    BY TotalNone
  <2>4. Left(what)' = Left(what)
    BY DEF Left
  <2>5. Left(what) \in Nat /\ Before(values, what, Len(values)) \in Nat
    <3>1. Len(values) \in 0 .. Len(values)
      BY <1>1
    <3> QED
      BY <1>1, <3>1, LeftIs, BeforeTyped
  <2>6. Left(what) + Before(values, what, Len(values)) = Limit(what)
    BY DEF Paid
  <2> QED
    BY <2>1, <2>2, <2>3, <2>4, <2>5, <2>6
<1>7. Len(todo') = Len(traversal) - 0 /\ \A i \in 1 .. Len(todo') : todo'[i] = traversal[0 + i]
  OBVIOUS
<1>8. Scanning(0)'
  BY <1>3, <1>4, <1>5, <1>6, <1>7 DEF Scanning
<1>9. 0 \in 0 .. Len(traversal)
  OBVIOUS
<1> QED
  BY <1>2, <1>3, <1>8, <1>9

LEMMA HeadIs ==
    ASSUME CallTypeOK, values # <<>>, NEW k \in 0 .. Len(Newest), Scanning(k), todo # <<>>
    PROVE  /\ Newest \in Seq(ChargeSpace) /\ k + 1 \in 1 .. Len(Newest)
           /\ Head(todo) = Newest[k + 1]
           /\ Len(Tail(todo)) = Len(Newest) - (k + 1)
           /\ \A i \in 1 .. Len(Tail(todo)) : Tail(todo)[i] = Newest[(k + 1) + i]
<1>1. values \in Seq(Seq(ChargeSpace)) /\ todo \in Seq(ChargeSpace)
  BY DEF CallTypeOK
<1>2. Len(values) \in 1 .. Len(values)
  BY <1>1
<1>3. Newest \in Seq(ChargeSpace)
  BY <1>1, <1>2, Element DEF Newest
<1>4. Len(todo) = Len(Newest) - k /\ \A i \in 1 .. Len(todo) : todo[i] = Newest[k + i]
  BY DEF Scanning
<1>5. /\ Len(todo) \in Nat \ {0} /\ Head(todo) = todo[1] /\ Len(Tail(todo)) = Len(todo) - 1
      /\ \A i \in 1 .. Len(Tail(todo)) : Tail(todo)[i] = todo[i + 1]
  BY <1>1
<1>6. k \in Nat /\ Len(Newest) \in Nat
  BY <1>3
<1>7. ASSUME NEW i \in 1 .. Len(Tail(todo))
      PROVE  Tail(todo)[i] = Newest[(k + 1) + i]
  <2>1. i + 1 \in 1 .. Len(todo) /\ k + (i + 1) = (k + 1) + i
    BY <1>5, <1>6
  <2> QED
    BY <1>4, <1>5, <2>1
<1>8. Head(todo) = Newest[k + 1]
  BY <1>4, <1>5
<1> QED
  BY <1>3, <1>4, <1>5, <1>6, <1>7, <1>8

(* One charge that the budget allows. *)
LEMMA ChargePaid ==
    ASSUME CallTypeOK, values # <<>>, NEW k \in 0 .. Len(Newest), Scanning(k), todo # <<>>,
           values' = values, todo' = Tail(todo), budget' \in Budgets,
           Head(todo).what = "visit" => Head(todo).n <= MaxDepth,
           \A what \in Kinds : Left(what)' = Left(what) - Cost(Head(todo), what)
    PROVE  values' # <<>> /\ k + 1 \in 0 .. Len(Newest') /\ Scanning(k + 1)'
<1>1. /\ Newest \in Seq(ChargeSpace) /\ k + 1 \in 1 .. Len(Newest)
      /\ Head(todo) = Newest[k + 1]
      /\ Len(todo') = Len(Newest) - (k + 1)
      /\ \A i \in 1 .. Len(todo') : todo'[i] = Newest[(k + 1) + i]
  BY HeadIs
<1>2. Newest' = Newest
  BY DEF Newest
<1>3. \A b \in 1 .. Len(values) - 1 : Shallow(values[b], Len(values[b]))
  BY DEF Scanning
<1>4. Shallow(Newest, k + 1)
  <2>1. Shallow(Newest, k)
    BY DEF Scanning
  <2>2. \A i \in 1 .. k + 1 : i \in 1 .. k \/ i = k + 1
    OBVIOUS
  <2> QED
    BY <1>1, <2>1, <2>2 DEF Shallow
<1>5. ASSUME NEW what \in Kinds
      PROVE  Left(what)' + Before(values, what, Len(values) - 1)
                + Total(Costs(Newest, what), k + 1) = Limit(what)
  <2>1. k \in Nat
    OBVIOUS
  <2>2. Total(Costs(Newest, what), k + 1)
           = Total(Costs(Newest, what), k) + Costs(Newest, what)[k + 1]
    BY <2>1, TotalMore
  <2>3. Costs(Newest, what)[k + 1] = Cost(Head(todo), what)
        /\ Costs(Newest, what)[k + 1] \in Nat
    BY <1>1, CostTyped
  <2>4. Left(what) + Before(values, what, Len(values) - 1) + Total(Costs(Newest, what), k)
           = Limit(what)
    BY DEF Scanning
  <2>5. Total(Costs(Newest, what), k) \in Nat
    BY <1>1, SpentTyped
  <2>6. Before(values, what, Len(values) - 1) \in Nat /\ Left(what) \in Nat
    <3>1. Len(values) - 1 \in 0 .. Len(values) /\ values \in Seq(Seq(ChargeSpace))
      BY DEF CallTypeOK
    <3> QED
      BY <3>1, BeforeTyped, LeftIs DEF CallTypeOK
  <2> QED
    BY <2>2, <2>3, <2>4, <2>5, <2>6
<1>6. k + 1 \in 0 .. Len(Newest)
  BY <1>1
<1>7. Scanning(k + 1)'
  BY <1>1, <1>2, <1>3, <1>4, <1>5 DEF Scanning
<1> QED
  BY <1>2, <1>6, <1>7

LEMMA ValueEnds ==
    ASSUME CallTypeOK, values # <<>>, NEW k \in 0 .. Len(Newest), Scanning(k), todo = <<>>
    PROVE  Paid
<1>1. values \in Seq(Seq(ChargeSpace)) /\ budget \in Budgets
  BY DEF CallTypeOK
<1>2. Len(values) \in 1 .. Len(values) /\ Len(values) # 0
  BY <1>1
<1>3. Newest \in Seq(ChargeSpace)
  BY <1>1, <1>2, Element DEF Newest
<1>4. k = Len(Newest)
  BY <1>3 DEF Scanning
<1>5. ASSUME NEW b \in 1 .. Len(values)
      PROVE  Shallow(values[b], Len(values[b]))
  <2>1. CASE b = Len(values)
    BY <1>4, <2>1 DEF Scanning, Newest
  <2>2. CASE b # Len(values)
    <3>1. b \in 1 .. Len(values) - 1
      BY <1>1, <2>2
    <3> QED
      BY <3>1 DEF Scanning
  <2> QED
    BY <2>1, <2>2
<1>6. ASSUME NEW what \in Kinds
      PROVE  Left(what) + Before(values, what, Len(values)) = Limit(what)
  <2>1. Before(values, what, Len(values)) =
           Before(values, what, Len(values) - 1) + Total(Costs(Newest, what), Len(Newest))
    BY <1>1, <1>2, BeforeLast DEF Newest
  <2>2. Left(what) + Before(values, what, Len(values) - 1) + Total(Costs(Newest, what), k)
           = Limit(what)
    BY DEF Scanning
  <2>3. Left(what) \in Nat /\ Total(Costs(Newest, what), k) \in Nat
    BY <1>1, <1>3, LeftIs, SpentTyped
  <2>4. Before(values, what, Len(values) - 1) \in Nat
    <3>1. Len(values) - 1 \in 0 .. Len(values)
      BY <1>1, <1>2
    <3> QED
      BY <1>1, <3>1, BeforeTyped
  <2> QED
    BY <1>4, <2>1, <2>2, <2>3, <2>4
<1> QED
  BY <1>5, <1>6 DEF Paid

(* The input limit is blamed only on values that pass it. *)
LEMMA PassedOnVisit ==
    ASSUME CallInv, Visit, VisitRefused(Head(todo).n)
    PROVE  OverLimit
<1>1. CallTypeOK /\ values # <<>> /\ todo # <<>> /\ Head(todo).what = "visit"
  BY DEF CallInv, BudgetInv, Visit
<1>2. PICK k \in 0 .. Len(Newest) : Scanning(k)
  BY DEF CallInv, BudgetInv, Visit
<1>3. /\ Newest \in Seq(ChargeSpace) /\ k + 1 \in 1 .. Len(Newest)
      /\ Head(todo) = Newest[k + 1]
  BY <1>1, <1>2, HeadIs
<1>4. /\ values \in Seq(Seq(ChargeSpace)) /\ Len(values) \in DOMAIN values /\ Len(values) # 0
      /\ Newest = values[Len(values)]
  BY <1>1 DEF CallTypeOK, Newest
<1>5. CASE Head(todo).n > MaxDepth
  BY <1>1, <1>3, <1>4, <1>5 DEF OverLimit, Deep
<1>6. CASE budget.visits = 0
  <2>1. "visit" \in Kinds /\ Left("visit") = 0
    BY <1>6 DEF Kinds, Left
  <2>2. Left("visit") + Before(values, "visit", Len(values) - 1)
           + Total(Costs(Newest, "visit"), k) = MaxVisits
    BY <1>2, <2>1, LimitIs DEF Scanning
  <2>3. Total(Costs(Newest, "visit"), k + 1) = Total(Costs(Newest, "visit"), k) + 1
    <3>1. k \in Nat
      BY <1>2
    <3>2. Costs(Newest, "visit")[k + 1] = 1
      BY <1>1, <1>3, CostTyped DEF Cost
    <3> QED
      BY <3>1, <3>2, TotalMore
  <2>4. /\ Total(Costs(Newest, "visit"), k) \in Nat
        /\ Total(Costs(Newest, "visit"), Len(Newest)) \in Nat
        /\ Total(Costs(Newest, "visit"), k + 1) <= Total(Costs(Newest, "visit"), Len(Newest))
    BY <1>2, <1>3, SpentTyped
  <2>5. Before(values, "visit", Len(values) - 1) \in Nat
    <3>1. Len(values) - 1 \in 0 .. Len(values)
      BY <1>4
    <3> QED
      BY <1>4, <3>1, BeforeTyped
  <2>6. Sum("visit") = Before(values, "visit", Len(values) - 1)
                          + Total(Costs(Newest, "visit"), Len(Newest))
    BY <1>4, BeforeLast, SumIs
  <2>7. Sum("visit") > MaxVisits
    BY <2>1, <2>2, <2>3, <2>4, <2>5, <2>6
  <2> QED
    BY <2>7 DEF OverLimit
<1> QED
  BY <1>5, <1>6 DEF VisitRefused

LEMMA PassedOnTake ==
    ASSUME CallInv, NEW what \in {"bytes", "items"}, Take(what), Head(todo).n > budget[what]
    PROVE  OverLimit
<1>1. CallTypeOK /\ values # <<>> /\ todo # <<>> /\ Head(todo).what = what
  BY DEF CallInv, BudgetInv, Take
<1>2. PICK k \in 0 .. Len(Newest) : Scanning(k)
  BY DEF CallInv, BudgetInv, Take
<1>3. /\ Newest \in Seq(ChargeSpace) /\ k + 1 \in 1 .. Len(Newest)
      /\ Head(todo) = Newest[k + 1]
  BY <1>1, <1>2, HeadIs
<1>4. /\ values \in Seq(Seq(ChargeSpace)) /\ Len(values) # 0 /\ Len(values) \in Nat
      /\ Newest = values[Len(values)]
  BY <1>1 DEF CallTypeOK, Newest
<1>5. what \in Kinds /\ Left(what) = budget[what] /\ Left(what) \in Nat
  BY <1>1, LeftIs DEF Kinds, Left, CallTypeOK
<1>6. Left(what) + Before(values, what, Len(values) - 1) + Total(Costs(Newest, what), k)
         = Limit(what)
  BY <1>2, <1>5 DEF Scanning
<1>7. Total(Costs(Newest, what), k + 1) = Total(Costs(Newest, what), k) + Head(todo).n
  <2>1. k \in Nat
    BY <1>2
  <2>2. Costs(Newest, what)[k + 1] = Head(todo).n
    BY <1>1, <1>3, CostTyped DEF Cost
  <2> QED
    BY <2>1, <2>2, TotalMore
<1>8. /\ Total(Costs(Newest, what), k) \in Nat
      /\ Total(Costs(Newest, what), Len(Newest)) \in Nat
      /\ Total(Costs(Newest, what), k + 1) <= Total(Costs(Newest, what), Len(Newest))
  BY <1>2, <1>3, SpentTyped
<1>9. Before(values, what, Len(values) - 1) \in Nat
  <2>1. Len(values) - 1 \in 0 .. Len(values)
    BY <1>4
  <2> QED
    BY <1>4, <2>1, BeforeTyped
<1>10. Sum(what) = Before(values, what, Len(values) - 1) + Total(Costs(Newest, what), Len(Newest))
  BY <1>4, BeforeLast, SumIs
<1>11. Head(todo).n \in Nat
  <2>1. Newest[k + 1] \in ChargeSpace
    BY <1>3
  <2> QED
    BY <1>3, <2>1 DEF ChargeSpace
<1>12. Sum(what) > Limit(what)
  BY <1>5, <1>6, <1>7, <1>8, <1>9, <1>10, <1>11
<1> QED
  BY <1>12, LimitIs DEF OverLimit

LEMMA LimitFrame ==
    ASSUME values' = values, OverLimit
    PROVE  OverLimit'
  BY DEF OverLimit, Deep, Sum, Sums, Costs, Cost

LEMMA BudgetKept ==
    ASSUME CallInv, CallNext, UNCHANGED builderVars
    PROVE  BudgetInv'
<1>1. ASSUME NEW argument \in Arguments, Call(argument)
      PROVE  BudgetInv'
  <2>1. pc = "idle" /\ pc' = "called" /\ UNCHANGED <<values, todo, budget>>
    BY <1>1 DEF Call, Go
  <2> QED
    BY <1>1, <2>1, PaidFrame DEF CallInv, BudgetInv, Answered
<1>2. ASSUME ContextEnds
      PROVE  BudgetInv'
  <2>1. Called /\ UNCHANGED <<pc, reply, values, todo, budget>>
    BY <1>2 DEF ContextEnds
  <2>2. ~Answered'
    BY <2>1 DEF Called, Answered
  <2>3. CASE pc = "scan"
    <3>1. values # <<>> /\ \E k \in 0 .. Len(Newest) : Scanning(k)
      BY <2>3 DEF CallInv, BudgetInv
    <3>2. PICK k \in 0 .. Len(Newest) : Scanning(k)
      BY <3>1
    <3>3. Scanning(k)' /\ Newest' = Newest
      BY <2>1, <3>2, ScanningFrame DEF Newest
    <3>4. values' # <<>> /\ \E j \in 0 .. Len(Newest') : Scanning(j)'
      BY <2>1, <3>1, <3>2, <3>3
    <3> QED
      BY <2>1, <2>2, <2>3, <3>4 DEF BudgetInv
  <2>4. CASE pc # "scan"
    BY <2>1, <2>2, <2>4, PaidFrame DEF CallInv, BudgetInv
  <2> QED
    BY <2>3, <2>4
<1>3. ASSUME Preflight
      PROVE  BudgetInv'
  <2>1. pc = "called" /\ UNCHANGED <<values, todo, budget>>
    BY <1>3 DEF Preflight
  <2> QED
    BY <1>3, <2>1, PaidFrame, PreflightIs DEF CallInv, BudgetInv, Failed, Answered
<1>4. ASSUME Project
      PROVE  BudgetInv'
  <2>1. pc = "project" /\ UNCHANGED <<values, todo, budget>>
    BY <1>4 DEF Project
  <2> QED
    BY <1>4, <2>1, PaidFrame, ProjectIs DEF CallInv, BudgetInv, Failed, Answered
<1>5. ASSUME ProjectorFails
      PROVE  BudgetInv'
  <2>1. Fail(WithContext({"projector"}))
    BY <1>5 DEF ProjectorFails
  <2>2. Failed
    BY <2>1, ContextAdded, FailIs
  <2> QED
    BY <2>2 DEF BudgetInv, Failed
<1>6. ASSUME ProjectorPanics
      PROVE  BudgetInv'
  <2>1. pc' = "unwound"
    BY <1>6 DEF ProjectorPanics, Go
  <2> QED
    BY <2>1 DEF BudgetInv, Answered
<1>7. ASSUME NEW fault \in Unusable, ProjectorReturnsUnusable(fault)
      PROVE  BudgetInv'
  BY <1>7, UnusableIs DEF BudgetInv, Failed, Answered
<1>8. ASSUME NEW traversal \in Traversals, ProjectorReturns(traversal)
      PROVE  BudgetInv'
  <2>1. pc = "projecting" /\ budget' = budget
    BY <1>8 DEF ProjectorReturns
  <2>2. CASE Failed
    BY <2>2 DEF BudgetInv, Failed
  <2>3. CASE pc' = "scan" /\ values' = Append(values, traversal) /\ todo' = traversal
    <3>1. Paid /\ CallTypeOK
      BY <2>1 DEF CallInv, BudgetInv
    <3>2. traversal \in Seq(ChargeSpace)
      BY TraversalsAssumption
    <3>3. values' # <<>> /\ 0 \in 0 .. Len(Newest') /\ Scanning(0)'
      BY <2>1, <2>3, <3>1, <3>2, ValueBegins
    <3>4. values' # <<>> /\ \E k \in 0 .. Len(Newest') : Scanning(k)'
      BY <3>3
    <3> QED
      BY <2>3, <3>4 DEF BudgetInv, Answered
  <2> QED
    BY <1>8, <2>2, <2>3, ReturnsIs
<1>9. ASSUME Visit
      PROVE  BudgetInv'
  <2>1. /\ pc = "scan" /\ values' = values /\ todo # <<>> /\ Head(todo).what = "visit"
    BY <1>9 DEF Visit
  <2>2. CASE Failed
    BY <2>2 DEF BudgetInv, Failed
  <2>3. CASE /\ pc' = pc /\ ~VisitRefused(Head(todo).n)
             /\ budget' = [budget EXCEPT !.visits = @ - 1] /\ todo' = Tail(todo)
    <3>1. CallTypeOK /\ values # <<>>
      BY <2>1 DEF CallInv, BudgetInv
    <3>2. PICK k \in 0 .. Len(Newest) : Scanning(k)
      BY <2>1 DEF CallInv, BudgetInv
    <3>3. Head(todo).n \in Nat
      <4>1. Head(todo) \in ChargeSpace
        BY <2>1, <3>1 DEF CallTypeOK
      <4> QED
        BY <4>1 DEF ChargeSpace
    <3>4. budget \in Budgets /\ budget.visits # 0 /\ Head(todo).n <= MaxDepth
      BY <2>3, <3>1, <3>3, BudgetAssumption, SMTT(20) DEF CallTypeOK, VisitRefused
    <3>5. budget' \in Budgets
      BY <2>3, <3>4 DEF Budgets
    <3>6. \A what \in Kinds : Left(what)' = Left(what) - Cost(Head(todo), what)
      BY <2>1, <2>3, <3>4 DEF Kinds, Left, Cost, Budgets
    <3>7. values' # <<>> /\ k + 1 \in 0 .. Len(Newest') /\ Scanning(k + 1)'
      BY <2>1, <2>3, <3>1, <3>2, <3>4, <3>5, <3>6, ChargePaid
    <3>8. values' # <<>> /\ \E j \in 0 .. Len(Newest') : Scanning(j)'
      BY <3>7
    <3> QED
      BY <2>1, <2>3, <3>8 DEF BudgetInv, Answered
  <2> QED
    BY <1>9, <2>2, <2>3, VisitIs
<1>10. ASSUME NEW what \in {"bytes", "items"}, Take(what)
      PROVE  BudgetInv'
  <2>1. /\ pc = "scan" /\ values' = values /\ todo # <<>> /\ Head(todo).what = what
    BY <1>10 DEF Take
  <2>2. CASE Failed
    BY <2>2 DEF BudgetInv, Failed
  <2>3. CASE /\ pc' = pc /\ ~(Head(todo).n > budget[what])
             /\ budget' = [budget EXCEPT ![what] = @ - Head(todo).n] /\ todo' = Tail(todo)
    <3>1. CallTypeOK /\ values # <<>>
      BY <2>1 DEF CallInv, BudgetInv
    <3>2. PICK k \in 0 .. Len(Newest) : Scanning(k)
      BY <2>1 DEF CallInv, BudgetInv
    <3>3. Head(todo).n \in Nat
      <4>1. Head(todo) \in ChargeSpace
        BY <2>1, <3>1 DEF CallTypeOK
      <4> QED
        BY <4>1 DEF ChargeSpace
    <3>4. budget \in Budgets /\ budget[what] \in Nat /\ budget[what] - Head(todo).n \in Nat
      <4>1. budget \in Budgets
        BY <3>1 DEF CallTypeOK
      <4>2. budget[what] \in Nat
        BY <4>1 DEF Budgets
      <4> QED
        BY <2>3, <3>3, <4>1, <4>2
    <3>5. budget' \in Budgets
      BY <2>3, <3>4 DEF Budgets
    <3>6. \A kind \in Kinds : Left(kind)' = Left(kind) - Cost(Head(todo), kind)
      BY <2>1, <2>3, <3>4 DEF Kinds, Left, Cost, Budgets
    <3>7. values' # <<>> /\ k + 1 \in 0 .. Len(Newest') /\ Scanning(k + 1)'
      BY <2>1, <2>3, <3>1, <3>2, <3>5, <3>6, ChargePaid
    <3>8. values' # <<>> /\ \E j \in 0 .. Len(Newest') : Scanning(j)'
      BY <3>7
    <3> QED
      BY <2>1, <2>3, <3>8 DEF BudgetInv, Answered
  <2> QED
    BY <1>10, <2>2, <2>3, TakeIs
<1>11. ASSUME Scanned
      PROVE  BudgetInv'
  <2>1. /\ pc = "scan" /\ pc' = "project" /\ todo = <<>>
        /\ UNCHANGED <<values, todo, budget>>
    BY <1>11 DEF Scanned, Go, LeftOver
  <2>2. CallTypeOK /\ values # <<>>
    BY <2>1 DEF CallInv, BudgetInv
  <2>3. PICK k \in 0 .. Len(Newest) : Scanning(k)
    BY <2>1 DEF CallInv, BudgetInv
  <2>4. Paid
    BY <2>1, <2>2, <2>3, ValueEnds
  <2> QED
    BY <2>1, <2>4, PaidFrame DEF BudgetInv, Answered
<1>12. ASSUME Evaluate
      PROVE  BudgetInv'
  <2>1. pc = "project" /\ pc' = "evaluating" /\ UNCHANGED <<values, todo, budget>>
    BY <1>12 DEF Evaluate, Go
  <2> QED
    BY <1>12, <2>1, PaidFrame DEF CallInv, BudgetInv, Answered
<1>13. ASSUME EvaluationInterrupted
      PROVE  BudgetInv'
  <2>1. Fail(WithContext({"interrupted"}))
    BY <1>13 DEF EvaluationInterrupted, EvaluationFails
  <2>2. Failed
    BY <2>1, ContextAdded, FailIs
  <2> QED
    BY <2>2 DEF BudgetInv, Failed
<1>14. ASSUME NEW cause \in EvaluationFailures, EvaluationFails(cause)
      PROVE  BudgetInv'
  <2>1. Fail(WithContext({cause}))
    BY <1>14 DEF EvaluationFails
  <2>2. Failed
    BY <2>1, ContextAdded, FailIs
  <2> QED
    BY <2>2 DEF BudgetInv, Failed
<1>15. ASSUME NEW matched \in {"true", "false"}, EvaluationReturns(matched)
      PROVE  BudgetInv'
  <2>1. pc = "evaluating" /\ pc' = "returned" /\ UNCHANGED <<values, todo, budget>>
    BY <1>15 DEF EvaluationReturns, Fail
  <2> QED
    BY <2>1, PaidFrame DEF CallInv, BudgetInv
<1>16. ASSUME RefuseValue
      PROVE  BudgetInv'
  BY <1>16, RefuseValueIs DEF BudgetInv, Failed, Answered
<1> QED
  BY <1>1, <1>2, <1>3, <1>4, <1>5, <1>6, <1>7, <1>8, <1>9, <1>10, <1>11, <1>12, <1>13, <1>14, <1>15, <1>16 DEF CallNext

LEMMA OneCause ==
    ASSUME NEW cause, cause # "context"
    PROVE  /\ "context" \in WithContext({cause}) <=> ended
           /\ \A x \in WithContext({cause}) : x = cause \/ x = "context"
           /\ WithContext({cause}) # {}
  BY DEF WithContext

LEMMA ProjectorCount ==
    ASSUME CallInv, pc = "projecting", values' = values, called' = called
    PROVE  Len(called') = Len(values') + 1
  BY DEF CallInv, ProgressInv

LEMMA FailureKept ==
    ASSUME CallInv, CallNext, UNCHANGED builderVars
    PROVE  FailureIsTrue'
<1>1. ASSUME NEW argument \in Arguments, Call(argument)
      PROVE  FailureIsTrue'
  <2>1. pc' # "returned"
    BY <1>1 DEF Call, Go
  <2> QED
    BY <2>1 DEF FailureIsTrue
<1>2. ASSUME ContextEnds
      PROVE  FailureIsTrue'
  <2>1. pc' # "returned"
    BY <1>2 DEF ContextEnds, Called
  <2> QED
    BY <2>1 DEF FailureIsTrue
<1>3. ASSUME Preflight
      PROVE  FailureIsTrue'
  <2>1. pc = "called" /\ UNCHANGED <<given, ended, late, values, called>>
    BY <1>3 DEF Preflight
  <2>2. ~late /\ given \in Arguments
    BY <2>1 DEF CallInv, LateInv, CallTypeOK
  <2>3. CASE given # "valid"
    <3>1. pc' = "returned" /\ reply'.causes = {given} /\ reply'.answer = "false"
      BY <1>3, <2>3 DEF Preflight, Fail
    <3> QED
      BY <2>1, <2>2, <2>3, <3>1 DEF FailureIsTrue, Arguments
  <2>4. CASE given = "valid" /\ ended
    <3>1. pc' = "returned" /\ reply'.causes = {"context"} /\ reply'.answer = "false"
      BY <1>3, <2>4 DEF Preflight, Fail
    <3> QED
      BY <2>1, <2>2, <2>4, <3>1 DEF FailureIsTrue
  <2>5. CASE given = "valid" /\ ~ended
    <3>1. pc' # "returned"
      BY <1>3, <2>5 DEF Preflight
    <3> QED
      BY <3>1 DEF FailureIsTrue
  <2> QED
    BY <2>3, <2>4, <2>5
<1>4. ASSUME Project
      PROVE  FailureIsTrue'
  <2>1. pc = "project" /\ UNCHANGED <<ended, late, values>>
    BY <1>4 DEF Project
  <2>2. ~late
    BY <2>1 DEF CallInv, LateInv
  <2>3. CASE ended
    <3>1. pc' = "returned" /\ reply'.causes = {"context"} /\ reply'.answer = "false"
      BY <1>4, <2>3 DEF Project, Fail
    <3> QED
      BY <2>1, <2>2, <2>3, <3>1 DEF FailureIsTrue
  <2>4. CASE ~ended
    <3>1. pc' # "returned"
      BY <1>4, <2>4 DEF Project
    <3> QED
      BY <3>1 DEF FailureIsTrue
  <2> QED
    BY <2>3, <2>4
<1>5. ASSUME ProjectorFails
      PROVE  FailureIsTrue'
  <2>1. pc = "projecting" /\ ended' = ended /\ Fail(WithContext({"projector"})) /\ values' = values /\ called' = called
    BY <1>5 DEF ProjectorFails
  <2>2. late' = (late \/ ended) /\ ~late
    BY <1>5, <2>1 DEF ProjectorFails, Returns, CallInv, LateInv
  <2>3. pc' = "returned" /\ reply'.causes = WithContext({"projector"}) /\ reply'.answer = "false"
    BY <2>1 DEF Fail
  <2>4. /\ "context" \in WithContext({"projector"}) <=> ended
        /\ \A x \in WithContext({"projector"}) : x = "projector" \/ x = "context"
    BY OneCause
  <2> QED
    BY <2>1, <2>2, <2>3, <2>4, ProjectorCount DEF FailureIsTrue
<1>6. ASSUME ProjectorPanics
      PROVE  FailureIsTrue'
  <2>1. pc' # "returned"
    BY <1>6 DEF ProjectorPanics, Go
  <2> QED
    BY <2>1 DEF FailureIsTrue
<1>7. ASSUME NEW fault \in Unusable, ProjectorReturnsUnusable(fault)
      PROVE  FailureIsTrue'
  <2>1. pc = "projecting" /\ ended' = ended /\ late' = (late \/ ended) /\ fault # "returned"
    BY <1>7, UnusableIs
  <2>2. ~late
    BY <2>1 DEF CallInv, LateInv
  <2>3. CASE ended
    <3>1. pc' = "returned" /\ reply'.causes = {"context"} /\ reply'.answer = "false"
      BY <1>7, <2>3 DEF ProjectorReturnsUnusable, Fail
    <3> QED
      BY <2>1, <2>2, <2>3, <3>1 DEF FailureIsTrue
  <2>4. CASE ~ended
    <3>1. pc' # "returned"
      BY <1>7, <2>1, <2>4 DEF ProjectorReturnsUnusable
    <3> QED
      BY <3>1 DEF FailureIsTrue
  <2> QED
    BY <2>3, <2>4
<1>8. ASSUME NEW traversal \in Traversals, ProjectorReturns(traversal)
      PROVE  FailureIsTrue'
  <2>1. pc = "projecting" /\ ended' = ended /\ late' = (late \/ ended)
    BY <1>8 DEF ProjectorReturns, Returns
  <2>2. CASE ended
    <3>1. pc' = "returned" /\ reply'.causes = {"context"} /\ reply'.answer = "false"
      BY <1>8, <2>2 DEF ProjectorReturns, Fail
    <3> QED
      BY <2>1, <2>2, <3>1 DEF FailureIsTrue
  <2>3. CASE ~ended
    <3>1. pc' # "returned"
      BY <1>8, <2>3 DEF ProjectorReturns
    <3> QED
      BY <3>1 DEF FailureIsTrue
  <2> QED
    BY <2>2, <2>3
<1>9. ASSUME Visit
      PROVE  FailureIsTrue'
  <2>1. pc = "scan" /\ UNCHANGED <<ended, late, values>>
    BY <1>9 DEF Visit
  <2>2. ~late
    BY <2>1 DEF CallInv, LateInv
  <2>3. CASE VisitRefused(Head(todo).n)
    <3>1. OverLimit'
      BY <1>9, <2>1, <2>3, PassedOnVisit, LimitFrame
    <3>2. Fail(WithContext({"input limit"}))
      BY <1>9, <2>3 DEF Visit
    <3>3. /\ pc' = "returned" /\ reply'.answer = "false"
          /\ reply'.causes = WithContext({"input limit"})
      BY <3>2 DEF Fail
    <3>4. /\ "context" \in WithContext({"input limit"}) => ended
          /\ "projector" \notin WithContext({"input limit"})
      BY OneCause
    <3> QED
      BY <2>1, <2>2, <3>1, <3>3, <3>4 DEF FailureIsTrue
  <2>4. CASE ~VisitRefused(Head(todo).n)
    <3>1. CASE budget'.visits % Poll = 0 /\ ended
      <4>1. pc' = "returned" /\ reply'.causes = {"context"} /\ reply'.answer = "false"
        BY <1>9, <2>4, <3>1 DEF Visit, Fail
      <4> QED
        BY <2>1, <2>2, <3>1, <4>1 DEF FailureIsTrue
    <3>2. CASE ~(budget'.visits % Poll = 0 /\ ended)
      <4>1. pc' # "returned"
        BY <1>9, <2>1, <2>4, <3>2 DEF Visit
      <4> QED
        BY <4>1 DEF FailureIsTrue
    <3> QED
      BY <3>1, <3>2
  <2> QED
    BY <2>3, <2>4
<1>10. ASSUME NEW what \in {"bytes", "items"}, Take(what)
      PROVE  FailureIsTrue'
  <2>1. pc = "scan" /\ UNCHANGED <<ended, late, values>>
    BY <1>10 DEF Take
  <2>2. ~late
    BY <2>1 DEF CallInv, LateInv
  <2>3. CASE Head(todo).n > budget[what]
    <3>1. OverLimit'
      BY <1>10, <2>1, <2>3, PassedOnTake, LimitFrame
    <3>2. Fail(WithContext({"input limit"}))
      BY <1>10, <2>3 DEF Take
    <3>3. /\ pc' = "returned" /\ reply'.answer = "false"
          /\ reply'.causes = WithContext({"input limit"})
      BY <3>2 DEF Fail
    <3>4. /\ "context" \in WithContext({"input limit"}) => ended
          /\ "projector" \notin WithContext({"input limit"})
      BY OneCause
    <3> QED
      BY <2>1, <2>2, <3>1, <3>3, <3>4 DEF FailureIsTrue
  <2>4. CASE ~(Head(todo).n > budget[what])
    <3>1. pc' # "returned"
      BY <1>10, <2>1, <2>4 DEF Take
    <3> QED
      BY <3>1 DEF FailureIsTrue
  <2> QED
    BY <2>3, <2>4
<1>11. ASSUME Scanned
      PROVE  FailureIsTrue'
  <2>1. pc' # "returned"
    BY <1>11 DEF Scanned, Go
  <2> QED
    BY <2>1 DEF FailureIsTrue
<1>12. ASSUME Evaluate
      PROVE  FailureIsTrue'
  <2>1. pc' # "returned"
    BY <1>12 DEF Evaluate, Go
  <2> QED
    BY <2>1 DEF FailureIsTrue
<1>13. ASSUME EvaluationInterrupted
      PROVE  FailureIsTrue'
  <2>1. pc = "evaluating" /\ ended' = ended /\ Fail(WithContext({"interrupted"})) /\ values' = values /\ called' = called
    BY <1>13 DEF EvaluationInterrupted, EvaluationFails
  <2>2. late' = (late \/ ended) /\ ~late
    BY <1>13, <2>1 DEF EvaluationInterrupted, EvaluationFails, Returns, CallInv, LateInv
  <2>3. pc' = "returned" /\ reply'.causes = WithContext({"interrupted"}) /\ reply'.answer = "false"
    BY <2>1 DEF Fail
  <2>4. /\ "context" \in WithContext({"interrupted"}) <=> ended
        /\ \A x \in WithContext({"interrupted"}) : x = "interrupted" \/ x = "context"
    BY OneCause
  <2> QED
    BY <2>1, <2>2, <2>3, <2>4 DEF FailureIsTrue, EvaluationFailures
<1>14. ASSUME NEW cause \in EvaluationFailures, EvaluationFails(cause)
      PROVE  FailureIsTrue'
  <2>1. pc = "evaluating" /\ ended' = ended /\ Fail(WithContext({cause})) /\ values' = values /\ called' = called
    BY <1>14 DEF EvaluationFails
  <2>2. late' = (late \/ ended) /\ ~late
    BY <1>14, <2>1 DEF EvaluationFails, Returns, CallInv, LateInv
  <2>3. pc' = "returned" /\ reply'.causes = WithContext({cause}) /\ reply'.answer = "false"
    BY <2>1 DEF Fail
  <2>4. /\ "context" \in WithContext({cause}) <=> ended
        /\ \A x \in WithContext({cause}) : x = cause \/ x = "context"
    BY OneCause DEF EvaluationFailures
  <2> QED
    BY <2>1, <2>2, <2>3, <2>4 DEF FailureIsTrue, EvaluationFailures
<1>15. ASSUME NEW matched \in {"true", "false"}, EvaluationReturns(matched)
      PROVE  FailureIsTrue'
  <2>1. pc = "evaluating" /\ ended' = ended /\ late' = (late \/ ended)
    BY <1>15 DEF EvaluationReturns, Returns
  <2>2. ~late
    BY <2>1 DEF CallInv, LateInv
  <2>3. CASE ended
    <3>1. pc' = "returned" /\ reply'.causes = {"context"} /\ reply'.answer = "false"
      BY <1>15, <2>3 DEF EvaluationReturns, Fail
    <3> QED
      BY <2>1, <2>2, <2>3, <3>1 DEF FailureIsTrue
  <2>4. CASE ~ended
    <3>1. reply'.causes = {}
      BY <1>15, <2>4 DEF EvaluationReturns
    <3> QED
      BY <2>1, <2>2, <2>4, <3>1 DEF FailureIsTrue
  <2> QED
    BY <2>3, <2>4
<1>16. ASSUME RefuseValue
      PROVE  FailureIsTrue'
  <2>1. pc \in {"ErrNilBinding", "ErrProtoDescriptor"} /\ ended' = ended /\ late' = late
    BY <1>16, RefuseValueIs
  <2>2. ~late
    BY <2>1 DEF CallInv, LateInv
  <2>3. /\ pc' = "returned" /\ reply'.causes = WithContext({pc}) /\ reply'.answer = "false"
    BY <1>16 DEF RefuseValue, Fail
  <2>4. /\ "context" \in WithContext({pc}) <=> ended
        /\ \A x \in WithContext({pc}) : x = pc \/ x = "context"
    BY <2>1, OneCause
  <2> QED
    BY <2>1, <2>2, <2>3, <2>4 DEF FailureIsTrue
<1> QED
  BY <1>1, <1>2, <1>3, <1>4, <1>5, <1>6, <1>7, <1>8, <1>9, <1>10, <1>11, <1>12, <1>13, <1>14, <1>15, <1>16 DEF CallNext

LEMMA CallBegins == Init => CallInv
<1> SUFFICES ASSUME Init PROVE CallInv
  OBVIOUS
<1>1. NamesInv
  BY DEF Init, BuilderInit, Zero, NamesInv
<1>2. CallTypeOK
  <2>1. MaxVisits \in Nat /\ MaxBytes \in Nat /\ MaxItems \in Nat
    BY BudgetAssumption
  <2>2. budget \in Budgets
    BY <2>1 DEF Init, FullBudget, Budgets
  <2>3. /\ values = <<>> /\ todo = <<>> /\ called = <<>> /\ given = "valid" /\ pc = "idle"
        /\ ended = FALSE /\ late = FALSE
    BY DEF Init
  <2>4. \A S : <<>> \in Seq(S)
    OBVIOUS
  <2> QED
    BY <2>2, <2>3, <2>4 DEF CallTypeOK, Arguments
<1>3. ProgressInv /\ LateInv /\ FailureIsTrue
  <2>1. /\ pc = "idle" /\ values = <<>> /\ called = <<>> /\ ended = FALSE /\ late = FALSE
        /\ ~Answered
    BY DEF Init, Answered
  <2>2. Len(called) = 0 /\ \A b \in 1 .. Len(called) : called[b] = b
    BY <2>1
  <2> QED
    BY <2>1, <2>2 DEF ProgressInv, LateInv, FailureIsTrue
<1>4. Paid
  <2>1. values = <<>> /\ budget = FullBudget
    BY DEF Init
  <2>2. ASSUME NEW what \in Kinds
        PROVE  Left(what) + Before(values, what, Len(values)) = Limit(what)
    <3>1. Len(values) = 0
      BY <2>1
    <3>2. Before(values, what, 0) = 0
      BY TotalNone DEF Before
    <3>3. Left(what) = Limit(what) /\ Limit(what) \in Nat
      BY <2>1, LimitIs DEF Left, Limit, FullBudget, Kinds
    <3> QED
      BY <3>1, <3>2, <3>3
  <2> QED
    BY <2>1, <2>2 DEF Paid
<1>5. BudgetInv
  BY <1>4 DEF Init, BudgetInv
<1> QED
  BY <1>1, <1>2, <1>3, <1>5 DEF CallInv

LEMMA CallFrame ==
    ASSUME CallInv, UNCHANGED callVars
    PROVE  CallTypeOK' /\ ProgressInv' /\ BudgetInv' /\ LateInv' /\ FailureIsTrue'
<1>1. UNCHANGED <<given, program, ended, pc, values, todo, budget, reply, called, late>>
  BY DEF callVars
<1>2. CallTypeOK' /\ LateInv'
  BY <1>1 DEF CallInv, CallTypeOK, LateInv, Answered, ChargeSpace
<1>3. ProgressInv'
  BY <1>1 DEF CallInv, ProgressInv, Answered, Bindings
<1>4. BudgetInv'
  <2>1. Paid => Paid'
    BY <1>1, PaidFrame
  <2>2. \A k : Scanning(k) => Scanning(k)'
    BY <1>1, ScanningFrame
  <2>3. Newest' = Newest
    BY <1>1 DEF Newest
  <2> QED
    BY <1>1, <2>1, <2>2, <2>3 DEF CallInv, BudgetInv, Answered
<1>5. FailureIsTrue'
  BY <1>1, LimitFrame DEF CallInv, FailureIsTrue
<1> QED
  BY <1>2, <1>3, <1>4, <1>5

(* Whatever the builder goes on to do, a call keeps its own bindings.      *)
LEMMA BuilderKeeps ==
    ASSUME CallInv, BuilderNext, UNCHANGED callVars
    PROVE  NamesInv'
<1>0. pc' = pc /\ program' = program
  BY DEF callVars
<1>1. ASSUME NEW options \in host.options, NewBuilder(options)
      PROVE  NamesInv'
  BY <1>0, <1>1 DEF NewBuilder, CallInv, NamesInv, Resolves
<1>2. ASSUME NEW entry \in host.entries, Bind(entry)
      PROVE  NamesInv'
  <2>1. bindings \in Seq(host.entries)
    BY DEF CallInv, NamesInv
  <2>2. Append(bindings, entry) \in Seq(host.entries)
    BY <2>1
  <2>3. bindings' \in Seq(host.entries)
    BY <1>2, <2>1, <2>2 DEF Bind, Kept
  <2> QED
    BY <1>0, <1>2, <2>3 DEF Bind, CallInv, NamesInv, Resolves
<1>3. ASSUME NEW entry \in host.entries, Function(entry)
      PROVE  NamesInv'
  BY <1>0, <1>3 DEF Function, CallInv, NamesInv, Resolves
<1>4. ASSUME Build
      PROVE  NamesInv'
  <2>1. CASE compiler' = compiler
    BY <1>0, <1>4, <2>1 DEF Build, CallInv, NamesInv, Resolves
  <2>2. CASE compiler' = [valid |-> TRUE, costLimit |-> builder.costLimit,
                          bindings |-> bindings, functions |-> functions]
    BY <1>0, <1>4, <2>2 DEF Build, CallInv, NamesInv, Resolves
  <2> QED
    BY <1>4, <2>1, <2>2 DEF Build
<1>5. ASSUME NEW source \in host.sources, Compile(source)
      PROVE  NamesInv'
  <2>1. CASE condition' = condition
    BY <1>0, <1>5, <2>1 DEF Compile, CallInv, NamesInv, Resolves
  <2>2. CASE CompileError(source) = "nil"
             /\ condition' = [valid |-> TRUE, source |-> source, by |-> compiler]
    <3>1. source.uses \subseteq Known
      BY <2>2 DEF CompileError
    <3>2. Resolves(condition)'
      BY <1>5, <2>2, <3>1 DEF Compile, CallInv, NamesInv, Resolves, Known, Names
    <3> QED
      BY <1>0, <1>5, <2>2, <3>2 DEF Compile, CallInv, NamesInv, Resolves
  <2> QED
    BY <1>5, <2>1, <2>2 DEF Compile
<1> QED
  BY <1>1, <1>2, <1>3, <1>4, <1>5 DEF BuilderNext

(* A condition is called with the bindings of the compiler that compiled   *)
(* it, one projector runs after the other, the budget pays for what was    *)
(* traversed, and no callback has returned to an ended context while the   *)
(* call goes on.                                                           *)
THEOREM CallInvariant == Spec => []CallInv
<1>1. Init => CallInv
  BY CallBegins
<1>2. CallInv /\ [Next]_vars => CallInv'
  <2> SUFFICES ASSUME CallInv, [Next]_vars PROVE CallInv'
    OBVIOUS
  <2>1. CASE BuilderNext /\ UNCHANGED callVars
    BY <2>1, BuilderKeeps, CallFrame DEF CallInv
  <2>2. CASE CallNext /\ UNCHANGED builderVars
    BY <2>2, NamesKept, TypesKept, ProgressKept, BudgetKept, LateKept, FailureKept DEF CallInv
  <2>3. CASE UNCHANGED vars
    <3>1. UNCHANGED callVars
      BY <2>3 DEF vars
    <3>2. UNCHANGED <<host, bindings, compiler, condition, pc, program>>
      BY <2>3 DEF vars, builderVars, callVars
    <3>3. NamesInv'
      BY <3>2 DEF CallInv, NamesInv, Resolves
    <3> QED
      BY <3>1, <3>3, CallFrame DEF CallInv
  <2> QED
    BY <2>1, <2>2, <2>3 DEF Next
<1> QED
  BY <1>1, <1>2, PTL DEF Spec

LEMMA WholeAnswer == CallInv => AnswerIsWhole
<1> SUFFICES ASSUME CallInv, Answered PROVE AnswerIsWhole
  BY DEF AnswerIsWhole
<1>0. pc = "returned"
  BY DEF Answered
<1>1. /\ Bindings \in Seq(host.entries)
      /\ program.source.uses \subseteq Names(Bindings) \cup Names(program.by.functions)
  BY <1>0 DEF CallInv, NamesInv, Resolves, Bindings
<1>2. /\ called \in Seq(Nat) /\ \A b \in 1 .. Len(called) : called[b] = b
      /\ Len(called) = Len(values) /\ Len(values) = Len(Bindings)
      /\ values \in Seq(Seq(ChargeSpace)) /\ budget \in Budgets
  BY <1>0 DEF CallInv, CallTypeOK, ProgressInv
<1>3. DOMAIN Bindings = 1 .. Len(Bindings) /\ DOMAIN values = 1 .. Len(values)
  BY <1>1, <1>2
<1>4. called = [b \in DOMAIN Bindings |-> b]
  BY <1>2, <1>3
<1>5. ASSUME NEW name \in program.source.uses
      PROVE  Resolved(name) \/ IsFunction(name)
  BY <1>1, <1>2, <1>3, <1>5 DEF Names, Resolved, IsFunction
<1>6. Paid
  BY DEF CallInv, BudgetInv
<1>7. ~Deep
  <2> SUFFICES ASSUME NEW b \in 1 .. Len(values), NEW i \in DOMAIN values[b],
                      values[b][i].what = "visit"
               PROVE  ~(values[b][i].n > MaxDepth)
    BY <1>3 DEF Deep
  <2>1. values[b] \in Seq(ChargeSpace)
    BY <1>2, Element
  <2>2. i \in 1 .. Len(values[b]) /\ values[b][i] \in ChargeSpace
    BY <2>1
  <2>3. Shallow(values[b], Len(values[b]))
    BY <1>6 DEF Paid
  <2>4. values[b][i].n <= MaxDepth
    BY <2>2, <2>3 DEF Shallow
  <2>5. values[b][i].n \in Nat /\ MaxDepth \in Nat
    BY <2>2, BudgetAssumption DEF ChargeSpace
  <2> QED
    BY <2>4, <2>5
<1>8. ASSUME NEW what \in Kinds
      PROVE  ~(Sum(what) > Limit(what))
  <2>1. Left(what) + Before(values, what, Len(values)) = Limit(what)
    BY <1>6 DEF Paid
  <2>2. Len(values) \in 0 .. Len(values)
    BY <1>2
  <2>3. Left(what) \in Nat /\ Before(values, what, Len(values)) \in Nat
    BY <1>2, <2>2, LeftIs, BeforeTyped
  <2> QED
    BY <2>1, <2>3, SumIs
<1>9. ~OverLimit
  BY <1>7, <1>8, LimitIs DEF OverLimit, Kinds
<1>10. ~late
  BY DEF CallInv, LateInv
<1> QED
  BY <1>4, <1>5, <1>9, <1>10 DEF AnswerIsWhole

(* AnswerIsWhole, for every host, traversal and limit: a condition answers *)
(* only for all the bindings of its own compiler, projected once and in    *)
(* order, within the input limits, and before the context has ended        *)
(* (cel/binding.go:201-262, cel/compiler.go:88-137).                       *)
THEOREM AnswersWhole == Spec => []AnswerIsWhole
<1>1. CallInv => AnswerIsWhole
  BY WholeAnswer
<1> QED
  BY <1>1, CallInvariant, PTL

(* FailureIsTrue, for every host, traversal and limit: the causes of a     *)
(* failure name the context and the input limit exactly when they are to   *)
(* blame (cel/compiler.go:88-174, cel/input.go:21-46).                     *)
THEOREM FailuresTrue == Spec => []FailureIsTrue
<1>1. CallInv => FailureIsTrue
  BY DEF CallInv
<1> QED
  BY <1>1, CallInvariant, PTL

-----------------------------------------------------------------------------
(* The builder.  First the recursive functions: each of them exists, from  *)
(* the value at 0 upwards.                                                 *)
Once(step, acc, x) == IF acc.err = "nil" THEN step[acc][x] ELSE acc
Runs(f, step, s, list, n) ==
    f = [i \in 0 .. n |-> IF i = 0 THEN s ELSE Once(step, f[i - 1], list[i])]

LEMMA RunsExist ==
    ASSUME NEW step, NEW s, NEW list, NEW N \in Nat
    PROVE  \E f : Runs(f, step, s, list, N)
<1> DEFINE Bad == {n \in Nat : ~\E f : Runs(f, step, s, list, n)}
<1> SUFFICES ASSUME Bad # {} PROVE FALSE
  OBVIOUS
<1>1. PICK n \in Bad : \A m \in Bad : n <= m
  BY LeastElement
<1>2. n # 0
  <2> DEFINE g == [i \in 0 .. 0 |-> s]
  <2>1. g = [i \in 0 .. 0 |-> IF i = 0 THEN s ELSE Once(step, g[i - 1], list[i])]
    OBVIOUS
  <2>2. Runs(g, step, s, list, 0)
    BY <2>1 DEF Runs
  <2> QED
    BY <2>2
<1>3. n - 1 \in Nat /\ n - 1 \notin Bad
  BY <1>1, <1>2
<1>4. PICK f : Runs(f, step, s, list, n - 1)
  BY <1>3
<1> DEFINE g == [i \in 0 .. n |-> IF i < n THEN f[i] ELSE Once(step, f[n - 1], list[n])]
<1>5. \A i \in 0 .. n : i # n => g[i] = f[i]
  OBVIOUS
<1>6. \A i \in 0 .. n - 1 : f[i] = IF i = 0 THEN s ELSE Once(step, f[i - 1], list[i])
  BY <1>3, <1>4 DEF Runs
<1>7. ASSUME NEW i \in 0 .. n
      PROVE  g[i] = IF i = 0 THEN s ELSE Once(step, g[i - 1], list[i])
  <2>1. CASE i = n
    <3>1. n - 1 \in 0 .. n /\ n - 1 # n /\ n \in 0 .. n
      BY <1>3
    <3> QED
      BY <1>2, <1>3, <1>5, <2>1, <3>1
  <2>2. CASE i < n
    <3>1. i \in 0 .. n - 1 /\ g[i] = f[i]
      BY <1>3, <2>2
    <3>2. i # 0 => i - 1 \in 0 .. n /\ i - 1 # n
      BY <1>3, <2>2
    <3> HIDE DEF g
    <3> QED
      BY <1>5, <1>6, <3>1, <3>2
  <2> QED
    BY <1>3, <2>1, <2>2
<1>8. Runs(g, step, s, list, n)
  <2> DEFINE h == [i \in 0 .. n |-> IF i = 0 THEN s ELSE Once(step, g[i - 1], list[i])]
  <2>1. g = [i \in 0 .. n |-> g[i]]
    OBVIOUS
  <2> HIDE DEF g
  <2>2. h = [i \in 0 .. n |-> g[i]]
    BY <1>7
  <2> QED
    BY <2>1, <2>2 DEF Runs
<1> QED
  BY <1>1, <1>8

LEMMA EachRuns ==
    ASSUME NEW step, NEW s, NEW list, Len(list) \in Nat
    PROVE  \E f : Runs(f, step, s, list, Len(list)) /\ Each(step, s, list) = f[Len(list)]
<1> DEFINE c == CHOOSE f : Runs(f, step, s, list, Len(list))
<1>1. Runs(c, step, s, list, Len(list))
  <2> HIDE DEF c
  <2>1. \E f : Runs(f, step, s, list, Len(list))
    BY RunsExist
  <2> QED
    BY <2>1 DEF c
<1>2. Each(step, s, list) = c[Len(list)]
  BY Zenon DEF Each, Runs, Once
<1> QED
  BY <1>1, <1>2

(* What every step keeps of what was done and what became of it, holds in  *)
(* the end.                                                                *)
LEMMA EachKeeps ==
    ASSUME NEW step, NEW s, NEW list, Len(list) \in Nat, NEW P,
           <<0, s>> \in P,
           \A i \in 1 .. Len(list) : \A acc :
              <<i - 1, acc>> \in P => <<i, Once(step, acc, list[i])>> \in P
    PROVE  <<Len(list), Each(step, s, list)>> \in P
<1>1. PICK f : Runs(f, step, s, list, Len(list)) /\ Each(step, s, list) = f[Len(list)]
  BY EachRuns
<1>2. \A i \in 0 .. Len(list) : f[i] = IF i = 0 THEN s ELSE Once(step, f[i - 1], list[i])
  BY <1>1 DEF Runs
<1> DEFINE Bad == {i \in 0 .. Len(list) : <<i, f[i]>> \notin P}
<1>3. Bad = {}
  <2> SUFFICES ASSUME Bad # {} PROVE FALSE
    OBVIOUS
  <2>0. Bad \subseteq Nat
    OBVIOUS
  <2>1. PICK i \in Bad : \A j \in Bad : i <= j
    BY <2>0, LeastElement
  <2>2. i # 0
    <3>1. f[0] = s
      BY <1>2
    <3> QED
      BY <2>1, <3>1
  <2>3. i \in 1 .. Len(list) /\ i - 1 \in 0 .. Len(list) /\ i - 1 \notin Bad
    BY <2>1, <2>2
  <2>4. <<i - 1, f[i - 1]>> \in P
    BY <2>3
  <2>5. f[i] = Once(step, f[i - 1], list[i])
    BY <1>2, <2>2, <2>3
  <2>6. <<i, Once(step, f[i - 1], list[i])>> \in P
    BY <2>3, <2>4
  <2> QED
    BY <2>5, <2>6
<1>4. Len(list) \in 0 .. Len(list) /\ Len(list) \notin Bad
  BY <1>3
<1>5. <<Len(list), f[Len(list)]>> \in P
  BY <1>4
<1> QED
  BY <1>1, <1>5

(* Closed: what is reached, in at most as many steps as there are nodes.   *)
Spread(next, S) == S \cup UNION {next[x] : x \in S}
Grows(f, from, next, n) ==
    f = [i \in 0 .. n |-> IF i = 0 THEN from ELSE Spread(next, f[i - 1])]

LEMMA GrowsExist ==
    ASSUME NEW from, NEW next, NEW N \in Nat
    PROVE  \E f : Grows(f, from, next, N)
<1> DEFINE Bad == {n \in Nat : ~\E f : Grows(f, from, next, n)}
<1> SUFFICES ASSUME Bad # {} PROVE FALSE
  OBVIOUS
<1>1. PICK n \in Bad : \A m \in Bad : n <= m
  BY LeastElement
<1>2. n # 0
  <2> DEFINE g == [i \in 0 .. 0 |-> from]
  <2>1. g = [i \in 0 .. 0 |-> IF i = 0 THEN from ELSE Spread(next, g[i - 1])]
    OBVIOUS
  <2>2. Grows(g, from, next, 0)
    BY <2>1 DEF Grows
  <2> QED
    BY <2>2
<1>3. n - 1 \in Nat /\ n - 1 \notin Bad
  BY <1>1, <1>2
<1>4. PICK f : Grows(f, from, next, n - 1)
  BY <1>3
<1> DEFINE g == [i \in 0 .. n |-> IF i < n THEN f[i] ELSE Spread(next, f[n - 1])]
<1>5. \A i \in 0 .. n : i # n => g[i] = f[i]
  OBVIOUS
<1>6. \A i \in 0 .. n - 1 : f[i] = IF i = 0 THEN from ELSE Spread(next, f[i - 1])
  BY <1>3, <1>4 DEF Grows
<1>7. ASSUME NEW i \in 0 .. n
      PROVE  g[i] = IF i = 0 THEN from ELSE Spread(next, g[i - 1])
  <2>1. CASE i = n
    <3>1. n - 1 \in 0 .. n /\ n - 1 # n /\ n \in 0 .. n
      BY <1>3
    <3> QED
      BY <1>2, <1>3, <1>5, <2>1, <3>1
  <2>2. CASE i < n
    <3>1. i \in 0 .. n - 1 /\ g[i] = f[i]
      BY <1>3, <2>2
    <3>2. i # 0 => i - 1 \in 0 .. n /\ i - 1 # n
      BY <1>3, <2>2
    <3> HIDE DEF g
    <3> QED
      BY <1>5, <1>6, <3>1, <3>2
  <2> QED
    BY <1>3, <2>1, <2>2
<1>8. Grows(g, from, next, n)
  <2> DEFINE h == [i \in 0 .. n |-> IF i = 0 THEN from ELSE Spread(next, g[i - 1])]
  <2>1. g = [i \in 0 .. n |-> g[i]]
    OBVIOUS
  <2> HIDE DEF g
  <2>2. h = [i \in 0 .. n |-> g[i]]
    BY <1>7
  <2> QED
    BY <2>1, <2>2 DEF Grows
<1> QED
  BY <1>1, <1>8

LEMMA ClosedGrows ==
    ASSUME NEW from, NEW next, Cardinality(DOMAIN next) \in Nat
    PROVE  \E f : /\ Grows(f, from, next, Cardinality(DOMAIN next))
                  /\ Closed(from, next) = f[Cardinality(DOMAIN next)]
<1> DEFINE c == CHOOSE f : Grows(f, from, next, Cardinality(DOMAIN next))
<1>1. Grows(c, from, next, Cardinality(DOMAIN next))
  <2> HIDE DEF c
  <2>1. \E f : Grows(f, from, next, Cardinality(DOMAIN next))
    BY GrowsExist
  <2> QED
    BY <2>1 DEF c
<1>2. Closed(from, next) = c[Cardinality(DOMAIN next)]
  BY Zenon DEF Closed, Grows, Spread
<1> QED
  BY <1>1, <1>2

LEMMA ClosedIsLeast ==
    ASSUME NEW next, IsFiniteSet(DOMAIN next), \A x \in DOMAIN next : next[x] \subseteq DOMAIN next,
           NEW from, from \subseteq DOMAIN next
    PROVE  /\ from \subseteq Closed(from, next) /\ Closed(from, next) \subseteq DOMAIN next
           /\ \A x \in Closed(from, next) : next[x] \subseteq Closed(from, next)
           /\ \A S : from \subseteq S /\ (\A x \in S \cap DOMAIN next : next[x] \subseteq S)
                        => Closed(from, next) \subseteq S
<1>0. PICK D : D = DOMAIN next
  OBVIOUS
<1>1. PICK N : N = Cardinality(D)
  OBVIOUS
<1>2. N \in Nat /\ IsFiniteSet(D)
  BY <1>0, <1>1, FS_CardinalityType
<1>3. PICK f : Grows(f, from, next, N) /\ Closed(from, next) = f[N]
  BY <1>0, <1>1, <1>2, ClosedGrows
<1>4. /\ f[0] = from
      /\ \A i \in 1 .. N : f[i] = Spread(next, f[i - 1])
  <2>1. \A i \in 0 .. N : f[i] = IF i = 0 THEN from ELSE Spread(next, f[i - 1])
    BY <1>3 DEF Grows
  <2>2. 0 \in 0 .. N /\ \A i \in 1 .. N : i \in 0 .. N /\ i # 0
    BY <1>2
  <2> QED
    BY <2>1, <2>2
(* By induction: what starts in a set that is closed, stays there. *)
<1>5. ASSUME NEW S, from \subseteq S, \A x \in S \cap D : next[x] \subseteq S
      PROVE  \A i \in 0 .. N : f[i] \subseteq S \cap D
  <2> DEFINE Bad == {i \in 0 .. N : ~(f[i] \subseteq S \cap D)}
  <2> SUFFICES ASSUME Bad # {} PROVE FALSE
    OBVIOUS
  <2>0. Bad \subseteq Nat
    OBVIOUS
  <2>1. PICK i \in Bad : \A j \in Bad : i <= j
    BY <2>0, LeastElement
  <2>2. i # 0
    BY <1>0, <1>4, <1>5
  <2>3. i \in 1 .. N /\ i - 1 \in 0 .. N /\ i - 1 \notin Bad
    BY <1>2, <2>1, <2>2
  <2>4. f[i - 1] \subseteq S \cap D
    BY <2>3
  <2>5. \A x \in f[i - 1] : next[x] \subseteq S \cap D
    BY <1>0, <1>5, <2>4
  <2>6. Spread(next, f[i - 1]) \subseteq S \cap D
    BY <2>4, <2>5 DEF Spread
  <2> QED
    BY <1>4, <2>1, <2>3, <2>6
<1>6. \A i \in 0 .. N : f[i] \subseteq D
  BY <1>0, <1>5
<1>7. \A i \in 0 .. N : from \subseteq f[i]
  <2> DEFINE Bad == {i \in 0 .. N : ~(from \subseteq f[i])}
  <2> SUFFICES ASSUME Bad # {} PROVE FALSE
    OBVIOUS
  <2>0. Bad \subseteq Nat
    OBVIOUS
  <2>1. PICK i \in Bad : \A j \in Bad : i <= j
    BY <2>0, LeastElement
  <2>2. i # 0
    BY <1>4
  <2>3. i \in 1 .. N /\ i - 1 \in 0 .. N /\ i - 1 \notin Bad
    BY <1>2, <2>1, <2>2
  <2>4. f[i - 1] \subseteq f[i]
    BY <1>4, <2>3 DEF Spread
  <2> QED
    BY <2>1, <2>3, <2>4
(* Until it is closed, every step adds a node. *)
<1> DEFINE Rests(i) == Spread(next, f[i]) = f[i]
<1>8. ASSUME NEW i \in 0 .. N, Rests(i)
      PROVE  f[N] = f[i]
  <2> DEFINE Bad == {j \in i .. N : f[j] # f[i]}
  <2>a. Bad = {}
    <3> SUFFICES ASSUME Bad # {} PROVE FALSE
      OBVIOUS
    <3>0. Bad \subseteq Nat
      BY <1>2
    <3>1. PICK j \in Bad : \A k \in Bad : j <= k
      BY <3>0, LeastElement
    <3>2. j # i
      BY <3>1
    <3>3. j \in 1 .. N /\ j - 1 \in i .. N /\ j - 1 \notin Bad
      BY <1>2, <3>1, <3>2
    <3>4. f[j - 1] = f[i]
      BY <3>3
    <3> QED
      BY <1>4, <1>8, <3>1, <3>3, <3>4
  <2>b. N \in i .. N
    BY <1>2
  <2> QED
    BY <2>a, <2>b
<1>9. Rests(N)
  <2> SUFFICES ASSUME ~Rests(N) PROVE FALSE
    OBVIOUS
  <2>1. \A i \in 0 .. N : ~Rests(i)
    <3> SUFFICES ASSUME NEW i \in 0 .. N, Rests(i) PROVE FALSE
      OBVIOUS
    <3> QED
      BY <1>8
  <2> HIDE DEF Rests
  <2>2. \A i \in 0 .. N : IsFiniteSet(f[i]) /\ Cardinality(f[i]) \in Nat
    BY <1>2, <1>6, FS_Subset, FS_CardinalityType
  <2> DEFINE Bad == {i \in 0 .. N : ~(Cardinality(f[i]) >= i)}
  <2>3. Bad = {}
    <3> SUFFICES ASSUME Bad # {} PROVE FALSE
      OBVIOUS
    <3>0. Bad \subseteq Nat
      OBVIOUS
    <3>1. PICK i \in Bad : \A j \in Bad : i <= j
      BY <3>0, LeastElement
    <3>2. i # 0
      <4>1. 0 \in 0 .. N
        BY <1>2
      <4> QED
        BY <2>2, <3>1, <4>1
    <3>3. i \in 1 .. N /\ i - 1 \in 0 .. N /\ i - 1 \notin Bad
      BY <1>2, <3>1, <3>2
    <3>4. f[i - 1] \subseteq f[i] /\ f[i] # f[i - 1]
      BY <1>4, <2>1, <3>3 DEF Spread, Rests
    <3>5. Cardinality(f[i - 1]) <= Cardinality(f[i]) /\ Cardinality(f[i - 1]) # Cardinality(f[i])
      BY <2>2, <3>3, <3>4, FS_Subset
    <3>6. Cardinality(f[i - 1]) >= i - 1
      BY <3>3
    <3> QED
      BY <2>2, <3>1, <3>3, <3>5, <3>6
  <2>4. N \in 0 .. N /\ N \notin Bad
    BY <1>2, <2>3
  <2>5. Cardinality(f[N]) >= N
    BY <2>4
  <2>6. f[N] = D
    BY <1>1, <1>2, <1>6, <2>2, <2>4, <2>5, FS_Subset
  <2>7. Spread(next, D) = D
    BY <1>0 DEF Spread
  <2> QED
    BY <2>1, <2>4, <2>6, <2>7 DEF Rests
<1>10. N \in 0 .. N
  BY <1>2
<1>11. \A x \in f[N] : next[x] \subseteq f[N]
  BY <1>9 DEF Spread
<1>12. from \subseteq f[N] /\ f[N] \subseteq D
  BY <1>6, <1>7, <1>10
<1>13. ASSUME NEW S, from \subseteq S, \A x \in S \cap D : next[x] \subseteq S
       PROVE  f[N] \subseteq S
  BY <1>5, <1>10, <1>13
<1> QED
  BY <1>0, <1>3, <1>11, <1>12, <1>13

(* The bodies of native, addFile and Nested, with what they are one level  *)
(* further down.                                                           *)
Field(deeper, t) ==
    [acc \in SchemaSpace |-> [i \in DOMAIN Type(t).fields |->
        IF Type(t).fields[i].embedded THEN Refuse(acc, "field")
        ELSE IF ~Exposed(Type(t).fields[i]) THEN acc
        ELSE IF BadField(Type(t).fields, i) THEN Refuse(acc, "field")
        ELSE deeper[acc][Type(t).fields[i].type]]]
Walk(left, deeper) ==
    [s \in SchemaSpace |-> [t \in DOMAIN host.types |->
        IF left = 0 THEN Refuse(s, "depth")
        ELSE IF Type(t).fault # "none" THEN Refuse(s, "fault")
        ELSE IF Type(t).kind # "struct" THEN Each(deeper, s, Type(t).elements)
        ELSE IF t \in s.natives THEN s
        ELSE IF Cardinality(s.natives) >= MaxNatives \/ Len(Type(t).fields) > MaxFields
             THEN Refuse(s, "limit")
        ELSE IF Conflict(s, Type(t).name, "native") THEN Refuse(s, "conflict")
        ELSE Each(Field(deeper, t), [s EXCEPT !.natives = @ \cup {t}],
                  [i \in DOMAIN Type(t).fields |-> i])]]

LEMMA WalkStarts ==
    \A a, b : Walk(0, a) = Walk(0, b)
  BY DEF Walk

Walks(f, n) == f = [i \in 0 .. n |-> Walk(i, f[i - 1])]

LEMMA WalksExist ==
    ASSUME NEW N \in Nat
    PROVE  \E f : Walks(f, N)
<1> DEFINE Bad == {n \in Nat : ~\E f : Walks(f, n)}
<1> SUFFICES ASSUME Bad # {} PROVE FALSE
  OBVIOUS
<1>1. PICK n \in Bad : \A m \in Bad : n <= m
  BY LeastElement
<1>2. n # 0
  <2> DEFINE g == [i \in 0 .. 0 |-> Walk(0, 0)]
  <2>1. g = [i \in 0 .. 0 |-> Walk(i, g[i - 1])]
    <3>1. \A i \in 0 .. 0 : Walk(i, g[i - 1]) = Walk(0, 0)
      BY WalkStarts
    <3> HIDE DEF g
    <3>2. [i \in 0 .. 0 |-> Walk(i, g[i - 1])] = [i \in 0 .. 0 |-> Walk(0, 0)]
      BY <3>1
    <3> QED
      BY <3>2 DEF g
  <2>2. Walks(g, 0)
    BY <2>1 DEF Walks
  <2> QED
    BY <2>2
<1>3. n - 1 \in Nat /\ n - 1 \notin Bad
  BY <1>1, <1>2
<1>4. PICK f : Walks(f, n - 1)
  BY <1>3
<1> DEFINE g == [i \in 0 .. n |-> IF i < n THEN f[i] ELSE Walk(n, f[n - 1])]
<1>5. \A i \in 0 .. n : i # n => g[i] = f[i]
  OBVIOUS
<1>6. \A i \in 0 .. n - 1 : f[i] = Walk(i, f[i - 1])
  BY <1>3, <1>4 DEF Walks
<1>7. ASSUME NEW i \in 0 .. n
      PROVE  g[i] = Walk(i, g[i - 1])
  <2>1. CASE i = n
    <3>1. n - 1 \in 0 .. n /\ n - 1 # n /\ n \in 0 .. n
      BY <1>3
    <3> QED
      BY <1>2, <1>3, <1>5, <2>1, <3>1
  <2>2. CASE i < n
    <3>1. i \in 0 .. n - 1 /\ g[i] = f[i]
      BY <1>3, <2>2
    <3>2. i # 0 => i - 1 \in 0 .. n /\ i - 1 # n
      BY <1>3, <2>2
    <3>3. CASE i # 0
      <4> HIDE DEF g
      <4> QED
        BY <1>5, <1>6, <3>1, <3>2, <3>3
    <3>4. CASE i = 0
      <4> HIDE DEF g
      <4>1. Walk(0, g[i - 1]) = Walk(0, f[i - 1])
        BY WalkStarts
      <4> QED
        BY <1>6, <3>1, <3>4, <4>1
    <3> QED
      BY <3>3, <3>4
  <2> QED
    BY <1>3, <2>1, <2>2
<1>8. Walks(g, n)
  <2> DEFINE h == [i \in 0 .. n |-> Walk(i, g[i - 1])]
  <2>1. g = [i \in 0 .. n |-> g[i]]
    OBVIOUS
  <2> HIDE DEF g
  <2>2. h = [i \in 0 .. n |-> g[i]]
    BY <1>7
  <2> QED
    BY <2>1, <2>2 DEF Walks
<1> QED
  BY <1>1, <1>8

LEMMA WalkIs ==
    \A i \in 0 .. MaxNesting + 1 : native[i] = Walk(i, native[i - 1])
<1>1. MaxNesting + 1 \in Nat
  BY LimitsAssumption
<1> DEFINE c == CHOOSE f : Walks(f, MaxNesting + 1)
<1>2. Walks(c, MaxNesting + 1)
  <2> HIDE DEF c
  <2>1. \E f : Walks(f, MaxNesting + 1)
    BY <1>1, WalksExist
  <2> QED
    BY <2>1 DEF c
<1>3. native = c
  BY DEF native, Walks, Walk, Field
<1> HIDE DEF c
<1> QED
  BY <1>2, <1>3 DEF Walks


Follow(left, deeper) ==
    [s \in SchemaSpace |-> [f \in DOMAIN host.files |->
        IF Met(s, f) THEN s
        ELSE IF \E g \in s.files : host.files[g].path = host.files[f].path
             THEN Refuse(s, "files")
        ELSE IF left = 0 \/ Cardinality(s.files) >= MaxFiles THEN Refuse(s, "limit")
        ELSE Each(deeper,
                  Each(message, [s EXCEPT !.files = @ \cup {f}], host.files[f].messages),
                  host.files[f].imports)]]

LEMMA FollowStarts ==
    \A a, b : Follow(0, a) = Follow(0, b)
  BY DEF Follow

Follows(f, n) == f = [i \in 0 .. n |-> Follow(i, f[i - 1])]

LEMMA FollowsExist ==
    ASSUME NEW N \in Nat
    PROVE  \E f : Follows(f, N)
<1> DEFINE Bad == {n \in Nat : ~\E f : Follows(f, n)}
<1> SUFFICES ASSUME Bad # {} PROVE FALSE
  OBVIOUS
<1>1. PICK n \in Bad : \A m \in Bad : n <= m
  BY LeastElement
<1>2. n # 0
  <2> DEFINE g == [i \in 0 .. 0 |-> Follow(0, 0)]
  <2>1. g = [i \in 0 .. 0 |-> Follow(i, g[i - 1])]
    <3>1. \A i \in 0 .. 0 : Follow(i, g[i - 1]) = Follow(0, 0)
      BY FollowStarts
    <3> HIDE DEF g
    <3>2. [i \in 0 .. 0 |-> Follow(i, g[i - 1])] = [i \in 0 .. 0 |-> Follow(0, 0)]
      BY <3>1
    <3> QED
      BY <3>2 DEF g
  <2>2. Follows(g, 0)
    BY <2>1 DEF Follows
  <2> QED
    BY <2>2
<1>3. n - 1 \in Nat /\ n - 1 \notin Bad
  BY <1>1, <1>2
<1>4. PICK f : Follows(f, n - 1)
  BY <1>3
<1> DEFINE g == [i \in 0 .. n |-> IF i < n THEN f[i] ELSE Follow(n, f[n - 1])]
<1>5. \A i \in 0 .. n : i # n => g[i] = f[i]
  OBVIOUS
<1>6. \A i \in 0 .. n - 1 : f[i] = Follow(i, f[i - 1])
  BY <1>3, <1>4 DEF Follows
<1>7. ASSUME NEW i \in 0 .. n
      PROVE  g[i] = Follow(i, g[i - 1])
  <2>1. CASE i = n
    <3>1. n - 1 \in 0 .. n /\ n - 1 # n /\ n \in 0 .. n
      BY <1>3
    <3> QED
      BY <1>2, <1>3, <1>5, <2>1, <3>1
  <2>2. CASE i < n
    <3>1. i \in 0 .. n - 1 /\ g[i] = f[i]
      BY <1>3, <2>2
    <3>2. i # 0 => i - 1 \in 0 .. n /\ i - 1 # n
      BY <1>3, <2>2
    <3>3. CASE i # 0
      <4> HIDE DEF g
      <4> QED
        BY <1>5, <1>6, <3>1, <3>2, <3>3
    <3>4. CASE i = 0
      <4> HIDE DEF g
      <4>1. Follow(0, g[i - 1]) = Follow(0, f[i - 1])
        BY FollowStarts
      <4> QED
        BY <1>6, <3>1, <3>4, <4>1
    <3> QED
      BY <3>3, <3>4
  <2> QED
    BY <1>3, <2>1, <2>2
<1>8. Follows(g, n)
  <2> DEFINE h == [i \in 0 .. n |-> Follow(i, g[i - 1])]
  <2>1. g = [i \in 0 .. n |-> g[i]]
    OBVIOUS
  <2> HIDE DEF g
  <2>2. h = [i \in 0 .. n |-> g[i]]
    BY <1>7
  <2> QED
    BY <2>1, <2>2 DEF Follows
<1> QED
  BY <1>1, <1>8

LEMMA FollowIs ==
    \A i \in 0 .. MaxFiles : addFile[i] = Follow(i, addFile[i - 1])
<1>1. MaxFiles \in Nat
  BY LimitsAssumption
<1> DEFINE c == CHOOSE f : Follows(f, MaxFiles)
<1>2. Follows(c, MaxFiles)
  <2> HIDE DEF c
  <2>1. \E f : Follows(f, MaxFiles)
    BY <1>1, FollowsExist
  <2> QED
    BY <2>1 DEF c
<1>3. addFile = c
  BY DEF addFile, Follows, Follow
<1> HIDE DEF c
<1> QED
  BY <1>2, <1>3 DEF Follows


Nest(left, deeper) ==
    IF left = 0 THEN DOMAIN host.types
    ELSE {t \in DOMAIN host.types : Leads(t) \cap deeper # {}}

LEMMA NestStarts ==
    \A a, b : Nest(0, a) = Nest(0, b)
  BY DEF Nest

Nests(f, n) == f = [i \in 0 .. n |-> Nest(i, f[i - 1])]

LEMMA NestsExist ==
    ASSUME NEW N \in Nat
    PROVE  \E f : Nests(f, N)
<1> DEFINE Bad == {n \in Nat : ~\E f : Nests(f, n)}
<1> SUFFICES ASSUME Bad # {} PROVE FALSE
  OBVIOUS
<1>1. PICK n \in Bad : \A m \in Bad : n <= m
  BY LeastElement
<1>2. n # 0
  <2> DEFINE g == [i \in 0 .. 0 |-> Nest(0, 0)]
  <2>1. g = [i \in 0 .. 0 |-> Nest(i, g[i - 1])]
    <3>1. \A i \in 0 .. 0 : Nest(i, g[i - 1]) = Nest(0, 0)
      BY NestStarts
    <3> HIDE DEF g
    <3>2. [i \in 0 .. 0 |-> Nest(i, g[i - 1])] = [i \in 0 .. 0 |-> Nest(0, 0)]
      BY <3>1
    <3> QED
      BY <3>2 DEF g
  <2>2. Nests(g, 0)
    BY <2>1 DEF Nests
  <2> QED
    BY <2>2
<1>3. n - 1 \in Nat /\ n - 1 \notin Bad
  BY <1>1, <1>2
<1>4. PICK f : Nests(f, n - 1)
  BY <1>3
<1> DEFINE g == [i \in 0 .. n |-> IF i < n THEN f[i] ELSE Nest(n, f[n - 1])]
<1>5. \A i \in 0 .. n : i # n => g[i] = f[i]
  OBVIOUS
<1>6. \A i \in 0 .. n - 1 : f[i] = Nest(i, f[i - 1])
  BY <1>3, <1>4 DEF Nests
<1>7. ASSUME NEW i \in 0 .. n
      PROVE  g[i] = Nest(i, g[i - 1])
  <2>1. CASE i = n
    <3>1. n - 1 \in 0 .. n /\ n - 1 # n /\ n \in 0 .. n
      BY <1>3
    <3> QED
      BY <1>2, <1>3, <1>5, <2>1, <3>1
  <2>2. CASE i < n
    <3>1. i \in 0 .. n - 1 /\ g[i] = f[i]
      BY <1>3, <2>2
    <3>2. i # 0 => i - 1 \in 0 .. n /\ i - 1 # n
      BY <1>3, <2>2
    <3>3. CASE i # 0
      <4> HIDE DEF g
      <4> QED
        BY <1>5, <1>6, <3>1, <3>2, <3>3
    <3>4. CASE i = 0
      <4> HIDE DEF g
      <4>1. Nest(0, g[i - 1]) = Nest(0, f[i - 1])
        BY NestStarts
      <4> QED
        BY <1>6, <3>1, <3>4, <4>1
    <3> QED
      BY <3>3, <3>4
  <2> QED
    BY <1>3, <2>1, <2>2
<1>8. Nests(g, n)
  <2> DEFINE h == [i \in 0 .. n |-> Nest(i, g[i - 1])]
  <2>1. g = [i \in 0 .. n |-> g[i]]
    OBVIOUS
  <2> HIDE DEF g
  <2>2. h = [i \in 0 .. n |-> g[i]]
    BY <1>7
  <2> QED
    BY <2>1, <2>2 DEF Nests
<1> QED
  BY <1>1, <1>8

LEMMA NestIs ==
    \A i \in 0 .. MaxNesting + 1 : Nested[i] = Nest(i, Nested[i - 1])
<1>1. MaxNesting + 1 \in Nat
  BY LimitsAssumption
<1> DEFINE c == CHOOSE f : Nests(f, MaxNesting + 1)
<1>2. Nests(c, MaxNesting + 1)
  <2> HIDE DEF c
  <2>1. \E f : Nests(f, MaxNesting + 1)
    BY <1>1, NestsExist
  <2> QED
    BY <2>1 DEF c
<1>3. Nested = c
  BY Zenon DEF Nested, Nests, Nest
<1> HIDE DEF c
<1> QED
  BY <1>2, <1>3 DEF Nests

-----------------------------------------------------------------------------
(* What a host is, and what its bindings reach.                            *)
Candidate(entries) ==
    host \in Hosts /\ entries \in Seq({entry \in host.entries : entry.kind # "function"})

LEMMA TypeIs ==
    ASSUME host \in Hosts, NEW t \in DOMAIN host.types
    PROVE  /\ Type(t).fault \in {"none", "fault"}
           /\ Type(t).kind = "struct" => /\ Type(t).name \in STRING
                                         /\ Type(t).fields \in Seq(FieldSpace(host.types))
           /\ Type(t).kind # "struct" => Type(t).elements \in Seq(DOMAIN host.types)
<1>1. TypeWellFormed(host.types, t)
  BY HostsAssumption
<1> QED
  BY <1>1 DEF TypeWellFormed, Type

LEMMA FileIs ==
    ASSUME host \in Hosts, NEW f \in DOMAIN host.files
    PROVE  /\ host.files[f].messages \in Seq(STRING)
           /\ host.files[f].imports \in Seq(DOMAIN host.files)
           /\ \A i, j \in DOMAIN host.files[f].messages :
                 host.files[f].messages[i] = host.files[f].messages[j] => i = j
<1>1. FileWellFormed(host.files, f)
  BY HostsAssumption
<1> QED
  BY <1>1 DEF FileWellFormed

LEMMA RangeIs ==
    ASSUME NEW S, NEW s \in Seq(S)
    PROVE  Range(s) = {s[i] : i \in 1 .. Len(s)} /\ Range(s) \subseteq S
  BY DEF Range

LEMMA LeadsIs ==
    ASSUME host \in Hosts, NEW t \in DOMAIN host.types
    PROVE  Leads(t) \subseteq DOMAIN host.types
<1>1. CASE Type(t).kind = "struct"
  <2>1. Type(t).fields \in Seq(FieldSpace(host.types))
    BY <1>1, TypeIs
  <2>2. ASSUME NEW i \in DOMAIN Type(t).fields
        PROVE  Type(t).fields[i].type \in DOMAIN host.types
    <3>1. Type(t).fields[i] \in FieldSpace(host.types)
      BY <2>1
    <3> QED
      BY <3>1 DEF FieldSpace
  <2> QED
    BY <1>1, <2>2 DEF Leads
<1>2. CASE Type(t).kind # "struct"
  <2>1. Type(t).elements \in Seq(DOMAIN host.types)
    BY <1>2, TypeIs
  <2> QED
    BY <1>2, <2>1, RangeIs DEF Leads
<1> QED
  BY <1>1, <1>2

LEMMA ImportsIs ==
    ASSUME host \in Hosts, NEW f \in DOMAIN host.files
    PROVE  Imports(f) \subseteq DOMAIN host.files
<1>1. host.files[f].imports \in Seq(DOMAIN host.files)
  BY FileIs
<1> QED
  BY <1>1, RangeIs DEF Imports

LEMMA EntryIs ==
    ASSUME NEW entries, Candidate(entries), NEW i \in 1 .. Len(entries)
    PROVE  /\ entries[i] \in host.entries /\ entries[i].kind \in {"native", "proto"}
           /\ entries[i].kind = "native" => entries[i].of \in DOMAIN host.types
           /\ entries[i].kind = "proto" => entries[i].of \in DOMAIN host.files
<1>1. entries[i] \in {entry \in host.entries : entry.kind # "function"}
  BY Element DEF Candidate
<1>2. EntryWellFormed(host, entries[i])
  BY <1>1, HostsAssumption DEF Candidate
<1> QED
  BY <1>1, <1>2 DEF EntryWellFormed

LEMMA RootsIs ==
    ASSUME NEW entries, Candidate(entries)
    PROVE  /\ Roots(entries, "native") \subseteq DOMAIN host.types
           /\ Roots(entries, "proto") \subseteq DOMAIN host.files
<1>1. DOMAIN entries = 1 .. Len(entries)
  BY DEF Candidate
<1> QED
  BY <1>1, EntryIs DEF Roots

LEMMA TypesReached ==
    ASSUME NEW entries, Candidate(entries)
    PROVE  /\ Roots(entries, "native") \subseteq TypesOf(entries)
           /\ TypesOf(entries) \subseteq DOMAIN host.types
           /\ \A t \in TypesOf(entries) : Leads(t) \subseteq TypesOf(entries)
           /\ \A S : Roots(entries, "native") \subseteq S /\ (\A t \in S : Leads(t) \subseteq S)
                        => TypesOf(entries) \subseteq S
<1> DEFINE next == [t \in DOMAIN host.types |-> Leads(t)]
<1>1. DOMAIN next = DOMAIN host.types /\ \A t \in DOMAIN host.types : next[t] = Leads(t)
  OBVIOUS
<1>2. IsFiniteSet(DOMAIN host.types)
  BY HostsAssumption DEF Candidate
<1>3. \A t \in DOMAIN next : next[t] \subseteq DOMAIN next
  BY LeadsIs DEF Candidate
<1>4. TypesOf(entries) = Closed(Roots(entries, "native"), next)
  BY DEF TypesOf
<1> HIDE DEF next
<1>5. Roots(entries, "native") \subseteq DOMAIN next /\ IsFiniteSet(DOMAIN next)
  BY <1>1, <1>2, RootsIs
<1>6. /\ Roots(entries, "native") \subseteq TypesOf(entries)
      /\ TypesOf(entries) \subseteq DOMAIN next
      /\ \A t \in TypesOf(entries) : next[t] \subseteq TypesOf(entries)
      /\ \A S : Roots(entries, "native") \subseteq S
                /\ (\A t \in S \cap DOMAIN next : next[t] \subseteq S)
                   => TypesOf(entries) \subseteq S
  BY <1>3, <1>4, <1>5, ClosedIsLeast
<1> QED
  BY <1>1, <1>6

LEMMA FilesReached ==
    ASSUME NEW entries, Candidate(entries)
    PROVE  /\ Roots(entries, "proto") \subseteq FilesOf(entries)
           /\ FilesOf(entries) \subseteq DOMAIN host.files
           /\ \A f \in FilesOf(entries) : Imports(f) \subseteq FilesOf(entries)
           /\ \A S : Roots(entries, "proto") \subseteq S /\ (\A f \in S : Imports(f) \subseteq S)
                        => FilesOf(entries) \subseteq S
<1> DEFINE next == [f \in DOMAIN host.files |-> Imports(f)]
<1>1. DOMAIN next = DOMAIN host.files /\ \A f \in DOMAIN host.files : next[f] = Imports(f)
  OBVIOUS
<1>2. IsFiniteSet(DOMAIN host.files)
  BY HostsAssumption DEF Candidate
<1>3. \A f \in DOMAIN next : next[f] \subseteq DOMAIN next
  BY ImportsIs DEF Candidate
<1>4. FilesOf(entries) = Closed(Roots(entries, "proto"), next)
  BY DEF FilesOf
<1> HIDE DEF next
<1>5. Roots(entries, "proto") \subseteq DOMAIN next /\ IsFiniteSet(DOMAIN next)
  BY <1>1, <1>2, RootsIs
<1>6. /\ Roots(entries, "proto") \subseteq FilesOf(entries)
      /\ FilesOf(entries) \subseteq DOMAIN next
      /\ \A f \in FilesOf(entries) : next[f] \subseteq FilesOf(entries)
      /\ \A S : Roots(entries, "proto") \subseteq S
                /\ (\A f \in S \cap DOMAIN next : next[f] \subseteq S)
                   => FilesOf(entries) \subseteq S
  BY <1>3, <1>4, <1>5, ClosedIsLeast
<1> QED
  BY <1>1, <1>6

-----------------------------------------------------------------------------
(* What a schema is on the way: sound as far as it goes, or ended for a    *)
(* reason.                                                                 *)
MessagesOf(files) == UNION {Range(host.files[f].messages) : f \in files}

NamesApart(s) ==
    /\ \A t, u \in s.natives : Type(t).name = Type(u).name => t = u
    /\ \A t \in s.natives : Type(t).name \notin s.protoNames
FilesApart(files) ==
    \A f, g \in files : f # g =>
        /\ host.files[f].path # host.files[g].path
        /\ Range(host.files[f].messages) \cap Range(host.files[g].messages) = {}
WithinLimits(s) ==
    /\ Cardinality(s.natives) <= MaxNatives /\ Cardinality(s.files) <= MaxFiles
    /\ \A t \in s.natives : Len(Type(t).fields) <= MaxFields

Sound(entries, s) ==
    /\ s.natives \subseteq Structs(entries) /\ s.files \subseteq FilesOf(entries)
    /\ s.protoNames = MessagesOf(s.files) /\ s.protoNames \cap Dynamic = {}
    /\ NamesApart(s) /\ FilesApart(s.files) /\ WithinLimits(s)

Good(entries, s) ==
    /\ s \in SchemaSpace
    /\ s.err = "nil" => Sound(entries, s)
    /\ s.err \notin {"nil", "depth"} => Reason(entries, s.err)

(* What a walk that led from s to r has seen: from every type the way goes *)
(* on, or its struct was there before.                                     *)
Walked(W, s, r) ==
    /\ \A u \in W :
          /\ Type(u).fault = "none"
          /\ Type(u).kind = "struct" => u \in r.natives
          /\ u \in s.natives \/ /\ Leads(u) \subseteq W
                                /\ Type(u).kind = "struct" => ~FieldsAreBad(u)
    /\ s.natives \subseteq r.natives /\ r.natives \subseteq s.natives \cup W
Trail(s, seen, r) ==
    /\ r.files = s.files /\ r.protoNames = s.protoNames /\ s.natives \subseteq r.natives
    /\ r.err = "nil" => \E W : seen \subseteq W /\ Walked(W, s, r)

LEMMA WalkedOn ==
    ASSUME NEW V, NEW W, NEW s, NEW a, NEW b, Walked(V, s, a), Walked(W, a, b)
    PROVE  Walked(V \cup W, s, b)
  BY DEF Walked

LEMMA TrailOn ==
    ASSUME NEW s, NEW a, NEW b, NEW S, NEW R, a.err = "nil",
           Trail(s, S, a), Trail(a, R, b)
    PROVE  Trail(s, S \cup R, b)
<1>1. ASSUME b.err = "nil"
      PROVE  \E W : S \cup R \subseteq W /\ Walked(W, s, b)
  <2>1. PICK V : S \subseteq V /\ Walked(V, s, a)
    BY DEF Trail
  <2>2. PICK W : R \subseteq W /\ Walked(W, a, b)
    BY <1>1 DEF Trail
  <2>3. Walked(V \cup W, s, b)
    BY <2>1, <2>2, WalkedOn
  <2> QED
    BY <2>1, <2>2, <2>3
<1> QED
  BY <1>1 DEF Trail

LEMMA TrailStays ==
    ASSUME NEW s
    PROVE  Trail(s, {}, s)
<1>1. Walked({}, s, s)
  BY DEF Walked
<1> QED
  BY <1>1 DEF Trail

LEMMA TrailEnds ==
    ASSUME NEW s, NEW r, NEW S, NEW R, Trail(s, S, r), r.err # "nil"
    PROVE  Trail(s, R, r)
  BY DEF Trail

LEMMA RefuseIs ==
    ASSUME NEW s \in SchemaSpace, NEW err \in SchemaErrors
    PROVE  /\ Refuse(s, err) \in SchemaSpace /\ Refuse(s, err).err = err
           /\ Refuse(s, err).natives = s.natives /\ Refuse(s, err).files = s.files
           /\ Refuse(s, err).protoNames = s.protoNames
  BY DEF Refuse, SchemaSpace

LEMMA RefusedTrail ==
    ASSUME NEW s \in SchemaSpace, NEW err \in SchemaErrors, err # "nil", NEW R
    PROVE  Trail(s, R, Refuse(s, err))
  BY RefuseIs DEF Trail

LEMMA RefusedGood ==
    ASSUME NEW entries, NEW s \in SchemaSpace, NEW err \in SchemaErrors, err # "nil",
           err # "depth" => Reason(entries, err)
    PROVE  Good(entries, Refuse(s, err))
  BY RefuseIs DEF Good

(* What one level of native does to a schema that is still good.           *)
Enters(entries, left, s, t, r) ==
    /\ Good(entries, r) /\ Trail(s, {t}, r)
    /\ r.err = "depth" => t \in Nested[left]
Descends(entries, left, deeper) ==
    \A s \in SchemaSpace, t \in TypesOf(entries) :
        s.err = "nil" /\ Good(entries, s) => Enters(entries, left, s, t, deeper[s][t])

LEMMA NestedStep ==
    ASSUME NEW left \in 1 .. MaxNesting + 1, NEW t \in DOMAIN host.types, NEW u \in Leads(t),
           u \in Nested[left - 1]
    PROVE  t \in Nested[left]
<1>1. MaxNesting + 1 \in Nat
  BY LimitsAssumption
<1>2. left \in 0 .. MaxNesting + 1 /\ left # 0
  BY <1>1
<1>3. Nested[left] = Nest(left, Nested[left - 1])
  BY <1>2, NestIs
<1> QED
  BY <1>2, <1>3 DEF Nest

LEMMA ElementsWalk ==
    ASSUME NEW entries, Candidate(entries), NEW left \in 1 .. MaxNesting + 1,
           NEW deeper, Descends(entries, left - 1, deeper),
           NEW t \in TypesOf(entries), Type(t).kind # "struct", Type(t).fault = "none",
           NEW s \in SchemaSpace, s.err = "nil", Good(entries, s)
    PROVE  Enters(entries, left, s, t, Each(deeper, s, Type(t).elements))
<1>1. PICK n, list : list = Type(t).elements /\ n = Len(list)
  OBVIOUS
<1>2. t \in DOMAIN host.types /\ Leads(t) \subseteq TypesOf(entries) /\ host \in Hosts
  BY TypesReached DEF Candidate
<1>3. list \in Seq(DOMAIN host.types) /\ n \in Nat
  BY <1>1, <1>2, TypeIs
<1>4. Leads(t) = {list[i] : i \in 1 .. n}
  BY <1>1, <1>3, RangeIs DEF Leads
<1> DEFINE Fits(i, acc) ==
             /\ Good(entries, acc) /\ Trail(s, {list[j] : j \in 1 .. i}, acc)
             /\ acc.err = "depth" => t \in Nested[left]
           P == {p \in Nat \X SchemaSpace : Fits(p[1], p[2])}
<1>5. \A i, acc : <<i, acc>> \in P <=> i \in Nat /\ acc \in SchemaSpace /\ Fits(i, acc)
  OBVIOUS
<1> HIDE DEF P
<1>6. <<0, s>> \in P
  <2>1. {list[j] : j \in 1 .. 0} = {}
    OBVIOUS
  <2>2. Fits(0, s)
    BY <2>1, TrailStays
  <2> QED
    BY <1>5, <2>2
<1>7. ASSUME NEW i \in 1 .. n, NEW acc, <<i - 1, acc>> \in P
      PROVE  <<i, Once(deeper, acc, list[i])>> \in P
  <2>1. Fits(i - 1, acc) /\ acc \in SchemaSpace /\ i \in Nat
    BY <1>5, <1>7
  <2>2. {list[j] : j \in 1 .. i} = {list[j] : j \in 1 .. i - 1} \cup {list[i]}
    <3>1. 1 .. i = (1 .. i - 1) \cup {i}
      BY <1>3
    <3> QED
      BY <3>1
  <2>3. CASE acc.err # "nil"
    <3>1. Trail(s, {list[j] : j \in 1 .. i}, acc)
      BY <2>1, <2>3, TrailEnds
    <3>2. Once(deeper, acc, list[i]) = acc
      BY <2>3 DEF Once
    <3> QED
      BY <1>5, <2>1, <3>1, <3>2
  <2>4. CASE acc.err = "nil"
    <3> DEFINE u == list[i]
               r == deeper[acc][u]
    <3>0. Once(deeper, acc, u) = r
      BY <2>4 DEF Once
    <3>1. u \in Leads(t) /\ u \in TypesOf(entries)
      BY <1>2, <1>4
    <3>2. Enters(entries, left - 1, acc, u, r)
      BY <2>1, <2>4, <3>1 DEF Descends
    <3> HIDE DEF r
    <3>3. Good(entries, r) /\ r \in SchemaSpace
      BY <3>2 DEF Enters, Good
    <3>4. Trail(s, {list[j] : j \in 1 .. i - 1} \cup {u}, r)
      <4>1. Trail(acc, {u}, r)
        BY <3>2 DEF Enters
      <4> QED
        BY <2>1, <2>4, <4>1, TrailOn
    <3>5. r.err = "depth" => t \in Nested[left]
      BY <1>2, <3>1, <3>2, NestedStep DEF Enters
    <3>6. Fits(i, r)
      BY <2>2, <3>3, <3>4, <3>5
    <3> QED
      BY <1>5, <2>1, <3>0, <3>3, <3>6
  <2> QED
    BY <2>3, <2>4
<1>8. <<n, Each(deeper, s, list)>> \in P
  <2>1. Len(list) \in Nat /\ Len(list) = n
    BY <1>1, <1>3
  <2> HIDE DEF Fits
  <2> QED
    BY <1>6, <1>7, <2>1, EachKeeps
<1>9. PICK r : r = Each(deeper, s, list)
  OBVIOUS
<1>10. r \in SchemaSpace /\ Fits(n, r)
  BY <1>5, <1>8, <1>9
<1>11. Trail(s, Leads(t), r)
  BY <1>4, <1>10
<1>12. ASSUME r.err = "nil"
       PROVE  \E W : {t} \subseteq W /\ Walked(W, s, r)
  <2>1. PICK W : Leads(t) \subseteq W /\ Walked(W, s, r)
    BY <1>11, <1>12 DEF Trail
  <2>2. Walked(W \cup {t}, s, r)
    BY <2>1 DEF Walked
  <2> QED
    BY <2>2
<1>13. Trail(s, {t}, r)
  BY <1>11, <1>12 DEF Trail
<1>14. Enters(entries, left, s, t, r)
  BY <1>10, <1>13 DEF Enters
<1> QED
  BY <1>1, <1>9, <1>14

LEMMA StructsAre ==
    ASSUME NEW entries, Candidate(entries)
    PROVE  /\ Structs(entries) \subseteq TypesOf(entries)
           /\ Structs(entries) \subseteq DOMAIN host.types /\ IsFiniteSet(Structs(entries))
           /\ Cardinality(Structs(entries)) \in Nat
           /\ \A t \in TypesOf(entries) : Type(t).kind = "struct" <=> t \in Structs(entries)
           /\ \A t \in Structs(entries) : Type(t).kind = "struct"
<1>1. /\ Structs(entries) \subseteq TypesOf(entries)
      /\ \A t \in TypesOf(entries) : Type(t).kind = "struct" <=> t \in Structs(entries)
      /\ \A t \in Structs(entries) : Type(t).kind = "struct"
  BY DEF Structs
<1>2. TypesOf(entries) \subseteq DOMAIN host.types
  BY TypesReached
<1>3. IsFiniteSet(DOMAIN host.types)
  BY HostsAssumption DEF Candidate
<1> QED
  BY <1>1, <1>2, <1>3, FS_Subset, FS_CardinalityType

LEMMA NativesCount ==
    ASSUME NEW entries, Candidate(entries), NEW s \in SchemaSpace, Sound(entries, s),
           NEW t \in Structs(entries), t \notin s.natives
    PROVE  /\ Cardinality(s.natives) \in Nat
           /\ Cardinality(s.natives \cup {t}) = Cardinality(s.natives) + 1
           /\ Cardinality(s.natives) + 1 <= Cardinality(Structs(entries))
<1>1. s.natives \subseteq Structs(entries) /\ IsFiniteSet(Structs(entries))
  BY StructsAre DEF Sound
<1>2. IsFiniteSet(s.natives)
  BY <1>1, FS_Subset
<1>3. Cardinality(s.natives \cup {t}) = Cardinality(s.natives) + 1 /\ Cardinality(s.natives) \in Nat
  BY <1>2, FS_AddElement, FS_CardinalityType
<1>4. s.natives \cup {t} \subseteq Structs(entries)
  BY <1>1
<1>5. Cardinality(s.natives \cup {t}) <= Cardinality(Structs(entries))
  BY <1>1, <1>4, FS_Subset
<1> QED
  BY <1>3, <1>5

LEMMA StructEntered ==
    ASSUME NEW entries, Candidate(entries), NEW t \in Structs(entries),
           NEW s \in SchemaSpace, Sound(entries, s), s.err = "nil", t \notin s.natives,
           ~(Cardinality(s.natives) >= MaxNatives), ~(Len(Type(t).fields) > MaxFields),
           ~Conflict(s, Type(t).name, "native"),
           NEW r, r = [s EXCEPT !.natives = @ \cup {t}]
    PROVE  /\ Good(entries, r) /\ r.err = "nil" /\ r.natives = s.natives \cup {t}
           /\ r.files = s.files /\ r.protoNames = s.protoNames
<1>1. t \in DOMAIN host.types /\ Type(t).kind = "struct" /\ host \in Hosts
  BY StructsAre DEF Candidate
<1>2. /\ r \in SchemaSpace /\ r.err = "nil" /\ r.natives = s.natives \cup {t}
      /\ r.files = s.files /\ r.protoNames = s.protoNames
  BY <1>1 DEF SchemaSpace
<1>3. NamesApart(r)
  <2>1. Type(t).name \notin s.protoNames /\ \A u \in s.natives : Type(u).name # Type(t).name
    BY DEF Conflict
  <2>2. NamesApart(s)
    BY DEF Sound
  <2> QED
    BY <1>2, <2>1, <2>2 DEF NamesApart
<1>4. WithinLimits(r)
  <2>1. MaxNatives \in Nat /\ MaxFields \in Nat
    BY LimitsAssumption
  <2>2. Cardinality(r.natives) <= MaxNatives
    BY <1>2, <2>1, NativesCount
  <2>3. Type(t).fields \in Seq(FieldSpace(host.types))
    BY <1>1, TypeIs
  <2>4. Len(Type(t).fields) <= MaxFields
    BY <2>1, <2>3
  <2> QED
    BY <1>2, <2>2, <2>4 DEF Sound, WithinLimits
<1>5. Sound(entries, r)
  BY <1>2, <1>3, <1>4 DEF Sound
<1> QED
  BY <1>2, <1>5 DEF Good

LEMMA LimitReason ==
    ASSUME NEW entries, Candidate(entries), NEW t \in Structs(entries),
           NEW s \in SchemaSpace, Sound(entries, s), t \notin s.natives,
           Cardinality(s.natives) >= MaxNatives \/ Len(Type(t).fields) > MaxFields
    PROVE  Reason(entries, "limit")
<1>1. TooLarge(entries)
  <2>1. MaxNatives \in Nat
    BY LimitsAssumption
  <2>2. CASE Cardinality(s.natives) >= MaxNatives
    <3>1. /\ Cardinality(s.natives) \in Nat /\ Cardinality(Structs(entries)) \in Nat
          /\ Cardinality(s.natives) + 1 <= Cardinality(Structs(entries))
      BY NativesCount, StructsAre
    <3>2. Cardinality(Structs(entries)) > MaxNatives
      BY <2>1, <2>2, <3>1
    <3> QED
      BY <3>2 DEF TooLarge
  <2>3. CASE Len(Type(t).fields) > MaxFields
    BY <2>3 DEF TooLarge
  <2> QED
    BY <2>2, <2>3
<1> QED
  BY <1>1 DEF Reason

LEMMA MessagesAre ==
    ASSUME NEW entries, NEW s, Sound(entries, s)
    PROVE  s.protoNames \subseteq Messages(entries)
  BY DEF Sound, MessagesOf, Messages

LEMMA ConflictReason ==
    ASSUME NEW entries, Candidate(entries), NEW t \in Structs(entries),
           NEW s \in SchemaSpace, Sound(entries, s), t \notin s.natives,
           Conflict(s, Type(t).name, "native")
    PROVE  Reason(entries, "conflict")
<1>1. CASE Type(t).name \in s.protoNames
  <2>1. Type(t).name \in Messages(entries)
    BY <1>1, MessagesAre
  <2> QED
    BY <2>1 DEF Ambiguous, Reason
<1>2. CASE \E u \in s.natives : Type(u).name = Type(t).name
  <2>1. PICK u \in s.natives : Type(u).name = Type(t).name
    BY <1>2
  <2>2. u \in Structs(entries) /\ u # t
    BY DEF Sound
  <2> QED
    BY <2>1, <2>2 DEF Ambiguous, Reason
<1> QED
  BY <1>1, <1>2 DEF Conflict

LEMMA FieldIs ==
    ASSUME NEW deeper, NEW t, NEW acc \in SchemaSpace, NEW i \in DOMAIN Type(t).fields
    PROVE  Field(deeper, t)[acc][i] =
              IF Type(t).fields[i].embedded THEN Refuse(acc, "field")
              ELSE IF ~Exposed(Type(t).fields[i]) THEN acc
              ELSE IF BadField(Type(t).fields, i) THEN Refuse(acc, "field")
              ELSE deeper[acc][Type(t).fields[i].type]
  BY DEF Field

(* The fields of a struct that the schema has entered. *)
LEMMA FieldsWalk ==
    ASSUME NEW entries, Candidate(entries), NEW left \in 1 .. MaxNesting + 1,
           NEW deeper, Descends(entries, left - 1, deeper),
           NEW t \in Structs(entries), Type(t).fault = "none",
           NEW s \in SchemaSpace, s.err = "nil", Good(entries, s),
           NEW r, r = Each(Field(deeper, t), s, [i \in DOMAIN Type(t).fields |-> i])
    PROVE  /\ Good(entries, r) /\ Trail(s, Leads(t), r)
           /\ r.err = "nil" => ~FieldsAreBad(t)
           /\ r.err = "depth" => t \in Nested[left]
<1>1. PICK fields : fields = Type(t).fields
  OBVIOUS
<1>2. /\ t \in DOMAIN host.types /\ Leads(t) \subseteq TypesOf(entries) /\ host \in Hosts
      /\ Type(t).kind = "struct"
  BY TypesReached, StructsAre DEF Candidate
<1>3. fields \in Seq(FieldSpace(host.types))
  BY <1>1, <1>2, TypeIs
<1>4. PICK n : n = Len(fields) /\ n \in Nat /\ DOMAIN fields = 1 .. n
  BY <1>3
<1>5. PICK list : list = [i \in DOMAIN fields |-> i]
  OBVIOUS
<1>6. Len(list) = n /\ \A i \in 1 .. n : list[i] = i
  BY <1>4, <1>5
<1> DEFINE Seen(i) == {fields[j].type : j \in {k \in 1 .. i : Exposed(fields[k])}}
           Fine(j) == ~(fields[j].embedded \/ (Exposed(fields[j]) /\ BadField(fields, j)))
<1>7. Leads(t) = Seen(n)
  BY <1>1, <1>2, <1>4 DEF Leads
<1>a. /\ Seen(0) = {}
      /\ \A i \in 1 .. n : Seen(i) = IF Exposed(fields[i]) THEN Seen(i - 1) \cup {fields[i].type}
                                   ELSE Seen(i - 1)
  <2>1. \A i \in 1 .. n : 1 .. i = (1 .. i - 1) \cup {i}
    BY <1>4
  <2>2. 1 .. 0 = {}
    OBVIOUS
  <2> QED
    BY <2>1, <2>2
<1>b. \A i \in 1 .. n : Exposed(fields[i]) => fields[i].type \in Seen(n)
  OBVIOUS
<1> HIDE DEF Seen
<1>8. FieldsAreBad(t) <=> \E j \in 1 .. n : ~Fine(j)
  BY <1>1, <1>4 DEF FieldsAreBad
<1> DEFINE Fits(i, acc) ==
             /\ Good(entries, acc) /\ Trail(s, Seen(i), acc)
             /\ acc.err = "nil" => \A j \in 1 .. i : Fine(j)
             /\ acc.err = "depth" => t \in Nested[left]
           P == {p \in Nat \X SchemaSpace : Fits(p[1], p[2])}
<1>9. \A i, acc : <<i, acc>> \in P <=> i \in Nat /\ acc \in SchemaSpace /\ Fits(i, acc)
  OBVIOUS
<1> HIDE DEF P, Fine
<1>10. <<0, s>> \in P
  <2>2. Fits(0, s)
    BY <1>a, TrailStays
  <2> QED
    BY <1>9, <2>2
<1>11. ASSUME NEW i \in 1 .. n, NEW acc, <<i - 1, acc>> \in P
       PROVE  <<i, Once(Field(deeper, t), acc, list[i])>> \in P
  <2>1. Fits(i - 1, acc) /\ acc \in SchemaSpace /\ i \in Nat
    BY <1>9, <1>11
  <2>2. 1 .. i = (1 .. i - 1) \cup {i}
    BY <1>4
  <2>3. CASE acc.err # "nil"
    <3>1. Trail(s, Seen(i), acc)
      BY <2>1, <2>3, TrailEnds
    <3>2. Once(Field(deeper, t), acc, list[i]) = acc
      BY <2>3 DEF Once
    <3> QED
      BY <1>9, <2>1, <2>3, <3>1, <3>2
  <2>4. CASE acc.err = "nil"
    <3>0. PICK b : b = Once(Field(deeper, t), acc, list[i])
      OBVIOUS
    <3>1. b = Field(deeper, t)[acc][i]
      BY <1>6, <2>4, <3>0 DEF Once
    <3>2. b = IF fields[i].embedded THEN Refuse(acc, "field")
              ELSE IF ~Exposed(fields[i]) THEN acc
              ELSE IF BadField(fields, i) THEN Refuse(acc, "field")
              ELSE deeper[acc][fields[i].type]
      BY <1>1, <1>4, <2>1, <3>1, FieldIs
    <3>2a. /\ ~Fine(i) => b = Refuse(acc, "field")
           /\ Fine(i) /\ ~Exposed(fields[i]) => b = acc
           /\ Fine(i) /\ Exposed(fields[i]) => b = deeper[acc][fields[i].type]
      BY Zenon, <3>2 DEF Fine
    <3>3. CASE ~Fine(i)
      <4>1. b = Refuse(acc, "field") /\ "field" \in SchemaErrors
        BY <3>2a, <3>3 DEF SchemaErrors
      <4>2. Reason(entries, "field")
        BY <1>8, <3>3 DEF Reason
      <4>3. Good(entries, b) /\ Trail(acc, {}, b) /\ b \in SchemaSpace /\ b.err = "field"
        BY <2>1, <4>1, <4>2, RefusedGood, RefusedTrail, RefuseIs
      <4>4. Trail(s, Seen(i - 1) \cup {}, b)
        BY <2>1, <2>4, <4>3, TrailOn
      <4>5. Trail(s, Seen(i), b)
        BY <4>3, <4>4, TrailEnds
      <4> QED
        BY <1>9, <2>1, <3>0, <4>3, <4>5
    <3>4. CASE Fine(i) /\ ~Exposed(fields[i])
      <4>1. b = acc
        BY <3>2a, <3>4
      <4>2. Seen(i) = Seen(i - 1)
        BY <1>a, <3>4
      <4>3. \A j \in 1 .. i : Fine(j)
        BY <2>1, <2>2, <2>4, <3>4
      <4> QED
        BY <1>9, <2>1, <3>0, <4>1, <4>2, <4>3
    <3>5. CASE Fine(i) /\ Exposed(fields[i])
      <4>1. PICK u : u = fields[i].type
        OBVIOUS
      <4>2. b = deeper[acc][u] /\ Seen(i) = Seen(i - 1) \cup {u}
        BY <1>a, <3>2a, <3>5, <4>1
      <4>3. u \in Leads(t) /\ u \in TypesOf(entries)
        BY <1>2, <1>7, <1>b, <3>5, <4>1
      <4>4. Enters(entries, left - 1, acc, u, b)
        BY <2>1, <2>4, <4>2, <4>3 DEF Descends
      <4>5. Good(entries, b) /\ b \in SchemaSpace /\ Trail(acc, {u}, b)
        BY <4>4 DEF Enters, Good
      <4>6. Trail(s, Seen(i), b)
        BY <2>1, <2>4, <4>2, <4>5, TrailOn
      <4>7. b.err = "depth" => t \in Nested[left]
        BY <1>2, <4>3, <4>4, NestedStep DEF Enters
      <4>8. \A j \in 1 .. i : Fine(j)
        BY <2>1, <2>2, <2>4, <3>5
      <4> QED
        BY <1>9, <2>1, <3>0, <4>5, <4>6, <4>7, <4>8
    <3> QED
      BY <3>3, <3>4, <3>5
  <2> QED
    BY <2>3, <2>4
<1>12. <<n, Each(Field(deeper, t), s, list)>> \in P
  <2>1. Len(list) \in Nat
    BY <1>4, <1>6
  <2> HIDE DEF Fits
  <2> QED
    BY <1>6, <1>10, <1>11, <2>1, EachKeeps
<1>13. Fits(n, r)
  BY <1>1, <1>5, <1>9, <1>12
<1> QED
  BY <1>7, <1>8, <1>13

LEMMA RefusedEnters ==
    ASSUME NEW entries, NEW left, NEW s \in SchemaSpace, NEW t, NEW err \in SchemaErrors,
           err # "nil", err # "depth", Reason(entries, err)
    PROVE  Enters(entries, left, s, t, Refuse(s, err))
<1>1. Good(entries, Refuse(s, err)) /\ Trail(s, {t}, Refuse(s, err))
  BY RefusedGood, RefusedTrail
<1>2. Refuse(s, err).err # "depth"
  BY RefuseIs
<1> QED
  BY <1>1, <1>2 DEF Enters

LEMMA StructWalk ==
    ASSUME NEW entries, Candidate(entries), NEW left \in 1 .. MaxNesting + 1,
           NEW deeper, Descends(entries, left - 1, deeper),
           NEW t \in Structs(entries), Type(t).fault = "none",
           NEW s \in SchemaSpace, s.err = "nil", Good(entries, s), t \notin s.natives,
           ~(Cardinality(s.natives) >= MaxNatives), ~(Len(Type(t).fields) > MaxFields),
           ~Conflict(s, Type(t).name, "native")
    PROVE  Enters(entries, left, s, t,
                  Each(Field(deeper, t), [s EXCEPT !.natives = @ \cup {t}],
                       [i \in DOMAIN Type(t).fields |-> i]))
<1>1. PICK a : a = [s EXCEPT !.natives = @ \cup {t}]
  OBVIOUS
<1>2. PICK r : r = Each(Field(deeper, t), a, [i \in DOMAIN Type(t).fields |-> i])
  OBVIOUS
<1>3. Sound(entries, s)
  BY DEF Good
<1>4. /\ Good(entries, a) /\ a.err = "nil" /\ a.natives = s.natives \cup {t}
      /\ a.files = s.files /\ a.protoNames = s.protoNames
  BY <1>1, <1>3, StructEntered
<1>5. a \in SchemaSpace
  BY <1>4 DEF Good
<1>6. /\ Good(entries, r) /\ Trail(a, Leads(t), r)
      /\ r.err = "nil" => ~FieldsAreBad(t)
      /\ r.err = "depth" => t \in Nested[left]
  BY <1>2, <1>4, <1>5, FieldsWalk
<1>7. Trail(s, {t}, r)
  <2>1. r.files = s.files /\ r.protoNames = s.protoNames /\ s.natives \subseteq r.natives
        /\ t \in r.natives
    BY <1>4, <1>6 DEF Trail
  <2>2. ASSUME r.err = "nil"
        PROVE  \E W : {t} \subseteq W /\ Walked(W, s, r)
    <3>1. PICK W : Leads(t) \subseteq W /\ Walked(W, a, r)
      BY <1>6, <2>2 DEF Trail
    <3>2. ~FieldsAreBad(t)
      BY <1>6, <2>2
    <3>3. Walked(W \cup {t}, s, r)
      BY <1>4, <2>1, <3>1, <3>2 DEF Walked
    <3> QED
      BY <3>3
  <2> QED
    BY <2>1, <2>2 DEF Trail
<1>8. Enters(entries, left, s, t, r)
  BY <1>6, <1>7 DEF Enters
<1> QED
  BY <1>1, <1>2, <1>8

LEMMA WalkEnters ==
    ASSUME NEW entries, Candidate(entries), NEW left \in 1 .. MaxNesting + 1,
           NEW deeper, Descends(entries, left - 1, deeper),
           NEW t \in TypesOf(entries), NEW s \in SchemaSpace, s.err = "nil", Good(entries, s)
    PROVE  Enters(entries, left, s, t, Walk(left, deeper)[s][t])
<1>0. t \in DOMAIN host.types /\ host \in Hosts /\ left # 0 /\ Sound(entries, s)
  <2>1. MaxNesting \in Nat
    BY LimitsAssumption
  <2> QED
    BY <2>1, TypesReached DEF Candidate, Good
<1>1. PICK r : r = Walk(left, deeper)[s][t]
  OBVIOUS
<1>a. r = IF left = 0 THEN Refuse(s, "depth")
          ELSE IF Type(t).fault # "none" THEN Refuse(s, "fault")
          ELSE IF Type(t).kind # "struct" THEN Each(deeper, s, Type(t).elements)
          ELSE IF t \in s.natives THEN s
          ELSE IF Cardinality(s.natives) >= MaxNatives \/ Len(Type(t).fields) > MaxFields
               THEN Refuse(s, "limit")
          ELSE IF Conflict(s, Type(t).name, "native") THEN Refuse(s, "conflict")
          ELSE Each(Field(deeper, t), [s EXCEPT !.natives = @ \cup {t}],
                    [i \in DOMAIN Type(t).fields |-> i])
  BY <1>0, <1>1 DEF Walk
<1>2. {"fault", "limit", "conflict"} \subseteq SchemaErrors
  BY DEF SchemaErrors
<1>3. CASE Type(t).fault # "none"
  <2>1. r = Refuse(s, "fault")
    BY Zenon, <1>0, <1>3, <1>a
  <2>2. Type(t).fault = "fault"
    BY <1>0, <1>3, TypeIs
  <2>3. Reason(entries, "fault")
    BY <2>2 DEF Reason
  <2> QED
    BY <1>1, <1>2, <2>1, <2>3, RefusedEnters
<1>4. CASE Type(t).fault = "none" /\ Type(t).kind # "struct"
  <2>1. r = Each(deeper, s, Type(t).elements)
    BY Zenon, <1>0, <1>4, <1>a
  <2> QED
    BY <1>1, <1>4, <2>1, ElementsWalk
<1>5. CASE Type(t).fault = "none" /\ Type(t).kind = "struct" /\ t \in s.natives
  <2>1. r = s
    BY Zenon, <1>0, <1>5, <1>a
  <2>2. Walked({t}, s, s)
    BY <1>5 DEF Walked
  <2>3. Trail(s, {t}, s)
    BY <2>2 DEF Trail
  <2> QED
    BY <1>1, <2>1, <2>3 DEF Enters
<1>6. CASE Type(t).fault = "none" /\ Type(t).kind = "struct" /\ t \notin s.natives
  <2>0. t \in Structs(entries)
    BY <1>6, StructsAre
  <2>1. CASE Cardinality(s.natives) >= MaxNatives \/ Len(Type(t).fields) > MaxFields
    <3>1. r = Refuse(s, "limit")
      BY Zenon, <1>0, <1>6, <1>a, <2>1
    <3>2. Reason(entries, "limit")
      BY <1>0, <1>6, <2>0, <2>1, LimitReason
    <3> QED
      BY <1>1, <1>2, <3>1, <3>2, RefusedEnters
  <2>2. CASE /\ ~(Cardinality(s.natives) >= MaxNatives) /\ ~(Len(Type(t).fields) > MaxFields)
             /\ Conflict(s, Type(t).name, "native")
    <3>1. r = Refuse(s, "conflict")
      BY Zenon, <1>0, <1>6, <1>a, <2>2
    <3>2. Reason(entries, "conflict")
      BY <1>0, <1>6, <2>0, <2>2, ConflictReason
    <3> QED
      BY <1>1, <1>2, <3>1, <3>2, RefusedEnters
  <2>3. CASE /\ ~(Cardinality(s.natives) >= MaxNatives) /\ ~(Len(Type(t).fields) > MaxFields)
             /\ ~Conflict(s, Type(t).name, "native")
    <3>1. r = Each(Field(deeper, t), [s EXCEPT !.natives = @ \cup {t}],
                   [i \in DOMAIN Type(t).fields |-> i])
      BY Zenon, <1>0, <1>6, <1>a, <2>3
    <3>2. Enters(entries, left, s, t,
                 Each(Field(deeper, t), [s EXCEPT !.natives = @ \cup {t}],
                      [i \in DOMAIN Type(t).fields |-> i]))
      BY <1>6, <2>0, <2>3, StructWalk
    <3> QED
      BY <1>1, <3>1, <3>2
  <2> QED
    BY <2>1, <2>2, <2>3
<1> QED
  BY <1>3, <1>4, <1>5, <1>6

LEMMA WalkEnds ==
    ASSUME NEW entries, Candidate(entries), NEW deeper
    PROVE  Descends(entries, 0, Walk(0, deeper))
<1> SUFFICES ASSUME NEW s \in SchemaSpace, NEW t \in TypesOf(entries), s.err = "nil"
             PROVE  Enters(entries, 0, s, t, Walk(0, deeper)[s][t])
  BY DEF Descends
<1>1. t \in DOMAIN host.types
  BY TypesReached
<1>2. PICK r : r = Walk(0, deeper)[s][t]
  OBVIOUS
<1>3. r = Refuse(s, "depth")
  BY <1>1, <1>2 DEF Walk
<1>4. "depth" \in SchemaErrors
  BY DEF SchemaErrors
<1>5. Good(entries, r) /\ Trail(s, {t}, r)
  BY <1>3, <1>4, RefusedGood, RefusedTrail
<1>6. MaxNesting + 1 \in Nat
  BY LimitsAssumption
<1>7. 0 \in 0 .. MaxNesting + 1
  BY <1>6
<1>8. Nested[0] = Nest(0, Nested[0 - 1])
  BY <1>7, NestIs
<1>9. t \in Nested[0]
  BY <1>1, <1>8 DEF Nest
<1> QED
  BY <1>2, <1>5, <1>9 DEF Enters

LEMMA NativeDescends ==
    ASSUME NEW entries, Candidate(entries)
    PROVE  \A left \in 0 .. MaxNesting + 1 : Descends(entries, left, native[left])
<1> DEFINE Bad == {n \in 0 .. MaxNesting + 1 : ~Descends(entries, n, native[n])}
<1> SUFFICES ASSUME Bad # {} PROVE FALSE
  OBVIOUS
<1>0. MaxNesting + 1 \in Nat
  BY LimitsAssumption
<1>1. Bad \subseteq Nat
  OBVIOUS
<1>2. PICK n \in Bad : \A m \in Bad : n <= m
  BY <1>1, LeastElement
<1>3. native[n] = Walk(n, native[n - 1])
  BY WalkIs
<1>4. CASE n = 0
  <2>1. Descends(entries, 0, Walk(0, native[n - 1]))
    BY WalkEnds
  <2> QED
    BY <1>2, <1>3, <1>4, <2>1
<1>5. CASE n # 0
  <2>1. n \in 1 .. MaxNesting + 1 /\ n - 1 \in 0 .. MaxNesting + 1 /\ n - 1 \notin Bad
    BY <1>0, <1>2, <1>5
  <2>2. PICK deeper : deeper = native[n - 1]
    OBVIOUS
  <2>3. Descends(entries, n - 1, deeper)
    BY <2>1, <2>2
  <2>4. Descends(entries, n, Walk(n, deeper))
    <3>1. ASSUME NEW s \in SchemaSpace, NEW t \in TypesOf(entries), s.err = "nil", Good(entries, s)
          PROVE  Enters(entries, n, s, t, Walk(n, deeper)[s][t])
      BY <2>1, <2>3, <3>1, WalkEnters
    <3> QED
      BY <3>1 DEF Descends
  <2> QED
    BY <1>2, <1>3, <2>2, <2>4
<1> QED
  BY <1>4, <1>5

-----------------------------------------------------------------------------
(* The same for files: an import that is new has its own imports there     *)
(* when the walk is done.                                                  *)
Followed(s, seen, r) ==
    /\ r.natives = s.natives /\ s.files \subseteq r.files /\ r.err # "depth"
    /\ r.err = "nil" => /\ seen \subseteq r.files
                        /\ \A g \in r.files \ s.files : Imports(g) \subseteq r.files

LEMMA FollowedOn ==
    ASSUME NEW s, NEW a, NEW b, NEW S, NEW R, a.err = "nil", Followed(s, S, a), Followed(a, R, b)
    PROVE  Followed(s, S \cup R, b)
  BY DEF Followed

LEMMA FollowedEnds ==
    ASSUME NEW s, NEW r, NEW S, NEW R, Followed(s, S, r), r.err # "nil"
    PROVE  Followed(s, R, r)
  BY DEF Followed

LEMMA FilesAre ==
    ASSUME NEW entries, Candidate(entries)
    PROVE  /\ FilesOf(entries) \subseteq DOMAIN host.files /\ IsFiniteSet(FilesOf(entries))
           /\ Cardinality(FilesOf(entries)) \in Nat
<1>1. FilesOf(entries) \subseteq DOMAIN host.files
  BY FilesReached
<1>2. IsFiniteSet(DOMAIN host.files)
  BY HostsAssumption DEF Candidate
<1> QED
  BY <1>1, <1>2, FS_Subset, FS_CardinalityType

LEMMA FilesCount ==
    ASSUME NEW entries, Candidate(entries), NEW files, files \subseteq FilesOf(entries),
           NEW f \in FilesOf(entries), f \notin files
    PROVE  /\ Cardinality(files) \in Nat /\ Cardinality(files \cup {f}) = Cardinality(files) + 1
           /\ Cardinality(files) + 1 <= Cardinality(FilesOf(entries))
<1>1. IsFiniteSet(FilesOf(entries)) /\ IsFiniteSet(files)
  BY FilesAre, FS_Subset
<1>2. Cardinality(files \cup {f}) = Cardinality(files) + 1 /\ Cardinality(files) \in Nat
  BY <1>1, FS_AddElement, FS_CardinalityType
<1>3. files \cup {f} \subseteq FilesOf(entries)
  OBVIOUS
<1>4. Cardinality(files \cup {f}) <= Cardinality(FilesOf(entries))
  BY <1>1, <1>3, FS_Subset
<1> QED
  BY <1>2, <1>4

LEMMA MessageIs ==
    ASSUME NEW acc \in SchemaSpace, NEW name \in STRING
    PROVE  message[acc][name] = Message(acc, name)
  BY DEF message

LEMMA MessageAdds ==
    ASSUME NEW acc \in SchemaSpace, acc.err = "nil", NEW name \in STRING,
           NEW r, r = Message(acc, name)
    PROVE  /\ r \in SchemaSpace /\ r.natives = acc.natives /\ r.files = acc.files
           /\ \/ r.err = "dynamic" /\ name \in Dynamic
              \/ r.err = "conflict" /\ Conflict(acc, name, "proto")
              \/ /\ r.err = "nil" /\ r.protoNames = acc.protoNames \cup {name}
                 /\ name \notin Dynamic /\ ~Conflict(acc, name, "proto")
<1>1. "dynamic" \in SchemaErrors /\ "conflict" \in SchemaErrors
  BY DEF SchemaErrors
<1>2. CASE name \in Dynamic
  BY <1>1, <1>2, RefuseIs DEF Message
<1>3. CASE name \notin Dynamic /\ Conflict(acc, name, "proto")
  BY <1>1, <1>3, RefuseIs DEF Message
<1>4. CASE name \notin Dynamic /\ ~Conflict(acc, name, "proto")
  <2>1. r = [acc EXCEPT !.protoNames = @ \cup {name}]
    BY <1>4 DEF Message
  <2>2. /\ r \in SchemaSpace /\ r.natives = acc.natives /\ r.files = acc.files
        /\ r.err = "nil" /\ r.protoNames = acc.protoNames \cup {name}
    BY <2>1 DEF SchemaSpace
  <2> QED
    BY <1>4, <2>2
<1> QED
  BY <1>2, <1>3, <1>4

LEMMA DynamicReason ==
    ASSUME NEW entries, NEW f \in FilesOf(entries), NEW name \in Range(host.files[f].messages),
           name \in Dynamic
    PROVE  Reason(entries, "dynamic")
<1>1. name \in Messages(entries)
  BY DEF Messages
<1> QED
  BY <1>1 DEF Reason

LEMMA MessageReason ==
    ASSUME NEW entries, NEW f \in FilesOf(entries), NEW name \in Range(host.files[f].messages),
           NEW s, Sound(entries, s), f \notin s.files,
           name \in s.protoNames \cup {Type(t).name : t \in s.natives}
    PROVE  Reason(entries, "conflict")
<1>1. Ambiguous(entries)
  <2>1. CASE name \in s.protoNames
    <3>1. PICK g \in s.files : name \in Range(host.files[g].messages)
      BY <2>1 DEF Sound, MessagesOf
    <3>2. g \in FilesOf(entries) /\ g # f
      BY DEF Sound
    <3> QED
      BY <3>1, <3>2 DEF Ambiguous
  <2>2. CASE \E t \in s.natives : Type(t).name = name
    <3>1. name \in Messages(entries)
      BY DEF Messages
    <3>2. s.natives \subseteq Structs(entries)
      BY DEF Sound
    <3> QED
      BY <2>2, <3>1, <3>2 DEF Ambiguous
  <2> QED
    BY <2>1, <2>2
<1> QED
  BY <1>1 DEF Reason

(* The names that a message must not have. *)
Taken(s) == s.protoNames \cup {Type(t).name : t \in s.natives} \cup Dynamic

(* The messages of a file that the schema has entered. *)
LEMMA MessagesWalk ==
    ASSUME NEW entries, Candidate(entries), NEW f \in FilesOf(entries),
           NEW s \in SchemaSpace, Sound(entries, s), s.err = "nil", f \notin s.files,
           NEW a, a = [s EXCEPT !.files = @ \cup {f}],
           NEW r, r = Each(message, a, host.files[f].messages)
    PROVE  /\ r \in SchemaSpace /\ r.natives = s.natives /\ r.files = s.files \cup {f}
           /\ \/ r.err \notin {"nil", "depth"} /\ Reason(entries, r.err)
              \/ /\ r.err = "nil"
                 /\ r.protoNames = s.protoNames \cup Range(host.files[f].messages)
                 /\ \A name \in Range(host.files[f].messages) :
                       name \notin Taken(s)
<1>1. PICK names, n : names = host.files[f].messages /\ n = Len(names)
  OBVIOUS
<1>2. f \in DOMAIN host.files /\ host \in Hosts
  BY FilesAre DEF Candidate
<1>3. /\ names \in Seq(STRING) /\ n \in Nat
      /\ \A i, j \in DOMAIN names : names[i] = names[j] => i = j
  BY <1>1, <1>2, FileIs
<1>4. DOMAIN names = 1 .. n /\ Range(names) = {names[i] : i \in 1 .. n}
  BY <1>1, <1>3, RangeIs
<1>5. /\ a \in SchemaSpace /\ a.natives = s.natives /\ a.files = s.files \cup {f}
      /\ a.protoNames = s.protoNames /\ a.err = "nil"
  BY <1>2 DEF SchemaSpace
<1> DEFINE First(i) == {names[j] : j \in 1 .. i}
           Fits(i, acc) ==
             /\ acc.natives = s.natives /\ acc.files = s.files \cup {f}
             /\ \/ acc.err \notin {"nil", "depth"} /\ Reason(entries, acc.err)
                \/ /\ acc.err = "nil" /\ acc.protoNames = s.protoNames \cup First(i)
                   /\ \A name \in First(i) : name \notin Taken(s)
           P == {p \in Nat \X SchemaSpace : Fits(p[1], p[2])}
<1>6. \A i, acc : <<i, acc>> \in P <=> i \in Nat /\ acc \in SchemaSpace /\ Fits(i, acc)
  OBVIOUS
<1>7. /\ First(0) = {} /\ First(n) = Range(names)
      /\ \A i \in 1 .. n : First(i) = First(i - 1) \cup {names[i]} /\ names[i] \notin First(i - 1)
  <2>1. \A i \in 1 .. n : 1 .. i = (1 .. i - 1) \cup {i}
    BY <1>3
  <2>2. 1 .. 0 = {}
    OBVIOUS
  <2>3. ASSUME NEW i \in 1 .. n, NEW j \in 1 .. i - 1
        PROVE  names[i] # names[j]
    BY <1>3, <1>4
  <2> QED
    BY <1>4, <2>1, <2>2, <2>3
<1> HIDE DEF P, First
<1>8. <<0, a>> \in P
  <2>1. Fits(0, a)
    BY <1>5, <1>7
  <2>2. a \in SchemaSpace /\ 0 \in Nat
    BY <1>5
  <2> HIDE DEF Fits
  <2> QED
    BY <1>6, <2>1, <2>2
<1>9. ASSUME NEW i \in 1 .. n, NEW acc, <<i - 1, acc>> \in P
      PROVE  <<i, Once(message, acc, names[i])>> \in P
  <2>1. Fits(i - 1, acc) /\ acc \in SchemaSpace /\ i \in Nat
    BY <1>6, <1>9
  <2>2. CASE acc.err # "nil"
    <3>1. Once(message, acc, names[i]) = acc
      BY <2>2 DEF Once
    <3> QED
      BY <1>6, <2>1, <2>2, <3>1
  <2>3. CASE acc.err = "nil"
    <3>0. PICK name : name = names[i]
      OBVIOUS
    <3>1. name \in STRING /\ name \in Range(names)
      BY <1>3, <1>4, <3>0, Element
    <3>2. PICK b : b = Message(acc, name)
      OBVIOUS
    <3>3. Once(message, acc, name) = b
      BY <2>1, <2>3, <3>1, <3>2, MessageIs DEF Once
    <3>4. /\ b \in SchemaSpace /\ b.natives = acc.natives /\ b.files = acc.files
          /\ \/ b.err = "dynamic" /\ name \in Dynamic
             \/ b.err = "conflict" /\ Conflict(acc, name, "proto")
             \/ /\ b.err = "nil" /\ b.protoNames = acc.protoNames \cup {name}
                /\ name \notin Dynamic /\ ~Conflict(acc, name, "proto")
      BY <2>1, <2>3, <3>1, <3>2, MessageAdds
    <3>5. name \notin First(i - 1) /\ First(i) = First(i - 1) \cup {name}
      BY <1>7, <3>0
    <3>6. Conflict(acc, name, "proto") <=> name \in s.protoNames \cup {Type(t).name : t \in s.natives}
      BY <2>1, <2>3, <3>5 DEF Conflict
    <3>7. CASE b.err = "dynamic" /\ name \in Dynamic
      <4>1. Reason(entries, "dynamic")
        BY <1>1, <3>1, <3>7, DynamicReason
      <4>2. Fits(i, b)
        BY <2>1, <3>4, <3>7, <4>1
      <4> QED
        BY <1>6, <2>1, <3>0, <3>3, <3>4, <4>2
    <3>8. CASE b.err = "conflict" /\ Conflict(acc, name, "proto")
      <4>1. Reason(entries, "conflict")
        BY <1>1, <3>1, <3>6, <3>8, MessageReason
      <4>2. Fits(i, b)
        BY <2>1, <3>4, <3>8, <4>1
      <4> QED
        BY <1>6, <2>1, <3>0, <3>3, <3>4, <4>2
    <3>9. CASE /\ b.err = "nil" /\ b.protoNames = acc.protoNames \cup {name}
               /\ name \notin Dynamic /\ ~Conflict(acc, name, "proto")
      <4>1. name \notin Taken(s)
        BY <3>6, <3>9 DEF Taken
      <4>2. Fits(i, b)
        BY <2>1, <2>3, <3>4, <3>5, <3>9, <4>1
      <4> QED
        BY <1>6, <2>1, <3>0, <3>3, <3>4, <4>2
    <3> QED
      BY <3>4, <3>7, <3>8, <3>9
  <2> QED
    BY <2>2, <2>3
<1>10. <<n, Each(message, a, names)>> \in P
  <2>1. Len(names) \in Nat /\ Len(names) = n
    BY <1>1, <1>3
  <2> HIDE DEF Fits
  <2> QED
    BY <1>8, <1>9, <2>1, EachKeeps
<1>11. r \in SchemaSpace /\ Fits(n, r)
  BY <1>1, <1>6, <1>10
<1>12. First(n) = Range(host.files[f].messages)
  BY <1>1, <1>7
<1> QED
  BY <1>11, <1>12

LEMMA FileEntered ==
    ASSUME NEW entries, Candidate(entries), NEW f \in FilesOf(entries),
           NEW s \in SchemaSpace, Sound(entries, s), f \notin s.files,
           \A g \in s.files : host.files[g].path # host.files[f].path,
           ~(Cardinality(s.files) >= MaxFiles),
           NEW r \in SchemaSpace, r.natives = s.natives, r.files = s.files \cup {f},
           r.protoNames = s.protoNames \cup Range(host.files[f].messages),
           \A name \in Range(host.files[f].messages) :
              name \notin Taken(s)
    PROVE  Sound(entries, r)
<1>1. /\ r.natives \subseteq Structs(entries) /\ r.files \subseteq FilesOf(entries)
      /\ r.protoNames \cap Dynamic = {}
  BY DEF Sound, Taken
<1>2. r.protoNames = MessagesOf(r.files)
  <2>1. MessagesOf(s.files \cup {f}) = MessagesOf(s.files) \cup Range(host.files[f].messages)
    BY DEF MessagesOf
  <2> QED
    BY <2>1 DEF Sound
<1>3. NamesApart(r)
  BY DEF Sound, NamesApart, Taken
<1>4. FilesApart(r.files)
  <2>1. FilesApart(s.files)
    BY DEF Sound
  <2>2. ASSUME NEW g \in s.files
        PROVE  Range(host.files[g].messages) \cap Range(host.files[f].messages) = {}
    <3>1. Range(host.files[g].messages) \subseteq s.protoNames
      BY DEF Sound, MessagesOf
    <3> QED
      BY <3>1 DEF Taken
  <2> QED
    BY <2>1, <2>2 DEF FilesApart
<1>5. WithinLimits(r)
  <2>1. Cardinality(s.files) \in Nat /\ Cardinality(s.files \cup {f}) = Cardinality(s.files) + 1
    BY FilesCount DEF Sound
  <2>2. MaxFiles \in Nat
    BY LimitsAssumption
  <2>3. Cardinality(r.files) <= MaxFiles
    BY <2>1, <2>2
  <2> QED
    BY <2>3 DEF Sound, WithinLimits
<1> QED
  BY <1>1, <1>2, <1>3, <1>4, <1>5 DEF Sound

(* What one level of addFile does to a schema that is still good, when the *)
(* levels that are left are no fewer than the files that are.              *)
Roomy(s, left) == Cardinality(s.files) + left >= MaxFiles
Reaches(entries, left, deeper) ==
    \A s \in SchemaSpace, f \in FilesOf(entries) :
        s.err = "nil" /\ Good(entries, s) /\ Roomy(s, left)
            => Good(entries, deeper[s][f]) /\ Followed(s, {f}, deeper[s][f])

LEMMA ImportsWalk ==
    ASSUME NEW entries, Candidate(entries), NEW left \in Nat, NEW deeper,
           Reaches(entries, left, deeper),
           NEW f \in FilesOf(entries), NEW s \in SchemaSpace, s.err = "nil", Good(entries, s),
           Roomy(s, left),
           NEW r, r = Each(deeper, s, host.files[f].imports)
    PROVE  Good(entries, r) /\ Followed(s, Imports(f), r)
<1>1. PICK n, list : list = host.files[f].imports /\ n = Len(list)
  OBVIOUS
<1>2. f \in DOMAIN host.files /\ Imports(f) \subseteq FilesOf(entries) /\ host \in Hosts
  BY FilesReached DEF Candidate
<1>3. list \in Seq(DOMAIN host.files) /\ n \in Nat
  BY <1>1, <1>2, FileIs
<1>4. Imports(f) = {list[i] : i \in 1 .. n}
  BY <1>1, <1>3, RangeIs DEF Imports
<1> DEFINE Seen(i) == {list[j] : j \in 1 .. i}
           Fits(i, acc) == Good(entries, acc) /\ Followed(s, Seen(i), acc)
           P == {p \in Nat \X SchemaSpace : Fits(p[1], p[2])}
<1>5. \A i, acc : <<i, acc>> \in P <=> i \in Nat /\ acc \in SchemaSpace /\ Fits(i, acc)
  OBVIOUS
<1>6. Seen(0) = {} /\ \A i \in 1 .. n : Seen(i) = Seen(i - 1) \cup {list[i]}
  <2>1. \A i \in 1 .. n : 1 .. i = (1 .. i - 1) \cup {i}
    BY <1>3
  <2>2. 1 .. 0 = {}
    OBVIOUS
  <2> QED
    BY <2>1, <2>2
<1>7. Imports(f) = Seen(n)
  BY <1>4
<1> HIDE DEF P, Seen
<1>8. <<0, s>> \in P
  <2>1. Followed(s, {}, s)
    BY DEF Followed
  <2> QED
    BY <1>5, <1>6, <2>1
<1>9. ASSUME NEW i \in 1 .. n, NEW acc, <<i - 1, acc>> \in P
      PROVE  <<i, Once(deeper, acc, list[i])>> \in P
  <2>1. Good(entries, acc) /\ Followed(s, Seen(i - 1), acc) /\ acc \in SchemaSpace /\ i \in Nat
    BY <1>5, <1>9
  <2>2. CASE acc.err # "nil"
    <3>1. Once(deeper, acc, list[i]) = acc
      BY <2>2 DEF Once
    <3>2. Followed(s, Seen(i), acc)
      BY <2>1, <2>2, FollowedEnds
    <3> QED
      BY <1>5, <2>1, <3>1, <3>2
  <2>3. CASE acc.err = "nil"
    <3>0. PICK g : g = list[i]
      OBVIOUS
    <3>1. g \in FilesOf(entries)
      BY <1>2, <1>4, <3>0
    <3>2. PICK b : b = deeper[acc][g]
      OBVIOUS
    <3>3. Once(deeper, acc, g) = b
      BY <2>3, <3>2 DEF Once
    <3>4. Roomy(acc, left)
      <4>1. s.files \subseteq acc.files /\ acc.files \subseteq FilesOf(entries)
        BY <2>1, <2>3 DEF Good, Sound, Followed
      <4>2. IsFiniteSet(acc.files) /\ IsFiniteSet(s.files)
        BY <4>1, FilesAre, FS_Subset
      <4>3. /\ Cardinality(s.files) <= Cardinality(acc.files)
            /\ Cardinality(s.files) \in Nat /\ Cardinality(acc.files) \in Nat
        BY <4>1, <4>2, FS_Subset, FS_CardinalityType
      <4>4. MaxFiles \in Nat
        BY LimitsAssumption
      <4> QED
        BY <4>3, <4>4 DEF Roomy
    <3>5. Good(entries, b) /\ Followed(acc, {g}, b)
      BY <2>1, <2>3, <3>1, <3>2, <3>4 DEF Reaches
    <3>6. b \in SchemaSpace
      BY <3>5 DEF Good
    <3>7. Followed(s, Seen(i), b)
      BY <1>6, <2>1, <2>3, <3>0, <3>5, FollowedOn
    <3> QED
      BY <1>5, <2>1, <3>0, <3>3, <3>5, <3>6, <3>7
  <2> QED
    BY <2>2, <2>3
<1>10. <<n, Each(deeper, s, list)>> \in P
  <2>1. Len(list) \in Nat /\ Len(list) = n
    BY <1>1, <1>3
  <2> HIDE DEF Fits
  <2> QED
    BY <1>8, <1>9, <2>1, EachKeeps
<1>11. Fits(n, r)
  BY <1>1, <1>5, <1>10
<1> QED
  BY <1>7, <1>11

LEMMA RefusedFile ==
    ASSUME NEW entries, NEW s \in SchemaSpace, NEW f, NEW err \in SchemaErrors,
           err # "nil", err # "depth", Reason(entries, err)
    PROVE  Good(entries, Refuse(s, err)) /\ Followed(s, {f}, Refuse(s, err))
<1>1. Good(entries, Refuse(s, err))
  BY RefusedGood
<1>2. Followed(s, {f}, Refuse(s, err))
  BY RefuseIs DEF Followed
<1> QED
  BY <1>1, <1>2

LEMMA FilesReason ==
    ASSUME NEW entries, NEW f \in FilesOf(entries), NEW s, Sound(entries, s), f \notin s.files,
           \E g \in s.files : host.files[g].path = host.files[f].path
    PROVE  Reason(entries, "files")
<1>1. PathsClash(entries)
  BY DEF PathsClash, Sound
<1> QED
  BY <1>1 DEF Reason

LEMMA FileLimitReason ==
    ASSUME NEW entries, Candidate(entries), NEW f \in FilesOf(entries),
           NEW s, Sound(entries, s), f \notin s.files,
           Cardinality(s.files) >= MaxFiles
    PROVE  Reason(entries, "limit")
<1>1. /\ Cardinality(s.files) \in Nat /\ Cardinality(FilesOf(entries)) \in Nat
      /\ Cardinality(s.files) + 1 <= Cardinality(FilesOf(entries))
  BY FilesCount, FilesAre DEF Sound
<1>2. MaxFiles \in Nat
  BY LimitsAssumption
<1>3. Cardinality(FilesOf(entries)) > MaxFiles
  BY <1>1, <1>2
<1>4. TooLarge(entries)
  BY <1>3 DEF TooLarge
<1> QED
  BY <1>4 DEF Reason

LEMMA FileWalk ==
    ASSUME NEW entries, Candidate(entries), NEW left \in Nat \ {0}, NEW deeper,
           Reaches(entries, left - 1, deeper),
           NEW f \in FilesOf(entries), NEW s \in SchemaSpace, s.err = "nil", Good(entries, s),
           Roomy(s, left), f \notin s.files,
           \A g \in s.files : host.files[g].path # host.files[f].path,
           ~(Cardinality(s.files) >= MaxFiles),
           NEW a, a = Each(message, [s EXCEPT !.files = @ \cup {f}], host.files[f].messages),
           NEW r, r = Each(deeper, a, host.files[f].imports)
    PROVE  Good(entries, r) /\ Followed(s, {f}, r)
<1>0. Sound(entries, s)
  BY DEF Good
<1>1. /\ a \in SchemaSpace /\ a.natives = s.natives /\ a.files = s.files \cup {f}
      /\ \/ a.err \notin {"nil", "depth"} /\ Reason(entries, a.err)
         \/ /\ a.err = "nil"
            /\ a.protoNames = s.protoNames \cup Range(host.files[f].messages)
            /\ \A name \in Range(host.files[f].messages) :
                  name \notin Taken(s)
  <2>1. PICK b : b = [s EXCEPT !.files = @ \cup {f}]
    OBVIOUS
  <2>2. a = Each(message, b, host.files[f].messages)
    BY <2>1
  <2> QED
    BY <1>0, <2>1, <2>2, MessagesWalk
<1>2. CASE a.err # "nil"
  <2>1. PICK n, list : list = host.files[f].imports /\ n = Len(list)
    OBVIOUS
  <2>2. n \in Nat
    BY <2>1, FileIs, FilesAre DEF Candidate
  <2> DEFINE P == {p \in Nat \X {a} : TRUE}
  <2>3. \A i, acc : <<i, acc>> \in P <=> i \in Nat /\ acc = a
    OBVIOUS
  <2> HIDE DEF P
  <2>4. ASSUME NEW i \in 1 .. n, NEW acc, <<i - 1, acc>> \in P
        PROVE  <<i, Once(deeper, acc, list[i])>> \in P
    <3>1. acc = a
      BY <2>3, <2>4
    <3>2. Once(deeper, acc, list[i]) = a
      BY <1>2, <3>1 DEF Once
    <3>3. i \in Nat
      BY <2>2
    <3> QED
      BY <2>3, <3>2, <3>3
  <2>5. <<n, Each(deeper, a, list)>> \in P
    <3>1. <<0, a>> \in P
      BY <2>3
    <3>2. Len(list) \in Nat /\ Len(list) = n
      BY <2>1, <2>2
    <3>3. \A i \in 1 .. Len(list) : \A acc :
             <<i - 1, acc>> \in P => <<i, Once(deeper, acc, list[i])>> \in P
      BY <2>4, <3>2
    <3> QED
      BY <3>1, <3>2, <3>3, EachKeeps, ZenonT(30)
  <2>6. r = a
    BY <2>1, <2>3, <2>5
  <2>7. Good(entries, a)
    BY <1>1, <1>2 DEF Good
  <2>8. Followed(s, {f}, a)
    BY <1>1, <1>2 DEF Followed
  <2> QED
    BY <2>6, <2>7, <2>8
<1>3. CASE a.err = "nil"
  <2>1. Sound(entries, a)
    BY <1>0, <1>1, <1>3, FileEntered
  <2>2. Good(entries, a)
    BY <1>1, <1>3, <2>1 DEF Good
  <2>3. Roomy(a, left - 1) /\ left - 1 \in Nat
    <3>0. s.files \subseteq FilesOf(entries)
      BY <1>0 DEF Sound
    <3>1. /\ Cardinality(s.files) \in Nat
          /\ Cardinality(s.files \cup {f}) = Cardinality(s.files) + 1
      BY <3>0, FilesCount
    <3>2. MaxFiles \in Nat
      BY LimitsAssumption
    <3>3. Cardinality(a.files) = Cardinality(s.files) + 1
      BY <1>1, <3>1
    <3>4. Cardinality(s.files) + left >= MaxFiles
      BY DEF Roomy
    <3>5. Cardinality(a.files) + (left - 1) >= MaxFiles /\ left - 1 \in Nat
      BY <3>1, <3>2, <3>3, <3>4
    <3> QED
      BY <3>5 DEF Roomy
  <2>4. Good(entries, r) /\ Followed(a, Imports(f), r)
    BY <1>1, <1>3, <2>2, <2>3, ImportsWalk
  <2>5. Followed(s, {f}, r)
    BY <1>1, <2>4 DEF Followed
  <2> QED
    BY <2>4, <2>5
<1> QED
  BY <1>2, <1>3

LEMMA FollowReaches ==
    ASSUME NEW entries, Candidate(entries), NEW left \in Nat, NEW deeper,
           left # 0 => Reaches(entries, left - 1, deeper)
    PROVE  Reaches(entries, left, Follow(left, deeper))
<1> SUFFICES ASSUME NEW s \in SchemaSpace, NEW f \in FilesOf(entries), s.err = "nil",
                    Good(entries, s), Roomy(s, left)
             PROVE  /\ Good(entries, Follow(left, deeper)[s][f])
                    /\ Followed(s, {f}, Follow(left, deeper)[s][f])
  BY DEF Reaches
<1>0. f \in DOMAIN host.files /\ Sound(entries, s)
  BY FilesAre DEF Good
<1>1. PICK r : r = Follow(left, deeper)[s][f]
  OBVIOUS
<1>2. r = IF Met(s, f) THEN s
          ELSE IF \E g \in s.files : host.files[g].path = host.files[f].path
               THEN Refuse(s, "files")
          ELSE IF left = 0 \/ Cardinality(s.files) >= MaxFiles THEN Refuse(s, "limit")
          ELSE Each(deeper,
                    Each(message, [s EXCEPT !.files = @ \cup {f}], host.files[f].messages),
                    host.files[f].imports)
  BY <1>0, <1>1 DEF Follow
<1>3. "files" \in SchemaErrors /\ "limit" \in SchemaErrors
  BY DEF SchemaErrors
<1>4. Met(s, f) <=> f \in s.files
  BY DEF Met
<1>5. CASE f \in s.files
  <2>1. r = s
    BY Zenon, <1>2, <1>4, <1>5
  <2>2. Followed(s, {f}, s)
    BY <1>5 DEF Followed
  <2> QED
    BY <1>1, <2>1, <2>2
<1>6. CASE f \notin s.files /\ \E g \in s.files : host.files[g].path = host.files[f].path
  <2>1. r = Refuse(s, "files")
    BY Zenon, <1>2, <1>4, <1>6
  <2>2. Reason(entries, "files")
    BY <1>0, <1>6, FilesReason
  <2> QED
    BY <1>1, <1>3, <2>1, <2>2, RefusedFile
<1>7. CASE /\ f \notin s.files /\ \A g \in s.files : host.files[g].path # host.files[f].path
           /\ left = 0 \/ Cardinality(s.files) >= MaxFiles
  <2>1. r = Refuse(s, "limit")
    BY Zenon, <1>2, <1>4, <1>7
  <2>2. Cardinality(s.files) >= MaxFiles
    <3>1. Cardinality(s.files) \in Nat /\ MaxFiles \in Nat
      BY <1>0, <1>7, FilesCount, LimitsAssumption DEF Sound
    <3> QED
      BY <1>7, <3>1 DEF Roomy
  <2>3. Reason(entries, "limit")
    BY <1>0, <1>7, <2>2, FileLimitReason
  <2> QED
    BY <1>1, <1>3, <2>1, <2>3, RefusedFile
<1>8. CASE /\ f \notin s.files /\ \A g \in s.files : host.files[g].path # host.files[f].path
           /\ left # 0 /\ ~(Cardinality(s.files) >= MaxFiles)
  <2>1. r = Each(deeper, Each(message, [s EXCEPT !.files = @ \cup {f}], host.files[f].messages),
                 host.files[f].imports)
    BY Zenon, <1>2, <1>4, <1>8
  <2>2. left \in Nat \ {0} /\ Reaches(entries, left - 1, deeper)
    BY <1>8
  <2> QED
    BY <1>1, <1>8, <2>1, <2>2, FileWalk
<1> QED
  BY <1>5, <1>6, <1>7, <1>8

LEMMA AddFileReaches ==
    ASSUME NEW entries, Candidate(entries)
    PROVE  \A left \in 0 .. MaxFiles : Reaches(entries, left, addFile[left])
<1> DEFINE Bad == {n \in 0 .. MaxFiles : ~Reaches(entries, n, addFile[n])}
<1> SUFFICES ASSUME Bad # {} PROVE FALSE
  OBVIOUS
<1>0. MaxFiles \in Nat
  BY LimitsAssumption
<1>1. Bad \subseteq Nat
  OBVIOUS
<1>2. PICK n \in Bad : \A m \in Bad : n <= m
  BY <1>1, LeastElement
<1>3. PICK deeper : deeper = addFile[n - 1]
  OBVIOUS
<1>4. addFile[n] = Follow(n, deeper)
  BY <1>3, FollowIs
<1>5. n # 0 => Reaches(entries, n - 1, deeper)
  <2> SUFFICES ASSUME n # 0 PROVE Reaches(entries, n - 1, deeper)
    OBVIOUS
  <2>1. n - 1 \in 0 .. MaxFiles /\ n - 1 \notin Bad
    BY <1>0, <1>2
  <2> QED
    BY <1>3, <2>1
<1>6. Reaches(entries, n, Follow(n, deeper))
  BY <1>0, <1>5, FollowReaches
<1> QED
  BY <1>2, <1>4, <1>6

-----------------------------------------------------------------------------
(* The whole environment. *)
LEMMA BoundIs ==
    ASSUME NEW acc \in SchemaSpace, NEW entry \in host.entries
    PROVE  /\ entry.kind = "proto" => bound[acc][entry] = addFile[MaxFiles][acc][entry.of]
           /\ entry.kind # "proto"
                 => bound[acc][entry] = native[MaxNesting + 1][acc][entry.of]
  BY DEF bound

Done(entries, kind, i) == {entries[j].of : j \in {k \in 1 .. i : entries[k].kind = kind}}

LEMMA DoneIs ==
    ASSUME NEW entries, Candidate(entries), NEW kind
    PROVE  /\ Done(entries, kind, 0) = {}
           /\ Done(entries, kind, Len(entries)) = Roots(entries, kind)
           /\ \A i \in 1 .. Len(entries) :
                 /\ entries[i].kind = kind
                       => /\ Done(entries, kind, i) = Done(entries, kind, i - 1) \cup {entries[i].of}
                          /\ entries[i].of \in Roots(entries, kind)
                 /\ entries[i].kind # kind => Done(entries, kind, i) = Done(entries, kind, i - 1)
<1>1. PICK n : n = Len(entries) /\ n \in Nat /\ DOMAIN entries = 1 .. n
  BY DEF Candidate
<1>2. \A i \in 1 .. n : 1 .. i = (1 .. i - 1) \cup {i}
  BY <1>1
<1>3. 1 .. 0 = {}
  OBVIOUS
<1> QED
  BY <1>1, <1>2, <1>3 DEF Done, Roots

(* What the environment has after some of its entries. *)
Reached(natives, files, s) ==
    s.err = "nil" =>
        /\ \E W : natives \subseteq W /\ Walked(W, EmptySchema, s)
        /\ files \subseteq s.files /\ \A g \in s.files : Imports(g) \subseteq s.files

LEMMA ReachedType ==
    ASSUME NEW natives, NEW files, NEW a, NEW b, NEW t, Reached(natives, files, a),
           Trail(a, {t}, b), a.err = "nil"
    PROVE  Reached(natives \cup {t}, files, b)
<1> SUFFICES ASSUME b.err = "nil"
             PROVE  /\ \E W : natives \cup {t} \subseteq W /\ Walked(W, EmptySchema, b)
                    /\ files \subseteq b.files /\ \A g \in b.files : Imports(g) \subseteq b.files
  BY DEF Reached
<1>1. PICK V : natives \subseteq V /\ Walked(V, EmptySchema, a)
  BY DEF Reached
<1>2. PICK W : {t} \subseteq W /\ Walked(W, a, b)
  BY DEF Trail
<1>3. Walked(V \cup W, EmptySchema, b)
  BY <1>1, <1>2, WalkedOn
<1>4. natives \cup {t} \subseteq V \cup W
  BY <1>1, <1>2
<1>5. b.files = a.files
  BY DEF Trail
<1> QED
  BY <1>3, <1>4, <1>5 DEF Reached

LEMMA ReachedFile ==
    ASSUME NEW natives, NEW files, NEW a, NEW b, NEW f, Reached(natives, files, a),
           Followed(a, {f}, b), a.err = "nil"
    PROVE  Reached(natives, files \cup {f}, b)
<1> SUFFICES ASSUME b.err = "nil"
             PROVE  /\ \E W : natives \subseteq W /\ Walked(W, EmptySchema, b)
                    /\ files \cup {f} \subseteq b.files
                    /\ \A g \in b.files : Imports(g) \subseteq b.files
  BY DEF Reached
<1>1. PICK W : natives \subseteq W /\ Walked(W, EmptySchema, a)
  BY DEF Reached
<1>2. b.natives = a.natives
  BY DEF Followed
<1>3. Walked(W, EmptySchema, b)
  BY <1>1, <1>2 DEF Walked
<1>4. files \cup {f} \subseteq b.files /\ \A g \in b.files : Imports(g) \subseteq b.files
  BY DEF Reached, Followed
<1> QED
  BY <1>1, <1>3, <1>4

LEMMA EmptyIs ==
    ASSUME NEW entries
    PROVE  /\ EmptySchema \in SchemaSpace /\ EmptySchema.err = "nil"
           /\ EmptySchema.natives = {} /\ EmptySchema.files = {} /\ EmptySchema.protoNames = {}
           /\ Good(entries, EmptySchema) /\ Reached({}, {}, EmptySchema)
<1>1. /\ EmptySchema \in SchemaSpace /\ EmptySchema.err = "nil"
      /\ EmptySchema.natives = {} /\ EmptySchema.files = {} /\ EmptySchema.protoNames = {}
  BY DEF EmptySchema, SchemaSpace, SchemaErrors
<1>2. Sound(entries, EmptySchema)
  <2>1. MessagesOf({}) = {}
    BY DEF MessagesOf
  <2>2. Cardinality({}) = 0 /\ MaxNatives \in Nat /\ MaxFiles \in Nat
    BY FS_EmptySet, LimitsAssumption
  <2>3. WithinLimits(EmptySchema)
    BY <1>1, <2>2 DEF WithinLimits
  <2> QED
    BY <1>1, <2>1, <2>3 DEF Sound, NamesApart, FilesApart
<1>3. Good(entries, EmptySchema)
  BY <1>1, <1>2 DEF Good
<1>4. Walked({}, EmptySchema, EmptySchema)
  BY DEF Walked
<1>5. Reached({}, {}, EmptySchema)
  BY <1>1, <1>4 DEF Reached
<1> QED
  BY <1>1, <1>3, <1>5

(* The walk of buildEnvironment over the types of its entries. *)
Gathered(entries) == Each(bound, EmptySchema, entries)

LEMMA GatheredIs ==
    ASSUME NEW entries, Candidate(entries), NEW r, r = Gathered(entries)
    PROVE  /\ Good(entries, r)
           /\ r.err = "depth" => Reason(entries, "depth")
           /\ Reached(Roots(entries, "native"), Roots(entries, "proto"), r)
<1>1. PICK n : n = Len(entries) /\ n \in Nat
  BY DEF Candidate
<1> DEFINE Types(i) == Done(entries, "native", i)
           Files(i) == Done(entries, "proto", i)
           Fits(i, acc) ==
             /\ Good(entries, acc)
             /\ acc.err = "depth" => Reason(entries, "depth")
             /\ Reached(Types(i), Files(i), acc)
           P == {p \in Nat \X SchemaSpace : Fits(p[1], p[2])}
<1>2. \A i, acc : <<i, acc>> \in P <=> i \in Nat /\ acc \in SchemaSpace /\ Fits(i, acc)
  OBVIOUS
<1>3. /\ Types(0) = {} /\ Files(0) = {}
      /\ Types(n) = Roots(entries, "native") /\ Files(n) = Roots(entries, "proto")
      /\ \A i \in 1 .. n :
            /\ entries[i].kind = "native"
                  => /\ Types(i) = Types(i - 1) \cup {entries[i].of} /\ Files(i) = Files(i - 1)
                     /\ entries[i].of \in Roots(entries, "native")
            /\ entries[i].kind = "proto"
                  => /\ Files(i) = Files(i - 1) \cup {entries[i].of} /\ Types(i) = Types(i - 1)
                     /\ entries[i].of \in Roots(entries, "proto")
  <2>1. ASSUME NEW kind
        PROVE  /\ Done(entries, kind, 0) = {} /\ Done(entries, kind, n) = Roots(entries, kind)
               /\ \A i \in 1 .. n :
                     /\ entries[i].kind = kind
                           => /\ Done(entries, kind, i) = Done(entries, kind, i - 1)
                                                           \cup {entries[i].of}
                              /\ entries[i].of \in Roots(entries, kind)
                     /\ entries[i].kind # kind
                           => Done(entries, kind, i) = Done(entries, kind, i - 1)
    BY <1>1, DoneIs
  <2>2. "native" # "proto"
    OBVIOUS
  <2>3. /\ Types(0) = {} /\ Types(n) = Roots(entries, "native")
        /\ Files(0) = {} /\ Files(n) = Roots(entries, "proto")
    BY Zenon, <2>1
  <2>4. ASSUME NEW i \in 1 .. n, entries[i].kind = "native"
        PROVE  /\ Types(i) = Types(i - 1) \cup {entries[i].of} /\ Files(i) = Files(i - 1)
               /\ entries[i].of \in Roots(entries, "native")
    BY Zenon, <2>1, <2>2, <2>4
  <2>5. ASSUME NEW i \in 1 .. n, entries[i].kind = "proto"
        PROVE  /\ Files(i) = Files(i - 1) \cup {entries[i].of} /\ Types(i) = Types(i - 1)
               /\ entries[i].of \in Roots(entries, "proto")
    BY Zenon, <2>1, <2>2, <2>5
  <2> QED
    BY Zenon, <2>3, <2>4, <2>5
<1> HIDE DEF P, Types, Files
<1>4. <<0, EmptySchema>> \in P
  <2>1. /\ EmptySchema \in SchemaSpace /\ EmptySchema.err = "nil"
        /\ Good(entries, EmptySchema) /\ Reached({}, {}, EmptySchema)
    BY EmptyIs
  <2>2. Reached(Types(0), Files(0), EmptySchema)
    BY <1>3, <2>1
  <2> QED
    BY <1>2, <2>1, <2>2
<1>5. ASSUME NEW i \in 1 .. n, NEW acc, <<i - 1, acc>> \in P
      PROVE  <<i, Once(bound, acc, entries[i])>> \in P
  <2>1. /\ Good(entries, acc)
        /\ acc.err = "depth" => Reason(entries, "depth")
        /\ Reached(Types(i - 1), Files(i - 1), acc) /\ acc \in SchemaSpace /\ i \in Nat
    BY <1>2, <1>5
  <2>2. CASE acc.err # "nil"
    <3>1. Once(bound, acc, entries[i]) = acc
      BY <2>2 DEF Once
    <3>2. Reached(Types(i), Files(i), acc)
      BY <2>2 DEF Reached
    <3> QED
      BY <1>2, <2>1, <3>1, <3>2
  <2>3. CASE acc.err = "nil"
    <3>1. PICK entry, b : entry = entries[i] /\ b = Once(bound, acc, entry)
      OBVIOUS
    <3>2. /\ entry \in host.entries /\ entry.kind \in {"native", "proto"}
          /\ b = bound[acc][entry]
      BY <1>1, <2>3, <3>1, EntryIs DEF Once
    <3>3. CASE entry.kind = "proto"
      <4>1. b = addFile[MaxFiles][acc][entry.of]
        BY <2>1, <3>2, <3>3, BoundIs
      <4>2. entry.of \in FilesOf(entries)
        BY <1>3, <3>1, <3>3, FilesReached
      <4>3. Roomy(acc, MaxFiles) /\ MaxFiles \in 0 .. MaxFiles
        <5>1. MaxFiles \in Nat
          BY LimitsAssumption
        <5>2. acc.files \subseteq FilesOf(entries) /\ IsFiniteSet(FilesOf(entries))
          BY <2>1, <2>3, FilesAre DEF Good, Sound
        <5>3. Cardinality(acc.files) \in Nat
          BY <5>2, FS_Subset, FS_CardinalityType
        <5> QED
          BY <5>1, <5>3 DEF Roomy
      <4>4. Reaches(entries, MaxFiles, addFile[MaxFiles])
        BY <4>3, AddFileReaches
      <4>5. Good(entries, b) /\ Followed(acc, {entry.of}, b)
        BY <2>1, <2>3, <4>1, <4>2, <4>3, <4>4 DEF Reaches
      <4>6. Reached(Types(i - 1), Files(i - 1) \cup {entry.of}, b)
        BY <2>1, <2>3, <4>5, ReachedFile
      <4>7. b \in SchemaSpace /\ b.err # "depth"
        BY <4>5 DEF Good, Followed
      <4> QED
        BY <1>2, <1>3, <2>1, <3>1, <3>3, <4>5, <4>6, <4>7
    <3>4. CASE entry.kind = "native"
      <4>1. b = native[MaxNesting + 1][acc][entry.of]
        BY <2>1, <3>2, <3>4, BoundIs
      <4>2. entry.of \in TypesOf(entries) /\ entry.of \in Roots(entries, "native")
        BY <1>3, <3>1, <3>4, TypesReached
      <4>3. MaxNesting + 1 \in 0 .. MaxNesting + 1
        BY LimitsAssumption
      <4>4. Descends(entries, MaxNesting + 1, native[MaxNesting + 1])
        BY <4>3, NativeDescends
      <4>5. Enters(entries, MaxNesting + 1, acc, entry.of, b)
        BY <2>1, <2>3, <4>1, <4>2, <4>4 DEF Descends
      <4>6. Reached(Types(i - 1) \cup {entry.of}, Files(i - 1), b)
        BY <2>1, <2>3, <4>5, ReachedType DEF Enters
      <4>7. b.err = "depth" => Reason(entries, "depth")
        <5> SUFFICES ASSUME b.err = "depth"
                     PROVE  Roots(entries, "native") \cap Nested[MaxNesting + 1] # {}
          BY DEF Reason
        <5> QED
          BY <4>2, <4>5 DEF Enters
      <4>8. Good(entries, b) /\ b \in SchemaSpace
        BY <4>5 DEF Enters, Good
      <4> QED
        BY <1>2, <1>3, <2>1, <3>1, <3>4, <4>6, <4>7, <4>8, ZenonT(40)
    <3> QED
      BY <3>2, <3>3, <3>4
  <2> QED
    BY <2>2, <2>3
<1>6. <<n, Each(bound, EmptySchema, entries)>> \in P
  <2>1. Len(entries) \in Nat /\ Len(entries) = n
    BY <1>1
  <2> HIDE DEF Fits
  <2> QED
    BY <1>4, <1>5, <2>1, EachKeeps
<1>7. r = Each(bound, EmptySchema, entries)
  BY DEF Gathered
<1>8. Fits(n, r)
  BY <1>2, <1>6, <1>7
<1> QED
  BY <1>3, <1>8

(* Nothing else than the walk and cel-go's own checks ends an environment. *)
LEMMA EnvironmentIs ==
    ASSUME NEW entries, NEW named, NEW s \in SchemaSpace, s = Gathered(entries),
           NEW r, r = Environment(entries, named)
    PROVE  \/ r = s
           \/ r.err = "celgo" /\ Range(entries \o named) \in host.refuses
<1>1. r = IF s.err = "nil" /\ Range(entries \o named) \in host.refuses
          THEN Refuse(s, "celgo") ELSE s
  BY DEF Environment, Gathered
<1>2. Refuse(s, "celgo").err = "celgo"
  BY DEF Refuse, SchemaSpace
<1> QED
  BY <1>1, <1>2

LEMMA EnvironmentReason ==
    ASSUME NEW entries, Candidate(entries)
    PROVE  Reason(entries, Environment(entries, functions).err)
<1>1. PICK s : s = Gathered(entries)
  OBVIOUS
<1>2. Good(entries, s) /\ (s.err = "depth" => Reason(entries, "depth"))
  BY <1>1, GatheredIs
<1>3. Reason(entries, "nil")
  BY DEF Reason
<1>4. Reason(entries, s.err)
  BY <1>2, <1>3 DEF Good
<1>5. Range(entries \o functions) \in host.refuses => Reason(entries, "celgo")
  BY DEF Reason
<1> QED
  <2>1. s \in SchemaSpace
    BY <1>2 DEF Good
  <2>2. PICK r : r = Environment(entries, functions)
    OBVIOUS
  <2> QED
    BY <1>1, <1>4, <1>5, <2>1, <2>2, EnvironmentIs

SoundFor(entries) ==
    /\ \A t \in TypesOf(entries) : Type(t).fault = "none"
    /\ \A t \in Structs(entries) : ~FieldsAreBad(t)
    /\ ~Ambiguous(entries) /\ ~PathsClash(entries) /\ ~TooLarge(entries)
    /\ Messages(entries) \cap Dynamic = {}

LEMMA EnvironmentSound ==
    ASSUME NEW entries, Candidate(entries), NEW named, Environment(entries, named).err = "nil"
    PROVE  SoundFor(entries)
<1>1. PICK r : r = Gathered(entries)
  OBVIOUS
<1>a. Good(entries, r)
  BY <1>1, GatheredIs
<1>b. r.err = "nil"
  <2>1. PICK built : built = Environment(entries, named)
    OBVIOUS
  <2> QED
    BY <1>1, <1>a, <2>1, EnvironmentIs DEF Good
<1>2. Sound(entries, r) /\ Reached(Roots(entries, "native"), Roots(entries, "proto"), r)
  BY <1>1, <1>a, <1>b, GatheredIs DEF Good
<1>3. PICK W : Roots(entries, "native") \subseteq W /\ Walked(W, EmptySchema, r)
  BY <1>b, <1>2 DEF Reached
<1>4. /\ \A t \in W : Type(t).fault = "none" /\ Leads(t) \subseteq W
      /\ \A t \in W : Type(t).kind = "struct" => t \in r.natives /\ ~FieldsAreBad(t)
  BY <1>3, EmptyIs DEF Walked
<1>5. TypesOf(entries) \subseteq W
  BY <1>3, <1>4, TypesReached
<1>6. Structs(entries) = r.natives
  BY <1>2, <1>4, <1>5, StructsAre DEF Sound
<1>7. FilesOf(entries) = r.files
  <2>1. /\ Roots(entries, "proto") \subseteq r.files
        /\ \A g \in r.files : Imports(g) \subseteq r.files
    BY <1>b, <1>2 DEF Reached
  <2>2. FilesOf(entries) \subseteq r.files
    BY <2>1, FilesReached
  <2> QED
    BY <1>2, <2>2 DEF Sound
<1>8. Messages(entries) = r.protoNames
  BY <1>2, <1>7 DEF Sound, Messages, MessagesOf
<1>9. ~Ambiguous(entries)
  BY <1>2, <1>6, <1>7, <1>8 DEF Ambiguous, Sound, NamesApart, FilesApart
<1>10. ~PathsClash(entries)
  BY <1>2, <1>7 DEF PathsClash, Sound, FilesApart
<1>11. ~TooLarge(entries)
  <2>1. /\ Cardinality(r.natives) <= MaxNatives /\ Cardinality(r.files) <= MaxFiles
        /\ \A t \in r.natives : Len(Type(t).fields) <= MaxFields
    BY <1>2 DEF Sound, WithinLimits
  <2>2. /\ Cardinality(Structs(entries)) \in Nat /\ Cardinality(FilesOf(entries)) \in Nat
        /\ MaxNatives \in Nat /\ MaxFiles \in Nat /\ MaxFields \in Nat
    BY StructsAre, FilesAre, LimitsAssumption
  <2>3. ASSUME NEW t \in Structs(entries)
        PROVE  ~(Len(Type(t).fields) > MaxFields)
    <3>1. Type(t).fields \in Seq(FieldSpace(host.types))
      BY StructsAre, TypeIs DEF Candidate
    <3>2. Len(Type(t).fields) \in Nat /\ Len(Type(t).fields) <= MaxFields
      BY <1>6, <2>1, <3>1
    <3> QED
      BY <2>2, <3>2
  <2>4. ~(Cardinality(Structs(entries)) > MaxNatives) /\ ~(Cardinality(FilesOf(entries)) > MaxFiles)
    BY <1>6, <1>7, <2>1, <2>2
  <2> QED
    BY <2>3, <2>4 DEF TooLarge
<1>12. Messages(entries) \cap Dynamic = {}
  BY <1>2, <1>8 DEF Sound
<1>13. /\ \A t \in TypesOf(entries) : Type(t).fault = "none"
       /\ \A t \in Structs(entries) : ~FieldsAreBad(t)
  BY <1>4, <1>5, StructsAre
<1> QED
  BY <1>9, <1>10, <1>11, <1>12, <1>13 DEF SoundFor

-----------------------------------------------------------------------------
(* The invariant of the builder.  What it holds was accepted together, and *)
(* its settings change only while it holds nothing.                        *)
Apart(entries) == \A i, j \in DOMAIN entries : entries[i].name = entries[j].name => i = j

SettingsInv ==
    /\ builder = Zero \/ (builder \in ConfigSpace /\ builder.costLimit > 0)
    /\ ~builder.valid => bindings = <<>> /\ functions = <<>>
NamedInv ==
    /\ functions \in Seq(host.entries) /\ Apart(bindings) /\ Apart(functions)
    /\ Names(bindings) \cap Names(functions) = {}
BuilderInv ==
    /\ SettingsInv /\ Candidate(bindings) /\ NamedInv
    /\ Environment(bindings, functions).err = "nil"

LEMMA EachNone ==
    ASSUME NEW step, NEW s
    PROVE  Each(step, s, <<>>) = s
<1>1. PICK list, n : list = <<>> /\ n = 0
  OBVIOUS
<1>2. Len(list) = n /\ n \in Nat
  BY <1>1
<1>3. PICK f : Runs(f, step, s, list, n) /\ Each(step, s, list) = f[n]
  BY <1>2, EachRuns
<1>4. f[n] = s
  BY <1>1, <1>3 DEF Runs
<1> QED
  BY <1>1, <1>3, <1>4

LEMMA EnvironmentNone ==
    ASSUME host \in Hosts
    PROVE  Environment(<<>>, <<>>).err = "nil"
<1>1. PICK s : s = Each(bound, EmptySchema, <<>>)
  OBVIOUS
<1>2. s = EmptySchema /\ s.err = "nil"
  BY <1>1, EachNone DEF EmptySchema
<1>3. PICK none : none = <<>>
  OBVIOUS
<1>4. Range(none \o none) = {}
  <2>1. DOMAIN (none \o none) = {}
    BY <1>3
  <2> QED
    BY <2>1 DEF Range
<1>5. Range(none \o none) \notin host.refuses
  BY <1>4, HostsAssumption
<1> QED
  BY <1>1, <1>2, <1>3, <1>5 DEF Environment

LEMMA EnvironmentFrame ==
    ASSUME host' = host, builder' = builder, NEW e, bindings' = e, NEW f, functions' = f
    PROVE  Environment(bindings, functions)' = Environment(e, f)
<1>1. native' = native
  BY DEF native, SchemaSpace, Exposed, FieldName, Type, Refuse, BadField, Conflict, SchemaErrors
<1>2. addFile' = addFile
  BY DEF addFile, SchemaSpace, Type, Refuse, Met, message, Message, Conflict, SchemaErrors
<1>3. bound' = bound
  BY <1>1, <1>2 DEF bound, SchemaSpace, SchemaErrors
<1> QED
  BY <1>3 DEF Environment, EmptySchema, Refuse

LEMMA ConfiguredIs ==
    ASSUME host \in Hosts, NEW options \in host.options
    PROVE  Configured(options) \in ConfigSpace /\ Configured(options).costLimit > 0
<1>1. /\ options \in Seq(OptionSpace)
      /\ \A i \in DOMAIN options : options[i].hasCostLimit => options[i].costLimit >= 0
  BY HostsAssumption
<1>2. PICK n : n = Len(options) /\ n \in Nat /\ DOMAIN options = 1 .. n
  BY <1>1
<1> DEFINE start == [valid |-> TRUE, costLimit |-> DefaultCost, jsonNames |-> FALSE, err |-> "nil"]
           step == [config \in ConfigSpace |-> [option \in OptionSpace |-> Option(config, option)]]
           P == {p \in Nat \X ConfigSpace : p[2].costLimit > 0}
<1>3. \A i, config : <<i, config>> \in P <=> i \in Nat /\ config \in ConfigSpace /\ config.costLimit > 0
  OBVIOUS
<1> HIDE DEF P
<1>4. <<0, start>> \in P
  <2>1. start \in ConfigSpace
    BY DEF ConfigSpace, DefaultCost
  <2>2. start.costLimit > 0 /\ 0 \in Nat
    BY DEF DefaultCost
  <2> HIDE DEF start
  <2> QED
    BY <1>3, <2>1, <2>2
<1>5. ASSUME NEW i \in 1 .. n, NEW config, <<i - 1, config>> \in P
      PROVE  <<i, Once(step, config, options[i])>> \in P
  <2>1. config \in ConfigSpace /\ config.costLimit > 0 /\ i \in Nat
    BY <1>3, <1>5
  <2>2. PICK option : option = options[i]
    OBVIOUS
  <2>3. option \in OptionSpace /\ option.hasCostLimit => option.costLimit >= 0
    BY <1>1, <1>2, <2>2
  <2>4. option \in OptionSpace
    BY <1>1, <1>2, <2>2, Element
  <2>5. step[config][option] = Option(config, option)
    BY <2>1, <2>4
  <2>6. Option(config, option) \in ConfigSpace /\ Option(config, option).costLimit > 0
    <3>1. CASE option.hasCostLimit /\ option.costLimit = 0
      BY <2>1, <3>1 DEF Option, Refuse, ConfigSpace
    <3>2. CASE option.hasCostLimit /\ option.costLimit # 0
      <4>1. option.costLimit \in Int /\ option.jsonNames \in BOOLEAN
        BY <2>4 DEF OptionSpace
      <4>2. option.costLimit > 0
        BY <2>3, <2>4, <3>2, <4>1
      <4>3. Option(config, option) = [config EXCEPT !.costLimit = option.costLimit,
                                                    !.jsonNames = @ \/ option.jsonNames]
        BY <3>2 DEF Option
      <4> QED
        BY <2>1, <4>1, <4>2, <4>3 DEF ConfigSpace
    <3>3. CASE ~option.hasCostLimit
      BY <2>1, <2>4, <3>3 DEF Option, ConfigSpace, OptionSpace
    <3> QED
      BY <3>1, <3>2, <3>3
  <2>7. Once(step, config, option) = config \/ Once(step, config, option) = Option(config, option)
    BY <2>5 DEF Once
  <2> QED
    BY <1>3, <2>1, <2>2, <2>6, <2>7
<1>6. <<n, Each(step, start, options)>> \in P
  <2>1. Len(options) \in Nat /\ Len(options) = n
    BY <1>2
  <2> HIDE DEF start, step
  <2> QED
    BY <1>4, <1>5, <2>1, EachKeeps
<1> QED
  BY <1>3, <1>6 DEF Configured

Longer(entries, entry) == Append(entries, entry)

LEMMA Appended ==
    ASSUME NEW S, NEW entries \in Seq(S), NEW entry \in S, Apart(entries),
           entry.name \notin Names(entries), NEW r, r = Longer(entries, entry)
    PROVE  r \in Seq(S) /\ Apart(r) /\ Names(r) = Names(entries) \cup {entry.name}
<1>1. PICK n : n = Len(entries) /\ n \in Nat /\ DOMAIN entries = 1 .. n
  OBVIOUS
<1>2. r \in Seq(S) /\ Len(r) = n + 1 /\ DOMAIN r = 1 .. n + 1
  BY <1>1 DEF Longer
<1>3. r[n + 1] = entry /\ \A i \in 1 .. n : r[i] = entries[i]
  BY <1>1 DEF Longer
<1>4. 1 .. n + 1 = (1 .. n) \cup {n + 1}
  BY <1>1
<1>5. \A i \in 1 .. n : entries[i].name # entry.name
  BY <1>1 DEF Names
<1>6. Apart(r)
  BY <1>1, <1>2, <1>3, <1>4, <1>5 DEF Apart
<1>7. Names(r) = Names(entries) \cup {entry.name}
  BY <1>1, <1>2, <1>3, <1>4 DEF Names
<1> QED
  BY <1>2, <1>6, <1>7

LEMMA BuilderBegins == Init => BuilderInv
<1> SUFFICES ASSUME Init PROVE BuilderInv
  OBVIOUS
<1>1. host \in Hosts /\ builder = Zero /\ bindings = <<>> /\ functions = <<>>
  BY DEF Init, BuilderInit
<1>2. SettingsInv
  BY <1>1 DEF SettingsInv
<1>3. Candidate(bindings)
  BY <1>1 DEF Candidate
<1>4. NamedInv
  BY <1>1 DEF NamedInv, Apart, Names
<1>5. Environment(bindings, functions).err = "nil"
  BY <1>1, EnvironmentNone
<1> QED
  BY <1>2, <1>3, <1>4, <1>5 DEF BuilderInv

LEMMA BuilderFrame ==
    ASSUME BuilderInv, UNCHANGED <<host, builder, bindings, functions>>
    PROVE  BuilderInv'
<1>0. host' = host /\ builder' = builder /\ bindings' = bindings /\ functions' = functions
  OBVIOUS
<1>1. SettingsInv'
  BY Zenon, <1>0 DEF BuilderInv, SettingsInv
<1>2. Candidate(bindings)'
  BY <1>0 DEF BuilderInv, Candidate
<1>3. NamedInv'
  <2>1. Apart(bindings)' = Apart(bindings) /\ Apart(functions)' = Apart(functions)
    BY Zenon, <1>0 DEF Apart
  <2>2. Names(bindings)' = Names(bindings) /\ Names(functions)' = Names(functions)
    BY Zenon, <1>0 DEF Names
  <2> QED
    BY <1>0, <2>1, <2>2 DEF BuilderInv, NamedInv
<1>4. Environment(bindings, functions)' = Environment(bindings, functions)
  BY <1>0, EnvironmentFrame
<1> QED
  BY <1>1, <1>2, <1>3, <1>4 DEF BuilderInv

LEMMA NewBuilderKeeps ==
    ASSUME BuilderInv, NEW options \in host.options, NewBuilder(options)
    PROVE  BuilderInv'
<1>1. /\ bindings = <<>> /\ functions = <<>> /\ host \in Hosts
      /\ bindings' = <<>> /\ functions' = <<>> /\ host' = host
  BY DEF BuilderInv, SettingsInv, Candidate, NewBuilder
<1>2. builder' = Configured(options) \/ builder' = Zero
  BY DEF NewBuilder
<1>3. Configured(options) \in ConfigSpace /\ Configured(options).costLimit > 0
  BY <1>1, ConfiguredIs
<1>4. SettingsInv'
  BY <1>1, <1>2, <1>3 DEF SettingsInv, Zero, ConfigSpace
<1>5. Candidate(bindings)'
  BY <1>1 DEF Candidate
<1>6. NamedInv'
  BY <1>1 DEF NamedInv, Apart, Names
<1>7. Environment(bindings, functions)'.err = "nil"
  <2>1. (host \in Hosts)'
    BY <1>1
  <2>2. (Environment(<<>>, <<>>).err = "nil")'
    BY <2>1, PTL, EnvironmentNone
  <2> QED
    BY <1>1, <2>2
<1> QED
  BY <1>4, <1>5, <1>6, <1>7 DEF BuilderInv

LEMMA BindKeeps ==
    ASSUME BuilderInv, NEW entry \in host.entries, Bind(entry)
    PROVE  BuilderInv'
<1>0. /\ builder.valid /\ entry.kind \in {"native", "proto"}
      /\ host' = host /\ builder' = builder /\ functions' = functions
  BY DEF Bind
<1>1. CASE BindError(entry) # "nil"
  <2>1. bindings' = bindings
    BY <1>1 DEF Bind, Kept
  <2> QED
    BY <1>0, <2>1, BuilderFrame
<1>2. CASE BindError(entry) = "nil"
  <2>1. PICK candidate : candidate = Append(bindings, entry)
    OBVIOUS
  <2>2. bindings' = candidate
    BY <1>2, <2>1 DEF Bind, Kept
  <2>3. ~NameRefused(entry.name) /\ Environment(candidate, functions).err = "nil"
    BY <1>2, <2>1 DEF BindError
  <2>4. entry.name \notin Names(bindings) \cup Names(functions)
    BY <2>3 DEF NameRefused
  <2>5. PICK S : S = {e \in host.entries : e.kind # "function"}
    OBVIOUS
  <2>6. entry \in S /\ bindings \in Seq(S) /\ host \in Hosts
    BY <1>0, <2>5 DEF BuilderInv, Candidate
  <2>a. Apart(bindings) /\ entry.name \notin Names(bindings)
    BY <2>4 DEF BuilderInv, NamedInv
  <2>7. candidate \in Seq(S) /\ Apart(candidate)
        /\ Names(candidate) = Names(bindings) \cup {entry.name}
    <3>1. candidate = Longer(bindings, entry)
      BY <2>1 DEF Longer
    <3> QED
      BY <2>6, <2>a, <3>1, Appended
  <2>8. Candidate(bindings)'
    BY <1>0, <2>2, <2>5, <2>6, <2>7 DEF Candidate
  <2>9. NamedInv'
    <3>1. Apart(bindings)' = Apart(candidate) /\ Apart(functions)' = Apart(functions)
      BY Zenon, <1>0, <2>2 DEF Apart
    <3>2. Names(bindings)' = Names(candidate) /\ Names(functions)' = Names(functions)
      BY Zenon, <1>0, <2>2 DEF Names
    <3> QED
      BY <1>0, <2>4, <2>7, <3>1, <3>2 DEF BuilderInv, NamedInv
  <2>10. SettingsInv'
    BY Zenon, <1>0 DEF BuilderInv, SettingsInv
  <2>11. Environment(bindings, functions)' = Environment(candidate, functions)
    BY <1>0, <2>2, EnvironmentFrame
  <2> QED
    BY <2>3, <2>8, <2>9, <2>10, <2>11 DEF BuilderInv
<1> QED
  BY <1>1, <1>2

LEMMA FunctionKeeps ==
    ASSUME BuilderInv, NEW entry \in host.entries, Function(entry)
    PROVE  BuilderInv'
<1>0. builder.valid /\ host' = host /\ builder' = builder /\ bindings' = bindings
  BY DEF Function
<1>1. CASE FunctionError(entry) # "nil"
  <2>1. functions' = functions
    BY <1>1 DEF Function, Kept
  <2> QED
    BY <1>0, <2>1, BuilderFrame
<1>2. CASE FunctionError(entry) = "nil"
  <2>1. PICK added : added = Append(functions, entry)
    OBVIOUS
  <2>2. functions' = added
    BY <1>2, <2>1 DEF Function, Kept
  <2>3. ~NameRefused(entry.name) /\ Environment(bindings, added).err = "nil"
    BY <1>2, <2>1 DEF FunctionError
  <2>4. entry.name \notin Names(bindings) \cup Names(functions)
    BY <2>3 DEF NameRefused
  <2>5. PICK S : S = host.entries
    OBVIOUS
  <2>6. entry \in S /\ functions \in Seq(S)
    BY <2>5 DEF BuilderInv, NamedInv
  <2>a. Apart(functions) /\ entry.name \notin Names(functions)
    BY <2>4 DEF BuilderInv, NamedInv
  <2>7. added \in Seq(S) /\ Apart(added) /\ Names(added) = Names(functions) \cup {entry.name}
    <3>1. added = Longer(functions, entry)
      BY <2>1 DEF Longer
    <3> QED
      BY <2>6, <2>a, <3>1, Appended
  <2>8. Candidate(bindings)'
    BY <1>0 DEF BuilderInv, Candidate
  <2>9. NamedInv'
    <3>1. Apart(functions)' = Apart(added) /\ Apart(bindings)' = Apart(bindings)
      BY Zenon, <1>0, <2>2 DEF Apart
    <3>2. Names(functions)' = Names(added) /\ Names(bindings)' = Names(bindings)
      BY Zenon, <1>0, <2>2 DEF Names
    <3>3. functions' \in Seq(host'.entries)
      BY <1>0, <2>2, <2>5, <2>7
    <3> QED
      BY <1>0, <2>4, <2>7, <3>1, <3>2, <3>3 DEF BuilderInv, NamedInv
  <2>10. SettingsInv'
    BY Zenon, <1>0 DEF BuilderInv, SettingsInv
  <2>11. Environment(bindings, functions)' = Environment(bindings, added)
    BY <1>0, <2>2, EnvironmentFrame
  <2> QED
    BY <2>3, <2>8, <2>9, <2>10, <2>11 DEF BuilderInv
<1> QED
  BY <1>1, <1>2

(* What a builder holds was accepted together, under distinct names, by    *)
(* settings that were fixed before: its environment can be built.          *)
THEOREM BuilderInvariant == Spec => []BuilderInv
<1>1. Init => BuilderInv
  BY BuilderBegins
<1>2. BuilderInv /\ [Next]_vars => BuilderInv'
  <2> SUFFICES ASSUME BuilderInv, [Next]_vars PROVE BuilderInv'
    OBVIOUS
  <2>1. CASE BuilderNext
    <3>1. ASSUME NEW options \in host.options, NewBuilder(options)
          PROVE  BuilderInv'
      BY <3>1, NewBuilderKeeps
    <3>2. ASSUME NEW entry \in host.entries, Bind(entry)
          PROVE  BuilderInv'
      BY <3>2, BindKeeps
    <3>3. ASSUME NEW entry \in host.entries, Function(entry)
          PROVE  BuilderInv'
      BY <3>3, FunctionKeeps
    <3>4. ASSUME Build
          PROVE  BuilderInv'
      BY <3>4, BuilderFrame DEF Build
    <3>5. ASSUME NEW source \in host.sources, Compile(source)
          PROVE  BuilderInv'
      BY <3>5, BuilderFrame DEF Compile
    <3> QED
      BY <2>1, <3>1, <3>2, <3>3, <3>4, <3>5 DEF BuilderNext
  <2>2. CASE UNCHANGED builderVars
    BY <2>2, BuilderFrame DEF builderVars
  <2>3. CASE UNCHANGED vars
    BY <2>3, BuilderFrame DEF vars, builderVars
  <2> QED
    BY <2>1, <2>2, <2>3 DEF Next
<1> QED
  BY <1>1, <1>2, PTL DEF Spec

(* SchemaIsSound, for every host and every limit: what the bindings of a   *)
(* builder reach, all together, has no fault in it, no CEL name for two    *)
(* things, no two fields of one name, and is within the limits on types,   *)
(* fields and files (cel/schema.go:110-144, 169-189).                      *)
THEOREM SchemaSound == Spec => []SchemaIsSound
<1>1. BuilderInv => SchemaIsSound
  BY EnvironmentSound DEF BuilderInv, SoundFor, SchemaIsSound
<1> QED
  BY <1>1, BuilderInvariant, PTL

LEMMA RefusalReasons ==
    ASSUME BuilderInv, NEW entry \in host.entries, entry.kind # "function"
    PROVE  Reason(Append(bindings, entry), BindError(entry))
<1>1. PICK candidate : candidate = Append(bindings, entry)
  OBVIOUS
<1>2. \/ BindError(entry) \in {"nil argument", "count", "name"}
      \/ BindError(entry) = Environment(candidate, functions).err
  BY <1>1 DEF BindError
<1>3. Candidate(candidate)
  <2>1. PICK S : S = {e \in host.entries : e.kind # "function"}
    OBVIOUS
  <2>2. entry \in S /\ bindings \in Seq(S) /\ host \in Hosts
    BY <2>1 DEF BuilderInv, Candidate
  <2>3. candidate \in Seq(S)
    BY <1>1, <2>2
  <2> QED
    BY <2>1, <2>2, <2>3 DEF Candidate
<1>4. Reason(candidate, Environment(candidate, functions).err)
  BY <1>3, EnvironmentReason
<1>5. \A err \in {"nil argument", "count", "name"} : Reason(candidate, err)
  BY DEF Reason
<1>6. Reason(candidate, BindError(entry))
  BY <1>2, <1>4, <1>5
<1> QED
  BY <1>1, <1>6

LEMMA NamedApart ==
    ASSUME NEW S, NEW R, NEW a \in Seq(S), NEW b \in Seq(R), Apart(a), Apart(b),
           Names(a) \cap Names(b) = {}
    PROVE  Apart(a \o b)
<1>0. PICK n : n = Len(a) /\ n \in Nat
  OBVIOUS
<1>a. PICK m : m = Len(b) /\ m \in Nat
  OBVIOUS
<1>1. n = Len(a) /\ m = Len(b) /\ n \in Nat /\ m \in Nat
  BY <1>0, <1>a
<1>2. PICK c : c = a \o b
  OBVIOUS
<1>3. /\ DOMAIN a = 1 .. n /\ DOMAIN b = 1 .. m /\ DOMAIN c = 1 .. n + m
      /\ \A i \in 1 .. n : c[i] = a[i]
      /\ \A i \in 1 .. n + m : i > n => c[i] = b[i - n]
  BY <1>1, <1>2
<1>4. ASSUME NEW i \in 1 .. n + m, NEW j \in 1 .. n + m, c[i].name = c[j].name
      PROVE  i = j
  <2>1. \A k \in 1 .. n : a[k].name \in Names(a)
    BY <1>3 DEF Names
  <2>2. \A k \in 1 .. m : b[k].name \in Names(b)
    BY <1>3 DEF Names
  <2>3. CASE i <= n /\ j <= n
    BY <1>1, <1>3, <1>4, <2>3, SMTT(20) DEF Apart
  <2>4. CASE i > n /\ j > n
    <3>1. i - n \in 1 .. m /\ j - n \in 1 .. m
      BY <1>1, <2>4
    <3>2. i - n = j - n
      BY <1>3, <1>4, <2>4, <3>1 DEF Apart
    <3> QED
      BY <1>1, <3>2
  <2>5. CASE i <= n /\ j > n
    <3>1. i \in 1 .. n /\ j - n \in 1 .. m
      BY <1>1, <2>5
    <3> QED
      BY <1>3, <1>4, <2>1, <2>2, <2>5, <3>1
  <2>6. CASE i > n /\ j <= n
    <3>1. j \in 1 .. n /\ i - n \in 1 .. m
      BY <1>1, <2>6
    <3> QED
      BY <1>3, <1>4, <2>1, <2>2, <2>6, <3>1
  <2> QED
    BY <1>1, <2>3, <2>4, <2>5, <2>6
<1>5. Apart(c)
  BY <1>3, <1>4 DEF Apart
<1> QED
  BY <1>2, <1>5

(* RefusalHasReason, for every host and every limit: a registration is     *)
(* refused for a reason that the candidate has, whatever was walked before *)
(* it was met, and what was accepted can be built, with a cost limit and   *)
(* under distinct names (cel/binding.go:58-135, cel/schema.go:17-204).     *)
THEOREM RefusalsReasoned == Spec => []RefusalHasReason
<1>1. BuilderInv => RefusalHasReason
  <2> SUFFICES ASSUME BuilderInv, builder.valid PROVE RefusalHasReason
    BY DEF RefusalHasReason
  <2>1. \A entry \in host.entries :
           entry.kind # "function" => Reason(Append(bindings, entry), BindError(entry))
    BY RefusalReasons
  <2>2. builder.costLimit > 0
    BY DEF BuilderInv, SettingsInv, Zero
  <2>3. Apart(bindings \o functions)
    <3>1. PICK S, R : S = {e \in host.entries : e.kind # "function"} /\ R = host.entries
      OBVIOUS
    <3>2. bindings \in Seq(S) /\ functions \in Seq(R)
      BY <3>1 DEF BuilderInv, Candidate, NamedInv
    <3> QED
      BY <3>2, NamedApart DEF BuilderInv, NamedInv
  <2>4. Environment(bindings, functions).err = "nil"
    BY DEF BuilderInv
  <2> QED
    BY <2>1, <2>2, <2>3, <2>4 DEF RefusalHasReason, Apart
<1> QED
  BY <1>1, BuilderInvariant, PTL

-----------------------------------------------------------------------------
(* CelEquality.  What is invariant is said of a stack of frames fs, what   *)
(* remains, the pairs found equal and the result.                          *)
Places == UNION {DOMAIN objects.values[at].kids : at \in Values}
FrameSpace ==
    [question : Questions, entered : BOOLEAN, keys : SUBSET Places, todo : Seq(Questions)]
Remains == [Resources -> Nat]

SameType(q) == TypeOf(q.left) = TypeOf(q.right)

(* A key of a map, compared with itself, is found equal at once. *)
OfKey(q) ==
    /\ q.left = q.right /\ ~q.field
    /\ LeftOf(q).kind \in {"string", "scalar"} /\ LeftOf(q).atom # NaN

Both(q) == DOMAIN LeftOf(q).kids \cap DOMAIN RightOf(q).kids

(* What is asked is what a key leads to; the last question is Kid. *)
FrameFits(f) ==
    LET q == f.question
    IN  /\ SameType(q)
        /\ ~f.entered => f.keys = {} /\ f.todo = <<>>
        /\ f.entered => /\ ~IsLeaf(q) /\ ~HeadersDiffer(q) /\ ~BothNil(q)
                        /\ f.keys \subseteq DOMAIN LeftOf(q).kids
        /\ f.todo # <<>> =>
              \E k \in Both(q) \ f.keys : f.todo \in {Entry(q, k), <<Kid(q, k)>>}

(* Each frame asks the first question of the one below it. *)
StackFits(fs) ==
    /\ \A i \in 1 .. Len(fs) : FrameFits(fs[i])
    /\ \A i \in 1 .. Len(fs) - 1 :
          fs[i].entered /\ fs[i].todo # <<>> /\ fs[i + 1].question = Head(fs[i].todo)
    /\ fs # <<>> => fs[1].question = Root

(* Open frames were visited and have not answered.  All other visits are   *)
(* levels that a derivation may have.                                      *)
OpenIn(fs) == IF fs # <<>> /\ ~fs[Len(fs)].entered THEN Len(fs) - 1 ELSE Len(fs)
Height(fs, rem) == ComparisonLimits["visits"] - rem["visits"] - OpenIn(fs)

Asking(f, k) == Kid(f.question, k) \in {f.todo[j] : j \in 1 .. Len(f.todo)}
DoneAlike(f, h) ==
    f.entered =>
        \A k \in DOMAIN LeftOf(f.question).kids \ f.keys :
            /\ k \in DOMAIN RightOf(f.question).kids
            /\ Asking(f, k) \/ Alike[h][Kid(f.question, k)]
AlikeIn(fs, eq, h) ==
    /\ \A pair \in eq : Alike[h][Ask(pair[1], pair[2], FALSE)]
    /\ \A i \in 1 .. Len(fs) : DoneAlike(fs[i], h)

(* A difference found at a frame is one of the objects. *)
LeadsUp(q, i) ==
    OfKey(q) \/ \A n \in 1 .. Fuel : n + i - 1 <= Fuel /\ Differ[n][q] => Differ[n + i - 1][Root]
DifferIn(fs) == \A i \in 1 .. Len(fs)   : LeadsUp(fs[i].question, i)

FramesTyped(fs, rem, eq, res) ==
    /\ fs \in Seq(FrameSpace) /\ rem \in Remains /\ eq \subseteq Values \X Values
    /\ res \in {"none", "true", "false", "limit"}
    /\ res # "none" => fs = <<>>
    /\ Height(fs, rem) \in 0 .. Fuel /\ OpenIn(fs) <= ComparisonDepth + 1

Derived(res) ==
    /\ res = "true" => Alike[Fuel][Root]
    /\ res = "false" => Differ[Fuel][Root]

Compares(fs, rem, eq, res) ==
    /\ FramesTyped(fs, rem, eq, res) /\ StackFits(fs)
    /\ AlikeIn(fs, eq, Height(fs, rem)) /\ DifferIn(fs) /\ Derived(res)

ComparisonInv == objects \in Comparisons /\ Compares(frames, remaining, equaled, result)

Similar(n, deeper) ==
    [q \in Questions |-> n > 0 /\ SameShape(q) /\ \A below \in Below(q) : deeper[below]]

LEMMA SimilarStarts ==
    \A a, b : Similar(0, a) = Similar(0, b)
  BY DEF Similar

Similars(f, n) == f = [i \in 0 .. n |-> Similar(i, f[i - 1])]

LEMMA SimilarsExist ==
    ASSUME NEW N \in Nat
    PROVE  \E f : Similars(f, N)
<1> DEFINE Bad == {n \in Nat : ~\E f : Similars(f, n)}
<1> SUFFICES ASSUME Bad # {} PROVE FALSE
  OBVIOUS
<1>1. PICK n \in Bad : \A m \in Bad : n <= m
  BY LeastElement
<1>2. n # 0
  <2> DEFINE g == [i \in 0 .. 0 |-> Similar(0, 0)]
  <2>1. g = [i \in 0 .. 0 |-> Similar(i, g[i - 1])]
    <3>1. \A i \in 0 .. 0 : Similar(i, g[i - 1]) = Similar(0, 0)
      BY SimilarStarts
    <3> HIDE DEF g
    <3>2. [i \in 0 .. 0 |-> Similar(i, g[i - 1])] = [i \in 0 .. 0 |-> Similar(0, 0)]
      BY <3>1
    <3> QED
      BY <3>2 DEF g
  <2>2. Similars(g, 0)
    BY <2>1 DEF Similars
  <2> QED
    BY <2>2
<1>3. n - 1 \in Nat /\ n - 1 \notin Bad
  BY <1>1, <1>2
<1>4. PICK f : Similars(f, n - 1)
  BY <1>3
<1> DEFINE g == [i \in 0 .. n |-> IF i < n THEN f[i] ELSE Similar(n, f[n - 1])]
<1>5. \A i \in 0 .. n : i # n => g[i] = f[i]
  OBVIOUS
<1>6. \A i \in 0 .. n - 1 : f[i] = Similar(i, f[i - 1])
  BY <1>3, <1>4 DEF Similars
<1>7. ASSUME NEW i \in 0 .. n
      PROVE  g[i] = Similar(i, g[i - 1])
  <2>1. CASE i = n
    <3>1. n - 1 \in 0 .. n /\ n - 1 # n /\ n \in 0 .. n
      BY <1>3
    <3> QED
      BY <1>2, <1>3, <1>5, <2>1, <3>1
  <2>2. CASE i < n
    <3>1. i \in 0 .. n - 1 /\ g[i] = f[i]
      BY <1>3, <2>2
    <3>2. i # 0 => i - 1 \in 0 .. n /\ i - 1 # n
      BY <1>3, <2>2
    <3>3. CASE i # 0
      <4> HIDE DEF g
      <4> QED
        BY <1>5, <1>6, <3>1, <3>2, <3>3
    <3>4. CASE i = 0
      <4> HIDE DEF g
      <4>1. Similar(0, g[i - 1]) = Similar(0, f[i - 1])
        BY SimilarStarts
      <4> QED
        BY <1>6, <3>1, <3>4, <4>1
    <3> QED
      BY <3>3, <3>4
  <2> QED
    BY <1>3, <2>1, <2>2
<1>8. Similars(g, n)
  <2> DEFINE h == [i \in 0 .. n |-> Similar(i, g[i - 1])]
  <2>1. g = [i \in 0 .. n |-> g[i]]
    OBVIOUS
  <2> HIDE DEF g
  <2>2. h = [i \in 0 .. n |-> g[i]]
    BY <1>7
  <2> QED
    BY <2>1, <2>2 DEF Similars
<1> QED
  BY <1>1, <1>8

LEMMA AlikeIs ==
    \A i \in 0 .. Fuel : Alike[i] = Similar(i, Alike[i - 1])
<1>1. Fuel \in Nat
  BY ComparisonLimitsAssumption DEF Fuel, Resources
<1> DEFINE c == CHOOSE f : Similars(f, Fuel)
<1>2. Similars(c, Fuel)
  <2> HIDE DEF c
  <2>1. \E f : Similars(f, Fuel)
    BY <1>1, SimilarsExist
  <2> QED
    BY <2>1 DEF c
<1>3. Alike = c
  BY Zenon DEF Alike, Similars, Similar
<1> HIDE DEF c
<1> QED
  BY <1>2, <1>3 DEF Similars

Unlike(n, deeper) ==
    [q \in Questions |-> n > 0 /\ (SameShape(q) => \E below \in Below(q) : deeper[below])]

LEMMA UnlikeStarts ==
    \A a, b : Unlike(0, a) = Unlike(0, b)
  BY DEF Unlike

Unlikes(f, n) == f = [i \in 0 .. n |-> Unlike(i, f[i - 1])]

LEMMA UnlikesExist ==
    ASSUME NEW N \in Nat
    PROVE  \E f : Unlikes(f, N)
<1> DEFINE Bad == {n \in Nat : ~\E f : Unlikes(f, n)}
<1> SUFFICES ASSUME Bad # {} PROVE FALSE
  OBVIOUS
<1>1. PICK n \in Bad : \A m \in Bad : n <= m
  BY LeastElement
<1>2. n # 0
  <2> DEFINE g == [i \in 0 .. 0 |-> Unlike(0, 0)]
  <2>1. g = [i \in 0 .. 0 |-> Unlike(i, g[i - 1])]
    <3>1. \A i \in 0 .. 0 : Unlike(i, g[i - 1]) = Unlike(0, 0)
      BY UnlikeStarts
    <3> HIDE DEF g
    <3>2. [i \in 0 .. 0 |-> Unlike(i, g[i - 1])] = [i \in 0 .. 0 |-> Unlike(0, 0)]
      BY <3>1
    <3> QED
      BY <3>2 DEF g
  <2>2. Unlikes(g, 0)
    BY <2>1 DEF Unlikes
  <2> QED
    BY <2>2
<1>3. n - 1 \in Nat /\ n - 1 \notin Bad
  BY <1>1, <1>2
<1>4. PICK f : Unlikes(f, n - 1)
  BY <1>3
<1> DEFINE g == [i \in 0 .. n |-> IF i < n THEN f[i] ELSE Unlike(n, f[n - 1])]
<1>5. \A i \in 0 .. n : i # n => g[i] = f[i]
  OBVIOUS
<1>6. \A i \in 0 .. n - 1 : f[i] = Unlike(i, f[i - 1])
  BY <1>3, <1>4 DEF Unlikes
<1>7. ASSUME NEW i \in 0 .. n
      PROVE  g[i] = Unlike(i, g[i - 1])
  <2>1. CASE i = n
    <3>1. n - 1 \in 0 .. n /\ n - 1 # n /\ n \in 0 .. n
      BY <1>3
    <3> QED
      BY <1>2, <1>3, <1>5, <2>1, <3>1
  <2>2. CASE i < n
    <3>1. i \in 0 .. n - 1 /\ g[i] = f[i]
      BY <1>3, <2>2
    <3>2. i # 0 => i - 1 \in 0 .. n /\ i - 1 # n
      BY <1>3, <2>2
    <3>3. CASE i # 0
      <4> HIDE DEF g
      <4> QED
        BY <1>5, <1>6, <3>1, <3>2, <3>3
    <3>4. CASE i = 0
      <4> HIDE DEF g
      <4>1. Unlike(0, g[i - 1]) = Unlike(0, f[i - 1])
        BY UnlikeStarts
      <4> QED
        BY <1>6, <3>1, <3>4, <4>1
    <3> QED
      BY <3>3, <3>4
  <2> QED
    BY <1>3, <2>1, <2>2
<1>8. Unlikes(g, n)
  <2> DEFINE h == [i \in 0 .. n |-> Unlike(i, g[i - 1])]
  <2>1. g = [i \in 0 .. n |-> g[i]]
    OBVIOUS
  <2> HIDE DEF g
  <2>2. h = [i \in 0 .. n |-> g[i]]
    BY <1>7
  <2> QED
    BY <2>1, <2>2 DEF Unlikes
<1> QED
  BY <1>1, <1>8

LEMMA DifferIs ==
    \A i \in 0 .. Fuel : Differ[i] = Unlike(i, Differ[i - 1])
<1>1. Fuel \in Nat
  BY ComparisonLimitsAssumption DEF Fuel, Resources
<1> DEFINE c == CHOOSE f : Unlikes(f, Fuel)
<1>2. Unlikes(c, Fuel)
  <2> HIDE DEF c
  <2>1. \E f : Unlikes(f, Fuel)
    BY <1>1, UnlikesExist
  <2> QED
    BY <2>1 DEF c
<1>3. Differ = c
  BY Zenon DEF Differ, Unlikes, Unlike
<1> HIDE DEF c
<1> QED
  BY <1>2, <1>3 DEF Unlikes

Reach(n, deeper) ==
    [at \in Values |-> [what \in Resources |->
        LET v == objects.values[at]
            beyond == [k \in DOMAIN v.kids |->
                          deeper[v.kids[k]][what]
                          + IF v.kind = "map" THEN deeper[k][what] ELSE 0]
        IN  IF n > 0 THEN Own(v, what) + SumFunction(beyond)
            ELSE IF what = "visits" THEN ComparisonLimits["visits"] + 1 ELSE 0]]

LEMMA ReachStarts ==
    \A a, b : Reach(0, a) = Reach(0, b)
  BY DEF Reach

ReachesDown(f, n) == f = [i \in 0 .. n |-> Reach(i, f[i - 1])]

LEMMA ReachesExist ==
    ASSUME NEW N \in Nat
    PROVE  \E f : ReachesDown(f, N)
<1> DEFINE Bad == {n \in Nat : ~\E f : ReachesDown(f, n)}
<1> SUFFICES ASSUME Bad # {} PROVE FALSE
  OBVIOUS
<1>1. PICK n \in Bad : \A m \in Bad : n <= m
  BY LeastElement
<1>2. n # 0
  <2> DEFINE g == [i \in 0 .. 0 |-> Reach(0, 0)]
  <2>1. g = [i \in 0 .. 0 |-> Reach(i, g[i - 1])]
    <3>1. \A i \in 0 .. 0 : Reach(i, g[i - 1]) = Reach(0, 0)
      BY ReachStarts
    <3> HIDE DEF g
    <3>2. [i \in 0 .. 0 |-> Reach(i, g[i - 1])] = [i \in 0 .. 0 |-> Reach(0, 0)]
      BY <3>1
    <3> QED
      BY <3>2 DEF g
  <2>2. ReachesDown(g, 0)
    BY <2>1 DEF ReachesDown
  <2> QED
    BY <2>2
<1>3. n - 1 \in Nat /\ n - 1 \notin Bad
  BY <1>1, <1>2
<1>4. PICK f : ReachesDown(f, n - 1)
  BY <1>3
<1> DEFINE g == [i \in 0 .. n |-> IF i < n THEN f[i] ELSE Reach(n, f[n - 1])]
<1>5. \A i \in 0 .. n : i # n => g[i] = f[i]
  OBVIOUS
<1>6. \A i \in 0 .. n - 1 : f[i] = Reach(i, f[i - 1])
  BY <1>3, <1>4 DEF ReachesDown
<1>7. ASSUME NEW i \in 0 .. n
      PROVE  g[i] = Reach(i, g[i - 1])
  <2>1. CASE i = n
    <3>1. n - 1 \in 0 .. n /\ n - 1 # n /\ n \in 0 .. n
      BY <1>3
    <3> QED
      BY <1>2, <1>3, <1>5, <2>1, <3>1
  <2>2. CASE i < n
    <3>1. i \in 0 .. n - 1 /\ g[i] = f[i]
      BY <1>3, <2>2
    <3>2. i # 0 => i - 1 \in 0 .. n /\ i - 1 # n
      BY <1>3, <2>2
    <3>3. CASE i # 0
      <4> HIDE DEF g
      <4> QED
        BY <1>5, <1>6, <3>1, <3>2, <3>3
    <3>4. CASE i = 0
      <4> HIDE DEF g
      <4>1. Reach(0, g[i - 1]) = Reach(0, f[i - 1])
        BY ReachStarts
      <4> QED
        BY <1>6, <3>1, <3>4, <4>1
    <3> QED
      BY <3>3, <3>4
  <2> QED
    BY <1>3, <2>1, <2>2
<1>8. ReachesDown(g, n)
  <2> DEFINE h == [i \in 0 .. n |-> Reach(i, g[i - 1])]
  <2>1. g = [i \in 0 .. n |-> g[i]]
    OBVIOUS
  <2> HIDE DEF g
  <2>2. h = [i \in 0 .. n |-> g[i]]
    BY <1>7
  <2> QED
    BY <2>1, <2>2 DEF ReachesDown
<1> QED
  BY <1>1, <1>8

LEMMA ExtentIs ==
    \A i \in 0 .. ComparisonDepth + 1 : Extent[i] = Reach(i, Extent[i - 1])
<1>1. ComparisonDepth + 1 \in Nat
  BY ComparisonLimitsAssumption
<1> DEFINE c == CHOOSE f : ReachesDown(f, ComparisonDepth + 1)
<1>2. ReachesDown(c, ComparisonDepth + 1)
  <2> HIDE DEF c
  <2>1. \E f : ReachesDown(f, ComparisonDepth + 1)
    BY <1>1, ReachesExist
  <2> QED
    BY <2>1 DEF c
<1>3. Extent = c
  BY Zenon DEF Extent, ReachesDown, Reach
<1> HIDE DEF c
<1> QED
  BY <1>2, <1>3 DEF ReachesDown

-----------------------------------------------------------------------------
(* SumFunctionOnSet: that the sums exist, and that elements can be taken   *)
(* away in any order.                                                      *)
Chosen(s) == CHOOSE x \in s : TRUE
Less(s) == s \ {Chosen(s)}

LEMMA LessIs ==
    ASSUME NEW s, IsFiniteSet(s), s # {}
    PROVE  /\ Chosen(s) \in s /\ Less(s) \subseteq s /\ IsFiniteSet(Less(s))
           /\ Cardinality(Less(s)) = Cardinality(s) - 1 /\ Cardinality(s) \in Nat \ {0}
<1>1. Chosen(s) \in s
  BY DEF Chosen
<1>2. IsFiniteSet(Less(s)) /\ Cardinality(Less(s)) = Cardinality(s) - 1
  BY <1>1, FS_RemoveElement DEF Less
<1>3. Cardinality(s) \in Nat /\ Cardinality(s) # 0
  BY FS_CardinalityType, FS_EmptySet
<1> QED
  BY <1>1, <1>2, <1>3 DEF Less

Accumulates(f, costs, S) ==
    f = [s \in SUBSET S |-> IF s = {} THEN 0 ELSE costs[Chosen(s)] + f[Less(s)]]

(* The sums of the sets of at most n elements. *)
Sized(costs, S, n, fewer) ==
    [s \in SUBSET S |-> IF n = 0 \/ s = {} THEN 0 ELSE costs[Chosen(s)] + fewer[Less(s)]]

LEMMA SizedStarts ==
    ASSUME NEW costs, NEW S
    PROVE  \A a, b : Sized(costs, S, 0, a) = Sized(costs, S, 0, b)
  BY DEF Sized

Sizes(f, costs, S, n) == f = [i \in 0 .. n |-> Sized(costs, S, i, f[i - 1])]

LEMMA SizesExist ==
    ASSUME NEW costs, NEW S, NEW N \in Nat
    PROVE  \E f : Sizes(f, costs, S, N)
<1> DEFINE Bad == {n \in Nat : ~\E f : Sizes(f, costs, S, n)}
<1> SUFFICES ASSUME Bad # {} PROVE FALSE
  OBVIOUS
<1>1. PICK n \in Bad : \A m \in Bad : n <= m
  BY LeastElement
<1>2. n # 0
  <2> DEFINE g == [i \in 0 .. 0 |-> Sized(costs, S, 0, 0)]
  <2>1. g = [i \in 0 .. 0 |-> Sized(costs, S, i, g[i - 1])]
    <3>1. \A i \in 0 .. 0 : Sized(costs, S, i, g[i - 1]) = Sized(costs, S, 0, 0)
      BY SizedStarts
    <3> HIDE DEF g
    <3>2. [i \in 0 .. 0 |-> Sized(costs, S, i, g[i - 1])] = [i \in 0 .. 0 |-> Sized(costs, S, 0, 0)]
      BY <3>1
    <3> QED
      BY <3>2 DEF g
  <2>2. Sizes(g, costs, S, 0)
    BY <2>1 DEF Sizes
  <2> QED
    BY <2>2
<1>3. n - 1 \in Nat /\ n - 1 \notin Bad
  BY <1>1, <1>2
<1>4. PICK f : Sizes(f, costs, S, n - 1)
  BY <1>3
<1> DEFINE g == [i \in 0 .. n |-> IF i < n THEN f[i] ELSE Sized(costs, S, n, f[n - 1])]
<1>5. \A i \in 0 .. n : i # n => g[i] = f[i]
  OBVIOUS
<1>6. \A i \in 0 .. n - 1 : f[i] = Sized(costs, S, i, f[i - 1])
  BY <1>3, <1>4 DEF Sizes
<1>7. ASSUME NEW i \in 0 .. n
      PROVE  g[i] = Sized(costs, S, i, g[i - 1])
  <2>1. CASE i = n
    <3>1. n - 1 \in 0 .. n /\ n - 1 # n /\ n \in 0 .. n
      BY <1>3
    <3> QED
      BY <1>2, <1>3, <1>5, <2>1, <3>1
  <2>2. CASE i < n
    <3>1. i \in 0 .. n - 1 /\ g[i] = f[i]
      BY <1>3, <2>2
    <3>2. i # 0 => i - 1 \in 0 .. n /\ i - 1 # n
      BY <1>3, <2>2
    <3>3. CASE i # 0
      <4> HIDE DEF g
      <4> QED
        BY <1>5, <1>6, <3>1, <3>2, <3>3
    <3>4. CASE i = 0
      <4> HIDE DEF g
      <4>1. Sized(costs, S, 0, g[i - 1]) = Sized(costs, S, 0, f[i - 1])
        BY SizedStarts
      <4> QED
        BY <1>6, <3>1, <3>4, <4>1
    <3> QED
      BY <3>3, <3>4
  <2> QED
    BY <1>3, <2>1, <2>2
<1>8. Sizes(g, costs, S, n)
  <2> DEFINE h == [i \in 0 .. n |-> Sized(costs, S, i, g[i - 1])]
  <2>1. g = [i \in 0 .. n |-> g[i]]
    OBVIOUS
  <2> HIDE DEF g
  <2>2. h = [i \in 0 .. n |-> g[i]]
    BY <1>7
  <2> QED
    BY <2>1, <2>2 DEF Sizes
<1> QED
  BY <1>1, <1>8

LEMMA SumsExist ==
    ASSUME NEW costs, NEW S, IsFiniteSet(S)
    PROVE  \E f : Accumulates(f, costs, S)
<1>1. PICK N \in Nat : N = Cardinality(S)
  BY FS_CardinalityType
<1>2. PICK F : Sizes(F, costs, S, N)
  BY SizesExist
<1>3. \A n \in 0 .. N : F[n] = Sized(costs, S, n, F[n - 1])
  BY <1>2 DEF Sizes
<1>4. \A s \in SUBSET S : IsFiniteSet(s) /\ Cardinality(s) \in Nat /\ Cardinality(s) <= N
  BY <1>1, FS_Subset, FS_CardinalityType
<1> DEFINE Bad == {n \in 0 .. N - 1 : \E s \in SUBSET S : Cardinality(s) <= n /\ F[n + 1][s] # F[n][s]}
<1>5. Bad = {}
  <2> SUFFICES ASSUME Bad # {} PROVE FALSE
    OBVIOUS
  <2>0. Bad \subseteq Nat
    OBVIOUS
  <2>1. PICK n \in Bad : \A m \in Bad : n <= m
    BY <2>0, LeastElement
  <2>2. PICK s \in SUBSET S : Cardinality(s) <= n /\ F[n + 1][s] # F[n][s]
    BY <2>1
  <2>3. n \in 0 .. N /\ n + 1 \in 0 .. N /\ n + 1 # 0 /\ n + 1 - 1 = n
    BY <1>1, <2>1
  <2>4. F[n + 1] = Sized(costs, S, n + 1, F[n]) /\ F[n] = Sized(costs, S, n, F[n - 1])
    BY <1>3, <2>3
  <2>5. s # {}
    <3> SUFFICES ASSUME s = {} PROVE FALSE
      OBVIOUS
    <3>1. F[n + 1][s] = 0 /\ F[n][s] = 0
      BY <2>4 DEF Sized
    <3> QED
      BY <2>2, <3>1
  <2>6. /\ Less(s) \in SUBSET S /\ Cardinality(Less(s)) = Cardinality(s) - 1
        /\ Cardinality(s) \in Nat \ {0}
    BY <1>4, <2>5, LessIs
  <2>7. n # 0 /\ n - 1 \in 0 .. N - 1 /\ n - 1 \notin Bad /\ n - 1 + 1 = n
    BY <2>1, <2>2, <2>3, <2>6
  <2>8. Cardinality(Less(s)) <= n - 1
    BY <2>2, <2>3, <2>6
  <2>9. F[n][Less(s)] = F[n - 1][Less(s)]
    BY <2>6, <2>7, <2>8
  <2>10. F[n + 1][s] = costs[Chosen(s)] + F[n][Less(s)]
    BY <2>3, <2>4, <2>5 DEF Sized
  <2>11. F[n][s] = costs[Chosen(s)] + F[n - 1][Less(s)]
    BY <2>4, <2>5, <2>7 DEF Sized
  <2> QED
    BY <2>2, <2>9, <2>10, <2>11
<1>6. ASSUME NEW s \in SUBSET S
      PROVE  F[N][s] = IF s = {} THEN 0 ELSE costs[Chosen(s)] + F[N][Less(s)]
  <2>1. F[N] = Sized(costs, S, N, F[N - 1])
    BY <1>1, <1>3
  <2>2. CASE s = {}
    BY <2>1, <2>2 DEF Sized
  <2>3. CASE s # {}
    <3>1. /\ Less(s) \in SUBSET S /\ Cardinality(Less(s)) = Cardinality(s) - 1
          /\ Cardinality(s) \in Nat \ {0}
      BY <1>4, <2>3, LessIs
    <3>2. Cardinality(Less(s)) <= N - 1 /\ N # 0 /\ N - 1 \in 0 .. N - 1 /\ N - 1 + 1 = N
      BY <1>1, <1>4, <3>1
    <3>3. F[N][Less(s)] = F[N - 1][Less(s)]
      BY <1>5, <3>1, <3>2
    <3>4. F[N][s] = costs[Chosen(s)] + F[N - 1][Less(s)]
      BY <2>1, <2>3, <3>2 DEF Sized
    <3> QED
      BY <2>3, <3>3, <3>4
  <2> QED
    BY <2>2, <2>3
<1> DEFINE h == [s \in SUBSET S |-> IF s = {} THEN 0 ELSE costs[Chosen(s)] + F[N][Less(s)]]
<1>7. F[N] = [s \in SUBSET S |-> F[N][s]]
  <2>1. PICK d : F[N] = Sized(costs, S, N, d)
    BY <1>1, <1>3
  <2>2. Sized(costs, S, N, d) = [s \in SUBSET S |-> Sized(costs, S, N, d)[s]]
    BY DEF Sized
  <2> QED
    BY <2>1, <2>2
<1>8. h = [s \in SUBSET S |-> F[N][s]]
  BY <1>6
<1> QED
  BY <1>7, <1>8 DEF Accumulates

LEMMA SumIsOf ==
    ASSUME NEW costs, NEW S, IsFiniteSet(S)
    PROVE  \E f : Accumulates(f, costs, S) /\ SumFunctionOnSet(costs, S) = f[S]
<1> DEFINE c == CHOOSE f : Accumulates(f, costs, S)
<1>1. Accumulates(c, costs, S)
  <2> HIDE DEF c
  <2>1. \E f : Accumulates(f, costs, S)
    BY SumsExist
  <2> QED
    BY <2>1 DEF c
<1>2. SumFunctionOnSet(costs, S) = c[S]
  BY Zenon DEF SumFunctionOnSet, FoldFunctionOnSet, MapThenFoldSet, Accumulates, Chosen, Less
<1> QED
  BY <1>1, <1>2

LEMMA SumsAgree ==
    ASSUME NEW costs, NEW S, NEW T, IsFiniteSet(S), NEW f, NEW h,
           Accumulates(f, costs, S), Accumulates(h, costs, T)
    PROVE  \A s \in SUBSET (S \cap T) : f[s] = h[s]
<1> DEFINE Bad == {n \in Nat : \E s \in SUBSET (S \cap T) : Cardinality(s) = n /\ f[s] # h[s]}
<1>1. \A s \in SUBSET (S \cap T) : IsFiniteSet(s) /\ Cardinality(s) \in Nat
  BY FS_Subset, FS_CardinalityType
<1>2. ASSUME NEW s \in SUBSET (S \cap T)
      PROVE  /\ f[s] = IF s = {} THEN 0 ELSE costs[Chosen(s)] + f[Less(s)]
             /\ h[s] = IF s = {} THEN 0 ELSE costs[Chosen(s)] + h[Less(s)]
  BY DEF Accumulates
<1>3. Bad = {}
  <2> SUFFICES ASSUME Bad # {} PROVE FALSE
    OBVIOUS
  <2>1. PICK n \in Bad : \A m \in Bad : n <= m
    BY LeastElement
  <2>2. PICK s \in SUBSET (S \cap T) : Cardinality(s) = n /\ f[s] # h[s]
    BY <2>1
  <2>3. s # {}
    BY <1>2, <2>2
  <2>4. /\ Less(s) \in SUBSET (S \cap T) /\ Cardinality(Less(s)) = n - 1
        /\ n \in Nat \ {0}
    BY <1>1, <2>2, <2>3, LessIs
  <2>5. n - 1 \in Nat /\ n - 1 \notin Bad
    BY <2>1, <2>4
  <2>6. f[Less(s)] = h[Less(s)]
    BY <2>4, <2>5
  <2> QED
    BY <1>2, <2>2, <2>3, <2>6
<1> QED
  BY <1>1, <1>3

LEMMA SumSteps ==
    ASSUME NEW costs, NEW S, IsFiniteSet(S), \A x \in S : costs[x] \in Nat,
           NEW f, Accumulates(f, costs, S)
    PROVE  \A s \in SUBSET S :
              f[s] \in Nat /\ \A x \in s : f[s] = costs[x] + f[s \ {x}]
<1> DEFINE TakesAway(s) == f[s] \in Nat /\ \A x \in s : f[s] = costs[x] + f[s \ {x}]
           Bad == {n \in Nat : \E s \in SUBSET S : Cardinality(s) = n /\ ~TakesAway(s)}
<1>1. \A s \in SUBSET S : IsFiniteSet(s) /\ Cardinality(s) \in Nat
  BY FS_Subset, FS_CardinalityType
<1>2. \A s \in SUBSET S : f[s] = IF s = {} THEN 0 ELSE costs[Chosen(s)] + f[Less(s)]
  BY DEF Accumulates
<1>3. Bad = {}
  <2> SUFFICES ASSUME Bad # {} PROVE FALSE
    OBVIOUS
  <2>0. Bad \subseteq Nat
    OBVIOUS
  <2>1. PICK n \in Bad : \A m \in Bad : n <= m
    BY <2>0, LeastElement
  <2>2. PICK s \in SUBSET S : Cardinality(s) = n /\ ~TakesAway(s)
    BY <2>1
  <2>3. s # {}
    <3>1. f[{}] = 0
      BY <1>2
    <3>2. TakesAway({})
      <4>1. f[{}] \in Nat
        BY <3>1
      <4>2. \A x \in {} : f[{}] = costs[x] + f[{} \ {x}]
        OBVIOUS
      <4> QED
        BY <4>1, <4>2
    <3> QED
      BY <2>2, <3>2, Zenon
  <2>4. \A t \in SUBSET s : t # s => TakesAway(t)
    <3> SUFFICES ASSUME NEW t \in SUBSET s, t # s PROVE TakesAway(t)
      OBVIOUS
    <3>1. Cardinality(t) < n /\ Cardinality(t) \in Nat /\ t \in SUBSET S
      BY <1>1, <2>2, FS_Subset
    <3>2. Cardinality(t) \notin Bad
      BY <2>0, <2>1, <3>1
    <3> QED
      BY <3>1, <3>2
  <2>5. PICK y : y = Chosen(s)
    OBVIOUS
  <2>6. y \in s /\ Less(s) = s \ {y} /\ f[s] = costs[y] + f[s \ {y}]
    BY <1>1, <1>2, <2>3, <2>5, LessIs DEF Less
  <2>7. f[s] \in Nat
    BY <2>4, <2>6
  <2>8. ASSUME NEW x \in s
        PROVE  f[s] = costs[x] + f[s \ {x}]
    <3>1. CASE x = y
      BY <2>6, <3>1
    <3>2. CASE x # y
      <4>1. PICK both : both = s \ {x, y}
        OBVIOUS
      <4>2. (s \ {y}) \ {x} = both /\ (s \ {x}) \ {y} = both
        BY <4>1
      <4>3. f[s \ {y}] = costs[x] + f[both]
        BY <2>4, <2>6, <3>2, <4>2
      <4>4. f[s \ {x}] = costs[y] + f[both]
        BY <2>4, <2>6, <2>8, <3>2, <4>2
      <4>5. f[both] \in Nat /\ costs[x] \in Nat /\ costs[y] \in Nat
        BY <2>4, <2>6, <2>8, <4>1
      <4> QED
        BY <2>6, <4>3, <4>4, <4>5
    <3> QED
      BY <3>1, <3>2
  <2> QED
    BY <2>2, <2>7, <2>8
<1> QED
  BY <1>1, <1>3

LEMMA SumTakes ==
    ASSUME NEW costs, NEW S, IsFiniteSet(S), \A x \in S : costs[x] \in Nat
    PROVE  /\ SumFunctionOnSet(costs, S) \in Nat
           /\ SumFunctionOnSet(costs, {}) = 0
           /\ \A x \in S : SumFunctionOnSet(costs, S)
                           = costs[x] + SumFunctionOnSet(costs, S \ {x})
<1>1. PICK f : Accumulates(f, costs, S) /\ SumFunctionOnSet(costs, S) = f[S]
  BY SumIsOf
<1>2. f[S] \in Nat /\ \A x \in S : f[S] = costs[x] + f[S \ {x}]
  BY <1>1, SumSteps
<1>3. ASSUME NEW x \in S
      PROVE  SumFunctionOnSet(costs, S \ {x}) = f[S \ {x}]
  <2>1. PICK T : T = S \ {x}
    OBVIOUS
  <2>2. IsFiniteSet(T)
    BY <2>1, FS_RemoveElement
  <2>3. PICK h : Accumulates(h, costs, T) /\ SumFunctionOnSet(costs, T) = h[T]
    BY <2>2, SumIsOf
  <2>4. \A s \in SUBSET (S \cap T) : f[s] = h[s]
    BY <1>1, <2>3, SumsAgree
  <2> QED
    BY <2>1, <2>3, <2>4
<1>4. SumFunctionOnSet(costs, {}) = 0
  <2>1. PICK h : Accumulates(h, costs, {}) /\ SumFunctionOnSet(costs, {}) = h[{}]
    BY SumIsOf, FS_EmptySet
  <2> QED
    BY <2>1 DEF Accumulates
<1> QED
  BY <1>1, <1>2, <1>3, <1>4

-----------------------------------------------------------------------------
(* Derivations: what a level says, and that more levels say no less.       *)
LEMMA FuelIs == Fuel \in Nat /\ ComparisonDepth \in Nat
  BY ComparisonLimitsAssumption DEF Fuel, Resources

LEMMA AlikeMeans ==
    ASSUME NEW q \in Questions
    PROVE  /\ ~Alike[0][q]
           /\ \A n \in 1 .. Fuel : Alike[n][q] <=> SameShape(q) /\ \A below \in Below(q) : Alike[n - 1][below]
<1>1. \A n \in 0 .. Fuel : Alike[n][q] = (n > 0 /\ SameShape(q) /\ \A below \in Below(q) : Alike[n - 1][below])
  BY AlikeIs DEF Similar
<1>2. ~(0 > 0) /\ 0 \in 0 .. Fuel /\ \A n \in 1 .. Fuel : n > 0 /\ n \in 0 .. Fuel
  BY FuelIs
<1> QED
  BY <1>1, <1>2, Zenon

LEMMA DifferMeans ==
    ASSUME NEW q \in Questions
    PROVE  /\ ~Differ[0][q]
           /\ \A n \in 1 .. Fuel : Differ[n][q] <=> (SameShape(q) => \E below \in Below(q) : Differ[n - 1][below])
<1>1. \A n \in 0 .. Fuel : Differ[n][q] = (n > 0 /\ (SameShape(q) => \E below \in Below(q) : Differ[n - 1][below]))
  BY DifferIs DEF Unlike
<1>2. ~(0 > 0) /\ 0 \in 0 .. Fuel /\ \A n \in 1 .. Fuel : n > 0 /\ n \in 0 .. Fuel
  BY FuelIs
<1> QED
  BY <1>1, <1>2, Zenon

(* Of objects that are among Comparisons. *)
LEMMA ObjectsAre ==
    ASSUME objects \in Comparisons
    PROVE  /\ NoValue \notin Values
           /\ \A at \in Values : ValueWellFormed(objects.values, objects.values[at])
           /\ \A a, b \in Values : TypeOf(a) = TypeOf(b) => TypesAgree(objects.values, a, b)
           /\ objects.left \in Values /\ objects.right \in Values
           /\ TypeOf(objects.left) = TypeOf(objects.right)
  BY ComparisonsAssumption DEF Values

LEMMA KidsAre ==
    ASSUME objects \in Comparisons, NEW at \in Values, NEW k \in DOMAIN objects.values[at].kids
    PROVE  objects.values[at].kids[k] \in Values
<1>1. ValueWellFormed(objects.values, objects.values[at])
  BY ObjectsAre
<1>2. CASE objects.values[at].kind = "map"
  BY <1>1, <1>2 DEF ValueWellFormed, Values
<1>3. CASE objects.values[at].kind # "map"
  <2>1. objects.values[at].kids \in Seq(Values)
    BY <1>1, <1>3 DEF ValueWellFormed, Values
  <2> QED
    BY <2>1
<1> QED
  BY <1>2, <1>3

LEMMA KidIs ==
    ASSUME objects \in Comparisons, NEW q \in Questions, NEW k \in Both(q)
    PROVE  Kid(q, k) \in Questions /\ Kid(q, k) \in Below(q)
<1>1. LeftOf(q).kids[k] \in Values /\ RightOf(q).kids[k] \in Values
  BY KidsAre DEF Both, LeftOf, RightOf, Questions
<1> QED
  BY <1>1 DEF Kid, Ask, Below, Both, Questions

LEMMA BelowIs ==
    ASSUME objects \in Comparisons, NEW q \in Questions
    PROVE  Below(q) \subseteq Questions /\ \A below \in Below(q) : \E k \in Both(q) : below = Kid(q, k)
  BY KidIs DEF Below, Both

LEMMA AlikeRises ==
    ASSUME objects \in Comparisons, NEW n \in 0 .. Fuel, NEW q \in Questions, Alike[n][q]
    PROVE  \A m \in n .. Fuel : Alike[m][q]
<1> DEFINE Bad == {m \in 0 .. Fuel - 1 : \E p \in Questions : Alike[m][p] /\ ~Alike[m + 1][p]}
<1>1. Bad = {}
  <2> SUFFICES ASSUME Bad # {} PROVE FALSE
    OBVIOUS
  <2>0. Bad \subseteq Nat
    OBVIOUS
  <2>1. PICK m \in Bad : \A j \in Bad : m <= j
    BY <2>0, LeastElement
  <2>2. PICK p \in Questions : Alike[m][p] /\ ~Alike[m + 1][p]
    BY <2>1
  <2>3. m # 0
    BY <2>2, AlikeMeans
  <2>4. m \in 1 .. Fuel /\ m + 1 \in 1 .. Fuel /\ m - 1 \in 0 .. Fuel - 1 /\ m + 1 - 1 = m
        /\ m - 1 + 1 = m /\ m - 1 \notin Bad
    BY <2>1, <2>3, FuelIs
  <2>5. SameShape(p) /\ \A below \in Below(p) : Alike[m - 1][below]
    BY <2>2, <2>4, AlikeMeans
  <2>6. \A below \in Below(p) : Alike[m][below]
    BY <2>4, <2>5, BelowIs
  <2> QED
    BY <2>2, <2>4, <2>5, <2>6, AlikeMeans
<1> DEFINE Low == {m \in n .. Fuel : ~Alike[m][q]}
<1>2. Low = {}
  <2> SUFFICES ASSUME Low # {} PROVE FALSE
    OBVIOUS
  <2>0. Low \subseteq Nat
    OBVIOUS
  <2>1. PICK m \in Low : \A j \in Low : m <= j
    BY <2>0, LeastElement
  <2>2. m # n
    BY <2>1
  <2>3. m - 1 \in n .. Fuel /\ m - 1 \notin Low /\ m - 1 \in 0 .. Fuel - 1 /\ m - 1 + 1 = m
    BY <2>1, <2>2, FuelIs
  <2>4. Alike[m - 1][q]
    BY <2>3
  <2> QED
    BY <1>1, <2>1, <2>3, <2>4
<1> QED
  BY <1>2

LEMMA DifferRises ==
    ASSUME objects \in Comparisons, NEW n \in 0 .. Fuel, NEW q \in Questions, Differ[n][q]
    PROVE  \A m \in n .. Fuel : Differ[m][q]
<1> DEFINE Bad == {m \in 0 .. Fuel - 1 : \E p \in Questions : Differ[m][p] /\ ~Differ[m + 1][p]}
<1>1. Bad = {}
  <2> SUFFICES ASSUME Bad # {} PROVE FALSE
    OBVIOUS
  <2>0. Bad \subseteq Nat
    OBVIOUS
  <2>1. PICK m \in Bad : \A j \in Bad : m <= j
    BY <2>0, LeastElement
  <2>2. PICK p \in Questions : Differ[m][p] /\ ~Differ[m + 1][p]
    BY <2>1
  <2>3. m # 0
    BY <2>2, DifferMeans
  <2>4. m \in 1 .. Fuel /\ m + 1 \in 1 .. Fuel /\ m - 1 \in 0 .. Fuel - 1 /\ m + 1 - 1 = m
        /\ m - 1 + 1 = m /\ m - 1 \notin Bad
    BY <2>1, <2>3, FuelIs
  <2>5. SameShape(p) => \E below \in Below(p) : Differ[m - 1][below]
    BY <2>2, <2>4, DifferMeans
  <2>6. SameShape(p) => \E below \in Below(p) : Differ[m][below]
    BY <2>4, <2>5, BelowIs
  <2> QED
    BY <2>2, <2>4, <2>6, DifferMeans
<1> DEFINE Low == {m \in n .. Fuel : ~Differ[m][q]}
<1>2. Low = {}
  <2> SUFFICES ASSUME Low # {} PROVE FALSE
    OBVIOUS
  <2>0. Low \subseteq Nat
    OBVIOUS
  <2>1. PICK m \in Low : \A j \in Low : m <= j
    BY <2>0, LeastElement
  <2>2. m # n
    BY <2>1
  <2>3. m - 1 \in n .. Fuel /\ m - 1 \notin Low /\ m - 1 \in 0 .. Fuel - 1 /\ m - 1 + 1 = m
    BY <2>1, <2>2, FuelIs
  <2>4. Differ[m - 1][q]
    BY <2>3
  <2> QED
    BY <1>1, <2>1, <2>3, <2>4
<1> QED
  BY <1>2

-----------------------------------------------------------------------------
(* The shape of two values of one type. *)
LEMMA SidesAre ==
    ASSUME objects \in Comparisons, NEW q \in Questions, SameType(q)
    PROVE  /\ ValueWellFormed(objects.values, LeftOf(q)) /\ ValueWellFormed(objects.values, RightOf(q))
           /\ TypesAgree(objects.values, q.left, q.right)
           /\ LeftOf(q).kind = RightOf(q).kind
<1>1. q.left \in Values /\ q.right \in Values
  BY DEF Questions
<1>2. TypesAgree(objects.values, q.left, q.right)
  BY <1>1, ObjectsAre DEF SameType
<1> QED
  BY <1>1, <1>2, ObjectsAre DEF LeftOf, RightOf, TypesAgree

(* Values whose headers are alike have the same places, unless a key of a  *)
(* map is missing.                                                         *)
LEMMA PlacesAgree ==
    ASSUME objects \in Comparisons, NEW q \in Questions, SameType(q),
           ~HeadersDiffer(q), DOMAIN LeftOf(q).kids \subseteq DOMAIN RightOf(q).kids
    PROVE  DOMAIN LeftOf(q).kids = DOMAIN RightOf(q).kids
<1> DEFINE l == LeftOf(q)
           r == RightOf(q)
<1>1. ValueWellFormed(objects.values, l) /\ ValueWellFormed(objects.values, r) /\ l.kind = r.kind
  BY SidesAre
<1>2. CASE l.kind \in Leaves
  BY <1>1, <1>2 DEF ValueWellFormed, Leaves
<1>3. CASE l.kind = "pointer"
  <2>1. l.nil = r.nil
    BY <1>3 DEF HeadersDiffer, PresenceDiffers, Nilable
  <2>2. l.kids \in Seq(DOMAIN objects.values) /\ r.kids \in Seq(DOMAIN objects.values)
    BY <1>1, <1>3 DEF ValueWellFormed
  <2>3. CASE l.nil
    BY <1>1, <2>1, <2>3 DEF ValueWellFormed
  <2>4. CASE ~l.nil
    <3>1. Len(l.kids) = 1 /\ Len(r.kids) = 1
      BY <1>1, <1>3, <2>1, <2>4 DEF ValueWellFormed
    <3> QED
      BY <2>2, <3>1
  <2> QED
    BY <2>3, <2>4
<1>4. CASE l.kind = "struct"
  <2>1. Len(l.kids) = Len(r.kids)
    BY <1>4, SidesAre DEF TypesAgree, LeftOf, RightOf
  <2>2. l.kids \in Seq(DOMAIN objects.values) /\ r.kids \in Seq(DOMAIN objects.values)
    BY <1>1, <1>4 DEF ValueWellFormed
  <2> QED
    BY <2>1, <2>2
<1>5. CASE l.kind \in {"slice", "map"}
  <2>1. l.size = r.size
    <3>1. CASE BothNil(q)
      BY <1>1, <3>1 DEF BothNil, ValueWellFormed
    <3>2. CASE ~BothNil(q)
      BY <1>5, <3>2 DEF HeadersDiffer, SizeDiffers
    <3> QED
      BY <3>1, <3>2
  <2>2. CASE l.kind = "slice"
    <3>1. l.kids \in Seq(DOMAIN objects.values) /\ r.kids \in Seq(DOMAIN objects.values)
      BY <1>1, <2>2 DEF ValueWellFormed
    <3>2. Len(l.kids) = Len(r.kids)
      BY <1>1, <2>1, <2>2 DEF ValueWellFormed
    <3> QED
      BY <3>1, <3>2
  <2>3. CASE l.kind = "map"
    <3>1. /\ IsFiniteSet(DOMAIN l.kids) /\ IsFiniteSet(DOMAIN r.kids)
          /\ Cardinality(DOMAIN l.kids) = Cardinality(DOMAIN r.kids)
      BY <1>1, <2>1, <2>3 DEF ValueWellFormed
    <3> QED
      BY <3>1, FS_Subset
  <2> QED
    BY <1>5, <2>2, <2>3
<1> QED
  BY <1>1, <1>2, <1>3, <1>4, <1>5 DEF ValueWellFormed

LEMMA HeadersShape ==
    ASSUME objects \in Comparisons, NEW q \in Questions, SameType(q), ~HeadersDiffer(q),
           DOMAIN LeftOf(q).kids \subseteq DOMAIN RightOf(q).kids,
           IsLeaf(q) => BothNil(q) \/ AtomsEqual(q)
    PROVE  SameShape(q)
<1> DEFINE l == LeftOf(q)
           r == RightOf(q)
<1>1. ValueWellFormed(objects.values, l) /\ ValueWellFormed(objects.values, r) /\ l.kind = r.kind
  BY SidesAre
<1>2. DOMAIN l.kids = DOMAIN r.kids
  BY PlacesAgree
<1>3. q.field => l.nil = r.nil
  <2>1. CASE l.kind \in Nilable
    BY <2>1 DEF HeadersDiffer, PresenceDiffers
  <2>2. CASE l.kind \notin Nilable
    BY <1>1, <2>2 DEF ValueWellFormed
  <2> QED
    BY <2>1, <2>2
<1>4. IsLeaf(q) => AtomsEqual(q)
  <2> SUFFICES ASSUME IsLeaf(q), BothNil(q) PROVE AtomsEqual(q)
    OBVIOUS
  <2>1. l.kind = "bytes" /\ l.size = 0 /\ r.size = 0
    BY <1>1 DEF BothNil, IsLeaf, Leaves, Nilable, ValueWellFormed
  <2> QED
    BY <2>1, SidesAre DEF TypesAgree, AtomsEqual, LeftOf, RightOf
<1> QED
  BY <1>2, <1>3, <1>4 DEF SameShape

LEMMA HeadersDifferShape ==
    ASSUME objects \in Comparisons, NEW q \in Questions, SameType(q), HeadersDiffer(q)
    PROVE  ~SameShape(q) /\ ~OfKey(q)
<1> DEFINE l == LeftOf(q)
           r == RightOf(q)
<1>1. ValueWellFormed(objects.values, l) /\ ValueWellFormed(objects.values, r) /\ l.kind = r.kind
  BY SidesAre
<1>2. ~OfKey(q)
  BY DEF OfKey, HeadersDiffer, PresenceDiffers, SizeDiffers, LeftOf, RightOf
<1>3. ASSUME PresenceDiffers(q) PROVE ~SameShape(q)
  <2>1. CASE q.field
    BY <1>3, <2>1 DEF PresenceDiffers, SameShape
  <2>2. CASE l.kind = "pointer"
    <3>1. l.kids \in Seq(DOMAIN objects.values) /\ r.kids \in Seq(DOMAIN objects.values)
      BY <1>1, <2>2 DEF ValueWellFormed
    <3>2. l.nil # r.nil /\ l.nil \in BOOLEAN /\ r.nil \in BOOLEAN
      BY <1>1, <1>3 DEF PresenceDiffers, ValueWellFormed
    <3>3. /\ Len(l.kids) = IF l.nil THEN 0 ELSE 1
          /\ Len(r.kids) = IF r.nil THEN 0 ELSE 1
      BY <1>1, <2>2 DEF ValueWellFormed
    <3>4. Len(l.kids) # Len(r.kids)
      BY <3>2, <3>3
    <3>5. DOMAIN l.kids # DOMAIN r.kids
      BY <3>1, <3>4
    <3> QED
      BY <3>5 DEF SameShape
  <2> QED
    BY <1>3, <2>1, <2>2 DEF PresenceDiffers
<1>4. ASSUME SizeDiffers(q) PROVE ~SameShape(q)
  <2>1. l.size # r.size
    BY <1>4 DEF SizeDiffers
  <2>2. CASE l.kind \in {"string", "bytes"}
    BY <2>1, <2>2, SidesAre DEF TypesAgree, SameShape, IsLeaf, Leaves, AtomsEqual, LeftOf, RightOf
  <2>3. CASE l.kind = "slice"
    <3>1. l.kids \in Seq(DOMAIN objects.values) /\ r.kids \in Seq(DOMAIN objects.values)
      BY <1>1, <2>3 DEF ValueWellFormed
    <3>2. Len(l.kids) # Len(r.kids)
      BY <1>1, <2>1, <2>3 DEF ValueWellFormed
    <3>3. DOMAIN l.kids # DOMAIN r.kids
      BY <3>1, <3>2
    <3> QED
      BY <3>3 DEF SameShape
  <2>4. CASE l.kind = "map"
    <3>1. Cardinality(DOMAIN l.kids) # Cardinality(DOMAIN r.kids)
      BY <1>1, <2>1, <2>4 DEF ValueWellFormed
    <3> QED
      BY <3>1 DEF SameShape
  <2> QED
    BY <1>4, <2>2, <2>3, <2>4 DEF SizeDiffers
<1> QED
  BY <1>2, <1>3, <1>4 DEF HeadersDiffer

-----------------------------------------------------------------------------
(* One step of the comparison. *)
LEMMA TopIs ==
    ASSUME NEW fs \in Seq(FrameSpace), fs # <<>>
    PROVE  /\ Len(fs) \in Nat \ {0} /\ Last(fs) = fs[Len(fs)] /\ Last(fs) \in FrameSpace
           /\ Last(fs).question \in Questions
           /\ Front(fs) \in Seq(FrameSpace) /\ Len(Front(fs)) = Len(fs) - 1
           /\ \A i \in 1 .. Len(fs) - 1 : Front(fs)[i] = fs[i]
<1>1. Len(fs) \in Nat \ {0} /\ Last(fs) = fs[Len(fs)]
  BY DEF Last
<1>2. Last(fs) \in FrameSpace
  BY <1>1
<1>3. Last(fs).question \in Questions
  BY <1>2 DEF FrameSpace
<1>4. /\ Front(fs) \in Seq(FrameSpace) /\ Len(Front(fs)) = Len(fs) - 1
      /\ \A i \in 1 .. Len(fs) - 1 : Front(fs)[i] = fs[i]
  <2>1. Front(fs) = SubSeq(fs, 1, Len(fs) - 1)
    BY DEF Front
  <2>2. SubSeq(fs, 1, Len(fs) - 1) = [i \in 1 .. Len(fs) - 1 |-> fs[i]]
    BY <1>1
  <2>3. PICK m \in Nat : m = Len(fs) - 1
    BY <1>1
  <2>4. \A i \in 1 .. m : fs[i] \in FrameSpace
    BY <1>1, <2>3
  <2> DEFINE g == [i \in 1 .. m |-> fs[i]]
  <2>5. g \in [1 .. m -> FrameSpace]
    BY <2>4
  <2>6. g \in Seq(FrameSpace) /\ Len(g) = m
    BY <2>5
  <2> QED
    BY <2>1, <2>2, <2>3, <2>6
<1> QED
  BY <1>1, <1>2, <1>3, <1>4

LEMMA SpentIs ==
    ASSUME NEW rem \in Remains
    PROVE  rem["visits"] \in Nat
  BY DEF Remains, Resources

(* A question that is visited leaves room for a derivation of its level. *)
LEMMA VisitedLevel ==
    ASSUME ComparisonInv, Asked, ~VisitDenied
    PROVE  /\ Len(frames) \in 1 .. Fuel /\ Len(frames) <= ComparisonDepth + 1
           /\ OpenIn(frames) = Len(frames) - 1 /\ remaining["visits"] \in Nat \ {0}
           /\ Height(frames, remaining) = Fuel - remaining["visits"] - (Len(frames) - 1)
           /\ Height(frames, remaining) + 1 \in 1 .. Fuel
<1>1. frames \in Seq(FrameSpace) /\ remaining \in Remains /\ frames # <<>>
  BY DEF ComparisonInv, Compares, FramesTyped, Asked
<1>2. Top = frames[Len(frames)] /\ Len(frames) \in Nat \ {0}
  BY <1>1, TopIs DEF Top
<1>3. OpenIn(frames) = Len(frames) - 1
  BY <1>1, <1>2 DEF OpenIn, Asked
<1>4. remaining["visits"] \in Nat \ {0} /\ Len(frames) - 1 <= ComparisonDepth
  BY <1>1, <1>2, SpentIs, FuelIs DEF VisitDenied, Depth
<1>5. Height(frames, remaining) = Fuel - remaining["visits"] - (Len(frames) - 1)
  BY <1>3 DEF Height, Fuel
<1>6. Height(frames, remaining) \in 0 .. Fuel
  BY DEF ComparisonInv, Compares, FramesTyped
<1> QED
  BY <1>2, <1>3, <1>4, <1>5, <1>6, FuelIs

LEMMA EnteredLevel ==
    ASSUME ComparisonInv, Entered
    PROVE  /\ Len(frames) \in 1 .. Fuel
           /\ OpenIn(frames) = Len(frames) /\ remaining["visits"] \in Nat
           /\ Height(frames, remaining) = Fuel - remaining["visits"] - Len(frames)
           /\ Height(frames, remaining) + 1 \in 1 .. Fuel
<1>1. frames \in Seq(FrameSpace) /\ remaining \in Remains /\ frames # <<>>
  BY DEF ComparisonInv, Compares, FramesTyped, Entered
<1>2. Top = frames[Len(frames)] /\ Len(frames) \in Nat \ {0}
  BY <1>1, TopIs DEF Top
<1>3. OpenIn(frames) = Len(frames)
  BY <1>1, <1>2 DEF OpenIn, Entered
<1>4. remaining["visits"] \in Nat
  BY <1>1, SpentIs
<1>5. Height(frames, remaining) = Fuel - remaining["visits"] - Len(frames)
  BY <1>3 DEF Height, Fuel
<1>6. Height(frames, remaining) \in 0 .. Fuel
  BY DEF ComparisonInv, Compares, FramesTyped
<1> QED
  BY <1>2, <1>3, <1>4, <1>5, <1>6, FuelIs

(* What all of the invariant says of the call at the top. *)
LEMMA TopFits ==
    ASSUME ComparisonInv, frames # <<>>
    PROVE  /\ Top.question \in Questions /\ FrameFits(Top) /\ SameType(Top.question)
           /\ LeadsUp(Top.question, Len(frames)) /\ DoneAlike(Top, Height(frames, remaining))
           /\ result = "none" /\ Top \in FrameSpace
<1>1. frames \in Seq(FrameSpace)
  BY DEF ComparisonInv, Compares, FramesTyped
<1>2. Top = frames[Len(frames)] /\ Len(frames) \in 1 .. Len(frames) /\ Top.question \in Questions
      /\ Top \in FrameSpace
  BY <1>1, TopIs DEF Top
<1>3. FrameFits(Top)
  BY <1>2 DEF ComparisonInv, Compares, StackFits
<1> QED
  BY <1>2, <1>3 DEF ComparisonInv, Compares, FrameFits, DifferIn, AlikeIn, FramesTyped

LEMMA EndKeeps ==
    ASSUME ComparisonInv, NEW rem \in Remains, rem["visits"] <= remaining["visits"],
           NEW answer \in {"false", "limit"}, answer = "false" => Differ[Fuel][Root]
    PROVE  Compares(<<>>, rem, equaled, answer)
<1>1. remaining \in Remains /\ frames \in Seq(FrameSpace)
  BY DEF ComparisonInv, Compares, FramesTyped
<1>2. rem["visits"] \in Nat /\ remaining["visits"] \in Nat
  BY <1>1, SpentIs
<1>3. Len(<<>>) = 0 /\ OpenIn(<<>>) = 0
  BY DEF OpenIn
<1>4. OpenIn(frames) \in Nat
  BY <1>1 DEF OpenIn
<1>5. /\ Height(frames, remaining) \in 0 .. Fuel
      /\ Height(frames, remaining) = Fuel - remaining["visits"] - OpenIn(frames)
  BY DEF ComparisonInv, Compares, FramesTyped, Height, Fuel
<1>6. Height(<<>>, rem) = Fuel - rem["visits"]
  BY <1>2, <1>3, FuelIs DEF Height, Fuel
<1>7. Height(<<>>, rem) \in Height(frames, remaining) .. Fuel
  BY <1>2, <1>4, <1>5, <1>6, FuelIs
<1>8. FramesTyped(<<>>, rem, equaled, answer)
  <2>1. Height(<<>>, rem) \in 0 .. Fuel
    BY <1>5, <1>7, FuelIs
  <2>2. equaled \subseteq Values \X Values
    BY DEF ComparisonInv, Compares, FramesTyped
  <2>3. <<>> \in Seq(FrameSpace) /\ OpenIn(<<>>) <= ComparisonDepth + 1
    BY <1>3, FuelIs
  <2> QED
    BY <2>1, <2>2, <2>3 DEF FramesTyped
<1>9. AlikeIn(<<>>, equaled, Height(<<>>, rem))
  <2>1. ASSUME NEW pair \in equaled
        PROVE  Alike[Height(<<>>, rem)][Ask(pair[1], pair[2], FALSE)]
    <3>1. Alike[Height(frames, remaining)][Ask(pair[1], pair[2], FALSE)]
      BY DEF ComparisonInv, Compares, AlikeIn
    <3>2. Ask(pair[1], pair[2], FALSE) \in Questions
      BY DEF ComparisonInv, Compares, FramesTyped, Ask, Questions
    <3> QED
      BY <1>5, <1>7, <3>1, <3>2, AlikeRises DEF ComparisonInv
  <2>2. \A i \in 1 .. Len(<<>>) : FALSE
    BY <1>3
  <2> QED
    BY <2>1, <2>2, Zenon DEF AlikeIn
<1>10. StackFits(<<>>) /\ DifferIn(<<>>)
  BY <1>3 DEF StackFits, DifferIn
<1> QED
  BY <1>8, <1>9, <1>10 DEF Compares, Derived

LEMMA DiffersAtTop ==
    ASSUME ComparisonInv, frames # <<>>, ~SameShape(Top.question), ~OfKey(Top.question),
           Len(frames) \in 1 .. Fuel
    PROVE  Differ[Fuel][Root]
<1>1. 1 \in 1 .. Fuel /\ 1 + Len(frames) - 1 = Len(frames) /\ Len(frames) <= Fuel /\ Len(frames) \in 0 .. Fuel
      /\ Fuel \in Len(frames) .. Fuel
  BY FuelIs
<1>2. Top.question \in Questions /\ LeadsUp(Top.question, Len(frames))
  BY TopFits
<1>3. Differ[1][Top.question]
  BY <1>1, <1>2, DifferMeans
<1>4. Differ[Len(frames)][Root]
  BY <1>1, <1>2, <1>3 DEF LeadsUp
<1>5. Root \in Questions
  BY ObjectsAre DEF ComparisonInv, Root, Ask, Questions
<1> QED
  BY <1>1, <1>4, <1>5, DifferRises DEF ComparisonInv

LEMMA DoneRises ==
    ASSUME objects \in Comparisons, NEW f \in FrameSpace, NEW h \in 0 .. Fuel,
           NEW up \in h .. Fuel, DoneAlike(f, h)
    PROVE  DoneAlike(f, up)
<1> SUFFICES ASSUME f.entered, NEW k \in DOMAIN LeftOf(f.question).kids \ f.keys
             PROVE  /\ k \in DOMAIN RightOf(f.question).kids
                    /\ Asking(f, k) \/ Alike[up][Kid(f.question, k)]
  BY DEF DoneAlike
<1>1. k \in Both(f.question) /\ (Asking(f, k) \/ Alike[h][Kid(f.question, k)])
  BY DEF DoneAlike, Both
<1>2. f.question \in Questions
  BY DEF FrameSpace
<1>3. Kid(f.question, k) \in Questions
  BY <1>1, <1>2, KidIs
<1>4. Alike[h][Kid(f.question, k)] => Alike[up][Kid(f.question, k)]
  BY <1>3, AlikeRises
<1> QED
  BY <1>1, <1>4 DEF Both

AfterAnswer(f) == [f EXCEPT !.todo = Tail(@)]

LEMMA AskedDone ==
    ASSUME NEW f \in FrameSpace, f.todo # <<>>, NEW h, DoneAlike(f, h), Alike[h][Head(f.todo)]
    PROVE  DoneAlike(AfterAnswer(f), h)
<1>1. PICK g : g = AfterAnswer(f)
  OBVIOUS
<1>2. g.question = f.question /\ g.keys = f.keys /\ g.entered = f.entered /\ g.todo = Tail(f.todo)
  BY <1>1 DEF FrameSpace, AfterAnswer
<1>3. f.todo \in Seq(Questions)
  BY DEF FrameSpace
<1>4. ASSUME NEW k, Asking(f, k), ~Asking(g, k) PROVE Alike[h][Kid(f.question, k)]
  <2>1. PICK j \in 1 .. Len(f.todo) : f.todo[j] = Kid(f.question, k)
    BY <1>4 DEF Asking
  <2>2. CASE j = 1
    BY <1>3, <2>1, <2>2
  <2>3. CASE j # 1
    <3>1. j - 1 \in 1 .. Len(g.todo) /\ g.todo[j - 1] = f.todo[j]
      BY <1>2, <1>3, <2>1, <2>3
    <3> QED
      BY <1>2, <1>4, <2>1, <3>1 DEF Asking
  <2> QED
    BY <2>2, <2>3
<1>5. DoneAlike(g, h)
  BY <1>2, <1>4 DEF DoneAlike
<1> QED
  BY <1>1, <1>5

LEMMA ReturnedIs ==
    ASSUME NEW fs \in Seq(FrameSpace), fs # <<>> => fs[Len(fs)].todo # <<>>
    PROVE  /\ Returned(fs) \in Seq(FrameSpace) /\ Len(Returned(fs)) = Len(fs)
           /\ \A i \in 1 .. Len(fs) - 1 : Returned(fs)[i] = fs[i]
           /\ fs # <<>> => /\ Len(fs) \in 1 .. Len(fs)
                           /\ Returned(fs)[Len(fs)] = [fs[Len(fs)] EXCEPT !.todo = Tail(@)]
<1>1. CASE fs = <<>>
  <2>1. Returned(fs) = <<>> /\ Len(fs) = 0
    BY <1>1 DEF Returned
  <2> QED
    BY <1>1, <2>1
<1>2. CASE fs # <<>>
  <2>1. PICK n \in Nat \ {0} : n = Len(fs)
    BY <1>2
  <2>2. PICK f : f = [fs[n] EXCEPT !.todo = Tail(@)]
    OBVIOUS
  <2>3. f \in FrameSpace
    <3>0. fs[n] \in FrameSpace
      BY <2>1
    <3>1. fs[n] \in FrameSpace /\ fs[n].todo \in Seq(Questions) /\ fs[n].todo # <<>>
      BY <1>2, <2>1, <3>0 DEF FrameSpace
    <3>2. Tail(fs[n].todo) \in Seq(Questions)
      BY <3>1
    <3> QED
      BY <2>2, <3>1, <3>2 DEF FrameSpace
  <2>4. Returned(fs) = [fs EXCEPT ![n] = f]
    BY <1>2, <2>1, <2>2 DEF Returned
  <2>5. /\ Returned(fs) \in Seq(FrameSpace) /\ Len(Returned(fs)) = n
        /\ \A i \in 1 .. n - 1 : Returned(fs)[i] = fs[i]
        /\ n \in 1 .. n /\ Returned(fs)[n] = f
    BY <2>1, <2>3, <2>4
  <2> QED
    BY <2>1, <2>2, <2>5
<1> QED
  BY <1>1, <1>2

LEMMA FitsAfterAnswer ==
    ASSUME NEW f \in FrameSpace, f.entered, f.todo # <<>>, FrameFits(f)
    PROVE  FrameFits(AfterAnswer(f))
<1>1. PICK g : g = AfterAnswer(f)
  OBVIOUS
<1>2. g.question = f.question /\ g.keys = f.keys /\ g.entered = f.entered /\ g.todo = Tail(f.todo)
  BY <1>1 DEF FrameSpace, AfterAnswer
<1>3. PICK k \in Both(f.question) \ f.keys : f.todo \in {Entry(f.question, k), <<Kid(f.question, k)>>}
  BY DEF FrameFits
<1>4. g.todo \in {<<>>, <<Kid(f.question, k)>>}
  <2> DEFINE a == Ask(k, k, FALSE)
             b == Kid(f.question, k)
  <2>1. f.todo = <<a, b>> \/ f.todo = <<b>>
    BY <1>3 DEF Entry
  <2> HIDE DEF a, b
  <2>2. Tail(<<a, b>>) = <<b>> /\ Tail(<<b>>) = <<>>
    OBVIOUS
  <2> QED
    BY <1>2, <2>1, <2>2 DEF b
<1>5. FrameFits(g)
  BY <1>2, <1>3, <1>4 DEF FrameFits
<1> QED
  BY <1>1, <1>5

(* The stack without its top, which has answered. *)
Popped == Returned(Front(frames))

LEMMA PoppedIs ==
    ASSUME ComparisonInv, frames # <<>>, NEW n \in Nat, n = Len(frames) - 1
    PROVE  /\ Top = frames[n + 1] /\ Len(frames) = n + 1
           /\ n # 0 => frames[n].entered /\ frames[n].todo # <<>> /\ Top.question = Head(frames[n].todo)
           /\ Popped \in Seq(FrameSpace) /\ Len(Popped) = n
           /\ \A i \in 1 .. n - 1 : Popped[i] = frames[i]
           /\ n # 0 => Popped[n] = AfterAnswer(frames[n])
<1>1. frames \in Seq(FrameSpace) /\ StackFits(frames)
  BY DEF ComparisonInv, Compares, FramesTyped
<1>2. n = Len(frames) - 1
  OBVIOUS
<1>3. /\ Front(frames) \in Seq(FrameSpace) /\ Len(Front(frames)) = n
      /\ \A i \in 1 .. n : Front(frames)[i] = frames[i]
      /\ Top = frames[n + 1] /\ Len(frames) = n + 1
  BY <1>1, <1>2, TopIs DEF Top
<1>4. n # 0 => frames[n].entered /\ frames[n].todo # <<>> /\ Top.question = Head(frames[n].todo)
  BY <1>2, <1>3, <1>1 DEF StackFits
<1>5. /\ Popped \in Seq(FrameSpace) /\ Len(Popped) = n
      /\ \A i \in 1 .. n - 1 : Popped[i] = frames[i]
      /\ n # 0 => Popped[n] = [frames[n] EXCEPT !.todo = Tail(@)]
  <2>1. Front(frames) # <<>> => Front(frames)[n].todo # <<>> /\ Front(frames)[n] = frames[n]
    BY <1>2, <1>3, <1>4
  <2>2. n # 0 => Front(frames) # <<>>
    BY <1>3
  <2>3. \A i \in 1 .. n - 1 : Front(frames)[i] = frames[i]
    BY <1>2, <1>3
  <2>4. /\ Popped \in Seq(FrameSpace) /\ Len(Popped) = n
        /\ \A i \in 1 .. n - 1 : Popped[i] = Front(frames)[i]
        /\ Front(frames) # <<>> => Popped[n] = [Front(frames)[n] EXCEPT !.todo = Tail(@)]
    BY <1>3, <2>1, ReturnedIs DEF Popped
  <2> QED
    BY <2>1, <2>2, <2>3, <2>4
<1> QED
  BY <1>3, <1>4, <1>5 DEF AfterAnswer

LEMMA ReturnKeeps ==
    ASSUME ComparisonInv, frames # <<>>, NEW rem \in Remains,
           NEW known \in SUBSET (Values \X Values),
           NEW h \in Nat, h = Height(frames, remaining), h + 1 \in 1 .. Fuel,
           Fuel - rem["visits"] - (Len(frames) - 1) = h + 1,
           Alike[h + 1][Top.question],
           \A pair \in known : Alike[h + 1][Ask(pair[1], pair[2], FALSE)]
    PROVE  Compares(Returned(Front(frames)), rem, equaled \cup known,
                    IF Len(frames) = 1 THEN "true" ELSE result)
<1> DEFINE gs == Returned(Front(frames))
<1>1. /\ objects \in Comparisons /\ frames \in Seq(FrameSpace) /\ StackFits(frames)
      /\ AlikeIn(frames, equaled, h) /\ DifferIn(frames) /\ equaled \subseteq Values \X Values
      /\ OpenIn(frames) <= ComparisonDepth + 1
  BY DEF ComparisonInv, Compares, FramesTyped
<1>2. PICK n \in Nat : n = Len(frames) - 1
  BY <1>1, TopIs
<1>3. Top = frames[n + 1] /\ Len(frames) = n + 1
  BY <1>1, <1>2, TopIs DEF Top
<1> HIDE DEF gs
<1>4. n # 0 => frames[n].entered /\ frames[n].todo # <<>> /\ Top.question = Head(frames[n].todo)
  BY <1>2, PoppedIs
<1>5. /\ gs \in Seq(FrameSpace) /\ Len(gs) = n
      /\ \A i \in 1 .. n - 1 : gs[i] = frames[i]
      /\ n # 0 => gs[n] = AfterAnswer(frames[n])
  <2>1. gs = Popped
    BY DEF gs, Popped
  <2>2. /\ Popped \in Seq(FrameSpace) /\ Len(Popped) = n
        /\ \A i \in 1 .. n - 1 : Popped[i] = frames[i]
        /\ n # 0 => Popped[n] = AfterAnswer(frames[n])
    BY <1>2, PoppedIs
  <2> QED
    BY <2>1, <2>2
<1>6. \A i \in 1 .. n : frames[i] \in FrameSpace /\ gs[i] \in FrameSpace
  BY <1>1, <1>2, <1>3, <1>5
<1>7. \A i \in 1 .. n : gs[i].question = frames[i].question /\ gs[i].entered = frames[i].entered
  <2> SUFFICES ASSUME NEW i \in 1 .. n
               PROVE  gs[i].question = frames[i].question /\ gs[i].entered = frames[i].entered
    OBVIOUS
  <2>1. CASE i = n
    <3>1. n # 0
      BY <2>1
    <3>2. gs[i] = AfterAnswer(frames[i]) /\ frames[i] \in FrameSpace
      BY <1>5, <1>6, <2>1, <3>1
    <3> QED
      BY <3>2 DEF FrameSpace, AfterAnswer
  <2>2. CASE i # n
    BY <1>2, <1>5, <2>2
  <2> QED
    BY <2>1, <2>2
<1>8. OpenIn(gs) = n
  <2>1. n # 0 => n \in 1 .. n /\ gs[n].entered
    BY <1>2, <1>4, <1>7
  <2>2. n = 0 => gs = <<>>
    BY <1>5
  <2> QED
    BY <1>5, <2>1, <2>2 DEF OpenIn
<1>9. Height(gs, rem) = h + 1
  BY <1>2, <1>3, <1>8 DEF Height, Fuel
<1>10. FramesTyped(gs, rem, equaled \cup known, IF Len(frames) = 1 THEN "true" ELSE result)
  <2>1. OpenIn(frames) >= n
    BY <1>2, <1>3 DEF OpenIn
  <2>2. OpenIn(gs) <= ComparisonDepth + 1
    BY <1>1, <1>2, <1>3, <1>8, <2>1, FuelIs DEF OpenIn
  <2>3. equaled \cup known \subseteq Values \X Values
    BY <1>1
  <2>4. Height(gs, rem) \in 0 .. Fuel
    BY <1>9, FuelIs
  <2>5. result = "none"
    BY TopFits
  <2>6. Len(frames) = 1 => gs = <<>>
    <3>1. Len(frames) = 1 => n = 0
      <4>1. Len(frames) = 1 => n + 1 = 1
        BY <1>3, Zenon
      <4> QED
        BY <4>1
    <3>2. n = 0 => gs = <<>>
      BY <1>5
    <3> QED
      BY <3>1, <3>2
  <2> QED
    BY <1>5, <2>2, <2>3, <2>4, <2>5, <2>6 DEF FramesTyped
<1>11. StackFits(gs)
  <2>1. ASSUME NEW i \in 1 .. n PROVE FrameFits(gs[i])
    <3>1. FrameFits(frames[i])
      BY <1>1, <1>2, <1>3 DEF StackFits
    <3>2. CASE i = n
      <4>1. n # 0 /\ n \in 1 .. n
        BY <3>2
      <4>2. FrameFits(AfterAnswer(frames[n]))
        BY <1>4, <1>6, <3>1, <3>2, <4>1, FitsAfterAnswer
      <4> QED
        BY <1>5, <3>2, <4>1, <4>2
    <3>3. CASE i # n
      <4>1. i \in 1 .. n - 1
        BY <1>2, <3>3
      <4> QED
        BY <1>5, <3>1, <4>1
    <3> QED
      BY <3>2, <3>3
  <2>2. ASSUME NEW i \in 1 .. n - 1
        PROVE  gs[i].entered /\ gs[i].todo # <<>> /\ gs[i + 1].question = Head(gs[i].todo)
    <3>1. i \in 1 .. Len(frames) - 1 /\ i + 1 \in 1 .. n
      BY <1>2, <1>3
    <3>2. frames[i].entered /\ frames[i].todo # <<>> /\ frames[i + 1].question = Head(frames[i].todo)
      BY <1>1, <3>1 DEF StackFits
    <3> QED
      BY <1>5, <1>7, <3>1, <3>2
  <2>3. gs # <<>> => gs[1].question = Root
    <3>1. gs # <<>> => n # 0 /\ 1 \in 1 .. n
      BY <1>2, <1>5
    <3>2. frames[1].question = Root
      BY <1>1 DEF StackFits
    <3> QED
      BY <1>7, <3>1, <3>2
  <2> QED
    BY <1>5, <2>1, <2>2, <2>3 DEF StackFits
<1>12. h \in 0 .. Fuel /\ h + 1 \in h .. Fuel /\ h + 1 \in 0 .. Fuel /\ Fuel \in h + 1 .. Fuel
  BY FuelIs
<1>13. AlikeIn(gs, equaled \cup known, h + 1)
  <2>1. ASSUME NEW pair \in equaled
        PROVE  Alike[h + 1][Ask(pair[1], pair[2], FALSE)]
    <3>1. Alike[h][Ask(pair[1], pair[2], FALSE)]
      BY <1>1 DEF AlikeIn
    <3>2. Ask(pair[1], pair[2], FALSE) \in Questions
      BY <1>1 DEF Ask, Questions
    <3> QED
      BY <1>1, <1>12, <3>1, <3>2, AlikeRises
  <2>2. ASSUME NEW i \in 1 .. n PROVE DoneAlike(gs[i], h + 1)
    <3>1. DoneAlike(frames[i], h)
      BY <1>1, <1>2, <1>3 DEF AlikeIn
    <3>2. DoneAlike(frames[i], h + 1)
      BY <1>1, <1>6, <1>12, <3>1, DoneRises
    <3>3. CASE i = n
      <4>1. n # 0 /\ n \in 1 .. n
        BY <3>3
      <4>2. Alike[h + 1][Head(frames[n].todo)]
        BY <1>4, <4>1
      <4>3. DoneAlike(AfterAnswer(frames[n]), h + 1)
        BY <1>4, <1>6, <3>2, <3>3, <4>1, <4>2, AskedDone
      <4> QED
        BY <1>5, <3>3, <4>1, <4>3
    <3>4. CASE i # n
      <4>1. i \in 1 .. n - 1
        BY <1>2, <3>4
      <4> QED
        BY <1>5, <3>2, <4>1
    <3> QED
      BY <3>3, <3>4
  <2> QED
    BY <1>5, <2>1, <2>2 DEF AlikeIn
<1>14. DifferIn(gs)
  <2>1. ASSUME NEW i \in 1 .. n PROVE LeadsUp(gs[i].question, i)
    <3>1. LeadsUp(frames[i].question, i)
      BY <1>1, <1>2, <1>3 DEF DifferIn
    <3> QED
      BY <1>7, <3>1
  <2> QED
    BY <1>5, <2>1 DEF DifferIn
<1>15. Derived(IF Len(frames) = 1 THEN "true" ELSE result)
  <2>1. CASE Len(frames) = 1
    <3>1. Top = frames[1] /\ Top.question \in Questions
      BY <1>2, <1>3, <2>1, TopFits
    <3>2. Top.question = Root
      BY <1>1, <3>1 DEF StackFits
    <3>3. Alike[Fuel][Root]
      BY <1>1, <1>12, <3>1, <3>2, AlikeRises
    <3> QED
      BY <2>1, <3>3 DEF Derived
  <2>2. CASE Len(frames) # 1
    BY <2>2, TopFits DEF Derived
  <2> QED
    BY <2>1, <2>2
<1> QED
  BY <1>9, <1>10, <1>11, <1>13, <1>14, <1>15 DEF Compares, gs

LEMMA ChargeIs ==
    ASSUME objects \in Comparisons, NEW q \in Questions
    PROVE  Charge(LeftOf(q)) \in Remains /\ Charge(LeftOf(q))["visits"] = 1
<1>1. LeftOf(q).size \in Nat
  BY ObjectsAre DEF LeftOf, Questions, ValueWellFormed
<1> QED
  BY <1>1 DEF Charge, Remains, Resources

LEMMA VisitSpends ==
    ASSUME ComparisonInv, Asked, ~VisitDenied, Spend(JustVisit)
    PROVE  remaining' \in Remains /\ remaining'["visits"] = remaining["visits"] - 1
<1>1. remaining \in Remains /\ remaining["visits"] \in Nat \ {0}
  BY VisitedLevel DEF ComparisonInv, Compares, FramesTyped
<1>2. remaining' = [what \in Resources |-> remaining[what] - JustVisit[what]]
  BY DEF Spend
<1>3. \A what \in Resources :
         JustVisit[what] = (IF what = "visits" THEN 1 ELSE 0) /\ remaining[what] \in Nat
  BY <1>1 DEF JustVisit, Remains
<1>4. \A what \in Resources : remaining'[what] = remaining[what] - (IF what = "visits" THEN 1 ELSE 0)
  BY <1>2, <1>3
<1>5. \A what \in Resources : remaining'[what] \in Nat
  BY <1>1, <1>3, <1>4
<1> QED
  BY <1>2, <1>4, <1>5 DEF Remains, Resources

LEMMA LookSpends ==
    ASSUME ComparisonInv, NEW q \in Questions, Look(q)
    PROVE  remaining' \in Remains /\ remaining'["visits"] = remaining["visits"] - 1
<1>1. remaining \in Remains /\ remaining["visits"] \in Nat \ {0} /\ objects \in Comparisons
  BY VisitedLevel DEF ComparisonInv, Compares, FramesTyped, Look
<1>2. PICK charge \in Remains : charge = Charge(LeftOf(q)) /\ charge["visits"] = 1
  BY <1>1, ChargeIs
<1>3. remaining' = [what \in Resources |-> remaining[what] - charge[what]]
  BY <1>2 DEF Spend, Look
<1>4. \A what \in Resources : ~(charge[what] > remaining[what])
  BY <1>2 DEF Look, ChargeDenied
<1>5. \A what \in Resources : remaining[what] \in Nat /\ charge[what] \in Nat
  BY <1>1 DEF Remains
<1>6. \A what \in Resources : remaining[what] - charge[what] \in Nat
  BY <1>4, <1>5
<1> QED
  BY <1>2, <1>3, <1>6 DEF Remains, Resources

Keeps == objects' = objects /\ Compares(frames', remaining', equaled', result')

LEMMA OverKeeps ==
    ASSUME ComparisonInv, remaining' \in Remains, remaining'["visits"] <= remaining["visits"],
           NEW answer \in {"false", "limit"}, answer = "false" => Differ[Fuel][Root], Over(answer)
    PROVE  Keeps
<1>1. PICK rem \in Remains : rem = remaining'
  OBVIOUS
<1>2. Compares(<<>>, rem, equaled, answer)
  BY <1>1, EndKeeps
<1> QED
  BY <1>1, <1>2 DEF Over, Keeps

LEMMA RefuseVisitKeeps ==
    ASSUME ComparisonInv, RefuseVisit
    PROVE  Keeps
<1>1. remaining' = remaining /\ remaining \in Remains /\ remaining["visits"] \in Nat
  BY SpentIs DEF RefuseVisit, ComparisonInv, Compares, FramesTyped
<1> QED
  BY <1>1, OverKeeps DEF RefuseVisit

LEMMA HeadersTellKeeps ==
    ASSUME ComparisonInv, HeadersTell
    PROVE  Keeps
<1>1. Asked /\ ~VisitDenied /\ HeadersDiffer(Top.question) /\ Over("false") /\ frames # <<>>
  BY DEF HeadersTell, Asked
<1>2. /\ remaining' \in Remains /\ remaining'["visits"] <= remaining["visits"]
      /\ Len(frames) \in 1 .. Fuel
  BY <1>1, VisitSpends, VisitedLevel DEF HeadersTell
<1>3. Differ[Fuel][Root]
  BY <1>1, <1>2, TopFits, HeadersDifferShape, DiffersAtTop DEF ComparisonInv
<1> QED
  BY <1>1, <1>2, <1>3, OverKeeps

LEMMA RefuseChargeKeeps ==
    ASSUME ComparisonInv, RefuseCharge
    PROVE  Keeps
<1>1. Asked /\ ~VisitDenied /\ Over("limit")
  BY DEF RefuseCharge
<1>2. remaining' \in Remains /\ remaining'["visits"] <= remaining["visits"]
  BY <1>1, VisitSpends, VisitedLevel DEF RefuseCharge
<1> QED
  BY <1>1, <1>2, OverKeeps

(* A call that looks at its question and returns true. *)
LEMMA LookReturns ==
    ASSUME ComparisonInv, Look(Top.question), Equal({}), SameShape(Top.question),
           \A below \in Below(Top.question) : Alike[Height(frames, remaining)][below]
    PROVE  Keeps
<1>1. Asked /\ ~VisitDenied /\ frames # <<>> /\ Top.question \in Questions
  BY TopFits DEF Look, Asked
<1>2. remaining' \in Remains /\ remaining'["visits"] = remaining["visits"] - 1
  BY <1>1, LookSpends
<1>3. PICK h \in Nat : h = Height(frames, remaining)
  BY FuelIs DEF ComparisonInv, Compares, FramesTyped
<1>4. /\ h + 1 \in 1 .. Fuel /\ h = Fuel - remaining["visits"] - (Len(frames) - 1)
      /\ remaining["visits"] \in Nat \ {0} /\ Len(frames) \in Nat
  BY <1>1, <1>3, VisitedLevel
<1>5. Fuel - remaining'["visits"] - (Len(frames) - 1) = h + 1
  BY <1>2, <1>4, FuelIs
<1>6. Alike[h + 1][Top.question]
  <2>1. h + 1 - 1 = h
    OBVIOUS
  <2> QED
    BY <1>1, <1>3, <1>4, <2>1, AlikeMeans
<1>7. PICK rem \in Remains : rem = remaining'
  BY <1>2
<1>8. Compares(Returned(Front(frames)), rem, equaled \cup {}, IF Len(frames) = 1 THEN "true" ELSE result)
  BY <1>1, <1>3, <1>4, <1>5, <1>6, <1>7, ReturnKeeps
<1> QED
  BY <1>7, <1>8 DEF Equal, Keeps

(* A pointer that leads somewhere, and the pair behind two of them. *)
LEMMA PointerLeads ==
    ASSUME objects \in Comparisons, NEW q \in Questions, SameType(q), ~HeadersDiffer(q),
           LeftOf(q).kind = "pointer", ~LeftOf(q).nil
    PROVE  /\ DOMAIN LeftOf(q).kids = {1} /\ DOMAIN RightOf(q).kids = {1}
           /\ Kid(q, 1) = Ask(Pair(q)[1], Pair(q)[2], FALSE)
           /\ Pair(q) \in Values \X Values
<1>1. /\ ValueWellFormed(objects.values, LeftOf(q)) /\ ValueWellFormed(objects.values, RightOf(q))
      /\ LeftOf(q).kind = RightOf(q).kind
  BY SidesAre
<1>2. ~RightOf(q).nil
  BY <1>1 DEF HeadersDiffer, PresenceDiffers, Nilable, ValueWellFormed
<1>3. /\ LeftOf(q).kids \in Seq(Values) /\ RightOf(q).kids \in Seq(Values)
      /\ Len(LeftOf(q).kids) = 1 /\ Len(RightOf(q).kids) = 1
  BY <1>1, <1>2 DEF ValueWellFormed, Values
<1>4. DOMAIN LeftOf(q).kids = {1} /\ DOMAIN RightOf(q).kids = {1}
  BY <1>3
<1>5. Pair(q) \in Values \X Values
  <2>1. LeftOf(q).kids[1] \in Values /\ RightOf(q).kids[1] \in Values
    BY <1>3
  <2> QED
    BY <2>1 DEF Pair
<1>6. Kid(q, 1) = Ask(Pair(q)[1], Pair(q)[2], FALSE)
  BY DEF Kid, Pair, Ask
<1> QED
  BY <1>4, <1>5, <1>6

LEMMA NilLeads ==
    ASSUME objects \in Comparisons, NEW q \in Questions, SameType(q), BothNil(q)
    PROVE  DOMAIN LeftOf(q).kids = {} /\ DOMAIN RightOf(q).kids = {}
<1>1. LeftOf(q).kids = <<>> /\ RightOf(q).kids = <<>>
  BY SidesAre DEF BothNil, ValueWellFormed
<1> QED
  BY <1>1

LEMMA LeafLeads ==
    ASSUME objects \in Comparisons, NEW q \in Questions, SameType(q), IsLeaf(q)
    PROVE  DOMAIN LeftOf(q).kids = {} /\ DOMAIN RightOf(q).kids = {}
<1>1. LeftOf(q).kids = <<>> /\ RightOf(q).kids = <<>>
  BY SidesAre DEF IsLeaf, ValueWellFormed
<1> QED
  BY <1>1

LEMMA EqualAtOnceKeeps ==
    ASSUME ComparisonInv, EqualAtOnce
    PROVE  Keeps
<1> DEFINE q == Top.question
<1>1. Look(q) /\ AlreadyEqual(q) /\ Equal({}) /\ frames # <<>> /\ ~HeadersDiffer(q)
  BY DEF EqualAtOnce, Look, Asked
<1>2. q \in Questions /\ SameType(q) /\ objects \in Comparisons
  BY <1>1, TopFits DEF ComparisonInv
<1> HIDE DEF q
<1>3. CASE LeftOf(q).kind = "pointer" /\ ~LeftOf(q).nil
  <2>1. /\ DOMAIN LeftOf(q).kids = {1} /\ DOMAIN RightOf(q).kids = {1}
        /\ Kid(q, 1) = Ask(Pair(q)[1], Pair(q)[2], FALSE)
    BY <1>1, <1>2, <1>3, PointerLeads
  <2>2. Pair(q) \in equaled
    BY <1>1, <1>3 DEF AlreadyEqual, Remembered
  <2>3. Alike[Height(frames, remaining)][Kid(q, 1)]
    BY <2>1, <2>2 DEF ComparisonInv, Compares, AlikeIn
  <2>4. \A below \in Below(q) : Alike[Height(frames, remaining)][below]
    BY <2>1, <2>3 DEF Below
  <2>5. ~IsLeaf(q)
    BY <1>3 DEF IsLeaf, Leaves
  <2>6. SameShape(q)
    BY <1>1, <1>2, <2>1, <2>5, HeadersShape
  <2> QED
    BY <1>1, <2>4, <2>6, LookReturns DEF q
<1>4. CASE ~(LeftOf(q).kind = "pointer" /\ ~LeftOf(q).nil)
  <2>1. BothNil(q)
    BY <1>1, <1>4 DEF AlreadyEqual
  <2>2. DOMAIN LeftOf(q).kids = {} /\ DOMAIN RightOf(q).kids = {}
    BY <1>2, <2>1, NilLeads
  <2>3. SameShape(q)
    BY <1>1, <1>2, <2>1, <2>2, HeadersShape
  <2>4. \A below \in Below(q) : Alike[Height(frames, remaining)][below]
    BY <2>2 DEF Below
  <2> QED
    BY <1>1, <2>3, <2>4, LookReturns DEF q
<1> QED
  BY <1>3, <1>4

LEMMA CompareLeafKeeps ==
    ASSUME ComparisonInv, CompareLeaf
    PROVE  Keeps
<1> DEFINE q == Top.question
<1>1. /\ Look(q) /\ IsLeaf(q) /\ frames # <<>> /\ ~HeadersDiffer(q)
      /\ IF AtomsEqual(q) THEN Equal({}) ELSE Over("false")
  BY DEF CompareLeaf, Look, Asked
<1>2. q \in Questions /\ SameType(q) /\ objects \in Comparisons
  BY <1>1, TopFits DEF ComparisonInv
<1> HIDE DEF q
<1>3. DOMAIN LeftOf(q).kids = {} /\ DOMAIN RightOf(q).kids = {}
  BY <1>1, <1>2, LeafLeads
<1>4. CASE AtomsEqual(q)
  <2>1. SameShape(q)
    BY <1>1, <1>2, <1>3, <1>4, HeadersShape
  <2>2. \A below \in Below(q) : Alike[Height(frames, remaining)][below]
    BY <1>3 DEF Below
  <2> QED
    BY <1>1, <1>4, <2>1, <2>2, LookReturns DEF q
<1>5. CASE ~AtomsEqual(q)
  <2>1. ~SameShape(q)
    BY <1>1, <1>5 DEF SameShape
  <2>2. ~OfKey(q)
    BY <1>5 DEF OfKey, AtomsEqual, LeftOf, RightOf
  <2>3. Len(frames) \in 1 .. Fuel
    BY <1>1, VisitedLevel DEF Look
  <2>4. Differ[Fuel][Root]
    BY <1>1, <2>1, <2>2, <2>3, DiffersAtTop DEF q
  <2>5. remaining' \in Remains /\ remaining'["visits"] <= remaining["visits"]
    BY <1>1, <1>2, LookSpends, VisitedLevel DEF Look
  <2> QED
    BY <1>1, <1>5, <2>4, <2>5, OverKeeps
<1> QED
  BY <1>4, <1>5

LEMMA TopKeeps ==
    ASSUME ComparisonInv, frames # <<>>, NEW rem \in Remains,
           NEW f \in FrameSpace, f.entered, f.question = Top.question, FrameFits(f),
           DoneAlike(f, Height(frames, remaining)),
           Fuel - rem["visits"] - Len(frames) = Height(frames, remaining),
           Len(frames) <= ComparisonDepth + 1
    PROVE  Compares([frames EXCEPT ![Len(frames)] = f], rem, equaled, result)
<1>1. /\ frames \in Seq(FrameSpace) /\ StackFits(frames) /\ DifferIn(frames)
      /\ AlikeIn(frames, equaled, Height(frames, remaining)) /\ equaled \subseteq Values \X Values
      /\ Height(frames, remaining) \in 0 .. Fuel /\ result \in {"none", "true", "false", "limit"}
  BY DEF ComparisonInv, Compares, FramesTyped
<1>2. PICK n \in Nat \ {0} : n = Len(frames) /\ Top = frames[n]
  BY <1>1, TopIs DEF Top
<1>3. PICK gs : gs = [frames EXCEPT ![n] = f]
  OBVIOUS
<1>4. /\ gs \in Seq(FrameSpace) /\ Len(gs) = n /\ n \in 1 .. n /\ gs # <<>>
      /\ gs[n] = f /\ \A i \in 1 .. n : i # n => gs[i] = frames[i]
  BY <1>1, <1>2, <1>3
<1>5. \A i \in 1 .. n : gs[i].question = frames[i].question
  BY <1>2, <1>4
<1>6. OpenIn(gs) = n
  BY <1>4 DEF OpenIn
<1>7. Height(gs, rem) = Height(frames, remaining)
  BY <1>2, <1>6 DEF Height, Fuel
<1>8. FramesTyped(gs, rem, equaled, result)
  <2>1. OpenIn(gs) <= ComparisonDepth + 1
    BY <1>2, <1>6
  <2>2. result = "none"
    BY TopFits
  <2> QED
    BY <1>1, <1>4, <1>7, <2>1, <2>2 DEF FramesTyped
<1>9. StackFits(gs)
  <2>1. \A i \in 1 .. n : FrameFits(gs[i])
    BY <1>1, <1>2, <1>4 DEF StackFits
  <2>2. ASSUME NEW i \in 1 .. n - 1
        PROVE  gs[i].entered /\ gs[i].todo # <<>> /\ gs[i + 1].question = Head(gs[i].todo)
    <3>1. i \in 1 .. n /\ i # n /\ i + 1 \in 1 .. n
      BY <1>2
    <3>2. frames[i].entered /\ frames[i].todo # <<>> /\ frames[i + 1].question = Head(frames[i].todo)
      BY <1>1, <1>2 DEF StackFits
    <3> QED
      BY <1>4, <1>5, <3>1, <3>2
  <2>3. gs[1].question = Root
    <3>1. frames[1].question = Root /\ 1 \in 1 .. n
      BY <1>1, <1>2 DEF StackFits
    <3> QED
      BY <1>5, <3>1
  <2> QED
    BY <1>4, <2>1, <2>2, <2>3 DEF StackFits
<1>10. AlikeIn(gs, equaled, Height(gs, rem))
  BY <1>1, <1>2, <1>4, <1>7 DEF AlikeIn
<1>11. DifferIn(gs)
  BY <1>1, <1>2, <1>4, <1>5 DEF DifferIn
<1>12. Derived(result)
  BY DEF ComparisonInv, Compares
<1> QED
  BY <1>2, <1>3, <1>8, <1>9, <1>10, <1>11, <1>12 DEF Compares

LEMMA EnterKeeps ==
    ASSUME ComparisonInv, Enter
    PROVE  Keeps
<1> DEFINE q == Top.question
           f == [Top EXCEPT !.entered = TRUE, !.keys = DOMAIN LeftOf(q).kids]
<1>1. /\ Look(q) /\ ~AlreadyEqual(q) /\ ~IsLeaf(q) /\ frames # <<>> /\ ~HeadersDiffer(q)
      /\ frames' = [frames EXCEPT ![Len(frames)].entered = TRUE,
                                  ![Len(frames)].keys = DOMAIN LeftOf(q).kids]
      /\ ~Top.entered /\ UNCHANGED <<objects, equaled, result>>
  BY DEF Enter, Look, Asked
<1>2. /\ q \in Questions /\ SameType(q) /\ objects \in Comparisons /\ Top \in FrameSpace
      /\ frames \in Seq(FrameSpace) /\ FrameFits(Top)
  BY <1>1, TopFits DEF ComparisonInv, Compares, FramesTyped
<1>3. PICK n \in Nat \ {0} : n = Len(frames) /\ Top = frames[n]
  BY <1>1, <1>2, TopIs DEF Top
<1>4. frames' = [frames EXCEPT ![n] = f]
  BY <1>1, <1>2, <1>3
<1>5. DOMAIN LeftOf(q).kids \in SUBSET Places
  BY <1>2 DEF Places, Questions, LeftOf
<1>6. /\ f \in FrameSpace /\ f.entered /\ f.question = q /\ f.keys = DOMAIN LeftOf(q).kids
      /\ f.todo = <<>>
  <2>1. Top.todo = <<>>
    BY <1>1, <1>2 DEF FrameFits
  <2> HIDE DEF q
  <2> QED
    BY <1>2, <1>5, <2>1 DEF FrameSpace, q
<1>7. ~BothNil(q)
  BY <1>1 DEF AlreadyEqual, BothNil
<1> HIDE DEF f
<1>8. FrameFits(f)
  BY <1>1, <1>2, <1>6, <1>7 DEF FrameFits
<1>9. DoneAlike(f, Height(frames, remaining))
  BY <1>6 DEF DoneAlike
<1>10. remaining' \in Remains /\ remaining'["visits"] = remaining["visits"] - 1
  BY <1>1, <1>2, LookSpends
<1>11. PICK rem \in Remains : rem = remaining'
  BY <1>10
<1>12. /\ Len(frames) <= ComparisonDepth + 1 /\ remaining["visits"] \in Nat /\ Len(frames) \in Nat
       /\ Height(frames, remaining) = Fuel - remaining["visits"] - (Len(frames) - 1)
  BY <1>1, VisitedLevel DEF Look
<1>13. Fuel - rem["visits"] - Len(frames) = Height(frames, remaining)
  <2>1. rem["visits"] = remaining["visits"] - 1
    BY <1>10, <1>11
  <2> QED
    BY <1>12, <2>1, FuelIs
<1>14. Compares([frames EXCEPT ![Len(frames)] = f], rem, equaled, result)
  BY <1>1, <1>6, <1>8, <1>9, <1>11, <1>12, <1>13, TopKeeps
<1> QED
  BY <1>1, <1>3, <1>4, <1>11, <1>14 DEF Keeps

(* A key of the map, and what a place leads to, are questions of one type. *)
LEMMA AskedEntry ==
    ASSUME objects \in Comparisons, NEW q \in Questions, SameType(q), NEW k \in Both(q)
    PROVE  /\ SameType(Kid(q, k)) /\ Kid(q, k) \in Questions
           /\ LeftOf(q).kind = "map" =>
                 OfKey(Ask(k, k, FALSE)) /\ Ask(k, k, FALSE) \in Questions
           /\ Entry(q, k) \in Seq(Questions) /\ Entry(q, k) # <<>>
           /\ Kid(q, k) \in {Entry(q, k)[j] : j \in 1 .. Len(Entry(q, k))}
<1>1. Kid(q, k) \in Questions
  BY KidIs
<1>2. SameType(Kid(q, k))
  <2>1. TypesAgree(objects.values, q.left, q.right)
    BY SidesAre
  <2>2. TypeOf(LeftOf(q).kids[k]) = TypeOf(RightOf(q).kids[k])
    BY <2>1 DEF TypesAgree, Both, LeftOf, RightOf
  <2> QED
    BY <2>2 DEF SameType, Kid, Ask
<1>3. ASSUME LeftOf(q).kind = "map"
      PROVE  OfKey(Ask(k, k, FALSE)) /\ Ask(k, k, FALSE) \in Questions
  <2>1. k \in Values /\ objects.values[k].kind \in {"string", "scalar"} /\ objects.values[k].atom # NaN
    BY <1>3, SidesAre DEF ValueWellFormed, Values, Both
  <2> QED
    BY <2>1 DEF OfKey, Ask, Questions, LeftOf
<1> DEFINE a == Ask(k, k, FALSE)
           b == Kid(q, k)
<1>4. (Entry(q, k) = <<a, b>> /\ a \in Questions) \/ Entry(q, k) = <<b>>
  BY <1>3 DEF Entry
<1> HIDE DEF a, b
<1>5. /\ Entry(q, k) \in Seq(Questions) /\ Entry(q, k) # <<>>
      /\ \E j \in 1 .. Len(Entry(q, k)) : Entry(q, k)[j] = b
  <2>1. b \in Questions
    BY <1>1 DEF b
  <2>2. CASE Entry(q, k) = <<a, b>> /\ a \in Questions
    <3>1. Len(<<a, b>>) = 2 /\ <<a, b>>[2] = b
      OBVIOUS
    <3> QED
      BY <2>1, <2>2, <3>1
  <2>3. CASE Entry(q, k) = <<b>>
    <3>1. Len(<<b>>) = 1 /\ <<b>>[1] = b
      OBVIOUS
    <3> QED
      BY <2>1, <2>3, <3>1
  <2> QED
    BY <1>4, <2>2, <2>3
<1> QED
  BY <1>1, <1>2, <1>3, <1>5 DEF b

(* The first question of a frame: a key, or what a place leads to. *)
LEMMA HeadAsks ==
    ASSUME objects \in Comparisons, NEW f \in FrameSpace, FrameFits(f), f.todo # <<>>
    PROVE  /\ Head(f.todo) \in Questions /\ SameType(Head(f.todo))
           /\ OfKey(Head(f.todo)) \/ \E k \in Both(f.question) : Head(f.todo) = Kid(f.question, k)
<1> DEFINE q == f.question
<1>1. q \in Questions /\ SameType(q)
  BY DEF FrameSpace, FrameFits
<1>2. PICK k \in Both(q) : f.todo \in {Entry(q, k), <<Kid(q, k)>>}
  BY DEF FrameFits
<1> HIDE DEF q
<1>3. /\ SameType(Kid(q, k)) /\ Kid(q, k) \in Questions
      /\ LeftOf(q).kind = "map" => OfKey(Ask(k, k, FALSE)) /\ Ask(k, k, FALSE) \in Questions
  BY <1>1, AskedEntry
<1> DEFINE a == Ask(k, k, FALSE)
           b == Kid(q, k)
<1>4. SameType(a)
  BY DEF SameType, Ask
<1>5. (f.todo = <<a, b>> /\ LeftOf(q).kind = "map") \/ f.todo = <<b>>
  BY <1>2 DEF Entry
<1>6. (LeftOf(q).kind = "map" => OfKey(a) /\ a \in Questions) /\ SameType(b) /\ b \in Questions
  BY <1>3
<1> HIDE DEF a, b
<1>7. Head(<<a, b>>) = a /\ Head(<<b>>) = b
  OBVIOUS
<1>8. (Head(f.todo) = a /\ LeftOf(q).kind = "map") \/ Head(f.todo) = b
  BY <1>5, <1>7
<1> QED
  BY <1>4, <1>6, <1>8 DEF b, q

LEMMA AskNextKeeps ==
    ASSUME ComparisonInv, AskNext
    PROVE  Keeps
<1> DEFINE h == Height(frames, remaining)
<1>1. /\ Entered /\ Top.todo # <<>> /\ frames # <<>> /\ Top.entered
      /\ frames' = Append(frames, Frame(Head(Top.todo)))
      /\ UNCHANGED <<objects, remaining, equaled, result>>
  BY DEF AskNext, Entered
<1>2. /\ objects \in Comparisons /\ Top \in FrameSpace /\ FrameFits(Top)
      /\ frames \in Seq(FrameSpace) /\ StackFits(frames) /\ DifferIn(frames)
      /\ AlikeIn(frames, equaled, h) /\ equaled \subseteq Values \X Values
      /\ h \in 0 .. Fuel /\ result = "none" /\ LeadsUp(Top.question, Len(frames))
      /\ OpenIn(frames) <= ComparisonDepth + 1 /\ remaining \in Remains
      /\ Top.question \in Questions
  BY <1>1, TopFits DEF ComparisonInv, Compares, FramesTyped
<1>3. PICK n \in Nat \ {0} : n = Len(frames) /\ Top = frames[n]
  BY <1>1, <1>2, TopIs DEF Top
<1>4. PICK p : p = Head(Top.todo)
  OBVIOUS
<1>5. p \in Questions /\ SameType(p)
      /\ (OfKey(p) \/ \E k \in Both(Top.question) : p = Kid(Top.question, k))
  BY <1>1, <1>2, <1>4, HeadAsks
<1>6. PICK f : f = Frame(p)
  OBVIOUS
<1>7. /\ f \in FrameSpace /\ f.question = p /\ ~f.entered /\ f.keys = {} /\ f.todo = <<>>
  BY <1>5, <1>6 DEF Frame, FrameSpace
<1>8. PICK gs : gs = frames'
  OBVIOUS
<1>9. /\ gs \in Seq(FrameSpace) /\ Len(gs) = n + 1 /\ gs[n + 1] = f /\ gs # <<>>
      /\ \A i \in 1 .. n : gs[i] = frames[i]
  <2>1. gs = Append(frames, f)
    BY <1>1, <1>4, <1>6, <1>8
  <2> QED
    BY <1>2, <1>3, <1>7, <2>1
<1>10. OpenIn(gs) = n /\ OpenIn(frames) = n
  <2>1. OpenIn(gs) = n
    BY <1>7, <1>9 DEF OpenIn
  <2> QED
    BY <1>1, <1>3, <2>1, EnteredLevel
<1>11. Height(gs, remaining) = h
  BY <1>10 DEF Height
<1>12. FramesTyped(gs, remaining, equaled, result)
  BY <1>2, <1>9, <1>10, <1>11 DEF FramesTyped
<1>13. StackFits(gs)
  <2>1. FrameFits(f)
    BY <1>5, <1>7 DEF FrameFits
  <2>2. ASSUME NEW i \in 1 .. n + 1 PROVE FrameFits(gs[i])
    <3>1. CASE i = n + 1
      BY <1>9, <2>1, <3>1
    <3>2. CASE i \in 1 .. n
      BY <1>2, <1>3, <1>9, <3>2 DEF StackFits
    <3> QED
      BY <1>3, <3>1, <3>2
  <2>3. ASSUME NEW i \in 1 .. n
        PROVE  gs[i].entered /\ gs[i].todo # <<>> /\ gs[i + 1].question = Head(gs[i].todo)
    <3>1. CASE i = n
      BY <1>1, <1>3, <1>4, <1>7, <1>9, <3>1
    <3>2. CASE i # n
      <4>1. i \in 1 .. n - 1 /\ i + 1 \in 1 .. n
        BY <3>2
      <4>2. frames[i].entered /\ frames[i].todo # <<>> /\ frames[i + 1].question = Head(frames[i].todo)
        BY <1>2, <1>3, <4>1 DEF StackFits
      <4> QED
        BY <1>9, <4>1, <4>2
    <3> QED
      BY <3>1, <3>2
  <2>4. gs[1].question = Root
    <3>1. 1 \in 1 .. n
      OBVIOUS
    <3> QED
      BY <1>1, <1>2, <1>9, <3>1 DEF StackFits
  <2>5. Len(gs) - 1 = n
    BY <1>9
  <2> QED
    BY <1>9, <2>2, <2>3, <2>4, <2>5 DEF StackFits
<1>14. AlikeIn(gs, equaled, h)
  <2>1. ASSUME NEW i \in 1 .. n + 1 PROVE DoneAlike(gs[i], h)
    <3>1. CASE i = n + 1
      BY <1>7, <1>9, <3>1 DEF DoneAlike
    <3>2. CASE i \in 1 .. n
      BY <1>2, <1>3, <1>9, <3>2 DEF AlikeIn
    <3> QED
      BY <1>3, <3>1, <3>2
  <2> QED
    BY <1>2, <1>9, <2>1 DEF AlikeIn
<1>15. LeadsUp(p, n + 1)
  <2> SUFFICES ASSUME ~OfKey(p), NEW m \in 1 .. Fuel, m + (n + 1) - 1 <= Fuel, Differ[m][p]
               PROVE  Differ[m + (n + 1) - 1][Root]
    BY DEF LeadsUp
  <2>1. PICK k \in Both(Top.question) : p = Kid(Top.question, k)
    BY <1>5
  <2>2. p \in Below(Top.question)
    BY <1>2, <2>1, KidIs
  <2>3. m + 1 \in 1 .. Fuel /\ m + 1 - 1 = m /\ m + (n + 1) - 1 = m + 1 + n - 1 /\ m + 1 + n - 1 <= Fuel
    BY FuelIs
  <2>4. Differ[m + 1][Top.question]
    BY <1>2, <2>2, <2>3, DifferMeans
  <2>5. ~OfKey(Top.question)
    BY <1>1, <1>2 DEF FrameFits, IsLeaf, Leaves, OfKey
  <2> QED
    BY <1>2, <1>3, <2>3, <2>4, <2>5 DEF LeadsUp
<1>16. DifferIn(gs)
  <2>1. ASSUME NEW i \in 1 .. n + 1 PROVE LeadsUp(gs[i].question, i)
    <3>1. CASE i = n + 1
      BY <1>7, <1>9, <1>15, <3>1
    <3>2. CASE i \in 1 .. n
      BY <1>2, <1>3, <1>9, <3>2 DEF DifferIn
    <3> QED
      BY <1>3, <3>1, <3>2
  <2> QED
    BY <1>9, <2>1 DEF DifferIn
<1>17. Derived(result)
  BY DEF ComparisonInv, Compares
<1>18. Compares(gs, remaining, equaled, result)
  BY <1>11, <1>12, <1>13, <1>14, <1>16, <1>17 DEF Compares
<1> QED
  BY <1>1, <1>8, <1>18 DEF Keeps

LEMMA TurnKeeps ==
    ASSUME ComparisonInv, Turn
    PROVE  Keeps
<1> DEFINE q == Top.question
           h == Height(frames, remaining)
<1>1. /\ Entered /\ Top.todo = <<>> /\ frames # <<>> /\ Top.entered /\ remaining' = remaining
  BY DEF Turn, Entered
<1>2. PICK k \in Upcoming(Top) :
         IF k \in DOMAIN RightOf(q).kids
         THEN /\ frames' = [frames EXCEPT ![Len(frames)].keys = @ \ {k},
                                          ![Len(frames)].todo = Entry(q, k)]
              /\ UNCHANGED <<objects, equaled, result>>
         ELSE Over("false")
  BY DEF Turn
<1>3. /\ objects \in Comparisons /\ Top \in FrameSpace /\ FrameFits(Top) /\ q \in Questions
      /\ SameType(q) /\ DoneAlike(Top, h) /\ remaining \in Remains /\ frames \in Seq(FrameSpace)
  BY <1>1, TopFits DEF ComparisonInv, Compares, FramesTyped
<1>4. k \in Top.keys /\ k \in DOMAIN LeftOf(q).kids /\ ~IsLeaf(q)
  BY <1>1, <1>2, <1>3 DEF Upcoming, FrameFits
<1>5. /\ Len(frames) \in 1 .. Fuel /\ OpenIn(frames) = Len(frames) /\ remaining["visits"] \in Nat
      /\ h = Fuel - remaining["visits"] - Len(frames)
  BY <1>1, EnteredLevel
<1>6. CASE k \notin DOMAIN RightOf(q).kids
  <2>1. ~SameShape(q)
    BY <1>4, <1>6 DEF SameShape
  <2>2. ~OfKey(q)
    BY <1>4 DEF IsLeaf, Leaves, OfKey
  <2>3. Differ[Fuel][Root]
    BY <1>1, <1>5, <2>1, <2>2, DiffersAtTop
  <2>4. remaining' \in Remains /\ remaining'["visits"] <= remaining["visits"]
    BY <1>1, <1>3, <1>5
  <2>5. Over("false")
    BY <1>2, <1>6
  <2> QED
    BY <2>3, <2>4, <2>5, OverKeeps
<1>7. CASE k \in DOMAIN RightOf(q).kids
  <2> DEFINE f == [Top EXCEPT !.keys = @ \ {k}, !.todo = Entry(q, k)]
  <2>1. /\ frames' = [frames EXCEPT ![Len(frames)].keys = @ \ {k},
                                    ![Len(frames)].todo = Entry(q, k)]
        /\ UNCHANGED <<objects, equaled, result>>
    BY <1>2, <1>7
  <2>2. PICK n \in Nat \ {0} : n = Len(frames) /\ Top = frames[n]
    BY <1>1, <1>3, TopIs DEF Top
  <2>3. frames' = [frames EXCEPT ![n] = f]
    BY <1>3, <2>1, <2>2
  <2>4. k \in Both(q)
    BY <1>4, <1>7 DEF Both
  <2>5. /\ Entry(q, k) \in Seq(Questions)
        /\ Kid(q, k) \in {Entry(q, k)[j] : j \in 1 .. Len(Entry(q, k))}
    BY <1>3, <2>4, AskedEntry
  <2>6. /\ f \in FrameSpace /\ f.entered /\ f.question = q
        /\ f.keys = Top.keys \ {k} /\ f.todo = Entry(q, k)
    BY <1>1, <1>3, <2>5 DEF FrameSpace
  <2> HIDE DEF f, q
  <2>7. FrameFits(f)
    <3>1. Top.keys \subseteq DOMAIN LeftOf(q).kids /\ ~HeadersDiffer(q) /\ ~BothNil(q)
      BY <1>1, <1>3 DEF FrameFits, q
    <3>2. k \in Both(q) \ f.keys
      BY <2>4, <2>6
    <3> QED
      BY <1>3, <1>4, <2>6, <3>1, <3>2 DEF FrameFits
  <2>8. DoneAlike(f, h)
    <3> SUFFICES ASSUME NEW j \in DOMAIN LeftOf(q).kids \ f.keys
                 PROVE  j \in DOMAIN RightOf(q).kids /\ (Asking(f, j) \/ Alike[h][Kid(q, j)])
      BY <2>6 DEF DoneAlike
    <3>1. CASE j = k
      BY <1>7, <2>5, <2>6, <3>1 DEF Asking
    <3>2. CASE j # k
      <4>1. j \in DOMAIN LeftOf(q).kids \ Top.keys
        BY <2>6, <3>2
      <4>2. ~Asking(Top, j)
        <5>1. Len(Top.todo) = 0
          BY <1>1
        <5> QED
          BY <5>1 DEF Asking
      <4> QED
        BY <1>1, <1>3, <4>1, <4>2 DEF DoneAlike, q
    <3> QED
      BY <3>1, <3>2
  <2>9. Fuel - remaining["visits"] - Len(frames) = h /\ Len(frames) <= ComparisonDepth + 1
    BY <1>5 DEF ComparisonInv, Compares, FramesTyped
  <2>10. Compares([frames EXCEPT ![Len(frames)] = f], remaining, equaled, result)
    BY <1>1, <1>3, <2>6, <2>7, <2>8, <2>9, TopKeeps DEF q
  <2> QED
    BY <1>1, <2>1, <2>2, <2>3, <2>10 DEF Keeps
<1> QED
  BY <1>6, <1>7

LEMMA AllEqualKeeps ==
    ASSUME ComparisonInv, AllEqual
    PROVE  Keeps
<1> DEFINE q == Top.question
<1>1. /\ Entered /\ Top.todo = <<>> /\ Top.keys = {} /\ frames # <<>> /\ Top.entered
      /\ Equal(Completed(q)) /\ remaining' = remaining
  BY DEF AllEqual, Entered
<1>2. PICK h \in Nat : h = Height(frames, remaining)
  BY FuelIs DEF ComparisonInv, Compares, FramesTyped
<1>3. /\ objects \in Comparisons /\ FrameFits(Top) /\ q \in Questions
      /\ SameType(q) /\ DoneAlike(Top, h) /\ remaining \in Remains
  BY <1>1, <1>2, TopFits DEF ComparisonInv, Compares, FramesTyped
<1>4. ~IsLeaf(q) /\ ~HeadersDiffer(q) /\ ~BothNil(q)
  BY <1>1, <1>3 DEF FrameFits
<1>5. \A k \in DOMAIN LeftOf(q).kids : k \in DOMAIN RightOf(q).kids /\ Alike[h][Kid(q, k)]
  <2>1. \A k : ~Asking(Top, k)
    <3>1. Len(Top.todo) = 0
      BY <1>1
    <3> QED
      BY <3>1 DEF Asking
  <2> QED
    BY <1>1, <1>3, <2>1 DEF DoneAlike
<1> HIDE DEF q
<1>6. SameShape(q)
  BY <1>3, <1>4, <1>5, HeadersShape
<1>7. /\ h + 1 \in 1 .. Fuel /\ h = Fuel - remaining["visits"] - Len(frames)
      /\ remaining["visits"] \in Nat /\ Len(frames) \in Nat
  BY <1>1, <1>2, EnteredLevel
<1>8. h \in 0 .. Fuel /\ h + 1 \in h .. Fuel /\ h + 1 - 1 = h
  BY <1>7, FuelIs
<1>9. Alike[h + 1][q]
  <2>1. \A below \in Below(q) : Alike[h][below]
    BY <1>5 DEF Below
  <2> QED
    BY <1>3, <1>6, <1>7, <1>8, <2>1, AlikeMeans
<1>10. Completed(q) \in SUBSET (Values \X Values)
       /\ \A pair \in Completed(q) : Alike[h + 1][Ask(pair[1], pair[2], FALSE)]
  <2>1. CASE LeftOf(q).kind = "pointer"
    <3>1. ~LeftOf(q).nil
      BY <1>3, <1>4, <2>1, SidesAre DEF BothNil, HeadersDiffer, PresenceDiffers, Nilable, ValueWellFormed
    <3>2. /\ DOMAIN LeftOf(q).kids = {1} /\ DOMAIN RightOf(q).kids = {1}
          /\ Kid(q, 1) = Ask(Pair(q)[1], Pair(q)[2], FALSE) /\ Pair(q) \in Values \X Values
      BY <1>3, <1>4, <2>1, <3>1, PointerLeads
    <3>3. Kid(q, 1) \in Questions
      BY <1>3, <3>2, KidIs DEF Both
    <3>4. Alike[h + 1][Kid(q, 1)]
      BY <1>3, <1>5, <1>8, <3>2, <3>3, AlikeRises
    <3> QED
      BY <2>1, <3>2, <3>4 DEF Completed
  <2>2. CASE LeftOf(q).kind # "pointer"
    BY <2>2 DEF Completed
  <2> QED
    BY <2>1, <2>2
<1>11. Fuel - remaining["visits"] - (Len(frames) - 1) = h + 1
  BY <1>7, FuelIs
<1>12. Compares(Returned(Front(frames)), remaining, equaled \cup Completed(q),
                IF Len(frames) = 1 THEN "true" ELSE result)
  BY <1>1, <1>2, <1>3, <1>7, <1>9, <1>10, <1>11, ReturnKeeps DEF q
<1> QED
  BY <1>1, <1>12 DEF Equal, Keeps

-----------------------------------------------------------------------------
(* Of the same objects the same is said. *)
LEMMA AlikeKept ==
    ASSUME objects' = objects
    PROVE  Alike' = Alike
  BY DEF Alike, Questions, Values, SameShape, Below, Kid, Ask, LeftOf, RightOf, IsLeaf, AtomsEqual

LEMMA DifferKept ==
    ASSUME objects' = objects
    PROVE  Differ' = Differ
  BY DEF Differ, Questions, Values, SameShape, Below, Kid, Ask, LeftOf, RightOf, IsLeaf, AtomsEqual

LEMMA ComparesKept ==
    ASSUME objects' = objects, objects \in Comparisons,
           Compares(frames', remaining', equaled', result')
    PROVE  ComparisonInv'
<1>1. Alike' = Alike /\ Differ' = Differ
  BY AlikeKept, DifferKept
<1>2. /\ Values' = Values /\ Questions' = Questions /\ Places' = Places /\ Root' = Root
      /\ FrameSpace' = FrameSpace
  BY DEF Values, Questions, Places, Root, FrameSpace, Ask
<1>3. FramesTyped(frames, remaining, equaled, result)'
  BY <1>2 DEF Compares, FramesTyped, Height, OpenIn
<1>4. StackFits(frames)'
  <2>1. ASSUME NEW f, FrameFits(f) PROVE FrameFits(f)'
    BY <2>1 DEF FrameFits, SameType, LeftOf, RightOf, IsLeaf, HeadersDiffer, PresenceDiffers,
                SizeDiffers, BothNil, Both, Entry, Kid, Ask
  <2> QED
    BY <1>2, <2>1 DEF Compares, StackFits
<1>5. AlikeIn(frames, equaled, Height(frames, remaining))'
  <2>1. ASSUME NEW f, NEW h, DoneAlike(f, h) PROVE DoneAlike(f, h)'
    BY <1>1, <2>1 DEF DoneAlike, LeftOf, RightOf, Asking, Kid, Ask
  <2> QED
    BY <1>1, <2>1 DEF Compares, AlikeIn, Height, OpenIn, Ask
<1>6. DifferIn(frames)'
  <2>1. ASSUME NEW q, NEW i, LeadsUp(q, i) PROVE LeadsUp(q, i)'
    BY <1>1, <1>2, <2>1 DEF LeadsUp, OfKey, LeftOf
  <2> QED
    BY <2>1 DEF Compares, DifferIn
<1>7. Derived(result)'
  BY <1>1, <1>2 DEF Compares, Derived
<1> QED
  BY <1>3, <1>4, <1>5, <1>6, <1>7 DEF ComparisonInv, Compares

LEMMA ComparisonStarts == ComparisonInit => ComparisonInv
<1> SUFFICES ASSUME ComparisonInit PROVE ComparisonInv
  OBVIOUS
<1>1. PICK f : f = Frame(Root)
  OBVIOUS
<1>2. /\ objects \in Comparisons /\ frames = <<f>> /\ remaining = ComparisonLimits
      /\ equaled = {} /\ result = "none"
  BY <1>1 DEF ComparisonInit, Root
<1>3. Root \in Questions /\ SameType(Root)
  BY <1>2, ObjectsAre DEF Root, Ask, Questions, SameType
<1>4. f \in FrameSpace /\ f.question = Root /\ ~f.entered /\ f.keys = {} /\ f.todo = <<>>
  BY <1>1, <1>3 DEF Frame, FrameSpace
<1>5. /\ frames \in Seq(FrameSpace) /\ Len(frames) = 1 /\ frames[1] = f /\ frames # <<>>
      /\ frames[Len(frames)] = f
  BY <1>2, <1>4
<1>6. OpenIn(frames) = 0
  BY <1>4, <1>5 DEF OpenIn
<1>7. Height(frames, remaining) = 0
  BY <1>2, <1>6, FuelIs DEF Height, Fuel
<1>8. FramesTyped(frames, remaining, equaled, result)
  <2>1. remaining \in Remains
    BY <1>2, ComparisonLimitsAssumption DEF Remains
  <2> QED
    BY <1>2, <1>5, <1>6, <1>7, <2>1, FuelIs DEF FramesTyped
<1>9. StackFits(frames)
  <2>1. FrameFits(f)
    BY <1>3, <1>4 DEF FrameFits
  <2>2. \A i \in 1 .. Len(frames) : i = 1
    BY <1>5
  <2>3. \A i \in 1 .. Len(frames) - 1 : FALSE
    BY <1>5
  <2> QED
    BY <1>4, <1>5, <2>1, <2>2, <2>3 DEF StackFits
<1>10. AlikeIn(frames, equaled, Height(frames, remaining))
  <2>1. \A i \in 1 .. Len(frames) : i = 1
    BY <1>5
  <2> QED
    BY <1>2, <1>4, <1>5, <2>1 DEF AlikeIn, DoneAlike
<1>11. DifferIn(frames)
  <2>1. \A i \in 1 .. Len(frames) : i = 1
    BY <1>5
  <2>2. LeadsUp(Root, 1)
    <3>1. \A n \in 1 .. Fuel : n + 1 - 1 = n
      BY FuelIs
    <3> QED
      BY <3>1, Zenon DEF LeadsUp
  <2> QED
    BY <1>4, <1>5, <2>1, <2>2 DEF DifferIn
<1>12. Derived(result)
  BY <1>2 DEF Derived
<1> QED
  BY <1>2, <1>8, <1>9, <1>10, <1>11, <1>12 DEF ComparisonInv, Compares

LEMMA ComparisonKeeps == ComparisonInv /\ [ComparisonNext]_equalityVars => ComparisonInv'
<1> SUFFICES ASSUME ComparisonInv, [ComparisonNext]_equalityVars
             PROVE  ComparisonInv'
  OBVIOUS
<1>1. Keeps
  <2>1. CASE RefuseVisit
    BY <2>1, RefuseVisitKeeps
  <2>2. CASE HeadersTell
    BY <2>2, HeadersTellKeeps
  <2>3. CASE RefuseCharge
    BY <2>3, RefuseChargeKeeps
  <2>4. CASE EqualAtOnce
    BY <2>4, EqualAtOnceKeeps
  <2>5. CASE CompareLeaf
    BY <2>5, CompareLeafKeeps
  <2>6. CASE Enter
    BY <2>6, EnterKeeps
  <2>7. CASE AskNext
    BY <2>7, AskNextKeeps
  <2>8. CASE Turn
    BY <2>8, TurnKeeps
  <2>9. CASE AllEqual
    BY <2>9, AllEqualKeeps
  <2>10. CASE UNCHANGED equalityVars
    BY <2>10 DEF equalityVars, Keeps, ComparisonInv
  <2> QED
    BY <2>1, <2>2, <2>3, <2>4, <2>5, <2>6, <2>7, <2>8, <2>9, <2>10 DEF ComparisonNext
<1> QED
  BY <1>1, ComparesKept DEF Keeps, ComparisonInv

(* A comparison answers true only of values that are alike down to their   *)
(* last leaf, and false only of values that differ somewhere: what the     *)
(* memory of pairs and the shared budget leave out decides nothing.        *)
THEOREM AnswersDerived == ComparisonSpec => []AnswerIsDerived
<1>1. ComparisonInv => AnswerIsDerived
  BY DEF ComparisonInv, Compares, Derived, AnswerIsDerived
<1> QED
  BY ComparisonStarts, ComparisonKeeps, <1>1, PTL DEF ComparisonSpec

-----------------------------------------------------------------------------
(* What a walk may spend.                                                  *)
Whole(n, at, what) == Extent[n][at][what]
Kids(at) == objects.values[at].kids
KidCosts(n, at, what) ==
    [k \in DOMAIN Kids(at) |->
        Whole(n - 1, Kids(at)[k], what)
        + IF objects.values[at].kind = "map" THEN Whole(n - 1, k, what) ELSE 0]

Levels == 0 .. ComparisonDepth + 1

LEMMA ExtentMeans ==
    ASSUME NEW at \in Values, NEW what \in Resources
    PROVE  /\ Whole(0, at, what) = IF what = "visits" THEN ComparisonLimits["visits"] + 1 ELSE 0
           /\ \A n \in 1 .. ComparisonDepth + 1 :
                 Whole(n, at, what) = Own(objects.values[at], what)
                                      + SumFunctionOnSet(KidCosts(n, at, what), DOMAIN Kids(at))
<1>1. 0 \in Levels /\ \A n \in 1 .. ComparisonDepth + 1 : n \in Levels /\ n > 0
  BY FuelIs DEF Levels
<1>2. \A n \in Levels : Extent[n] = Reach(n, Extent[n - 1])
  BY ExtentIs DEF Levels
<1>3. Whole(0, at, what) = IF what = "visits" THEN ComparisonLimits["visits"] + 1 ELSE 0
  <2>1. Extent[0] = Reach(0, Extent[0 - 1]) /\ ~(0 > 0)
    BY <1>1, <1>2
  <2>2. Reach(0, Extent[0 - 1])[at][what] = IF what = "visits" THEN ComparisonLimits["visits"] + 1 ELSE 0
    BY <2>1, Zenon DEF Reach
  <2> QED
    BY <2>1, <2>2 DEF Whole
<1>4. ASSUME NEW n \in 1 .. ComparisonDepth + 1
      PROVE  Whole(n, at, what) = Own(objects.values[at], what)
                                  + SumFunctionOnSet(KidCosts(n, at, what), DOMAIN Kids(at))
  <2>1. n > 0 /\ n \in Levels
    BY <1>1
  <2>2. Extent[n] = Reach(n, Extent[n - 1])
    BY <1>2, <2>1
  <2>3. Reach(n, Extent[n - 1])[at][what]
        = Own(objects.values[at], what) + SumFunction(KidCosts(n, at, what))
    BY <2>1, Zenon DEF Reach, KidCosts, Whole, Kids
  <2>4. SumFunction(KidCosts(n, at, what)) = SumFunctionOnSet(KidCosts(n, at, what), DOMAIN Kids(at))
    BY DEF SumFunction, KidCosts
  <2> QED
    BY <2>2, <2>3, <2>4 DEF Whole
<1> QED
  BY <1>3, <1>4

LEMMA OwnIs ==
    ASSUME objects \in Comparisons, NEW at \in Values, NEW what \in Resources
    PROVE  /\ Own(objects.values[at], what) \in Nat
           /\ Charge(objects.values[at])[what] = Own(objects.values[at], what)
           /\ Own(objects.values[at], "visits") = 1
<1>1. objects.values[at].size \in Nat
  BY ObjectsAre DEF ValueWellFormed
<1> QED
  BY <1>1 DEF Own, Charge, Resources

LEMMA PlacesFinite ==
    ASSUME objects \in Comparisons, NEW at \in Values
    PROVE  /\ IsFiniteSet(DOMAIN Kids(at))
           /\ \A k \in DOMAIN Kids(at) : Kids(at)[k] \in Values
           /\ objects.values[at].kind = "map" => \A k \in DOMAIN Kids(at) : k \in Values
<1>1. ValueWellFormed(objects.values, objects.values[at])
  BY ObjectsAre
<1>2. IsFiniteSet(DOMAIN Kids(at))
  <2>1. CASE objects.values[at].kind = "map"
    BY <1>1, <2>1 DEF ValueWellFormed, Kids
  <2>2. CASE objects.values[at].kind # "map"
    <3>1. PICK n \in Nat : DOMAIN Kids(at) = 1 .. n
      BY <1>1, <2>2 DEF ValueWellFormed, Kids
    <3> QED
      BY <3>1, FS_Interval
  <2> QED
    BY <2>1, <2>2
<1> QED
  BY <1>1, <1>2, KidsAre DEF ValueWellFormed, Kids, Values

LEMMA WholeIsNat ==
    ASSUME objects \in Comparisons
    PROVE  \A n \in Levels, at \in Values, what \in Resources : Whole(n, at, what) \in Nat
<1> DEFINE Bad == {n \in Levels : \E at \in Values, what \in Resources : Whole(n, at, what) \notin Nat}
<1> SUFFICES ASSUME Bad # {} PROVE FALSE
  OBVIOUS
<1>0. Bad \subseteq Nat
  BY FuelIs DEF Levels
<1>1. PICK n \in Bad : \A m \in Bad : n <= m
  BY <1>0, LeastElement
<1>2. PICK at \in Values, what \in Resources : Whole(n, at, what) \notin Nat
  BY <1>1
<1>3. n # 0
  <2>1. ComparisonLimits["visits"] \in Nat
    BY FuelIs DEF Fuel
  <2>2. n = 0 => Whole(n, at, what) \in Nat
    BY <2>1, ExtentMeans
  <2> QED
    BY <1>2, <2>2
<1>4. n \in 1 .. ComparisonDepth + 1 /\ n - 1 \in Levels /\ n - 1 \notin Bad
  BY <1>1, <1>3, FuelIs DEF Levels
<1>5. \A v \in Values : Whole(n - 1, v, what) \in Nat
  BY <1>4
<1>6. \A k \in DOMAIN Kids(at) : KidCosts(n, at, what)[k] \in Nat
  BY <1>5, PlacesFinite DEF KidCosts
<1>7. SumFunctionOnSet(KidCosts(n, at, what), DOMAIN Kids(at)) \in Nat
  BY <1>6, PlacesFinite, SumTakes
<1>8. Own(objects.values[at], what) \in Nat
  BY OwnIs
<1>9. Whole(n, at, what) = Own(objects.values[at], what)
                           + SumFunctionOnSet(KidCosts(n, at, what), DOMAIN Kids(at))
  BY <1>4, ExtentMeans
<1> QED
  BY <1>2, <1>7, <1>8, <1>9

(* What a call still has to spend: all of its value, or what is left of    *)
(* the keys and the questions at hand.                                     *)
Part(q, n, what) == Whole(n, q.left, what)
Ahead(asks, n, what) ==
    (IF Len(asks) >= 1 THEN Part(asks[1], n, what) ELSE 0)
    + (IF Len(asks) >= 2 THEN Part(asks[2], n, what) ELSE 0)
Later(f, n, what) == SumFunctionOnSet(KidCosts(n, f.question.left, what), f.keys)
Rest(f, n, asks, what) == Later(f, n, what) + Ahead(asks, n - 1, what)
Due(f, n, what) == IF f.entered THEN Rest(f, n, f.todo, what) ELSE Part(f.question, n, what)

(* The costs of a set of keys sum up, and lose one when a key is taken.    *)
SumsOver(costs, keys) ==
    /\ SumFunctionOnSet(costs, keys) \in Nat
    /\ \A k \in keys :
          /\ SumFunctionOnSet(costs, keys \ {k}) \in Nat
          /\ SumFunctionOnSet(costs, keys) = costs[k] + SumFunctionOnSet(costs, keys \ {k})

LEMMA LaterIs ==
    ASSUME objects \in Comparisons, NEW q \in Questions, NEW keys, keys \subseteq DOMAIN LeftOf(q).kids,
           NEW what \in Resources, NEW n \in 1 .. ComparisonDepth + 1
    PROVE  SumsOver(KidCosts(n, q.left, what), keys)
<1> DEFINE at == q.left
           costs == KidCosts(n, at, what)
<1>1. at \in Values /\ DOMAIN LeftOf(q).kids = DOMAIN Kids(at)
  BY DEF Questions, LeftOf, Kids
<1>2. n - 1 \in Levels
  BY FuelIs DEF Levels
<1>3. \A v \in Values : Whole(n - 1, v, what) \in Nat
  BY <1>2, WholeIsNat
<1>4. \A k \in DOMAIN Kids(at) : costs[k] \in Nat
  BY <1>1, <1>3, PlacesFinite DEF KidCosts
<1>5. \A s \in SUBSET keys : IsFiniteSet(s) /\ \A k \in s : costs[k] \in Nat
  BY <1>1, <1>4, PlacesFinite, FS_Subset
<1> HIDE DEF costs
<1>6. \A s \in SUBSET keys : SumFunctionOnSet(costs, s) \in Nat
  BY <1>5, SumTakes
<1>7. /\ SumFunctionOnSet(costs, keys) \in Nat
      /\ \A k \in keys : SumFunctionOnSet(costs, keys) = costs[k] + SumFunctionOnSet(costs, keys \ {k})
  BY <1>5, SumTakes
<1>8. \A k \in keys : SumFunctionOnSet(costs, keys \ {k}) \in Nat
  BY <1>6
<1>9. SumsOver(costs, keys)
  BY <1>7, <1>8 DEF SumsOver
<1> QED
  BY <1>9, Zenon DEF costs

Level(i) == ComparisonDepth + 2 - i
Spent(rem, what) == ComparisonLimits[what] - rem[what]

(* Each call has an allowance for itself and all it calls: what the frame  *)
(* below it had, less what that frame will still need.                     *)
Allows(a, fs, rem, what) ==
    /\ a \in [1 .. Len(fs) -> Nat] /\ Spent(rem, what) \in Nat
    /\ \A i \in 1 .. Len(fs) : a[i] <= Whole(ComparisonDepth + 1, objects.left, what)
    /\ \A i \in 1 .. Len(fs) - 1 :
          a[i + 1] + Rest(fs[i], Level(i), Tail(fs[i].todo), what) <= a[i]
    /\ Spent(rem, what) + Due(fs[Len(fs)], Level(Len(fs)), what) <= a[Len(fs)]
Allowed(fs, rem, what) == fs # <<>> => \E a : Allows(a, fs, rem, what)

LimitInv ==
    ComparisonInv /\ LimitIsExceeded
    /\ \A what \in Resources : Allowed(frames, remaining, what)

LEMMA PartIs ==
    ASSUME objects \in Comparisons, NEW q \in Questions, NEW n \in Levels, NEW what \in Resources
    PROVE  Part(q, n, what) \in Nat
  BY WholeIsNat DEF Part, Questions

LEMMA TailIs ==
    ASSUME NEW S, NEW s \in Seq(S), s # <<>>
    PROVE  /\ Len(s) \in Nat \ {0} /\ Head(s) = s[1] /\ Head(s) \in S
           /\ Tail(s) \in Seq(S) /\ Len(Tail(s)) = Len(s) - 1
           /\ Len(s) = 2 => Tail(s)[1] = s[2]
<1>1. Len(s) \in Nat \ {0}
  OBVIOUS
<1>2. Head(s) = s[1] /\ Head(s) \in S
  OBVIOUS
<1>3. Tail(s) \in Seq(S) /\ Len(Tail(s)) = Len(s) - 1
  OBVIOUS
<1>4. Len(s) = 2 => Tail(s)[1] = s[2]
  OBVIOUS
<1> QED
  BY <1>1, <1>2, <1>3, <1>4
LEMMA AheadIs ==
    ASSUME objects \in Comparisons, NEW asks \in Seq(Questions), NEW n \in Levels, NEW what \in Resources
    PROVE  /\ Ahead(asks, n, what) \in Nat /\ Ahead(<<>>, n, what) = 0
           /\ asks # <<>> /\ Len(asks) <= 2 =>
                 /\ Ahead(Tail(asks), n, what) \in Nat
                 /\ Ahead(asks, n, what) = Part(Head(asks), n, what) + Ahead(Tail(asks), n, what)
<1>1. \A q \in Questions : Part(q, n, what) \in Nat
  BY PartIs
<1>2. /\ Len(asks) >= 1 => asks[1] \in Questions /\ Part(asks[1], n, what) \in Nat
      /\ Len(asks) >= 2 => asks[2] \in Questions /\ Part(asks[2], n, what) \in Nat
  BY <1>1
<1>3. Ahead(asks, n, what) \in Nat
  BY <1>2 DEF Ahead
<1>4. Ahead(<<>>, n, what) = 0
  BY DEF Ahead
<1>5. ASSUME asks # <<>>, Len(asks) <= 2
      PROVE  /\ Ahead(Tail(asks), n, what) \in Nat
             /\ Ahead(asks, n, what) = Part(Head(asks), n, what) + Ahead(Tail(asks), n, what)
  <2>0. /\ Len(asks) \in Nat \ {0} /\ Head(asks) = asks[1]
        /\ Tail(asks) \in Seq(Questions) /\ Len(Tail(asks)) = Len(asks) - 1
        /\ Len(asks) = 2 => Tail(asks)[1] = asks[2]
    BY <1>5, TailIs
  <2>1. PICK p \in Seq(Questions) : p = Tail(asks)
    BY <2>0
  <2>2. Len(asks) = 1 \/ Len(asks) = 2
    BY <1>5, <2>0
  <2>3. Head(asks) = asks[1]
    BY <2>0
  <2>4. CASE Len(asks) = 1
    <3>1. Len(p) = 0
      BY <2>0, <2>1, <2>4
    <3>2. 1 >= 1 /\ ~(1 >= 2) /\ ~(0 >= 1) /\ ~(0 >= 2)
      OBVIOUS
    <3>3. Ahead(asks, n, what) = Part(asks[1], n, what) + 0 /\ Ahead(p, n, what) = 0 + 0
      BY <2>4, <3>1, <3>2, Zenon DEF Ahead
    <3>4. Part(asks[1], n, what) \in Nat
      BY <1>2, <2>4
    <3> QED
      BY <2>1, <2>3, <3>3, <3>4
  <2>5. CASE Len(asks) = 2
    <3>0. Len(p) = 2 - 1 /\ 2 - 1 = 1
      BY <2>0, <2>1, <2>5
    <3>1. Len(p) = 1 /\ p[1] = asks[2]
      BY <2>0, <2>1, <2>5, <3>0, Zenon
    <3>2. 1 >= 1 /\ ~(1 >= 2) /\ 2 >= 1 /\ 2 >= 2
      OBVIOUS
    <3>3. /\ Ahead(asks, n, what) = Part(asks[1], n, what) + Part(asks[2], n, what)
          /\ Ahead(p, n, what) = Part(asks[2], n, what) + 0
      BY <2>5, <3>1, <3>2, Zenon DEF Ahead
    <3>4. Part(asks[1], n, what) \in Nat /\ Part(asks[2], n, what) \in Nat
      BY <1>2, <2>5
    <3> QED
      BY <2>1, <2>3, <3>3, <3>4
  <2> QED
    BY <2>2, <2>4, <2>5
<1> QED
  BY <1>3, <1>4, <1>5

LEMMA FewAhead ==
    ASSUME NEW f, FrameFits(f), f.todo # <<>>
    PROVE  Len(f.todo) <= 2
<1>1. PICK k : f.todo \in {Entry(f.question, k), <<Kid(f.question, k)>>}
  BY DEF FrameFits
<1> DEFINE a == Ask(k, k, FALSE)
           b == Kid(f.question, k)
<1>2. f.todo = <<a, b>> \/ f.todo = <<b>>
  BY <1>1 DEF Entry
<1> HIDE DEF a, b
<1>3. Len(<<a, b>>) = 2 /\ Len(<<b>>) = 1
  OBVIOUS
<1>4. CASE f.todo = <<a, b>>
  <2>1. 2 <= 2
    OBVIOUS
  <2> QED
    BY <1>3, <1>4, <2>1, Zenon
<1>5. CASE f.todo = <<b>>
  <2>1. 1 <= 2
    OBVIOUS
  <2> QED
    BY <1>3, <1>5, <2>1, Zenon
<1> QED
  BY <1>2, <1>4, <1>5

(* What the calls about a place will spend is its cost. *)
LEMMA EntryCosts ==
    ASSUME objects \in Comparisons, NEW q \in Questions, NEW k \in DOMAIN LeftOf(q).kids,
           NEW n \in 1 .. ComparisonDepth + 1, NEW what \in Resources
    PROVE  Ahead(Entry(q, k), n - 1, what) = KidCosts(n, q.left, what)[k]
<1> DEFINE a == Ask(k, k, FALSE)
           b == Kid(q, k)
<1>1. a.left = k /\ b.left = LeftOf(q).kids[k]
  BY DEF Ask, Kid
<1>2. KidCosts(n, q.left, what)[k]
      = Whole(n - 1, LeftOf(q).kids[k], what)
        + IF LeftOf(q).kind = "map" THEN Whole(n - 1, k, what) ELSE 0
  BY DEF KidCosts, Kids, LeftOf
<1>0. /\ Whole(n - 1, LeftOf(q).kids[k], what) \in Nat
      /\ LeftOf(q).kind = "map" => Whole(n - 1, k, what) \in Nat
  <2>1. n - 1 \in Levels
    BY FuelIs DEF Levels
  <2>2. q.left \in Values /\ k \in DOMAIN Kids(q.left) /\ LeftOf(q).kids[k] = Kids(q.left)[k]
    BY DEF Questions, LeftOf, Kids
  <2>3. LeftOf(q).kids[k] \in Values /\ (LeftOf(q).kind = "map" => k \in Values)
    BY <2>2, PlacesFinite DEF LeftOf
  <2> QED
    BY <2>1, <2>3, WholeIsNat
<1>3. Entry(q, k) = IF LeftOf(q).kind = "map" THEN <<a, b>> ELSE <<b>>
  BY DEF Entry
<1> HIDE DEF a, b
<1>4. /\ Len(<<a, b>>) = 2 /\ <<a, b>>[1] = a /\ <<a, b>>[2] = b
      /\ Len(<<b>>) = 1 /\ <<b>>[1] = b
  OBVIOUS
<1>5. CASE LeftOf(q).kind = "map"
  <2>1. Ahead(Entry(q, k), n - 1, what) = Whole(n - 1, k, what) + Whole(n - 1, LeftOf(q).kids[k], what)
    BY <1>1, <1>3, <1>4, <1>5 DEF Ahead, Part
  <2> QED
    BY <1>0, <1>2, <1>5, <2>1
<1>6. CASE LeftOf(q).kind # "map"
  <2>1. Ahead(Entry(q, k), n - 1, what) = Whole(n - 1, LeftOf(q).kids[k], what) + 0
    BY <1>1, <1>3, <1>4, <1>6 DEF Ahead, Part
  <2> QED
    BY <1>0, <1>2, <1>6, <2>1
<1> QED
  BY <1>5, <1>6

LEMMA RestIs ==
    ASSUME objects \in Comparisons, NEW f \in FrameSpace, FrameFits(f), f.entered,
           NEW n \in 1 .. ComparisonDepth + 1, NEW what \in Resources
    PROVE  /\ Later(f, n, what) \in Nat /\ Rest(f, n, f.todo, what) \in Nat
           /\ Rest(f, n, <<>>, what) = Later(f, n, what)
           /\ f.todo # <<>> =>
                 /\ Rest(f, n, Tail(f.todo), what) \in Nat
                 /\ Part(Head(f.todo), n - 1, what) \in Nat
                 /\ Rest(f, n, f.todo, what)
                    = Part(Head(f.todo), n - 1, what) + Rest(f, n, Tail(f.todo), what)
<1>1. f.question \in Questions /\ f.todo \in Seq(Questions) /\ f.keys \subseteq DOMAIN LeftOf(f.question).kids
  BY DEF FrameSpace, FrameFits
<1>2. n - 1 \in Levels
  BY FuelIs DEF Levels
<1>3. Later(f, n, what) \in Nat
  <2>1. SumsOver(KidCosts(n, f.question.left, what), f.keys)
    BY <1>1, LaterIs, Zenon
  <2> QED
    BY <2>1 DEF SumsOver, Later
<1>4. Ahead(f.todo, n - 1, what) \in Nat /\ Ahead(<<>>, n - 1, what) = 0
  BY <1>1, <1>2, AheadIs
<1>5. ASSUME f.todo # <<>>
      PROVE  /\ Ahead(Tail(f.todo), n - 1, what) \in Nat
             /\ Ahead(f.todo, n - 1, what) = Part(Head(f.todo), n - 1, what) + Ahead(Tail(f.todo), n - 1, what)
             /\ Part(Head(f.todo), n - 1, what) \in Nat
  <2>1. Head(f.todo) \in Questions
    BY <1>1, <1>5
  <2> QED
    BY <1>1, <1>2, <1>5, <2>1, AheadIs, FewAhead, PartIs
<1> QED
  BY <1>3, <1>4, <1>5 DEF Rest

(* What the stack says of levels. *)
LEMMA LevelIs ==
    ASSUME ComparisonInv, frames # <<>>
    PROVE  /\ \A i \in 1 .. Len(frames) : Level(i) \in Levels
           /\ \A i \in 1 .. Len(frames) : frames[i].entered => Level(i) \in 1 .. ComparisonDepth + 1
           /\ Level(1) = ComparisonDepth + 1
<1>1. frames \in Seq(FrameSpace) /\ OpenIn(frames) <= ComparisonDepth + 1
  BY DEF ComparisonInv, Compares, FramesTyped
<1>2. PICK n \in Nat \ {0} : n = Len(frames)
  BY <1>1, TopIs
<1>3. ~frames[n].entered => n - 1 <= ComparisonDepth + 1
  BY <1>1, <1>2 DEF OpenIn
<1>4. frames[n].entered => n <= ComparisonDepth + 1
  BY <1>1, <1>2 DEF OpenIn
<1>5. n <= ComparisonDepth + 2
  BY <1>2, <1>3, <1>4, FuelIs
<1>6. \A i \in 1 .. n : Level(i) \in Levels
  BY <1>5, FuelIs DEF Level, Levels
<1>7. \A i \in 1 .. n : frames[i].entered => Level(i) \in 1 .. ComparisonDepth + 1
  <2> SUFFICES ASSUME NEW i \in 1 .. n, frames[i].entered
               PROVE  Level(i) \in 1 .. ComparisonDepth + 1
    OBVIOUS
  <2>1. i <= ComparisonDepth + 1
    BY <1>4, <1>5, FuelIs
  <2> QED
    BY <2>1, FuelIs DEF Level
<1>8. Level(1) = ComparisonDepth + 1
  BY FuelIs DEF Level
<1> QED
  BY <1>2, <1>6, <1>7, <1>8

LEMMA DueIs ==
    ASSUME ComparisonInv, frames # <<>>, NEW what \in Resources
    PROVE  Due(Top, Level(Len(frames)), what) \in Nat
<1>1. frames \in Seq(FrameSpace) /\ objects \in Comparisons
  BY DEF ComparisonInv, Compares, FramesTyped
<1>2. Top \in FrameSpace /\ FrameFits(Top) /\ Top.question \in Questions
  BY TopFits
<1>3. Top = frames[Len(frames)] /\ Len(frames) \in 1 .. Len(frames)
  BY <1>1, TopIs DEF Top
<1>4. /\ Level(Len(frames)) \in Levels
      /\ Top.entered => Level(Len(frames)) \in 1 .. ComparisonDepth + 1
  BY <1>3, LevelIs
<1>5. Top.entered => Rest(Top, Level(Len(frames)), Top.todo, what) \in Nat
  BY <1>1, <1>2, <1>4, RestIs
<1>6. Part(Top.question, Level(Len(frames)), what) \in Nat
  BY <1>1, <1>2, <1>4, PartIs
<1> QED
  BY <1>5, <1>6 DEF Due

(* The frame at the top goes on. *)
LEMMA TopAllowed ==
    ASSUME ComparisonInv, frames # <<>>, NEW what \in Resources, Allowed(frames, remaining, what),
           NEW f \in FrameSpace, NEW rem, NEW n, n = Len(frames), Spent(rem, what) \in Nat,
           Spent(rem, what) + Due(f, Level(n), what)
               <= Spent(remaining, what) + Due(Top, Level(n), what),
           Due(f, Level(n), what) \in Nat
    PROVE  Allowed([frames EXCEPT ![n] = f], rem, what)
<1>1. frames \in Seq(FrameSpace)
  BY DEF ComparisonInv, Compares, FramesTyped
<1>2. n \in Nat \ {0} /\ n \in 1 .. n /\ Top = frames[n]
  BY <1>1, TopIs DEF Top
<1>3. PICK a : Allows(a, frames, remaining, what)
  BY DEF Allowed
<1>4. PICK gs : gs = [frames EXCEPT ![n] = f]
  OBVIOUS
<1>6. Len(gs) = n /\ gs[n] = f /\ \A i \in 1 .. n - 1 : gs[i] = frames[i]
  BY <1>1, <1>2, <1>4
<1>7. Spent(remaining, what) \in Nat /\ Due(Top, Level(n), what) \in Nat /\ a[n] \in Nat
  BY <1>2, <1>3, DueIs DEF Allows
<1>8. Spent(rem, what) + Due(f, Level(n), what) <= a[n]
  <2>1. Spent(remaining, what) + Due(Top, Level(n), what) <= a[n]
    BY <1>2, <1>3 DEF Allows
  <2> QED
    BY <1>7, <2>1
<1>9. Allows(a, gs, rem, what)
  BY <1>2, <1>3, <1>6, <1>8 DEF Allows
<1> QED
  BY <1>4, <1>9 DEF Allowed

(* The call at the top returns. *)
LEMMA PopAllowed ==
    ASSUME ComparisonInv, frames # <<>>, NEW what \in Resources, Allowed(frames, remaining, what),
           NEW rem, Spent(rem, what) \in Nat,
           Spent(rem, what) <= Spent(remaining, what) + Due(Top, Level(Len(frames)), what)
    PROVE  Allowed(Returned(Front(frames)), rem, what)
<1>1. PICK n \in Nat : n = Len(frames) - 1
  BY TopIs DEF ComparisonInv, Compares, FramesTyped
<1>2. PICK gs : gs = Returned(Front(frames)) /\ gs = Popped
  BY DEF Popped
<1>3. /\ Top = frames[n + 1] /\ Len(frames) = n + 1
      /\ n # 0 => frames[n].entered /\ frames[n].todo # <<>>
      /\ gs \in Seq(FrameSpace) /\ Len(gs) = n
      /\ \A i \in 1 .. n - 1 : gs[i] = frames[i]
      /\ n # 0 => gs[n] = AfterAnswer(frames[n])
  BY <1>1, <1>2, PoppedIs
<1>4. /\ objects \in Comparisons /\ frames \in Seq(FrameSpace) /\ StackFits(frames)
  BY DEF ComparisonInv, Compares, FramesTyped
<1> SUFFICES ASSUME n # 0 PROVE \E a : Allows(a, gs, rem, what)
  <2>1. gs # <<>> => n # 0
    BY <1>3
  <2> QED
    BY <1>2, <2>1 DEF Allowed
<1>5. PICK a : Allows(a, frames, remaining, what)
  BY DEF Allowed
<1>6. PICK h : h = [i \in 1 .. n |-> a[i]]
  OBVIOUS
<1>7. n \in 1 .. n /\ n \in 1 .. n + 1 /\ n + 1 \in 1 .. n + 1 /\ n + 1 - 1 = n
      /\ (\A i \in 1 .. n : i \in 1 .. n + 1)
      /\ \A i \in 1 .. n - 1 : i \in 1 .. n /\ i + 1 \in 1 .. n
  OBVIOUS
<1>8. /\ a \in [1 .. n + 1 -> Nat] /\ Spent(remaining, what) \in Nat
      /\ \A i \in 1 .. n + 1 : a[i] <= Whole(ComparisonDepth + 1, objects.left, what)
      /\ \A i \in 1 .. n : a[i + 1] + Rest(frames[i], Level(i), Tail(frames[i].todo), what) <= a[i]
      /\ Spent(remaining, what) + Due(Top, Level(n + 1), what) <= a[n + 1]
  BY <1>3, <1>5, <1>7 DEF Allows
<1>9. h \in [1 .. n -> Nat] /\ \A i \in 1 .. n : h[i] = a[i]
  BY <1>6, <1>7, <1>8
<1>10. Due(gs[n], Level(n), what) = Rest(frames[n], Level(n), Tail(frames[n].todo), what)
  <2>1. frames[n] \in FrameSpace
    BY <1>3, <1>4, <1>7
  <2>2. /\ gs[n].entered /\ gs[n].question = frames[n].question /\ gs[n].keys = frames[n].keys
        /\ gs[n].todo = Tail(frames[n].todo)
    BY <1>3, <2>1 DEF FrameSpace, AfterAnswer
  <2> QED
    BY <2>2 DEF Due, Rest, Later
<1>11. Rest(frames[n], Level(n), Tail(frames[n].todo), what) \in Nat
  <2>1. frames[n] \in FrameSpace /\ FrameFits(frames[n])
    BY <1>3, <1>4, <1>7 DEF StackFits
  <2>2. Level(n) \in 1 .. ComparisonDepth + 1
    BY <1>3, <1>7, LevelIs
  <2> QED
    BY <1>3, <1>4, <2>1, <2>2, RestIs
<1>12. Spent(rem, what) + Due(gs[n], Level(n), what) <= h[n]
  <2>1. a[n + 1] + Rest(frames[n], Level(n), Tail(frames[n].todo), what) <= a[n]
    BY <1>7, <1>8
  <2>2. a[n + 1] \in Nat /\ a[n] \in Nat /\ h[n] = a[n]
    BY <1>7, <1>8, <1>9
  <2>3. Due(Top, Level(n + 1), what) \in Nat
    BY <1>3, DueIs
  <2>4. Spent(rem, what) <= a[n + 1]
    BY <1>3, <1>8, <2>2, <2>3
  <2> QED
    BY <1>10, <1>11, <2>1, <2>2, <2>4
<1>13. ASSUME NEW i \in 1 .. n - 1
       PROVE  h[i + 1] + Rest(gs[i], Level(i), Tail(gs[i].todo), what) <= h[i]
  BY <1>3, <1>7, <1>8, <1>9
<1>14. Allows(h, gs, rem, what)
  <2>1. \A i \in 1 .. n : h[i] <= Whole(ComparisonDepth + 1, objects.left, what)
    BY <1>7, <1>8, <1>9
  <2> QED
    BY <1>3, <1>9, <1>12, <1>13, <2>1 DEF Allows
<1> QED
  BY <1>14

(* The call at the top asks its next question. *)
LEMMA PushAllowed ==
    ASSUME ComparisonInv, frames # <<>>, NEW what \in Resources, Allowed(frames, remaining, what),
           Top.entered, Top.todo # <<>>
    PROVE  Allowed(Append(frames, Frame(Head(Top.todo))), remaining, what)
<1>1. objects \in Comparisons /\ frames \in Seq(FrameSpace)
  BY DEF ComparisonInv, Compares, FramesTyped
<1>2. PICK n \in Nat \ {0} : n = Len(frames) /\ Top = frames[n]
  BY <1>1, TopIs DEF Top
<1>3. Top \in FrameSpace /\ FrameFits(Top)
  BY TopFits
<1>4. PICK p : p = Head(Top.todo)
  OBVIOUS
<1>5. PICK f : f = Frame(p)
  OBVIOUS
<1>6. p \in Questions
  BY <1>1, <1>3, <1>4, HeadAsks
<1>7. f \in FrameSpace /\ f.question = p /\ ~f.entered
  BY <1>5, <1>6 DEF Frame, FrameSpace
<1>8. PICK gs : gs = Append(frames, f)
  OBVIOUS
<1>9. Len(gs) = n + 1 /\ gs[n + 1] = f /\ \A i \in 1 .. n : gs[i] = frames[i]
  BY <1>1, <1>2, <1>7, <1>8
<1>10. PICK a : Allows(a, frames, remaining, what)
  BY DEF Allowed
<1>11. n \in 1 .. n /\ Level(n) \in 1 .. ComparisonDepth + 1 /\ Level(n + 1) = Level(n) - 1
  <2>1. n \in 1 .. n
    OBVIOUS
  <2>2. Level(n) \in 1 .. ComparisonDepth + 1
    BY <1>2, <2>1, LevelIs
  <2> QED
    BY <2>1, <2>2, FuelIs DEF Level
<1>12. PICK later \in Nat : later = Rest(Top, Level(n), Tail(Top.todo), what)
  BY <1>1, <1>3, <1>11, RestIs
<1>13. PICK part \in Nat : part = Part(p, Level(n + 1), what)
  BY <1>1, <1>3, <1>4, <1>11, RestIs
<1>14. Due(Top, Level(n), what) = part + later
  <2>1. Rest(Top, Level(n), Top.todo, what)
        = Part(p, Level(n) - 1, what) + Rest(Top, Level(n), Tail(Top.todo), what)
    BY <1>1, <1>3, <1>4, <1>11, RestIs
  <2> QED
    BY <1>11, <1>12, <1>13, <2>1 DEF Due
<1>15. /\ a \in [1 .. n -> Nat] /\ Spent(remaining, what) \in Nat
       /\ \A i \in 1 .. n : a[i] <= Whole(ComparisonDepth + 1, objects.left, what)
       /\ \A i \in 1 .. n - 1 : a[i + 1] + Rest(frames[i], Level(i), Tail(frames[i].todo), what) <= a[i]
       /\ Spent(remaining, what) + (part + later) <= a[n]
  BY <1>2, <1>10, <1>14 DEF Allows
<1>16. PICK next \in Nat : next = a[n] - later
  <2>1. a[n] \in Nat
    BY <1>11, <1>15
  <2>2. a[n] - later \in Nat
    BY <1>15, <2>1
  <2> QED
    BY <2>2
<1>17. PICK h : h = [i \in 1 .. n + 1 |-> IF i = n + 1 THEN next ELSE a[i]]
  OBVIOUS
<1>18. \A i \in 1 .. n : i \in 1 .. n + 1 /\ i # n + 1
  OBVIOUS
<1>19. h \in [1 .. n + 1 -> Nat] /\ h[n + 1] = next /\ \A i \in 1 .. n : h[i] = a[i]
  <2>1. \A i \in 1 .. n + 1 : i # n + 1 => i \in 1 .. n
    OBVIOUS
  <2>2. n + 1 \in 1 .. n + 1
    OBVIOUS
  <2> QED
    BY <1>15, <1>17, <1>18, <2>1, <2>2
<1>20. a[n] \in Nat /\ Whole(ComparisonDepth + 1, objects.left, what) \in Nat
  <2>1. ComparisonDepth + 1 \in Levels /\ objects.left \in Values
    BY <1>1, FuelIs, ObjectsAre DEF Levels
  <2> QED
    BY <1>1, <1>11, <1>15, <2>1, WholeIsNat
<1>21. ASSUME NEW i \in 1 .. n + 1 PROVE h[i] <= Whole(ComparisonDepth + 1, objects.left, what)
  <2>1. CASE i = n + 1
    <3>1. next <= a[n] /\ a[n] <= Whole(ComparisonDepth + 1, objects.left, what)
      BY <1>11, <1>15, <1>16, <1>20
    <3> QED
      BY <1>19, <1>20, <2>1, <3>1
  <2>2. CASE i \in 1 .. n
    BY <1>15, <1>19, <2>2
  <2> QED
    BY <2>1, <2>2
<1>22. ASSUME NEW i \in 1 .. n
       PROVE  h[i + 1] + Rest(gs[i], Level(i), Tail(gs[i].todo), what) <= h[i]
  <2>1. CASE i = n
    <3>1. next + later <= a[n]
      BY <1>16, <1>20
    <3> QED
      BY <1>2, <1>9, <1>12, <1>19, <2>1, <3>1
  <2>2. CASE i # n
    <3>1. i \in 1 .. n - 1 /\ i + 1 \in 1 .. n
      BY <2>2
    <3> QED
      BY <1>9, <1>15, <1>19, <3>1
  <2> QED
    BY <2>1, <2>2
<1>23. Spent(remaining, what) + Due(gs[n + 1], Level(n + 1), what) <= h[n + 1]
  <2>1. Due(gs[n + 1], Level(n + 1), what) = part
    BY <1>7, <1>9, <1>13 DEF Due
  <2>2. Spent(remaining, what) + part <= next
    BY <1>15, <1>16, <1>20
  <2> QED
    BY <1>19, <2>1, <2>2
<1>24. Allows(h, gs, remaining, what)
  <2>1. n + 1 - 1 = n
    OBVIOUS
  <2> QED
    BY <1>9, <1>15, <1>19, <1>21, <1>22, <1>23, <2>1 DEF Allows
<1> QED
  BY <1>4, <1>5, <1>8, <1>24 DEF Allowed

LEMMA DueWithin ==
    ASSUME LimitInv, frames # <<>>, NEW what \in Resources
    PROVE  /\ Spent(remaining, what) \in Nat /\ Due(Top, Level(Len(frames)), what) \in Nat
           /\ Whole(ComparisonDepth + 1, objects.left, what) \in Nat
           /\ Spent(remaining, what) + Due(Top, Level(Len(frames)), what)
                 <= Whole(ComparisonDepth + 1, objects.left, what)
<1>1. objects \in Comparisons /\ frames \in Seq(FrameSpace) /\ ComparisonInv
  BY DEF LimitInv, ComparisonInv, Compares, FramesTyped
<1>2. PICK n \in Nat \ {0} : n = Len(frames) /\ Top = frames[n]
  BY <1>1, TopIs DEF Top
<1>3. PICK a : Allows(a, frames, remaining, what)
  BY DEF LimitInv, Allowed
<1>4. n \in 1 .. n
  OBVIOUS
<1>5. /\ a[n] \in Nat /\ Spent(remaining, what) \in Nat
      /\ a[n] <= Whole(ComparisonDepth + 1, objects.left, what)
      /\ Spent(remaining, what) + Due(Top, Level(n), what) <= a[n]
  BY <1>2, <1>3, <1>4 DEF Allows
<1>6. Whole(ComparisonDepth + 1, objects.left, what) \in Nat
  <2>1. ComparisonDepth + 1 \in Levels /\ objects.left \in Values
    BY <1>1, FuelIs, ObjectsAre DEF Levels
  <2> QED
    BY <1>1, <2>1, WholeIsNat
<1>7. Due(Top, Level(n), what) \in Nat
  BY <1>1, <1>2, DueIs
<1>8. Spent(remaining, what) + Due(Top, Level(n), what) <= Whole(ComparisonDepth + 1, objects.left, what)
  BY <1>5, <1>6, <1>7
<1> QED
  BY <1>2, <1>5, <1>6, <1>7, <1>8

LEMMA PartOwns ==
    ASSUME objects \in Comparisons, NEW q \in Questions, NEW n \in 1 .. ComparisonDepth + 1,
           NEW what \in Resources
    PROVE  /\ Own(LeftOf(q), what) \in Nat
           /\ SumFunctionOnSet(KidCosts(n, q.left, what), DOMAIN LeftOf(q).kids) \in Nat
           /\ Part(q, n, what) = Own(LeftOf(q), what)
                                 + SumFunctionOnSet(KidCosts(n, q.left, what), DOMAIN LeftOf(q).kids)
           /\ Part(q, n, what) >= Own(LeftOf(q), what)
<1>1. q.left \in Values /\ LeftOf(q) = objects.values[q.left] /\ DOMAIN LeftOf(q).kids = DOMAIN Kids(q.left)
  BY DEF Questions, LeftOf, Kids
<1>2. Own(LeftOf(q), what) \in Nat
  BY <1>1, OwnIs
<1>3. SumFunctionOnSet(KidCosts(n, q.left, what), DOMAIN LeftOf(q).kids) \in Nat
  <2>1. SumsOver(KidCosts(n, q.left, what), DOMAIN LeftOf(q).kids)
    BY LaterIs
  <2> QED
    BY <2>1 DEF SumsOver
<1>4. Part(q, n, what) = Own(LeftOf(q), what)
                         + SumFunctionOnSet(KidCosts(n, q.left, what), DOMAIN LeftOf(q).kids)
  BY <1>1, ExtentMeans DEF Part
<1> QED
  BY <1>2, <1>3, <1>4

LEMMA Exceeds ==
    ASSUME LimitInv, Asked, VisitDenied \/ ChargeDenied(Top.question)
    PROVE  \E what \in Resources :
              Extent[ComparisonDepth + 1][objects.left][what] > ComparisonLimits[what]
<1> DEFINE q == Top.question
<1>1. objects \in Comparisons /\ frames \in Seq(FrameSpace) /\ frames # <<>> /\ ~Top.entered
      /\ ComparisonInv /\ remaining \in Remains
  BY DEF LimitInv, ComparisonInv, Compares, FramesTyped, Asked
<1>2. q \in Questions
  BY <1>1, TopFits
<1>3. PICK n \in Nat \ {0} : n = Len(frames) /\ Top = frames[n]
  BY <1>1, TopIs DEF Top
<1>4. Level(n) \in Levels /\ Depth = n - 1
  <2>1. n \in 1 .. n
    OBVIOUS
  <2> QED
    BY <1>1, <1>3, <2>1, LevelIs DEF Depth
<1> HIDE DEF q
<1>5. ASSUME NEW what \in Resources
      PROVE  /\ Part(q, Level(n), what) \in Nat /\ remaining[what] \in Nat
             /\ ComparisonLimits[what] \in Nat /\ ComparisonLimits[what] - remaining[what] \in Nat
             /\ Whole(ComparisonDepth + 1, objects.left, what) \in Nat
             /\ ComparisonLimits[what] - remaining[what] + Part(q, Level(n), what)
                   <= Whole(ComparisonDepth + 1, objects.left, what)
  <2>1. Due(Top, Level(n), what) = Part(q, Level(n), what)
    BY <1>1 DEF Due, q
  <2>2. remaining[what] \in Nat /\ ComparisonLimits[what] \in Nat
    BY <1>1, ComparisonLimitsAssumption DEF Remains
  <2> QED
    BY <1>1, <1>3, <2>1, <2>2, DueWithin DEF Spent
<1>6. "visits" \in Resources
  BY DEF Resources
<1>7. ASSUME NEW what \in Resources, Part(q, Level(n), what) > remaining[what]
      PROVE  Whole(ComparisonDepth + 1, objects.left, what) > ComparisonLimits[what]
  BY <1>5, <1>7
<1>8. CASE Level(n) = 0
  <2>1. Part(q, Level(n), "visits") = ComparisonLimits["visits"] + 1
    <3>1. q.left \in Values
      BY <1>2 DEF Questions
    <3> QED
      BY <1>6, <1>8, <3>1, ExtentMeans DEF Part
  <2>2. ComparisonLimits["visits"] - remaining["visits"] + (ComparisonLimits["visits"] + 1)
           <= Whole(ComparisonDepth + 1, objects.left, "visits")
    BY <1>5, <1>6, <2>1
  <2>3. Whole(ComparisonDepth + 1, objects.left, "visits") > ComparisonLimits["visits"]
    BY <1>5, <1>6, <2>2
  <2> QED
    BY <1>6, <2>3 DEF Whole
<1>9. CASE Level(n) # 0
  <2>1. Level(n) \in 1 .. ComparisonDepth + 1
    BY <1>4, <1>9, FuelIs DEF Levels
  <2>2. ~(Depth > ComparisonDepth)
    BY <1>3, <1>4, <2>1, FuelIs DEF Level
  <2>3. CASE VisitDenied
    <3>1. remaining["visits"] = 0
      BY <2>2, <2>3 DEF VisitDenied
    <3>2. Part(q, Level(n), "visits") >= Own(LeftOf(q), "visits") /\ Own(LeftOf(q), "visits") = 1
      BY <1>1, <1>2, <1>6, <2>1, PartOwns DEF Own
    <3>3. Part(q, Level(n), "visits") \in Nat
      BY <1>5, <1>6
    <3>4. Part(q, Level(n), "visits") > remaining["visits"]
      BY <3>1, <3>2, <3>3
    <3> QED
      BY <1>6, <1>7, <3>4 DEF Whole
  <2>4. CASE ChargeDenied(Top.question)
    <3>1. PICK what \in Resources : Charge(LeftOf(q))[what] > remaining[what]
      BY <2>4 DEF ChargeDenied, q
    <3>2. Charge(LeftOf(q))[what] = Own(LeftOf(q), what)
      BY <1>1, <1>2, OwnIs DEF LeftOf, Questions
    <3>3. Part(q, Level(n), what) >= Own(LeftOf(q), what) /\ Own(LeftOf(q), what) \in Nat
      BY <1>1, <1>2, <2>1, PartOwns
    <3>4. Part(q, Level(n), what) \in Nat /\ remaining[what] \in Nat
      BY <1>5
    <3>5. Own(LeftOf(q), what) > remaining[what]
      BY <3>1, <3>2
    <3>6. Part(q, Level(n), what) > remaining[what]
      BY <3>3, <3>4, <3>5
    <3> QED
      BY <1>7, <3>6 DEF Whole
  <2> QED
    BY <2>3, <2>4
<1> QED
  BY <1>8, <1>9

(* A call that looks at its question spends what is its own. *)
LEMMA LookOwns ==
    ASSUME LimitInv, Look(Top.question), NEW what \in Resources
    PROVE  LET q == Top.question
               n == Level(Len(frames))
           IN  /\ n \in 1 .. ComparisonDepth + 1
               /\ Own(LeftOf(q), what) \in Nat /\ Spent(remaining, what) \in Nat
               /\ Spent(remaining', what) = Spent(remaining, what) + Own(LeftOf(q), what)
               /\ Due(Top, n, what) = Own(LeftOf(q), what)
                                      + SumFunctionOnSet(KidCosts(n, q.left, what), DOMAIN LeftOf(q).kids)
               /\ SumFunctionOnSet(KidCosts(n, q.left, what), DOMAIN LeftOf(q).kids) \in Nat
<1> DEFINE q == Top.question
           n == Level(Len(frames))
           own == Own(LeftOf(q), what)
           sum == SumFunctionOnSet(KidCosts(n, q.left, what), DOMAIN LeftOf(q).kids)
<1>1. objects \in Comparisons /\ frames \in Seq(FrameSpace) /\ frames # <<>> /\ ~Top.entered
      /\ ComparisonInv /\ remaining \in Remains /\ ~VisitDenied /\ Asked
  BY DEF LimitInv, ComparisonInv, Compares, FramesTyped, Asked, Look
<1>2. q \in Questions
  BY <1>1, TopFits
<1>3. Len(frames) \in 1 .. Len(frames) /\ Depth = Len(frames) - 1 /\ ~(Depth > ComparisonDepth)
  BY <1>1, TopIs DEF Depth, VisitDenied
<1>4. n \in 1 .. ComparisonDepth + 1
  BY <1>3, FuelIs DEF Level
<1> HIDE DEF q, n
<1>5. own \in Nat /\ sum \in Nat /\ Part(q, n, what) = own + sum
  BY <1>1, <1>2, <1>4, PartOwns
<1>6. Due(Top, n, what) = Part(q, n, what)
  BY <1>1 DEF Due, q
<1>7. Charge(LeftOf(q))[what] = own
  BY <1>1, <1>2, OwnIs DEF LeftOf, Questions
<1>8. remaining'[what] = remaining[what] - own
  <2>1. remaining' = [r \in Resources |-> remaining[r] - Charge(LeftOf(q))[r]]
    BY DEF Look, Spend, q
  <2> QED
    BY <1>7, <2>1
<1>9. remaining[what] \in Nat /\ ComparisonLimits[what] \in Nat
  BY <1>1, ComparisonLimitsAssumption DEF Remains
<1>10. Spent(remaining', what) = Spent(remaining, what) + own
  BY <1>5, <1>8, <1>9 DEF Spent
<1>11. Spent(remaining, what) \in Nat
  BY <1>1, DueWithin
<1> QED
  BY <1>4, <1>5, <1>6, <1>10, <1>11 DEF q, n

LEMMA LookReturnsAllowed ==
    ASSUME LimitInv, Look(Top.question), Equal({}), NEW what \in Resources
    PROVE  Allowed(frames', remaining', what)
<1>1. ComparisonInv /\ frames # <<>> /\ Allowed(frames, remaining, what)
  BY DEF LimitInv, Look, Asked
<1>2. PICK own \in Nat : own = Own(LeftOf(Top.question), what)
  BY LookOwns
<1>3. PICK rem : rem = remaining'
  OBVIOUS
<1>4. Spent(remaining, what) \in Nat /\ Spent(rem, what) = Spent(remaining, what) + own
  BY <1>2, <1>3, LookOwns
<1>5. Due(Top, Level(Len(frames)), what) >= own /\ Due(Top, Level(Len(frames)), what) \in Nat
  BY <1>2, LookOwns
<1>6. /\ Spent(rem, what) \in Nat
      /\ Spent(rem, what) <= Spent(remaining, what) + Due(Top, Level(Len(frames)), what)
  BY <1>4, <1>5
<1>7. Allowed(Returned(Front(frames)), rem, what)
  BY <1>1, <1>6, PopAllowed
<1> QED
  BY <1>3, <1>7 DEF Equal

LEMMA EnterAllowed ==
    ASSUME LimitInv, Enter, NEW what \in Resources
    PROVE  Allowed(frames', remaining', what)
<1> DEFINE q == Top.question
           f == [Top EXCEPT !.entered = TRUE, !.keys = DOMAIN LeftOf(q).kids]
<1>1. /\ Look(q) /\ frames # <<>> /\ ComparisonInv /\ Allowed(frames, remaining, what)
      /\ frames' = [frames EXCEPT ![Len(frames)].entered = TRUE,
                                  ![Len(frames)].keys = DOMAIN LeftOf(q).kids]
      /\ ~Top.entered
  BY DEF LimitInv, Enter, Look, Asked
<1>2. /\ q \in Questions /\ objects \in Comparisons /\ Top \in FrameSpace
      /\ frames \in Seq(FrameSpace) /\ FrameFits(Top)
  BY <1>1, TopFits DEF ComparisonInv, Compares, FramesTyped
<1>3. PICK m \in Nat \ {0} : m = Len(frames) /\ Top = frames[m]
  BY <1>1, <1>2, TopIs DEF Top
<1>4. frames' = [frames EXCEPT ![m] = f]
  BY <1>1, <1>2, <1>3
<1>5. DOMAIN LeftOf(q).kids \in SUBSET Places
  BY <1>2 DEF Places, Questions, LeftOf
<1>6. /\ f \in FrameSpace /\ f.entered /\ f.question = q /\ f.keys = DOMAIN LeftOf(q).kids
      /\ f.todo = <<>>
  <2>1. Top.todo = <<>>
    BY <1>1, <1>2 DEF FrameFits
  <2> HIDE DEF q
  <2> QED
    BY <1>2, <1>5, <2>1 DEF FrameSpace, q
<1> HIDE DEF f
<1>7. PICK own \in Nat, sum \in Nat :
         /\ own = Own(LeftOf(q), what)
         /\ sum = SumFunctionOnSet(KidCosts(Level(m), q.left, what), DOMAIN LeftOf(q).kids)
  BY <1>1, <1>3, LookOwns
<1>8. PICK rem : rem = remaining'
  OBVIOUS
<1>9. /\ Spent(remaining, what) \in Nat /\ Spent(rem, what) = Spent(remaining, what) + own
      /\ Due(Top, Level(m), what) = own + sum
  BY <1>1, <1>3, <1>7, <1>8, LookOwns
<1>10. Due(f, Level(m), what) = sum
  <2>1. Later(f, Level(m), what) = sum
    BY <1>6, <1>7 DEF Later
  <2>2. Ahead(<<>>, Level(m) - 1, what) = 0
    BY DEF Ahead
  <2>3. Due(f, Level(m), what) = sum + 0
    BY <1>6, <2>1, <2>2 DEF Due, Rest
  <2> QED
    BY <2>3
<1>11. /\ Spent(rem, what) \in Nat /\ Due(f, Level(m), what) \in Nat
       /\ Spent(rem, what) + Due(f, Level(m), what) <= Spent(remaining, what) + Due(Top, Level(m), what)
  BY <1>9, <1>10
<1>12. Allowed([frames EXCEPT ![m] = f], rem, what)
  BY <1>1, <1>3, <1>6, <1>11, TopAllowed
<1> QED
  BY <1>4, <1>8, <1>12

LEMMA LaterTakes ==
    ASSUME objects \in Comparisons, NEW f \in FrameSpace, FrameFits(f), f.entered, NEW k \in f.keys,
           NEW what \in Resources, NEW n \in 1 .. ComparisonDepth + 1
    PROVE  LET costs == KidCosts(n, f.question.left, what)
           IN  /\ Later(f, n, what) \in Nat
               /\ SumFunctionOnSet(costs, f.keys \ {k}) \in Nat
               /\ Later(f, n, what) = costs[k] + SumFunctionOnSet(costs, f.keys \ {k})
<1>1. PICK q \in Questions : q = f.question
  BY DEF FrameSpace
<1>2. PICK keys : keys = f.keys
  OBVIOUS
<1>3. keys \subseteq DOMAIN LeftOf(q).kids
  BY <1>1, <1>2 DEF FrameFits
<1> DEFINE costs == KidCosts(n, q.left, what)
<1>4. /\ SumFunctionOnSet(costs, keys) \in Nat
      /\ \A j \in keys :
            /\ SumFunctionOnSet(costs, keys \ {j}) \in Nat
            /\ SumFunctionOnSet(costs, keys) = costs[j] + SumFunctionOnSet(costs, keys \ {j})
  <2>1. SumsOver(costs, keys)
    BY <1>3, LaterIs, Zenon
  <2> HIDE DEF costs
  <2> QED
    BY <2>1 DEF SumsOver
<1> HIDE DEF costs
<1>5. costs = KidCosts(n, f.question.left, what)
  BY <1>1 DEF costs
<1> QED
  BY <1>1, <1>2, <1>4, <1>5 DEF Later

LEMMA TurnAllowed ==
    ASSUME LimitInv, Turn, NEW what \in Resources
    PROVE  Allowed(frames', remaining', what)
<1> DEFINE q == Top.question
<1>1. /\ Entered /\ Top.todo = <<>> /\ frames # <<>> /\ Top.entered /\ remaining' = remaining
      /\ ComparisonInv /\ Allowed(frames, remaining, what)
  BY DEF LimitInv, Turn, Entered
<1>2. PICK k \in Upcoming(Top) :
         IF k \in DOMAIN RightOf(q).kids
         THEN /\ frames' = [frames EXCEPT ![Len(frames)].keys = @ \ {k},
                                          ![Len(frames)].todo = Entry(q, k)]
              /\ UNCHANGED <<objects, equaled, result>>
         ELSE Over("false")
  BY DEF Turn
<1>3. /\ objects \in Comparisons /\ Top \in FrameSpace /\ FrameFits(Top) /\ q \in Questions
      /\ SameType(q) /\ frames \in Seq(FrameSpace)
  BY <1>1, TopFits DEF ComparisonInv, Compares, FramesTyped
<1>4. k \in Top.keys /\ Top.keys \subseteq DOMAIN LeftOf(q).kids /\ k \in DOMAIN LeftOf(q).kids
  BY <1>1, <1>2, <1>3 DEF Upcoming, FrameFits
<1>5. CASE k \notin DOMAIN RightOf(q).kids
  BY <1>2, <1>5 DEF Over, Allowed
<1>6. CASE k \in DOMAIN RightOf(q).kids
  <2> DEFINE f == [Top EXCEPT !.keys = @ \ {k}, !.todo = Entry(q, k)]
  <2>1. frames' = [frames EXCEPT ![Len(frames)].keys = @ \ {k},
                                 ![Len(frames)].todo = Entry(q, k)]
    BY <1>2, <1>6
  <2>2. PICK m \in Nat \ {0} : m = Len(frames) /\ Top = frames[m]
    BY <1>1, <1>3, TopIs DEF Top
  <2>3. frames' = [frames EXCEPT ![m] = f]
    BY <1>3, <2>1, <2>2
  <2>4. Entry(q, k) \in Seq(Questions)
    BY <1>3, <1>4, <1>6, AskedEntry DEF Both
  <2>5. /\ f \in FrameSpace /\ f.entered /\ f.question = q
        /\ f.keys = Top.keys \ {k} /\ f.todo = Entry(q, k)
    BY <1>1, <1>3, <2>4 DEF FrameSpace
  <2> HIDE DEF f
  <2>6. Level(m) \in 1 .. ComparisonDepth + 1
    <3>1. m \in 1 .. m
      OBVIOUS
    <3> QED
      BY <1>1, <2>2, <3>1, LevelIs
  <2> DEFINE costs == KidCosts(Level(m), q.left, what)
  <2>7. /\ Later(Top, Level(m), what) \in Nat
        /\ SumFunctionOnSet(costs, Top.keys \ {k}) \in Nat
        /\ Later(Top, Level(m), what) = costs[k] + SumFunctionOnSet(costs, Top.keys \ {k})
    BY <1>1, <1>3, <1>4, <2>6, LaterTakes
  <2>8. PICK sum \in Nat :
           /\ sum = Later(Top, Level(m), what)
           /\ sum = costs[k] + SumFunctionOnSet(costs, Top.keys \ {k})
           /\ SumFunctionOnSet(costs, Top.keys \ {k}) \in Nat
    BY <2>7
  <2>9. Ahead(Entry(q, k), Level(m) - 1, what) = costs[k]
    BY <1>3, <1>4, <2>6, EntryCosts
  <2>10. Ahead(Entry(q, k), Level(m) - 1, what) \in Nat
    <3>1. Level(m) - 1 \in Levels
      BY <2>6, FuelIs DEF Levels
    <3> QED
      BY <1>3, <2>4, <3>1, AheadIs
  <2> HIDE DEF costs
  <2>11. Due(f, Level(m), what) = SumFunctionOnSet(costs, Top.keys \ {k}) + costs[k]
    BY <2>5, <2>9 DEF Due, Rest, Later, costs
  <2>12. Due(Top, Level(m), what) = sum
    <3>1. Later(Top, Level(m), what) = sum /\ Ahead(<<>>, Level(m) - 1, what) = 0
      BY <2>8 DEF Ahead
    <3>2. Due(Top, Level(m), what) = sum + 0
      BY <1>1, <3>1 DEF Due, Rest
    <3> QED
      BY <3>2
  <2>13. Due(f, Level(m), what) = sum
    BY <2>8, <2>9, <2>10, <2>11
  <2>14. Spent(remaining, what) \in Nat
    BY <1>1, DueWithin
  <2>15. Spent(remaining, what) + Due(f, Level(m), what)
         <= Spent(remaining, what) + Due(Top, Level(m), what)
    BY <2>12, <2>13, <2>14
  <2>16. Allowed([frames EXCEPT ![m] = f], remaining, what)
    BY <1>1, <2>2, <2>5, <2>13, <2>14, <2>15, TopAllowed
  <2> QED
    BY <1>1, <2>3, <2>16
<1> QED
  BY <1>5, <1>6

LEMMA EndsLimited ==
    ASSUME LimitInv, NEW answer \in {"false", "limit"}, Over(answer),
           answer = "limit" => \E what \in Resources :
               Extent[ComparisonDepth + 1][objects.left][what] > ComparisonLimits[what]
    PROVE  /\ \A what \in Resources : Allowed(frames', remaining', what)
           /\ result' = "limit" => \E what \in Resources :
                 Extent[ComparisonDepth + 1][objects.left][what] > ComparisonLimits[what]
  BY DEF Over, Allowed

(* Every step of the comparison leaves what was allowed, and aborts only   *)
(* where the value is too much.                                            *)
LEMMA AllowedKeeps ==
    ASSUME LimitInv, ComparisonNext
    PROVE  /\ \A what \in Resources : Allowed(frames', remaining', what)
           /\ result' = "limit" => \E what \in Resources :
                 Extent[ComparisonDepth + 1][objects.left][what] > ComparisonLimits[what]
<1>1. CASE RefuseVisit
  BY <1>1, Exceeds, EndsLimited DEF RefuseVisit
<1>2. CASE HeadersTell
  BY <1>2, EndsLimited DEF HeadersTell
<1>3. CASE RefuseCharge
  BY <1>3, Exceeds, EndsLimited DEF RefuseCharge
<1>4. ASSUME Look(Top.question), Equal({})
      PROVE  /\ \A what \in Resources : Allowed(frames', remaining', what)
             /\ result' # "limit"
  <2>1. result = "none"
    BY <1>4, TopFits DEF LimitInv, Look, Asked
  <2> QED
    BY <1>4, <2>1, LookReturnsAllowed DEF Equal
<1>5. CASE EqualAtOnce
  BY <1>4, <1>5 DEF EqualAtOnce
<1>6. CASE CompareLeaf
  <2>1. CASE AtomsEqual(Top.question)
    BY <1>4, <1>6, <2>1 DEF CompareLeaf
  <2>2. CASE ~AtomsEqual(Top.question)
    BY <1>6, <2>2, EndsLimited DEF CompareLeaf
  <2> QED
    BY <2>1, <2>2
<1>7. CASE Enter
  <2>1. result' = "none"
    BY <1>7, TopFits DEF LimitInv, Enter, Look, Asked
  <2> QED
    BY <1>7, <2>1, EnterAllowed
<1>8. CASE AskNext
  <2>1. frames # <<>> /\ Top.entered /\ Top.todo # <<>> /\ ComparisonInv
        /\ frames' = Append(frames, Frame(Head(Top.todo))) /\ remaining' = remaining
        /\ result' = result
    BY <1>8 DEF LimitInv, AskNext, Entered
  <2>2. result' = "none"
    BY <2>1, TopFits
  <2>3. \A what \in Resources : Allowed(frames, remaining, what)
    BY DEF LimitInv
  <2>4. \A what \in Resources : Allowed(Append(frames, Frame(Head(Top.todo))), remaining, what)
    BY <2>1, <2>3, PushAllowed
  <2> QED
    BY <2>1, <2>2, <2>4
<1>9. CASE Turn
  <2>1. result' \in {"none", "false"}
    BY <1>9, TopFits DEF LimitInv, Turn, Over, Entered
  <2> QED
    BY <1>9, <2>1, TurnAllowed
<1>10. CASE AllEqual
  <2>1. frames # <<>> /\ ComparisonInv /\ remaining' = remaining
        /\ frames' = Returned(Front(frames)) /\ result' \in {"true", result}
    BY <1>10 DEF LimitInv, AllEqual, Entered, Equal
  <2>2. result' # "limit"
    BY <2>1, TopFits
  <2>3. ASSUME NEW what \in Resources PROVE Allowed(Returned(Front(frames)), remaining, what)
    <3>1. Spent(remaining, what) \in Nat /\ Due(Top, Level(Len(frames)), what) \in Nat
      BY <2>1, DueWithin
    <3>2. Spent(remaining, what) <= Spent(remaining, what) + Due(Top, Level(Len(frames)), what)
      BY <3>1
    <3>3. Allowed(frames, remaining, what)
      BY DEF LimitInv
    <3> QED
      BY <2>1, <3>1, <3>2, <3>3, PopAllowed
  <2> QED
    BY <2>1, <2>2, <2>3
<1> QED
  BY <1>1, <1>2, <1>3, <1>5, <1>6, <1>7, <1>8, <1>9, <1>10 DEF ComparisonNext

LEMMA ExtentKept ==
    ASSUME objects' = objects
    PROVE  Extent' = Extent
  BY DEF Extent, Values, Own

LEMMA LimitStarts == ComparisonInit => LimitInv
<1> SUFFICES ASSUME ComparisonInit PROVE LimitInv
  OBVIOUS
<1>1. ComparisonInv
  BY ComparisonStarts
<1>2. PICK f : f = Frame(Root)
  OBVIOUS
<1>3. /\ objects \in Comparisons /\ frames = <<f>> /\ remaining = ComparisonLimits
      /\ equaled = {} /\ result = "none"
  BY <1>2 DEF ComparisonInit, Root
<1>4. f.question = Root /\ ~f.entered /\ Root.left = objects.left
  BY <1>2 DEF Frame, Root, Ask
<1>5. LimitIsExceeded
  BY <1>3 DEF LimitIsExceeded
<1>6. ASSUME NEW what \in Resources PROVE Allowed(frames, remaining, what)
  <2>1. PICK whole \in Nat : whole = Whole(ComparisonDepth + 1, objects.left, what)
    <3>1. ComparisonDepth + 1 \in Levels /\ objects.left \in Values
      BY <1>3, FuelIs, ObjectsAre DEF Levels
    <3> QED
      BY <1>3, <3>1, WholeIsNat
  <2>2. PICK a : a = [i \in 1 .. 1 |-> whole]
    OBVIOUS
  <2>3. Len(frames) = 1 /\ frames[1] = f
    BY <1>3
  <2>4. a \in [1 .. 1 -> Nat] /\ a[1] = whole
    BY <2>2
  <2>5. Spent(remaining, what) = 0
    BY <1>3, ComparisonLimitsAssumption DEF Spent
  <2>6. Level(1) = ComparisonDepth + 1
    BY FuelIs DEF Level
  <2>7. Due(f, Level(1), what) = whole
    BY <1>4, <2>1, <2>6 DEF Due, Part
  <2>8. /\ \A i \in 1 .. 1 : i = 1
        /\ \A i \in 1 .. 1 - 1 : FALSE
    OBVIOUS
  <2>9. /\ \A i \in 1 .. 1 : a[i] <= Whole(ComparisonDepth + 1, objects.left, what)
        /\ Spent(remaining, what) \in Nat
        /\ Spent(remaining, what) + Due(f, Level(1), what) <= a[1]
    BY <2>1, <2>4, <2>5, <2>7, <2>8
  <2>10. Allows(a, frames, remaining, what)
    BY <2>3, <2>4, <2>8, <2>9 DEF Allows
  <2> QED
    BY <2>10 DEF Allowed
<1> QED
  BY <1>1, <1>5, <1>6 DEF LimitInv

LEMMA AllowedKept ==
    ASSUME objects' = objects, NEW what \in Resources, Allowed(frames', remaining', what)
    PROVE  Allowed(frames, remaining, what)'
<1>1. Extent' = Extent
  BY ExtentKept
<1>2. ASSUME NEW n, NEW at PROVE Whole(n, at, what)' = Whole(n, at, what)
  BY <1>1 DEF Whole
<1>3. ASSUME NEW f, NEW n, NEW asks PROVE Rest(f, n, asks, what)' = Rest(f, n, asks, what)
  BY <1>1 DEF Rest, Later, Ahead, Part, KidCosts, Kids, Whole
<1>4. ASSUME NEW f, NEW n PROVE Due(f, n, what)' = Due(f, n, what)
  BY <1>1, <1>3 DEF Due, Part, Whole
<1>5. ASSUME NEW a, Allows(a, frames', remaining', what)
      PROVE  Allows(a, frames, remaining, what)'
  BY <1>2, <1>3, <1>4, <1>5 DEF Allows, Spent, Level
<1> QED
  BY <1>5 DEF Allowed

LEMMA LimitKeeps == LimitInv /\ [ComparisonNext]_equalityVars => LimitInv'
<1> SUFFICES ASSUME LimitInv, [ComparisonNext]_equalityVars
             PROVE  LimitInv'
  OBVIOUS
<1>1. ComparisonInv' /\ objects' = objects
  <2>1. ComparisonInv'
    BY ComparisonKeeps DEF LimitInv
  <2>2. objects' = objects
    BY DEF ComparisonNext, equalityVars, RefuseVisit, HeadersTell, RefuseCharge, EqualAtOnce,
           CompareLeaf, Enter, AskNext, Turn, AllEqual, Over, Equal
  <2> QED
    BY <2>1, <2>2
<1>2. /\ \A what \in Resources : Allowed(frames', remaining', what)
      /\ result' = "limit" => \E what \in Resources :
            Extent[ComparisonDepth + 1][objects.left][what] > ComparisonLimits[what]
  <2>1. CASE ComparisonNext
    BY <2>1, AllowedKeeps
  <2>2. CASE UNCHANGED equalityVars
    BY <2>2 DEF LimitInv, LimitIsExceeded, equalityVars
  <2> QED
    BY <2>1, <2>2
<1>3. LimitIsExceeded'
  BY <1>1, <1>2, ExtentKept DEF LimitIsExceeded
<1>4. \A what \in Resources : Allowed(frames, remaining, what)'
  BY <1>1, <1>2, AllowedKept
<1> QED
  BY <1>1, <1>3, <1>4 DEF LimitInv, Resources

(* A comparison aborts only where a full walk of the left value passes a   *)
(* limit: sharing and early answers spend no more than that walk.          *)
THEOREM LimitsExceeded == ComparisonSpec => []LimitIsExceeded
<1>1. LimitInv => LimitIsExceeded
  BY DEF LimitInv
<1> QED
  BY LimitStarts, LimitKeeps, <1>1, PTL DEF ComparisonSpec

-----------------------------------------------------------------------------
(* Powers: they exist, are numbers, and grow with their exponents.         *)
Doubles(f, n) == f = [i \in 0 .. n |-> IF i = 0 THEN 1 ELSE 2 * f[i - 1]]

LEMMA DoublesExist ==
    ASSUME NEW N \in Nat
    PROVE  \E f : Doubles(f, N)
<1> DEFINE Bad == {n \in Nat : ~\E f : Doubles(f, n)}
<1> SUFFICES ASSUME Bad # {} PROVE FALSE
  OBVIOUS
<1>1. PICK n \in Bad : \A m \in Bad : n <= m
  BY LeastElement
<1>2. n # 0
  <2> DEFINE g == [i \in 0 .. 0 |-> 1]
  <2>1. g = [i \in 0 .. 0 |-> IF i = 0 THEN 1 ELSE 2 * g[i - 1]]
    OBVIOUS
  <2>2. Doubles(g, 0)
    BY <2>1 DEF Doubles
  <2> QED
    BY <2>2
<1>3. n - 1 \in Nat /\ n - 1 \notin Bad
  BY <1>1, <1>2
<1>4. PICK f : Doubles(f, n - 1)
  BY <1>3
<1> DEFINE g == [i \in 0 .. n |-> IF i < n THEN f[i] ELSE 2 * f[n - 1]]
<1>5. \A i \in 0 .. n : i # n => g[i] = f[i]
  OBVIOUS
<1>6. \A i \in 0 .. n - 1 : f[i] = IF i = 0 THEN 1 ELSE 2 * f[i - 1]
  BY <1>3, <1>4 DEF Doubles
<1>7. ASSUME NEW i \in 0 .. n
      PROVE  g[i] = IF i = 0 THEN 1 ELSE 2 * g[i - 1]
  <2>1. CASE i = n
    <3>1. n - 1 \in 0 .. n /\ n - 1 # n /\ n \in 0 .. n
      BY <1>3
    <3> QED
      BY <1>2, <1>3, <1>5, <2>1, <3>1
  <2>2. CASE i < n
    <3>1. i \in 0 .. n - 1 /\ g[i] = f[i]
      BY <1>3, <2>2
    <3>2. i # 0 => i - 1 \in 0 .. n /\ i - 1 # n
      BY <1>3, <2>2
    <3> HIDE DEF g
    <3> QED
      BY <1>5, <1>6, <3>1, <3>2
  <2> QED
    BY <1>3, <2>1, <2>2
<1>8. Doubles(g, n)
  <2> DEFINE h == [i \in 0 .. n |-> IF i = 0 THEN 1 ELSE 2 * g[i - 1]]
  <2>1. g = [i \in 0 .. n |-> g[i]]
    OBVIOUS
  <2> HIDE DEF g
  <2>2. h = [i \in 0 .. n |-> g[i]]
    BY <1>7
  <2> QED
    BY <2>1, <2>2 DEF Doubles
<1> QED
  BY <1>8

LEMMA PowersAre ==
    /\ Powers[0] = 1
    /\ \A i \in 1 .. Width : Powers[i] = 2 * Powers[i - 1]
<1>1. Width \in Nat /\ 0 \in 0 .. Width
  BY WidthAssumption
<1>2. PICK f : Doubles(f, Width)
  BY <1>1, DoublesExist
<1>3. f = [i \in 0 .. Width |-> IF i = 0 THEN 1 ELSE 2 * f[i - 1]]
  BY <1>2 DEF Doubles
<1>4. Powers = [i \in 0 .. Width |-> IF i = 0 THEN 1 ELSE 2 * Powers[i - 1]]
  BY <1>3 DEF Powers
<1>5. \A i \in 0 .. Width : Powers[i] = IF i = 0 THEN 1 ELSE 2 * Powers[i - 1]
  BY <1>4
<1>6. \A i \in 1 .. Width : i \in 0 .. Width /\ i # 0
  BY <1>1
<1> QED
  BY <1>1, <1>5, <1>6, Zenon

LEMMA PowersGrow ==
    \A i \in 0 .. Width : Powers[i] \in Nat /\ \A j \in 0 .. i : Powers[j] <= Powers[i]
<1> DEFINE Grown(i) == Powers[i] \in Nat /\ \A j \in 0 .. i : Powers[j] <= Powers[i]
           Bad == {i \in 0 .. Width : ~Grown(i)}
<1> SUFFICES ASSUME Bad # {} PROVE FALSE
  OBVIOUS
<1>0. Width \in Nat /\ Bad \subseteq Nat
  BY WidthAssumption
<1>1. PICK n \in Bad : \A m \in Bad : n <= m
  BY <1>0, LeastElement
<1>2. n \in 0 .. Width /\ ~Grown(n)
  BY <1>1
<1>3. n # 0
  <2>1. Powers[0] = 1
    BY PowersAre
  <2>2. \A j \in 0 .. 0 : j = 0
    OBVIOUS
  <2>3. Grown(0)
    BY <2>1, <2>2
  <2> QED
    BY <1>2, <2>3, Zenon
<1>4. n - 1 \in 0 .. Width /\ n \in 1 .. Width /\ ~(n <= n - 1)
  BY <1>0, <1>2, <1>3
<1>5. Grown(n - 1)
  BY <1>1, <1>4
<1>6. Powers[n] = 2 * Powers[n - 1]
  BY <1>4, PowersAre
<1>7. Powers[n - 1] \in Nat /\ \A j \in 0 .. n - 1 : Powers[j] <= Powers[n - 1]
  BY <1>5
<1>8. ASSUME NEW j \in 0 .. n PROVE Powers[j] <= Powers[n]
  <2>1. CASE j = n
    BY <1>6, <1>7, <2>1
  <2>2. CASE j # n
    <3>1. j \in 0 .. n - 1
      BY <1>4, <2>2
    <3>2. Powers[j] <= Powers[n - 1] /\ Powers[j] \in Nat
      <4>1. j \notin Bad
        BY <1>1, <1>4, <3>1
      <4>2. j \in 0 .. Width
        BY <1>0, <1>4, <3>1
      <4> QED
        BY <1>7, <3>1, <4>1, <4>2
    <3> QED
      BY <1>6, <1>7, <3>2
  <2> QED
    BY <2>1, <2>2
<1>9. Powers[n] \in Nat
  BY <1>6, <1>7
<1> QED
  BY <1>2, <1>8, <1>9

(* The integers of the platform are integers of CEL, and are even here.    *)
LEMMA IntegersFit ==
    ASSUME NEW kind \in {"int", "uint"}
    PROVE  IntegersOf(kind, Platform) \subseteq IntegersOf(kind, Width)
<1>1. /\ Width \in Nat /\ Width >= 1 /\ Platform \in Nat /\ Platform >= 1 /\ Platform <= Width
  BY WidthAssumption
<1>2. /\ Width \in 0 .. Width /\ Width - 1 \in 0 .. Width
      /\ Platform \in 0 .. Width /\ Platform - 1 \in 0 .. Width - 1
      /\ Platform \in 0 .. Width /\ Platform - 1 \in 0 .. Width
  BY <1>1
<1>3. PICK p, q, r, s : /\ p = Powers[Platform] /\ q = Powers[Width]
                        /\ r = Powers[Platform - 1] /\ s = Powers[Width - 1]
  OBVIOUS
<1>4. p \in Nat /\ q \in Nat /\ r \in Nat /\ s \in Nat /\ p <= q /\ r <= s
  BY <1>2, <1>3, PowersGrow
<1>5. -r .. r - 1 \subseteq -s .. s - 1 /\ 0 .. p - 1 \subseteq 0 .. q - 1
  BY <1>4
<1>6. CASE kind = "int"
  <2>1. IntegersOf(kind, Platform) = {2 * i : i \in -r .. r - 1}
    BY <1>3, <1>6 DEF IntegersOf
  <2>2. IntegersOf(kind, Width) = {2 * i : i \in -s .. s - 1}
    BY <1>3, <1>6 DEF IntegersOf
  <2> QED
    BY <1>5, <2>1, <2>2
<1>7. CASE kind = "uint"
  <2>1. IntegersOf(kind, Platform) = {2 * i : i \in 0 .. p - 1}
    BY <1>3, <1>7 DEF IntegersOf
  <2>2. IntegersOf(kind, Width) = {2 * i : i \in 0 .. q - 1}
    BY <1>3, <1>7 DEF IntegersOf
  <2> QED
    BY <1>5, <2>1, <2>2
<1> QED
  BY <1>6, <1>7

LEMMA IntegersEven ==
    ASSUME NEW kind \in {"int", "uint"}, NEW n \in IntegersOf(kind, Platform)
    PROVE  n \in Int /\ Truncated(n) = n
<1>1. /\ Platform \in 0 .. Width /\ Platform - 1 \in 0 .. Width
  BY WidthAssumption
<1>2. PICK p, r : p = Powers[Platform] /\ r = Powers[Platform - 1]
  OBVIOUS
<1>3. p \in Nat /\ r \in Nat
  BY <1>1, <1>2, PowersGrow
<1>4. \E i \in Int : n = 2 * i
  <2>1. CASE kind = "int"
    <3>1. IntegersOf(kind, Platform) = {2 * i : i \in -r .. r - 1}
      BY <1>2, <2>1 DEF IntegersOf
    <3>2. -r .. r - 1 \subseteq Int
      BY <1>3
    <3>3. PICK i \in -r .. r - 1 : n = 2 * i
      BY <3>1, Zenon
    <3> QED
      BY <3>2, <3>3
  <2>2. CASE kind = "uint"
    <3>1. IntegersOf(kind, Platform) = {2 * i : i \in 0 .. p - 1}
      BY <1>2, <2>2 DEF IntegersOf
    <3>2. 0 .. p - 1 \subseteq Int
      BY <1>3
    <3>3. PICK i \in 0 .. p - 1 : n = 2 * i
      BY <3>1, Zenon
    <3> QED
      BY <3>2, <3>3
  <2> QED
    BY <2>1, <2>2
<1>5. PICK i \in Int : n = 2 * i
  BY <1>4
<1>6. n \in Int /\ n % 2 = 0
  BY <1>5
<1> QED
  BY <1>6 DEF Truncated

-----------------------------------------------------------------------------
(* A key is found if and only if the map has its number. *)
Has(m, key) == key.kind \in NumberKinds /\ key.n \in DOMAIN m.entries
Missed(key) == Miss(IF key.kind \in {"unknown", "error"} THEN key.kind ELSE NoSuchKey)

LEMMA FindIs ==
    ASSUME NEW m, IsIntegerMap(m), NEW key
    PROVE  find(m, key) = IF Has(m, key) THEN Hit(m.entries[key.n]) ELSE Missed(key)
<1>1. m.kind \in {"int", "uint"} /\ DOMAIN m.entries \subseteq IntegersOf(m.kind, Platform)
  BY DEF IsIntegerMap
<1>2. IntegersOf(m.kind, Platform) \subseteq IntegersOf(m.kind, Width)
  BY <1>1, IntegersFit
<1>3. CASE Has(m, key)
  <2>1. key.n \in IntegersOf(m.kind, Platform) /\ key.n \in IntegersOf(m.kind, Width)
    BY <1>1, <1>2, <1>3 DEF Has
  <2>2. Truncated(key.n) = key.n
    BY <1>1, <2>1, IntegersEven
  <2>3. ToInteger(key) = key.n
    BY <2>2 DEF ToInteger
  <2>4. Finds(m, key)
    BY <1>1, <1>3, <2>1, <2>3 DEF Has, Finds, Equals
  <2>5. key.kind \notin {"unknown", "error"}
    BY <1>3 DEF Has, NumberKinds
  <2> QED
    BY <1>3, <2>3, <2>4, <2>5 DEF find, Has
<1>4. CASE ~Has(m, key)
  <2>1. ASSUME key.kind \in NumberKinds, Finds(m, key) PROVE FALSE
    <3>1. ToInteger(key) = key.n /\ ToInteger(key) \in DOMAIN m.entries
      BY <1>1, <2>1 DEF Finds, Equals
    <3> QED
      BY <1>4, <2>1, <3>1 DEF Has
  <2> QED
    BY <1>4, <2>1 DEF find, Missed
<1> QED
  BY <1>3, <1>4

(* So is a key of this map in the other one, an integer map or not. *)
IsMap(m) == IsIntegerMap(m) \/ IsOtherMap(m)

LEMMA OtherFindIs ==
    ASSUME NEW m, IsIntegerMap(m), NEW other, IsMap(other), NEW n \in DOMAIN m.entries
    PROVE  find(other, Key(m, n)) = IF n \in DOMAIN other.entries THEN Hit(other.entries[n])
                                    ELSE Miss(NoSuchKey)
<1>1. PICK key : key = Key(m, n)
  OBVIOUS
<1>2. m.kind \in {"int", "uint"}
  BY DEF IsIntegerMap
<1>3. /\ key.n = n /\ key.kind \in NumberKinds /\ ToInteger(key) = n
      /\ key.kind \notin {"unknown", "error"}
  BY <1>1, <1>2 DEF Key, NumberKinds, ToInteger
<1>4. CASE IsIntegerMap(other)
  <2>1. Has(other, key) <=> n \in DOMAIN other.entries
    BY <1>3 DEF Has
  <2>2. Missed(key) = Miss(NoSuchKey)
    BY <1>3 DEF Missed
  <2> QED
    BY <1>1, <1>3, <1>4, <2>1, <2>2, FindIs
<1>5. CASE IsOtherMap(other)
  <2>1. Finds(other, key) <=> n \in DOMAIN other.entries
    BY <1>3, <1>5 DEF Finds, IsOtherMap
  <2> QED
    BY <1>1, <1>3, <2>1 DEF find
<1> QED
  BY <1>4, <1>5 DEF IsMap

LEMMA MapsEqualIs ==
    ASSUME NEW m, IsIntegerMap(m), NEW other, IsMap(other)
    PROVE  MapsEqual(m, other)
           <=> /\ other.others = 0 /\ DOMAIN m.entries = DOMAIN other.entries
               /\ \A n \in DOMAIN m.entries :
                     m.entries[n] = other.entries[n] /\ m.entries[n] # "NaN"
<1> DEFINE L == DOMAIN m.entries
           R == DOMAIN other.entries
           Agree(n) == n \in R /\ m.entries[n] = other.entries[n] /\ m.entries[n] # "NaN"
<1>1. IsFiniteSet(L) /\ IsFiniteSet(R) /\ m.others = 0 /\ other.others \in Nat
  BY DEF IsIntegerMap, IsMap, IsOtherMap
<1>2. ASSUME NEW n \in L
      PROVE  (LET there == find(other, Key(m, n))
              IN  there.found /\ find(m, Key(m, n)).value = there.value /\ there.value # "NaN")
             <=> Agree(n)
  <2>1. PICK x, y, here, there :
           /\ x = m.entries[n] /\ y = other.entries[n]
           /\ here = find(m, Key(m, n)) /\ there = find(other, Key(m, n))
    OBVIOUS
  <2>2. here = Hit(x)
    BY <2>1, OtherFindIs DEF IsMap
  <2>3. there = IF n \in R THEN Hit(y) ELSE Miss(NoSuchKey)
    BY <2>1, OtherFindIs
  <2>4. (there.found /\ here.value = there.value /\ there.value # "NaN")
        <=> n \in R /\ x = y /\ x # "NaN"
    BY <2>2, <2>3 DEF Hit, Miss
  <2> QED
    BY <2>1, <2>4
<1>3. MapsEqual(m, other) <=> MapSize(m) = MapSize(other) /\ \A n \in L : Agree(n)
  BY <1>2 DEF MapsEqual
<1>4. /\ Cardinality(L) \in Nat /\ Cardinality(R) \in Nat
      /\ MapSize(m) = Cardinality(L) /\ MapSize(other) = Cardinality(R) + other.others
  BY <1>1, FS_CardinalityType DEF MapSize
<1>5. ASSUME L \subseteq R, MapSize(m) = MapSize(other) PROVE other.others = 0 /\ L = R
  <2>1. Cardinality(L) <= Cardinality(R) /\ (Cardinality(L) = Cardinality(R) => L = R)
    BY <1>1, <1>5, FS_Subset
  <2> QED
    BY <1>1, <1>4, <1>5, <2>1
<1>6. CASE L = R /\ other.others = 0
  BY <1>3, <1>4, <1>6
<1>7. CASE ~(L = R /\ other.others = 0)
  BY <1>3, <1>5, <1>7
<1> QED
  BY <1>6, <1>7

-----------------------------------------------------------------------------
LookupInv == lookup \in Lookups /\ LookupIsExact

LEMMA LookupStarts == LookupInit => LookupInv
  BY DEF LookupInit, LookupInv, LookupIsExact

LEMMA LookupKeeps == LookupInv /\ [LookupNext]_lookupVars => LookupInv'
<1> SUFFICES ASSUME LookupInv, [LookupNext]_lookupVars PROVE LookupInv'
  OBVIOUS
<1>1. CASE Lookup
  <2>1. lookup \in Lookups /\ lookup.op = "lookup" /\ lookup' = lookup
    BY <1>1 DEF Lookup, Looks, LookupInv
  <2>2. IsIntegerMap(lookup.map)
    BY <2>1, LookupsAssumption
  <2>3. found' = <<find(lookup.map, lookup.key)>>
    BY <1>1 DEF Lookup
  <2>4. find(lookup.map, lookup.key)
        = IF Has(lookup.map, lookup.key) THEN Hit(lookup.map.entries[lookup.key.n])
          ELSE Missed(lookup.key)
    BY <2>2, FindIs
  <2> QED
    BY <2>1, <2>3, <2>4 DEF LookupInv, LookupIsExact, Has, Missed
<1>2. CASE CompareMaps
  <2>1. lookup \in Lookups /\ lookup.op = "equal" /\ lookup' = lookup
    BY <1>2 DEF CompareMaps, Looks, LookupInv
  <2>2. IsIntegerMap(lookup.left) /\ IsMap(lookup.right)
    BY <2>1, LookupsAssumption DEF IsMap
  <2>3. found' = <<MapsEqual(lookup.left, lookup.right)>>
    BY <1>2 DEF CompareMaps
  <2>4. PICK same : same = (/\ lookup.right.others = 0
                            /\ DOMAIN lookup.left.entries = DOMAIN lookup.right.entries
                            /\ \A n \in DOMAIN lookup.left.entries :
                                  /\ lookup.left.entries[n] = lookup.right.entries[n]
                                  /\ lookup.left.entries[n] # "NaN")
    OBVIOUS
  <2>5. MapsEqual(lookup.left, lookup.right) <=> same
    BY <2>2, <2>4, MapsEqualIs
  <2>6. MapsEqual(lookup.left, lookup.right) \in BOOLEAN /\ same \in BOOLEAN
    BY <2>4 DEF MapsEqual
  <2>7. found' = <<same>>
    BY <2>3, <2>5, <2>6
  <2> QED
    BY <2>1, <2>4, <2>7 DEF LookupInv, LookupIsExact
<1>3. CASE UNCHANGED lookupVars
  BY <1>3 DEF LookupInv, LookupIsExact, lookupVars
<1> QED
  BY <1>1, <1>2, <1>3 DEF LookupNext

(* An integer map finds the entry of the very number asked for, and is     *)
(* equal to another map when they have the same keys and equal entries.    *)
THEOREM LookupsExact == LookupSpec => []LookupIsExact
<1>1. LookupInv => LookupIsExact
  BY DEF LookupInv
<1> QED
  BY LookupStarts, LookupKeeps, <1>1, PTL DEF LookupSpec
=============================================================================
