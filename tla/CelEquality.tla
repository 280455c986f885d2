----------------------------- MODULE CelEquality -----------------------------
(***************************************************************************)
(* One comparison of two native objects inside a CEL expression: the walk  *)
(* through pointers, structs, lists and maps that shares one budget and    *)
(* remembers the pairs of pointers it has found equal                      *)
(* (cel/native_equality.go, cel/native_budget.go, nativeValue.Equal in     *)
(* cel/schema.go).                                                         *)
(*                                                                         *)
(* The objects are a graph of values, shared and cyclic as the host left   *)
(* them.  A value is                                                       *)
(*     [kind, nil, size, kids, atom]                                       *)
(* where kids leads from a field, an index or a map key to a value, a      *)
(* pointer's one kid being what it points to.  Strings, bytes and scalars  *)
(* are compared by their atom; NaN differs from itself.                    *)
(***************************************************************************)
EXTENDS Integers, Sequences, FiniteSets, SequencesExt, Functions

CONSTANTS
    Comparisons,      \* the objects: [values, left, right], two structs of a type
    TypeOf(_),        \* the Go type of a value
    ComparisonDepth,  \* limits of newNativeBudget: 32, and 65536 visits,
    ComparisonLimits  \* 4096 items and 65536 bytes

Resources == {"visits", "items", "bytes"}
ASSUME ComparisonLimitsAssumption ==
    ComparisonDepth \in Nat /\ ComparisonLimits \in [Resources -> Nat]

VARIABLES
    objects,    \* the comparison asked for
    frames,     \* the nested calls of equal, the outermost first
    remaining,  \* what is left of visits, items and bytes
    equaled,    \* pairs of pointers compared and found equal
    result      \* "none" until the comparison is over

equalityVars == <<objects, frames, remaining, equaled, result>>

NaN == "NaN"
Leaves == {"string", "bytes", "scalar"}
Nilable == {"pointer", "slice", "bytes", "map"}

(* What a Go program can leave: values lead to values, a nil one to none;  *)
(* keys of maps are strings, integers or bools (schema.go:94-97), so none  *)
(* is NaN; values of one type are alike in what they have.                 *)
NoValue == <<"none">>

ValueWellFormed(values, v) ==
    /\ v.kind \in Leaves \cup {"pointer", "slice", "map", "struct"}
    /\ v.nil \in BOOLEAN /\ v.size \in Nat
    /\ v.nil => v.kind \in Nilable /\ v.size = 0 /\ v.kids = <<>>
    /\ IF v.kind = "map"
       THEN /\ IsFiniteSet(DOMAIN v.kids) /\ Cardinality(DOMAIN v.kids) = v.size
            /\ v.kids \in [DOMAIN v.kids -> DOMAIN values]
            /\ \A key \in DOMAIN v.kids :
                  /\ key \in DOMAIN values
                  /\ values[key].kind \in {"string", "scalar"} /\ values[key].atom # NaN
       ELSE v.kids \in Seq(DOMAIN values)
    /\ v.kind = "slice" => Len(v.kids) = v.size
    /\ v.kind = "pointer" /\ ~v.nil => Len(v.kids) = 1
    /\ v.kind \in Leaves => v.kids = <<>>

TypesAgree(values, a, b) ==
    /\ values[a].kind = values[b].kind
    /\ values[a].kind = "struct" => Len(values[a].kids) = Len(values[b].kids)
    /\ \A k \in DOMAIN values[a].kids \cap DOMAIN values[b].kids :
          TypeOf(values[a].kids[k]) = TypeOf(values[b].kids[k])
    /\ values[a].kind \in {"string", "bytes"} =>
          /\ values[a].atom = values[b].atom => values[a].size = values[b].size
          /\ values[a].size = 0 /\ values[b].size = 0 => values[a].atom = values[b].atom
          /\ values[a].atom # NaN

ASSUME ComparisonsAssumption ==
    \A c \in Comparisons :
        /\ NoValue \notin DOMAIN c.values
        /\ \A at \in DOMAIN c.values : ValueWellFormed(c.values, c.values[at])
        /\ \A a, b \in DOMAIN c.values : TypeOf(a) = TypeOf(b) => TypesAgree(c.values, a, b)
        /\ c.left \in DOMAIN c.values /\ c.right \in DOMAIN c.values
        /\ TypeOf(c.left) = TypeOf(c.right)

-----------------------------------------------------------------------------
(* A question is a call of equal.  Its frame keeps what it has left of the *)
(* fields, indexes or keys, and the questions about the one at hand.       *)
Ask(left, right, field) == [left |-> left, right |-> right, field |-> field]
Frame(q) == [question |-> q, entered |-> FALSE, keys |-> {}, todo |-> <<>>]

ComparisonInit ==
    /\ objects \in Comparisons
    /\ frames = <<Frame(Ask(objects.left, objects.right, FALSE))>>
    /\ remaining = ComparisonLimits
    /\ equaled = {}
    /\ result = "none"

(* No comparison is asked for. *)
ComparisonIdle ==
    /\ objects = [values |-> <<>>, left |-> NoValue, right |-> NoValue]
    /\ frames = <<>>
    /\ remaining = ComparisonLimits
    /\ equaled = {}
    /\ result = "none"

Top == Last(frames)
Depth == Len(frames) - 1
Asked == frames # <<>> /\ ~Top.entered
LeftOf(q) == objects.values[q.left]
RightOf(q) == objects.values[q.right]

(* nativeBudget.visit *)
VisitDenied == Depth > ComparisonDepth \/ remaining["visits"] = 0

(* What is told from the two headers alone. *)
PresenceDiffers(q) ==
    /\ LeftOf(q).kind \in Nilable
    /\ q.field \/ LeftOf(q).kind = "pointer"
    /\ LeftOf(q).nil # RightOf(q).nil

BothNil(q) == LeftOf(q).kind \in Nilable /\ LeftOf(q).nil /\ RightOf(q).nil
SizeDiffers(q) ==
    LeftOf(q).kind \in {"string", "bytes", "slice", "map"} /\ LeftOf(q).size # RightOf(q).size
HeadersDiffer(q) == PresenceDiffers(q) \/ (~BothNil(q) /\ SizeDiffers(q))

(* takeBytes and takeItems, after the visit *)
Charge_Everything(v) == [what \in Resources |-> IF what = "visits" THEN 1 ELSE v.size]
Charge(v) ==
    [what \in Resources |->
        CASE what = "visits" -> 1
          [] what = "items" -> IF v.kind \in {"slice", "map"} THEN v.size ELSE 0
          [] what = "bytes" -> IF v.kind \in {"string", "bytes"} THEN v.size ELSE 0]
ChargeDenied(q) == \E what \in Resources : Charge(LeftOf(q))[what] > remaining[what]

Pair(q) == <<LeftOf(q).kids[1], RightOf(q).kids[1]>>
Remembered_Identity(q) == Pair(q) \in equaled \/ Pair(q)[1] = Pair(q)[2]
Remembered(q) == Pair(q) \in equaled

IsLeaf(q) == LeftOf(q).kind \in Leaves
AtomsEqual(q) == LeftOf(q).atom = RightOf(q).atom /\ LeftOf(q).atom # NaN

(* The calls that compare what q leads to. *)
Kid(q, k) == Ask(LeftOf(q).kids[k], RightOf(q).kids[k], LeftOf(q).kind = "struct")
Entry(q, k) ==
    IF LeftOf(q).kind = "map" THEN <<Ask(k, k, FALSE), Kid(q, k)>> ELSE <<Kid(q, k)>>

-----------------------------------------------------------------------------
(* An answer other than true passes through every nested call; exhaustion  *)
(* aborts the evaluation (nativeOperationError).                           *)
Over(answer) ==
    /\ result' = answer
    /\ frames' = <<>>
    /\ UNCHANGED <<objects, equaled>>

Spend(charge) == remaining' = [what \in Resources |-> remaining[what] - charge[what]]
JustVisit == [what \in Resources |-> IF what = "visits" THEN 1 ELSE 0]

RefuseVisit ==
    /\ Asked /\ VisitDenied
    /\ Over("limit") /\ UNCHANGED remaining

HeadersTell ==
    /\ Asked /\ ~VisitDenied /\ HeadersDiffer(Top.question)
    /\ Over("false") /\ Spend(JustVisit)

RefuseCharge ==
    /\ Asked /\ ~VisitDenied /\ ~HeadersDiffer(Top.question)
    /\ ChargeDenied(Top.question)
    /\ Over("limit") /\ Spend(JustVisit)

(* The call returns true to the one around it. *)
Returned(stack) ==
    IF stack = <<>> THEN <<>> ELSE [stack EXCEPT ![Len(stack)].todo = Tail(@)]

Equal(known) ==
    /\ frames' = Returned(Front(frames))
    /\ equaled' = equaled \cup known
    /\ result' = IF Len(frames) = 1 THEN "true" ELSE result
    /\ UNCHANGED objects

(* Past the headers and the charge. *)
Look(q) ==
    /\ Asked /\ ~VisitDenied
    /\ ~HeadersDiffer(q) /\ ~ChargeDenied(q)
    /\ Spend(Charge(LeftOf(q)))

AlreadyEqual(q) ==
    IF LeftOf(q).kind = "pointer" /\ ~LeftOf(q).nil THEN Remembered(q) ELSE BothNil(q)

EqualAtOnce ==
    LET q == Top.question
    IN  Look(q) /\ AlreadyEqual(q) /\ Equal({})

CompareLeaf ==
    LET q == Top.question
    IN  /\ Look(q) /\ ~AlreadyEqual(q) /\ IsLeaf(q)
        /\ IF AtomsEqual(q) THEN Equal({}) ELSE Over("false")

Enter ==
    LET q == Top.question
    IN  /\ Look(q) /\ ~AlreadyEqual(q) /\ ~IsLeaf(q)
        /\ frames' = [frames EXCEPT ![Len(frames)].entered = TRUE,
                                    ![Len(frames)].keys = DOMAIN LeftOf(q).kids]
        /\ UNCHANGED <<objects, equaled, result>>

Entered == frames # <<>> /\ Top.entered

AskNext ==
    /\ Entered /\ Top.todo # <<>>
    /\ frames' = Append(frames, Frame(Head(Top.todo)))
    /\ UNCHANGED <<objects, remaining, equaled, result>>

(* Fields and indexes come in their order, the keys of a map in any. *)
Upcoming(f) ==
    {k \in f.keys : LeftOf(f.question).kind = "map" \/ \A j \in f.keys : k <= j}

Turn ==
    /\ Entered /\ Top.todo = <<>>
    /\ \E k \in Upcoming(Top) :
          IF k \in DOMAIN RightOf(Top.question).kids
          THEN /\ frames' = [frames EXCEPT ![Len(frames)].keys = @ \ {k},
                                           ![Len(frames)].todo = Entry(Top.question, k)]
               /\ UNCHANGED <<objects, equaled, result>>
          ELSE Over("false")
    /\ UNCHANGED remaining

(* All that a value leads to is equal; a pair of pointers is remembered    *)
(* only now.                                                               *)
Completed(q) == IF LeftOf(q).kind = "pointer" THEN {Pair(q)} ELSE {}

AllEqual ==
    /\ Entered /\ Top.todo = <<>> /\ Top.keys = {}
    /\ Equal(Completed(Top.question)) /\ UNCHANGED remaining

ComparisonNext ==
    \/ RefuseVisit \/ HeadersTell \/ RefuseCharge
    \/ EqualAtOnce \/ CompareLeaf \/ Enter
    \/ AskNext \/ Turn \/ AllEqual

ComparisonSpec == ComparisonInit /\ [][ComparisonNext]_equalityVars
-----------------------------------------------------------------------------
(* What equality means, told without budget, order or memory: two values   *)
(* are alike, or differ, by a derivation of at most n levels.  One that    *)
(* uses the memory can be deeper than the walk, but each of its levels     *)
(* was visited.                                                            *)
Root == Ask(objects.left, objects.right, FALSE)
Values == DOMAIN objects.values
Questions == [left : Values, right : Values, field : BOOLEAN]
Fuel == ComparisonLimits["visits"]

SameShape(q) ==
    /\ DOMAIN LeftOf(q).kids = DOMAIN RightOf(q).kids
    /\ q.field => LeftOf(q).nil = RightOf(q).nil
    /\ IsLeaf(q) => AtomsEqual(q)

Below(q) == {Kid(q, k) : k \in DOMAIN LeftOf(q).kids \cap DOMAIN RightOf(q).kids}

Alike[n \in 0 .. Fuel] ==
    [q \in Questions |->
        n > 0 /\ SameShape(q) /\ \A below \in Below(q) : Alike[n - 1][below]]

Differ[n \in 0 .. Fuel] ==
    [q \in Questions |->
        n > 0 /\ (SameShape(q) => \E below \in Below(q) : Differ[n - 1][below])]

(* What a complete walk of a value spends within n levels; a deeper one    *)
(* has too many visits.                                                    *)
Own(v, what) ==
    CASE what = "visits" -> 1
      [] what = "items" -> IF v.kind \in {"slice", "map"} THEN v.size ELSE 0
      [] what = "bytes" -> IF v.kind \in {"string", "bytes"} THEN v.size ELSE 0

Extent[n \in 0 .. ComparisonDepth + 1] ==
    [at \in Values |-> [what \in Resources |->
        LET v == objects.values[at]
            beyond == [k \in DOMAIN v.kids |->
                          Extent[n - 1][v.kids[k]][what]
                          + IF v.kind = "map" THEN Extent[n - 1][k][what] ELSE 0]
        IN  IF n > 0 THEN Own(v, what) + SumFunction(beyond)
            ELSE IF what = "visits" THEN ComparisonLimits["visits"] + 1 ELSE 0]]

(* A comparison answers true only of values that are alike down to their   *)
(* last leaf: a shared pointer, a remembered pair or a cycle never stands  *)
(* for a comparison, since a NaN may lie behind it.  It answers false only *)
(* of values that differ in an exposed field, in a length, a key, or in    *)
(* whether a field or a pointer is nil (native_equality.go:22-24,          *)
(* docs/cel.md:103,159).                                                   *)
AnswerIsDerived ==
    /\ result = "true" => Alike[Fuel][Root]
    /\ result = "false" => Differ[Fuel][Root]

(* It aborts only where a full walk of the left value passes a limit.      *)
LimitIsExceeded ==
    result = "limit" =>
        \E what \in Resources :
            Extent[ComparisonDepth + 1][objects.left][what] > ComparisonLimits[what]
=============================================================================
