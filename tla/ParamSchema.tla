----------------------------- MODULE ParamSchema -----------------------------
(***************************************************************************)
(* validateParamType (dynamic/params.go): the depth-first walk that        *)
(* accepts or refuses the parameter type of a registered action.           *)
(*                                                                         *)
(* A type is what the walk sees of it: the fault found at the type itself, *)
(* and the types it goes on to.  A field stands for a pointer's or slice's *)
(* element, a map's key and element, or a struct's field; a "bad" one is   *)
(* refused where it stands (embedded, ill-named, an unsupported option, or *)
(* a map key that is no string), a "hidden" one is passed over.            *)
(***************************************************************************)
EXTENDS Integers, Sequences, FiniteSets

CONSTANTS
    Types,
    Shapes,    \* the type graphs: what each type is made of
    Root,      \* P, the parameter type itself
    MaxDepth,  \* 16 in the code
    MaxTypes   \* 128 in the code

Faults == {"none", "large", "custom-decoding", "duration", "crowded", "unsupported"}
ShapeSpace ==
    [Types -> [fault : Faults, fields : Seq([status : {"ok", "hidden", "bad"}, type : Types])]]

ASSUME ShapesAssumption == Shapes \subseteq ShapeSpace
ASSUME RootAssumption == Root \in Types /\ IsFiniteSet(Types)
ASSUME LimitsAssumption == MaxDepth \in Nat /\ MaxTypes \in Nat \ {0}

VARIABLES
    shape,
    stack,   \* the calls in progress: a type and the field that comes next
    call,    \* the type about to be entered, if any
    seen,
    result

vars == <<shape, stack, call, seen, result>>

Active == {stack[k].type : k \in DOMAIN stack}
Depth == Len(stack)
Top == stack[Len(stack)]
Pop == SubSeq(stack, 1, Len(stack) - 1)
Walking == result = "walking"

Init ==
    /\ shape \in Shapes
    /\ stack = <<>> /\ call = <<Root>> /\ seen = {}
    /\ result = "walking"

-----------------------------------------------------------------------------
Full_Seen(t) == Cardinality(seen) >= MaxTypes
Full(t) == Cardinality(seen) >= MaxTypes /\ t \notin seen

(* What validateParamType says of a type it enters, before its fields. *)
Refusal_Unguarded(t) ==
    IF Depth > MaxDepth \/ shape[t].fault = "large" \/ Full(t) THEN "limit"
    ELSE IF shape[t].fault \in {"custom-decoding", "duration"} THEN shape[t].fault
    ELSE IF t \in seen THEN "nil"
    ELSE IF shape[t].fault = "crowded" THEN "limit"
    ELSE IF shape[t].fault = "unsupported" THEN "unsupported"
    ELSE "nil"

Refusal(t) ==
    IF Depth > MaxDepth \/ shape[t].fault = "large" \/ Full(t) THEN "limit"
    ELSE IF t \in Active THEN "recursive"
    ELSE IF shape[t].fault \in {"custom-decoding", "duration"} THEN shape[t].fault
    ELSE IF t \in seen THEN "nil"
    ELSE IF shape[t].fault = "crowded" THEN "limit"
    ELSE IF shape[t].fault = "unsupported" THEN "unsupported"
    ELSE "nil"

Refuse ==
    /\ Walking /\ call # <<>> /\ Refusal(Head(call)) # "nil"
    /\ result' = Refusal(Head(call))
    /\ UNCHANGED <<shape, stack, call, seen>>

SkipSeen ==
    /\ Walking /\ call # <<>> /\ Refusal(Head(call)) = "nil" /\ Head(call) \in seen
    /\ call' = <<>>
    /\ UNCHANGED <<shape, stack, seen, result>>

Enter ==
    /\ Walking /\ call # <<>> /\ Refusal(Head(call)) = "nil" /\ Head(call) \notin seen
    /\ stack' = Append(stack, [type |-> Head(call), next |-> 1])
    /\ seen' = seen \cup {Head(call)}
    /\ call' = <<>>
    /\ UNCHANGED <<shape, result>>

-----------------------------------------------------------------------------
Fields == shape[Top.type].fields

VisitField ==
    /\ Walking /\ call = <<>> /\ stack # <<>> /\ Top.next <= Len(Fields)
    /\ LET field == Fields[Top.next]
       IN  /\ result' = IF field.status = "bad" THEN "field" ELSE result
           /\ call' = IF field.status = "ok" THEN <<field.type>> ELSE <<>>
    /\ stack' = [stack EXCEPT ![Len(stack)].next = @ + 1]
    /\ UNCHANGED <<shape, seen>>

Leave ==
    /\ Walking /\ call = <<>> /\ stack # <<>> /\ Top.next > Len(Fields)
    /\ stack' = Pop
    /\ result' = IF Pop = <<>> THEN "accepted" ELSE result
    /\ UNCHANGED <<shape, call, seen>>

Decided == ~Walking /\ UNCHANGED vars

Next == Refuse \/ SkipSeen \/ Enter \/ VisitField \/ Leave \/ Decided

Spec == Init /\ [][Next]_vars
-----------------------------------------------------------------------------
(* The types at the end of a walk of n steps from the root.  There is a    *)
(* cycle exactly if there are walks of as many steps as types.             *)
StepsFrom(t) ==
    {shape[t].fields[k].type :
        k \in {i \in DOMAIN shape[t].fields : shape[t].fields[i].status = "ok"}}

Walks[n \in Nat] == IF n = 0 THEN {Root} ELSE UNION {StepsFrom(t) : t \in Walks[n - 1]}

Reachable == UNION {Walks[n] : n \in 0 .. Cardinality(Types) - 1}
Cyclic == Walks[Cardinality(Types)] # {}
FaultsIn(types) == {shape[t].fault : t \in types}
BadField(t) == \E k \in DOMAIN shape[t].fields : shape[t].fields[k].status = "bad"

(* An accepted schema is free of every fault in every type it reaches, is  *)
(* not recursive and has no more types than allowed, although the walk     *)
(* enters each type once (docs/dynamic-rules.md:106).                      *)
AcceptedIsSound ==
    result = "accepted" =>
      /\ ~Cyclic
      /\ FaultsIn(Reachable) = {"none"}
      /\ \A t \in Reachable : ~BadField(t)
      /\ Cardinality(Reachable) <= MaxTypes

(* A refusal is for a reason that the schema has: sharing a type is no     *)
(* recursion and does not count twice.                                     *)
RefusalIsTrue ==
    /\ result = "recursive" => Cyclic
    /\ result = "limit" => \/ Walks[MaxDepth + 1] # {}
                           \/ Cardinality(Reachable) > MaxTypes
                           \/ FaultsIn(Reachable) \cap {"large", "crowded"} # {}
    /\ result = "field" => \E t \in Reachable : BadField(t)
    /\ result \in Faults => result \in FaultsIn(Reachable)

(* The documented limit: no accepted schema nests deeper than MaxDepth.    *)
(* A type met again is not walked again, so a path that reaches it deeper  *)
(* than the first one did is not measured to its end.                      *)
DepthIsBounded == result = "accepted" => Walks[MaxDepth + 1] = {}
=============================================================================
