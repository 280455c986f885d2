---------------------------- MODULE CelConversion ----------------------------
(***************************************************************************)
(* CEL values turned into Go values: the fields of a native literal and    *)
(* the argument of a trusted function (cel/native_conversion.go,           *)
(* cel/native_budget.go, cel/schema.go:224-363, cel/function.go:45-66).    *)
(*                                                                         *)
(* A value is [kind, n, storage, keys, of]: n is twice a number, or the    *)
(* length of a text; storage names the Go type of a collection that still  *)
(* lies in the host's memory; a map's keys go with the values of the same  *)
(* index.  A Go type is [kind, name, size, from, key, elem]: from are the  *)
(* kinds of CEL values that cel-go itself converts to it.  A Go value is   *)
(* the CEL value it holds, or a pointer to one or none.                    *)
(***************************************************************************)
EXTENDS CelIntegers, Sequences, FiniteSets, SequencesExt, FiniteSetsExt, TLC

CONSTANTS
    Operations,       \* literals and arguments
    ConversionDepth,  \* limits of newNativeBudget: 32, 65536 visits,
    ConversionLimits  \* 4096 items, 65536 bytes and 2^20 bytes of storage

VARIABLES operation, outcome

conversionVars == <<operation, outcome>>

-----------------------------------------------------------------------------
(* nativeBudget, with the error that ended the conversion. *)
NewBudget == [err |-> "nil"] @@ ConversionLimits
Failing(b, err) == [b EXCEPT !.err = IF @ = "nil" THEN err ELSE @]

Visited(b, depth) ==
    IF depth > ConversionDepth \/ b.visits = 0 THEN Failing(b, "limit")
    ELSE [b EXCEPT !.visits = @ - 1]

(* takeBytes, takeItems and takeStorage; nothing is taken after an error.  *)
Taken(b, what, n) ==
    IF b.err # "nil" \/ n > b[what] THEN Failing(b, "limit") ELSE [b EXCEPT ![what] = @ - n]

Size(v) == Len(v.of)
TextSize(v) == IF v.kind \in {"string", "bytes"} THEN v.n ELSE 0

Done(b, out) == [budget |-> b, out |-> out]
Pointer(to) == [kind |-> "pointer", of |-> to]

ScalarKinds == {"int", "uint", "string", "bool", "double"}
Elem(t) == t.elem[1]
Indirect(t) == t.kind = "pointer" /\ Elem(t).kind \in ScalarKinds
Collects(v, t) == <<v.kind, t.kind>> \in {<<"list", "slice">>, <<"map", "map">>}

(* The last steps of convert leave the rest to cel-go, aggregates never.   *)
Delegated(b, v, t) ==
    LET pointed == IF t.kind = "pointer" THEN Taken(b, "storage", Elem(t).size) ELSE b
        taken == Taken(pointed, "bytes", TextSize(v))
    IN  IF v.kind \in {"list", "map"} \/ v.kind \notin t.from
        THEN Done(Failing(taken, "type"), v)
        ELSE Done(taken, IF t.kind = "pointer" THEN Pointer(<<v>>) ELSE v)

RECURSIVE convert(_, _, _, _), collection(_, _, _, _)
convert(b, v, t, depth) ==
    LET entered == Visited(b, depth)
        stored == Taken(entered, "storage", t.size)
    IN  IF entered.err # "nil" THEN Done(entered, v)
        ELSE IF v.kind = "optional" THEN convert(entered, v.of[1], t, depth + 1)
        ELSE IF stored.err # "nil" THEN Done(stored, v)
        ELSE IF v.kind = t.kind /\ v.kind \in {"int", "uint"}
        THEN Done(IF v.n \in IntegersOf(t.kind, Platform) THEN stored
                  ELSE Failing(stored, "overflow"), v)
        ELSE IF t.kind = "pointer" /\ v.kind = "null" THEN Done(stored, Pointer(<<>>))
        ELSE IF Indirect(t)
        THEN LET c == convert(stored, v, Elem(t), depth + 1)
             IN  Done(c.budget, Pointer(<<c.out>>))
        ELSE IF Collects(v, t) THEN collection(Taken(stored, "items", Size(v)), v, t, depth)
        ELSE Delegated(stored, v, t)

(* A slice or a map: the host's own storage is used again as it is.        *)
Reusable(v, t) == v.storage = t.name

collection(b, v, t, depth) ==
    LET KeySize == IF t.kind = "map" THEN t.key[1].size ELSE 0
        made == Taken(Taken(b, "storage", KeySize * Size(v)), "storage", Elem(t).size * Size(v))
        One(acc, i) ==
            LET key == IF t.kind = "map" THEN convert(acc.budget, v.keys[i], t.key[1], depth + 1)
                       ELSE Done(acc.budget, <<>>)
                elem == convert(key.budget, v.of[i], Elem(t), depth + 1)
            IN  IF acc.budget.err # "nil" THEN acc
                ELSE IF key.budget.err # "nil" THEN [acc EXCEPT !.budget = key.budget]
                ELSE [acc EXCEPT !.budget = elem.budget,
                                 !.out.keys = IF t.kind = "map" THEN Append(@, key.out) ELSE @,
                                 !.out.of = Append(@, elem.out)]
        empty == [v EXCEPT !.storage = t.name, !.keys = <<>>, !.of = <<>>]
    IN  IF b.err # "nil" \/ Reusable(v, t) THEN Done(b, v)
        ELSE FoldLeft(One, Done(made, empty), [i \in 1 .. Size(v) |-> i])

(* nativeType.NewValue: all fields of a literal draw on one budget.        *)
FieldBudget_Fresh(b) == NewBudget
FieldBudget(b) == b

NewValue(literal, order) ==
    LET One(acc, name) ==
            LET f == literal.fields[name]
                c == convert(FieldBudget(acc.budget), f.value, f.type, 1)
            IN  IF acc.budget.err # "nil" THEN acc
                ELSE IF ~f.known THEN Done(Failing(acc.budget, "field"), acc.out)
                ELSE Done(c.budget, name :> c.out @@ acc.out)
    IN  FoldLeft(One, Done(Taken(NewBudget, "storage", literal.size), <<>>), order)

(* The argument of a trusted function. *)
Argument(op) ==
    IF op.value.kind = "string" /\ op.value.n > ConversionLimits.bytes
    THEN Done(Failing(NewBudget, "input limit"), op.value)
    ELSE convert(NewBudget, op.value, op.type, 0)

-----------------------------------------------------------------------------
NoOperation == [op |-> "none"]
ConversionIdle == operation = NoOperation /\ outcome = <<>>
ConversionInit == operation \in Operations /\ outcome = <<>>

Asks(op) == operation.op = op /\ outcome = <<>> /\ UNCHANGED operation

(* The fields come in the order of a Go map, any; the evaluation aborts at *)
(* a limit (nativeOperationError).                                         *)
BuildLiteral ==
    /\ Asks("literal")
    /\ \E order \in SetToSeqs(DOMAIN operation.fields) :
          outcome' = <<NewValue(operation, order)>>

ConvertArgument == Asks("argument") /\ outcome' = <<Argument(operation)>>
ConversionNext == BuildLiteral \/ ConvertArgument

-----------------------------------------------------------------------------
(* What a conversion must do, told without a budget or an order.           *)
RECURSIVE Convertible(_, _), Cost(_, _, _), Levels(_, _)
Convertible(v, t) ==
    \/ v.kind = "optional" /\ Convertible(v.of[1], t)
    \/ v.kind \in {"int", "uint"} /\ v.kind = t.kind /\ v.n \in IntegersOf(t.kind, Platform)
    \/ t.kind = "pointer" /\ v.kind = "null"
    \/ Indirect(t) /\ Convertible(v, Elem(t))
    \/ Collects(v, t) /\
         \/ v.storage = t.name
         \/ \A i \in DOMAIN v.of : /\ Convertible(v.of[i], Elem(t))
                                   /\ t.kind = "map" => Convertible(v.keys[i], t.key[1])
    \/ v.kind \in t.from /\ ~Indirect(t)

Parts(v, t) ==
    IF v.kind = "optional" THEN {<<v.of[1], t, 1>>}
    ELSE IF Indirect(t) /\ v.kind # "null" THEN {<<v, Elem(t), 1>>}
    ELSE IF Collects(v, t) /\ v.storage # t.name
    THEN {<<v.of[i], Elem(t), i>> : i \in DOMAIN v.of}
         \cup {<<v.keys[i], t.key[1], -i>> : i \in DOMAIN v.keys}
    ELSE {}

Alone(v, t, what) ==
    LET made == IF Collects(v, t) /\ v.storage # t.name
                THEN Size(v) * (Elem(t).size + IF t.kind = "map" THEN t.key[1].size ELSE 0)
                ELSE IF t.kind = "pointer" /\ ~Indirect(t) /\ v.kind # "null" THEN Elem(t).size
                ELSE 0
    IN  CASE what = "visits" -> 1
          [] what = "items" -> IF Collects(v, t) THEN Size(v) ELSE 0
          [] what = "bytes" -> IF Indirect(t) THEN 0 ELSE TextSize(v)
          [] what = "storage" -> IF v.kind = "optional" THEN 0 ELSE t.size + made

Cost(v, t, what) ==
    Alone(v, t, what)
    + MapThenSumSet(LAMBDA part : Cost(part[1], part[2], what), Parts(v, t))

Levels(v, t) == Max({0} \cup {1 + Levels(part[1], part[2]) : part \in Parts(v, t)})

(* An element as CEL reads it back: through its pointer, nil as null; and  *)
(* what the conversion was given.                                          *)
RECURSIVE Read(_), Meant(_)
Through(Sees(_), v) ==
    [kind |-> v.kind, n |-> v.n,
     keys |-> [i \in DOMAIN v.keys |-> Sees(v.keys[i])],
     of |-> [i \in DOMAIN v.of |-> Sees(v.of[i])]]
Null == [kind |-> "null", n |-> 0, keys |-> <<>>, of |-> <<>>]

Read(out) ==
    IF out.kind # "pointer" THEN Through(Read, out)
    ELSE IF out.of = <<>> THEN Null ELSE Read(out.of[1])
Meant(v) == IF v.kind = "optional" THEN Meant(v.of[1]) ELSE Through(Meant, v)

(* The values an operation converts, below a first level for a literal's.  *)
Converted == IF operation.op = "literal" THEN operation.fields
             ELSE 1 :> [known |-> TRUE, value |-> operation.value, type |-> operation.type]
FirstLevel == IF operation.op = "literal" THEN 1 ELSE 0
Literal(what) == IF operation.op = "literal" /\ what = "storage" THEN operation.size ELSE 0

Total(what) ==
    Literal(what)
    + MapThenSumSet(LAMBDA x : Cost(Converted[x].value, Converted[x].type, what),
                    DOMAIN Converted)

Excessive ==
    \/ \E what \in DOMAIN ConversionLimits : Total(what) > ConversionLimits[what]
    \/ \E x \in DOMAIN Converted :
          FirstLevel + Levels(Converted[x].value, Converted[x].type) > ConversionDepth

Possible(f) == f.known /\ Convertible(f.value, f.type)

Converts == operation.op \in {"literal", "argument"} /\ outcome # <<>>
Result(x) == IF operation.op = "literal" THEN outcome[1].out[x] ELSE outcome[1].out

(* A conversion succeeds only where every value is in the range of its Go  *)
(* type and all together stay within the limits of one operation; what it  *)
(* made then reads back as what was given.  It fails for a limit only      *)
(* where the whole of it passes one, and otherwise only for a value that   *)
(* has no place in its type, whatever the order of the fields              *)
(* (docs/cel.md:89-95,159).                                                *)
ConversionIsTrue ==
    Converts =>
        CASE outcome[1].budget.err = "nil" ->
                /\ ~Excessive
                /\ \A x \in DOMAIN Converted : /\ Possible(Converted[x])
                                              /\ Read(Result(x)) = Meant(Converted[x].value)
          [] outcome[1].budget.err \in {"limit", "input limit"} -> Excessive
          [] OTHER -> \E x \in DOMAIN Converted : ~Possible(Converted[x])
=============================================================================
