---------------------------- MODULE CelCondition ----------------------------
(***************************************************************************)
(* One call of a condition that CelBuilder's host has compiled: the        *)
(* preflight, the projection of every binding under one input budget, the  *)
(* evaluation and the answer (cel/compiler.go, cel/binding.go:201-262,     *)
(* cel/input.go), while the host goes on with its builder.                 *)
(*                                                                         *)
(* A projected value is what its traversal asks of the budget, in order:   *)
(* visits at a depth, and bytes or items.  Projectors and the evaluation   *)
(* are the host's and cel-go's; the context may end at any moment.         *)
(***************************************************************************)
EXTENDS CelBuilder

CONSTANTS
    Traversals, \* of the values that projectors return
    MaxDepth,   \* limits of projectBindings, 32, 65536, 65536 and 4096
    MaxVisits,
    MaxBytes,
    MaxItems,
    Poll        \* visits from one look at the context to the next, 16

ChargeSpace == [what : {"visit", "bytes", "items"}, n : Nat]
ASSUME TraversalsAssumption == Traversals \subseteq Seq(ChargeSpace)
ASSUME BudgetAssumption == {MaxDepth, MaxVisits, MaxBytes, MaxItems} \subseteq Nat
ASSUME PollAssumption == Poll \in Nat \ {0}

VARIABLES
    given,    \* the arguments
    program,  \* the condition called
    ended,    \* whether the caller's context has ended
    pc,
    values,   \* what was projected so far
    todo,     \* the rest of the last value's traversal
    budget,
    reply,    \* the answer, and the causes joined in the error
    called,   \* history: the projectors called
    late      \* history: a callback returned to an ended context

callVars == <<given, program, ended, pc, values, todo, budget, reply, called, late>>
vars == <<builderVars, callVars>>

Arguments == {"valid", "nil context", "nil input"}
NoReply == [answer |-> "none", causes |-> {}]
FullBudget == [visits |-> MaxVisits, bytes |-> MaxBytes, items |-> MaxItems]

Init ==
    /\ BuilderInit
    /\ given = "valid" /\ program = Zero /\ ended = FALSE
    /\ pc = "idle" /\ values = <<>> /\ todo = <<>>
    /\ budget = FullBudget
    /\ reply = NoReply /\ called = <<>> /\ late = FALSE

Bindings == program.by.bindings

Go(from, to) == pc = from /\ pc' = to

(* contextError, joined with whatever else failed. *)
WithContext_Alone(causes) == IF causes = {} /\ ended THEN {"context"} ELSE causes
WithContext(causes) == IF ended THEN causes \cup {"context"} ELSE causes

Fail(causes) ==
    /\ pc' = "returned"
    /\ reply' = [answer |-> "false", causes |-> causes]

Called == pc \notin {"idle", "returned", "unwound"}

ContextEnds ==
    /\ given # "nil context" /\ Called
    /\ ~ended /\ ended' = TRUE
    /\ UNCHANGED <<given, program, pc, values, todo, budget, reply, called, late>>

Call(argument) ==
    /\ condition.valid /\ Go("idle", "called")
    /\ given' = argument /\ program' = condition
    /\ ended' \in IF argument = "nil context" THEN {FALSE} ELSE BOOLEAN
    /\ UNCHANGED <<values, todo, budget, reply, called, late>>

-----------------------------------------------------------------------------
Preflight ==
    /\ pc = "called"
    /\ IF given # "valid" THEN Fail({given})
       ELSE IF ended THEN Fail({"context"})
       ELSE pc' = "project" /\ UNCHANGED reply
    /\ UNCHANGED <<given, program, ended, values, todo, budget, called, late>>

Project ==
    /\ pc = "project" /\ Len(values) < Len(Bindings)
    /\ IF ended THEN Fail({"context"}) /\ UNCHANGED called
       ELSE /\ pc' = "projecting" /\ UNCHANGED reply
            /\ called' = Append(called, Len(values) + 1)
    /\ UNCHANGED <<given, program, ended, values, todo, budget, late>>

Returns == late' = (late \/ ended)

ProjectorFails ==
    /\ pc = "projecting" /\ Returns
    /\ Fail(WithContext({"projector"}))
    /\ UNCHANGED <<given, program, ended, values, todo, budget, called>>

ProjectorPanics ==
    /\ Go("projecting", "unwound") /\ Returns
    /\ UNCHANGED <<given, program, ended, values, todo, budget, reply, called>>

(* A nil pointer, or a message of another descriptor.  The context is      *)
(* asked before the value is looked at, and once more for the error.       *)
Unusable == {"ErrNilBinding", "ErrProtoDescriptor"}

ProjectorReturnsUnusable(fault) ==
    /\ pc = "projecting" /\ Returns
    /\ fault = "ErrProtoDescriptor" => Bindings[Len(values) + 1].kind = "proto"
    /\ IF ended THEN Fail({"context"}) ELSE pc' = fault /\ UNCHANGED reply
    /\ UNCHANGED <<given, program, ended, values, todo, budget, called>>

RefuseValue ==
    /\ pc \in Unusable
    /\ Fail(WithContext({pc}))
    /\ UNCHANGED <<given, program, ended, values, todo, budget, called, late>>

ProjectorReturns(traversal) ==
    /\ pc = "projecting" /\ Returns
    /\ IF ended THEN Fail({"context"}) /\ UNCHANGED <<values, todo>>
       ELSE /\ pc' = "scan" /\ UNCHANGED reply
            /\ values' = Append(values, traversal)
            /\ todo' = traversal
    /\ UNCHANGED <<given, program, ended, budget, called>>

-----------------------------------------------------------------------------
(* inputBudget.native and inputBudget.message. *)
VisitRefused(depth) == depth > MaxDepth \/ budget.visits = 0

Visit ==
    /\ pc = "scan" /\ todo # <<>> /\ Head(todo).what = "visit"
    /\ IF VisitRefused(Head(todo).n)
       THEN Fail(WithContext({"input limit"})) /\ UNCHANGED <<budget, todo>>
       ELSE /\ budget' = [budget EXCEPT !.visits = @ - 1]
            /\ IF budget'.visits % Poll = 0 /\ ended
               THEN Fail({"context"}) /\ UNCHANGED todo
               ELSE todo' = Tail(todo) /\ UNCHANGED <<pc, reply>>
    /\ UNCHANGED <<given, program, ended, values, called, late>>

(* takeBytes and takeItems *)
Take(what) ==
    /\ pc = "scan" /\ todo # <<>> /\ Head(todo).what = what /\ what # "visit"
    /\ IF Head(todo).n > budget[what]
       THEN Fail(WithContext({"input limit"})) /\ UNCHANGED <<budget, todo>>
       ELSE /\ budget' = [budget EXCEPT ![what] = @ - Head(todo).n]
            /\ todo' = Tail(todo)
            /\ UNCHANGED <<pc, reply>>
    /\ UNCHANGED <<given, program, ended, values, called, late>>

(* The bindings that follow share what is left of the budget. *)
LeftOver_Fresh == FullBudget
LeftOver == budget

Scanned ==
    /\ todo = <<>> /\ Go("scan", "project")
    /\ budget' = LeftOver
    /\ UNCHANGED <<given, program, ended, values, todo, reply, called, late>>

-----------------------------------------------------------------------------
(* ContextEval is called with the activation, and boolOutcome reads what   *)
(* it returns.                                                             *)
Evaluate ==
    /\ Go("project", "evaluating") /\ Len(values) = Len(Bindings)
    /\ UNCHANGED <<given, program, ended, values, todo, budget, reply, called, late>>

EvaluationFailures == {"unknown", "evaluation", "cost limit", "native limit"}

EvaluationFails(cause) ==
    /\ pc = "evaluating" /\ Returns
    /\ Fail(WithContext({cause}))
    /\ UNCHANGED <<given, program, ended, values, todo, budget, called>>

(* Inside comprehensions cel-go looks at the context itself. *)
EvaluationInterrupted == ended /\ EvaluationFails("interrupted")

EvaluationReturns(matched) ==
    /\ pc = "evaluating" /\ Returns
    /\ IF ended THEN Fail({"context"})
       ELSE pc' = "returned" /\ reply' = [answer |-> matched, causes |-> {}]
    /\ UNCHANGED <<given, program, ended, values, todo, budget, called>>

CallNext ==
    \/ (\E argument \in Arguments : Call(argument)) \/ ContextEnds \/ Preflight \/ Project
    \/ ProjectorFails \/ ProjectorPanics
    \/ (\E fault \in Unusable : ProjectorReturnsUnusable(fault)) \/ RefuseValue
    \/ \E traversal \in Traversals : ProjectorReturns(traversal)
    \/ Visit \/ (\E what \in {"bytes", "items"} : Take(what)) \/ Scanned
    \/ Evaluate \/ EvaluationInterrupted
    \/ \E cause \in EvaluationFailures : EvaluationFails(cause)
    \/ \E matched \in {"true", "false"} : EvaluationReturns(matched)

Next ==
    \/ BuilderNext /\ UNCHANGED callVars
    \/ CallNext /\ UNCHANGED builderVars

Spec == Init /\ [][Next]_vars
-----------------------------------------------------------------------------
Cost(charge, what) ==
    IF charge.what # what THEN 0 ELSE IF what = "visit" THEN 1 ELSE charge.n

(* The sum of the first n costs. *)
Total(costs, n) ==
    LET Upto[i \in 0 .. n] == IF i = 0 THEN 0 ELSE Upto[i - 1] + costs[i]
    IN  Upto[n]

Costs(v, what) == [i \in DOMAIN v |-> Cost(v[i], what)]
Sums(what) == [b \in DOMAIN values |-> Total(Costs(values[b], what), Len(values[b]))]
Sum(what) == Total(Sums(what), Len(values))

Deep == \E b \in DOMAIN values : \E i \in DOMAIN values[b] :
            values[b][i].what = "visit" /\ values[b][i].n > MaxDepth

OverLimit == Deep \/ Sum("visit") > MaxVisits \/ Sum("bytes") > MaxBytes
                  \/ Sum("items") > MaxItems

Answered == pc = "returned" /\ reply.causes = {}

(* ResolveName of the activation, and the functions in the program.        *)
Resolved(name) == \E b \in DOMAIN values : Bindings[b].name = name
IsFunction(name) == name \in Names(program.by.functions)

(* A condition answers only after every binding that its compiler was      *)
(* built with was projected once, in the order of registration, whatever   *)
(* was registered since, all of them together within the input limits, and *)
(* for a context that had not ended when a callback returned; every name   *)
(* its source uses stands for one of these values or a function            *)
(* (docs/cel.md:60, 148-157, cel/binding.go:143-145).                      *)
AnswerIsWhole ==
    Answered =>
        /\ called = [b \in DOMAIN Bindings |-> b]
        /\ \A name \in program.source.uses : Resolved(name) \/ IsFunction(name)
        /\ ~OverLimit
        /\ ~late

(* A failure is told as what it is.  One for a context that had ended when *)
(* a callback returned says so, beside what else failed, and no match      *)
(* comes with it; nothing else is blamed on the context                    *)
(* (docs/cel.md:167), and the input limit only on values that pass it.     *)
FailureIsTrue ==
    pc = "returned" =>
        /\ late => "context" \in reply.causes
        /\ "context" \in reply.causes => ended
        /\ reply.causes # {} => reply.answer = "false"
        /\ "projector" \in reply.causes => Len(called) = Len(values) + 1
        /\ "input limit" \in reply.causes => OverLimit
=============================================================================
