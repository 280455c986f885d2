--------------------------- MODULE ConditionTrace ---------------------------
(***************************************************************************)
(* Recording the operator tree of one traced condition: the derived        *)
(* context that carries a recording, All, Any and Not writing into the     *)
(* recording of the context they are called with, and the copy that Fire   *)
(* keeps (condition.go, condition_trace_internal.go,                       *)
(* execution_internal.go:57-87), also of a Fire that a callback makes      *)
(* while it is recorded.                                                   *)
(*                                                                         *)
(* A condition is arbitrary Go code: it may call operators with its own    *)
(* context or with one it captured, one after the other or nested, from    *)
(* its own goroutine or from one that outlives it, return their answer or  *)
(* another, panic, and recover.  Each locked section of the code is one    *)
(* step; no lock is held between them.                                     *)
(***************************************************************************)
EXTENDS Integers, Sequences, FiniteSets

CONSTANTS
    Goroutines,   \* those that conditions start; Main runs Fire
    MaxNodes,     \* bound on the recordings and nested Fires made and the
                  \* goroutines running, together
    MaxChildren,  \* bound on the children of an operator
    MaxCalls      \* bound on the operators and the nested Fires called, together

Main == "main"
ASSUME GoroutinesAssumption == Main \notin Goroutines

Threads == {Main} \cup Goroutines
Outcomes == {"false", "true", "error"}
Operators == {"All", "Any", "Not"}

VARIABLES
    nodes,      \* the recordings, in the order of their making
    stack,      \* of each goroutine: the operators and callbacks it is in
    panicErr,   \* whether Fire recovered a panic of this condition
    todo,       \* recordings that freeze has yet to copy
    frozen,     \* the copies it has made
    calls,      \* how many operators were called
    operators,  \* history: operators called with a recording before it finished
    answer,     \* history: what the first of them answered
    returned,   \* history: what the recording's callback returned
    fires,      \* how many nested calls of Fire were made
    intruders   \* history: the callbacks of a nested Fire that, with the
                \* context they were given, wrote into a recording not its own

history == <<calls, operators, answer, returned, fires, intruders>>
vars == <<nodes, stack, panicErr, todo, frozen, history>>

-----------------------------------------------------------------------------
Recording(index, started) ==
    [kind |-> "Leaf", index |-> index, outcome |-> "none", reason |-> "None",
     started |-> started, finished |-> FALSE, operator |-> FALSE,
     opaque |-> FALSE, children |-> <<>>]

Unreached(index) == [Recording(index, FALSE) EXCEPT !.reason = "ShortCircuit"]

Callback(node) == [what |-> "callback", role |-> "own", node |-> node, ctx |-> node]
Nested(role, node, ctx) == [what |-> "callback", role |-> role, node |-> node, ctx |-> ctx]
Operator(on, kind, children) ==
    [what |-> "operator", on |-> on, kind |-> kind, children |-> children,
     next |-> 1, outcome |-> "none"]

NoNode == 0

Running(t) == stack[t] # <<>>
Top(t) == stack[t][Len(stack[t])]
Below(t) == stack[t][Len(stack[t]) - 1]
In(t, what) == Running(t) /\ Top(t).what = what
Pop(s) == SubSeq(s, 1, Len(s) - 1)
Push(t, frame) == stack' = [stack EXCEPT ![t] = Append(@, frame)]

(* The bound: n more recordings, Fires or goroutines fit. *)
Room(n) ==
    Len(nodes) + fires + Cardinality({u \in Goroutines : Running(u)}) + n <= MaxNodes

(* The recording can still change what its copy will say. *)
Open(n) == ~nodes[n].finished /\ n \notin DOMAIN frozen

Init ==
    /\ nodes = <<Recording(-1, TRUE)>>
    /\ stack = [t \in Threads |-> IF t = Main THEN <<Callback(1)>> ELSE <<>>]
    /\ panicErr = FALSE /\ todo = <<>> /\ frozen = <<>>
    /\ calls = 0 /\ operators = <<0>> /\ answer = <<"none">> /\ returned = <<"none">>
    /\ fires = 0 /\ intruders = {}

(* conditionRecording.finish. *)
Finished_Trusting(r, outcome) == [r EXCEPT !.finished = TRUE, !.outcome = outcome]
Finished(r, outcome) ==
    [r EXCEPT !.finished = TRUE, !.outcome = outcome,
              !.opaque = @ \/ (r.operator /\ r.outcome # outcome)]

-----------------------------------------------------------------------------
(* traceCombined, first locked section: the operator claims the recording  *)
(* of the context it is called with, be it one kept from an earlier call.  *)
Claimed(r, kind, children) ==
    [r EXCEPT !.opaque = @ \/ r.operator \/ r.finished,
              !.operator = TRUE, !.kind = kind, !.children = children]

Call(t, on, kind, n) ==
    LET children == [i \in 1 .. n |-> Len(nodes) + i]
    IN  /\ In(t, "callback") /\ nodes[on].started
        /\ calls + fires < MaxCalls /\ calls' = calls + 1
        /\ Room(n)
        /\ nodes' = [nodes EXCEPT ![on] = Claimed(@, kind, children)]
                    \o [i \in 1 .. n |-> Unreached(i - 1)]
        /\ operators' = [operators EXCEPT ![on] =
                            IF Open(on) /\ @ < 2 THEN @ + 1 ELSE @]
                        \o [i \in 1 .. n |-> 0]
        /\ answer' = answer \o [i \in 1 .. n |-> "none"]
        /\ returned' = returned \o [i \in 1 .. n |-> "none"]
        /\ intruders' = IF on = Top(t).ctx /\ on # Top(t).node
                        THEN intruders \cup {Top(t).role} ELSE intruders
        /\ Push(t, Operator(on, kind, children))
        /\ UNCHANGED <<panicErr, todo, frozen, fires>>

(* traceChildren: a child gets a context of its own. *)
StartChild(t) ==
    LET op == Top(t)
        child == op.children[op.next]
    IN  /\ In(t, "operator") /\ op.outcome = "none" /\ op.next <= Len(op.children)
        /\ nodes' = [nodes EXCEPT ![child].started = TRUE, ![child].reason = "None"]
        /\ Push(t, Callback(child))
        /\ UNCHANGED <<panicErr, todo, frozen, history>>

(* What an operator makes of its child's outcome: "none" to go on. *)
Combine(kind, outcome) ==
    IF outcome = "error" THEN "error"
    ELSE IF kind = "Not" THEN (IF outcome = "true" THEN "false" ELSE "true")
    ELSE IF kind = "All" /\ outcome = "false" THEN "false"
    ELSE IF kind = "Any" /\ outcome = "true" THEN "true"
    ELSE "none"

(* The callback of an operator's child returns and its recording finishes. *)
ChildReturns(t, outcome) ==
    LET node == Top(t).node
        op == Below(t)
        rest == Pop(stack[t])
    IN  /\ In(t, "callback") /\ Len(rest) > 0 /\ op.what = "operator"
        /\ nodes' = [nodes EXCEPT ![node] = Finished(@, outcome)]
        /\ returned' = [returned EXCEPT ![node] = outcome]
        /\ stack' = [stack EXCEPT ![t] =
                [rest EXCEPT ![Len(rest)] =
                    [op EXCEPT !.next = op.next + 1, !.outcome = Combine(op.kind, outcome)]]]
        /\ UNCHANGED <<panicErr, todo, frozen, calls, operators, answer, fires, intruders>>

(* traceCombined, second locked section. *)
Answer(op) == IF op.outcome # "none" THEN op.outcome
              ELSE IF op.kind = "All" THEN "true" ELSE "false"

Answered_Always(r, outcome) == [r EXCEPT !.outcome = outcome]
Answered(r, outcome) == IF r.finished THEN r ELSE [r EXCEPT !.outcome = outcome]

OperatorReturns(t) ==
    LET op == Top(t)
    IN  /\ In(t, "operator")
        /\ op.outcome # "none" \/ op.next > Len(op.children)
        /\ nodes' = [nodes EXCEPT ![op.on] = Answered(@, Answer(op))]
        /\ answer' = [answer EXCEPT ![op.on] =
                        IF operators[op.on] = 1 /\ @ = "none" /\ Open(op.on)
                        THEN Answer(op) ELSE @]
        /\ stack' = [stack EXCEPT ![t] = Pop(@)]
        /\ UNCHANGED <<panicErr, todo, frozen, calls, operators, returned, fires, intruders>>

-----------------------------------------------------------------------------
(* A callback calls Fire of some engine, with its own context or one it    *)
(* captured: each condition of that Fire has a recording of its own or     *)
(* none, each action the context that Fire was given.                      *)
Contexts == {NoNode} \cup {n \in DOMAIN nodes : nodes[n].started}

CallFire(t, ctx, traced) ==
    /\ In(t, "callback") /\ ctx \in Contexts
    /\ calls + fires < MaxCalls /\ Room(1) /\ fires' = fires + 1
    /\ Push(t, [what |-> "fire", ctx |-> ctx, traced |-> traced, next |-> "condition"])
    /\ UNCHANGED <<nodes, panicErr, todo, frozen, calls, operators, answer, returned, intruders>>

Firing(t, next) == In(t, "fire") /\ Top(t).next = next

Masked_Inherited(ctx) == ctx
Masked(ctx) == NoNode

StartUntraced(t) ==
    /\ Firing(t, "condition") /\ ~Top(t).traced
    /\ Push(t, Nested("condition", NoNode, Masked(Top(t).ctx)))
    /\ UNCHANGED <<nodes, panicErr, todo, frozen, history>>

StartTraced(t) ==
    LET node == Len(nodes) + 1
    IN  /\ Firing(t, "condition") /\ Top(t).traced /\ Room(1)
        /\ nodes' = Append(nodes, Recording(-1, TRUE))
        /\ operators' = Append(operators, 0)
        /\ answer' = Append(answer, "none") /\ returned' = Append(returned, "none")
        /\ Push(t, Nested("condition", node, node))
        /\ UNCHANGED <<panicErr, todo, frozen, calls, fires, intruders>>

StartAction(t) ==
    /\ Firing(t, "action")
    /\ Push(t, Nested("action", NoNode, Top(t).ctx))
    /\ UNCHANGED <<nodes, panicErr, todo, frozen, history>>

(* The action of a matched rule comes next, otherwise another rule.        *)
NestedReturns(t, outcome) ==
    LET frame == Top(t)
        rest == Pop(stack[t])
        next == IF frame.role = "condition" /\ outcome = "true" THEN "action" ELSE "condition"
    IN  /\ In(t, "callback") /\ frame.role # "own"
        /\ IF frame.node = NoNode THEN UNCHANGED <<nodes, returned>>
           ELSE /\ nodes' = [nodes EXCEPT ![frame.node] = Finished(@, outcome)]
                /\ returned' = [returned EXCEPT ![frame.node] = outcome]
        /\ stack' = [stack EXCEPT ![t] = [rest EXCEPT ![Len(rest)].next = next]]
        /\ UNCHANGED <<panicErr, todo, frozen, calls, operators, answer, fires, intruders>>

FireReturns(t) ==
    /\ In(t, "fire")
    /\ stack' = [stack EXCEPT ![t] = Pop(@)]
    /\ UNCHANGED <<nodes, panicErr, todo, frozen, history>>

-----------------------------------------------------------------------------
(* The condition itself returns: executeRules finishes the root recording  *)
(* and freezes it.                                                         *)
ConditionReturns(outcome) ==
    /\ In(Main, "callback") /\ Len(stack[Main]) = 1
    /\ nodes' = [nodes EXCEPT ![1] = Finished(@, outcome)]
    /\ returned' = [returned EXCEPT ![1] = outcome]
    /\ stack' = [stack EXCEPT ![Main] = <<>>]
    /\ todo' = <<1>>
    /\ UNCHANGED <<panicErr, frozen, calls, operators, answer, fires, intruders>>

(* A callback panics.  The panic is recovered by a callback it is nested   *)
(* in, or by Fire.  On its way it passes callbacks that never return.      *)
Abandoned(t, depth) ==
    {stack[t][j].node : j \in {i \in depth + 1 .. Len(stack[t]) :
                                  stack[t][i].what = "callback"}}

Unwind(t, depth) ==
    /\ In(t, "callback")
    /\ stack' = [stack EXCEPT ![t] = SubSeq(@, 1, depth)]
    /\ returned' = [n \in 1 .. Len(returned) |->
                        IF n \in Abandoned(t, depth) THEN "panic" ELSE returned[n]]
    /\ UNCHANGED <<nodes, frozen, calls, operators, answer, fires, intruders>>

PanicRecovered(t) ==
    /\ \E depth \in 1 .. Len(stack[t]) - 1 :
          stack[t][depth].what = "callback" /\ Unwind(t, depth)
    /\ UNCHANGED <<panicErr, todo>>

PanicReachesFire ==
    /\ Unwind(Main, 0)
    /\ panicErr' = TRUE
    /\ todo' = <<1>>

(* A callback starts a goroutine, which may outlive it. *)
Spawn(t, u) ==
    /\ In(t, "callback") /\ u \in Goroutines /\ ~Running(u) /\ Room(1)
    /\ Push(u, Callback(NoNode))
    /\ UNCHANGED <<nodes, panicErr, todo, frozen, history>>

Exit(u) ==
    /\ u \in Goroutines /\ In(u, "callback") /\ Len(stack[u]) = 1
    /\ stack' = [stack EXCEPT ![u] = <<>>]
    /\ UNCHANGED <<nodes, panicErr, todo, frozen, history>>

-----------------------------------------------------------------------------
(* freeze copies one recording per locked section, parents first. *)
View(r) ==
    LET broken == panicErr /\ r.started /\ ~r.finished
    IN  [kind |-> IF r.opaque THEN "Leaf" ELSE r.kind,
         index |-> r.index,
         outcome |-> IF broken THEN "error" ELSE r.outcome,
         reason |-> r.reason,
         children |-> IF r.opaque THEN <<>> ELSE r.children]

Freeze ==
    /\ todo # <<>>
    /\ LET n == Head(todo)
           view == View(nodes[n])
       IN  /\ frozen' = [m \in DOMAIN frozen \cup {n} |->
                            IF m \in DOMAIN frozen THEN frozen[m] ELSE view]
           /\ todo' = view.children \o Tail(todo)
    /\ UNCHANGED <<nodes, stack, panicErr, history>>

FireDone == stack[Main] = <<>> /\ todo = <<>>
Terminated == (\A t \in Threads : ~Running(t)) /\ FireDone /\ UNCHANGED vars

Next ==
    \/ \E t \in Threads :
        \/ \E on \in DOMAIN nodes :
            \/ \E kind \in {"All", "Any"}, n \in 0 .. MaxChildren : Call(t, on, kind, n)
            \/ Call(t, on, "Not", 1)
        \/ StartChild(t)
        \/ \E outcome \in Outcomes : ChildReturns(t, outcome)
        \/ OperatorReturns(t)
        \/ \E ctx \in DOMAIN nodes \cup {NoNode}, traced \in BOOLEAN : CallFire(t, ctx, traced)
        \/ StartUntraced(t) \/ StartTraced(t) \/ StartAction(t)
        \/ \E outcome \in Outcomes : NestedReturns(t, outcome)
        \/ FireReturns(t)
        \/ PanicRecovered(t)
        \/ \E u \in Goroutines : Spawn(t, u)
        \/ Exit(t)
    \/ \E outcome \in Outcomes : ConditionReturns(outcome)
    \/ PanicReachesFire
    \/ Freeze
    \/ Terminated

Spec == Init /\ [][Next]_vars
-----------------------------------------------------------------------------
Shown(n) == FireDone /\ n \in DOMAIN frozen /\ frozen[n].kind # "Leaf"

(* The tree never claims an operator's semantics for a callback that       *)
(* called several operators with its context, or gave another answer than  *)
(* its operator's, whatever ran concurrently (trace.go:121-122).  After a  *)
(* panic that reached Fire the second half fails: see OpaqueWhenChanged.   *)
OneOperator ==
    \A n \in DOMAIN nodes : Shown(n) =>
        /\ operators[n] = 1
        /\ ~panicErr => answer[n] = returned[n]

(* The same, when the callback panicked after its operator had answered.   *)
OpaqueWhenChanged ==
    \A n \in DOMAIN nodes : Shown(n) /\ answer[n] # "none" => answer[n] = returned[n]

(* An operator node of the tree follows from its children: the last child  *)
(* evaluated decides, the ones before it did not, the ones after it are    *)
(* short-circuited, and every child shows what its callback returned.      *)
TreeFollows ==
    \A n \in DOMAIN nodes : Shown(n) /\ ~panicErr =>
        LET kind == frozen[n].kind
            cs == [i \in DOMAIN frozen[n].children |-> frozen[frozen[n].children[i]]]
            called == {i \in DOMAIN cs : cs[i].outcome # "none"}
        IN  \E last \in 0 .. Len(cs) :
              /\ called = 1 .. last
              /\ \A i \in 1 .. last - 1 : Combine(kind, cs[i].outcome) = "none"
              /\ IF last > 0 /\ Combine(kind, cs[last].outcome) # "none"
                 THEN frozen[n].outcome = Combine(kind, cs[last].outcome)
                 ELSE last = Len(cs) /\ frozen[n].outcome = IF kind = "All" THEN "true" ELSE "false"
              /\ \A i \in DOMAIN cs :
                    /\ cs[i].index = i - 1
                    /\ cs[i].reason = IF i \in called THEN "None" ELSE "ShortCircuit"
                    /\ i \in called => cs[i].outcome = returned[frozen[n].children[i]]

(* A condition of a nested Fire, given its context, never writes into the  *)
(* recording of the condition that made the call, traced or not            *)
(* (execution_internal.go:57-61, trace_test.go:234-259).                   *)
NestedConditionsStayOut == "condition" \notin intruders

(* The same of everything that a nested Fire calls, as the comment in      *)
(* execution_internal.go:58 has it: "A nested Fire must not write into the *)
(* enclosing condition's recording."  Its actions do, since they are given *)
(* the caller's context.                                                   *)
NestedFireIsSeparate == intruders = {}
=============================================================================
