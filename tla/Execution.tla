------------------------------ MODULE Execution ------------------------------
(***************************************************************************)
(* One call of Engine.Fire after preflight: execute, executeRules and the  *)
(* ledger they keep (execution_internal.go), the synchronous observer      *)
(* (observer_internal.go) and the group records (group_result.go).         *)
(*                                                                         *)
(* The environment is what the engine cannot control: what each condition, *)
(* action and observer returns, and when the caller's context ends.        *)
(*                                                                         *)
(* The code's pattern is always the same: change the ledger, deliver some  *)
(* events, look at the context, go on.  A step here changes the ledger and *)
(* queues the events in pending; Deliver hands them over one at a time; a  *)
(* step that continues waits until the queue is empty.                     *)
(*                                                                         *)
(* An operator named A_B is a seeded mistake: A as a plausible bug would   *)
(* write it.  No specification uses one; the property it is paired with in *)
(* PROJECT.json fails when it replaces A.                                  *)
(***************************************************************************)
EXTENDS Layout

CONSTANTS
    Calls,     \* flattened entry lists of compilation, with a call's configuration
    Endings    \* the ways in which the caller's context may end

Layouts == {call.entries : call \in Calls}
Configs == {call.config : call \in Calls}

NoRule == -1

Live == [err |-> "nil", cause |-> FALSE]

StopModes == {"EvaluateAll", "StopOnFirstMatch", "StopOnFirstFire"}
ErrorModes == {"StopOnError", "ContinueOnError"}
PanicModes == {"RecoverPanics", "PropagatePanics"}
ConfigSpace ==
    [stop : StopModes, conditionErrors : ErrorModes, actionErrors : ErrorModes,
     panic : PanicModes, observer : BOOLEAN]

EndingSpace == [err : {"canceled", "deadline"}, cause : BOOLEAN]

ASSUME LayoutsAssumption == \A es \in Layouts : Compiled(es)
ASSUME ConfigsAssumption == Configs \subseteq ConfigSpace
ASSUME EndingsAssumption == Endings \subseteq EndingSpace

VARIABLES
    entries, config,  \* captured snapshot and configuration
    ctx,              \* context.Err and whether context.Cause differs from it
    pc, entry, order, \* control point, entry index, rule order
    pending,          \* events built but not yet delivered
    observer,         \* x.observer # nil
    counts, stop, records, failures, causes, evaluatedThrough, groups,
    diagnostics,
    cond, act,        \* history: what each condition and action did
    late,             \* history: a callback returned with the context ended
    delivered         \* history: the events the observer was handed

setup == <<entries, config>>
control == <<pc, entry, order>>
ledger == <<counts, stop, records, failures, causes, evaluatedThrough, groups>>
observation == <<pending, observer, diagnostics, delivered>>
history == <<cond, act, late>>
vars == <<setup, ctx, control, ledger, observation, history>>

-----------------------------------------------------------------------------
Total == entries[Len(entries)].end
Rules == 0 .. Total - 1
Here == entries[entry]
InGroup == Here.kind \in GroupKinds
Done == ctx.err # "nil"
Quiet == pending = <<>>
At(l) == pc = l /\ Quiet

NoGroup == [state |-> "NotEntered", endReason |-> "None", stop |-> "None",
            selected |-> NoRule, skippedFrom |-> 0]

CountFields == {"Evaluated", "NotEvaluated", "Matched", "Unmatched", "Fired",
                "Skipped", "Failed", "ConditionFailed", "ActionFailed",
                "PanicRecovered"}
ZeroCounts == [f \in CountFields |-> 0]
Increment(fields) ==
    counts' = [f \in CountFields |-> counts[f] + IF f \in fields THEN 1 ELSE 0]

RuleEvent(kind, outcome) == [kind |-> kind, order |-> order, outcome |-> outcome]
SummaryEvent(kind, c, s) == [kind |-> kind, counts |-> c, stop |-> s]
GroupEvent(kind, view) == [kind |-> kind, entry |-> entry, view |-> view]

(* observe: nothing is built once the observer is gone. *)
Emit(events) ==
    /\ pending' = IF observer THEN events ELSE <<>>
    /\ UNCHANGED <<observer, diagnostics, delivered>>

(* contextDone, when the context has ended. *)
ContextCauses ==
    LET because(what) == [order |-> NoRule, phase |-> "context",
                          cause |-> what, continued |-> FALSE]
    IN  IF ~Done THEN <<>>
        ELSE IF ctx.cause THEN <<because(ctx.err), because("cause")>>
        ELSE <<because(ctx.err)>>

ContextStop == IF ctx.err = "deadline" THEN "ContextDeadlineExceeded"
                                       ELSE "ContextCanceled"

(* resolveGroup on the current group. *)
Resolved_StateKept(g) == [g EXCEPT !.selected = order]
Resolved(g) == [g EXCEPT !.state = "Resolved", !.selected = order]

(* record and fail. *)
Record(state) ==
    records' = Append(records, [order |-> order, state |-> state, failure |-> 0])

FailedIn_Unmatched(phase) ==
    IF phase = "condition" THEN {"ConditionFailed"} ELSE {"ActionFailed"}
FailedIn(phase) ==
    IF phase = "condition" THEN {"ConditionFailed"} ELSE {"ActionFailed", "Matched"}

Fail(phase, cause, continued) ==
    LET failure == [order |-> order, phase |-> phase, cause |-> cause,
                    continued |-> continued]
        recovered == IF cause = "panic" THEN {"PanicRecovered"} ELSE {}
    IN  /\ records' = Append(records, [order |-> order, state |-> "Failed",
                                       failure |-> Len(failures) + 1])
        /\ failures' = Append(failures, failure)
        /\ causes' = Append(causes, failure)
        /\ Increment({"Failed"} \cup FailedIn(phase) \cup recovered)

-----------------------------------------------------------------------------
Init ==
    /\ \E call \in Calls : entries = call.entries /\ config = call.config
    /\ ctx \in {Live} \cup Endings
    /\ pc = "start" /\ entry = 1 /\ order = 0
    /\ counts = ZeroCounts
    /\ stop = "None"
    /\ records = <<>> /\ failures = <<>> /\ causes = <<>>
    /\ evaluatedThrough = 0
    /\ groups = [k \in 1 .. Len(entries) |-> NoGroup]
    /\ pending = <<>> /\ observer = config.observer
    /\ diagnostics = <<>> /\ delivered = <<>>
    /\ cond = [i \in Rules |-> "uncalled"]
    /\ act = [i \in Rules |-> "uncalled"]
    /\ late = FALSE

(* execute: the started event shows every rule as not evaluated. *)
Start ==
    /\ At("start")
    /\ Emit(<<SummaryEvent("execution-started",
                           [counts EXCEPT !["NotEvaluated"] = Total], stop)>>)
    /\ pc' = "initial"
    /\ UNCHANGED <<setup, ctx, entry, order, ledger, history>>

PassInitialCheck ==
    /\ At("initial") /\ ~Done
    /\ pc' = "entry"
    /\ UNCHANGED <<setup, ctx, entry, order, ledger, observation, history>>

(* contextDone returning true at any of the boundaries where it is asked:  *)
(* before the first entry (line 25), on entering a group (52), before a    *)
(* rule (64), after a condition (98, 110, 125) and after an action (161).  *)
(* A match whose action cannot start any more is recorded as skipped.      *)
Interrupt ==
    /\ Quiet /\ Done
    /\ \/ pc \in {"initial", "conditionDone", "actionDone"}
       \/ pc = "entry" /\ entry <= Len(entries) /\ InGroup
       \/ pc = "rule" /\ order < Here.end
    /\ causes' = causes \o ContextCauses
    /\ stop' = ContextStop
    /\ IF pc = "conditionDone" /\ cond[order] = "true"
       THEN /\ Record("Skipped")
            /\ Increment({"Matched", "Skipped"})
       ELSE UNCHANGED <<records, counts>>
    /\ pc' = IF pc = "initial" THEN "finish" ELSE "stop"
    /\ UNCHANGED <<setup, ctx, entry, order, failures, evaluatedThrough,
                   groups, observation, history>>

EnterRules ==
    /\ At("entry") /\ entry <= Len(entries) /\ ~InGroup
    /\ order' = Here.start
    /\ pc' = "rule"
    /\ UNCHANGED <<setup, ctx, entry, ledger, observation, history>>

(* The first member of a group runs without a second look at the context.  *)
EnterGroup ==
    /\ At("entry") /\ entry <= Len(entries) /\ InGroup /\ ~Done
    /\ groups' = [groups EXCEPT ![entry] =
                    [NoGroup EXCEPT !.state = "Interrupted", !.skippedFrom = Here.end]]
    /\ order' = Here.start
    /\ pc' = IF Here.start < Here.end THEN "condition" ELSE "rule"
    /\ UNCHANGED <<setup, ctx, entry, counts, stop, records, failures, causes,
                   evaluatedThrough, observation, history>>

NextRule ==
    /\ At("rule") /\ order < Here.end /\ ~Done
    /\ pc' = "condition"
    /\ UNCHANGED <<setup, ctx, entry, order, ledger, observation, history>>

BeginCondition_FrontierBehind ==
    /\ At("condition")
    /\ evaluatedThrough' = order
    /\ Increment({"Evaluated"})
    /\ pc' = "inCondition"
    /\ UNCHANGED <<setup, ctx, entry, order, stop, records, failures, causes,
                   groups, observation, history>>

BeginCondition ==
    /\ At("condition")
    /\ evaluatedThrough' = order + 1
    /\ Increment({"Evaluated"})
    /\ pc' = "inCondition"
    /\ UNCHANGED <<setup, ctx, entry, order, stop, records, failures, causes,
                   groups, observation, history>>

-----------------------------------------------------------------------------
(* callCondition returns. *)
ConditionReturns(outcome) ==
    /\ At("inCondition")
    /\ cond' = [cond EXCEPT ![order] = outcome]
    /\ late' = (late \/ Done)
    /\ UNCHANGED <<setup, ctx, entry, order, evaluatedThrough, act>>

ConditionFalse ==
    /\ ConditionReturns("false")
    /\ Increment({"Unmatched"})
    /\ Emit(<<RuleEvent("evaluated", "false")>>)
    /\ pc' = "conditionDone"
    /\ UNCHANGED <<stop, records, failures, causes, groups>>

ConditionTrue ==
    LET selects == Here.kind = "first-match"
        group == Resolved(groups[entry])
    IN  /\ ConditionReturns("true")
        /\ groups' = IF selects THEN [groups EXCEPT ![entry] = group] ELSE groups
        /\ Emit(<<RuleEvent("evaluated", "true"), RuleEvent("matched", "true")>>
                \o IF selects THEN <<GroupEvent("group-resolved", group)>> ELSE <<>>)
        /\ pc' = "conditionDone"
        /\ UNCHANGED <<counts, stop, records, failures, causes>>

ConditionError ==
    /\ ConditionReturns("error")
    /\ Fail("condition", "error", config.conditionErrors = "ContinueOnError")
    /\ Emit(<<RuleEvent("evaluated", "error"), RuleEvent("failed", "error")>>)
    /\ pc' = "conditionDone"
    /\ UNCHANGED <<stop, groups>>

ConditionPanic ==
    /\ ConditionReturns("panic")
    /\ config.panic = "RecoverPanics"
    /\ Fail("condition", "panic", FALSE)
    /\ stop' = "Panic"
    /\ Emit(<<RuleEvent("evaluated", "error"), RuleEvent("failed", "error")>>)
    /\ pc' = "panicked"
    /\ UNCHANGED groups

(* A propagated panic leaves Fire without a Result. *)
ConditionUnwinds ==
    /\ ConditionReturns("panic")
    /\ config.panic = "PropagatePanics"
    /\ pc' = "unwound"
    /\ UNCHANGED <<counts, stop, records, failures, causes, groups, observation>>

AfterPanic_ContextWins ==
    /\ At("panicked")
    /\ causes' = causes \o ContextCauses
    /\ stop' = IF Done THEN ContextStop ELSE stop
    /\ pc' = "stop"
    /\ UNCHANGED <<setup, ctx, entry, order, counts, records, failures,
                   evaluatedThrough, groups, observation, history>>
AfterPanic_ContextLost ==
    /\ At("panicked")
    /\ pc' = "stop"
    /\ UNCHANGED <<setup, ctx, entry, order, ledger, observation, history>>

AfterPanic ==
    /\ At("panicked")
    /\ causes' = causes \o ContextCauses
    /\ pc' = "stop"
    /\ UNCHANGED <<setup, ctx, entry, order, counts, stop, records, failures,
                   evaluatedThrough, groups, observation, history>>

Decide ==
    /\ \/ /\ cond[order] = "error" /\ config.conditionErrors = "StopOnError"
          /\ stop' = "ConditionError" /\ pc' = "stop" /\ UNCHANGED order
       \/ /\ \/ cond[order] = "false"
             \/ cond[order] = "error" /\ config.conditionErrors = "ContinueOnError"
          /\ order' = order + 1 /\ pc' = "rule" /\ UNCHANGED stop
       \/ /\ cond[order] = "true"
          /\ pc' = "action" /\ UNCHANGED <<stop, order>>
    /\ UNCHANGED <<setup, ctx, entry, counts, records, failures, causes,
                   evaluatedThrough, groups, observation, history>>

AfterCondition_Unchecked == At("conditionDone") /\ Decide
AfterCondition == At("conditionDone") /\ ~Done /\ Decide

-----------------------------------------------------------------------------
(* callAction returns. *)
ActionReturns(outcome) ==
    /\ At("action")
    /\ act' = [act EXCEPT ![order] = outcome]
    /\ late' = (late \/ Done)
    /\ UNCHANGED <<setup, ctx, entry, order, evaluatedThrough, cond>>

ActionOk ==
    LET selects == Here.kind = "first-fire"
        group == Resolved(groups[entry])
    IN  /\ ActionReturns("ok")
        /\ Record("Fired")
        /\ Increment({"Matched", "Fired"})
        /\ groups' = IF selects THEN [groups EXCEPT ![entry] = group] ELSE groups
        /\ Emit(<<RuleEvent("fired", "not-evaluated")>>
                \o IF selects THEN <<GroupEvent("group-resolved", group)>> ELSE <<>>)
        /\ pc' = "actionDone"
        /\ UNCHANGED <<stop, failures, causes>>

ActionError ==
    /\ ActionReturns("error")
    /\ Fail("action", "error", config.actionErrors = "ContinueOnError")
    /\ Emit(<<RuleEvent("failed", "not-evaluated")>>)
    /\ pc' = "actionDone"
    /\ UNCHANGED <<stop, groups>>

ActionPanic ==
    /\ ActionReturns("panic")
    /\ config.panic = "RecoverPanics"
    /\ Fail("action", "panic", FALSE)
    /\ stop' = "Panic"
    /\ Emit(<<RuleEvent("failed", "not-evaluated")>>)
    /\ pc' = "panicked"
    /\ UNCHANGED groups

ActionUnwinds ==
    /\ ActionReturns("panic")
    /\ config.panic = "PropagatePanics"
    /\ pc' = "unwound"
    /\ UNCHANGED <<counts, stop, records, failures, causes, groups, observation>>

(* The order of the code's tests is the precedence of the stop reasons. *)
PolicyStop_AnyAction ==
    IF act[order] = "error" /\ config.actionErrors = "StopOnError" THEN "ActionError"
    ELSE IF config.stop = "StopOnFirstMatch" THEN "FirstMatch"
    ELSE IF config.stop = "StopOnFirstFire" THEN "FirstFire"
    ELSE "None"

PolicyStop ==
    IF act[order] = "error" /\ config.actionErrors = "StopOnError" THEN "ActionError"
    ELSE IF config.stop = "StopOnFirstMatch" THEN "FirstMatch"
    ELSE IF act[order] = "ok" /\ config.stop = "StopOnFirstFire" THEN "FirstFire"
    ELSE "None"

AfterAction ==
    /\ At("actionDone") /\ ~Done
    /\ stop' = PolicyStop
    /\ \/ /\ PolicyStop # "None"
          /\ pc' = "stop" /\ UNCHANGED <<order, groups>>
       \/ /\ PolicyStop = "None" /\ InGroup /\ groups[entry].state = "Resolved"
          /\ groups' = [groups EXCEPT ![entry].skippedFrom = order + 1]
          /\ pc' = "advance" /\ UNCHANGED order
       \/ /\ PolicyStop = "None" /\ ~(InGroup /\ groups[entry].state = "Resolved")
          /\ order' = order + 1 /\ pc' = "rule" /\ UNCHANGED groups
    /\ UNCHANGED <<setup, ctx, entry, counts, records, failures, causes,
                   evaluatedThrough, observation, history>>

-----------------------------------------------------------------------------
(* executeRules runs out of rules: the group, if any, is exhausted. *)
Exhaust ==
    /\ At("rule") /\ order = Here.end
    /\ groups' = IF InGroup THEN [groups EXCEPT ![entry].state = "Exhausted"] ELSE groups
    /\ pc' = "advance"
    /\ UNCHANGED <<setup, ctx, entry, order, counts, stop, records, failures,
                   causes, evaluatedThrough, observation, history>>

(* finishGroup's record: how the current group ended. *)
Ended(g) ==
    IF pc = "stop" THEN [g EXCEPT !.endReason = "ExecutionStopped", !.stop = stop]
    ELSE IF g.state = "Resolved" THEN [g EXCEPT !.endReason = "Resolved"]
    ELSE [g EXCEPT !.endReason = "Exhausted"]

Leave ==
    /\ Quiet /\ pc \in {"advance", "stop"}
    /\ IF InGroup /\ groups[entry].state # "NotEntered"
       THEN /\ groups' = [groups EXCEPT ![entry] = Ended(@)]
            /\ Emit(<<GroupEvent("group-finished", Ended(groups[entry]))>>)
       ELSE UNCHANGED <<groups, observation>>
    /\ \/ pc = "stop" /\ pc' = "finish" /\ UNCHANGED entry
       \/ pc = "advance" /\ pc' = "entry" /\ entry' = entry + 1
    /\ UNCHANGED <<setup, ctx, order, counts, stop, records, failures, causes,
                   evaluatedThrough, history>>

Complete ==
    /\ At("entry") /\ entry > Len(entries)
    /\ stop' = "Completed"
    /\ pc' = "finish"
    /\ UNCHANGED <<setup, ctx, entry, order, counts, records, failures, causes,
                   evaluatedThrough, groups, observation, history>>

Finish_Swapped ==
    /\ At("finish")
    /\ counts' = [counts EXCEPT !["NotEvaluated"] = counts["Evaluated"] - Total]
    /\ Emit(<<SummaryEvent("execution-finished", counts', stop)>>)
    /\ pc' = "done"
    /\ UNCHANGED <<setup, ctx, entry, order, stop, records, failures, causes,
                   evaluatedThrough, groups, history>>

Finish ==
    /\ At("finish")
    /\ counts' = [counts EXCEPT !["NotEvaluated"] = Total - counts["Evaluated"]]
    /\ Emit(<<SummaryEvent("execution-finished", counts', stop)>>)
    /\ pc' = "done"
    /\ UNCHANGED <<setup, ctx, entry, order, stop, records, failures, causes,
                   evaluatedThrough, groups, history>>

-----------------------------------------------------------------------------
(* callObserver: an error or recovered panic is one diagnostic and the end *)
(* of observation for this call.                                           *)
Deliver ==
    /\ ~Quiet
    /\ pending' = Tail(pending)
    /\ delivered' = Append(delivered, Head(pending))
    /\ UNCHANGED <<setup, ctx, control, ledger, observer, diagnostics, history>>

ObserverFails_KeepsBatch(cause) ==
    /\ ~Quiet
    /\ cause = "panic" => config.panic = "RecoverPanics"
    /\ pending' = Tail(pending)
    /\ observer' = FALSE
    /\ delivered' = Append(delivered, Head(pending))
    /\ diagnostics' = Append(diagnostics, [event |-> Head(pending), cause |-> cause])
    /\ UNCHANGED <<setup, ctx, control, ledger, history>>

ObserverFails(cause) ==
    /\ ~Quiet
    /\ cause = "panic" => config.panic = "RecoverPanics"
    /\ pending' = <<>>
    /\ observer' = FALSE
    /\ delivered' = Append(delivered, Head(pending))
    /\ diagnostics' = Append(diagnostics, [event |-> Head(pending), cause |-> cause])
    /\ UNCHANGED <<setup, ctx, control, ledger, history>>

ObserverUnwinds ==
    /\ ~Quiet /\ config.panic = "PropagatePanics"
    /\ pending' = <<>>
    /\ delivered' = Append(delivered, Head(pending))
    /\ pc' = "unwound"
    /\ UNCHANGED <<setup, ctx, entry, order, ledger, observer, diagnostics, history>>

(* The caller cancels, or its deadline passes, at any moment of the call.  *)
ContextEnds ==
    /\ ~Done /\ pc # "unwound" /\ ~(pc = "done" /\ Quiet)
    /\ ctx' \in Endings
    /\ UNCHANGED <<setup, control, ledger, observation, history>>

Returned == pc = "done" /\ Quiet

Terminated == (Returned \/ pc = "unwound") /\ UNCHANGED vars

(* The engine's own steps, and the observer's. *)
Work ==
    \/ Start \/ PassInitialCheck \/ Interrupt
    \/ EnterRules \/ EnterGroup \/ NextRule \/ BeginCondition
    \/ ConditionFalse \/ ConditionTrue \/ ConditionError
    \/ ConditionPanic \/ ConditionUnwinds
    \/ AfterPanic \/ AfterCondition
    \/ ActionOk \/ ActionError \/ ActionPanic \/ ActionUnwinds
    \/ AfterAction \/ Exhaust \/ Leave \/ Complete \/ Finish

Observe ==
    \/ Deliver \/ ObserverUnwinds
    \/ \E cause \in {"error", "panic"} : ObserverFails(cause)

Step == Work \/ Observe

Next == Step \/ ContextEnds \/ Terminated

Spec == Init /\ [][Next]_vars
-----------------------------------------------------------------------------
PCs == {"start", "initial", "entry", "rule", "condition", "inCondition",
        "conditionDone", "action", "actionDone", "panicked", "advance",
        "stop", "finish", "done", "unwound"}
ContextStops == {"ContextCanceled", "ContextDeadlineExceeded"}
Stops == {"None", "Completed", "FirstMatch", "FirstFire", "ConditionError",
          "ActionError", "Panic"} \cup ContextStops
CountSpace == [CountFields -> Nat]
RecordSpace ==
    [order : Nat, state : {"Fired", "Failed", "Skipped"}, failure : Nat]
CauseSpace ==
    [order : Nat \cup {NoRule}, phase : {"condition", "action", "context"},
     cause : {"error", "panic", "canceled", "deadline", "cause"},
     continued : BOOLEAN]
GroupSpace ==
    [state : {"NotEntered", "Interrupted", "Resolved", "Exhausted"},
     endReason : {"None", "Resolved", "Exhausted", "ExecutionStopped"},
     stop : Stops, selected : Nat \cup {NoRule}, skippedFrom : Nat]
EventSpace ==
    [kind : {"evaluated", "matched", "fired", "failed"}, order : Nat,
     outcome : {"false", "true", "error", "not-evaluated"}]
    \cup [kind : {"execution-started", "execution-finished"},
          counts : CountSpace, stop : Stops]
    \cup [kind : {"group-resolved", "group-finished"}, entry : Nat,
          view : GroupSpace]
DiagnosticSpace == [event : EventSpace, cause : {"error", "panic"}]

(* Every variable has the shape the code gives it. *)
TypeOK ==
    /\ entries \in Layouts /\ config \in Configs
    /\ ctx \in {Live} \cup Endings
    /\ pc \in PCs /\ entry \in Nat /\ order \in Nat
    /\ counts \in CountSpace /\ stop \in Stops
    /\ records \in Seq(RecordSpace)
    /\ failures \in Seq(CauseSpace) /\ causes \in Seq(CauseSpace)
    /\ evaluatedThrough \in Nat
    /\ groups \in [1 .. Len(entries) -> GroupSpace]
    /\ pending \in Seq(EventSpace) /\ delivered \in Seq(EventSpace)
    /\ diagnostics \in Seq(DiagnosticSpace)
    /\ observer \in BOOLEAN /\ late \in BOOLEAN
    /\ cond \in [Rules -> {"uncalled", "false", "true", "error", "panic"}]
    /\ act \in [Rules -> {"uncalled", "ok", "error", "panic"}]

(* Where the cursor stands.  evaluatedThrough is the frontier of the rules *)
(* whose conditions were started; everything behind entry is behind it.    *)
Visiting == {"inCondition", "conditionDone", "action", "actionDone", "panicked"}
AtRule == {"rule", "condition"} \cup Visiting

Position ==
    /\ pc \in {"start", "initial"} => entry = 1 /\ evaluatedThrough = 0
    /\ pc = "entry" =>
         /\ entry \in 1 .. Len(entries) + 1
         /\ evaluatedThrough <= IF entry <= Len(entries) THEN Here.start ELSE Total
    /\ pc \in AtRule \cup {"advance", "stop"} => entry \in 1 .. Len(entries)
    /\ pc \in AtRule => Here.start <= order /\ order <= Here.end
    /\ pc \in {"rule", "condition"} => evaluatedThrough <= order
    /\ pc \in {"condition"} \cup Visiting => order < Here.end
    /\ pc \in Visiting => evaluatedThrough = order + 1
    /\ pc \in {"advance", "stop"} => evaluatedThrough <= Here.end
    /\ evaluatedThrough <= Total

(* A match whose rule has not been recorded yet. *)
Matching == pc = "action" \/ (pc = "conditionDone" /\ cond[order] = "true")
InFlight == IF pc = "inCondition" \/ Matching THEN 1 ELSE 0

(* The records stay sorted by order, which ruleAt's binary search relies   *)
(* on, and never reach past the frontier.                                  *)
RecordsSorted ==
    /\ \A j, k \in 1 .. Len(records) : j < k => records[j].order < records[k].order
    /\ \A k \in 1 .. Len(records) :
         /\ records[k].order < evaluatedThrough
         /\ pc = "inCondition" \/ Matching => records[k].order < order

(* Counts partitions the rules (result.go:5-8).  While the call runs, the  *)
(* rule in flight is the only one not yet accounted for.                   *)
CountsPartition ==
    pc # "unwound" =>
      /\ counts["Evaluated"] = counts["Unmatched"] + counts["Fired"] + counts["Skipped"]
                               + counts["Failed"] + InFlight
      /\ counts["Failed"] = counts["ConditionFailed"] + counts["ActionFailed"]
      /\ counts["Matched"] = counts["Fired"] + counts["Skipped"] + counts["ActionFailed"]
      /\ counts["PanicRecovered"] <= counts["Failed"]
      /\ counts["Evaluated"] <= evaluatedThrough
      /\ pc = "done" => counts["NotEvaluated"] + counts["Evaluated"] = Total

(* The ledger is right at every step, not only when Fire returns: the      *)
(* cursor is inside its entry, the records are sorted and the counts       *)
(* account for every rule whose condition was started.                     *)
LedgerInv == Position /\ RecordsSorted /\ CountsPartition

(* A group never selects twice, even while the call is still running: at   *)
(* most one member of a first-match group matches, at most one of a        *)
(* first-fire group fires, and no later member of the group is evaluated.  *)
Members(k) == entries[k].start .. entries[k].end - 1
Selects(k, o) ==
    \/ entries[k].kind = "first-match" /\ cond[o] = "true"
    \/ entries[k].kind = "first-fire" /\ act[o] = "ok"
OneSelection ==
    \A k \in 1 .. Len(entries) : \A o, p \in Members(k) :
        Selects(k, o) /\ o < p => cond[p] = "uncalled"

(* Once a callback has returned to an ended context, no other callback of  *)
(* this call is started (engine.go:78-81).                                 *)
EndIsFinal == [][late => UNCHANGED <<cond, act>>]_vars
=============================================================================
