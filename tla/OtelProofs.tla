----------------------------- MODULE OtelProofs -----------------------------
(***************************************************************************)
(* Theorems about OtelAdapter for every adapter configuration, execution,  *)
(* context end and provider panic: the adapter's call is a call of the     *)
(* core, its span is ended exactly once, and what the trace and the        *)
(* metrics tell is what happened.                                          *)
(***************************************************************************)
EXTENDS OtelAdapter, ExecutionProofs

BracketKinds == {"execution-started", "execution-finished"}

(* Where the events that bracket an execution can stand: each is queued    *)
(* alone, the first while the context has its first check ahead, the last  *)
(* when the call is over.                                                  *)
Bracketed ==
    \A k \in 1 .. Len(pending) :
        /\ pending[k].kind = "execution-started" <=> pc = "initial"
        /\ pending[k].kind = "execution-finished" => pc = "done"
        /\ pending[k].kind \in BracketKinds => Len(pending) = 1

(* The observer's step belongs to the event that it was handed. *)
StepFits ==
    step # "idle" =>
      /\ ~Quiet
      /\ step \in {"start", "describe"} => Event.kind = "execution-started"
      /\ step = "record" => Event.kind \in RuleEventKinds
      /\ step \in {"duration", "attributes", "end"} => Event.kind = "execution-finished"
      /\ step \in {"start", "describe", "record", "duration", "attributes", "end"}

(* An observer that outlives the first event has a span. *)
SpanStarted ==
    /\ observer /\ pc \notin {"start", "unwound"} /\ ~(pc = "initial" /\ ~Quiet)
          => span # NoSpan
    /\ step = "describe" => span # NoSpan
    /\ ~Quiet => observer

(* closed says whether End was called, and End is the last thing. *)
Closing ==
    /\ closed \in BOOLEAN
    /\ ends = IF closed THEN 1 ELSE 0
    /\ closed => span # NoSpan /\ Quiet /\ pc \in {"done", "unwound"}
    /\ pc = "unwound" => Quiet
    /\ left => Quiet /\ pc \in {"done", "unwound"} /\ (closed <=> span # NoSpan)

SpanInv == Bracketed /\ StepFits /\ SpanStarted /\ Closing

-----------------------------------------------------------------------------
(* The adapter's call is a call of the core. *)

LEMMA FireStepIsStep == [FireNext]_fireVars => [Next]_vars
<1> SUFFICES ASSUME [FireNext]_fireVars PROVE [Next]_vars
  OBVIOUS
<1>1. CASE CoreStep
  BY <1>1 DEF CoreStep, Next, Step
<1>2. CASE ObserverStep
  <2>1. ObserverStep => Observe \/ UNCHANGED vars
    BY DEF ObserverStep, ReadClock, StartSpan, DescribeSpan, CountRuleEvent,
           RecordRuleEvent, IgnoreGroupEvent, AddCounter, RecordDuration,
           SetAttributes, EndSpan, ProviderPanics, Moves, Handled, Verdict, Observe
  <2>. QED
    BY <1>2, <2>1 DEF Next, Step
<1>3. CASE Cleanup
  BY <1>3 DEF Cleanup
<1>4. CASE UNCHANGED fireVars
  BY <1>4 DEF fireVars
<1>. QED
  BY <1>1, <1>2, <1>3, <1>4 DEF FireNext, FireDone

(* Adapter.Fire is one Engine.Fire with the adapter's observer, whatever   *)
(* the tracer and the meter do (otel/adapter.go:126-139): every behaviour  *)
(* of the adapter's call is a behaviour of Execution, so all that the      *)
(* other theorems say of a call of the core holds of the adapter's, too.   *)
THEOREM FireIsExecution == FireSpec => Spec
<1>1. FireInit => Init
  BY DEF FireInit
<1>. QED
  BY <1>1, FireStepIsStep, PTL DEF FireSpec, Spec

-----------------------------------------------------------------------------
(* The span is ended once. *)

LEMMA EmitEffect ==
    ASSUME NEW events, Emit(events)
    PROVE  /\ observer' = observer
           /\ ~observer => pending' = <<>>
           /\ observer => pending' = events
  BY DEF Emit

LEMMA PlainEvents ==
    /\ \A kind \in RuleEventKinds : \A outcome : RuleEvent(kind, outcome).kind \notin BracketKinds
    /\ \A view : GroupEvent("group-resolved", view).kind \notin BracketKinds
    /\ \A view : GroupEvent("group-finished", view).kind \notin BracketKinds
  BY DEF RuleEvent, GroupEvent, RuleEventKinds, BracketKinds

Plain(events) == \A k \in 1 .. Len(events) : events[k].kind \notin BracketKinds

LEMMA PlainSeqs ==
    ASSUME NEW a, NEW b, NEW c,
           a.kind \notin BracketKinds, b.kind \notin BracketKinds, c.kind \notin BracketKinds
    PROVE  /\ Plain(<<>>) /\ Plain(<<a>>) /\ Plain(<<a, b>>)
           /\ Plain(<<a>> \o <<>>) /\ Plain(<<a>> \o <<b>>)
           /\ Plain(<<a, b>> \o <<>>) /\ Plain(<<a, b>> \o <<c>>)
  BY DEF Plain

(* What a step of the engine does to the queue of events. *)
Opens == /\ pc = "start" /\ pc' = "initial" /\ Len(pending') = 1
         /\ pending'[1].kind = "execution-started"
Closes == /\ pc = "finish" /\ pc' = "done" /\ Len(pending') = 1
          /\ pending'[1].kind = "execution-finished"
Adds == pc \notin {"start", "initial"} /\ pc' # "unwound" /\ Plain(pending')

LEMMA WorkQueues ==
    ASSUME Work
    PROVE  /\ Quiet /\ pc \notin {"done", "unwound"} /\ observer' = observer
           /\ pc' # "start" /\ (pc' = "initial" => pc = "start")
           /\ pending' = <<>> \/ (observer /\ (Opens \/ Closes \/ Adds))
<1> USE DEF setup, control, ledger, observation, history, At
<1>1. CASE Start
  <2>1. SummaryEvent("execution-started",
                     [counts EXCEPT !["NotEvaluated"] = Total], stop).kind = "execution-started"
    BY DEF SummaryEvent
  <2>. QED
    BY <1>1, <2>1, EmitEffect DEF Start, Opens
<1>2. CASE Finish
  <2>1. SummaryEvent("execution-finished", counts', stop).kind = "execution-finished"
    BY DEF SummaryEvent
  <2>2. /\ At("finish") /\ pc' = "done"
        /\ Emit(<<SummaryEvent("execution-finished", counts', stop)>>)
    BY <1>2, Zenon DEF Finish
  <2>. QED
    BY <2>1, <2>2 DEF Closes, Emit
<1>3. CASE ConditionFalse
  <2>1. At("inCondition") /\ pc' = "conditionDone" /\ Emit(<<RuleEvent("evaluated", "false")>>)
    BY <1>3, Zenon DEF ConditionFalse, ConditionReturns
  <2>2. RuleEvent("evaluated", "false").kind \notin BracketKinds
    BY PlainEvents DEF RuleEventKinds
  <2>3. Plain(<<RuleEvent("evaluated", "false")>>)
    BY <2>2, PlainSeqs
  <2>. QED
    BY <2>1, <2>3 DEF Emit, Adds
<1>4. CASE ConditionTrue
  <2> DEFINE rule == <<RuleEvent("evaluated", "true"), RuleEvent("matched", "true")>>
             group == GroupEvent("group-resolved", Resolved(groups[entry]))
  <2>1. Plain(rule \o <<>>) /\ Plain(rule \o <<group>>)
    <3>1. /\ RuleEvent("evaluated", "true").kind \notin BracketKinds
          /\ RuleEvent("matched", "true").kind \notin BracketKinds
          /\ group.kind \notin BracketKinds
      BY PlainEvents DEF RuleEventKinds
    <3>. QED
      BY <3>1, PlainSeqs
  <2>2. /\ Emit(rule \o IF Here.kind = "first-match" THEN <<group>> ELSE <<>>)
        /\ At("inCondition") /\ pc' = "conditionDone"
    BY <1>4 DEF ConditionTrue, ConditionReturns
  <2>. HIDE DEF rule, group
  <2>3. CASE Here.kind = "first-match"
    BY <2>1, <2>2, <2>3 DEF Emit, Adds
  <2>4. CASE Here.kind # "first-match"
    BY <2>1, <2>2, <2>4 DEF Emit, Adds
  <2>. QED
    BY <2>3, <2>4
<1>5. CASE ConditionError
  <2>1. At("inCondition") /\ pc' = "conditionDone" /\ Emit(<<RuleEvent("evaluated", "error"), RuleEvent("failed", "error")>>)
    BY <1>5, Zenon DEF ConditionError, ConditionReturns
  <2>2. /\ RuleEvent("evaluated", "error").kind \notin BracketKinds
        /\ RuleEvent("failed", "error").kind \notin BracketKinds
    BY PlainEvents DEF RuleEventKinds
  <2>3. Plain(<<RuleEvent("evaluated", "error"), RuleEvent("failed", "error")>>)
    BY <2>2, PlainSeqs
  <2>. QED
    BY <2>1, <2>3 DEF Emit, Adds
<1>6. CASE ConditionPanic
  <2>1. At("inCondition") /\ pc' = "panicked" /\ Emit(<<RuleEvent("evaluated", "error"), RuleEvent("failed", "error")>>)
    BY <1>6, Zenon DEF ConditionPanic, ConditionReturns
  <2>2. /\ RuleEvent("evaluated", "error").kind \notin BracketKinds
        /\ RuleEvent("failed", "error").kind \notin BracketKinds
    BY PlainEvents DEF RuleEventKinds
  <2>3. Plain(<<RuleEvent("evaluated", "error"), RuleEvent("failed", "error")>>)
    BY <2>2, PlainSeqs
  <2>. QED
    BY <2>1, <2>3 DEF Emit, Adds
<1>7. CASE ActionOk
  <2> DEFINE rule == <<RuleEvent("fired", "not-evaluated")>>
             group == GroupEvent("group-resolved", Resolved(groups[entry]))
  <2>1. Plain(rule \o <<>>) /\ Plain(rule \o <<group>>)
    <3>1. /\ RuleEvent("fired", "not-evaluated").kind \notin BracketKinds
          /\ group.kind \notin BracketKinds
      BY PlainEvents DEF RuleEventKinds
    <3>. QED
      BY <3>1, PlainSeqs
  <2>2. /\ Emit(rule \o IF Here.kind = "first-fire" THEN <<group>> ELSE <<>>)
        /\ At("action") /\ pc' = "actionDone"
    BY <1>7 DEF ActionOk, ActionReturns
  <2>. HIDE DEF rule, group
  <2>3. CASE Here.kind = "first-fire"
    BY <2>1, <2>2, <2>3 DEF Emit, Adds
  <2>4. CASE Here.kind # "first-fire"
    BY <2>1, <2>2, <2>4 DEF Emit, Adds
  <2>. QED
    BY <2>3, <2>4
<1>8. CASE ActionError
  <2>1. At("action") /\ pc' = "actionDone" /\ Emit(<<RuleEvent("failed", "not-evaluated")>>)
    BY <1>8, Zenon DEF ActionError, ActionReturns
  <2>2. RuleEvent("failed", "not-evaluated").kind \notin BracketKinds
    BY PlainEvents DEF RuleEventKinds
  <2>3. Plain(<<RuleEvent("failed", "not-evaluated")>>)
    BY <2>2, PlainSeqs
  <2>. QED
    BY <2>1, <2>3 DEF Emit, Adds
<1>9. CASE ActionPanic
  <2>1. At("action") /\ pc' = "panicked" /\ Emit(<<RuleEvent("failed", "not-evaluated")>>)
    BY <1>9, Zenon DEF ActionPanic, ActionReturns
  <2>2. RuleEvent("failed", "not-evaluated").kind \notin BracketKinds
    BY PlainEvents DEF RuleEventKinds
  <2>3. Plain(<<RuleEvent("failed", "not-evaluated")>>)
    BY <2>2, PlainSeqs
  <2>. QED
    BY <2>1, <2>3 DEF Emit, Adds
<1>10. CASE Leave
  <2>1. GroupEvent("group-finished", Ended(groups[entry])).kind \notin BracketKinds
    BY PlainEvents
  <2>2. Plain(<<GroupEvent("group-finished", Ended(groups[entry]))>>)
    BY <2>1, PlainSeqs
  <2>. QED
    BY <1>10, <2>2, EmitEffect DEF Leave, Adds, Quiet
<1>11. CASE \/ PassInitialCheck \/ EnterRules \/ EnterGroup \/ NextRule \/ BeginCondition
            \/ AfterCondition \/ AfterAction \/ Exhaust \/ Complete \/ AfterPanic
            \/ Interrupt \/ ConditionUnwinds \/ ActionUnwinds
  BY <1>11 DEF PassInitialCheck, EnterRules, EnterGroup, NextRule, BeginCondition,
        AfterCondition, Decide, AfterAction, Exhaust, Complete, AfterPanic, Interrupt,
        ConditionUnwinds, ActionUnwinds, ConditionReturns, ActionReturns, Quiet
<1>. QED
  BY <1>1, <1>2, <1>3, <1>4, <1>5, <1>6, <1>7, <1>8, <1>9, <1>10, <1>11 DEF Work

LEMMA NoElements ==
    ASSUME NEW S, NEW s \in Seq(S), Len(s) = 0
    PROVE  s = <<>>
  OBVIOUS

LEMMA QueueFacts ==
    ASSUME TypeOK
    PROVE  /\ Len(pending) \in Nat
           /\ ~Quiet => /\ 1 \in 1 .. Len(pending) /\ Event = pending[1]
                        /\ Len(Tail(pending)) = Len(pending) - 1
                        /\ \A k \in 1 .. Len(Tail(pending)) :
                              /\ k + 1 \in 1 .. Len(pending) /\ k + 1 # 1
                              /\ Tail(pending)[k] = pending[k + 1]
<1>1. pending \in Seq(EventSpace)
  BY DEF TypeOK
<1>. QED
  BY <1>1 DEF Quiet, Event

LEMMA SpanInit == FireInit => SpanInv
<1> SUFFICES ASSUME FireInit PROVE SpanInv
  OBVIOUS
<1>1. /\ pending = <<>> /\ pc = "start" /\ step = "idle"
      /\ closed \in BOOLEAN /\ ~closed /\ ends = 0 /\ ~left
  BY DEF FireInit, Init
<1>2. Len(pending) = 0 /\ Quiet
  BY <1>1 DEF Quiet
<1>3. Bracketed /\ SpanStarted
  BY <1>1, <1>2 DEF Bracketed, SpanStarted
<1>4. StepFits /\ Closing
  BY <1>1, <1>2 DEF StepFits, Closing
<1>. QED
  BY <1>3, <1>4 DEF SpanInv

(* The engine's steps and the end of the context. *)
LEMMA CoreSpan ==
    ASSUME TypeOK, SpanInv, CoreStep
    PROVE  SpanInv'
<1> USE DEF SpanInv, Bracketed, StepFits, SpanStarted, Closing
<1>0. UNCHANGED telemetry
  BY DEF CoreStep
<1>1. UNCHANGED <<step, span, closed, ends, left>>
  BY <1>0, Zenon DEF telemetry, spanState
<1>2. CASE Work
  <2>1. /\ Quiet /\ pc \notin {"done", "unwound"} /\ observer' = observer
        /\ pc' # "start" /\ (pc' = "initial" => pc = "start")
        /\ pending' = <<>> \/ (observer /\ (Opens \/ Closes \/ Adds))
    BY <1>2, WorkQueues
  <2>2. step = "idle" /\ ~closed /\ ~left
    BY <2>1
  <2>3. CASE pending' = <<>>
    <3>1. Len(pending') = 0 /\ Quiet'
      BY <2>3 DEF Quiet
    <3>2. observer' /\ pc' \notin {"start", "unwound"} /\ ~(pc' = "initial" /\ ~Quiet')
             => span' # NoSpan
      (* The started event is skipped only for want of an observer. *)
      <4>1. pc = "start" /\ observer => pending' # <<>>
        BY <1>2, <2>1 DEF Work, Start, At, Emit, PassInitialCheck, Interrupt,
           EnterRules, EnterGroup, NextRule, BeginCondition, ConditionFalse, ConditionTrue,
           ConditionError, ConditionPanic, ConditionUnwinds, ConditionReturns, AfterPanic,
           AfterCondition, ActionOk, ActionError, ActionPanic, ActionUnwinds, ActionReturns,
           AfterAction, Exhaust, Leave, Complete, Finish
      <4>. QED
        BY <4>1, <1>1, <2>1, <2>3
    <3>. QED
      BY <3>1, <3>2, <1>1, <2>2
  <2>4. CASE observer /\ (Opens \/ Closes \/ Adds)
    <3>1. Bracketed'
      <4>1. CASE Opens
        BY <4>1 DEF Opens
      <4>2. CASE Closes
        BY <4>2 DEF Closes
      <4>3. CASE Adds
        BY <2>1, <4>3 DEF Adds, Plain, BracketKinds
      <4>. QED
        BY <2>4, <4>1, <4>2, <4>3
    <3>2. StepFits' /\ Closing'
      BY <1>1, <2>2, <2>4 DEF Opens, Closes, Adds
    <3>3. SpanStarted'
      BY <1>1, <2>1, <2>2, <2>4 DEF Opens, Closes, Adds, Quiet
    <3>. QED
      BY <3>1, <3>2, <3>3
  <2>. QED
    BY <2>1, <2>3, <2>4
<1>3. CASE ContextEnds
  <2>1. UNCHANGED <<pending, pc, observer>>
    BY <1>3 DEF ContextEnds, control, observation
  <2>. QED
    BY <2>1, <1>1 DEF Quiet, Event
<1>. QED
  BY <1>2, <1>3 DEF CoreStep

(* A provider call that leaves the event with the observer. *)
LEMMA StaySpan ==
    ASSUME TypeOK, SpanInv,
           ReadClock \/ StartSpan \/ CountRuleEvent \/ AddCounter
              \/ RecordDuration \/ SetAttributes
    PROVE  SpanInv'
<1> USE DEF Observing, Moves
<1>1. ~Quiet /\ UNCHANGED vars /\ left' = left /\ ~closed /\ ~left
  BY DEF ReadClock, StartSpan, CountRuleEvent, AddCounter, RecordDuration, SetAttributes,
         SpanInv, Closing
<1>2. UNCHANGED <<pending, pc, observer>>
  BY <1>1, Zenon DEF vars, control, observation
<1>3. closed' = closed /\ ends' = ends
  BY DEF ReadClock, StartSpan, CountRuleEvent, AddCounter, RecordDuration, SetAttributes,
         spanState
<1>4. span' # NoSpan \/ (span' = span /\ step' # "describe")
  BY DEF ReadClock, StartSpan, CountRuleEvent, AddCounter, RecordDuration, SetAttributes,
         spanState, NoSpan
<1>5. /\ step' # "idle" =>
           /\ step' \in {"start", "describe"} => Event.kind = "execution-started"
           /\ step' = "record" => Event.kind \in RuleEventKinds
           /\ step' \in {"duration", "attributes", "end"} => Event.kind = "execution-finished"
           /\ step' \in {"start", "describe", "record", "duration", "attributes", "end"}
  BY DEF ReadClock, StartSpan, CountRuleEvent, AddCounter, RecordDuration, SetAttributes
<1>6. Quiet' = Quiet /\ Event' = Event
  BY <1>2 DEF Quiet, Event
<1>7. Bracketed'
  BY <1>2 DEF SpanInv, Bracketed
<1>8. StepFits'
  BY <1>1, <1>5, <1>6 DEF StepFits
<1>9. SpanStarted'
  BY <1>1, <1>2, <1>4, <1>6 DEF SpanInv, SpanStarted
<1>10. Closing'
  BY <1>1, <1>2, <1>3 DEF SpanInv, Closing
<1>. QED
  BY <1>7, <1>8, <1>9, <1>10 DEF SpanInv

(* The observer returns to the engine. *)
LEMMA HandledSpan ==
    ASSUME TypeOK, SpanInv, DescribeSpan \/ RecordRuleEvent \/ IgnoreGroupEvent
    PROVE  SpanInv'
<1> USE DEF Observing, Handled
<1>1. ~Quiet /\ Deliver /\ left' = left /\ step' = "idle" /\ ~closed /\ ~left
  BY DEF DescribeSpan, RecordRuleEvent, IgnoreGroupEvent, SpanInv, Closing
<1>2. closed' = closed /\ ends' = ends /\ span' = span
  BY DEF DescribeSpan, RecordRuleEvent, IgnoreGroupEvent, spanState
<1>3. pending' = Tail(pending) /\ pc' = pc /\ observer' = observer
  BY <1>1 DEF Deliver, control
<1>4. Bracketed'
  BY <1>1, <1>3, QueueFacts DEF SpanInv, Bracketed, BracketKinds
<1>5. pc = "initial" => span # NoSpan
  <2>1. CASE DescribeSpan
    BY <2>1 DEF DescribeSpan, SpanInv, SpanStarted
  <2>2. CASE RecordRuleEvent \/ IgnoreGroupEvent
    BY <2>2, QueueFacts DEF RecordRuleEvent, IgnoreGroupEvent, SpanInv, Bracketed,
       RuleEventKinds
  <2>. QED
    BY <2>1, <2>2
<1>6. SpanStarted'
  BY <1>1, <1>2, <1>3, <1>5 DEF SpanInv, SpanStarted
<1>7. StepFits' /\ Closing'
  BY <1>1, <1>2, <1>3 DEF SpanInv, StepFits, Closing
<1>. QED
  BY <1>4, <1>6, <1>7 DEF SpanInv

(* End is called, or any provider call panics. *)
LEMMA EndingSpan ==
    ASSUME TypeOK, SpanInv, EndSpan \/ ProviderPanics
    PROVE  SpanInv'
<1>1. /\ ~Quiet /\ ~closed /\ ~left /\ left' = left /\ span' = span /\ step' = "idle"
      /\ ends = 0 /\ closed \in BOOLEAN
  BY DEF EndSpan, ProviderPanics, Observing, SpanInv, Closing
<1>2. step = "end" => Event.kind = "execution-finished"
  BY DEF SpanInv, StepFits
<1>3. Event.kind = "execution-finished" => pc = "done" /\ Len(pending) = 1 /\ span # NoSpan
  <2>1. Event.kind = "execution-finished" => pc = "done" /\ Len(pending) = 1
    BY <1>1, QueueFacts DEF SpanInv, Bracketed, BracketKinds
  <2>. QED
    BY <1>1, <2>1 DEF SpanInv, SpanStarted
<1>4. CASE EndSpan
  <2>1. /\ Event.kind = "execution-finished" /\ closed' /\ ends' = 1 /\ closed' \in BOOLEAN
        /\ ObserverFails("error") \/ Deliver
    BY <1>1, <1>4 DEF EndSpan, Observing, Verdict
  <2>2. /\ pending' = <<>> /\ pc' = "done"
    <3>1. pc' = pc
      BY <2>1 DEF ObserverFails, Deliver, control
    <3>2. Tail(pending) = <<>>
      <4>1. pending \in Seq(EventSpace) /\ Len(pending) = 1 /\ pending # <<>>
        BY <1>1, <1>3, <2>1 DEF TypeOK, Quiet
      <4>2. Tail(pending) \in Seq(EventSpace)
        BY <4>1, SeqTyping
      <4>3. Len(Tail(pending)) = 0
        BY <1>1, <4>1, QueueFacts
      <4>. QED
        BY <4>2, <4>3, NoElements
    <3>. QED
      BY <1>3, <2>1, <3>1, <3>2 DEF ObserverFails, Deliver
  <2>3. Len(pending') = 0 /\ Quiet'
    BY <2>2 DEF Quiet
  <2>4. Bracketed' /\ StepFits' /\ SpanStarted'
    BY <1>1, <1>3, <2>1, <2>3 DEF Bracketed, StepFits, SpanStarted, NoSpan
  <2>5. Closing'
    BY <1>1, <1>3, <2>1, <2>2, <2>3 DEF Closing, NoSpan
  <2>. QED
    BY <2>4, <2>5 DEF SpanInv
<1>5. CASE ProviderPanics
  <2>1. /\ pending' = <<>>
        /\ (~observer' /\ pc' = pc) \/ pc' = "unwound"
    BY <1>5 DEF ProviderPanics, ObserverFails, ObserverUnwinds, control
  <2>2. Len(pending') = 0 /\ Quiet'
    BY <2>1 DEF Quiet
  <2>3. /\ closed' \in BOOLEAN /\ (closed' <=> step = "end")
        /\ ends' = IF step = "end" THEN 1 ELSE 0
    <3>1. /\ closed' = (closed \/ step = "end")
          /\ ends' = IF step = "end" THEN ends + 1 ELSE ends
      BY <1>5 DEF ProviderPanics, ClosedByPanic
    <3>2. closed' \in BOOLEAN /\ (closed' <=> step = "end")
      BY <1>1, <3>1, Zenon
    <3>. QED
      BY <1>1, <3>1, <3>2
  <2>4. Bracketed' /\ StepFits' /\ SpanStarted'
    BY <1>1, <2>1, <2>2 DEF Bracketed, StepFits, SpanStarted, NoSpan
  <2>5. Closing'
    <3>1. closed' => span' # NoSpan /\ pc' \in {"done", "unwound"}
      BY <1>1, <1>2, <1>3, <2>1, <2>3
    <3>. QED
      BY <1>1, <2>2, <2>3, <3>1 DEF Closing, NoSpan
  <2>. QED
    BY <2>4, <2>5 DEF SpanInv
<1>. QED
  BY <1>4, <1>5

(* The deferred cleanup ends a span that is still open. *)
LEMMA CleanupSpan ==
    ASSUME TypeOK, SpanInv, Cleanup
    PROVE  SpanInv'
<1>1. UNCHANGED <<pending, pc, observer, step, span>> /\ left'
  BY Zenon DEF Cleanup, vars, control, observation
<1>2. Quiet /\ pc \in {"done", "unwound"} /\ ~left
  <2>1. pc = "unwound" => Quiet
    (* A propagated panic leaves no events behind. *)
    BY DEF SpanInv, Closing
  <2>. QED
    BY <2>1 DEF Cleanup, Returned
<1>3. Quiet' = Quiet /\ Event' = Event
  BY <1>1 DEF Quiet, Event
<1>4. Bracketed' /\ StepFits' /\ SpanStarted'
  BY <1>1, <1>3 DEF SpanInv, Bracketed, StepFits, SpanStarted, NoSpan
<1>5. Closing'
  <2>1. CASE NeedsEnd
    BY <1>1, <1>2, <1>3, <2>1 DEF NeedsEnd, Cleanup, SpanInv, Closing, NoSpan
  <2>2. CASE ~NeedsEnd
    BY <1>1, <1>2, <1>3, <2>2 DEF NeedsEnd, Cleanup, SpanInv, Closing, NoSpan
  <2>. QED
    BY <2>1, <2>2
<1>. QED
  BY <1>4, <1>5 DEF SpanInv

LEMMA SpanStep == TypeOK /\ SpanInv /\ [FireNext]_fireVars => SpanInv'
<1> SUFFICES ASSUME TypeOK, SpanInv, [FireNext]_fireVars PROVE SpanInv'
  OBVIOUS
<1>1. CASE UNCHANGED fireVars
  <2>1. UNCHANGED <<pending, pc, observer, step, span, closed, ends, left>>
    BY <1>1, Zenon DEF fireVars, vars, control, observation, telemetry, spanState
  <2>. QED
    BY <2>1 DEF SpanInv, Bracketed, StepFits, SpanStarted, Closing, Quiet, Event
<1>. QED
  BY <1>1, CoreSpan, StaySpan, HandledSpan, EndingSpan, CleanupSpan
  DEF FireNext, ObserverStep, FireDone

(* The span handle of the adapter's call is ended exactly once, after the  *)
(* core's last event, whichever provider or business callback panics       *)
(* (otel/adapter.go:118-123, 268-283).                                     *)
THEOREM SpanEndedOnce == FireSpec => []SpanEndsOnce
<1>1. FireSpec => []TypeOK
  BY FireIsExecution, TypeCorrect, PTL
<1>2. SpanInv => SpanEndsOnce
  BY DEF SpanInv, Closing, SpanEndsOnce
<1>. QED
  BY <1>1, <1>2, SpanInit, SpanStep, PTL DEF FireSpec
-----------------------------------------------------------------------------
(* Events picked from a sequence, one at a time. *)
Picks(f, s, n, rules) ==
    f = [m \in 0 .. n |->
            IF m = 0 THEN <<>>
            ELSE IF Of(rules, s[m]) THEN Append(f[m - 1], s[m]) ELSE f[m - 1]]

LEMMA PicksExist ==
    ASSUME NEW s, NEW rules, NEW N \in Nat
    PROVE  \E f : Picks(f, s, N, rules)
<1> DEFINE Bad == {n \in Nat : ~\E f : Picks(f, s, n, rules)}
<1> SUFFICES ASSUME Bad # {} PROVE FALSE
  OBVIOUS
<1>1. PICK n \in Bad : \A m \in Bad : n <= m
  BY LeastElement
<1>2. n # 0
  <2> DEFINE g == [m \in 0 .. 0 |-> <<>>]
  <2>1. g = [m \in 0 .. 0 |->
                IF m = 0 THEN <<>>
                ELSE IF Of(rules, s[m]) THEN Append(g[m - 1], s[m]) ELSE g[m - 1]]
    OBVIOUS
  <2>2. Picks(g, s, 0, rules)
    BY <2>1 DEF Picks
  <2>. QED
    BY <2>2
<1>3. n - 1 \in Nat /\ n - 1 \notin Bad
  BY <1>1, <1>2
<1>4. PICK f : Picks(f, s, n - 1, rules)
  BY <1>3
<1> DEFINE g == [m \in 0 .. n |->
                    IF m < n THEN f[m]
                    ELSE IF Of(rules, s[n]) THEN Append(f[n - 1], s[n]) ELSE f[n - 1]]
<1>5. \A m \in 0 .. n : m # n => g[m] = f[m]
  OBVIOUS
<1>6. \A m \in 0 .. n - 1 :
        f[m] = IF m = 0 THEN <<>>
               ELSE IF Of(rules, s[m]) THEN Append(f[m - 1], s[m]) ELSE f[m - 1]
  BY <1>3, <1>4 DEF Picks
<1>7. ASSUME NEW m \in 0 .. n
      PROVE  g[m] = IF m = 0 THEN <<>>
                    ELSE IF Of(rules, s[m]) THEN Append(g[m - 1], s[m]) ELSE g[m - 1]
  <2>1. CASE m = n
    <3>1. n - 1 \in 0 .. n /\ n - 1 # n /\ n \in 0 .. n
      BY <1>3
    <3>. QED
      BY <1>2, <1>3, <1>5, <2>1, <3>1
  <2>2. CASE m < n
    <3>1. m \in 0 .. n - 1 /\ g[m] = f[m]
      BY <1>3, <2>2
    <3>2. m # 0 => m - 1 \in 0 .. n /\ m - 1 # n
      BY <1>3, <2>2
    <3> HIDE DEF g
    <3>. QED
      BY <1>5, <1>6, <3>1, <3>2
  <2>. QED
    BY <1>3, <2>1, <2>2
<1>8. Picks(g, s, n, rules)
  <2> DEFINE h == [m \in 0 .. n |->
                     IF m = 0 THEN <<>>
                     ELSE IF Of(rules, s[m]) THEN Append(g[m - 1], s[m]) ELSE g[m - 1]]
  <2>1. g = [m \in 0 .. n |-> g[m]]
    OBVIOUS
  <2> HIDE DEF g
  <2>2. h = [m \in 0 .. n |-> g[m]]
    BY <1>7
  <2>. QED
    BY <2>1, <2>2 DEF Picks
<1>. QED
  BY <1>1, <1>8

LEMMA EventsPicked ==
    ASSUME NEW s, NEW rules, Len(s) \in Nat
    PROVE  \E f : Picks(f, s, Len(s), rules) /\ EventsOf(rules, s) = f[Len(s)]
<1> DEFINE c == CHOOSE f : Picks(f, s, Len(s), rules)
<1>1. Picks(c, s, Len(s), rules)
  <2> HIDE DEF c
  <2>1. \E f : Picks(f, s, Len(s), rules)
    BY PicksExist
  <2>. QED
    BY <2>1 DEF c
<1>2. EventsOf(rules, s) = c[Len(s)]
  BY Zenon DEF EventsOf, Picks
<1>. QED
  BY <1>1, <1>2

(* One more event is one more pick, if it is of these rules. *)
LEMMA EventsOfAppend ==
    ASSUME NEW S, NEW s \in Seq(S), NEW e \in S, NEW rules
    PROVE  EventsOf(rules, Append(s, e)) =
             IF Of(rules, e) THEN Append(EventsOf(rules, s), e) ELSE EventsOf(rules, s)
<1>1. PICK t, n : t = Append(s, e) /\ n = Len(s)
  OBVIOUS
<1>2. /\ n \in Nat /\ Len(t) = n + 1 /\ t[n + 1] = e /\ n + 1 # 0 /\ (n + 1) - 1 = n
      /\ \A m \in 1 .. n : t[m] = s[m]
  BY <1>1
<1>3. PICK f : Picks(f, s, n, rules) /\ EventsOf(rules, s) = f[n]
  BY <1>1, <1>2, EventsPicked
<1>4. PICK g : Picks(g, t, n + 1, rules) /\ EventsOf(rules, t) = g[n + 1]
  BY <1>2, EventsPicked
<1>5. /\ \A m \in 0 .. n : f[m] = IF m = 0 THEN <<>>
             ELSE IF Of(rules, s[m]) THEN Append(f[m - 1], s[m]) ELSE f[m - 1]
      /\ \A m \in 0 .. n + 1 : g[m] = IF m = 0 THEN <<>>
             ELSE IF Of(rules, t[m]) THEN Append(g[m - 1], t[m]) ELSE g[m - 1]
  BY <1>3, <1>4 DEF Picks
<1>6. \A m \in 0 .. n : g[m] = f[m]
  <2> DEFINE Bad == {m \in Nat : m <= n /\ g[m] # f[m]}
  <2> SUFFICES ASSUME Bad # {} PROVE FALSE
    BY <1>2
  <2>1. PICK m \in Bad : \A k \in Bad : m <= k
    BY LeastElement
  <2>2. m \in 0 .. n /\ m \in 0 .. n + 1 /\ m # 0
    BY <1>2, <1>5, <2>1
  <2>3. m - 1 \in Nat /\ m - 1 <= n /\ g[m - 1] = f[m - 1] /\ t[m] = s[m]
    BY <1>2, <2>1, <2>2
  <2>4. g[m] = f[m]
    BY <1>5, <2>2, <2>3
  <2>. QED
    BY <2>1, <2>4
<1>7. g[n + 1] = IF Of(rules, e) THEN Append(f[n], e) ELSE f[n]
  <2>1. n + 1 \in 0 .. n + 1 /\ n \in 0 .. n
    BY <1>2
  <2>. QED
    BY <1>2, <1>5, <1>6, <2>1
<1>. QED
  BY <1>1, <1>3, <1>4, <1>7

LEMMA EventsOfNothing ==
    ASSUME NEW rules
    PROVE  EventsOf(rules, <<>>) = <<>>
<1>1. Len(<<>>) = 0 /\ 0 \in 0 .. 0
  OBVIOUS
<1>2. PICK f : Picks(f, <<>>, 0, rules) /\ EventsOf(rules, <<>>) = f[0]
  BY <1>1, EventsPicked
<1>. QED
  BY <1>1, <1>2 DEF Picks

-----------------------------------------------------------------------------
(* What the trace and the metrics tell.                                    *)

(* What the execution counters must be given. *)
Truth == <<1, Cardinality(Those("Evaluated")), Cardinality(Those("Matched")),
           Cardinality(Those("Fired")),
           Cardinality(Those("ConditionFailed")) + Cardinality(Those("ActionFailed"))>>

Share(k) == IF k \in adapter.counters THEN Truth[k] ELSE 0

TellTypes ==
    /\ adapter \in AdapterSpace
    /\ emitted \in Nat /\ dropped \in Nat /\ filtered \in Nat
    /\ Told \in Seq(EventSpace) /\ Eligible \in Seq(EventSpace)
    /\ summary \in Seq(Nat)

(* Before the first rule nothing was told. *)
Fresh ==
    /\ pc = "start" => Quiet
    /\ pc \in {"start", "initial"} =>
         /\ Told = <<>> /\ Eligible = <<>> /\ Metered = <<>>
         /\ spanEvents = <<>> /\ ruleCounts = <<>>
         /\ emitted = 0 /\ dropped = 0 /\ filtered = 0

(* The trace accounts for the events delivered so far. *)
InTrace ==
    /\ emitted = Least(adapter.eventLimit, Len(Eligible))
    /\ spanEvents = SubSeq(Eligible, 1, emitted)
    /\ filtered = Len(Told) - Len(Eligible)
    /\ dropped = Len(Eligible) - emitted

(* While no provider has panicked: the event at hand is counted before it  *)
(* is delivered, and recorded as it is.                                    *)
Sound == Healthy /\ pc # "unwound"

Traced ==
    Sound =>
      /\ Recording => InTrace
      /\ ruleCounts = IF step = "record" /\ Event.order \in MeteredRules
                      THEN Append(Metered, Event) ELSE Metered

(* A sound observer stays to the end and closes the span itself. *)
Attends ==
    Sound =>
      /\ observer \/ closed
      /\ ~incomplete
      /\ pc = "done" /\ Quiet => closed

(* The final attributes of a call that is over. *)
Settlement ==
    [counts |-> counts, stop |-> stop,
     emitted |-> emitted, dropped |-> dropped, filtered |-> filtered]

(* What the finish event leaves, in the order of its provider calls. *)
Settles ==
    /\ pc = "done" => \A k \in 1 .. Len(pending) :
          /\ pending[k].kind = "execution-finished"
          /\ pending[k].counts = counts /\ pending[k].stop = stop
    /\ Sound /\ step \in {"attributes", "end"} => clock # "running"
    /\ Sound /\ step = "end" /\ Recording => attributes = <<Settlement>>
    /\ Sound /\ pc = "done" /\ closed =>
          /\ clock # "running" /\ Len(summary) = 5
          /\ Recording => attributes = <<Settlement>>
          /\ dropped > 0 => \E k \in 1 .. Len(diagnostics) : diagnostics[k].cause = "error"

Sums ==
    /\ Len(summary) <= 5
    /\ ~Quiet /\ step = "idle" => Len(summary) < 5
    /\ step \in {"duration", "attributes", "end"} => Len(summary) = 5
    /\ Len(summary) > 0 => pc \in {"done", "unwound"} /\ stop # "None"
    /\ \A k \in 1 .. Len(summary) : summary[k] = Share(k)

Complaints ==
    /\ Len(diagnostics) > 0 => ~observer
    /\ \A k \in 1 .. Len(diagnostics) : diagnostics[k].cause = "error" =>
          /\ diagnostics[k].event.kind = "execution-finished"
          /\ dropped > 0 /\ closed /\ Len(summary) = 5

TellInv == TellTypes /\ Fresh /\ Traced /\ Attends /\ Settles /\ Sums /\ Complaints

LEMMA HeadIsAnEvent == ASSUME TypeOK, ~Quiet PROVE Event \in EventSpace /\ Event = Head(pending)
<1>1. pending \in Seq(EventSpace) /\ pending # <<>>
  BY DEF TypeOK, Quiet
<1>. QED
  BY <1>1 DEF Event

LEMMA OrdersAreNumbers ==
    ASSUME NEW e \in EventSpace, e.kind \in RuleEventKinds
    PROVE  e.order \in Nat
  BY DEF EventSpace, RuleEventKinds

(* Delivery of the event at the head of the queue. *)
LEMMA Delivering ==
    ASSUME TypeOK, ~Quiet, delivered' = Append(delivered, Head(pending)), adapter' = adapter
    PROVE  /\ Told' = IF Event.kind \in RuleEventKinds THEN Append(Told, Event) ELSE Told
           /\ Eligible' = IF Of(adapter.traceRules, Event) THEN Append(Eligible, Event)
                                                           ELSE Eligible
           /\ Metered' = IF Of(MeteredRules, Event) THEN Append(Metered, Event)
                                                           ELSE Metered
<1>1. Event \in EventSpace /\ Event = Head(pending) /\ delivered \in Seq(EventSpace)
  BY HeadIsAnEvent DEF TypeOK
<1>2. PICK e \in EventSpace, s \in Seq(EventSpace) : e = Event /\ s = delivered
  BY <1>1
<1>3. PICK R, M : R = adapter.traceRules /\ M = MeteredRules
  OBVIOUS
<1>4. delivered' = Append(s, e) /\ adapter'.traceRules = R /\ MeteredRules' = M
  BY <1>1, <1>2, <1>3 DEF MeteredRules
<1>5. Of(Nat, e) <=> e.kind \in RuleEventKinds
  BY OrdersAreNumbers DEF Of
<1>6. \A rules : EventsOf(rules, Append(s, e)) =
             IF Of(rules, e) THEN Append(EventsOf(rules, s), e) ELSE EventsOf(rules, s)
  BY EventsOfAppend
<1>7. /\ Told = EventsOf(Nat, s) /\ Told' = EventsOf(Nat, Append(s, e))
      /\ Eligible = EventsOf(R, s) /\ Eligible' = EventsOf(R, Append(s, e))
      /\ Metered = EventsOf(M, s) /\ Metered' = EventsOf(M, Append(s, e))
  BY <1>2, <1>3, <1>4 DEF Told, Eligible, Metered
<1>. QED
  BY <1>2, <1>3, <1>5, <1>6, <1>7

LEMMA NothingDelivered ==
    ASSUME delivered' = delivered, adapter' = adapter
    PROVE  Told' = Told /\ Eligible' = Eligible /\ Metered' = Metered
  BY DEF Told, Eligible, Metered, MeteredRules

(* At the end the counts are what really happened. *)
LEMMA CountsTellTruth ==
    ASSUME TypeOK, LedgerInv, Tally, pc = "done"
    PROVE  Totals(counts) = Truth
<1>1. \A f \in RunningFields : counts[f] = Cardinality(Those(f)) + 0
  BY DEF Tally, Ahead, Matching
<1>2. \A f : Cardinality(Those(f)) \in Nat
  BY ThoseFinite
<1>3. \A f \in RunningFields : counts[f] = Cardinality(Those(f))
  BY <1>1, <1>2
<1>4. counts["Failed"] = counts["ConditionFailed"] + counts["ActionFailed"]
  BY DEF LedgerInv, CountsPartition
<1>5. {"Evaluated", "Matched", "Fired", "ConditionFailed", "ActionFailed"} \subseteq RunningFields
  BY DEF RunningFields, CountFields
<1>. QED
  BY <1>3, <1>4, <1>5 DEF Totals, Truth

LEMMA StoppedForAReason ==
    ASSUME ContractInv, pc = "done"
    PROVE  stop # "None"
  BY DEF ContractInv, Concluding, Justified, ContextStop

LEMMA TellInit == FireInit => TellInv
<1> SUFFICES ASSUME FireInit PROVE TellInv
  OBVIOUS
<1>1. /\ pc = "start" /\ pending = <<>> /\ delivered = <<>> /\ diagnostics = <<>>
      /\ step = "idle" /\ span = NoSpan /\ observer = config.observer /\ config \in Configs
      /\ emitted = 0 /\ dropped = 0 /\ filtered = 0 /\ adapter \in Adapters
      /\ spanEvents = <<>> /\ ruleCounts = <<>> /\ summary = <<>> /\ ~incomplete
  BY DEF FireInit, Init, Configs
<1>2. observer
  BY <1>1, ObservedAssumption
<1>3. Told = <<>> /\ Eligible = <<>> /\ Metered = <<>>
  BY <1>1, EventsOfNothing DEF Told, Eligible, Metered
<1>4. \A S : <<>> \in Seq(S)
  OBVIOUS
<1>5. Len(summary) = 0 /\ Len(diagnostics) = 0 /\ Len(pending) = 0
  BY <1>1
<1>6. TellTypes
  BY <1>1, <1>3, <1>4, AdaptersAssumption DEF TellTypes
<1>7. Fresh
  BY <1>1, <1>3 DEF Fresh, Quiet
<1>8. Traced
  BY <1>1, <1>3 DEF Traced, Recording, NoSpan
<1>9. Attends
  BY <1>1, <1>2 DEF Attends
<1>10. Settles
  BY <1>1 DEF Settles
<1>11. Sums
  BY <1>1, <1>5 DEF Sums, Quiet
<1>12. Complaints
  BY <1>5 DEF Complaints
<1>. QED
  BY <1>6, <1>7, <1>8, <1>9, <1>10, <1>11, <1>12 DEF TellInv

(* Work keeps what was delivered, and only Finish ends the walk. *)
LEMMA WorkObserves ==
    ASSUME Work
    PROVE  /\ delivered' = delivered /\ diagnostics' = diagnostics /\ observer' = observer
           /\ pc' = "done" => Finish
  BY DEF Work, Start, Emit, PassInitialCheck, Interrupt, EnterRules, EnterGroup, NextRule,
     BeginCondition, ConditionFalse, ConditionTrue, ConditionError, ConditionPanic,
     ConditionUnwinds, ConditionReturns, AfterPanic, AfterCondition, Decide, ActionOk,
     ActionError, ActionPanic, ActionUnwinds, ActionReturns, AfterAction, Exhaust, Leave,
     Complete, Finish, observation, control

LEMMA FinishQueues ==
    ASSUME Finish
    PROVE  /\ observer => /\ Len(pending') = 1
                          /\ pending'[1].kind = "execution-finished"
                          /\ pending'[1].counts = counts' /\ pending'[1].stop = stop'
           /\ ~observer => Len(pending') = 0
<1>1. /\ Emit(<<SummaryEvent("execution-finished", counts', stop)>>)
      /\ stop' = stop
  BY DEF Finish
<1>2. /\ SummaryEvent("execution-finished", counts', stop).kind = "execution-finished"
      /\ SummaryEvent("execution-finished", counts', stop).counts = counts'
      /\ SummaryEvent("execution-finished", counts', stop).stop = stop
  BY DEF SummaryEvent
<1>. QED
  BY <1>1, <1>2 DEF Emit

(* The engine's own steps, between events. *)
LEMMA WorkTells ==
    ASSUME TypeOK, SpanInv, TellInv, Work, UNCHANGED telemetry
    PROVE  TellInv'
<1>1. UNCHANGED <<adapter, step, span, closed, ends, spanEvents, attributes, incomplete,
                  emitted, dropped, filtered, clock, summary, ruleCounts, left>>
  BY Zenon DEF telemetry, spanState, tally, metrics
<1>2. /\ Quiet /\ pc \notin {"done", "unwound"} /\ pc' # "start"
      /\ (pc' = "initial" => pc = "start")
      /\ delivered' = delivered /\ diagnostics' = diagnostics /\ observer' = observer
      /\ pc' = "done" => Finish
  BY WorkQueues, WorkObserves
<1>3. Told' = Told /\ Eligible' = Eligible /\ Metered' = Metered
  BY <1>1, <1>2, NothingDelivered
<1>4. step = "idle" /\ ~closed
  BY <1>2 DEF SpanInv, StepFits, Closing
<1>5. summary \in Seq(Nat) /\ Len(summary) = 0
  BY <1>2 DEF TellInv, TellTypes, Sums
<1>6. /\ Sound' => Sound
      /\ Len(diagnostics) \in Nat
  BY <1>2 DEF Sound, Healthy, TypeOK
<1>7. TellTypes'
  BY <1>1, <1>3 DEF TellInv, TellTypes
<1>8. Fresh'
  BY <1>1, <1>2, <1>3 DEF TellInv, Fresh
<1>9. Traced'
  <2>1. InTrace => InTrace'
    BY <1>1, <1>3 DEF InTrace, Least
  <2>. QED
    BY <1>1, <1>3, <1>4, <1>6, <2>1 DEF TellInv, Traced, Recording
<1>10. Attends'
  <2>1. Sound' => observer /\ ~incomplete
    BY <1>4, <1>6 DEF TellInv, Attends
  <2>2. Sound' /\ pc' = "done" => ~Quiet'
    <3>1. Sound' /\ pc' = "done" => Len(pending') = 1
      BY <1>2, <2>1, FinishQueues
    <3>. QED
      BY <3>1 DEF Quiet
  <2>. QED
    BY <1>1, <1>2, <2>1, <2>2 DEF Attends
<1>11. Settles'
  <2>1. pc' = "done" => \A k \in 1 .. Len(pending') :
          /\ pending'[k].kind = "execution-finished"
          /\ pending'[k].counts = counts' /\ pending'[k].stop = stop'
    BY <1>2, FinishQueues
  <2>. QED
    BY <1>1, <1>4, <2>1 DEF Settles
<1>12. Sums'
  BY <1>1, <1>4, <1>5 DEF Sums, Share
<1>13. Complaints'
  BY <1>1, <1>2 DEF TellInv, Complaints
<1>. QED
  BY <1>7, <1>8, <1>9, <1>10, <1>11, <1>12, <1>13 DEF TellInv

(* What is known while the observer has an event. *)
LEMMA Attending ==
    ASSUME TypeOK, SpanInv, TellInv, ~Quiet
    PROVE  /\ observer /\ ~closed /\ pc \notin {"start", "unwound"}
           /\ Event.kind = "execution-started" <=> pc = "initial"
           /\ Event.kind = "execution-finished" <=> pc = "done"
           /\ pc = "done" => /\ Event.counts = counts /\ Event.stop = stop
                             /\ Len(pending) = 1
           /\ Len(diagnostics) = 0
<1>1. 1 \in 1 .. Len(pending) /\ Event = pending[1]
  BY QueueFacts
<1>2. observer /\ ~closed /\ pc \notin {"start", "unwound"}
  BY DEF SpanInv, SpanStarted, Closing, TellInv, Fresh
<1>3. /\ Event.kind = "execution-started" <=> pc = "initial"
      /\ Event.kind = "execution-finished" => pc = "done"
      /\ Event.kind \in BracketKinds => Len(pending) = 1
  BY <1>1 DEF SpanInv, Bracketed
<1>4. pc = "done" => /\ Event.kind = "execution-finished"
                     /\ Event.counts = counts /\ Event.stop = stop
  BY <1>1 DEF TellInv, Settles
<1>5. Len(diagnostics) = 0
  BY <1>2 DEF TellInv, Complaints, TypeOK
<1>. QED
  BY <1>2, <1>3, <1>4, <1>5 DEF BracketKinds

LEMMA Still ==
    ASSUME UNCHANGED <<setup, control, ledger, observation, history>>, adapter' = adapter
    PROVE  /\ UNCHANGED <<pc, pending, observer, diagnostics, counts, stop>>
           /\ Quiet' = Quiet /\ Event' = Event
           /\ Told' = Told /\ Eligible' = Eligible /\ Metered' = Metered
           /\ (Sound' <=> Sound) /\ Truth' = Truth
<1>1. UNCHANGED <<entries, pc, pending, observer, diagnostics, delivered, counts, stop,
                  cond, act>>
  BY Zenon DEF setup, control, ledger, observation, history
<1>2. Told' = Told /\ Eligible' = Eligible /\ Metered' = Metered
  BY <1>1, NothingDelivered
<1>3. \A f : Those(f)' = Those(f)
  BY <1>1, TallyFrame
<1>4. Truth' = Truth
  BY <1>3 DEF Truth
<1>. QED
  BY <1>1, <1>2, <1>4 DEF Quiet, Event, Sound, Healthy

LEMMA Unmoved ==
    ASSUME UNCHANGED vars, adapter' = adapter
    PROVE  /\ UNCHANGED <<pc, pending, observer, diagnostics, counts, stop>>
           /\ Quiet' = Quiet /\ Event' = Event
           /\ Told' = Told /\ Eligible' = Eligible /\ Metered' = Metered
           /\ (Sound' <=> Sound) /\ Truth' = Truth
<1>1. UNCHANGED <<setup, control, ledger, observation, history>>
  BY Zenon DEF vars
<1>. QED
  BY <1>1, Still

(* The provider calls that come before the event is delivered. *)
LEMMA ClockTells ==
    ASSUME TypeOK, SpanInv, TellInv, ReadClock
    PROVE  TellInv'
<1>1. /\ ~Quiet /\ Event.kind = "execution-started" /\ step = "idle" /\ step' = "start"
      /\ UNCHANGED vars /\ adapter' = adapter
      /\ UNCHANGED <<spanState, tally, summary, ruleCounts>>
  BY DEF ReadClock, Observing, Moves
<1>2. UNCHANGED <<span, closed, spanEvents, attributes, incomplete, emitted, dropped, filtered,
                  summary, ruleCounts>>
  BY <1>1 DEF spanState, tally
<1>3. /\ UNCHANGED <<pc, pending, observer, diagnostics, counts, stop>>
      /\ Quiet' = Quiet /\ Event' = Event
      /\ Told' = Told /\ Eligible' = Eligible /\ Metered' = Metered
      /\ (Sound' <=> Sound) /\ Truth' = Truth
  BY <1>1, Unmoved
<1>4. pc = "initial"
  BY <1>1, Attending
<1>5. TellTypes'
  BY <1>1, <1>2, <1>3 DEF TellInv, TellTypes
<1>6. Fresh'
  BY <1>2, <1>3 DEF TellInv, Fresh
<1>7. Traced'
  BY <1>1, <1>2, <1>3 DEF TellInv, Traced, Recording, InTrace, Least, MeteredRules
<1>8. Attends'
  BY <1>2, <1>3 DEF TellInv, Attends
<1>9. Settles'
  BY <1>1, <1>3, <1>4 DEF Settles
<1>10. Sums'
  BY <1>1, <1>2, <1>3 DEF TellInv, Sums, Share
<1>11. Complaints'
  BY <1>2, <1>3 DEF TellInv, Complaints
<1>. QED
  BY <1>5, <1>6, <1>7, <1>8, <1>9, <1>10, <1>11 DEF TellInv

LEMMA StartTells ==
    ASSUME TypeOK, SpanInv, TellInv, StartSpan
    PROVE  TellInv'
<1>1. /\ ~Quiet /\ Event.kind = "execution-started" /\ step' = "describe"
      /\ UNCHANGED vars /\ adapter' = adapter
      /\ UNCHANGED <<closed, ends, spanEvents, attributes, incomplete, tally, metrics>>
  BY DEF StartSpan, Observing, Moves
<1>2. UNCHANGED <<closed, spanEvents, attributes, incomplete, emitted, dropped, filtered,
                  clock, summary, ruleCounts>>
  BY <1>1 DEF tally, metrics
<1>3. /\ UNCHANGED <<pc, pending, observer, diagnostics, counts, stop>>
      /\ Quiet' = Quiet /\ Event' = Event
      /\ Told' = Told /\ Eligible' = Eligible /\ Metered' = Metered
      /\ (Sound' <=> Sound) /\ Truth' = Truth
  BY <1>1, Unmoved
<1>4. pc = "initial"
  BY <1>1, Attending
<1>5. TellTypes'
  BY <1>1, <1>2, <1>3 DEF TellInv, TellTypes
<1>6. Fresh'
  BY <1>2, <1>3 DEF TellInv, Fresh
<1>7. Traced'
  <2>1. /\ Told = <<>> /\ Eligible = <<>> /\ Metered = <<>> /\ spanEvents = <<>>
        /\ ruleCounts = <<>> /\ emitted = 0 /\ dropped = 0 /\ filtered = 0
    BY <1>4 DEF TellInv, Fresh
  <2>2. adapter.eventLimit \in Nat
    BY DEF TellInv, TellTypes, AdapterSpace
  <2>3. InTrace
    <3>1. Len(Eligible) = 0 /\ Len(Told) = 0
      BY <2>1
    <3>2. Least(adapter.eventLimit, 0) = 0
      BY <2>2 DEF Least
    <3>3. SubSeq(Eligible, 1, 0) = <<>>
      <4>1. Eligible \in Seq(EventSpace)
        BY DEF TellInv, TellTypes
      <4>2. SubSeq(Eligible, 1, 0) \in Seq(EventSpace) /\ Len(SubSeq(Eligible, 1, 0)) = 0
        BY <4>1
      <4>. QED
        BY <4>2, NoElements
    <3>. QED
      BY <2>1, <3>1, <3>2, <3>3 DEF InTrace
  <2>4. InTrace'
    BY <1>1, <1>2, <1>3, <2>3 DEF InTrace, Least
  <2>. QED
    BY <1>1, <1>2, <1>3, <2>1, <2>4 DEF Traced
<1>8. Attends'
  BY <1>2, <1>3 DEF TellInv, Attends
<1>9. Settles'
  BY <1>1, <1>3, <1>4 DEF Settles
<1>10. Sums'
  BY <1>1, <1>2, <1>3 DEF TellInv, Sums, Share
<1>11. Complaints'
  BY <1>2, <1>3 DEF TellInv, Complaints
<1>. QED
  BY <1>5, <1>6, <1>7, <1>8, <1>9, <1>10, <1>11 DEF TellInv

LEMMA CountTells ==
    ASSUME TypeOK, SpanInv, TellInv, CountRuleEvent
    PROVE  TellInv'
<1>1. /\ ~Quiet /\ Event.kind \in RuleEventKinds /\ step = "idle" /\ step' = "record"
      /\ ruleCounts' = IF Event.order \in MeteredRules
                       THEN Append(ruleCounts, Event) ELSE ruleCounts
      /\ UNCHANGED vars /\ adapter' = adapter
      /\ UNCHANGED <<spanState, tally, clock, summary>>
  BY DEF CountRuleEvent, Observing, Moves
<1>2. UNCHANGED <<span, closed, spanEvents, attributes, incomplete, emitted, dropped, filtered,
                  clock, summary>>
  BY <1>1 DEF spanState, tally
<1>3. /\ UNCHANGED <<pc, pending, observer, diagnostics, counts, stop>>
      /\ Quiet' = Quiet /\ Event' = Event
      /\ Told' = Told /\ Eligible' = Eligible /\ Metered' = Metered
      /\ (Sound' <=> Sound) /\ Truth' = Truth
  BY <1>1, Unmoved
<1>4. pc \notin {"start", "initial", "done"}
  BY <1>1, Attending DEF RuleEventKinds
<1>5. TellTypes'
  BY <1>1, <1>2, <1>3 DEF TellInv, TellTypes
<1>6. Fresh'
  BY <1>3, <1>4 DEF Fresh
<1>7. Traced'
  BY <1>1, <1>2, <1>3 DEF TellInv, Traced, Recording, InTrace, Least, MeteredRules
<1>8. Attends'
  BY <1>2, <1>3 DEF TellInv, Attends
<1>9. Settles'
  BY <1>1, <1>3, <1>4 DEF Settles
<1>10. Sums'
  BY <1>1, <1>2, <1>3 DEF TellInv, Sums, Share
<1>11. Complaints'
  BY <1>2, <1>3 DEF TellInv, Complaints
<1>. QED
  BY <1>5, <1>6, <1>7, <1>8, <1>9, <1>10, <1>11 DEF TellInv

LEMMA OneMore ==
    ASSUME NEW S, NEW s \in Seq(S), NEW e \in S, NEW t, t = Append(s, e)
    PROVE  /\ t \in Seq(S) /\ Len(s) \in Nat /\ Len(t) = Len(s) + 1
           /\ \A k \in 1 .. Len(t) : \/ k \in 1 .. Len(s) /\ t[k] = s[k]
                                     \/ k = Len(s) + 1 /\ t[k] = e
  OBVIOUS

(* The counter that is given next gets its share of the truth. *)
LEMMA NextCounter ==
    ASSUME TypeOK, LedgerInv, Tally, ContractInv, SpanInv, TellInv,
           ~Quiet, Event.kind = "execution-finished", step = "idle",
           summary' = Append(summary, Added(Totals(Event.counts))[Len(summary) + 1])
    PROVE  /\ summary' \in Seq(Nat) /\ Len(summary) < 5 /\ Len(summary') = Len(summary) + 1
           /\ Len(summary) \in Nat
           /\ \A k \in 1 .. Len(summary') : summary'[k] = Share(k)
           /\ pc = "done" /\ stop # "None"
<1>1. pc = "done" /\ Event.counts = counts
  BY Attending
<1>2. stop # "None"
  BY <1>1, StoppedForAReason
<1>3. Totals(Event.counts) = Truth
  BY <1>1, CountsTellTruth
<1>4. summary \in Seq(Nat) /\ Len(summary) \in Nat /\ Len(summary) < 5
  BY DEF TellInv, TellTypes, Sums
<1>5. PICK n, v : n = Len(summary) + 1 /\ v = Share(n)
  BY <1>4
<1>6. n \in 1 .. 5 /\ n \in Nat
  BY <1>4, <1>5
<1>7. \A m \in 1 .. 5 : Truth[m] \in Nat
  <2>1. \A f : Cardinality(Those(f)) \in Nat
    BY ThoseFinite
  <2>. QED
    BY <2>1 DEF Truth
<1>8. v \in Nat /\ summary' = Append(summary, v)
  <2>1. Added(Totals(Event.counts))[n] = Share(n)
    BY <1>3, <1>6 DEF Added, Share
  <2>2. Share(n) \in Nat
    BY <1>6, <1>7 DEF Share
  <2>. QED
    BY <1>5, <2>1, <2>2
<1>9. /\ summary' \in Seq(Nat) /\ Len(summary') = Len(summary) + 1
      /\ \A k \in 1 .. Len(summary') : \/ k \in 1 .. Len(summary) /\ summary'[k] = summary[k]
                                       \/ k = Len(summary) + 1 /\ summary'[k] = v
  BY <1>4, <1>8, OneMore
<1>10. \A k \in 1 .. Len(summary) : summary[k] = Share(k)
  BY DEF TellInv, Sums
<1>. QED
  BY <1>1, <1>2, <1>4, <1>5, <1>9, <1>10

LEMMA SumTells ==
    ASSUME TypeOK, LedgerInv, Tally, ContractInv, SpanInv, TellInv, AddCounter
    PROVE  TellInv'
<1>1. /\ ~Quiet /\ Event.kind = "execution-finished" /\ step = "idle"
      /\ summary' = Append(summary, Added(Totals(Event.counts))[Len(summary) + 1])
      /\ step' = IF Len(summary') = 5 THEN "duration" ELSE "idle"
      /\ UNCHANGED vars /\ adapter' = adapter
      /\ UNCHANGED <<spanState, tally, clock, ruleCounts>>
  BY DEF AddCounter, Observing, Moves
<1>2. UNCHANGED <<span, closed, spanEvents, attributes, incomplete, emitted, dropped, filtered,
                  clock, ruleCounts>>
  BY <1>1 DEF spanState, tally
<1>3. /\ UNCHANGED <<pc, pending, observer, diagnostics, counts, stop>>
      /\ Quiet' = Quiet /\ Event' = Event
      /\ Told' = Told /\ Eligible' = Eligible /\ Metered' = Metered
      /\ (Sound' <=> Sound) /\ Truth' = Truth
  BY <1>1, Unmoved
<1>4. ~closed /\ Len(diagnostics) = 0
  BY <1>1, Attending
<1>5. /\ summary' \in Seq(Nat) /\ Len(summary) < 5 /\ Len(summary') = Len(summary) + 1
      /\ Len(summary) \in Nat
      /\ \A k \in 1 .. Len(summary') : summary'[k] = Share(k)
      /\ pc = "done" /\ stop # "None"
  BY <1>1, NextCounter
<1>6. TellTypes'
  BY <1>1, <1>2, <1>3, <1>5 DEF TellInv, TellTypes
<1>7. Fresh'
  BY <1>3, <1>5 DEF Fresh
<1>8. Traced'
  BY <1>1, <1>2, <1>3 DEF TellInv, Traced, Recording, InTrace, Least, MeteredRules
<1>9. Attends'
  BY <1>2, <1>3 DEF TellInv, Attends
<1>10. Settles'
  BY <1>1, <1>2, <1>3, <1>4 DEF TellInv, Settles
<1>11. Sums'
  BY <1>1, <1>3, <1>5 DEF Sums, Share
<1>12. Complaints'
  BY <1>3, <1>4 DEF Complaints
<1>. QED
  BY <1>6, <1>7, <1>8, <1>9, <1>10, <1>11, <1>12 DEF TellInv

LEMMA DurationTells ==
    ASSUME TypeOK, SpanInv, TellInv, RecordDuration
    PROVE  TellInv'
<1>1. /\ ~Quiet /\ Event.kind = "execution-finished" /\ step = "duration"
      /\ step' = "attributes" /\ clock' # "running"
      /\ UNCHANGED vars /\ adapter' = adapter
      /\ UNCHANGED <<spanState, tally, summary, ruleCounts>>
  BY DEF RecordDuration, Observing, Moves
<1>2. UNCHANGED <<span, closed, spanEvents, attributes, incomplete, emitted, dropped, filtered,
                  summary, ruleCounts>>
  BY <1>1 DEF spanState, tally
<1>3. /\ UNCHANGED <<pc, pending, observer, diagnostics, counts, stop>>
      /\ Quiet' = Quiet /\ Event' = Event
      /\ Told' = Told /\ Eligible' = Eligible /\ Metered' = Metered
      /\ (Sound' <=> Sound) /\ Truth' = Truth
  BY <1>1, Unmoved
<1>4. ~closed /\ pc = "done"
  BY <1>1, Attending
<1>5. TellTypes'
  BY <1>1, <1>2, <1>3 DEF TellInv, TellTypes
<1>6. Fresh'
  BY <1>3, <1>4 DEF Fresh
<1>7. Traced'
  BY <1>1, <1>2, <1>3 DEF TellInv, Traced, Recording, InTrace, Least, MeteredRules
<1>8. Attends'
  BY <1>2, <1>3 DEF TellInv, Attends
<1>9. Settles'
  BY <1>1, <1>2, <1>3, <1>4 DEF TellInv, Settles
<1>10. Sums'
  BY <1>1, <1>2, <1>3 DEF TellInv, Sums, Share
<1>11. Complaints'
  BY <1>2, <1>3 DEF TellInv, Complaints
<1>. QED
  BY <1>5, <1>6, <1>7, <1>8, <1>9, <1>10, <1>11 DEF TellInv

LEMMA AttributesTell ==
    ASSUME TypeOK, SpanInv, TellInv, SetAttributes
    PROVE  TellInv'
<1>1. /\ ~Quiet /\ Event.kind = "execution-finished" /\ step = "attributes" /\ step' = "end"
      /\ attributes' = IF Recording THEN <<Final(Event)>> ELSE attributes
      /\ UNCHANGED vars /\ adapter' = adapter
      /\ UNCHANGED <<span, closed, ends, spanEvents, incomplete, tally, metrics>>
  BY DEF SetAttributes, Observing, Moves
<1>2. UNCHANGED <<span, closed, spanEvents, incomplete, emitted, dropped, filtered,
                  clock, summary, ruleCounts>>
  BY <1>1 DEF tally, metrics
<1>3. /\ UNCHANGED <<pc, pending, observer, diagnostics, counts, stop>>
      /\ Quiet' = Quiet /\ Event' = Event
      /\ Told' = Told /\ Eligible' = Eligible /\ Metered' = Metered
      /\ (Sound' <=> Sound) /\ Truth' = Truth
  BY <1>1, Unmoved
<1>4. ~closed /\ pc = "done" /\ Event.counts = counts /\ Event.stop = stop
  BY <1>1, Attending
<1>5. Final(Event) = Settlement /\ Settlement' = Settlement
  BY <1>2, <1>3, <1>4 DEF Final, Settlement
<1>6. TellTypes'
  BY <1>1, <1>2, <1>3 DEF TellInv, TellTypes
<1>7. Fresh'
  BY <1>3, <1>4 DEF Fresh
<1>8. Traced'
  BY <1>1, <1>2, <1>3 DEF TellInv, Traced, Recording, InTrace, Least, MeteredRules
<1>9. Attends'
  BY <1>2, <1>3 DEF TellInv, Attends
<1>10. Settles'
  BY <1>1, <1>2, <1>3, <1>4, <1>5 DEF TellInv, Settles, Recording
<1>11. Sums'
  BY <1>1, <1>2, <1>3 DEF TellInv, Sums, Share
<1>12. Complaints'
  BY <1>2, <1>3 DEF TellInv, Complaints
<1>. QED
  BY <1>6, <1>7, <1>8, <1>9, <1>10, <1>11, <1>12 DEF TellInv

LEMMA SameSequence ==
    ASSUME NEW S, NEW s \in Seq(S), NEW t \in Seq(S), Len(s) = Len(t),
           \A k \in 1 .. Len(s) : s[k] = t[k]
    PROVE  s = t
  OBVIOUS

LEMMA WholeSequence ==
    ASSUME NEW S, NEW s \in Seq(S), NEW n, n = Len(s)
    PROVE  SubSeq(s, 1, n) = s
<1>1. PICK c : c = SubSeq(s, 1, n)
  OBVIOUS
<1>2. c \in Seq(S) /\ Len(c) = Len(s) /\ \A k \in 1 .. Len(s) : c[k] = s[k]
  BY <1>1
<1>. QED
  BY <1>1, <1>2, SameSequence

(* What is appended does not change the beginning. *)
LEMMA Beginnings ==
    ASSUME NEW S, NEW s \in Seq(S), NEW e \in S, NEW n \in 0 .. Len(s)
    PROVE  SubSeq(Append(s, e), 1, n) = SubSeq(s, 1, n)
<1>0. PICK t : t = Append(s, e)
  OBVIOUS
<1>1. /\ t \in Seq(S) /\ t = Append(s, e) /\ Len(s) \in Nat /\ Len(t) = Len(s) + 1
      /\ \A k \in 1 .. Len(s) : t[k] = s[k]
  BY <1>0
<1>2. Len(s) \in Nat /\ Len(t) = Len(s) + 1
  BY <1>1
<1>3. PICK a, b : a = SubSeq(t, 1, n) /\ b = SubSeq(s, 1, n)
  OBVIOUS
<1>4. /\ a \in Seq(S) /\ Len(a) = n /\ \A k \in 1 .. n : a[k] = t[k]
      /\ b \in Seq(S) /\ Len(b) = n /\ \A k \in 1 .. n : b[k] = s[k]
  BY <1>1, <1>2, <1>3
<1>5. \A k \in 1 .. n : a[k] = b[k]
  BY <1>1, <1>2, <1>4
<1>6. a = b
  BY <1>4, <1>5, SameSequence
<1>. QED
  BY <1>1, <1>3, <1>6

(* The trace accounts for one event more. *)
LEMMA TraceOne ==
    ASSUME TypeOK, TellInv, InTrace, Recording, ~Quiet, Event.kind \in RuleEventKinds,
           delivered' = Append(delivered, Head(pending)), adapter' = adapter,
           filtered' = filtered + IF Fate = "filtered" THEN 1 ELSE 0,
           dropped' = dropped + IF Fate = "dropped" THEN 1 ELSE 0,
           emitted' = emitted + IF Fate = "emitted" THEN 1 ELSE 0,
           spanEvents' = IF Fate = "emitted" THEN Append(spanEvents, Event) ELSE spanEvents
    PROVE  InTrace'
<1>1. PICK limit \in Nat : limit = adapter.eventLimit /\ limit = adapter'.eventLimit
  BY DEF TellInv, TellTypes, AdapterSpace
<1>2. PICK s \in Seq(EventSpace) : s = Eligible
  BY DEF TellInv, TellTypes
<1>3. PICK e \in EventSpace : e = Event
  BY HeadIsAnEvent
<1>4. Told \in Seq(EventSpace) /\ Told' = Append(Told, e)
  BY <1>3, Delivering DEF TellInv, TellTypes
<1>5. Len(Told) \in Nat /\ Len(Told') = Len(Told) + 1
  BY <1>4
<1>6. /\ Len(s) \in Nat /\ emitted \in Nat /\ dropped \in Nat /\ filtered \in Nat
      /\ emitted = Least(limit, Len(s)) /\ spanEvents = SubSeq(s, 1, emitted)
      /\ filtered = Len(Told) - Len(s) /\ dropped = Len(s) - emitted
  BY <1>1, <1>2 DEF InTrace, TellInv, TellTypes
<1>7. ASSUME emitted' = Least(limit, Len(Eligible')), spanEvents' = SubSeq(Eligible', 1, emitted'),
             filtered' = (Len(Told) + 1) - Len(Eligible'), dropped' = Len(Eligible') - emitted'
      PROVE  InTrace'
  BY <1>1, <1>5, <1>7 DEF InTrace
<1>8. CASE e.order \notin adapter.traceRules
  <2>1. Fate = "filtered"
    BY <1>3, <1>8 DEF Fate
  <2>2. Eligible' = s
    BY <1>2, <1>3, <1>8, Delivering DEF Of
  <2>. QED
    <3>1. /\ emitted' = emitted /\ dropped' = dropped /\ filtered' = filtered + 1
          /\ spanEvents' = spanEvents
      BY <1>6, <2>1
    <3>2. \A l, n \in Nat : (l + 1) - n = (l - n) + 1
      OBVIOUS
    <3>3. filtered' = (Len(Told) + 1) - Len(Eligible')
      BY <1>5, <1>6, <2>2, <3>1, <3>2
    <3>4. emitted' = Least(limit, Len(Eligible')) /\ spanEvents' = SubSeq(Eligible', 1, emitted')
      BY <1>6, <2>2, <3>1
    <3>5. dropped' = Len(Eligible') - emitted'
      BY <1>6, <2>2, <3>1
    <3>. QED
      BY <1>7, <3>3, <3>4, <3>5
<1>9. CASE e.order \in adapter.traceRules
  <2>1. Eligible' = Append(s, e) /\ Len(Eligible') = Len(s) + 1
    BY <1>2, <1>3, <1>9, Delivering DEF Of
  <2>2. CASE emitted >= limit
    <3>1. Fate = "dropped"
      BY <1>1, <1>3, <1>9, <2>2 DEF Fate
    <3>2. emitted = limit /\ limit <= Len(s)
      BY <1>6, <2>2 DEF Least
    <3>3. emitted' = emitted /\ dropped' = dropped + 1 /\ filtered' = filtered
          /\ spanEvents' = spanEvents
      BY <1>6, <3>1
    <3>4. SubSeq(Append(s, e), 1, limit) = SubSeq(s, 1, limit)
      BY <1>6, <3>2, Beginnings
    <3>5. Least(limit, Len(s) + 1) = limit
      BY <1>6, <3>2 DEF Least
    <3>6. emitted' = Least(limit, Len(Eligible'))
      BY <2>1, <3>2, <3>3, <3>5
    <3>7. spanEvents' = SubSeq(Eligible', 1, emitted')
      BY <1>6, <2>1, <3>2, <3>3, <3>4
    <3>8. /\ filtered' = (Len(Told) + 1) - Len(Eligible')
          /\ dropped' = Len(Eligible') - emitted'
      <4>1. Len(Told) \in Nat /\ Len(Eligible') = Len(s) + 1
        BY <1>5, <2>1
      <4>2. /\ Len(s) \in Nat /\ emitted \in Nat
            /\ filtered = Len(Told) - Len(s) /\ dropped = Len(s) - emitted
        BY <1>6
      <4>3. \A l, n, k \in Nat : (l + 1) - (n + 1) = l - n /\ (n + 1) - k = (n - k) + 1
        OBVIOUS
      <4>4. /\ (Len(Told) + 1) - (Len(s) + 1) = Len(Told) - Len(s)
            /\ (Len(s) + 1) - emitted = (Len(s) - emitted) + 1
        BY <4>1, <4>2, <4>3
      <4>. QED
        BY <3>3, <4>1, <4>2, <4>4
    <3>. QED
      BY <1>7, <3>6, <3>7, <3>8
  <2>3. CASE emitted < limit
    <3>1. Fate = "emitted"
      <4>1. ~(emitted >= adapter.eventLimit) /\ Event.order \in adapter.traceRules
        BY <1>1, <1>3, <1>6, <1>9, <2>3
      <4>. QED
        BY <4>1, Zenon DEF Fate
    <3>2. emitted = Len(s) /\ Len(s) < limit
      BY <1>6, <2>3 DEF Least
    <3>3. emitted' = Len(s) + 1 /\ dropped' = dropped /\ filtered' = filtered
          /\ spanEvents' = Append(spanEvents, e)
      BY <1>3, <1>6, <3>1, <3>2
    <3>4. SubSeq(s, 1, Len(s)) = s
      BY WholeSequence
    <3>5. SubSeq(Append(s, e), 1, Len(s) + 1) = Append(s, e)
      <4>1. Append(s, e) \in Seq(EventSpace) /\ Len(Append(s, e)) = Len(s) + 1
        OBVIOUS
      <4>. QED
        BY <4>1, WholeSequence
    <3>6. Least(limit, Len(s) + 1) = Len(s) + 1
      BY <1>6, <3>2 DEF Least
    <3>7. \A l, n \in Nat : (l + 1) - (n + 1) = l - n /\ n - n = (n + 1) - (n + 1)
      OBVIOUS
    <3>8. filtered' = (Len(Told) + 1) - Len(Eligible')
      <4>1. (Len(Told) + 1) - (Len(s) + 1) = Len(Told) - Len(s)
        BY <1>5, <1>6, <3>7
      <4>. QED
        BY <1>6, <2>1, <3>3, <4>1, SMTT(30)
    <3>9. dropped' = Len(Eligible') - emitted'
      BY <1>6, <2>1, <3>2, <3>3, <3>7, SMTT(30)
    <3>10. emitted' = Least(limit, Len(Eligible'))
      BY <2>1, <3>3, <3>6
    <3>11. spanEvents' = SubSeq(Eligible', 1, emitted')
      BY <1>6, <2>1, <3>2, <3>3, <3>4, <3>5
    <3>. QED
      BY <1>7, <3>8, <3>9, <3>10, <3>11
  <2>. QED
    BY <1>6, <2>2, <2>3
<1>. QED
  BY <1>8, <1>9

(* Delivery of an event that is not the last. *)
LEMMA Delivered ==
    ASSUME TypeOK, SpanInv, TellInv, Deliver, Event.kind # "execution-finished"
    PROVE  /\ pc \notin {"start", "done", "unwound"} /\ pc' = pc
           /\ observer' = observer /\ diagnostics' = diagnostics
           /\ ~closed /\ (Sound' <=> Sound) /\ Truth' = Truth /\ stop' = stop
           /\ Len(summary) = 0
<1>1. ~Quiet /\ UNCHANGED <<entries, pc, observer, diagnostics, stop, cond, act>>
  BY Zenon DEF Deliver, setup, control, ledger, history
<1>2. pc \notin {"start", "done", "unwound"} /\ ~closed
  BY <1>1, Attending
<1>3. \A f : Those(f)' = Those(f)
  BY <1>1, TallyFrame
<1>4. summary \in Seq(Nat) /\ ~(Len(summary) > 0)
  BY <1>2 DEF TellInv, TellTypes, Sums
<1>5. Len(summary) = 0
  BY <1>4
<1>. QED
  BY <1>1, <1>2, <1>3, <1>5 DEF Truth, Sound, Healthy

LEMMA RuleEventTells ==
    ASSUME TypeOK, SpanInv, TellInv, RecordRuleEvent
    PROVE  TellInv'
<1>1. /\ ~Quiet /\ Event.kind \in RuleEventKinds /\ step = "record" /\ step' = "idle"
      /\ Deliver /\ adapter' = adapter
      /\ filtered' = filtered + IF Fate = "filtered" THEN 1 ELSE 0
      /\ dropped' = dropped + IF Fate = "dropped" THEN 1 ELSE 0
      /\ emitted' = emitted + IF Fate = "emitted" THEN 1 ELSE 0
      /\ spanEvents' = IF Fate = "emitted" THEN Append(spanEvents, Event) ELSE spanEvents
      /\ UNCHANGED <<span, closed, ends, attributes, incomplete, metrics>>
  BY DEF RecordRuleEvent, Observing, Handled
<1>2. UNCHANGED <<span, closed, attributes, incomplete, clock, summary, ruleCounts>>
  BY <1>1 DEF metrics
<1>3. /\ pc \notin {"start", "done", "unwound"} /\ pc' = pc
      /\ observer' = observer /\ diagnostics' = diagnostics
      /\ ~closed /\ (Sound' <=> Sound) /\ Truth' = Truth /\ stop' = stop
      /\ Len(summary) = 0
  BY <1>1, Delivered DEF RuleEventKinds
<1>4. pc # "initial"
  BY <1>1, Attending DEF RuleEventKinds
<1>5. delivered' = Append(delivered, Head(pending))
  BY <1>1 DEF Deliver
<1>6. /\ Told' = Append(Told, Event)
      /\ Eligible' = IF Event.order \in adapter.traceRules THEN Append(Eligible, Event)
                                                           ELSE Eligible
      /\ Metered' = IF Event.order \in MeteredRules THEN Append(Metered, Event)
                                                           ELSE Metered
  BY <1>1, <1>5, Delivering DEF Of
<1>7. TellTypes'
  <2>1. Event \in EventSpace
    BY <1>1, HeadIsAnEvent
  <2>2. Told' \in Seq(EventSpace) /\ Eligible' \in Seq(EventSpace)
    BY <1>6, <2>1 DEF TellInv, TellTypes
  <2>. QED
    BY <1>1, <1>2, <2>2 DEF TellInv, TellTypes
<1>8. Fresh'
  BY <1>3, <1>4 DEF Fresh
<1>9. Traced'
  <2>1. Sound' => ruleCounts' = Metered'
    BY <1>1, <1>2, <1>3, <1>6 DEF TellInv, Traced
  <2>2. Sound' /\ Recording' => InTrace'
    <3> SUFFICES ASSUME Sound', Recording' PROVE InTrace'
      OBVIOUS
    <3>1. Recording /\ InTrace
      BY <1>2, <1>3 DEF TellInv, Traced, Recording
    <3>. QED
      BY <1>1, <1>5, <3>1, TraceOne
  <2>. QED
    BY <1>1, <2>1, <2>2 DEF Traced
<1>10. Attends'
  BY <1>2, <1>3 DEF TellInv, Attends
<1>11. Settles'
  BY <1>1, <1>3 DEF Settles
<1>12. Sums'
  BY <1>1, <1>2, <1>3 DEF Sums, Share
<1>13. Complaints'
  BY <1>2, <1>3 DEF TellInv, Complaints
<1>. QED
  BY <1>7, <1>8, <1>9, <1>10, <1>11, <1>12, <1>13 DEF TellInv

LEMMA OthersTell ==
    ASSUME TypeOK, SpanInv, TellInv, DescribeSpan \/ IgnoreGroupEvent
    PROVE  TellInv'
<1>1. /\ ~Quiet /\ step # "record" /\ step' = "idle"
      /\ Event.kind \in {"execution-started", "group-resolved", "group-finished"}
      /\ Deliver /\ adapter' = adapter
      /\ UNCHANGED <<spanState, tally, metrics>>
  BY DEF DescribeSpan, IgnoreGroupEvent, Observing, Handled
<1>2. UNCHANGED <<span, closed, spanEvents, attributes, incomplete, emitted, dropped, filtered,
                  clock, summary, ruleCounts>>
  BY <1>1 DEF spanState, tally, metrics
<1>3. /\ pc \notin {"start", "done", "unwound"} /\ pc' = pc
      /\ observer' = observer /\ diagnostics' = diagnostics
      /\ ~closed /\ (Sound' <=> Sound) /\ Truth' = Truth /\ stop' = stop
      /\ Len(summary) = 0
  BY <1>1, Delivered
<1>4. delivered' = Append(delivered, Head(pending))
  BY <1>1 DEF Deliver
<1>5. Told' = Told /\ Eligible' = Eligible /\ Metered' = Metered
  BY <1>1, <1>4, Delivering DEF Of, RuleEventKinds
<1>6. TellTypes'
  BY <1>1, <1>2, <1>5 DEF TellInv, TellTypes
<1>7. Fresh'
  BY <1>2, <1>3, <1>5 DEF TellInv, Fresh
<1>8. Traced'
  BY <1>1, <1>2, <1>3, <1>5 DEF TellInv, Traced, Recording, InTrace, Least
<1>9. Attends'
  BY <1>2, <1>3 DEF TellInv, Attends
<1>10. Settles'
  BY <1>1, <1>3 DEF Settles
<1>11. Sums'
  BY <1>1, <1>2, <1>3 DEF Sums, Share
<1>12. Complaints'
  BY <1>2, <1>3 DEF TellInv, Complaints
<1>. QED
  BY <1>6, <1>7, <1>8, <1>9, <1>10, <1>11, <1>12 DEF TellInv

LEMMA TailEmpty ==
    ASSUME TypeOK, ~Quiet, Len(pending) = 1, pending' = <<>> \/ pending' = Tail(pending)
    PROVE  Quiet'
<1>1. pending \in Seq(EventSpace) /\ pending # <<>>
  BY DEF TypeOK, Quiet
<1>2. Tail(pending) \in Seq(EventSpace) /\ Len(Tail(pending)) = 0
  BY <1>1
<1>3. Tail(pending) = <<>>
  BY <1>2, NoElements
<1>. QED
  BY <1>3 DEF Quiet

(* The first diagnostic. *)
LEMMA OneComplaint ==
    ASSUME TypeOK, ~Quiet, Len(diagnostics) = 0, NEW cause \in {"error", "panic"},
           diagnostics' = Append(diagnostics, [event |-> Head(pending), cause |-> cause])
    PROVE  /\ Len(diagnostics') = 1 /\ 1 \in DOMAIN diagnostics'
           /\ diagnostics'[1].cause = cause /\ diagnostics'[1].event = Event
<1>1. Event \in EventSpace /\ Event = Head(pending) /\ diagnostics \in Seq(DiagnosticSpace)
  BY HeadIsAnEvent DEF TypeOK
<1>2. PICK e \in EventSpace : e = Event
  BY <1>1
<1>3. PICK d \in DiagnosticSpace : d = [event |-> e, cause |-> cause]
  BY DEF DiagnosticSpace
<1>4. d.event = e /\ d.cause = cause
  BY <1>3
<1>5. PICK s \in Seq(DiagnosticSpace) : s = diagnostics
  BY <1>1
<1>6. diagnostics' = Append(s, d) /\ Len(s) = 0
  BY <1>1, <1>2, <1>3, <1>5
<1>7. Len(diagnostics') = 1 /\ 1 \in DOMAIN diagnostics' /\ diagnostics'[1] = d
  <2>1. \A t : t = Append(s, d) => Len(t) = 1 /\ 1 \in DOMAIN t /\ t[1] = d
    BY <1>6
  <2>. QED
    BY <1>6, <2>1
<1>. QED
  BY <1>2, <1>4, <1>7

(* End, with the observer's verdict. *)
LEMMA EndTells ==
    ASSUME TypeOK, SpanInv, TellInv, EndSpan
    PROVE  TellInv'
<1>1. /\ ~Quiet /\ Event.kind = "execution-finished" /\ step = "end" /\ step' = "idle"
      /\ closed' /\ adapter' = adapter /\ Verdict
      /\ UNCHANGED <<span, spanEvents, attributes, incomplete, tally, metrics>>
  BY DEF EndSpan, Observing
<1>2. UNCHANGED <<span, spanEvents, attributes, incomplete, emitted, dropped, filtered,
                  clock, summary, ruleCounts>>
  BY <1>1 DEF tally, metrics
<1>3. observer /\ ~closed /\ pc = "done" /\ Len(pending) = 1 /\ Len(diagnostics) = 0
  BY <1>1, Attending
<1>4. /\ delivered' = Append(delivered, Head(pending))
      /\ UNCHANGED <<setup, control, ledger, history>>
      /\ pending' = <<>> \/ pending' = Tail(pending)
      /\ \/ ~(dropped > 0) /\ UNCHANGED <<observer, diagnostics>>
         \/ /\ dropped > 0 /\ ~observer'
            /\ diagnostics' = Append(diagnostics, [event |-> Head(pending), cause |-> "error"])
  BY <1>1, Zenon DEF Verdict, ObserverFails, Deliver
<1>5. UNCHANGED <<entries, pc, counts, stop, cond, act>>
  BY <1>4, Zenon DEF setup, control, ledger, history
<1>6. Quiet' /\ Len(pending') = 0
  <2>1. Quiet'
    BY <1>1, <1>3, <1>4, TailEmpty
  <2>2. pending' = <<>>
    BY <2>1 DEF Quiet
  <2>3. Len(<<>>) = 0
    OBVIOUS
  <2>. QED
    BY <2>1, <2>2, <2>3
<1>7. Told' = Told /\ Eligible' = Eligible /\ Metered' = Metered
  BY <1>1, <1>4, Delivering DEF Of, RuleEventKinds
<1>8. \A f : Those(f)' = Those(f)
  BY <1>5, TallyFrame
<1>9. Truth' = Truth /\ Settlement' = Settlement
  BY <1>2, <1>5, <1>8 DEF Truth, Settlement
<1>10. diagnostics \in Seq(DiagnosticSpace) /\ Head(pending) \in EventSpace
  BY <1>1, HeadIsAnEvent DEF TypeOK
<1>11. \/ ~(dropped > 0) /\ Len(diagnostics') = 0
       \/ /\ dropped > 0 /\ ~observer' /\ Len(diagnostics') = 1
          /\ diagnostics'[1].cause = "error"
          /\ diagnostics'[1].event.kind = "execution-finished"
  <2>1. CASE ~(dropped > 0) /\ diagnostics' = diagnostics
    BY <1>3, <2>1
  <2>2. CASE /\ dropped > 0 /\ ~observer'
             /\ diagnostics' = Append(diagnostics, [event |-> Head(pending), cause |-> "error"])
    <3>1. Len(diagnostics') = 1 /\ diagnostics'[1].cause = "error" /\ diagnostics'[1].event = Event
      BY <1>1, <1>3, <2>2, OneComplaint
    <3>. QED
      BY <1>1, <2>2, <3>1
  <2>. QED
    BY <1>4, <2>1, <2>2
<1>12. Sound
  <2>1. DOMAIN diagnostics = {}
    BY <1>3, <1>10
  <2>. QED
    BY <1>3, <2>1 DEF Sound, Healthy
<1>13. /\ Recording => InTrace /\ attributes = <<Settlement>>
       /\ ruleCounts = Metered /\ ~incomplete /\ clock # "running" /\ Len(summary) = 5
  BY <1>1, <1>12 DEF TellInv, Traced, Attends, Settles, Sums
<1>14. TellTypes'
  BY <1>1, <1>2, <1>7 DEF TellInv, TellTypes
<1>15. Fresh'
  BY <1>3, <1>5 DEF Fresh
<1>16. Traced'
  BY <1>1, <1>2, <1>7, <1>13 DEF Traced, Recording, InTrace, Least
<1>17. Attends'
  BY <1>1, <1>2, <1>13 DEF Attends
<1>18. Settles'
  <2>1. dropped' > 0 => \E k \in 1 .. Len(diagnostics') : diagnostics'[k].cause = "error"
    BY <1>2, <1>11
  <2>2. Recording' => attributes' = <<Settlement'>>
    BY <1>2, <1>9, <1>13 DEF Recording
  <2>. QED
    BY <1>1, <1>2, <1>6, <1>13, <2>1, <2>2 DEF Settles
<1>19. Sums'
  BY <1>1, <1>2, <1>5, <1>6, <1>9 DEF TellInv, Sums, Share
<1>20. Complaints'
  BY <1>1, <1>2, <1>11, <1>13 DEF Complaints
<1>. QED
  BY <1>14, <1>15, <1>16, <1>17, <1>18, <1>19, <1>20 DEF TellInv

(* A panic of the provider is the end of soundness. *)
LEMMA PanicTells ==
    ASSUME TypeOK, LedgerInv, Tally, ContractInv, SpanInv, TellInv, ProviderPanics
    PROVE  TellInv'
<1>1. /\ ~Quiet /\ closed' = ClosedByPanic /\ step' = "idle" /\ adapter' = adapter
      /\ spanEvents' \in {spanEvents}
            \cup IF step = "record" /\ Fate = "emitted" THEN {Append(spanEvents, Event)} ELSE {}
      /\ ruleCounts' \in {ruleCounts}
            \cup IF step = "idle" /\ Event.kind \in RuleEventKinds
                    /\ Event.order \in MeteredRules
                 THEN {Append(ruleCounts, Event)} ELSE {}
      /\ \/ summary' = summary
         \/ /\ step = "idle" /\ Event.kind = "execution-finished"
            /\ summary' = Append(summary, Added(Totals(Event.counts))[Len(summary) + 1])
      /\ ObserverFails("panic") \/ ObserverUnwinds
      /\ UNCHANGED <<span, incomplete, tally>>
  <2>1. summary' \in {summary}
          \cup IF step = "idle" /\ Event.kind = "execution-finished"
               THEN {Append(summary, Added(Totals(Event.counts))[Len(summary) + 1])} ELSE {}
    BY DEF ProviderPanics
  <2>. QED
    BY <2>1 DEF ProviderPanics
<1>2. emitted' = emitted /\ dropped' = dropped /\ filtered' = filtered
  BY <1>1 DEF tally
<1>3. /\ pending' = <<>> /\ delivered' = Append(delivered, Head(pending))
      /\ UNCHANGED <<entries, stop, cond, act>>
      /\ \/ /\ pc' = pc /\ ~observer'
            /\ diagnostics' = Append(diagnostics, [event |-> Head(pending), cause |-> "panic"])
         \/ pc' = "unwound" /\ diagnostics' = diagnostics
  <2>1. CASE ObserverFails("panic")
    BY <2>1, Zenon DEF ObserverFails, setup, control, ledger, history
  <2>2. CASE ObserverUnwinds
    BY <2>2, Zenon DEF ObserverUnwinds, setup, ledger, history
  <2>. QED
    BY <1>1, <2>1, <2>2
<1>4. Quiet' /\ Len(pending') = 0
  <2>1. Len(<<>>) = 0
    OBVIOUS
  <2>. QED
    BY <1>3, <2>1 DEF Quiet
<1>5. /\ pc \notin {"start", "unwound"} /\ Len(diagnostics) = 0
      /\ Event.kind = "execution-started" <=> pc = "initial"
  BY <1>1, Attending
<1>6. \/ /\ pc' = pc /\ ~observer' /\ Len(diagnostics') = 1
         /\ 1 \in DOMAIN diagnostics' /\ diagnostics'[1].cause = "panic"
      \/ pc' = "unwound" /\ diagnostics' = diagnostics
  <2>1. CASE diagnostics' = Append(diagnostics, [event |-> Head(pending), cause |-> "panic"])
    <3>1. /\ Len(diagnostics') = 1 /\ 1 \in DOMAIN diagnostics'
          /\ diagnostics'[1].cause = "panic"
      BY <1>1, <1>5, <2>1, OneComplaint
    <3>. QED
      BY <1>3, <3>1
  <2>. QED
    BY <1>3, <2>1
<1>7. ~Sound'
  BY <1>6 DEF Sound, Healthy
<1>8. \A f : Those(f)' = Those(f)
  BY <1>3, TallyFrame
<1>9. Truth' = Truth
  BY <1>8 DEF Truth
<1>10. /\ Told' = IF Event.kind \in RuleEventKinds THEN Append(Told, Event) ELSE Told
       /\ Eligible' = IF Of(adapter.traceRules, Event) THEN Append(Eligible, Event)
                                                       ELSE Eligible
       /\ Metered' = IF Of(MeteredRules, Event) THEN Append(Metered, Event)
                                                       ELSE Metered
  BY <1>1, <1>3, Delivering
<1>11. /\ summary' \in Seq(Nat) /\ Len(summary') <= 5
       /\ Len(summary') > 0 => pc \in {"done", "unwound"} /\ stop # "None"
       /\ \A k \in 1 .. Len(summary') : summary'[k] = Share(k)
  <2>1. CASE summary' = summary
    BY <2>1 DEF TellInv, TellTypes, Sums
  <2>2. CASE /\ step = "idle" /\ Event.kind = "execution-finished"
             /\ summary' = Append(summary, Added(Totals(Event.counts))[Len(summary) + 1])
    <3>1. /\ summary' \in Seq(Nat) /\ Len(summary) < 5 /\ Len(summary') = Len(summary) + 1
          /\ Len(summary) \in Nat
          /\ \A k \in 1 .. Len(summary') : summary'[k] = Share(k)
          /\ pc = "done" /\ stop # "None"
      BY <1>1, <2>2, NextCounter
    <3>. QED
      BY <3>1
  <2>. QED
    BY <1>1, <2>1, <2>2
<1>12. TellTypes'
  <2>1. Event \in EventSpace
    BY <1>1, HeadIsAnEvent
  <2>2. Told \in Seq(EventSpace) /\ Eligible \in Seq(EventSpace)
    BY DEF TellInv, TellTypes
  <2>3. Told' \in Seq(EventSpace) /\ Eligible' \in Seq(EventSpace)
    BY <1>10, <2>1, <2>2
  <2>. QED
    BY <1>1, <1>2, <1>11, <2>3 DEF TellInv, TellTypes
<1>13. Fresh'
  <2> SUFFICES ASSUME pc' = "initial"
               PROVE  /\ Told' = <<>> /\ Eligible' = <<>> /\ Metered' = <<>>
                      /\ spanEvents' = <<>> /\ ruleCounts' = <<>>
                      /\ emitted' = 0 /\ dropped' = 0 /\ filtered' = 0
    BY <1>3, <1>5 DEF Fresh
  <2>1. pc = "initial"
    BY <1>3
  <2>2. Event.kind \notin RuleEventKinds
    BY <1>5, <2>1 DEF RuleEventKinds
  <2>3. step # "record"
    BY <2>2 DEF SpanInv, StepFits
  <2>4. Told' = Told /\ Eligible' = Eligible /\ Metered' = Metered
    BY <1>10, <2>2 DEF Of
  <2>5. spanEvents' = spanEvents /\ ruleCounts' = ruleCounts
    BY <1>1, <2>2, <2>3
  <2>. QED
    BY <1>2, <2>1, <2>4, <2>5 DEF TellInv, Fresh
<1>14. Traced' /\ Attends'
  BY <1>7 DEF Traced, Attends
<1>15. Settles'
  BY <1>4, <1>7 DEF Settles
<1>16. Sums'
  BY <1>1, <1>3, <1>4, <1>5, <1>9, <1>11 DEF Sums, Share
<1>17. Complaints'
  BY <1>5, <1>6 DEF Complaints
<1>. QED
  BY <1>12, <1>13, <1>14, <1>15, <1>16, <1>17 DEF TellInv

(* A sound call has closed its span by the time of the cleanup. *)
LEMMA CleanupTells ==
    ASSUME TypeOK, SpanInv, TellInv, Cleanup
    PROVE  TellInv'
<1>1. /\ Returned \/ pc = "unwound"
      /\ UNCHANGED vars /\ adapter' = adapter
      /\ UNCHANGED <<step, span, spanEvents, attributes, tally, metrics>>
      /\ NeedsEnd => closed'
      /\ ~NeedsEnd => closed' = closed /\ incomplete' = incomplete
  BY DEF Cleanup
<1>2. UNCHANGED <<span, spanEvents, attributes, emitted, dropped, filtered, clock, summary,
                  ruleCounts, step>>
  BY <1>1 DEF tally, metrics
<1>3. /\ UNCHANGED <<pc, pending, observer, diagnostics, counts, stop>>
      /\ Quiet' = Quiet /\ Event' = Event
      /\ Told' = Told /\ Eligible' = Eligible /\ Metered' = Metered
      /\ (Sound' <=> Sound) /\ Truth' = Truth
  BY <1>1, Unmoved
<1>4. Sound => closed
  BY <1>1 DEF TellInv, Attends, Returned, Sound
<1>5. Sound => closed' = closed /\ incomplete' = incomplete
  BY <1>1, <1>4 DEF NeedsEnd
<1>6. closed => closed'
  BY <1>1 DEF NeedsEnd
<1>7. Settlement' = Settlement
  BY <1>2, <1>3 DEF Settlement
<1>8. TellTypes'
  BY <1>1, <1>2, <1>3 DEF TellInv, TellTypes
<1>9. Fresh'
  BY <1>2, <1>3 DEF TellInv, Fresh
<1>10. Traced'
  BY <1>1, <1>2, <1>3 DEF TellInv, Traced, Recording, InTrace, Least, MeteredRules
<1>11. Attends'
  BY <1>3, <1>5 DEF TellInv, Attends
<1>12. Settles'
  BY <1>2, <1>3, <1>5, <1>7 DEF TellInv, Settles, Recording
<1>13. Sums'
  BY <1>1, <1>2, <1>3 DEF TellInv, Sums, Share
<1>14. Complaints'
  BY <1>2, <1>3, <1>6 DEF TellInv, Complaints
<1>. QED
  BY <1>8, <1>9, <1>10, <1>11, <1>12, <1>13, <1>14 DEF TellInv

(* The caller's context may end, and nothing may happen. *)
LEMMA StayTells ==
    ASSUME TellInv, UNCHANGED <<setup, control, ledger, observation, history>>,
           UNCHANGED telemetry
    PROVE  TellInv'
<1>1. UNCHANGED <<adapter, step, span, closed, spanEvents, attributes, incomplete, emitted,
                  dropped, filtered, clock, summary, ruleCounts>>
  BY Zenon DEF telemetry, spanState, tally, metrics
<1>2. /\ UNCHANGED <<pc, pending, observer, diagnostics, counts, stop>>
      /\ Quiet' = Quiet /\ Event' = Event
      /\ Told' = Told /\ Eligible' = Eligible /\ Metered' = Metered
      /\ (Sound' <=> Sound) /\ Truth' = Truth
  BY <1>1, Still
<1>3. Settlement' = Settlement
  BY <1>1, <1>2 DEF Settlement
<1>4. TellTypes' /\ Fresh'
  BY <1>1, <1>2 DEF TellInv, TellTypes, Fresh
<1>5. Traced'
  BY <1>1, <1>2 DEF TellInv, Traced, Recording, InTrace, Least, MeteredRules
<1>6. Attends'
  BY <1>1, <1>2 DEF TellInv, Attends
<1>7. Settles'
  BY <1>1, <1>2, <1>3 DEF TellInv, Settles, Recording
<1>8. Sums'
  BY <1>1, <1>2 DEF TellInv, Sums, Share
<1>9. Complaints'
  BY <1>1, <1>2 DEF TellInv, Complaints
<1>. QED
  BY <1>4, <1>5, <1>6, <1>7, <1>8, <1>9 DEF TellInv

LEMMA TellStep ==
    TypeOK /\ LedgerInv /\ Tally /\ ContractInv /\ SpanInv /\ TellInv
      /\ [FireNext]_fireVars => TellInv'
<1> SUFFICES ASSUME TypeOK, LedgerInv, Tally, ContractInv, SpanInv, TellInv,
                    [FireNext]_fireVars
             PROVE  TellInv'
  OBVIOUS
<1>1. CASE CoreStep
  <2>1. UNCHANGED telemetry /\ (Work \/ ContextEnds)
    BY <1>1 DEF CoreStep
  <2>2. ContextEnds => UNCHANGED <<setup, control, ledger, observation, history>>
    BY DEF ContextEnds
  <2>. QED
    BY <2>1, <2>2, WorkTells, StayTells
<1>2. CASE ObserverStep
  BY <1>2, ClockTells, StartTells, OthersTell, CountTells, RuleEventTells, SumTells,
     DurationTells, AttributesTell, EndTells, PanicTells DEF ObserverStep
<1>3. CASE Cleanup
  BY <1>3, CleanupTells
<1>4. CASE UNCHANGED fireVars
  <2>1. UNCHANGED <<setup, control, ledger, observation, history>> /\ UNCHANGED telemetry
    BY <1>4, Zenon DEF fireVars, vars
  <2>. QED
    BY <2>1, StayTells
<1>. QED
  BY <1>1, <1>2, <1>3, <1>4 DEF FireNext, FireDone

LEMMA TellInvariant == FireSpec => [](ContractContext /\ SpanInv /\ TellInv)
<1>1. FireSpec => [](TypeOK /\ LedgerInv)
  BY FireIsExecution, TypeAndLedger, PTL
<1>2. FireSpec => [](ContractContext /\ ContractInv)
  BY FireIsExecution, ContractInvariant, PTL
<1>3. FireSpec => []Tally
  BY FireIsExecution, TallyInvariant, PTL
<1>. QED
  BY <1>1, <1>2, <1>3, SpanInit, SpanStep, TellInit, TellStep, PTL DEF FireSpec

(* A recording span whose provider is sound ends with the first eligible   *)
(* events up to the limit and with attributes that account for every rule  *)
(* event and repeat the Result (SpanTellsTheResult); ErrEventLimit is      *)
(* reported exactly when eligible events were dropped, at the finish event *)
(* and after all the rest (otel/adapter.go:232-274, otel/options.go:20-24). *)
THEOREM SpanTold == FireSpec => []SpanTellsTheResult
<1>1. ASSUME ContractContext, SpanInv, TellInv PROVE SpanTellsTheResult
  <2> USE <1>1 DEF ContractContext
  <2>1. diagnostics \in Seq(DiagnosticSpace) /\ DOMAIN diagnostics = 1 .. Len(diagnostics)
    BY DEF TypeOK
  <2>2. ASSUME NEW k \in DOMAIN diagnostics, diagnostics[k].cause = "error"
        PROVE  /\ diagnostics[k].event.kind = "execution-finished"
               /\ dropped > 0 /\ ends = 1 /\ Len(summary) = 5
    BY <2>1, <2>2 DEF TellInv, Complaints, SpanInv, Closing
  <2>3. ASSUME Returned, Healthy PROVE Sound /\ closed /\ ~incomplete
    BY <2>3 DEF Returned, Sound, TellInv, Attends
  <2>4. ASSUME Returned, Healthy, dropped > 0
        PROVE  \E k \in DOMAIN diagnostics : diagnostics[k].cause = "error"
    BY <2>1, <2>3, <2>4 DEF Returned, TellInv, Settles
  <2>5. ASSUME Returned, Healthy, Recording
        PROVE  /\ spanEvents = SubSeq(Eligible, 1, Least(adapter.eventLimit, Len(Eligible)))
               /\ Len(attributes) = 1
               /\ attributes[1].counts = counts /\ attributes[1].stop = stop
               /\ attributes[1].emitted = Len(spanEvents)
               /\ attributes[1].filtered = Len(Told) - Len(Eligible)
               /\ attributes[1].dropped = Len(Eligible) - Len(spanEvents)
    <3>1. InTrace
      BY <2>3, <2>5 DEF TellInv, Traced
    <3>2. attributes = <<Settlement>>
      BY <2>3, <2>5 DEF Returned, TellInv, Settles
    <3>3. Len(attributes) = 1 /\ attributes[1] = Settlement
      BY <3>2
    <3>4. adapter.eventLimit \in Nat /\ Eligible \in Seq(EventSpace)
      BY DEF TellInv, TellTypes, AdapterSpace
    <3>5. Len(Eligible) \in Nat /\ emitted \in 0 .. Len(Eligible)
      BY <3>1, <3>4 DEF InTrace, Least
    <3>6. Len(spanEvents) = emitted
      <4>1. PICK s \in Seq(EventSpace) : s = Eligible
        BY <3>4
      <4>2. \A n \in 0 .. Len(s) : Len(SubSeq(s, 1, n)) = n
        OBVIOUS
      <4>. QED
        BY <3>1, <3>5, <4>1, <4>2 DEF InTrace
    <3>7. /\ attributes[1].counts = counts /\ attributes[1].stop = stop
          /\ attributes[1].emitted = emitted /\ attributes[1].dropped = dropped
          /\ attributes[1].filtered = filtered
      BY <3>3 DEF Settlement
    <3>. QED
      BY <3>1, <3>3, <3>6, <3>7 DEF InTrace
  <2>. QED
    BY <2>2, <2>3, <2>4, <2>5 DEF SpanTellsTheResult
<1>. QED
  BY <1>1, TellInvariant, PTL

LEMMA TruthCounts ==
    ASSUME ContractContext
    PROVE  Truth = <<1, Count(cond, {"false", "true", "error", "panic"}),
                     Count(cond, {"true"}), Count(act, {"ok"}),
                     Count(cond, {"error", "panic"}) + Count(act, {"error", "panic"})>>
<1>1. \A o \in Rules :
        /\ cond[o] \in {"uncalled", "false", "true", "error", "panic"}
        /\ act[o] # "uncalled" => cond[o] = "true"
  BY DEF ContractContext, TypeOK, SelectionInv, Untouched
<1>2. /\ Those("Evaluated") = {o \in Rules : cond[o] \in {"false", "true", "error", "panic"}}
      /\ Those("Matched") = {o \in Rules : cond[o] \in {"true"}}
      /\ Those("Fired") = {o \in Rules : act[o] \in {"ok"}}
      /\ Those("ConditionFailed") = {o \in Rules : cond[o] \in {"error", "panic"}}
      /\ Those("ActionFailed") = {o \in Rules : act[o] \in {"error", "panic"}}
  BY <1>1 DEF Those, Counted
<1>. QED
  BY <1>2 DEF Truth, Count

(* The execution counters get what really happened or, after a provider    *)
(* fault, a prefix of it, and the rule counters see every delivered event  *)
(* of their rules, filtered or truncated in the trace or not               *)
(* (MetricsTellTheResult; otel/adapter.go:178-192, 232-251).               *)
THEOREM MetricsTold == FireSpec => []MetricsTellTheResult
<1>1. ASSUME ContractContext, SpanInv, TellInv PROVE MetricsTellTheResult
  <2> USE <1>1
  <2>1. summary \in Seq(Nat) /\ DOMAIN summary = 1 .. Len(summary) /\ Len(summary) \in Nat
    BY DEF TellInv, TellTypes
  <2>2. summary # <<>> => Len(summary) > 0
    BY <2>1, NoElements
  <2>3. summary # <<>> => pc = "done" \/ (pc = "unwound" /\ stop # "None")
    BY <2>2 DEF TellInv, Sums
  <2>4. \A k \in DOMAIN summary : summary[k] =
            Added(<<1, Count(cond, {"false", "true", "error", "panic"}),
                    Count(cond, {"true"}), Count(act, {"ok"}),
                    Count(cond, {"error", "panic"}) + Count(act, {"error", "panic"})>>)[k]
    <3>1. \A k \in DOMAIN summary : summary[k] = Share(k) /\ k \in 1 .. 5
      BY <2>1 DEF TellInv, Sums
    <3>2. \A k \in 1 .. 5 : Added(Truth)[k] = Share(k)
      BY DEF Added, Share
    <3>. QED
      BY <3>1, <3>2, TruthCounts
  <2>5. ASSUME Returned, Healthy
        PROVE  Len(summary) = 5 /\ clock # "running" /\ ruleCounts = Metered
    <3>1. Sound /\ closed /\ pc = "done" /\ Quiet
      BY <2>5 DEF Returned, Sound, TellInv, Attends
    <3>2. step # "record"
      BY <3>1 DEF SpanInv, StepFits
    <3>. QED
      BY <3>1, <3>2 DEF TellInv, Settles, Traced
  <2>. QED
    BY <2>3, <2>4, <2>5 DEF MetricsTellTheResult
<1>. QED
  BY <1>1, TellInvariant, PTL
=============================================================================
