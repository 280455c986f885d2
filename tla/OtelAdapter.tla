----------------------------- MODULE OtelAdapter -----------------------------
(***************************************************************************)
(* One call of otel.Adapter.Fire (otel/adapter.go): the core execution     *)
(* with the adapter's private observer, and the deferred cleanup.          *)
(*                                                                         *)
(* Tracer, span and instruments belong to providers outside this           *)
(* repository.  Any call to them may panic, before or after its effect;    *)
(* between two of them the adapter runs without interruption, so a step    *)
(* here is one provider call with the bookkeeping that goes with it.       *)
(***************************************************************************)
EXTENDS Execution, FiniteSets

CONSTANT Adapters   \* the adapter configurations that New can build

(* counters and ruleCounter say which counters are Enabled for the context *)
(* of the call, which is the same one throughout.                          *)
AdapterSpace == [eventLimit : Nat, traceRules : SUBSET Nat, ruleMetrics : SUBSET Nat,
                 counters : SUBSET (1 .. 5), ruleCounter : BOOLEAN]

ASSUME AdaptersAssumption == Adapters \subseteq AdapterSpace

(* Fire appends its observer after every other option. *)
ASSUME ObservedAssumption == \A c \in Configs : c.observer

VARIABLES
    adapter,     \* the adapter's fixed configuration
    step,        \* the provider call that Observe makes next
    span,        \* whether tracer.Start returned a handle, and IsRecording
    closed, emitted, dropped, filtered,
    clock,       \* the duration: off, running or recorded
    ends,        \* history: how often span.End was called
    spanEvents,  \* history: what AddEvent was given
    attributes,  \* history: the final attributes of the span
    incomplete,  \* history: the span was marked as incomplete
    summary,     \* history: what was added to the execution counters in turn
    ruleCounts,  \* history: what the rule event counter was given
    left         \* cleanup has run

spanState == <<span, closed, ends, spanEvents, attributes, incomplete>>
tally == <<emitted, dropped, filtered>>
metrics == <<clock, summary, ruleCounts>>
telemetry == <<adapter, step, spanState, tally, metrics, left>>
fireVars == <<vars, telemetry>>

RuleEventKinds == {"evaluated", "matched", "fired", "failed"}
Event == Head(pending)
Observing(kinds, s) == ~Quiet /\ Event.kind \in kinds /\ step = s
Moves(s) == step' = s /\ UNCHANGED <<vars, adapter, left>>
Handled == Deliver /\ step' = "idle" /\ UNCHANGED <<adapter, left>>

NoSpan == "none"
Recording == span = "recording"

FireInit ==
    /\ Init
    /\ adapter \in Adapters
    /\ step = "idle" /\ span = NoSpan /\ closed = FALSE
    /\ emitted = 0 /\ dropped = 0 /\ filtered = 0
    /\ clock = "off" /\ ends = 0 /\ spanEvents = <<>> /\ attributes = <<>>
    /\ incomplete = FALSE /\ summary = <<>> /\ ruleCounts = <<>>
    /\ left = FALSE

-----------------------------------------------------------------------------
(* Observe, execution started: the histogram is asked, the span is made.   *)
ReadClock ==
    /\ Observing({"execution-started"}, "idle")
    /\ clock' \in {"off", "running"}
    /\ Moves("start")
    /\ UNCHANGED <<spanState, tally, summary, ruleCounts>>

StartSpan ==
    /\ Observing({"execution-started"}, "start")
    /\ span' \in {"recording", "sampled-out"}
    /\ Moves("describe")
    /\ UNCHANGED <<closed, ends, spanEvents, attributes, incomplete, tally, metrics>>

DescribeSpan ==
    /\ Observing({"execution-started"}, "describe")
    /\ Handled
    /\ UNCHANGED <<spanState, tally, metrics>>

-----------------------------------------------------------------------------
(* rule: the rule's counter comes first and knows nothing of the trace.    *)
MeteredRules == IF adapter.ruleCounter THEN adapter.ruleMetrics ELSE {}

CountRuleEvent_Traced ==
    /\ Observing(RuleEventKinds, "idle")
    /\ ruleCounts' = IF Event.order \in MeteredRules \cap adapter.traceRules
                     THEN Append(ruleCounts, Event) ELSE ruleCounts
    /\ Moves("record")
    /\ UNCHANGED <<spanState, tally, clock, summary>>

CountRuleEvent ==
    /\ Observing(RuleEventKinds, "idle")
    /\ ruleCounts' = IF Event.order \in MeteredRules
                     THEN Append(ruleCounts, Event) ELSE ruleCounts
    /\ Moves("record")
    /\ UNCHANGED <<spanState, tally, clock, summary>>

(* What becomes of the event in the trace. *)
Fate_LimitFirst ==
    IF ~Recording THEN "ignored"
    ELSE IF emitted >= adapter.eventLimit THEN "dropped"
    ELSE IF Event.order \notin adapter.traceRules THEN "filtered"
    ELSE "emitted"

Fate ==
    IF ~Recording THEN "ignored"
    ELSE IF Event.order \notin adapter.traceRules THEN "filtered"
    ELSE IF emitted >= adapter.eventLimit THEN "dropped"
    ELSE "emitted"

RecordRuleEvent ==
    /\ Observing(RuleEventKinds, "record")
    /\ filtered' = filtered + IF Fate = "filtered" THEN 1 ELSE 0
    /\ dropped' = dropped + IF Fate = "dropped" THEN 1 ELSE 0
    /\ emitted' = emitted + IF Fate = "emitted" THEN 1 ELSE 0
    /\ spanEvents' = IF Fate = "emitted" THEN Append(spanEvents, Event) ELSE spanEvents
    /\ Handled
    /\ UNCHANGED <<span, closed, ends, attributes, incomplete, metrics>>

IgnoreGroupEvent ==
    /\ Observing({"group-resolved", "group-finished"}, "idle")
    /\ Handled
    /\ UNCHANGED <<spanState, tally, metrics>>

-----------------------------------------------------------------------------
(* finish: five counters in turn, the duration, the attributes, the end.   *)
(* To a counter that is not enabled nothing is added, and nothing is       *)
(* passed over as well: 0 stands for both.                                 *)
Totals(c) == <<1, c["Evaluated"], c["Matched"], c["Fired"], c["Failed"]>>
Added(totals) == [k \in 1 .. 5 |-> IF k \in adapter.counters THEN totals[k] ELSE 0]

AddCounter ==
    /\ Observing({"execution-finished"}, "idle")
    /\ summary' = Append(summary, Added(Totals(Event.counts))[Len(summary) + 1])
    /\ Moves(IF Len(summary') = 5 THEN "duration" ELSE "idle")
    /\ UNCHANGED <<spanState, tally, clock, ruleCounts>>

RecordDuration ==
    /\ Observing({"execution-finished"}, "duration")
    /\ clock' = IF clock = "running" THEN "recorded" ELSE clock
    /\ Moves("attributes")
    /\ UNCHANGED <<spanState, tally, summary, ruleCounts>>

Final(event) ==
    [counts |-> event.counts, stop |-> event.stop,
     emitted |-> emitted, dropped |-> dropped, filtered |-> filtered]

SetAttributes ==
    /\ Observing({"execution-finished"}, "attributes")
    /\ attributes' = IF Recording THEN <<Final(Event)>> ELSE attributes
    /\ Moves("end")
    /\ UNCHANGED <<span, closed, ends, spanEvents, incomplete, tally, metrics>>

(* The observer's verdict on a finished execution: ErrEventLimit or nil.   *)
Verdict == IF dropped > 0 THEN ObserverFails("error") ELSE Deliver

EndSpan ==
    /\ Observing({"execution-finished"}, "end")
    /\ closed' = TRUE
    /\ ends' = ends + 1
    /\ Verdict
    /\ step' = "idle"
    /\ UNCHANGED <<adapter, left, span, spanEvents, attributes, incomplete, tally, metrics>>

-----------------------------------------------------------------------------
(* closed is set before End is called. *)
ClosedByPanic_Late == closed
ClosedByPanic == closed \/ step = "end"

(* The provider call that is due panics; its effect may have taken place.  *)
ProviderPanics ==
    /\ ~Quiet
    /\ Event.kind \notin {"group-resolved", "group-finished"}
    /\ closed' = ClosedByPanic
    /\ ends' = IF step = "end" THEN ends + 1 ELSE ends
    /\ spanEvents' \in {spanEvents}
          \cup IF step = "record" /\ Fate = "emitted" THEN {Append(spanEvents, Event)} ELSE {}
    /\ summary' \in {summary}
          \cup IF step = "idle" /\ Event.kind = "execution-finished"
               THEN {Append(summary, Added(Totals(Event.counts))[Len(summary) + 1])} ELSE {}
    /\ attributes' \in {attributes}
          \cup IF step = "attributes" /\ Recording THEN {<<Final(Event)>>} ELSE {}
    /\ clock' \in {clock}
          \cup IF step = "duration" /\ clock = "running" THEN {"recorded"} ELSE {}
    /\ ruleCounts' \in {ruleCounts}
          \cup IF step = "idle" /\ Event.kind \in RuleEventKinds
                  /\ Event.order \in MeteredRules
               THEN {Append(ruleCounts, Event)} ELSE {}
    /\ ObserverFails("panic") \/ ObserverUnwinds
    /\ step' = "idle"
    /\ UNCHANGED <<adapter, left, span, incomplete, tally>>

(* The deferred cleanup, when the core call has returned or unwound.  Its  *)
(* own provider calls may panic, too; End is called all the same.          *)
NeedsEnd == span # NoSpan /\ ~closed

Cleanup ==
    /\ (Returned \/ pc = "unwound") /\ ~left
    /\ left' = TRUE
    /\ IF NeedsEnd
       THEN closed' = TRUE /\ ends' = ends + 1 /\ incomplete' \in BOOLEAN
       ELSE UNCHANGED <<closed, ends, incomplete>>
    /\ UNCHANGED <<vars, adapter, step, span, spanEvents, attributes, tally, metrics>>

-----------------------------------------------------------------------------
ObserverStep ==
    \/ ReadClock \/ StartSpan \/ DescribeSpan
    \/ CountRuleEvent \/ RecordRuleEvent \/ IgnoreGroupEvent
    \/ AddCounter \/ RecordDuration \/ SetAttributes \/ EndSpan
    \/ ProviderPanics

CoreStep == (Work \/ ContextEnds) /\ UNCHANGED telemetry

FireDone == left /\ UNCHANGED fireVars

FireNext == CoreStep \/ ObserverStep \/ Cleanup \/ FireDone

FireSpec == FireInit /\ [][FireNext]_fireVars
-----------------------------------------------------------------------------
(* The events of these rules, in the order of s. *)
Of(rules, e) == e.kind \in RuleEventKinds /\ e.order \in rules
EventsOf(rules, s) ==
    LET f[n \in 0 .. Len(s)] ==
            IF n = 0 THEN <<>>
            ELSE IF Of(rules, s[n]) THEN Append(f[n - 1], s[n]) ELSE f[n - 1]
    IN  f[Len(s)]

Told == EventsOf(Nat, delivered)
Eligible == EventsOf(adapter.traceRules, delivered)
Metered == EventsOf(MeteredRules, delivered)
Least(m, n) == IF m < n THEN m ELSE n
Healthy == \A k \in DOMAIN diagnostics : diagnostics[k].cause # "panic"

(* A span handle is ended once, whatever panics: a provider call, a        *)
(* business callback, or End itself; and it is never ended while the       *)
(* execution still has events for it (otel/adapter.go:118-123).            *)
SpanEndsOnce ==
    /\ left => ends = IF span = NoSpan THEN 0 ELSE 1
    /\ ends > 0 => Quiet /\ pc \in {"done", "unwound"}

(* A recording span whose provider is sound ends with the first eligible   *)
(* events up to the limit, and attributes that account for every rule      *)
(* event of the call and repeat the Result's counts and stop reason.       *)
(* Exactly when eligible events were dropped, the observer returns its one *)
(* error, ErrEventLimit, at the finish event and after all the rest        *)
(* (otel/options.go:20-24).                                                *)
SpanTellsTheResult ==
    LET limits == {k \in DOMAIN diagnostics : diagnostics[k].cause = "error"}
    IN  /\ \A k \in limits :
             /\ diagnostics[k].event.kind = "execution-finished"
             /\ dropped > 0 /\ ends = 1 /\ Len(summary) = 5
        /\ Returned /\ Healthy /\ dropped > 0 => limits # {}
        /\ left /\ Returned /\ Healthy /\ Recording =>
             /\ ~incomplete
             /\ spanEvents = SubSeq(Eligible, 1, Least(adapter.eventLimit, Len(Eligible)))
             /\ Len(attributes) = 1
             /\ LET a == attributes[1]
                IN  /\ a.counts = counts /\ a.stop = stop
                    /\ a.emitted = Len(spanEvents)
                    /\ a.filtered = Len(Told) - Len(Eligible)
                    /\ a.dropped = Len(Eligible) - Len(spanEvents)

(* How many callbacks came back in one of these ways. *)
Count(outcome, ways) == Cardinality({o \in Rules : outcome[o] \in ways})

(* The enabled execution counters get what really happened or, after a     *)
(* provider fault in finish, a prefix of it; a call that did not finish    *)
(* observation gets no summary.  Enabled rule counters see every delivered *)
(* event of their rules, filtered or truncated in the trace or not         *)
(* (docs/observability.md: "independently of trace filtering or            *)
(* truncation").                                                           *)
MetricsTellTheResult ==
    left =>
      /\ summary # <<>> =>
            /\ pc = "done" \/ (pc = "unwound" /\ stop # "None")
            /\ \A k \in DOMAIN summary : summary[k] =
                    Added(<<1, Count(cond, {"false", "true", "error", "panic"}),
                            Count(cond, {"true"}), Count(act, {"ok"}),
                            Count(cond, {"error", "panic"}) + Count(act, {"error", "panic"})>>)[k]
      /\ Returned /\ Healthy =>
            /\ Len(summary) = 5
            /\ clock # "running"
            /\ ruleCounts = Metered
=============================================================================
