--------------------------- MODULE ExecutionResult ---------------------------
(***************************************************************************)
(* The Result that Execution leaves behind: the views that are computed    *)
(* from its sparse ledger (result.go, group_result.go), and what they and  *)
(* the observed events must say about the callbacks that really ran.       *)
(***************************************************************************)
EXTENDS Execution, FiniteSets, SequencesExt

EntryOf(o) == CHOOSE k \in 1 .. Len(entries) : o \in entries[k].start .. entries[k].end - 1

(* slices.BinarySearchFunc over the records, which stay sorted by order:   *)
(* the position that divides the smaller ones from the rest, when the      *)
(* record found there is the rule's own; 0 otherwise.                      *)
FindRecord_Behind(o) ==
    LET at == CHOOSE i \in 1 .. Len(records) + 1 :
                /\ \A k \in 1 .. i - 1 : records[k].order <= o
                /\ \A k \in i .. Len(records) : records[k].order > o
    IN  IF at <= Len(records) /\ records[at].order = o THEN at ELSE 0

FindRecord(o) ==
    LET at == CHOOSE i \in 1 .. Len(records) + 1 :
                /\ \A k \in 1 .. i - 1 : records[k].order < o
                /\ \A k \in i .. Len(records) : records[k].order >= o
    IN  IF at <= Len(records) /\ records[at].order = o THEN at ELSE 0

NoFailure == [order |-> NoRule, phase |-> "condition", cause |-> "none", continued |-> FALSE]

View(state, failure, notEvaluated) ==
    [state |-> state, failure |-> failure, notEvaluated |-> notEvaluated,
     skip |-> IF state = "Skipped" THEN "ContextDone" ELSE "NotSkipped"]

Bypassed_AfterSelection(g, o) == g.state = "Resolved" /\ o > g.selected
Bypassed(g, o) == g.state = "Resolved" /\ o >= g.skippedFrom

ruleAt(o) ==
    LET found == FindRecord(o)
    IN  IF Bypassed(groups[EntryOf(o)], o)
        THEN View("NotEvaluated", NoFailure, "GroupResolved")
        ELSE IF o >= evaluatedThrough
        THEN View("NotEvaluated", NoFailure, "ExecutionStopped")
        ELSE IF found = 0 THEN View("Unmatched", NoFailure, "None")
        ELSE LET r == records[found]
             IN  View(r.state,
                      IF r.state = "Failed" THEN failures[r.failure] ELSE NoFailure,
                      "None")

(* What a view answers: RuleExecution.Matched, ActionStarted and Error. *)
HasMatched(v) ==
    \/ v.state \in {"Fired", "Skipped"}
    \/ v.state = "Failed" /\ v.failure.phase = "action"
ActionStarted(v) == HasMatched(v) /\ v.state # "Skipped"
Error(v) == IF v.state = "Failed" THEN v.failure ELSE NoFailure

groupAt_Raw(k) == groups[k]
groupAt(k) ==
    IF groups[k].state = "NotEntered"
    THEN [groups[k] EXCEPT !.endReason = "ExecutionStopped", !.stop = stop]
    ELSE groups[k]

(* Result.Matched and Result.Fired: one pass over the records, in          *)
(* observation order.                                                      *)
Kept(keep) ==
    LET ids[n \in 0 .. Len(records)] ==
            IF n = 0 THEN <<>>
            ELSE IF n \in keep THEN Append(ids[n - 1], records[n].order) ELSE ids[n - 1]
    IN  ids[Len(records)]

Matched == Kept({n \in 1 .. Len(records) :
                    \/ records[n].state # "Failed"
                    \/ failures[records[n].failure].phase = "action"})
Fired == Kept({n \in 1 .. Len(records) : records[n].state = "Fired"})

-----------------------------------------------------------------------------
(* What happened, from the callbacks alone. *)
TrueState(o) ==
    CASE cond[o] = "uncalled" -> "NotEvaluated"
      [] cond[o] = "false" -> "Unmatched"
      [] cond[o] = "true" /\ act[o] = "ok" -> "Fired"
      [] cond[o] = "true" /\ act[o] = "uncalled" -> "Skipped"
      [] OTHER -> "Failed"

Where(P(_)) == {o \in Rules : P(o)}

(* s lists the members of S, each once, in increasing order. *)
InOrder(s, S) ==
    /\ {s[k] : k \in DOMAIN s} = S
    /\ \A j, k \in DOMAIN s : j < k => s[j] < s[k]

GroupEntries == {k \in 1 .. Len(entries) : entries[k].kind # "rules"}

(* Selections of group k, by its criterion. *)
Selections(k) == {o \in Members(k) : Selects(k, o)}

(* The complete event stream that the callbacks and the Result call for. *)
RuleStory(o) ==
    LET k == EntryOf(o)
        event(kind, outcome) == <<[kind |-> kind, order |-> o, outcome |-> outcome]>>
        resolved(kind) ==
            IF entries[k].kind # kind THEN <<>>
            ELSE <<[kind |-> "group-resolved", entry |-> k,
                    view |-> [state |-> "Resolved", endReason |-> "None",
                              stop |-> "None", selected |-> o,
                              skippedFrom |-> entries[k].end]]>>
    IN  CASE cond[o] = "uncalled" -> <<>>
          [] cond[o] = "false" -> event("evaluated", "false")
          [] cond[o] \in {"error", "panic"} ->
                event("evaluated", "error") \o event("failed", "error")
          [] cond[o] = "true" ->
                event("evaluated", "true") \o event("matched", "true")
                \o resolved("first-match")
                \o CASE act[o] = "uncalled" -> <<>>
                     [] act[o] = "ok" -> event("fired", "not-evaluated")
                                         \o resolved("first-fire")
                     [] OTHER -> event("failed", "not-evaluated")

EntryStory(k) ==
    FlattenSeq([n \in 1 .. entries[k].end - entries[k].start |->
                    RuleStory(entries[k].start + n - 1)])
    \o IF k \in GroupEntries /\ groups[k].state # "NotEntered"
       THEN <<[kind |-> "group-finished", entry |-> k, view |-> groupAt(k)]>>
       ELSE <<>>

Story ==
    <<[kind |-> "execution-started",
       counts |-> [ZeroCounts EXCEPT !["NotEvaluated"] = Total], stop |-> "None"]>>
    \o FlattenSeq([k \in 1 .. Len(entries) |-> EntryStory(k)])
    \o <<[kind |-> "execution-finished", counts |-> counts, stop |-> stop]>>

-----------------------------------------------------------------------------
(* Each count of the Result is the number of rules to which that really   *)
(* happened (Counts, result.go:9-32): the engine's running increments,     *)
(* spread over a dozen exits of executeRules, neither miss nor repeat one. *)
CountsAreTrue ==
    Returned =>
      counts =
        [Evaluated |-> Cardinality(Where(LAMBDA o : cond[o] # "uncalled")),
         NotEvaluated |-> Cardinality(Where(LAMBDA o : cond[o] = "uncalled")),
         Matched |-> Cardinality(Where(LAMBDA o : cond[o] = "true")),
         Unmatched |-> Cardinality(Where(LAMBDA o : TrueState(o) = "Unmatched")),
         Fired |-> Cardinality(Where(LAMBDA o : TrueState(o) = "Fired")),
         Skipped |-> Cardinality(Where(LAMBDA o : TrueState(o) = "Skipped")),
         Failed |-> Cardinality(Where(LAMBDA o : TrueState(o) = "Failed")),
         ConditionFailed |-> Cardinality(Where(LAMBDA o : cond[o] \in {"error", "panic"})),
         ActionFailed |-> Cardinality(Where(LAMBDA o : act[o] \in {"error", "panic"})),
         PanicRecovered |-> Cardinality(Where(LAMBDA o : "panic" \in {cond[o], act[o]}))]

(* Result.Rule, computed by a search of the sparse records, a frontier  *)
(* and the group suffixes, says of every rule what its callbacks did, with *)
(* the failure that is its own; Matched and Fired list the same rules in   *)
(* order (result.go:167-244, 309-336).                                     *)
ViewsAreTrue ==
    Returned =>
      /\ \A o \in Rules :
          /\ ruleAt(o).state = TrueState(o)
          /\ HasMatched(ruleAt(o)) = (cond[o] = "true")
          /\ ActionStarted(ruleAt(o)) = (act[o] # "uncalled")
          /\ (Error(ruleAt(o)) = NoFailure) = (TrueState(o) # "Failed")
          /\ TrueState(o) = "Failed" =>
               LET f == Error(ruleAt(o))
               IN  /\ f.order = o
                   /\ f.cause = IF f.phase = "condition" THEN cond[o] ELSE act[o]
      /\ InOrder(Matched, Where(LAMBDA o : cond[o] = "true"))
      /\ InOrder(Fired, Where(LAMBDA o : act[o] = "ok"))

(* The reason given for a condition that was never called agrees with the  *)
(* group's own end: "group resolved" exactly when the rule's group ended   *)
(* locally after selecting an earlier member, "execution stopped" when a   *)
(* global stop won, even at the selection boundary (result.go:63-71).      *)
HolesAreExplained ==
    Returned =>
      \A o \in Rules :
        LET k == EntryOf(o)
            local == k \in GroupEntries /\ groupAt(k).endReason = "Resolved"
        IN  IF cond[o] # "uncalled" THEN ruleAt(o).notEvaluated = "None"
            ELSE /\ ruleAt(o).notEvaluated =
                        IF local THEN "GroupResolved" ELSE "ExecutionStopped"
                 /\ ~local => stop # "Completed"

(* A group view tells which member met the criterion, if any did, and how  *)
(* the group ended, as GroupResult documents it (group_result.go:99-146).  *)
GroupsAreTrue ==
    Returned =>
      \A k \in GroupEntries :
        LET view == groupAt(k)
        IN  /\ {view.selected} \ {NoRule} = Selections(k)
            /\ (view.state = "Resolved") = (Selections(k) # {})
            /\ view.state = "NotEntered" =>
                 \A o \in Members(k) : cond[o] = "uncalled"
            /\ view.endReason = "Exhausted" =>
                 view.state = "Exhausted" /\ \A o \in Members(k) : cond[o] # "uncalled"
            /\ view.endReason # "None"
            /\ view.stop = IF view.endReason = "ExecutionStopped" THEN stop ELSE "None"
            /\ view.endReason = "ExecutionStopped" => stop \notin {"None", "Completed"}

(* An observer that stays healthy is handed exactly the events the Result  *)
(* calls for, in order, with group snapshots equal to Result.Group and the *)
(* final counts (observer.go:103-114, 135-138, 195-213); one that fails    *)
(* was handed a prefix of them, and the last is the diagnostic's event.    *)
EventsTellTheStory ==
    Returned =>
      IF observer THEN delivered = Story /\ diagnostics = <<>>
      ELSE IF config.observer
      THEN /\ Len(diagnostics) = 1
           /\ IsPrefix(delivered, Story)
           /\ Last(delivered) = diagnostics[1].event
      ELSE delivered = <<>> /\ diagnostics = <<>>

(* Fire's error holds every failure once, in order, then what was observed *)
(* of the context: its error and, when it differs, its cause.  The context *)
(* is observed whenever it had ended before a callback returned; a nil     *)
(* error means that nothing went wrong (engine.go:72-75,                   *)
(* execution_internal.go:209-238).                                         *)
ErrorIsComplete ==
    LET ending == <<ctx.err>> \o IF ctx.cause THEN <<"cause">> ELSE <<>>
        observed == SubSeq(causes, Len(failures) + 1, Len(causes))
    IN
    Returned =>
      /\ IsPrefix(failures, causes)
      /\ observed # <<>> => [k \in DOMAIN observed |-> observed[k].cause] = ending
      /\ late => observed # <<>>
      /\ stop \in ContextStops => observed # <<>>
      /\ InOrder([k \in DOMAIN failures |-> failures[k].order],
                 Where(LAMBDA o : TrueState(o) = "Failed"))
      /\ \A k \in DOMAIN failures :
            failures[k].continued =
              /\ failures[k].cause = "error"
              /\ (IF failures[k].phase = "condition" THEN config.conditionErrors
                                                     ELSE config.actionErrors)
                   = "ContinueOnError"

(* Facts already told are never rewritten: the end of a group, its         *)
(* selection, and the records and failures of rules that have finished     *)
(* ("A later global stop does not rewrite an earlier group's end facts",   *)
(* group_result.go:133-136).                                               *)
FactsAreFinal ==
    [][/\ IsPrefix(records, records') /\ IsPrefix(failures, failures')
       /\ \A k \in DOMAIN groups :
            /\ groups[k].endReason # "None" => groups'[k] = groups[k]
            /\ groups[k].selected # NoRule => groups'[k].selected = groups[k].selected
       /\ stop # "None" => stop' = stop]_vars

-----------------------------------------------------------------------------
(* The business outcome is the one FireContract allows, whatever the       *)
(* observer does.                                                          *)
Contract == INSTANCE FireContract WITH
    verdict <- IF pc = "unwound" THEN "unwound" ELSE IF Returned THEN stop ELSE "open"

ImplementsContract == Contract!Spec
=============================================================================
