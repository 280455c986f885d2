--------------------------- MODULE ExecutionProofs ---------------------------
(***************************************************************************)
(* Theorems about Execution and about what Fire returns                    *)
(* (ExecutionResult), for every layout, configuration, context end,        *)
(* callback outcome and observer outcome.                                  *)
(***************************************************************************)
EXTENDS ExecutionResult, FiniteSetTheorems, WellFoundedInduction, TLAPS

(* Sequences over an arbitrary set, stated once so that the sets of        *)
(* records below stay folded.                                              *)
LEMMA ElementOfSeq ==
    ASSUME NEW S, NEW s \in Seq(S), NEW k \in 1 .. Len(s)
    PROVE  s[k] \in S
  OBVIOUS

LEMMA SeqTyping ==
    ASSUME NEW S
    PROVE  /\ <<>> \in Seq(S)
           /\ \A a \in S : <<a>> \in Seq(S)
           /\ \A a, b \in S : <<a, b>> \in Seq(S)
           /\ \A s \in Seq(S), a \in S : Append(s, a) \in Seq(S)
           /\ \A s, t \in Seq(S) : s \o t \in Seq(S)
           /\ \A s \in Seq(S) : s # <<>> => Head(s) \in S /\ Tail(s) \in Seq(S)
  OBVIOUS

(* The facts about a captured snapshot that the proofs use. *)
LEMMA LayoutFacts ==
    ASSUME entries \in Layouts
    PROVE  /\ Len(entries) \in Nat \ {0}
           /\ \A k \in 1 .. Len(entries) :
                /\ entries[k].kind \in GroupKinds \cup {"rules"}
                /\ entries[k].start \in Nat /\ entries[k].end \in Nat
                /\ entries[k].start <= entries[k].end
                /\ entries[k].end <= Total
           /\ \A k \in 1 .. Len(entries) - 1 : entries[k + 1].start = entries[k].end
           /\ \A j, k \in 1 .. Len(entries) : j < k => entries[j].end <= entries[k].start
           /\ entries[1].start = 0
           /\ Total \in Nat
<1>1. Compiled(entries)
  BY LayoutsAssumption
<1>2. /\ entries \in Seq([kind : GroupKinds \cup {"rules"}, start : Nat, end : Nat])
      /\ entries # <<>>
  BY <1>1 DEF Compiled
<1>3. Len(entries) \in Nat \ {0}
  BY <1>2
<1>4. \A k \in 1 .. Len(entries) :
        entries[k] \in [kind : GroupKinds \cup {"rules"}, start : Nat, end : Nat]
  BY <1>2, ElementOfSeq
<1>5. \A k \in 1 .. Len(entries) :
        /\ entries[k].kind \in GroupKinds \cup {"rules"}
        /\ entries[k].start \in Nat /\ entries[k].end \in Nat
  BY <1>4
<1>6. \A k \in 1 .. Len(entries) : entries[k].end <= Total
  <2> SUFFICES ASSUME NEW k \in 1 .. Len(entries) PROVE entries[k].end <= Total
    OBVIOUS
  <2>1. CASE k = Len(entries)
    BY <2>1, <1>3, <1>5 DEF Total
  <2>2. CASE k < Len(entries)
    <3>1. Len(entries) \in 1 .. Len(entries)
      BY <1>3
    <3>2. /\ entries[k].end <= entries[Len(entries)].start
          /\ entries[Len(entries)].start <= entries[Len(entries)].end
      BY <1>1, <2>2, <3>1 DEF Compiled
    <3>. QED
      BY <1>5, <3>1, <3>2 DEF Total
  <2>. QED
    BY <1>3, <2>1, <2>2
<1>7. Total \in Nat
  BY <1>3, <1>5 DEF Total
<1>. QED
  BY <1>1, <1>3, <1>5, <1>6, <1>7 DEF Compiled

-----------------------------------------------------------------------------
(* Type correctness. *)

LEMMA TypeInit == Init => TypeOK
<1> SUFFICES ASSUME Init PROVE TypeOK
  OBVIOUS
<1>1. /\ entries \in Layouts /\ config \in Configs
      /\ ctx \in {Live} \cup Endings
  BY DEF Init, Layouts, Configs
<1>2. Len(entries) \in Nat
  BY <1>1, LayoutFacts
<1>3. NoGroup \in GroupSpace
  BY DEF NoGroup, GroupSpace, Stops
<1>4. groups \in [1 .. Len(entries) -> GroupSpace]
  BY <1>2, <1>3 DEF Init
<1>5. counts \in CountSpace
  BY DEF Init, ZeroCounts, CountSpace
<1>6. config.observer \in BOOLEAN
  BY <1>1, ConfigsAssumption DEF ConfigSpace
<1>7. /\ cond \in [Rules -> {"uncalled", "false", "true", "error", "panic"}]
      /\ act \in [Rules -> {"uncalled", "ok", "error", "panic"}]
  BY DEF Init
<1>. QED
  BY <1>1, <1>4, <1>5, <1>6, <1>7, SeqTyping DEF Init, TypeOK, PCs, Stops

(* Everything that Emit can queue is an event. *)
LEMMA EventTypes ==
    ASSUME TypeOK
    PROVE  /\ \A kind \in {"evaluated", "matched", "fired", "failed"} :
              \A outcome \in {"false", "true", "error", "not-evaluated"} :
                RuleEvent(kind, outcome) \in EventSpace
           /\ \A kind \in {"execution-started", "execution-finished"} :
              \A c \in CountSpace : \A s \in Stops :
                SummaryEvent(kind, c, s) \in EventSpace
           /\ \A kind \in {"group-resolved", "group-finished"} :
              \A g \in GroupSpace : GroupEvent(kind, g) \in EventSpace
  BY DEF TypeOK, EventSpace, RuleEvent, SummaryEvent, GroupEvent

LEMMA EmitType ==
    ASSUME TypeOK, NEW events \in Seq(EventSpace), Emit(events)
    PROVE  /\ pending' \in Seq(EventSpace)
           /\ delivered' \in Seq(EventSpace)
           /\ diagnostics' \in Seq(DiagnosticSpace)
           /\ observer' \in BOOLEAN
  BY SeqTyping DEF TypeOK, Emit

LEMMA ContextCausesType ==
    ASSUME TypeOK
    PROVE  ContextCauses \in Seq(CauseSpace) /\ ContextStop \in Stops
<1>1. Done => ctx.err \in {"canceled", "deadline"}
  BY EndingsAssumption DEF TypeOK, Done, Live, EndingSpace
<1>2. ContextStop \in Stops
  BY DEF ContextStop, Stops, ContextStops
<1>3. \A what \in {"canceled", "deadline", "cause"} :
        [order |-> NoRule, phase |-> "context", cause |-> what, continued |-> FALSE]
          \in CauseSpace
  BY DEF CauseSpace
<1>. QED
  BY <1>1, <1>2, <1>3, SeqTyping DEF ContextCauses

LEMMA IncrementType ==
    ASSUME counts \in CountSpace, NEW fields, Increment(fields)
    PROVE  counts' \in CountSpace
  BY DEF CountSpace, Increment

LEMMA FailType ==
    ASSUME TypeOK, NEW phase \in {"condition", "action"},
           NEW cause \in {"error", "panic"}, NEW continued \in BOOLEAN,
           Fail(phase, cause, continued)
    PROVE  /\ records' \in Seq(RecordSpace)
           /\ failures' \in Seq(CauseSpace)
           /\ causes' \in Seq(CauseSpace)
           /\ counts' \in CountSpace
<1>1. [order |-> order, phase |-> phase, cause |-> cause, continued |-> continued]
        \in CauseSpace
  BY DEF TypeOK, CauseSpace
<1>2. Len(failures) + 1 \in Nat
  BY DEF TypeOK
<1>3. [order |-> order, state |-> "Failed", failure |-> Len(failures) + 1]
        \in RecordSpace
  BY <1>2 DEF TypeOK, RecordSpace
<1>4. counts' \in CountSpace
  BY IncrementType DEF TypeOK, Fail, FailedIn
<1>. QED
  BY <1>1, <1>3, <1>4, SeqTyping DEF TypeOK, Fail, FailedIn

LEMMA RecordType ==
    ASSUME TypeOK, NEW state \in {"Fired", "Skipped"}, Record(state)
    PROVE  records' \in Seq(RecordSpace)
<1>1. [order |-> order, state |-> state, failure |-> 0] \in RecordSpace
  BY DEF TypeOK, RecordSpace
<1>. QED
  BY <1>1, SeqTyping DEF TypeOK, Record

(* Writing a typed record for one group keeps groups typed. *)
LEMMA GroupsType ==
    ASSUME TypeOK, NEW k \in 1 .. Len(entries), NEW g \in GroupSpace,
           groups' = [groups EXCEPT ![k] = g]
    PROVE  groups' \in [1 .. Len(entries) -> GroupSpace]
  BY DEF TypeOK

LEMMA GroupValues ==
    ASSUME TypeOK, NEW g \in GroupSpace
    PROVE  /\ Resolved(g) \in GroupSpace
           /\ Ended(g) \in GroupSpace
           /\ [g EXCEPT !.state = "Exhausted"] \in GroupSpace
           /\ \A n \in Nat : [g EXCEPT !.skippedFrom = n] \in GroupSpace
           /\ \A n \in Nat :
                [NoGroup EXCEPT !.state = "Interrupted", !.skippedFrom = n] \in GroupSpace
  BY DEF TypeOK, GroupSpace, Resolved, Ended, NoGroup, Stops

LEMMA TypeStep == TypeOK /\ LedgerInv /\ [Next]_vars => TypeOK'
<1> SUFFICES ASSUME TypeOK, LedgerInv, [Next]_vars PROVE TypeOK'
  OBVIOUS
<1> USE DEF LedgerInv
<1> USE DEF setup, control, ledger, observation, history
<1>1. /\ Len(entries) \in Nat \ {0} /\ Total \in Nat
      /\ \A k \in 1 .. Len(entries) : entries[k].start \in Nat /\ entries[k].end \in Nat
  BY LayoutFacts DEF TypeOK
<1>2. \A k \in 1 .. Len(entries) : groups[k] \in GroupSpace
  BY DEF TypeOK
<1>3. pc \in AtRule \cup {"advance", "stop"} => entry \in 1 .. Len(entries)
  BY DEF Position
<1>4. NoGroup \in GroupSpace
  BY DEF NoGroup, GroupSpace, Stops
<1>5. CASE Start
  <2>1. [counts EXCEPT !["NotEvaluated"] = Total] \in CountSpace
    BY <1>1 DEF TypeOK, CountSpace, CountFields
  <2>2. <<SummaryEvent("execution-started", [counts EXCEPT !["NotEvaluated"] = Total], stop)>>
          \in Seq(EventSpace)
    BY <2>1, EventTypes, SeqTyping DEF TypeOK
  <2>. QED
    BY <1>5, <2>2, EmitType DEF Start, TypeOK, PCs, Rules, Total
<1>6. CASE PassInitialCheck \/ EnterRules \/ NextRule
  <2>1. EnterRules => Here.start \in Nat
    BY <1>1 DEF EnterRules, At, Position, Here, TypeOK
  <2>. QED
    BY <1>6, <2>1 DEF PassInitialCheck, EnterRules, NextRule, TypeOK, PCs, Rules, Total
<1>7. CASE Interrupt
  <2>1. /\ causes' \in Seq(CauseSpace) /\ stop' \in Stops
    BY <1>7, ContextCausesType, SeqTyping DEF Interrupt, TypeOK
  <2>2. /\ records' \in Seq(RecordSpace) /\ counts' \in CountSpace
    BY <1>7, RecordType, IncrementType DEF Interrupt, TypeOK
  <2>. QED
    BY <1>7, <2>1, <2>2 DEF Interrupt, TypeOK, PCs, Rules, Total
<1>8. CASE EnterGroup
  <2>1. entry \in 1 .. Len(entries)
    BY <1>8, <1>1 DEF EnterGroup, TypeOK, Position, At
  <2>2. groups' \in [1 .. Len(entries) -> GroupSpace]
    BY <1>8, <2>1, <1>1, <1>4, GroupValues, GroupsType DEF EnterGroup, Here
  <2>. QED
    BY <1>8, <2>1, <2>2, <1>1 DEF EnterGroup, TypeOK, PCs, Here, Rules, Total
<1>9. CASE BeginCondition
  BY <1>9, IncrementType DEF BeginCondition, TypeOK, PCs, Rules, Total
<1>10. CASE ConditionFalse
  <2>1. <<RuleEvent("evaluated", "false")>> \in Seq(EventSpace)
    BY EventTypes, SeqTyping
  <2>. QED
    BY <1>10, <2>1, EmitType, IncrementType
    DEF ConditionFalse, ConditionReturns, TypeOK, PCs, Rules, Total
<1>11. CASE ConditionTrue
  <2>1. Resolved(groups[entry]) \in GroupSpace
    BY <1>11, <1>2, <1>3, GroupValues DEF ConditionTrue, ConditionReturns, At, AtRule, Visiting
  <2>2. groups' \in [1 .. Len(entries) -> GroupSpace]
    BY <1>11, <2>1, <1>3, GroupsType
    DEF ConditionTrue, ConditionReturns, TypeOK, At, AtRule, Visiting
  <2>3. <<RuleEvent("evaluated", "true"), RuleEvent("matched", "true")>>
          \o (IF Here.kind = "first-match"
               THEN <<GroupEvent("group-resolved", Resolved(groups[entry]))>> ELSE <<>>)
        \in Seq(EventSpace)
    BY <2>1, EventTypes, SeqTyping
  <2>. QED
    BY <1>11, <2>2, <2>3, EmitType
    DEF ConditionTrue, ConditionReturns, TypeOK, PCs, Rules, Total
<1>12. CASE ConditionError
  <2>1. <<RuleEvent("evaluated", "error"), RuleEvent("failed", "error")>> \in Seq(EventSpace)
    BY EventTypes, SeqTyping
  <2>. QED
    BY <1>12, <2>1, EmitType, FailType
    DEF ConditionError, ConditionReturns, TypeOK, PCs, Rules, Total
<1>13. CASE ConditionPanic
  <2>1. <<RuleEvent("evaluated", "error"), RuleEvent("failed", "error")>> \in Seq(EventSpace)
    BY EventTypes, SeqTyping
  <2>. QED
    BY <1>13, <2>1, EmitType, FailType
    DEF ConditionPanic, ConditionReturns, TypeOK, PCs, Stops, Rules, Total
<1>14. CASE ConditionUnwinds \/ ActionUnwinds
  BY <1>14 DEF ConditionUnwinds, ActionUnwinds, ConditionReturns, ActionReturns,
               TypeOK, PCs, Rules, Total
<1>15. CASE AfterPanic
  BY <1>15, ContextCausesType, SeqTyping DEF AfterPanic, TypeOK, PCs, Rules, Total
<1>16. CASE AfterCondition
  BY <1>16 DEF AfterCondition, Decide, TypeOK, PCs, Stops, Rules, Total
<1>17. CASE ActionOk
  <2>1. Resolved(groups[entry]) \in GroupSpace
    BY <1>17, <1>2, <1>3, GroupValues DEF ActionOk, ActionReturns, At, AtRule, Visiting
  <2>2. groups' \in [1 .. Len(entries) -> GroupSpace]
    BY <1>17, <2>1, <1>3, GroupsType
    DEF ActionOk, ActionReturns, TypeOK, At, AtRule, Visiting
  <2>3. <<RuleEvent("fired", "not-evaluated")>>
          \o (IF Here.kind = "first-fire"
               THEN <<GroupEvent("group-resolved", Resolved(groups[entry]))>> ELSE <<>>)
        \in Seq(EventSpace)
    BY <2>1, EventTypes, SeqTyping
  <2>4. records' \in Seq(RecordSpace) /\ counts' \in CountSpace
    BY <1>17, RecordType, IncrementType DEF ActionOk, TypeOK
  <2>. QED
    BY <1>17, <2>2, <2>3, <2>4, EmitType
    DEF ActionOk, ActionReturns, TypeOK, PCs, Rules, Total
<1>18. CASE ActionError
  <2>1. <<RuleEvent("failed", "not-evaluated")>> \in Seq(EventSpace)
    BY EventTypes, SeqTyping
  <2>. QED
    BY <1>18, <2>1, EmitType, FailType
    DEF ActionError, ActionReturns, TypeOK, PCs, Rules, Total
<1>19. CASE ActionPanic
  <2>1. <<RuleEvent("failed", "not-evaluated")>> \in Seq(EventSpace)
    BY EventTypes, SeqTyping
  <2>. QED
    BY <1>19, <2>1, EmitType, FailType
    DEF ActionPanic, ActionReturns, TypeOK, PCs, Stops, Rules, Total
<1>20. CASE AfterAction
  <2>1. PolicyStop \in Stops
    BY DEF PolicyStop, Stops
  <2>2. entry \in 1 .. Len(entries)
    BY <1>20, <1>3 DEF AfterAction, At, AtRule, Visiting
  <2>3. order + 1 \in Nat
    BY DEF TypeOK
  <2>4. [groups[entry] EXCEPT !.skippedFrom = order + 1] \in GroupSpace
    BY <1>2, <2>2, <2>3, GroupValues
  <2>5. groups' \in [1 .. Len(entries) -> GroupSpace]
    BY <1>20, <2>2, <2>4, GroupsType DEF AfterAction, TypeOK
  <2>. QED
    BY <1>20, <2>1, <2>3, <2>5 DEF AfterAction, TypeOK, PCs, Rules, Total
<1>21. CASE Exhaust
  <2>1. entry \in 1 .. Len(entries)
    BY <1>21, <1>3 DEF Exhaust, At, AtRule
  <2>2. [groups[entry] EXCEPT !.state = "Exhausted"] \in GroupSpace
    BY <1>2, <2>1, GroupValues
  <2>3. groups' \in [1 .. Len(entries) -> GroupSpace]
    BY <1>21, <2>1, <2>2, GroupsType DEF Exhaust, TypeOK
  <2>. QED
    BY <1>21, <2>3 DEF Exhaust, TypeOK, PCs, Rules, Total
<1>22. CASE Leave
  <2>1. entry \in 1 .. Len(entries)
    BY <1>22, <1>3 DEF Leave
  <2>2. Ended(groups[entry]) \in GroupSpace
    BY <1>2, <2>1, GroupValues
  <2>3. groups' \in [1 .. Len(entries) -> GroupSpace]
    BY <1>22, <2>1, <2>2, GroupsType DEF Leave, TypeOK
  <2>4. <<GroupEvent("group-finished", Ended(groups[entry]))>> \in Seq(EventSpace)
    BY <2>2, EventTypes, SeqTyping
  <2>5. /\ pending' \in Seq(EventSpace) /\ delivered' \in Seq(EventSpace)
        /\ diagnostics' \in Seq(DiagnosticSpace) /\ observer' \in BOOLEAN
    BY <1>22, <2>4, EmitType DEF Leave, TypeOK
  <2>. QED
    BY SMTT(30), <1>22, <2>3, <2>5 DEF Leave, TypeOK, PCs, Rules, Total
<1>23. CASE Complete
  BY <1>23 DEF Complete, TypeOK, PCs, Stops, Rules, Total
<1>24. CASE Finish
  <2>1. /\ counts["Evaluated"] \in Nat /\ evaluatedThrough \in Nat
        /\ counts["Evaluated"] <= evaluatedThrough /\ evaluatedThrough <= Total
    BY <1>24 DEF Finish, At, TypeOK, CountSpace, CountFields, CountsPartition, Position
  <2>2. Total - counts["Evaluated"] \in Nat
    BY <2>1, <1>1
  <2>3. counts' \in CountSpace
    BY <1>24, <2>2 DEF Finish, TypeOK, CountSpace, CountFields
  <2>4. <<SummaryEvent("execution-finished", counts', stop)>> \in Seq(EventSpace)
    BY <2>3, EventTypes, SeqTyping DEF TypeOK
  <2>. QED
    BY <1>24, <2>3, <2>4, EmitType DEF Finish, TypeOK, PCs, Rules, Total
<1>25. CASE Deliver
  BY <1>25, SeqTyping DEF Deliver, Quiet, TypeOK, Rules, Total
<1>26. ASSUME NEW cause \in {"error", "panic"}, ObserverFails(cause) PROVE TypeOK'
  <2>1. [event |-> Head(pending), cause |-> cause] \in DiagnosticSpace
    BY <1>26, SeqTyping DEF ObserverFails, Quiet, TypeOK, DiagnosticSpace
  <2>. QED
    BY <1>26, <2>1, SeqTyping DEF ObserverFails, Quiet, TypeOK, Rules, Total
<1>27. CASE ObserverUnwinds
  BY <1>27, SeqTyping DEF ObserverUnwinds, Quiet, TypeOK, PCs, Rules, Total
<1>28. CASE ContextEnds
  BY <1>28 DEF ContextEnds, TypeOK, Rules, Total
<1>29. CASE Terminated \/ UNCHANGED vars
  BY <1>29 DEF Terminated, vars, TypeOK, Rules, Total
<1>. QED
  BY <1>5, <1>6, <1>7, <1>8, <1>9, <1>10, <1>11, <1>12, <1>13, <1>14, <1>15, <1>16,
     <1>17, <1>18, <1>19, <1>20, <1>21, <1>22, <1>23, <1>24, <1>25, <1>26, <1>27,
     <1>28, <1>29 DEF Next, Step, Work, Observe

-----------------------------------------------------------------------------
(* The cursor. *)

LEMMA PositionStep == TypeOK /\ Position /\ [Next]_vars => Position'
<1> SUFFICES ASSUME TypeOK, Position, [Next]_vars PROVE Position'
  OBVIOUS
<1> USE DEF setup, control, ledger, observation, history, At, Position, AtRule, Visiting
<1>1. /\ Len(entries) \in Nat \ {0} /\ Total \in Nat
      /\ \A k \in 1 .. Len(entries) :
            /\ entries[k].start \in Nat /\ entries[k].end \in Nat
            /\ entries[k].start <= entries[k].end /\ entries[k].end <= Total
      /\ \A k \in 1 .. Len(entries) - 1 : entries[k + 1].start = entries[k].end
      /\ entries[1].start = 0
  BY LayoutFacts DEF TypeOK
<1>2. entry \in Nat /\ order \in Nat /\ evaluatedThrough \in Nat
  BY DEF TypeOK
<1>3. entries' = entries => Total' = Total /\ \A k : entries'[k] = entries[k]
  BY DEF Total
<1>4. CASE Start
  BY <1>3, <1>4 DEF Start
<1>5. CASE PassInitialCheck
  BY <1>1, <1>3, <1>5 DEF PassInitialCheck, Here
<1>6. CASE Interrupt
  BY <1>1, <1>2, <1>3, <1>6 DEF Interrupt, Here
<1>7. CASE EnterRules
  BY <1>1, <1>2, <1>3, <1>7 DEF EnterRules, Here
<1>8. CASE EnterGroup
  BY <1>1, <1>2, <1>3, <1>8 DEF EnterGroup, Here
<1>9. CASE NextRule
  BY <1>3, <1>9 DEF NextRule, Here
<1>10. CASE BeginCondition
  BY <1>1, <1>2, <1>3, <1>10 DEF BeginCondition, Here
<1>11. CASE ConditionFalse \/ ConditionTrue \/ ConditionError \/ ConditionPanic
            \/ ConditionUnwinds
  BY <1>3, <1>11 DEF ConditionFalse, ConditionTrue, ConditionError, ConditionPanic,
                     ConditionUnwinds, ConditionReturns, Here
<1>12. CASE AfterPanic
  BY <1>1, <1>2, <1>3, <1>12 DEF AfterPanic, Here
<1>13. CASE AfterCondition
  BY <1>1, <1>2, <1>3, <1>13 DEF AfterCondition, Decide, Here
<1>14. CASE ActionOk \/ ActionError \/ ActionPanic \/ ActionUnwinds
  BY <1>3, <1>14 DEF ActionOk, ActionError, ActionPanic, ActionUnwinds, ActionReturns, Here
<1>15. CASE AfterAction
  BY <1>1, <1>2, <1>3, <1>15 DEF AfterAction, Here
<1>16. CASE Exhaust
  BY <1>1, <1>2, <1>3, <1>16 DEF Exhaust, Here
<1>17. CASE Leave
  <2>1. CASE pc = "stop"
    BY <1>3, <1>17, <2>1 DEF Leave
  <2>2. CASE pc = "advance"
    <3>1. /\ entry \in 1 .. Len(entries) /\ evaluatedThrough <= entries[entry].end
          /\ entry' = entry + 1 /\ pc' = "entry"
          /\ entries' = entries /\ evaluatedThrough' = evaluatedThrough
      BY <1>17, <2>2 DEF Leave, Here
    <3>2. CASE entry = Len(entries)
      BY <1>1, <1>3, <3>1, <3>2 DEF Here, Total
    <3>3. CASE entry # Len(entries)
      <4>1. entry \in 1 .. Len(entries) - 1
        BY <1>1, <3>1, <3>3
      <4>2. entries[entry + 1].start = entries[entry].end
        BY <1>1, <4>1
      <4>. QED
        BY <1>1, <1>3, <3>1, <4>1, <4>2 DEF Here
    <3>. QED
      BY <3>2, <3>3
  <2>. QED
    BY <1>17, <2>1, <2>2 DEF Leave
<1>18. CASE Complete \/ Finish
  BY <1>3, <1>18 DEF Complete, Finish
<1>19. CASE Deliver \/ (\E cause \in {"error", "panic"} : ObserverFails(cause))
            \/ ContextEnds \/ Terminated \/ UNCHANGED vars
  BY <1>3, <1>19 DEF Deliver, ObserverFails, ContextEnds, Terminated, vars, Here
<1>20. CASE ObserverUnwinds
  BY <1>3, <1>20 DEF ObserverUnwinds
<1>. QED
  BY <1>4, <1>5, <1>6, <1>7, <1>8, <1>9, <1>10, <1>11, <1>12, <1>13, <1>14, <1>15,
     <1>16, <1>17, <1>18, <1>19, <1>20 DEF Next, Step, Work, Observe

-----------------------------------------------------------------------------
(* The records. *)

LEMMA RecordOrders ==
    ASSUME TypeOK
    PROVE  \A k \in 1 .. Len(records) : records[k].order \in Nat
<1>1. \A k \in 1 .. Len(records) : records[k] \in RecordSpace
  BY ElementOfSeq DEF TypeOK
<1>. QED
  BY <1>1 DEF RecordSpace

LEMMA SortedAppend ==
    ASSUME TypeOK, RecordsSorted, NEW r, r.order = order,
           records' = Append(records, r),
           \A k \in 1 .. Len(records) : records[k].order < order,
           evaluatedThrough' = order + 1, ~(pc' = "inCondition" \/ Matching')
    PROVE  RecordsSorted'
<1>1. Len(records) \in Nat /\ order \in Nat
  BY DEF TypeOK
<1>2. /\ Len(records') = Len(records) + 1
      /\ records'[Len(records) + 1].order = order
      /\ \A k \in 1 .. Len(records) : records'[k] = records[k]
  BY DEF TypeOK
<1>3. \A k \in 1 .. Len(records) : records[k].order \in Nat
  BY RecordOrders DEF TypeOK
<1>. QED
  BY SMTT(30), <1>1, <1>2, <1>3 DEF RecordsSorted

LEMMA SortedStep == TypeOK /\ Position /\ RecordsSorted /\ [Next]_vars => RecordsSorted'
<1> SUFFICES ASSUME TypeOK, Position, RecordsSorted, [Next]_vars PROVE RecordsSorted'
  OBVIOUS
<1> USE DEF setup, control, ledger, observation, history, At, AtRule, Visiting
<1>1. /\ order \in Nat /\ evaluatedThrough \in Nat
      /\ \A k \in 1 .. Len(records) : records[k].order \in Nat
  BY RecordOrders DEF TypeOK
<1>2. ASSUME pc \in Visiting
      PROVE  order \in Rules /\ evaluatedThrough = order + 1
  <2>1. /\ entry \in 1 .. Len(entries) /\ Here.start <= order /\ order < Here.end
        /\ evaluatedThrough = order + 1
    BY <1>2 DEF Position
  <2>2. Here.end \in Nat /\ Here.end <= Total /\ Total \in Nat
    BY <2>1, LayoutFacts DEF TypeOK, Here
  <2>. QED
    BY <1>1, <2>1, <2>2 DEF Rules
<1>3. CASE Interrupt
  <2>1. CASE pc = "conditionDone" /\ cond[order] = "true"
    <3>1. /\ records' = Append(records, [order |-> order, state |-> "Skipped", failure |-> 0])
          /\ evaluatedThrough' = order + 1 /\ pc' = "stop"
      BY <1>2, <1>3, <2>1 DEF Interrupt, Record
    <3>. QED
      BY <2>1, <3>1, SortedAppend DEF RecordsSorted, Matching
  <2>2. CASE ~(pc = "conditionDone" /\ cond[order] = "true")
    BY <1>3, <2>2 DEF Interrupt, RecordsSorted, Matching
  <2>. QED
    BY <2>1, <2>2
<1>4. CASE BeginCondition
  <2>1. /\ evaluatedThrough <= order /\ evaluatedThrough' = order + 1 /\ order' = order
        /\ records' = records
    BY <1>4 DEF BeginCondition, Position
  <2>. QED
    BY <1>1, <2>1 DEF RecordsSorted
<1>5. CASE ConditionError \/ ConditionPanic
  <2>1. \E cause, continued : Fail("condition", cause, continued)
    BY <1>5 DEF ConditionError, ConditionPanic
  <2>2. \E r : r.order = order /\ records' = Append(records, r)
    BY <2>1 DEF Fail
  <2>3. /\ pc = "inCondition" /\ evaluatedThrough' = evaluatedThrough /\ order' = order
        /\ pc' \in {"conditionDone", "panicked"} /\ cond'[order] \in {"error", "panic"}
    BY <1>2, <1>5 DEF ConditionError, ConditionPanic, ConditionReturns, TypeOK
  <2>. QED
    BY <1>2, <2>2, <2>3, SortedAppend DEF RecordsSorted, Matching
<1>6. CASE ConditionFalse \/ ConditionTrue \/ ConditionUnwinds
  BY <1>6 DEF ConditionFalse, ConditionTrue, ConditionUnwinds, ConditionReturns,
              RecordsSorted, Matching
<1>7. CASE AfterCondition
  BY <1>7 DEF AfterCondition, Decide, RecordsSorted, Matching
<1>8. CASE ActionOk \/ ActionError \/ ActionPanic
  <2>1. \/ Record("Fired")
        \/ \E cause, continued : Fail("action", cause, continued)
    BY <1>8 DEF ActionOk, ActionError, ActionPanic
  <2>2. \E r : r.order = order /\ records' = Append(records, r)
    BY <2>1 DEF Fail, Record
  <2>3. /\ pc = "action" /\ evaluatedThrough' = evaluatedThrough
        /\ pc' \in {"actionDone", "panicked"}
    BY <1>8 DEF ActionOk, ActionError, ActionPanic, ActionReturns
  <2>. QED
    BY <1>2, <2>2, <2>3, SortedAppend DEF RecordsSorted, Matching
<1>9. CASE ActionUnwinds \/ AfterPanic \/ AfterAction \/ Exhaust \/ Leave \/ Complete
           \/ Finish \/ ObserverUnwinds \/ Start \/ PassInitialCheck \/ EnterRules
           \/ NextRule
  BY <1>9 DEF ActionUnwinds, ActionReturns, AfterPanic, AfterAction, Exhaust, Leave, Complete,
              Finish, ObserverUnwinds, Start, PassInitialCheck, EnterRules, NextRule,
              RecordsSorted, Matching
<1>10. CASE EnterGroup
  BY <1>10 DEF EnterGroup, RecordsSorted, Matching
<1>11. CASE Deliver \/ (\E cause \in {"error", "panic"} : ObserverFails(cause))
            \/ ContextEnds \/ Terminated \/ UNCHANGED vars
  BY <1>11 DEF Deliver, ObserverFails, ContextEnds, Terminated, vars, RecordsSorted, Matching
<1>. QED
  BY <1>3, <1>4, <1>5, <1>6, <1>7, <1>8, <1>9, <1>10, <1>11 DEF Next, Step, Work, Observe
-----------------------------------------------------------------------------
(* The counts. *)

LEMMA FieldValues ==
    ASSUME counts \in CountSpace, NEW fields, Increment(fields)
    PROVE  \A f \in CountFields :
             /\ counts[f] \in Nat
             /\ f \in fields => counts'[f] = counts[f] + 1
             /\ f \notin fields => counts'[f] = counts[f]
  BY DEF CountSpace, Increment

LEMMA PartitionStep ==
    TypeOK /\ Position /\ CountsPartition /\ [Next]_vars => CountsPartition'
<1> SUFFICES ASSUME TypeOK, Position, CountsPartition, [Next]_vars PROVE CountsPartition'
  OBVIOUS
<1> USE DEF setup, control, ledger, observation, history, At, AtRule, Visiting
<1> counts \in CountSpace
  BY DEF TypeOK
<1>1. /\ order \in Nat /\ evaluatedThrough \in Nat /\ Total \in Nat
  BY LayoutFacts DEF TypeOK
<1>2. ASSUME pc \in Visiting
      PROVE  order \in Rules /\ evaluatedThrough = order + 1
  <2>1. /\ entry \in 1 .. Len(entries) /\ Here.start <= order /\ order < Here.end
        /\ evaluatedThrough = order + 1
    BY <1>2 DEF Position
  <2>2. Here.end \in Nat /\ Here.end <= Total
    BY <2>1, LayoutFacts DEF TypeOK, Here
  <2>. QED
    BY <1>1, <2>1, <2>2 DEF Rules
<1>3. CASE Interrupt
  <2>1. CASE pc = "conditionDone" /\ cond[order] = "true"
    <3>1. Increment({"Matched", "Skipped"})
      BY <1>3, <2>1 DEF Interrupt
    <3>2. pc' = "stop" /\ evaluatedThrough' = evaluatedThrough
      BY <1>3, <2>1 DEF Interrupt
    <3>3. InFlight = 1 /\ InFlight' = 0
      BY <2>1, <3>2 DEF InFlight, Matching
    <3>. QED
      BY <2>1, <3>1, <3>2, <3>3, FieldValues DEF CountsPartition, CountFields
  <2>2. CASE ~(pc = "conditionDone" /\ cond[order] = "true")
    BY <1>3, <2>2 DEF Interrupt, CountsPartition, InFlight, Matching
  <2>. QED
    BY <2>1, <2>2
<1>4. CASE BeginCondition
  <2>1. /\ Increment({"Evaluated"}) /\ pc = "condition" /\ pc' = "inCondition"
        /\ evaluatedThrough <= order /\ evaluatedThrough' = order + 1
    BY <1>4 DEF BeginCondition, Position
  <2>2. InFlight = 0 /\ InFlight' = 1
    BY <2>1 DEF InFlight, Matching
  <2>. QED
    BY <1>1, <2>1, <2>2, FieldValues DEF CountsPartition, CountFields
<1>5. CASE ConditionFalse
  <2>1. /\ Increment({"Unmatched"}) /\ pc = "inCondition" /\ pc' = "conditionDone"
        /\ cond'[order'] = "false" /\ evaluatedThrough' = evaluatedThrough
    BY <1>2, <1>5 DEF ConditionFalse, ConditionReturns, TypeOK
  <2>2. InFlight = 1 /\ InFlight' = 0
    BY <2>1 DEF InFlight, Matching
  <2>. QED
    BY <2>1, <2>2, FieldValues DEF CountsPartition, CountFields
<1>6. CASE ConditionTrue
  <2>1. /\ counts' = counts /\ pc = "inCondition" /\ pc' = "conditionDone"
        /\ cond'[order'] = "true" /\ evaluatedThrough' = evaluatedThrough
    BY <1>2, <1>6 DEF ConditionTrue, ConditionReturns, TypeOK
  <2>2. InFlight = 1 /\ InFlight' = 1
    BY <2>1 DEF InFlight, Matching
  <2>. QED
    BY <2>1, <2>2, FieldValues DEF CountsPartition, CountFields
<1>7. CASE ConditionError
  <2>1. /\ Increment({"Failed", "ConditionFailed"})
        /\ pc = "inCondition" /\ pc' = "conditionDone"
        /\ cond'[order'] = "error" /\ evaluatedThrough' = evaluatedThrough
    BY <1>2, <1>7 DEF ConditionError, ConditionReturns, Fail, FailedIn, Increment, TypeOK
  <2>2. InFlight = 1 /\ InFlight' = 0
    BY <2>1 DEF InFlight, Matching
  <2>. QED
    BY <2>1, <2>2, FieldValues DEF CountsPartition, CountFields
<1>8. CASE ConditionPanic
  <2>1. /\ Increment({"Failed", "ConditionFailed", "PanicRecovered"})
        /\ pc = "inCondition" /\ pc' = "panicked" /\ evaluatedThrough' = evaluatedThrough
    BY <1>8 DEF ConditionPanic, ConditionReturns, Fail, FailedIn, Increment
  <2>2. InFlight = 1 /\ InFlight' = 0
    BY <2>1 DEF InFlight, Matching
  <2>. QED
    BY <2>1, <2>2, FieldValues DEF CountsPartition, CountFields
<1>9. CASE AfterCondition
  BY <1>9 DEF AfterCondition, Decide, CountsPartition, InFlight, Matching
<1>10. CASE ActionOk
  <2>1. /\ Increment({"Matched", "Fired"}) /\ pc = "action" /\ pc' = "actionDone"
        /\ evaluatedThrough' = evaluatedThrough
    BY <1>10 DEF ActionOk, ActionReturns
  <2>2. InFlight = 1 /\ InFlight' = 0
    BY <2>1 DEF InFlight, Matching
  <2>3. /\ counts'["Fired"] = counts["Fired"] + 1 /\ counts'["Matched"] = counts["Matched"] + 1
        /\ \A f \in CountFields \ {"Fired", "Matched"} : counts'[f] = counts[f]
        /\ \A f \in CountFields : counts[f] \in Nat
    BY <2>1, FieldValues DEF CountFields
  <2>. QED
    BY <2>1, <2>2, <2>3 DEF CountsPartition, CountFields
<1>11. CASE ActionError
  <2>1. /\ Increment({"Failed", "ActionFailed", "Matched"})
        /\ pc = "action" /\ pc' = "actionDone" /\ evaluatedThrough' = evaluatedThrough
    BY <1>11 DEF ActionError, ActionReturns, Fail, FailedIn, Increment
  <2>2. InFlight = 1 /\ InFlight' = 0
    BY <2>1 DEF InFlight, Matching
  <2>. QED
    BY <2>1, <2>2, FieldValues DEF CountsPartition, CountFields
<1>12. CASE ActionPanic
  <2>1. /\ Increment({"Failed", "ActionFailed", "Matched", "PanicRecovered"})
        /\ pc = "action" /\ pc' = "panicked" /\ evaluatedThrough' = evaluatedThrough
    BY <1>12 DEF ActionPanic, ActionReturns, Fail, FailedIn, Increment
  <2>2. InFlight = 1 /\ InFlight' = 0
    BY <2>1 DEF InFlight, Matching
  <2>. QED
    BY <2>1, <2>2, FieldValues DEF CountsPartition, CountFields
<1>13. CASE ConditionUnwinds \/ ActionUnwinds \/ ObserverUnwinds
  BY <1>13 DEF ConditionUnwinds, ActionUnwinds, ObserverUnwinds, CountsPartition
<1>14. CASE AfterPanic \/ AfterAction \/ Exhaust \/ Leave \/ Complete
           \/ Start \/ PassInitialCheck \/ EnterRules \/ NextRule
  BY <1>14 DEF AfterPanic, AfterAction, Exhaust, Leave, Complete, Start, PassInitialCheck,
              EnterRules, NextRule, CountsPartition, InFlight, Matching
<1>15. CASE EnterGroup
  BY <1>15 DEF EnterGroup, CountsPartition, InFlight, Matching
<1>16. CASE Finish
  <2>1. counts["Evaluated"] <= Total
    BY <1>1, <1>16 DEF Finish, CountsPartition, Position, CountSpace, CountFields
  <2>2. Total' = Total
    BY <1>16 DEF Finish, Total
  <2>. QED
    BY <1>1, <1>16, <2>1, <2>2
    DEF Finish, CountsPartition, CountSpace, CountFields, InFlight, Matching
<1>17. CASE Deliver \/ (\E cause \in {"error", "panic"} : ObserverFails(cause))
            \/ ContextEnds \/ Terminated \/ UNCHANGED vars
  <2>1. Total' = Total
    BY <1>17 DEF Deliver, ObserverFails, ContextEnds, Terminated, vars, Total
  <2>. QED
    BY <1>17, <2>1 DEF Deliver, ObserverFails, ContextEnds, Terminated, vars, CountsPartition, InFlight, Matching
<1>. QED
  BY <1>3, <1>4, <1>5, <1>6, <1>7, <1>8, <1>9, <1>10, <1>11, <1>12, <1>13, <1>14, <1>15,
     <1>16, <1>17 DEF Next, Step, Work, Observe

LEMMA LedgerInit == Init => LedgerInv
<1> SUFFICES ASSUME Init PROVE LedgerInv
  OBVIOUS
<1>1. entries \in Layouts
  BY DEF Init, Layouts
<1>2. Total \in Nat
  BY <1>1, LayoutFacts
<1>3. Position
  BY <1>2 DEF Init, Position, AtRule, Visiting
<1>4. RecordsSorted
  BY DEF Init, RecordsSorted
<1>5. CountsPartition
  BY DEF Init, CountsPartition, ZeroCounts, CountFields, InFlight, Matching
<1>. QED
  BY <1>3, <1>4, <1>5 DEF LedgerInv

(* Type correctness and the ledger's invariant hold together: the types    *)
(* need the cursor to stay inside its entry, the cursor needs the types.   *)
THEOREM TypeAndLedger == Spec => [](TypeOK /\ LedgerInv)
<1>1. Init => TypeOK /\ LedgerInv
  BY TypeInit, LedgerInit
<1>2. TypeOK /\ LedgerInv /\ [Next]_vars => TypeOK' /\ LedgerInv'
  BY TypeStep, PositionStep, SortedStep, PartitionStep DEF LedgerInv
<1>. QED
  BY <1>1, <1>2, PTL DEF Spec

(* Every variable keeps the shape the code gives it (TypeOK). *)
THEOREM TypeCorrect == Spec => []TypeOK
  BY TypeAndLedger, PTL

(* The ledger is right at every step: the cursor, the sorted records that  *)
(* ruleAt searches and the running counts of executeRules (LedgerInv).     *)
THEOREM LedgerCorrect == Spec => []LedgerInv
  BY TypeAndLedger, PTL

(* What Fire returns: the counts partition the rules (result.go:5-8).      *)
THEOREM ReturnedCounts ==
    Spec => [](Returned => /\ counts["NotEvaluated"] + counts["Unmatched"] + counts["Fired"]
                                + counts["Skipped"] + counts["Failed"] = Total
                           /\ counts["Matched"] = counts["Fired"] + counts["Skipped"]
                                                   + counts["ActionFailed"]
                           /\ counts["PanicRecovered"] <= counts["Failed"])
<1>1. ASSUME TypeOK, LedgerInv, Returned
      PROVE  /\ counts["NotEvaluated"] + counts["Unmatched"] + counts["Fired"]
                  + counts["Skipped"] + counts["Failed"] = Total
             /\ counts["Matched"] = counts["Fired"] + counts["Skipped"]
                                     + counts["ActionFailed"]
             /\ counts["PanicRecovered"] <= counts["Failed"]
  <2>1. \A f \in CountFields : counts[f] \in Nat
    BY <1>1 DEF TypeOK, CountSpace
  <2>. QED
    BY <1>1, <2>1 DEF LedgerInv, CountsPartition, Returned, InFlight, Matching, CountFields
<1>. QED
  BY <1>1, TypeAndLedger, PTL
-----------------------------------------------------------------------------
(* The end of the context. *)

AfterEnd ==
    late => Done /\ pc \in {"conditionDone", "actionDone", "panicked", "stop",
                            "finish", "done", "unwound"}

LEMMA AfterEndStep == AfterEnd /\ [Next]_vars => AfterEnd'
<1> SUFFICES ASSUME AfterEnd, [Next]_vars PROVE AfterEnd'
  OBVIOUS
<1> USE DEF setup, control, ledger, observation, history, At, AfterEnd, Done
<1>1. CASE Start \/ PassInitialCheck \/ Interrupt \/ EnterRules \/ EnterGroup \/ NextRule
           \/ BeginCondition
  BY <1>1 DEF Start, PassInitialCheck, Interrupt, EnterRules, EnterGroup, NextRule,
              BeginCondition
<1>2. CASE ConditionFalse \/ ConditionTrue \/ ConditionError \/ ConditionPanic
           \/ ConditionUnwinds \/ AfterPanic \/ AfterCondition
  BY <1>2 DEF ConditionFalse, ConditionTrue, ConditionError, ConditionPanic,
              ConditionUnwinds, AfterPanic, AfterCondition, Decide, ConditionReturns
<1>3. CASE ActionOk \/ ActionError \/ ActionPanic \/ ActionUnwinds \/ AfterAction
  BY <1>3 DEF ActionOk, ActionError, ActionPanic, ActionUnwinds, AfterAction, ActionReturns
<1>4. CASE Exhaust \/ Leave \/ Complete \/ Finish
  BY <1>4 DEF Exhaust, Leave, Complete, Finish
<1>5. CASE Deliver \/ (\E cause \in {"error", "panic"} : ObserverFails(cause))
           \/ ObserverUnwinds \/ ContextEnds \/ Terminated \/ UNCHANGED vars
  BY <1>5 DEF Deliver, ObserverFails, ObserverUnwinds, ContextEnds, Terminated, vars
<1>. QED
  BY <1>1, <1>2, <1>3, <1>4, <1>5 DEF Next, Step, Work, Observe

(* A callback that comes back to an ended context is the last one of its   *)
(* call, whatever the policy, the groups and the observer do (EndIsFinal). *)
THEOREM NoCallbackAfterEnd == Spec => EndIsFinal
<1>1. Init => AfterEnd
  BY DEF Init, AfterEnd
<1>2. AfterEnd /\ [Next]_vars => [late => UNCHANGED <<cond, act>>]_vars
  <2> SUFFICES ASSUME AfterEnd, late, Next PROVE UNCHANGED <<cond, act>>
    OBVIOUS
  <2>1. pc \notin {"inCondition", "action"}
    BY DEF AfterEnd
  <2>2. ~(\E outcome : ConditionReturns(outcome) \/ ActionReturns(outcome))
    BY <2>1 DEF ConditionReturns, ActionReturns, At
  <2>. QED
    BY <2>2 DEF Next, Step, Work, Observe, history, vars,
       Start, PassInitialCheck, Interrupt, EnterRules, EnterGroup, NextRule, BeginCondition,
       ConditionFalse, ConditionTrue, ConditionError, ConditionPanic, ConditionUnwinds,
       AfterPanic, AfterCondition, Decide, ActionOk, ActionError, ActionPanic, ActionUnwinds,
       AfterAction, Exhaust, Leave, Complete, Finish, Deliver, ObserverFails,
       ObserverUnwinds, ContextEnds, Terminated
<1>. QED
  BY <1>1, <1>2, AfterEndStep, PTL DEF Spec, EndIsFinal
-----------------------------------------------------------------------------
(* Group selection.                                                        *)
(*                                                                         *)
(* OneSelection alone is not inductive.  What keeps it true is that nothing *)
(* at or beyond the frontier has been called (Untouched), that no member    *)
(* before the current one meets the criterion while the group is still     *)
(* being walked (Unselected), and that a member meeting it is seen in the   *)
(* group's record when the walk decides whether to go on (Noted).           *)

Untouched ==
    /\ \A p \in Rules : p >= evaluatedThrough => cond[p] = "uncalled"
    /\ pc = "inCondition" => cond[order] = "uncalled"
    /\ pc = "action" => cond[order] = "true"
    /\ \A p \in Rules : act[p] # "uncalled" => cond[p] = "true"
    /\ pc \in {"conditionDone", "action"} => act[order] = "uncalled"

Unselected ==
    pc \in AtRule => \A p \in Members(entry) : p < order => ~Selects(entry, p)

Noted ==
    pc \in {"conditionDone", "action", "actionDone"} /\ Selects(entry, order)
        => InGroup /\ groups[entry].state = "Resolved"

SelectionInv == Untouched /\ Unselected /\ Noted /\ OneSelection

LEMMA MemberFacts ==
    ASSUME TypeOK
    PROVE  /\ Total \in Nat
           /\ \A k \in 1 .. Len(entries) :
                Members(k) = {n \in Int : entries[k].start <= n /\ n < entries[k].end}
           /\ \A k \in 1 .. Len(entries) : Members(k) \subseteq Rules
           /\ \A j, k \in 1 .. Len(entries) : \A o \in Members(j) \cap Members(k) : j = k
           /\ pc \in Visiting /\ Position => order \in Rules /\ order \in Members(entry)
<1>1. /\ Len(entries) \in Nat /\ Total \in Nat
      /\ \A k \in 1 .. Len(entries) :
            /\ entries[k].start \in Nat /\ entries[k].end \in Nat /\ entries[k].end <= Total
      /\ \A j, k \in 1 .. Len(entries) : j < k => entries[j].end <= entries[k].start
  BY LayoutFacts DEF TypeOK
<1>2. \A k \in 1 .. Len(entries) :
        Members(k) = {n \in Int : entries[k].start <= n /\ n < entries[k].end}
  BY <1>1 DEF Members
<1>3. \A k \in 1 .. Len(entries) : Members(k) \subseteq Rules
  BY <1>1, <1>2 DEF Rules
<1>4. ASSUME NEW j \in 1 .. Len(entries), NEW k \in 1 .. Len(entries),
             NEW o \in Members(j) \cap Members(k)
      PROVE  j = k
  <2>1. /\ o \in Int /\ entries[j].start <= o /\ o < entries[j].end
        /\ entries[k].start <= o /\ o < entries[k].end
    BY <1>2
  <2>2. ~(j < k) /\ ~(k < j)
    BY <1>1, <2>1
  <2>. QED
    BY <2>2
<1>5. ASSUME pc \in Visiting, Position
      PROVE  order \in Rules /\ order \in Members(entry)
  <2>1. entry \in 1 .. Len(entries) /\ entries[entry].start <= order /\ order < entries[entry].end
    BY <1>5 DEF Position, AtRule, Visiting, Here
  <2>. QED
    BY <1>2, <1>3, <2>1 DEF TypeOK
<1>. QED
  BY <1>1, <1>2, <1>3, <1>4, <1>5

LEMMA SelectionInit == Init => SelectionInv
<1> SUFFICES ASSUME Init PROVE SelectionInv
  OBVIOUS
<1>1. \A p \in Rules : cond[p] = "uncalled" /\ act[p] = "uncalled"
  BY DEF Init
<1>2. Untouched /\ Unselected /\ Noted
  BY <1>1 DEF Init, Untouched, Unselected, Noted, AtRule, Visiting
<1>3. TypeOK
  BY TypeInit
<1>4. OneSelection
  BY <1>1, <1>3, MemberFacts DEF OneSelection
<1>. QED
  BY <1>2, <1>4 DEF SelectionInv

(* Steps that call nothing keep what is said about calls. *)
LEMMA QuietSelection ==
    ASSUME SelectionInv, cond' = cond, act' = act, entries' = entries
    PROVE  OneSelection'
  BY DEF SelectionInv, OneSelection, Members, Selects

(* A callback at the cursor neither selects behind it nor finds a later    *)
(* member of its group already called.                                     *)
LEMMA CallSelection ==
    ASSUME TypeOK, Position, SelectionInv, entries' = entries, entry' = entry,
           pc \in {"inCondition", "action"},
           \A p \in Rules : p # order => cond'[p] = cond[p] /\ act'[p] = act[p]
    PROVE  /\ \A p \in Members(entry) : p < order => ~Selects(entry, p)'
           /\ OneSelection'
<1>1. /\ entry \in 1 .. Len(entries) /\ order \in Rules /\ order \in Members(entry)
      /\ evaluatedThrough = order + 1
  BY MemberFacts DEF Position, Visiting, AtRule
<1>2. \A k \in 1 .. Len(entries) : \A p \in Members(k) : p \in Rules /\ p \in Int
  BY MemberFacts
<1>3. \A k : Members(k)' = Members(k)
  BY DEF Members
<1>4. \A k, p : p \in Rules /\ p # order => Selects(k, p)' = Selects(k, p)
  BY DEF Selects
<1>5. \A p \in Members(entry) : p < order => ~Selects(entry, p)
  BY DEF SelectionInv, Unselected, AtRule, Visiting
<1>6. \A p \in Members(entry) : p < order => ~Selects(entry, p)'
  BY <1>1, <1>2, <1>4, <1>5
<1>7. ASSUME NEW k \in 1 .. Len(entries), NEW o \in Members(k), NEW p \in Members(k),
             Selects(k, o)', o < p
      PROVE  cond'[p] = "uncalled"
  <2>1. CASE p = order
    <3>1. k = entry
      BY <1>1, <2>1, MemberFacts
    <3>. QED
      BY <1>6, <1>7, <2>1, <3>1
  <2>2. CASE p # order /\ o = order
    <3>1. p \in Rules /\ p >= evaluatedThrough
      BY <1>1, <1>2, <1>7, <2>2
    <3>2. cond[p] = "uncalled"
      BY <3>1 DEF SelectionInv, Untouched
    <3>. QED
      BY <2>2, <3>1, <3>2
  <2>3. CASE p # order /\ o # order
    <3>1. Selects(k, o)
      BY <1>2, <1>4, <1>7, <2>3
    <3>2. cond[p] = "uncalled"
      BY <1>7, <3>1 DEF SelectionInv, OneSelection
    <3>. QED
      BY <1>2, <2>3, <3>2
  <2>. QED
    BY <2>1, <2>2, <2>3
<1>8. OneSelection'
  BY <1>3, <1>7 DEF OneSelection
<1>. QED
  BY <1>6, <1>8

LEMMA SelectionStep ==
    TypeOK /\ Position /\ SelectionInv /\ [Next]_vars => SelectionInv'
<1> SUFFICES ASSUME TypeOK, Position, SelectionInv, [Next]_vars PROVE SelectionInv'
  OBVIOUS
<1> USE DEF setup, control, ledger, observation, history, At, AtRule, Visiting, SelectionInv
<1>1. /\ order \in Nat /\ evaluatedThrough \in Nat
      /\ pc \in AtRule \cup {"advance", "stop"} => entry \in 1 .. Len(entries)
      /\ pc \in Visiting => evaluatedThrough = order + 1
  BY DEF TypeOK, Position
<1>2. ASSUME entries' = entries
      PROVE  /\ Rules' = Rules /\ Total' = Total
             /\ \A k : Members(k)' = Members(k)
             /\ \A k, o : cond' = cond /\ act' = act => Selects(k, o)' = Selects(k, o)
  BY <1>2 DEF Rules, Total, Members, Selects
<1>3. CASE Start \/ PassInitialCheck \/ Interrupt \/ AfterPanic \/ Exhaust \/ Leave
           \/ Complete \/ Finish \/ ObserverUnwinds
  <2>1. /\ cond' = cond /\ act' = act /\ entries' = entries
        /\ evaluatedThrough' = evaluatedThrough
        /\ pc' \in {"initial", "entry", "stop", "advance", "finish", "done", "unwound"}
    BY <1>3 DEF Start, PassInitialCheck, Interrupt, AfterPanic, Exhaust, Leave, Complete,
                Finish, ObserverUnwinds
  <2>. QED
    BY <1>2, <2>1, QuietSelection DEF Untouched, Unselected, Noted
<1>4. CASE EnterRules \/ EnterGroup
  <2>1. /\ cond' = cond /\ act' = act /\ entries' = entries /\ entry' = entry
        /\ evaluatedThrough' = evaluatedThrough
        /\ pc' \in {"rule", "condition"} /\ order' = entries[entry].start
        /\ entry \in 1 .. Len(entries)
    BY <1>4 DEF EnterRules, EnterGroup, Position, Here, TypeOK
  <2>2. \A p \in Members(entry) : ~(p < entries[entry].start)
    <3>1. /\ entries[entry].start \in Nat
          /\ Members(entry) = {n \in Int : entries[entry].start <= n /\ n < entries[entry].end}
      BY <2>1, MemberFacts, LayoutFacts DEF TypeOK
    <3>. QED
      BY <3>1
  <2>. QED
    BY <1>2, <2>1, <2>2, QuietSelection DEF Untouched, Unselected, Noted
<1>5. CASE NextRule
  BY <1>2, <1>5, QuietSelection DEF NextRule, Untouched, Unselected, Noted
<1>6. CASE BeginCondition
  <2>1. /\ cond' = cond /\ act' = act /\ entries' = entries /\ entry' = entry
        /\ order' = order /\ pc' = "inCondition" /\ pc = "condition"
        /\ evaluatedThrough' = order + 1 /\ evaluatedThrough <= order
    BY <1>6 DEF BeginCondition, Position
  <2>2. order \in Rules
    <3>1. entry \in 1 .. Len(entries) /\ order < entries[entry].end
      BY <2>1 DEF Position, Here
    <3>. QED
      BY <1>1, <3>1, LayoutFacts DEF TypeOK, Rules
  <2>3. \A p \in Rules : p \in Int
    BY MemberFacts DEF Rules
  <2>4. order >= evaluatedThrough /\ \A p \in Rules : p >= order + 1 => p >= evaluatedThrough
    BY <1>1, <2>1, <2>3
  <2>5. Untouched'
    BY <1>2, <2>1, <2>2, <2>4 DEF Untouched
  <2>6. Unselected' /\ Noted'
    BY <1>2, <2>1 DEF Unselected, Noted
  <2>. QED
    BY <2>1, <2>5, <2>6, QuietSelection
<1>7. ASSUME NEW outcome \in {"false", "true", "error", "panic"}, ConditionReturns(outcome),
             pc' \in {"conditionDone", "panicked", "unwound"},
             outcome = "true" => ConditionTrue
      PROVE  SelectionInv'
  <2>1. /\ pc = "inCondition" /\ entries' = entries /\ entry' = entry /\ order' = order
        /\ act' = act /\ evaluatedThrough' = evaluatedThrough
        /\ cond' = [cond EXCEPT ![order] = outcome]
    BY <1>7 DEF ConditionReturns
  <2>2. /\ order \in Rules /\ entry \in 1 .. Len(entries) /\ evaluatedThrough = order + 1
        /\ \A p \in Rules : p \in Int
    BY <1>1, <2>1, MemberFacts DEF Rules
  <2>3. /\ cond'[order] = outcome
        /\ \A p \in Rules : p # order => cond'[p] = cond[p]
    BY <2>1, <2>2 DEF TypeOK
  <2>4. act[order] = "uncalled"
    BY <2>1, <2>2 DEF Untouched
  <2>5. OneSelection' /\ \A p \in Members(entry) : p < order => ~Selects(entry, p)'
    BY <2>1, <2>3, CallSelection
  <2>6. Untouched'
    BY <1>2, <1>7, <2>1, <2>2, <2>3, <2>4 DEF Untouched
  <2>7. Unselected'
    BY <1>2, <2>1, <2>5 DEF Unselected
  <2>8. Noted'
    <3>1. ASSUME Selects(entry, order)'
          PROVE  outcome = "true" /\ Here.kind = "first-match"
      BY <2>1, <2>3, <2>4, <3>1 DEF Selects, Here
    <3>2. ASSUME Selects(entry, order)'
          PROVE  InGroup' /\ groups'[entry].state = "Resolved"
      <4>1. groups' = [groups EXCEPT ![entry] = Resolved(groups[entry])]
        BY <1>7, <3>1, <3>2 DEF ConditionTrue
      <4>2. groups[entry] \in GroupSpace
        BY <2>2 DEF TypeOK
      <4>3. groups'[entry].state = "Resolved"
        BY <2>2, <4>1, <4>2 DEF TypeOK, Resolved, GroupSpace
      <4>. QED
        BY <2>1, <3>1, <3>2, <4>3 DEF InGroup, Here, GroupKinds
    <3>. QED
      BY <2>1, <3>2 DEF Noted
  <2>. QED
    BY <2>5, <2>6, <2>7, <2>8
<1>8. CASE ConditionFalse \/ ConditionTrue \/ ConditionError \/ ConditionPanic
           \/ ConditionUnwinds
  BY <1>7, <1>8 DEF ConditionFalse, ConditionTrue, ConditionError, ConditionPanic,
                    ConditionUnwinds
<1>9. ASSUME NEW outcome \in {"ok", "error", "panic"}, ActionReturns(outcome),
             pc' \in {"actionDone", "panicked", "unwound"},
             outcome = "ok" => ActionOk, outcome # "ok" => UNCHANGED groups
      PROVE  SelectionInv'
  <2>1. /\ pc = "action" /\ entries' = entries /\ entry' = entry /\ order' = order
        /\ cond' = cond /\ evaluatedThrough' = evaluatedThrough
        /\ act' = [act EXCEPT ![order] = outcome]
    BY <1>9 DEF ActionReturns
  <2>2. /\ order \in Rules /\ entry \in 1 .. Len(entries)
    BY <1>1, <2>1, MemberFacts
  <2>3. /\ act'[order] = outcome
        /\ \A p \in Rules : p # order => act'[p] = act[p]
    BY <2>1, <2>2 DEF TypeOK
  <2>4. OneSelection' /\ \A p \in Members(entry) : p < order => ~Selects(entry, p)'
    BY <2>1, <2>3, CallSelection
  <2>5. Untouched'
    BY <1>2, <1>9, <2>1, <2>2, <2>3 DEF Untouched
  <2>6. Unselected'
    BY <1>2, <2>1, <2>4 DEF Unselected
  <2>7. Noted'
    <3>1. groups[entry] \in GroupSpace /\ entry \in DOMAIN groups
      BY <2>2 DEF TypeOK
    <3>2. ASSUME Here.kind = "first-fire", outcome = "ok"
          PROVE  groups'[entry].state = "Resolved"
      BY <1>9, <3>1, <3>2 DEF ActionOk, Resolved, GroupSpace
    <3>3. ASSUME ~(Here.kind = "first-fire" /\ outcome = "ok")
          PROVE  groups' = groups
      BY <1>9, <3>3 DEF ActionOk
    <3>4. Selects(entry, order)' =>
            \/ Here.kind = "first-fire" /\ outcome = "ok"
            \/ Here.kind = "first-match" /\ Selects(entry, order)
      BY <2>1, <2>3 DEF Selects, Here
    <3>5. Selects(entry, order)' => InGroup /\ groups'[entry].state = "Resolved"
      BY <2>1, <3>2, <3>3, <3>4 DEF Noted, InGroup, GroupKinds
    <3>. QED
      BY <2>1, <3>5 DEF Noted, InGroup, Here
  <2>. QED
    BY <2>4, <2>5, <2>6, <2>7
<1>10. CASE ActionOk \/ ActionError \/ ActionPanic \/ ActionUnwinds
  BY <1>9, <1>10 DEF ActionOk, ActionError, ActionPanic, ActionUnwinds
<1>11. ASSUME cond' = cond, act' = act, entries' = entries, entry' = entry,
              evaluatedThrough' = evaluatedThrough, pc \in Visiting,
              pc' = "rule", order' = order + 1, ~Selects(entry, order)
       PROVE  SelectionInv'
  <2>1. \A p \in Members(entry) : p < order + 1 => p < order \/ p = order
    BY <1>1, <1>11, MemberFacts
  <2>2. Unselected'
    BY <1>2, <1>11, <2>1 DEF Unselected
  <2>3. Untouched' /\ Noted'
    BY <1>2, <1>11 DEF Untouched, Noted
  <2>. QED
    BY <1>11, <2>2, <2>3, QuietSelection
<1>12. CASE AfterCondition
  <2>1. /\ cond' = cond /\ act' = act /\ entries' = entries /\ entry' = entry
        /\ evaluatedThrough' = evaluatedThrough /\ groups' = groups /\ pc = "conditionDone"
    BY <1>12 DEF AfterCondition, Decide
  <2>2. CASE pc' = "stop"
    BY <1>2, <2>1, <2>2, QuietSelection DEF Untouched, Unselected, Noted
  <2>3. CASE pc' = "rule"
    <3>1. order' = order + 1 /\ cond[order] # "true"
      BY <1>12, <2>3 DEF AfterCondition, Decide
    <3>2. ~Selects(entry, order)
      BY <2>1, <3>1 DEF Untouched, Selects
    <3>. QED
      BY <1>11, <2>1, <2>3, <3>1, <3>2
  <2>4. CASE pc' = "action"
    <3>1. order' = order /\ cond[order] = "true"
      BY <1>12, <2>4 DEF AfterCondition, Decide
    <3>2. Untouched' /\ Unselected'
      BY <1>2, <2>1, <2>4, <3>1 DEF Untouched, Unselected
    <3>3. Noted'
      BY <1>2, <2>1, <2>4, <3>1 DEF Noted, InGroup, Here
    <3>. QED
      BY <2>1, <3>2, <3>3, QuietSelection
  <2>. QED
    BY <1>12, <2>2, <2>3, <2>4 DEF AfterCondition, Decide
<1>13. CASE AfterAction
  <2>1. /\ cond' = cond /\ act' = act /\ entries' = entries /\ entry' = entry
        /\ evaluatedThrough' = evaluatedThrough /\ pc = "actionDone"
    BY <1>13 DEF AfterAction
  <2>2. CASE pc' \in {"stop", "advance"}
    BY <1>2, <2>1, <2>2, QuietSelection DEF Untouched, Unselected, Noted
  <2>3. CASE pc' = "rule"
    <3>1. order' = order + 1 /\ ~(InGroup /\ groups[entry].state = "Resolved")
      BY <1>13, <2>3 DEF AfterAction
    <3>2. ~Selects(entry, order)
      BY <2>1, <3>1 DEF Noted
    <3>. QED
      BY <1>11, <2>1, <2>3, <3>1, <3>2
  <2>. QED
    BY <1>13, <2>2, <2>3 DEF AfterAction
<1>14. CASE Deliver \/ (\E cause \in {"error", "panic"} : ObserverFails(cause))
            \/ ContextEnds \/ Terminated \/ UNCHANGED vars
  <2>1. /\ cond' = cond /\ act' = act /\ entries' = entries /\ entry' = entry
        /\ order' = order /\ evaluatedThrough' = evaluatedThrough /\ groups' = groups
        /\ pc' = pc
    BY <1>14 DEF Deliver, ObserverFails, ContextEnds, Terminated, vars
  <2>. QED
    BY <1>2, <2>1, QuietSelection DEF Untouched, Unselected, Noted, InGroup, Here
<1>. QED
  BY <1>3, <1>4, <1>5, <1>6, <1>8, <1>10, <1>12, <1>13, <1>14 DEF Next, Step, Work, Observe

(* At most one member of a group meets its criterion, and no later member  *)
(* of that group is evaluated, at any moment of any call (OneSelection).   *)
THEOREM SelectsOnce == Spec => []OneSelection
<1>1. Init => SelectionInv
  BY SelectionInit
<1>2. TypeOK /\ LedgerInv /\ SelectionInv /\ [Next]_vars => SelectionInv'
  BY SelectionStep DEF LedgerInv
<1>3. SelectionInv => OneSelection
  BY DEF SelectionInv
<1>. QED
  BY <1>1, <1>2, <1>3, TypeAndLedger, PTL DEF Spec
-----------------------------------------------------------------------------
(* Execution implements FireContract.                                      *)
(*                                                                         *)
(* Each call of a condition or an action is the contract's Evaluate or     *)
(* Act, the moment a Result is handed to the caller is its Conclude, an    *)
(* observer's propagated panic its Unwind; every other step of the engine  *)
(* is invisible to it.                                                     *)

(* Every rule behind the cursor has been passed: it was called with an     *)
(* outcome that the policy goes on after, or its group had selected.       *)
Behind ==
    /\ pc \in AtRule => \A p \in Rules : p < order => Contract!Passed(p)
    /\ pc = "entry" => \A p \in Rules :
                          (entry <= Len(entries) => p < Here.start) => Contract!Passed(p)
    /\ pc = "advance" => \A p \in Rules : p < Here.end => Contract!Passed(p)

(* A group that is resolved while it is walked was resolved by the member  *)
(* at the cursor (the converse of Noted).                                  *)
Marked ==
    pc \in AtRule /\ InGroup /\ groups[entry].state = "Resolved"
        => Selects(entry, order)

(* A panic is never walked past. *)
Calm ==
    pc \notin {"panicked", "stop", "finish", "done", "unwound"}
        => \A p \in Rules : cond[p] # "panic" /\ act[p] # "panic"

(* At actionDone the action was called. *)
Called == pc = "actionDone" => cond[order] = "true" /\ act[order] # "uncalled"

CalledStops == {Contract!StopCalledFor(o) : o \in Rules}

(* The stop that the contract allows now. *)
Justified ==
    \/ stop = "Panic" /\ "Panic" \in CalledStops
    \/ stop = ContextStop /\ Done /\ "Panic" \notin CalledStops
    \/ ~late /\ stop \in CalledStops \ {"None"} /\ "Panic" \notin CalledStops
    \/ ~late /\ stop = "Completed" /\ \A p \in Rules : Contract!Passed(p)

Concluding ==
    /\ pc = "panicked" => stop = "Panic" /\ "Panic" \in CalledStops
    /\ pc \in {"stop", "finish", "done"} => Justified
    /\ pc = "unwound" => Quiet

ContractInv == Behind /\ Marked /\ Calm /\ Called /\ Concluding

-----------------------------------------------------------------------------
(* The contract's operators. *)

LEMMA ContractRules ==
    ASSUME TypeOK
    PROVE  /\ Contract!Rules = Rules
           /\ \A o \in Rules : o \in Nat /\ \A p \in 0 .. o - 1 : p \in Rules
           /\ Total \in Nat
<1>1. Contract!Rules = Rules
  BY DEF Contract!Rules, Rules, Total
<1>. QED
  BY <1>1, LayoutFacts DEF TypeOK, Rules

(* A rule is bypassed when an earlier member of its own group selected. *)
LEMMA BypassedMeaning ==
    ASSUME TypeOK, NEW o \in Rules
    PROVE  Contract!Bypassed(o) <=>
             \E k \in 1 .. Len(entries) : \E p \in Members(k) :
                o \in Members(k) /\ p < o /\ Selects(k, p)
<1>1. /\ \A k \in 1 .. Len(entries) : Members(k) \subseteq Rules
      /\ \A j, k \in 1 .. Len(entries) : \A p \in Members(j) \cap Members(k) : j = k
      /\ \A k : Members(k) = entries[k].start .. entries[k].end - 1
  BY MemberFacts DEF Members
<1>2. \A p : Contract!Selects(p) <=>
               \E k \in 1 .. Len(entries) : p \in Members(k) /\ Selects(k, p)
  BY DEF Contract!Selects, Members, Selects
<1>3. \A p : Contract!SameGroup(p, o) <=>
               \E k \in 1 .. Len(entries) :
                  entries[k].kind # "rules" /\ p \in Members(k) /\ o \in Members(k)
  BY DEF Contract!SameGroup, Members
<1>4. \A k, p : Selects(k, p) => entries[k].kind # "rules"
  BY DEF Selects
<1>5. \A p \in Rules : p \in 0 .. o - 1 <=> p < o
  BY ContractRules DEF Rules
<1>6. ASSUME Contract!Bypassed(o)
      PROVE  \E k \in 1 .. Len(entries) : \E p \in Members(k) :
                o \in Members(k) /\ p < o /\ Selects(k, p)
  <2>1. PICK p \in 0 .. o - 1 : Contract!SameGroup(p, o) /\ Contract!Selects(p)
    BY <1>6 DEF Contract!Bypassed
  <2>2. p < o
    BY <2>1, ContractRules
  <2>. QED
    BY <1>1, <1>2, <1>3, <2>1, <2>2
<1>7. ASSUME NEW k \in 1 .. Len(entries), NEW p \in Members(k),
             o \in Members(k), p < o, Selects(k, p)
      PROVE  Contract!Bypassed(o)
  BY <1>1, <1>2, <1>3, <1>4, <1>5, <1>7 DEF Contract!Bypassed
<1>. QED
  BY <1>6, <1>7

(* Nothing that the contract says of a rule depends on later callbacks. *)
LEMMA BypassedKept ==
    ASSUME TypeOK, entries' = entries, NEW o \in Rules,
           \A p \in Rules : p < o => cond'[p] = cond[p] /\ act'[p] = act[p]
    PROVE  \A q \in Rules : q <= o => (Contract!Bypassed(q)' <=> Contract!Bypassed(q))
<1> SUFFICES ASSUME NEW q \in Rules, q <= o
             PROVE  Contract!Bypassed(q)' <=> Contract!Bypassed(q)
  OBVIOUS
<1>1. \A p \in 0 .. q - 1 : p \in Rules /\ p < o
  BY ContractRules
<1>2. \A p \in 0 .. q - 1 : Contract!Selects(p)' <=> Contract!Selects(p)
  BY <1>1 DEF Contract!Selects
<1>3. \A p : Contract!SameGroup(p, q)' <=> Contract!SameGroup(p, q)
  BY DEF Contract!SameGroup
<1>. QED
  BY <1>2, <1>3 DEF Contract!Bypassed

LEMMA PassedKept ==
    ASSUME TypeOK, entries' = entries, config' = config, NEW o \in Rules,
           \A p \in Rules : p < o => cond'[p] = cond[p] /\ act'[p] = act[p]
    PROVE  \A q \in Rules : q < o => (Contract!Passed(q)' <=> Contract!Passed(q))
<1> SUFFICES ASSUME NEW q \in Rules, q < o
             PROVE  Contract!Passed(q)' <=> Contract!Passed(q)
  OBVIOUS
<1>1. cond'[q] = cond[q] /\ act'[q] = act[q]
  OBVIOUS
<1>2. Contract!StopCalledFor(q)' = Contract!StopCalledFor(q)
  BY <1>1 DEF Contract!StopCalledFor
<1>3. Contract!Finished(q)' <=> Contract!Finished(q)
  BY <1>1 DEF Contract!Finished
<1>4. Contract!Bypassed(q)' <=> Contract!Bypassed(q)
  BY BypassedKept, ContractRules
<1>. QED
  BY <1>2, <1>3, <1>4 DEF Contract!Passed

LEMMA ContractFrame ==
    ASSUME entries' = entries, config' = config, cond' = cond, act' = act
    PROVE  /\ Rules' = Rules /\ Total' = Total
           /\ \A o : Contract!Passed(o)' <=> Contract!Passed(o)
           /\ \A o : Contract!StopCalledFor(o)' = Contract!StopCalledFor(o)
           /\ CalledStops' = CalledStops
<1>1. Rules' = Rules /\ Total' = Total
  BY DEF Rules, Total
<1>2. \A o : Contract!StopCalledFor(o)' = Contract!StopCalledFor(o)
  BY DEF Contract!StopCalledFor
<1>3. \A o : Contract!Passed(o)' <=> Contract!Passed(o)
  BY DEF Contract!Passed, Contract!Finished, Contract!Bypassed, Contract!SameGroup,
         Contract!Selects, Contract!StopCalledFor
<1>. QED
  BY <1>1, <1>2, <1>3 DEF CalledStops

LEMMA NoPanicCalled ==
    ASSUME \A p \in Rules : cond[p] # "panic" /\ act[p] # "panic"
    PROVE  "Panic" \notin CalledStops
  BY DEF CalledStops, Contract!StopCalledFor

-----------------------------------------------------------------------------
(* The simulation's invariant. *)

LEMMA ContractInit == Init => ContractInv
  BY DEF Init, ContractInv, Behind, Marked, Calm, Called, Concluding, AtRule, Visiting

ContractContext == TypeOK /\ Position /\ SelectionInv /\ AfterEnd

LEMMA BehindStep ==
    ContractContext /\ ContractInv /\ [Next]_vars => Behind'
<1> SUFFICES ASSUME ContractContext, ContractInv, [Next]_vars PROVE Behind'
  OBVIOUS
<1> USE DEF setup, control, ledger, observation, history, At, AtRule, Visiting,
            ContractContext, ContractInv
<1>1. /\ order \in Nat /\ Total \in Nat /\ Len(entries) \in Nat \ {0}
      /\ \A k \in 1 .. Len(entries) :
            /\ entries[k].start \in Nat /\ entries[k].end \in Nat
            /\ entries[k].start <= entries[k].end /\ entries[k].end <= Total
      /\ \A k \in 1 .. Len(entries) - 1 : entries[k + 1].start = entries[k].end
      /\ entries[1].start = 0
      /\ \A p \in Rules : p \in Nat /\ p < Total
  BY LayoutFacts DEF TypeOK, Rules
<1>2. CASE Start \/ Interrupt \/ AfterPanic \/ Complete \/ Finish \/ ObserverUnwinds
           \/ ConditionUnwinds \/ ActionUnwinds
  <2>1. pc' \in {"initial", "finish", "stop", "done", "unwound"}
    BY <1>2 DEF Start, Interrupt, AfterPanic, Complete, Finish, ObserverUnwinds,
                ConditionUnwinds, ActionUnwinds
  <2>. QED
    BY <2>1 DEF Behind
<1>3. CASE PassInitialCheck
  <2>1. /\ pc' = "entry" /\ entry' = 1 /\ entries' = entries
        /\ Here'.start = 0 /\ 1 <= Len(entries) /\ Rules' = Rules
    BY <1>1, <1>3 DEF PassInitialCheck, Position, Here, Rules, Total
  <2>. QED
    BY <1>1, <2>1 DEF Behind
<1>4. CASE EnterRules \/ EnterGroup
  <2>1. /\ cond' = cond /\ act' = act /\ entries' = entries /\ config' = config
        /\ pc = "entry" /\ entry <= Len(entries)
        /\ pc' \in {"rule", "condition"} /\ order' = Here.start
    BY <1>4 DEF EnterRules, EnterGroup
  <2>. QED
    BY <2>1, ContractFrame DEF Behind
<1>5. CASE NextRule \/ BeginCondition
  <2>1. /\ cond' = cond /\ act' = act /\ entries' = entries /\ config' = config
        /\ pc \in AtRule /\ pc' \in AtRule /\ order' = order
    BY <1>5 DEF NextRule, BeginCondition
  <2>. QED
    BY <2>1, ContractFrame DEF Behind
<1>6. CASE ConditionFalse \/ ConditionTrue \/ ConditionError \/ ConditionPanic
           \/ ActionOk \/ ActionError \/ ActionPanic
  <2>1. /\ entries' = entries /\ config' = config /\ order' = order
        /\ pc \in Visiting /\ pc' \in {"conditionDone", "actionDone", "panicked"}
        /\ \A p \in Rules : p # order => cond'[p] = cond[p] /\ act'[p] = act[p]
    BY <1>6 DEF ConditionFalse, ConditionTrue, ConditionError, ConditionPanic, ActionOk,
                ActionError, ActionPanic, ConditionReturns, ActionReturns, TypeOK
  <2>2. order \in Rules
    BY <2>1, MemberFacts
  <2>3. \A p \in Rules : p < order => Contract!Passed(p)'
    <3>1. \A p \in Rules : p < order => cond'[p] = cond[p] /\ act'[p] = act[p]
      <4>1. \A p \in Rules : p < order => p # order
        BY <1>1, <2>2
      <4>. QED
        BY <2>1, <4>1
    <3>2. \A p \in Rules : p < order => (Contract!Passed(p)' <=> Contract!Passed(p))
      BY <1>1, <2>1, <2>2, <3>1, PassedKept
    <3>3. \A p \in Rules : p < order => Contract!Passed(p)
      BY <2>1 DEF Behind, AtRule, ContractInv
    <3>. QED
      BY <3>2, <3>3
  <2>4. Rules' = Rules
    BY <2>1 DEF Rules, Total
  <2>. QED
    BY <2>1, <2>3, <2>4 DEF Behind
<1>7. ASSUME pc \in {"conditionDone", "actionDone"}, pc' = "rule", order' = order + 1,
             cond' = cond, act' = act, entries' = entries, config' = config,
             Contract!Passed(order)
      PROVE  Behind'
  <2>1. \A p \in Rules : p < order + 1 => p < order \/ p = order
    BY <1>1
  <2>. QED
    BY <1>7, <2>1, ContractFrame DEF Behind
<1>8. CASE AfterCondition
  <2>1. /\ cond' = cond /\ act' = act /\ entries' = entries /\ config' = config
        /\ pc = "conditionDone" /\ act[order] = "uncalled"
    BY <1>8 DEF AfterCondition, Decide, SelectionInv, Untouched
  <2>2. CASE pc' = "rule"
    <3>1. /\ order' = order + 1
          /\ \/ cond[order] = "false"
             \/ cond[order] = "error" /\ config.conditionErrors = "ContinueOnError"
      BY <1>8, <2>2 DEF AfterCondition, Decide
    <3>2. Contract!Passed(order)
      BY <2>1, <3>1 DEF Contract!Passed, Contract!Finished, Contract!StopCalledFor
    <3>. QED
      BY <1>7, <2>1, <2>2, <3>1, <3>2
  <2>3. CASE pc' = "action"
    <3>1. order' = order
      BY <1>8, <2>3 DEF AfterCondition, Decide
    <3>. QED
      BY <2>1, <2>3, <3>1, ContractFrame DEF Behind
  <2>4. CASE pc' = "stop"
    BY <2>4 DEF Behind
  <2>. QED
    BY <1>8, <2>2, <2>3, <2>4 DEF AfterCondition, Decide
<1>9. CASE AfterAction
  <2>1. /\ cond' = cond /\ act' = act /\ entries' = entries /\ config' = config
        /\ entry' = entry /\ pc = "actionDone" /\ order \in Rules
        /\ entry \in 1 .. Len(entries) /\ order \in Members(entry)
    BY <1>9, MemberFacts DEF AfterAction, Position
  <2>2. /\ act[order] # "uncalled" /\ act[order] # "panic" /\ cond[order] = "true"
    BY <2>1 DEF Calm, Called
  <2>3. PolicyStop = "None" => Contract!Passed(order)
    BY <2>2 DEF PolicyStop, Contract!Passed, Contract!Finished, Contract!StopCalledFor
  <2>4. CASE pc' = "stop"
    BY <2>4 DEF Behind
  <2>5. CASE pc' = "rule"
    <3>1. order' = order + 1 /\ PolicyStop = "None"
      BY <1>9, <2>5 DEF AfterAction
    <3>. QED
      BY <1>7, <2>1, <2>3, <2>5, <3>1
  <2>6. CASE pc' = "advance"
    <3>1. PolicyStop = "None" /\ InGroup /\ groups[entry].state = "Resolved"
      BY <1>9, <2>6 DEF AfterAction
    <3>2. Selects(entry, order)
      BY <2>1, <3>1 DEF Marked
    <3>3. ASSUME NEW p \in Rules, p < Here.end
          PROVE  Contract!Passed(p)
      <4>1. CASE p < order
        BY <2>1, <4>1 DEF Behind
      <4>2. CASE p = order
        BY <2>3, <3>1, <4>2
      <4>3. CASE order < p
        <5>1. p \in Members(entry)
          BY <1>1, <2>1, <3>3, <4>3, MemberFacts DEF Here
        <5>2. Contract!Bypassed(p)
          BY <2>1, <3>2, <4>3, <5>1, BypassedMeaning
        <5>. QED
          BY <5>2 DEF Contract!Passed
      <4>. QED
        BY <1>1, <4>1, <4>2, <4>3
    <3>4. Here' = Here
      BY <2>1 DEF Here
    <3>. QED
      BY <2>1, <2>6, <3>3, <3>4, ContractFrame DEF Behind
  <2>. QED
    BY <1>9, <2>4, <2>5, <2>6 DEF AfterAction
<1>10. CASE Exhaust
  <2>1. /\ cond' = cond /\ act' = act /\ entries' = entries /\ config' = config
        /\ entry' = entry /\ pc = "rule" /\ pc' = "advance" /\ order = Here.end
    BY <1>10 DEF Exhaust
  <2>2. Here' = Here
    BY <2>1 DEF Here
  <2>. QED
    BY <2>1, <2>2, ContractFrame DEF Behind
<1>11. CASE Leave
  <2>1. /\ cond' = cond /\ act' = act /\ entries' = entries /\ config' = config
        /\ entry \in 1 .. Len(entries)
    BY <1>11 DEF Leave, Position
  <2>2. CASE pc = "stop"
    BY <1>11, <2>2 DEF Leave, Behind
  <2>3. CASE pc = "advance"
    <3>1. pc' = "entry" /\ entry' = entry + 1
      BY <1>11, <2>3 DEF Leave
    <3>2. \A p \in Rules :
            (entry + 1 <= Len(entries) => p < entries[entry + 1].start) => p < Here.end
      <4>1. CASE entry = Len(entries)
        BY <1>1, <2>1, <4>1 DEF Here, Total
      <4>2. CASE entry # Len(entries)
        <5>1. entry \in 1 .. Len(entries) - 1 /\ entry + 1 <= Len(entries)
          BY <1>1, <2>1, <4>2
        <5>. QED
          BY <1>1, <5>1 DEF Here
      <4>. QED
        BY <4>1, <4>2
    <3>. QED
      BY <2>1, <2>3, <3>1, <3>2, ContractFrame DEF Behind, Here
  <2>. QED
    BY <1>11, <2>2, <2>3 DEF Leave
<1>12. CASE Deliver \/ (\E cause \in {"error", "panic"} : ObserverFails(cause))
            \/ ContextEnds \/ Terminated \/ UNCHANGED vars
  <2>1. /\ cond' = cond /\ act' = act /\ entries' = entries /\ config' = config
        /\ entry' = entry /\ order' = order /\ pc' = pc
    BY <1>12 DEF Deliver, ObserverFails, ContextEnds, Terminated, vars
  <2>2. Here' = Here
    BY <2>1 DEF Here
  <2>. QED
    BY <2>1, <2>2, ContractFrame DEF Behind
<1>. QED
  BY <1>2, <1>3, <1>4, <1>5, <1>6, <1>8, <1>9, <1>10, <1>11, <1>12
  DEF Next, Step, Work, Observe

LEMMA MarkedStep ==
    ContractContext /\ ContractInv /\ [Next]_vars => Marked' /\ Calm' /\ Called'
<1> SUFFICES ASSUME ContractContext, ContractInv, [Next]_vars PROVE Marked' /\ Calm' /\ Called'
  OBVIOUS
<1> USE DEF setup, control, ledger, observation, history, At, AtRule, Visiting,
            ContractContext, ContractInv
<1>1. pc \in Visiting => order \in Rules /\ entry \in 1 .. Len(entries)
  BY MemberFacts DEF Position
<1>2. ASSUME entries' = entries
      PROVE  Rules' = Rules
  BY <1>2 DEF Rules, Total
<1>3. CASE Start \/ PassInitialCheck \/ Interrupt \/ AfterPanic \/ Exhaust \/ Leave
           \/ Complete \/ Finish \/ ObserverUnwinds
  <2>1. /\ pc' \in {"initial", "entry", "stop", "advance", "finish", "done", "unwound"}
        /\ cond' = cond /\ act' = act /\ entries' = entries
        /\ pc' \in {"initial", "entry", "advance"}
             => pc \notin {"panicked", "stop", "finish", "done", "unwound"}
    BY <1>3 DEF Start, PassInitialCheck, Interrupt, AfterPanic, Exhaust, Leave, Complete,
                Finish, ObserverUnwinds
  <2>. QED
    BY <1>2, <2>1 DEF Marked, Calm, Called
<1>4. CASE EnterRules
  BY <1>2, <1>4 DEF EnterRules, Marked, Calm, Called, InGroup, Here
<1>5. CASE EnterGroup
  <2>1. /\ entry \in 1 .. Len(entries) /\ entry' = entry /\ entries' = entries
        /\ cond' = cond /\ act' = act /\ pc = "entry" /\ pc' \in {"condition", "rule"}
    BY <1>5 DEF EnterGroup, Position, TypeOK
  <2>2. groups'[entry].state = "Interrupted"
    BY <1>5, <2>1 DEF EnterGroup, TypeOK, NoGroup
  <2>. QED
    BY <1>2, <2>1, <2>2 DEF Marked, Calm, Called
<1>6. CASE NextRule \/ BeginCondition
  <2>1. /\ entry' = entry /\ entries' = entries /\ order' = order /\ groups' = groups
        /\ cond' = cond /\ act' = act /\ pc \in {"condition", "rule"}
        /\ pc' \in {"condition", "inCondition"}
    BY <1>6 DEF NextRule, BeginCondition
  <2>. QED
    BY <1>2, <2>1 DEF Marked, Calm, Called, InGroup, Here, Selects
<1>7. ASSUME NEW outcome \in {"false", "true", "error", "panic"}, ConditionReturns(outcome),
             pc' \in {"conditionDone", "panicked", "unwound"},
             outcome = "panic" <=> pc' # "conditionDone",
             \/ groups' = groups
             \/ outcome = "true" /\ Here.kind = "first-match"
      PROVE  Marked' /\ Calm' /\ Called'
  <2>1. /\ pc = "inCondition" /\ entries' = entries /\ entry' = entry /\ order' = order
        /\ act' = act /\ cond' = [cond EXCEPT ![order] = outcome] /\ order \in Rules
    BY <1>1, <1>7 DEF ConditionReturns
  <2>2. /\ cond'[order] = outcome
        /\ \A p \in Rules : p # order => cond'[p] = cond[p]
    BY <2>1 DEF TypeOK
  <2>3. ~Selects(entry, order)
    BY <2>1 DEF Selects, SelectionInv, Untouched
  <2>4. Marked'
    BY <1>7, <2>1, <2>2, <2>3 DEF Marked, InGroup, Here, Selects
  <2>5. Calm' /\ Called'
    BY <1>2, <1>7, <2>1, <2>2 DEF Calm, Called
  <2>. QED
    BY <2>4, <2>5
<1>8. CASE ConditionFalse \/ ConditionTrue \/ ConditionError \/ ConditionPanic
           \/ ConditionUnwinds
  BY <1>7, <1>8 DEF ConditionFalse, ConditionTrue, ConditionError, ConditionPanic,
                    ConditionUnwinds
<1>9. ASSUME NEW outcome \in {"ok", "error", "panic"}, ActionReturns(outcome),
             pc' \in {"actionDone", "panicked", "unwound"},
             outcome = "panic" <=> pc' # "actionDone",
             \/ groups' = groups
             \/ outcome = "ok" /\ Here.kind = "first-fire"
      PROVE  Marked' /\ Calm' /\ Called'
  <2>1. /\ pc = "action" /\ entries' = entries /\ entry' = entry /\ order' = order
        /\ cond' = cond /\ act' = [act EXCEPT ![order] = outcome] /\ order \in Rules
    BY <1>1, <1>9 DEF ActionReturns
  <2>2. /\ act'[order] = outcome /\ cond[order] = "true" /\ act[order] = "uncalled"
        /\ \A p \in Rules : p # order => act'[p] = act[p]
    BY <2>1 DEF TypeOK, SelectionInv, Untouched
  <2>3. Marked'
    BY <1>9, <2>1, <2>2 DEF Marked, InGroup, Here, Selects
  <2>4. Calm' /\ Called'
    BY <1>2, <1>9, <2>1, <2>2 DEF Calm, Called
  <2>. QED
    BY <2>3, <2>4
<1>10. CASE ActionOk \/ ActionError \/ ActionPanic \/ ActionUnwinds
  BY <1>9, <1>10 DEF ActionOk, ActionError, ActionPanic, ActionUnwinds
<1>11. CASE AfterCondition
  <2>1. /\ cond' = cond /\ act' = act /\ entries' = entries /\ entry' = entry
        /\ groups' = groups /\ pc = "conditionDone"
        /\ \/ pc' = "stop"
           \/ pc' = "rule" /\ cond[order] # "true"
           \/ pc' = "action" /\ order' = order
    BY <1>11 DEF AfterCondition, Decide
  <2>2. cond[order] # "true" => ~Selects(entry, order)
    BY <2>1, <1>1 DEF Selects, SelectionInv, Untouched
  <2>. QED
    BY <1>2, <2>1, <2>2 DEF Marked, Calm, Called, InGroup, Here, Selects
<1>12. CASE AfterAction
  <2>1. /\ cond' = cond /\ act' = act /\ entries' = entries /\ entry' = entry
        /\ pc = "actionDone"
        /\ \/ pc' \in {"stop", "advance"}
           \/ pc' = "rule" /\ groups' = groups /\ ~(InGroup /\ groups[entry].state = "Resolved")
    BY <1>12 DEF AfterAction
  <2>. QED
    BY <1>2, <2>1 DEF Marked, Calm, Called, InGroup, Here
<1>13. CASE Deliver \/ (\E cause \in {"error", "panic"} : ObserverFails(cause))
            \/ ContextEnds \/ Terminated \/ UNCHANGED vars
  <2>1. /\ cond' = cond /\ act' = act /\ entries' = entries /\ groups' = groups
        /\ entry' = entry /\ order' = order /\ pc' = pc
    BY <1>13 DEF Deliver, ObserverFails, ContextEnds, Terminated, vars
  <2>. QED
    BY <1>2, <2>1 DEF Marked, Calm, Called, InGroup, Here, Selects
<1>. QED
  BY <1>3, <1>4, <1>5, <1>6, <1>8, <1>10, <1>11, <1>12, <1>13 DEF Next, Step, Work, Observe

(* The stop that is justified stays so until the Result is returned. *)
LEMMA JustifiedKept ==
    ASSUME Justified, stop' = stop, late' = late, Done => ctx' = ctx,
           entries' = entries, config' = config, cond' = cond, act' = act
    PROVE  Justified'
<1>1. /\ CalledStops' = CalledStops /\ Rules' = Rules
      /\ \A o : Contract!Passed(o)' <=> Contract!Passed(o)
  BY ContractFrame
<1>2. Done => ContextStop' = ContextStop /\ Done'
  BY DEF Done, ContextStop
<1>. QED
  BY <1>1, <1>2 DEF Justified

LEMMA ConcludingStep ==
    ContractContext /\ ContractInv /\ [Next]_vars => Concluding'
<1> SUFFICES ASSUME ContractContext, ContractInv, [Next]_vars PROVE Concluding'
  OBVIOUS
<1> USE DEF setup, control, ledger, observation, history, At, AtRule, Visiting,
            ContractContext, ContractInv
<1>1. pc \in Visiting => order \in Rules
  BY MemberFacts DEF Position
<1>2. pc \notin {"panicked", "stop", "finish", "done", "unwound"}
        => "Panic" \notin CalledStops
  BY NoPanicCalled DEF Calm
<1>3. CASE Start \/ PassInitialCheck \/ EnterRules \/ EnterGroup \/ NextRule
           \/ BeginCondition \/ ConditionFalse \/ ConditionTrue \/ ConditionError
           \/ ActionOk \/ ActionError \/ Exhaust
  <2>1. pc' \notin {"panicked", "stop", "finish", "done", "unwound"}
    BY <1>3 DEF Start, PassInitialCheck, EnterRules, EnterGroup, NextRule, BeginCondition,
                ConditionFalse, ConditionTrue, ConditionError, ActionOk, ActionError, Exhaust
  <2>. QED
    BY <2>1 DEF Concluding
<1>4. CASE Interrupt
  <2>1. /\ pc \in {"initial", "conditionDone", "actionDone", "entry", "rule"}
        /\ pc' \in {"stop", "finish"} /\ Done /\ ctx' = ctx /\ stop' = ContextStop
        /\ cond' = cond /\ act' = act /\ entries' = entries /\ config' = config
    BY <1>4 DEF Interrupt
  <2>2. CalledStops' = CalledStops /\ Done' /\ ContextStop' = ContextStop
    BY <2>1, ContractFrame DEF Done, ContextStop
  <2>3. Justified'
    BY <1>2, <2>1, <2>2 DEF Justified
  <2>. QED
    BY <2>1, <2>3 DEF Concluding
<1>5. CASE ConditionPanic \/ ActionPanic
  <2>1. /\ stop' = "Panic" /\ pc' = "panicked"
        /\ order \in Rules /\ order' = order /\ Rules' = Rules
        /\ cond'[order] = "panic" \/ act'[order] = "panic"
    BY <1>1, <1>5 DEF ConditionPanic, ActionPanic, ConditionReturns, ActionReturns, TypeOK,
                      Rules, Total
  <2>2. Contract!StopCalledFor(order)' = "Panic"
    BY <2>1 DEF Contract!StopCalledFor
  <2>3. "Panic" \in CalledStops'
    BY <2>1, <2>2 DEF CalledStops
  <2>. QED
    BY <2>1, <2>3 DEF Concluding
<1>6. CASE ConditionUnwinds \/ ActionUnwinds \/ ObserverUnwinds
  <2>1. pc' = "unwound" /\ Quiet'
    BY <1>6 DEF ConditionUnwinds, ActionUnwinds, ObserverUnwinds, ConditionReturns,
                ActionReturns, Quiet
  <2>. QED
    BY <2>1 DEF Concluding
<1>7. CASE AfterPanic
  <2>1. /\ pc = "panicked" /\ pc' = "stop" /\ stop' = stop
        /\ cond' = cond /\ act' = act /\ entries' = entries /\ config' = config
    BY <1>7 DEF AfterPanic
  <2>2. Justified'
    BY <2>1, ContractFrame DEF Justified, Concluding
  <2>. QED
    BY <2>1, <2>2 DEF Concluding
<1>8. ASSUME pc \in {"conditionDone", "actionDone"}, pc' = "stop", ~Done, late' = late,
             cond' = cond, act' = act, entries' = entries, config' = config,
             stop' = Contract!StopCalledFor(order), stop' # "None"
      PROVE  Concluding'
  <2>1. CalledStops' = CalledStops /\ "Panic" \notin CalledStops /\ stop' \in CalledStops
    BY <1>1, <1>2, <1>8, ContractFrame DEF CalledStops
  <2>2. ~late
    BY <1>8 DEF AfterEnd
  <2>3. Justified'
    BY <1>8, <2>1, <2>2 DEF Justified
  <2>. QED
    BY <1>8, <2>3 DEF Concluding
<1>9. CASE AfterCondition
  <2>1. /\ pc = "conditionDone" /\ ~Done /\ late' = late
        /\ cond' = cond /\ act' = act /\ entries' = entries /\ config' = config
        /\ act[order] = "uncalled" /\ pc' \in {"stop", "rule", "action"}
    BY <1>9 DEF AfterCondition, Decide, SelectionInv, Untouched
  <2>2. CASE pc' = "stop"
    <3>1. /\ cond[order] = "error" /\ config.conditionErrors = "StopOnError"
          /\ stop' = "ConditionError"
      BY <1>9, <2>2 DEF AfterCondition, Decide
    <3>2. Contract!StopCalledFor(order) = "ConditionError"
      BY <2>1, <3>1 DEF Contract!StopCalledFor
    <3>. QED
      BY <1>8, <2>1, <2>2, <3>1, <3>2
  <2>. QED
    BY <2>1, <2>2 DEF Concluding
<1>10. CASE AfterAction
  <2>1. /\ pc = "actionDone" /\ ~Done /\ late' = late
        /\ cond' = cond /\ act' = act /\ entries' = entries /\ config' = config
        /\ cond[order] = "true" /\ act[order] # "uncalled" /\ act[order] # "panic"
        /\ pc' \in {"stop", "rule", "advance"}
    BY <1>1, <1>10 DEF AfterAction, Called, Calm
  <2>2. CASE pc' = "stop"
    <3>1. stop' = PolicyStop /\ PolicyStop # "None"
      BY <1>10, <2>2 DEF AfterAction
    <3>2. Contract!StopCalledFor(order) = PolicyStop
      BY <2>1 DEF Contract!StopCalledFor, PolicyStop
    <3>. QED
      BY <1>8, <2>1, <2>2, <3>1, <3>2
  <2>. QED
    BY <2>1, <2>2 DEF Concluding
<1>11. CASE Leave
  <2>1. /\ stop' = stop /\ late' = late /\ ctx' = ctx
        /\ cond' = cond /\ act' = act /\ entries' = entries /\ config' = config
        /\ \/ pc = "stop" /\ pc' = "finish"
           \/ pc = "advance" /\ pc' = "entry"
    BY <1>11 DEF Leave
  <2>2. pc = "stop" => Justified'
    BY <2>1, JustifiedKept DEF Concluding
  <2>. QED
    BY <2>1, <2>2 DEF Concluding
<1>12. CASE Complete
  <2>1. /\ pc = "entry" /\ entry > Len(entries) /\ pc' = "finish" /\ stop' = "Completed"
        /\ cond' = cond /\ act' = act /\ entries' = entries /\ config' = config
        /\ late' = late
    BY <1>12 DEF Complete
  <2>2. \A p \in Rules : Contract!Passed(p)
    <3>1. ~(entry <= Len(entries))
      BY <2>1, LayoutFacts DEF TypeOK
    <3>. QED
      BY <2>1, <3>1 DEF Behind
  <2>3. ~late
    BY <2>1 DEF AfterEnd
  <2>4. Justified'
    BY <2>1, <2>2, <2>3, ContractFrame DEF Justified
  <2>. QED
    BY <2>1, <2>4 DEF Concluding
<1>13. CASE Finish
  <2>1. /\ pc = "finish" /\ pc' = "done" /\ stop' = stop /\ late' = late /\ ctx' = ctx
        /\ cond' = cond /\ act' = act /\ entries' = entries /\ config' = config
    BY <1>13 DEF Finish
  <2>2. Justified'
    BY <2>1, JustifiedKept DEF Concluding
  <2>. QED
    BY <2>1, <2>2 DEF Concluding
<1>14. CASE Deliver \/ (\E cause \in {"error", "panic"} : ObserverFails(cause))
            \/ ContextEnds \/ Terminated \/ UNCHANGED vars
  <2>1. /\ cond' = cond /\ act' = act /\ entries' = entries /\ config' = config
        /\ stop' = stop /\ late' = late /\ pc' = pc /\ (Done => ctx' = ctx)
        /\ Quiet => Quiet'
    BY <1>14 DEF Deliver, ObserverFails, ContextEnds, Terminated, vars, Quiet
  <2>2. Justified => Justified'
    BY <2>1, JustifiedKept
  <2>3. CalledStops' = CalledStops
    BY <2>1, ContractFrame
  <2>. QED
    BY <2>1, <2>2, <2>3 DEF Concluding
<1>. QED
  BY <1>3, <1>4, <1>5, <1>6, <1>7, <1>9, <1>10, <1>11, <1>12, <1>13, <1>14
  DEF Next, Step, Work, Observe

LEMMA ContractInvariant == Spec => [](ContractContext /\ ContractInv)
<1>1. Init => ContractContext /\ ContractInv
  BY TypeInit, LedgerInit, SelectionInit, ContractInit
  DEF ContractContext, LedgerInv, AfterEnd, Init
<1>2. ContractContext /\ ContractInv /\ TypeOK /\ LedgerInv /\ [Next]_vars
        => ContractContext' /\ ContractInv'
  <2>1. ASSUME ContractContext, ContractInv, LedgerInv, [Next]_vars PROVE ContractInv'
    BY <2>1, BehindStep, MarkedStep, ConcludingStep DEF ContractInv
  <2>2. ASSUME ContractContext, LedgerInv, [Next]_vars PROVE ContractContext'
    BY <2>2, TypeStep, PositionStep, SelectionStep, AfterEndStep DEF ContractContext
  <2>. QED
    BY <2>1, <2>2
<1>. QED
  BY <1>1, <1>2, TypeAndLedger, PTL DEF Spec

-----------------------------------------------------------------------------
(* The simulation. *)

Reported == IF pc = "unwound" THEN "unwound" ELSE IF Returned THEN stop ELSE "open"

LEMMA ContractInitial == Init => Contract!Init
  BY DEF Init, Contract!Init, Contract!Rules, Rules, Total, Returned, Live

(* A step that calls nothing, returns nothing and leaves nothing is        *)
(* invisible to the contract.                                              *)
LEMMA Invisible ==
    ASSUME UNCHANGED <<entries, config, ctx, cond, act, late>>, Reported' = Reported
    PROVE  UNCHANGED Contract!vars
  BY DEF Contract!vars, Reported

(* The call of a condition at the cursor. *)
LEMMA EvaluateAllowed ==
    ASSUME ContractContext, ContractInv, NEW outcome \in {"false", "true", "error", "panic"},
           ConditionReturns(outcome), UNCHANGED <<setup, ctx>>,
           outcome = "panic" /\ config.panic = "PropagatePanics" <=> pc' = "unwound",
           pc' # "done"
    PROVE  Contract!Next
<1> USE DEF ContractContext, ContractInv, setup
<1>1. /\ pc = "inCondition" /\ order \in Rules /\ entry \in 1 .. Len(entries)
      /\ order \in Members(entry) /\ cond[order] = "uncalled"
      /\ cond' = [cond EXCEPT ![order] = outcome] /\ act' = act /\ late' = (late \/ Done)
  BY MemberFacts DEF ConditionReturns, At, Position, AtRule, Visiting, SelectionInv, Untouched
<1>2. ~late
  BY <1>1 DEF AfterEnd
<1>3. ~Contract!Bypassed(order)
  <2> SUFFICES ASSUME NEW k \in 1 .. Len(entries), NEW p \in Members(k),
                      order \in Members(k), p < order, Selects(k, p)
               PROVE  FALSE
    BY <1>1, BypassedMeaning
  <2>1. k = entry
    BY <1>1, MemberFacts
  <2>. QED
    BY <1>1, <2>1 DEF SelectionInv, Unselected, AtRule, Visiting
<1>4. \A p \in 0 .. order - 1 : Contract!Passed(p)
  BY <1>1, ContractRules DEF Behind, AtRule, Visiting, Rules
<1>5. Reported = "open" /\ Reported' = IF pc' = "unwound" THEN "unwound" ELSE "open"
  BY <1>1 DEF Reported, Returned
<1>6. Contract!Done <=> Done
  BY DEF Contract!Done, Done
<1>7. Contract!Evaluate(order, outcome)
  BY <1>1, <1>2, <1>3, <1>4, <1>5, <1>6 DEF Contract!Evaluate, Contract!Called, Reported
<1>. QED
  BY <1>1, <1>7, ContractRules DEF Contract!Next

(* The call of an action at the cursor. *)
LEMMA ActAllowed ==
    ASSUME ContractContext, ContractInv, NEW outcome \in {"ok", "error", "panic"},
           ActionReturns(outcome), UNCHANGED <<setup, ctx>>,
           outcome = "panic" /\ config.panic = "PropagatePanics" <=> pc' = "unwound",
           pc' # "done"
    PROVE  Contract!Next
<1> USE DEF ContractContext, ContractInv, setup
<1>1. /\ pc = "action" /\ order \in Rules /\ cond[order] = "true" /\ act[order] = "uncalled"
      /\ act' = [act EXCEPT ![order] = outcome] /\ cond' = cond /\ late' = (late \/ Done)
  BY MemberFacts DEF ActionReturns, At, Position, AtRule, Visiting, SelectionInv, Untouched
<1>2. ~late
  BY <1>1 DEF AfterEnd
<1>3. Reported = "open" /\ Reported' = IF pc' = "unwound" THEN "unwound" ELSE "open"
  BY <1>1 DEF Reported, Returned
<1>4. Contract!Done <=> Done
  BY DEF Contract!Done, Done
<1>5. Contract!Act(order, outcome)
  BY <1>1, <1>2, <1>3, <1>4 DEF Contract!Act, Contract!Called, Reported
<1>. QED
  BY <1>1, <1>5, ContractRules DEF Contract!Next

(* The moment the Result is handed to the caller. *)
LEMMA ConcludeAllowed ==
    ASSUME ContractContext, ContractInv, pc # "unwound", ~Returned, Returned',
           Justified', UNCHANGED <<entries, config, ctx, cond, act, late>>
    PROVE  Contract!Next
<1> USE DEF ContractContext, ContractInv
<1>1. Reported = "open" /\ Reported' = stop'
  BY DEF Reported, Returned
<1>2. /\ CalledStops' = CalledStops /\ Rules' = Rules
      /\ \A o : Contract!Passed(o)' <=> Contract!Passed(o)
      /\ Done' = Done /\ ContextStop' = ContextStop
  BY ContractFrame DEF Done, ContextStop
<1>3. {Contract!StopCalledFor(o) : o \in Contract!Rules} = CalledStops
  BY ContractRules DEF CalledStops
<1>4. Contract!Done <=> Done
  BY DEF Contract!Done, Done
<1>5. \/ "Panic" \in CalledStops /\ stop' = "Panic"
      \/ stop' = ContextStop /\ Done /\ "Panic" \notin CalledStops
      \/ ~late /\ stop' \in CalledStops \ {"None"} /\ "Panic" \notin CalledStops
      \/ ~late /\ stop' = "Completed" /\ \A p \in Contract!Rules : Contract!Passed(p)
  BY <1>2, ContractRules DEF Justified
<1>6. Contract!Conclude
  BY <1>1, <1>3, <1>4, <1>5 DEF Contract!Conclude, Reported, ContextStop
<1>. QED
  BY <1>6 DEF Contract!Next

LEMMA ContractStep ==
    ContractContext /\ ContractInv /\ ContractInv' /\ [Next]_vars
        => [Contract!Next]_(Contract!vars)
<1> SUFFICES ASSUME ContractContext, ContractInv, ContractInv', [Next]_vars
             PROVE  Contract!Next \/ UNCHANGED Contract!vars
  OBVIOUS
<1> USE DEF setup, control, ledger, observation, history, At
<1>1. ASSUME UNCHANGED <<entries, config, ctx, cond, act, late>>,
             pc \notin {"done", "unwound"}, pc' \notin {"done", "unwound"}
      PROVE  Contract!Next \/ UNCHANGED Contract!vars
  BY <1>1, Invisible DEF Reported, Returned
<1>2. CASE Start \/ PassInitialCheck \/ Interrupt \/ EnterRules \/ EnterGroup \/ NextRule
           \/ BeginCondition \/ AfterPanic
  BY <1>1, <1>2 DEF Start, PassInitialCheck, Interrupt, EnterRules, EnterGroup, NextRule,
                    BeginCondition, AfterPanic
<1>3. CASE AfterCondition \/ AfterAction \/ Exhaust \/ Leave \/ Complete
  BY <1>1, <1>3 DEF AfterCondition, Decide, AfterAction, Exhaust, Leave, Complete
<1>4. CASE ConditionFalse \/ ConditionTrue \/ ConditionError \/ ConditionPanic
           \/ ConditionUnwinds
  BY <1>4, EvaluateAllowed DEF ConditionFalse, ConditionTrue, ConditionError, ConditionPanic,
                               ConditionUnwinds, ConditionReturns
<1>5. CASE ActionOk \/ ActionError \/ ActionPanic \/ ActionUnwinds
  BY <1>5, ActAllowed DEF ActionOk, ActionError, ActionPanic, ActionUnwinds, ActionReturns
<1>6. CASE Finish \/ Deliver \/ (\E cause \in {"error", "panic"} : ObserverFails(cause))
  <2>1. /\ UNCHANGED <<entries, config, ctx, cond, act, late>>
        /\ pc # "unwound" /\ pc' # "unwound" /\ ~Returned
    BY <1>6 DEF Finish, Deliver, ObserverFails, Returned, ContractInv, Concluding
  <2>2. CASE Returned'
    <3>1. Justified'
      BY <2>2 DEF Returned, ContractInv, Concluding
    <3>. QED
      BY <2>1, <2>2, <3>1, ConcludeAllowed
  <2>3. CASE ~Returned'
    BY <2>1, <2>3, Invisible DEF Reported
  <2>. QED
    BY <2>2, <2>3
<1>7. CASE ObserverUnwinds
  <2>1. /\ UNCHANGED <<entries, config, ctx, cond, act, late>>
        /\ config.panic = "PropagatePanics"
        /\ pc # "unwound" /\ pc' = "unwound" /\ ~Returned
    BY <1>7 DEF ObserverUnwinds, Returned, ContractInv, Concluding
  <2>2. Contract!Unwind
    BY <2>1 DEF Contract!Unwind
  <2>. QED
    BY <2>2 DEF Contract!Next
<1>8. CASE ContextEnds
  <2>1. /\ UNCHANGED <<entries, config, cond, act, late, pc, pending>>
        /\ ~Done /\ ctx' \in Endings /\ pc # "unwound" /\ ~Returned
    BY <1>8 DEF ContextEnds, Returned
  <2>2. ~Returned'
    BY <2>1 DEF Returned, Quiet
  <2>3. Contract!ContextEnds
    BY <2>1, <2>2 DEF Contract!ContextEnds, Contract!Done, Done
  <2>. QED
    BY <2>3 DEF Contract!Next
<1>9. CASE Terminated \/ UNCHANGED vars
  BY <1>9, Invisible DEF Terminated, vars, Reported, Returned, Quiet
<1>. QED
  BY <1>2, <1>3, <1>4, <1>5, <1>6, <1>7, <1>8, <1>9 DEF Next, Step, Work, Observe

(* Execution implements the contract of Fire: what was called, in which    *)
(* order and with which stop reason is what FireContract allows, whatever  *)
(* the observer does (ImplementsContract).                                 *)
THEOREM FireImplementsContract == Spec => ImplementsContract
<1>1. Init => Contract!Init
  BY ContractInitial
<1>2. ContractContext /\ ContractInv /\ (ContractContext /\ ContractInv)' /\ [Next]_vars
        => [Contract!Next]_(Contract!vars)
  BY ContractStep
<1>. QED
  BY <1>1, <1>2, ContractInvariant, PTL DEF Spec, ImplementsContract, Contract!Spec

-----------------------------------------------------------------------------
(* What Fire returns: counts, groups, holes, facts, the error, the views   *)
(* and the events (ExecutionResult).                                       *)
(* Which rules each count is about, from what their callbacks did. *)
Counted(f, c, a) ==
    CASE f = "Evaluated" -> c # "uncalled"
      [] f = "Matched" -> c = "true"
      [] f = "Unmatched" -> c = "false"
      [] f = "Fired" -> c = "true" /\ a = "ok"
      [] f = "Skipped" -> c = "true" /\ a = "uncalled"
      [] f = "Failed" -> c \in {"error", "panic"} \/ a \in {"error", "panic"}
      [] f = "ConditionFailed" -> c \in {"error", "panic"}
      [] f = "ActionFailed" -> a \in {"error", "panic"}
      [] f = "PanicRecovered" -> c = "panic" \/ a = "panic"
      [] OTHER -> FALSE

Those(f) == {o \in Rules : Counted(f, cond[o], act[o])}

(* How far the count runs ahead of the callbacks, for the rule in flight:  *)
(* a condition is counted before it is called, a match only when its       *)
(* action's fate is known.                                                 *)
Ahead(f) ==
    IF f = "Evaluated" /\ pc = "inCondition" THEN 1
    ELSE IF f \in {"Matched", "Skipped"} /\ Matching THEN -1
    ELSE 0

RunningFields == CountFields \ {"NotEvaluated"}

Tally ==
    pc # "unwound" =>
        \A f \in RunningFields : counts[f] = Cardinality(Those(f)) + Ahead(f)

-----------------------------------------------------------------------------
(* The sets that are counted are finite, and one callback changes each of  *)
(* them by at most the rule that was called.                               *)
LEMMA ThoseFinite ==
    ASSUME TypeOK
    PROVE  /\ IsFiniteSet(Rules) /\ Cardinality(Rules) = Total
           /\ \A f : /\ Those(f) \subseteq Rules /\ IsFiniteSet(Those(f))
                     /\ Cardinality(Those(f)) \in Nat
<1>1. Total \in Nat
  BY LayoutFacts DEF TypeOK
<1>2. IsFiniteSet(Rules) /\ Cardinality(Rules) = Total
  BY <1>1, FS_Interval DEF Rules
<1>3. \A f : Those(f) \subseteq Rules
  BY DEF Those
<1>. QED
  BY <1>2, <1>3, FS_Subset, FS_CardinalityType

LEMMA Recount ==
    ASSUME TypeOK, NEW o \in Rules, entries' = entries, NEW f,
           \A p \in Rules : p # o => cond'[p] = cond[p] /\ act'[p] = act[p]
    PROVE  /\ (Counted(f, cond[o], act[o]) <=> Counted(f, cond'[o], act'[o]))
                => Cardinality(Those(f)') = Cardinality(Those(f))
           /\ ~Counted(f, cond[o], act[o]) /\ Counted(f, cond'[o], act'[o])
                => Cardinality(Those(f)') = Cardinality(Those(f)) + 1
           /\ Counted(f, cond[o], act[o]) /\ ~Counted(f, cond'[o], act'[o])
                => Cardinality(Those(f)') = Cardinality(Those(f)) - 1
<1>1. Rules' = Rules
  BY DEF Rules, Total
<1>2. \A p \in Rules : p # o => (p \in Those(f)' <=> p \in Those(f))
  BY <1>1 DEF Those
<1>3. /\ o \in Those(f) <=> Counted(f, cond[o], act[o])
      /\ o \in Those(f)' <=> Counted(f, cond'[o], act'[o])
  BY <1>1 DEF Those
<1>4. /\ IsFiniteSet(Those(f)) /\ Those(f) \subseteq Rules /\ Those(f)' \subseteq Rules
      /\ Cardinality(Those(f)) \in Nat
  BY <1>1, ThoseFinite DEF Those
<1>5. CASE o \in Those(f) <=> o \in Those(f)'
  <2>1. Those(f)' = Those(f)
    BY <1>2, <1>4, <1>5
  <2>. QED
    BY <1>3, <1>5, <2>1
<1>6. CASE o \notin Those(f) /\ o \in Those(f)'
  <2>1. Those(f)' = Those(f) \cup {o}
    BY <1>2, <1>4, <1>6
  <2>2. Cardinality(Those(f)') = Cardinality(Those(f)) + 1
    BY <1>4, <1>6, <2>1, FS_AddElement
  <2>. QED
    BY <1>3, <1>6, <2>2
<1>7. CASE o \in Those(f) /\ o \notin Those(f)'
  <2>1. Those(f)' = Those(f) \ {o}
    BY <1>2, <1>4, <1>7
  <2>2. Cardinality(Those(f)') = Cardinality(Those(f)) - 1
    BY <1>4, <1>7, <2>1, FS_RemoveElement
  <2>. QED
    BY <1>3, <1>7, <2>2
<1>. QED
  BY <1>5, <1>6, <1>7

LEMMA TallyFrame ==
    ASSUME entries' = entries, cond' = cond, act' = act
    PROVE  \A f : Those(f)' = Those(f)
  BY DEF Those, Rules, Total

(* A callback moves the counts exactly as it moves the rules. *)
LEMMA CallTally ==
    ASSUME TypeOK, Tally, NEW o \in Rules, entries' = entries, pc # "unwound",
           \A p \in Rules : p # o => cond'[p] = cond[p] /\ act'[p] = act[p],
           NEW fields, Increment(fields),
           \A f \in RunningFields :
             (IF f \in fields THEN 1 ELSE 0) =
               (IF Counted(f, cond'[o], act'[o]) THEN 1 ELSE 0)
               - (IF Counted(f, cond[o], act[o]) THEN 1 ELSE 0) + Ahead(f)' - Ahead(f)
    PROVE  Tally'
<1> SUFFICES ASSUME NEW f \in RunningFields
             PROVE  counts'[f] = Cardinality(Those(f)') + Ahead(f)'
  BY DEF Tally
<1>1. /\ counts[f] = Cardinality(Those(f)) + Ahead(f)
      /\ counts'[f] = counts[f] + IF f \in fields THEN 1 ELSE 0
  BY DEF Tally, Increment, RunningFields
<1>2. Cardinality(Those(f)) \in Nat /\ Ahead(f) \in Int /\ Ahead(f)' \in Int
  BY ThoseFinite DEF Ahead
<1>3. Cardinality(Those(f)') = Cardinality(Those(f))
        + (IF Counted(f, cond'[o], act'[o]) THEN 1 ELSE 0)
        - (IF Counted(f, cond[o], act[o]) THEN 1 ELSE 0)
  BY <1>2, Recount
<1>. QED
  BY <1>1, <1>2, <1>3

LEMMA TallyInit == Init => Tally
<1> SUFFICES ASSUME Init, NEW f \in RunningFields
             PROVE  counts[f] = Cardinality(Those(f)) + Ahead(f)
  BY DEF Tally
<1>1. \A o \in Rules : cond[o] = "uncalled" /\ act[o] = "uncalled"
  BY DEF Init
<1>2. ~Counted(f, "uncalled", "uncalled")
  BY DEF Counted
<1>3. Those(f) = {}
  BY <1>1, <1>2 DEF Those
<1>. QED
  BY <1>3, FS_EmptySet DEF Init, ZeroCounts, RunningFields, Ahead, Matching

LEMMA TallyStep ==
    ContractContext /\ Tally /\ [Next]_vars => Tally'
<1> SUFFICES ASSUME ContractContext, Tally, [Next]_vars PROVE Tally'
  OBVIOUS
<1> USE DEF setup, control, ledger, observation, history, At, AtRule, Visiting,
            ContractContext
<1>1. pc \in Visiting => order \in Rules
  BY MemberFacts
<1>2. \A f : Cardinality(Those(f)) \in Nat
  BY ThoseFinite
<1>3. ASSUME entries' = entries, cond' = cond, act' = act, counts' = counts, pc # "unwound",
             \A f \in RunningFields : Ahead(f)' = Ahead(f)
      PROVE  Tally'
  BY <1>3, TallyFrame DEF Tally
<1>4. CASE Start \/ PassInitialCheck \/ EnterRules \/ EnterGroup \/ NextRule \/ AfterPanic
           \/ AfterAction \/ Exhaust \/ Leave \/ Complete
  <2>1. /\ entries' = entries /\ cond' = cond /\ act' = act /\ counts' = counts
        /\ pc \notin {"unwound", "conditionDone", "action", "inCondition"}
        /\ pc' \notin {"unwound", "conditionDone", "action", "inCondition"}
    BY <1>4 DEF Start, PassInitialCheck, EnterRules, EnterGroup, NextRule, AfterPanic,
                AfterAction, Exhaust, Leave, Complete
  <2>. QED
    BY <1>3, <2>1 DEF Ahead, Matching
<1>5. CASE AfterCondition
  <2>1. /\ entries' = entries /\ cond' = cond /\ act' = act /\ counts' = counts
        /\ pc = "conditionDone"
        /\ \/ pc' \in {"stop", "rule"} /\ cond[order] # "true"
           \/ pc' = "action" /\ cond[order] = "true"
    BY <1>5 DEF AfterCondition, Decide
  <2>. QED
    BY <1>3, <2>1 DEF Ahead, Matching
<1>6. CASE Interrupt
  <2>1. /\ entries' = entries /\ cond' = cond /\ act' = act
        /\ pc \in {"initial", "conditionDone", "actionDone", "entry", "rule"}
        /\ pc' \in {"stop", "finish"}
    BY <1>6 DEF Interrupt
  <2>2. CASE pc = "conditionDone" /\ cond[order] = "true"
    <3>1. Increment({"Matched", "Skipped"})
      BY <1>6, <2>2 DEF Interrupt
    <3>2. order \in Rules
      BY <1>1, <2>2
    <3>. QED
      BY <2>1, <2>2, <3>1, <3>2, CallTally DEF Ahead, Matching
  <2>3. CASE ~(pc = "conditionDone" /\ cond[order] = "true")
    <3>1. counts' = counts
      BY <1>6, <2>3 DEF Interrupt
    <3>. QED
      BY <1>3, <2>1, <2>3, <3>1 DEF Ahead, Matching
  <2>. QED
    BY <2>2, <2>3
<1>7. CASE BeginCondition
  <2>1. /\ entries' = entries /\ cond' = cond /\ act' = act /\ Increment({"Evaluated"})
        /\ pc = "condition" /\ pc' = "inCondition"
    BY <1>7 DEF BeginCondition
  <2>2. \A f \in RunningFields : counts'[f] = counts[f] + IF f = "Evaluated" THEN 1 ELSE 0
    BY <2>1 DEF Increment, RunningFields
  <2>3. \A f \in RunningFields : Ahead(f)' = Ahead(f) + IF f = "Evaluated" THEN 1 ELSE 0
    BY <2>1 DEF Ahead, Matching
  <2>4. \A f \in RunningFields : counts[f] = Cardinality(Those(f)) + Ahead(f)
    BY <2>1 DEF Tally
  <2>. QED
    BY <1>2, <2>1, <2>2, <2>3, <2>4, TallyFrame DEF Tally, Ahead
<1>8. ASSUME NEW outcome \in {"false", "true", "error", "panic"}, ConditionReturns(outcome)
      PROVE  /\ entries' = entries /\ pc = "inCondition" /\ order \in Rules
             /\ order' = order
             /\ \A p \in Rules : p # order => cond'[p] = cond[p] /\ act'[p] = act[p]
             /\ cond[order] = "uncalled" /\ act[order] = "uncalled"
             /\ cond'[order] = outcome /\ act'[order] = "uncalled"
  <2>1. /\ pc = "inCondition" /\ order \in Rules /\ cond[order] = "uncalled"
        /\ act[order] = "uncalled"
    BY <1>1, <1>8 DEF ConditionReturns, SelectionInv, Untouched, TypeOK
  <2>. QED
    BY <1>8, <2>1 DEF ConditionReturns, TypeOK
<1>9. ASSUME NEW outcome \in {"ok", "error", "panic"}, ActionReturns(outcome)
      PROVE  /\ entries' = entries /\ pc = "action" /\ order \in Rules
             /\ order' = order
             /\ \A p \in Rules : p # order => cond'[p] = cond[p] /\ act'[p] = act[p]
             /\ cond[order] = "true" /\ act[order] = "uncalled"
             /\ cond'[order] = "true" /\ act'[order] = outcome
  <2>1. /\ pc = "action" /\ order \in Rules /\ cond[order] = "true"
        /\ act[order] = "uncalled"
    BY <1>1, <1>9 DEF ActionReturns, SelectionInv, Untouched
  <2>. QED
    BY <1>9, <2>1 DEF ActionReturns, TypeOK
<1>10. CASE ConditionFalse
  <2>1. Increment({"Unmatched"}) /\ pc' = "conditionDone" /\ ConditionReturns("false")
    BY <1>10 DEF ConditionFalse
  <2>. QED
    BY <1>8, <2>1, CallTally DEF Counted, Ahead, Matching, RunningFields, CountFields
<1>11. CASE ConditionTrue
  <2>1. counts' = counts /\ pc' = "conditionDone" /\ ConditionReturns("true")
    BY <1>11 DEF ConditionTrue
  <2>2. Increment({})
    BY <2>1 DEF Increment, TypeOK, CountSpace
  <2>. QED
    BY <1>8, <2>1, <2>2, CallTally DEF Counted, Ahead, Matching, RunningFields, CountFields
<1>12. CASE ConditionError
  <2>1. /\ Increment({"Failed", "ConditionFailed"}) /\ pc' = "conditionDone"
        /\ ConditionReturns("error")
    BY <1>12 DEF ConditionError, Fail, FailedIn, Increment
  <2>. QED
    BY <1>8, <2>1, CallTally DEF Counted, Ahead, Matching, RunningFields, CountFields
<1>13. CASE ConditionPanic
  <2>1. /\ Increment({"Failed", "ConditionFailed", "PanicRecovered"}) /\ pc' = "panicked"
        /\ ConditionReturns("panic")
    BY <1>13 DEF ConditionPanic, Fail, FailedIn, Increment
  <2>. QED
    BY <1>8, <2>1, CallTally DEF Counted, Ahead, Matching, RunningFields, CountFields
<1>14. CASE ActionOk
  <2>1. Increment({"Matched", "Fired"}) /\ pc' = "actionDone" /\ ActionReturns("ok")
    BY <1>14 DEF ActionOk
  <2>. QED
    BY <1>9, <2>1, CallTally DEF Counted, Ahead, Matching, RunningFields, CountFields
<1>15. CASE ActionError
  <2>1. /\ Increment({"Failed", "ActionFailed", "Matched"}) /\ pc' = "actionDone"
        /\ ActionReturns("error")
    BY <1>15 DEF ActionError, Fail, FailedIn, Increment
  <2>. QED
    BY <1>9, <2>1, CallTally DEF Counted, Ahead, Matching, RunningFields, CountFields
<1>16. CASE ActionPanic
  <2>1. /\ Increment({"Failed", "ActionFailed", "Matched", "PanicRecovered"})
        /\ pc' = "panicked" /\ ActionReturns("panic")
    BY <1>16 DEF ActionPanic, Fail, FailedIn, Increment
  <2>. QED
    BY <1>9, <2>1, CallTally DEF Counted, Ahead, Matching, RunningFields, CountFields
<1>17. CASE ConditionUnwinds \/ ActionUnwinds \/ ObserverUnwinds
  BY <1>17 DEF ConditionUnwinds, ActionUnwinds, ObserverUnwinds, Tally
<1>18. CASE Finish
  <2>1. /\ entries' = entries /\ cond' = cond /\ act' = act /\ pc = "finish" /\ pc' = "done"
        /\ \A f \in RunningFields : counts'[f] = counts[f]
    BY <1>18 DEF Finish, RunningFields, TypeOK, CountSpace
  <2>. QED
    BY <2>1, TallyFrame DEF Tally, Ahead, Matching
<1>19. CASE Deliver \/ (\E cause \in {"error", "panic"} : ObserverFails(cause))
            \/ ContextEnds \/ Terminated \/ UNCHANGED vars
  <2>1. /\ entries' = entries /\ cond' = cond /\ act' = act /\ counts' = counts
        /\ pc' = pc /\ order' = order
    BY <1>19 DEF Deliver, ObserverFails, ContextEnds, Terminated, vars
  <2>. QED
    BY <2>1, TallyFrame DEF Tally, Ahead, Matching
<1>. QED
  BY <1>4, <1>5, <1>6, <1>7, <1>10, <1>11, <1>12, <1>13, <1>14, <1>15, <1>16, <1>17, <1>18,
     <1>19 DEF Next, Step, Work, Observe

LEMMA TallyInvariant == Spec => []Tally
<1>1. Init => Tally
  BY TallyInit
<1>2. ContractContext /\ Tally /\ [Next]_vars => Tally'
  BY TallyStep
<1>. QED
  BY <1>1, <1>2, ContractInvariant, PTL DEF Spec

(* Each count of a returned Result is the number of rules to which that    *)
(* happened (CountsAreTrue): TypeOK and LedgerInv say that the counts add  *)
(* up, Tally that each of them is the right one.                           *)
THEOREM CountsTrue == Spec => []CountsAreTrue
<1>1. ASSUME ContractContext, LedgerInv, Tally PROVE CountsAreTrue
  <2> SUFFICES ASSUME Returned
               PROVE  counts =
        [Evaluated |-> Cardinality(Where(LAMBDA o : cond[o] # "uncalled")),
         NotEvaluated |-> Cardinality(Where(LAMBDA o : cond[o] = "uncalled")),
         Matched |-> Cardinality(Where(LAMBDA o : cond[o] = "true")),
         Unmatched |-> Cardinality(Where(LAMBDA o : TrueState(o) = "Unmatched")),
         Fired |-> Cardinality(Where(LAMBDA o : TrueState(o) = "Fired")),
         Skipped |-> Cardinality(Where(LAMBDA o : TrueState(o) = "Skipped")),
         Failed |-> Cardinality(Where(LAMBDA o : TrueState(o) = "Failed")),
         ConditionFailed |-> Cardinality(Where(LAMBDA o : cond[o] \in {"error", "panic"})),
         ActionFailed |-> Cardinality(Where(LAMBDA o : act[o] \in {"error", "panic"})),
         PanicRecovered |-> Cardinality(Where(LAMBDA o : "panic" \in {cond[o], act[o]}))]
    BY DEF CountsAreTrue
  <2>1. \A f \in RunningFields : counts[f] = Cardinality(Those(f))
    <3>1. \A f \in RunningFields : Ahead(f) = 0
      BY DEF Returned, Ahead, Matching
    <3>. QED
      BY <1>1, <3>1, ThoseFinite DEF Tally, Returned, ContractContext
  <2>2. \A o \in Rules :
          /\ cond[o] \in {"uncalled", "false", "true", "error", "panic"}
          /\ act[o] \in {"uncalled", "ok", "error", "panic"}
          /\ act[o] # "uncalled" => cond[o] = "true"
    BY <1>1 DEF ContractContext, TypeOK, SelectionInv, Untouched
  <2>3. /\ Where(LAMBDA o : cond[o] # "uncalled") = Those("Evaluated")
        /\ Where(LAMBDA o : cond[o] = "true") = Those("Matched")
        /\ Where(LAMBDA o : cond[o] \in {"error", "panic"}) = Those("ConditionFailed")
        /\ Where(LAMBDA o : act[o] \in {"error", "panic"}) = Those("ActionFailed")
        /\ Where(LAMBDA o : "panic" \in {cond[o], act[o]}) = Those("PanicRecovered")
    BY DEF Where, Those, Counted
  <2>4. \A o \in Rules :
          /\ TrueState(o) = "Unmatched" <=> Counted("Unmatched", cond[o], act[o])
          /\ TrueState(o) = "Fired" <=> Counted("Fired", cond[o], act[o])
          /\ TrueState(o) = "Skipped" <=> Counted("Skipped", cond[o], act[o])
          /\ TrueState(o) = "Failed" <=> Counted("Failed", cond[o], act[o])
    BY <2>2 DEF TrueState, Counted
  <2>5. /\ Where(LAMBDA o : TrueState(o) = "Unmatched") = Those("Unmatched")
        /\ Where(LAMBDA o : TrueState(o) = "Fired") = Those("Fired")
        /\ Where(LAMBDA o : TrueState(o) = "Skipped") = Those("Skipped")
        /\ Where(LAMBDA o : TrueState(o) = "Failed") = Those("Failed")
    BY <2>4 DEF Where, Those
  <2>6. counts["NotEvaluated"] = Cardinality(Where(LAMBDA o : cond[o] = "uncalled"))
    <3>1. Where(LAMBDA o : cond[o] = "uncalled") = Rules \ Those("Evaluated")
      BY DEF Where, Those, Counted
    <3>2. /\ IsFiniteSet(Rules) /\ Cardinality(Rules) = Total /\ Total \in Nat
          /\ Those("Evaluated") \subseteq Rules /\ IsFiniteSet(Those("Evaluated"))
          /\ Cardinality(Those("Evaluated")) \in Nat
      BY <1>1, ThoseFinite, LayoutFacts DEF ContractContext, TypeOK
    <3>3. Cardinality(Rules \ Those("Evaluated"))
            = Cardinality(Rules) - Cardinality(Rules \cap Those("Evaluated"))
      BY <3>2, FS_Difference
    <3>4. Rules \cap Those("Evaluated") = Those("Evaluated")
      BY <3>2
    <3>5. counts["NotEvaluated"] + counts["Evaluated"] = Total /\ counts["NotEvaluated"] \in Nat
      BY <1>1 DEF LedgerInv, CountsPartition, Returned, ContractContext, TypeOK, CountSpace,
                  CountFields
    <3>6. counts["Evaluated"] = Cardinality(Those("Evaluated"))
      BY <2>1 DEF RunningFields, CountFields
    <3>7. Cardinality(Rules \ Those("Evaluated")) = Total - Cardinality(Those("Evaluated"))
      BY <3>2, <3>3, <3>4
    <3>8. counts["NotEvaluated"] = Total - Cardinality(Those("Evaluated"))
      BY <3>2, <3>5, <3>6
    <3>. QED
      BY <3>1, <3>7, <3>8
  <2>7. counts = [f \in CountFields |-> counts[f]]
    BY <1>1 DEF ContractContext, TypeOK, CountSpace
  <2>. QED
    BY <2>1, <2>3, <2>5, <2>6, <2>7 DEF RunningFields, CountFields
<1>. QED
  BY <1>1, TallyInvariant, ContractInvariant, TypeAndLedger, PTL
-----------------------------------------------------------------------------
(* The group records.                                                      *)
(*                                                                         *)
(* Recorded relates the record of one group to what its members did;       *)
(* Placed says how far the record has got, from where the cursor is;       *)
(* Frontier accounts for the rules that the frontier has jumped over.      *)

Uncalled(o) == cond[o] = "uncalled"

Recorded(k) ==
    LET g == groups[k] IN
    /\ {g.selected} \ {NoRule} = Selections(k)
    /\ g.state = "Resolved" <=> Selections(k) # {}
    /\ k \notin GroupEntries => g = NoGroup
    /\ g.state = "NotEntered" => g = NoGroup
    /\ g.state = "NotEntered" /\ k \in GroupEntries => \A o \in Members(k) : Uncalled(o)
    /\ g.state = "Exhausted" => \A o \in Members(k) : ~Uncalled(o)
    /\ g.state = "Resolved" => \A o \in Members(k) : o >= g.skippedFrom => Uncalled(o)
    /\ g.endReason = "Exhausted" => g.state = "Exhausted"
    /\ g.endReason = "Resolved" =>
         /\ g.state = "Resolved"
         /\ \A o \in Members(k) : Uncalled(o) => o >= g.skippedFrom
    /\ g.endReason # "ExecutionStopped" => g.stop = "None"

(* The record of a group that is being walked, or was when a stop came. *)
Walking(k) ==
    LET g == groups[k] IN
    /\ g.state \in {"Interrupted", "Resolved"} /\ g.skippedFrom = entries[k].end
    /\ g.state = "Resolved" => evaluatedThrough <= g.selected + 1

Placed(k) ==
    LET g == groups[k] IN
    /\ k > entry \/ pc \in {"start", "initial"} => g = NoGroup
    /\ k < entry /\ k \in GroupEntries => g.endReason \in {"Resolved", "Exhausted"}
    /\ k = entry /\ k \in GroupEntries =>
         /\ pc = "entry" => g = NoGroup
         /\ pc \in AtRule => g.endReason = "None" /\ Walking(k)
         /\ pc = "advance" =>
              /\ g.endReason = "None" /\ g.state \in {"Resolved", "Exhausted"}
              /\ g.state = "Resolved" =>
                   \A o \in Members(k) : Uncalled(o) => o >= g.skippedFrom
         /\ pc = "stop" => g.endReason = "None" /\ (g = NoGroup \/ Walking(k))
         /\ pc \in {"finish", "done"} => g = NoGroup \/ g.endReason = "ExecutionStopped"
    /\ g.endReason = "ExecutionStopped" =>
         /\ pc \in {"finish", "done", "unwound"} /\ Walking(k)
         /\ g.stop = stop /\ stop \notin {"None", "Completed"}

Frontier ==
    \A p \in Rules : p < evaluatedThrough /\ Uncalled(p) =>
        (pc \in {"inCondition", "unwound"} /\ p = order) \/ Contract!Bypassed(p)

Stopped ==
    /\ pc \notin {"panicked", "stop", "finish", "done", "unwound"} => stop = "None"
    /\ pc \in {"panicked", "stop"} => stop \notin {"None", "Completed"}
    /\ pc \in {"finish", "done"} /\ entry <= Len(entries) => stop \notin {"None", "Completed"}

GroupsInv ==
    /\ Frontier /\ Stopped
    /\ \A k \in 1 .. Len(entries) : Recorded(k) /\ Placed(k)

LEMMA RecordFacts ==
    ASSUME TypeOK
    PROVE  /\ \A k \in 1 .. Len(entries) : groups[k] \in GroupSpace
           /\ DOMAIN groups = 1 .. Len(entries)
           /\ \A k \in 1 .. Len(entries) : \A o \in Members(k) :
                o \in Rules /\ o \in Nat /\ entries[k].start <= o /\ o < entries[k].end
           /\ \A k \in 1 .. Len(entries) : entries[k].end \in Nat
           /\ \A k \in 1 .. Len(entries) : k \notin GroupEntries => entries[k].kind = "rules"
           /\ \A k \in 1 .. Len(entries) : k \in GroupEntries <=> entries[k].kind \in GroupKinds
<1>1. \A k \in 1 .. Len(entries) : groups[k] \in GroupSpace
  BY DEF TypeOK
<1>2. \A k \in 1 .. Len(entries) : \A o \in Members(k) :
        o \in Rules /\ o \in Nat /\ entries[k].start <= o /\ o < entries[k].end
  BY MemberFacts DEF Rules
<1>3. \A k \in 1 .. Len(entries) :
        entries[k].kind \in GroupKinds \cup {"rules"} /\ entries[k].end \in Nat
  BY LayoutFacts DEF TypeOK
<1>. QED
  BY <1>1, <1>2, <1>3 DEF TypeOK, GroupEntries, GroupKinds

(* A record says the same of the same callbacks. *)
LEMMA RecordedKept ==
    ASSUME TypeOK, NEW k \in 1 .. Len(entries), Recorded(k), groups'[k] = groups[k],
           entries' = entries,
           \A o \in Members(k) : cond'[o] = cond[o] /\ act'[o] = act[o]
    PROVE  Recorded(k)'
<1>1. Members(k)' = Members(k) /\ GroupEntries' = GroupEntries
  BY DEF Members, GroupEntries
<1>2. \A o \in Members(k) : (Selects(k, o)' <=> Selects(k, o)) /\ (Uncalled(o)' <=> Uncalled(o))
  BY DEF Selects, Uncalled
<1>3. Selections(k)' = Selections(k)
  BY <1>1, <1>2 DEF Selections
<1>. QED
  BY <1>1, <1>2, <1>3 DEF Recorded

(* Every member of the current group before the cursor was called. *)
LEMMA WalkedMembers ==
    ASSUME ContractContext, Behind, pc \in AtRule
    PROVE  \A p \in Members(entry) : p < order => ~Uncalled(p)
<1> SUFFICES ASSUME NEW p \in Members(entry), p < order
             PROVE  ~Uncalled(p)
  OBVIOUS
<1> USE DEF ContractContext
<1>1. entry \in 1 .. Len(entries) /\ p \in Rules
  BY RecordFacts DEF Position
<1>2. Contract!Passed(p)
  BY <1>1 DEF Behind
<1>3. ~Contract!Bypassed(p)
  <2> SUFFICES ASSUME NEW k \in 1 .. Len(entries), NEW q \in Members(k),
                      p \in Members(k), q < p, Selects(k, q)
               PROVE  FALSE
    BY <1>1, BypassedMeaning
  <2>1. k = entry
    BY <1>1, MemberFacts
  <2>2. q < order /\ q \in Members(entry)
    BY <1>1, <2>1, RecordFacts DEF TypeOK
  <2>. QED
    BY <2>1, <2>2 DEF SelectionInv, Unselected
<1>4. Contract!Finished(p)
  BY <1>2, <1>3 DEF Contract!Passed
<1>. QED
  BY <1>1, <1>4 DEF Contract!Finished, Uncalled, SelectionInv, Untouched, TypeOK

(* Only the member at the cursor can have selected in the current group.   *)
LEMMA SelectionsAtCursor ==
    ASSUME ContractContext, pc \in AtRule
    PROVE  /\ Selections(entry) \subseteq {order}
           /\ pc \in {"rule", "condition", "inCondition"} => Selections(entry) = {}
<1> USE DEF ContractContext, AtRule, Visiting
<1>1. /\ entry \in 1 .. Len(entries) /\ order \in Nat /\ evaluatedThrough \in Nat
      /\ evaluatedThrough <= order + 1
      /\ pc \in {"rule", "condition"} => evaluatedThrough <= order
  BY DEF Position, TypeOK
<1>2. \A p \in Members(entry) : p \in Rules /\ p \in Nat
  BY <1>1, RecordFacts
<1>3. \A p \in Rules : cond[p] = "uncalled" => ~Selects(entry, p)
  BY DEF SelectionInv, Untouched, Selects
<1>4. ASSUME NEW p \in Members(entry), p # order PROVE ~Selects(entry, p)
  <2>1. CASE p < order
    BY <2>1 DEF SelectionInv, Unselected
  <2>2. CASE order < p
    <3>1. p >= evaluatedThrough
      BY <1>1, <1>2, <2>2
    <3>. QED
      BY <1>2, <1>3, <3>1 DEF SelectionInv, Untouched
  <2>. QED
    BY <1>1, <1>2, <1>4, <2>1, <2>2
<1>5. ASSUME order \in Members(entry), pc \in {"rule", "condition", "inCondition"}
      PROVE  ~Selects(entry, order)
  <2>1. cond[order] = "uncalled"
    BY <1>1, <1>2, <1>5 DEF SelectionInv, Untouched
  <2>. QED
    BY <1>2, <1>3, <1>5, <2>1
<1>. QED
  BY <1>4, <1>5 DEF Selections

(* What a callback at the cursor makes of the record of its entry. *)
LEMMA CallRecorded ==
    ASSUME ContractContext, GroupsInv, pc \in {"inCondition", "action"},
           entries' = entries, entry' = entry,
           \A p \in Rules : p # order => cond'[p] = cond[p] /\ act'[p] = act[p],
           Selections(entry)' =
              IF Selects(entry, order)' THEN {order} ELSE {},
           groups' = IF Selects(entry, order)' /\ ~Selects(entry, order)
                     THEN [groups EXCEPT ![entry] = Resolved(groups[entry])]
                     ELSE groups,
           Selects(entry, order) => Selects(entry, order)'
    PROVE  \A k \in 1 .. Len(entries) : Recorded(k)'
<1> SUFFICES ASSUME NEW k \in 1 .. Len(entries) PROVE Recorded(k)'
  OBVIOUS
<1> USE DEF ContractContext, AtRule, Visiting
<1>1. /\ entry \in 1 .. Len(entries) /\ order \in Rules /\ order \in Members(entry)
      /\ order \in Nat /\ Here.end \in Nat /\ order < Here.end
      /\ groups[entry] \in GroupSpace /\ DOMAIN groups = 1 .. Len(entries)
  BY MemberFacts, RecordFacts DEF Position, Here
<1>2. Recorded(k) /\ Placed(k)
  BY DEF GroupsInv
<1>3. CASE k # entry
  <2>1. groups'[k] = groups[k]
    BY <1>1, <1>3
  <2>2. order \notin Members(k)
    BY <1>1, <1>3, MemberFacts
  <2>3. \A o \in Members(k) : cond'[o] = cond[o] /\ act'[o] = act[o]
    BY <2>2, RecordFacts
  <2>. QED
    BY <1>2, <2>1, <2>3, RecordedKept
<1>4. CASE k = entry /\ k \notin GroupEntries
  <2>1. entries[k].kind = "rules"
    BY <1>4, RecordFacts
  <2>2. ~Selects(entry, order)' /\ groups' = groups /\ Selections(k)' = {}
    BY <1>4, <2>1 DEF Selects
  <2>3. groups'[k] = NoGroup /\ GroupEntries' = GroupEntries
    BY <1>2, <1>4, <2>2 DEF Recorded, GroupEntries
  <2>. QED
    BY <1>4, <2>2, <2>3 DEF Recorded, NoGroup
<1>5. CASE k = entry /\ k \in GroupEntries
  <2>1. /\ groups[k].endReason = "None" /\ groups[k].stop = "None"
        /\ groups[k].state \in {"Interrupted", "Resolved"}
        /\ groups[k].skippedFrom = entries[k].end
        /\ {groups[k].selected} \ {NoRule} = Selections(k)
        /\ groups[k].state = "Resolved" <=> Selections(k) # {}
    BY <1>2, <1>5 DEF Placed, Walking, Recorded
  <2>2. Selections(k) = IF Selects(k, order) THEN {order} ELSE {}
    <3>1. Selections(k) \subseteq {order}
      BY <1>5, SelectionsAtCursor
    <3>. QED
      BY <1>1, <1>5, <3>1 DEF Selections
  <2>3. /\ GroupEntries' = GroupEntries /\ Members(k)' = Members(k)
        /\ \A o \in Members(k) : ~(o >= entries[k].end)
    BY RecordFacts DEF GroupEntries, Members
  <2>4. CASE Selects(k, order)' /\ ~Selects(k, order)
    <3>1. /\ groups'[k].state = "Resolved" /\ groups'[k].selected = order
          /\ groups'[k].skippedFrom = entries[k].end
          /\ groups'[k].endReason = "None" /\ groups'[k].stop = "None"
      BY <1>1, <1>5, <2>1, <2>4 DEF Resolved, GroupSpace
    <3>2. Selections(k)' = {order}
      BY <1>5, <2>4
    <3>. QED
      BY <1>1, <1>5, <2>3, <3>1, <3>2 DEF Recorded, NoRule
  <2>5. CASE ~(Selects(k, order)' /\ ~Selects(k, order))
    <3>1. groups' = groups /\ Selections(k)' = Selections(k)
      BY <1>5, <2>2, <2>5
    <3>. QED
      BY <1>5, <2>1, <2>3, <3>1 DEF Recorded
  <2>. QED
    BY <2>4, <2>5
<1>. QED
  BY <1>3, <1>4, <1>5

LEMMA RecordedStep ==
    ContractContext /\ ContractInv /\ GroupsInv /\ [Next]_vars
        => \A k \in 1 .. Len(entries) : Recorded(k)'
<1> SUFFICES ASSUME ContractContext, ContractInv, GroupsInv, [Next]_vars
             PROVE  \A k \in 1 .. Len(entries) : Recorded(k)'
  OBVIOUS
<1> USE DEF setup, control, ledger, observation, history, At, AtRule, Visiting,
            ContractContext
<1>1. /\ order \in Nat /\ evaluatedThrough \in Nat
      /\ pc \in AtRule \cup {"advance", "stop"} => entry \in 1 .. Len(entries)
      /\ DOMAIN groups = 1 .. Len(entries)
      /\ \A k \in 1 .. Len(entries) : groups[k] \in GroupSpace /\ Recorded(k) /\ Placed(k)
  BY RecordFacts DEF TypeOK, Position, GroupsInv
<1>2. ASSUME cond' = cond, act' = act, entries' = entries, NEW k \in 1 .. Len(entries),
             groups'[k] = groups[k]
      PROVE  Recorded(k)'
  BY <1>1, <1>2, RecordedKept
<1>3. ASSUME cond' = cond, act' = act, entries' = entries
      PROVE  /\ GroupEntries' = GroupEntries
             /\ \A k \in 1 .. Len(entries) :
                  Members(k)' = Members(k) /\ Selections(k)' = Selections(k)
             /\ \A o : Uncalled(o)' <=> Uncalled(o)
  BY <1>3 DEF GroupEntries, Members, Selections, Selects, Uncalled
<1>4. CASE Start \/ PassInitialCheck \/ Interrupt \/ EnterRules \/ NextRule \/ BeginCondition
           \/ AfterPanic \/ AfterCondition \/ Complete \/ Finish
  <2>1. cond' = cond /\ act' = act /\ entries' = entries /\ groups' = groups
    BY <1>4 DEF Start, PassInitialCheck, Interrupt, EnterRules, NextRule, BeginCondition,
                AfterPanic, AfterCondition, Decide, Complete, Finish
  <2>. QED
    BY <1>2, <2>1
<1>5. CASE Deliver \/ (\E cause \in {"error", "panic"} : ObserverFails(cause))
           \/ ObserverUnwinds \/ ContextEnds \/ Terminated \/ UNCHANGED vars
  <2>1. cond' = cond /\ act' = act /\ entries' = entries /\ groups' = groups
    BY <1>5 DEF Deliver, ObserverFails, ObserverUnwinds, ContextEnds, Terminated, vars
  <2>. QED
    BY <1>2, <2>1
<1>6. CASE EnterGroup
  <2>1. /\ cond' = cond /\ act' = act /\ entries' = entries /\ pc = "entry" /\ InGroup
        /\ entry \in 1 .. Len(entries)
        /\ groups' = [groups EXCEPT ![entry] =
                         [NoGroup EXCEPT !.state = "Interrupted", !.skippedFrom = Here.end]]
    BY <1>6 DEF EnterGroup, Position, TypeOK
  <2>2. entry \in GroupEntries
    BY <2>1, RecordFacts DEF InGroup, Here
  <2>3. groups[entry] = NoGroup /\ Selections(entry) = {}
    BY <1>1, <2>1, <2>2 DEF Placed, Recorded, NoGroup
  <2>4. /\ groups'[entry].state = "Interrupted" /\ groups'[entry].endReason = "None"
        /\ groups'[entry].stop = "None" /\ groups'[entry].selected = NoRule
    BY <1>1, <2>1 DEF NoGroup
  <2>5. ASSUME NEW k \in 1 .. Len(entries), k = entry PROVE Recorded(k)'
    BY <1>3, <2>1, <2>2, <2>3, <2>4, <2>5 DEF Recorded
  <2>6. \A k \in 1 .. Len(entries) : k # entry => groups'[k] = groups[k]
    BY <1>1, <2>1
  <2>. QED
    BY <1>2, <2>1, <2>5, <2>6
<1>7. ASSUME NEW outcome \in {"false", "true", "error", "panic"}, ConditionReturns(outcome),
             groups' = IF outcome = "true" /\ Here.kind = "first-match"
                       THEN [groups EXCEPT ![entry] = Resolved(groups[entry])] ELSE groups
      PROVE  \A k \in 1 .. Len(entries) : Recorded(k)'
  <2>1. /\ pc = "inCondition" /\ entries' = entries /\ entry' = entry /\ order' = order
        /\ order \in Rules /\ order \in Members(entry) /\ act' = act
        /\ cond' = [cond EXCEPT ![order] = outcome]
    BY <1>7, MemberFacts DEF ConditionReturns
  <2>2. /\ cond'[order] = outcome /\ act[order] = "uncalled"
        /\ \A p \in Rules : p # order => cond'[p] = cond[p]
    BY <2>1 DEF TypeOK, SelectionInv, Untouched
  <2>3. Selects(entry, order)' <=> outcome = "true" /\ Here.kind = "first-match"
    BY <2>1, <2>2 DEF Selects, Here
  <2>4. \A p \in Members(entry) : p # order => ~Selects(entry, p)'
    <3>1. \A p \in Members(entry) : p \in Rules /\ ~Selects(entry, p)
      BY <1>1, <2>1, SelectionsAtCursor, RecordFacts DEF Selections
    <3>. QED
      BY <2>1, <2>2, <3>1 DEF Selects
  <2>5. Selections(entry)' = IF Selects(entry, order)' THEN {order} ELSE {}
    BY <2>1, <2>4 DEF Selections, Members
  <2>6. ~Selects(entry, order)
    BY <2>1, SelectionsAtCursor DEF Selections
  <2>. QED
    BY <1>7, <2>1, <2>2, <2>3, <2>5, <2>6, CallRecorded
<1>8. CASE ConditionFalse \/ ConditionTrue \/ ConditionError \/ ConditionPanic
           \/ ConditionUnwinds
  BY <1>7, <1>8 DEF ConditionFalse, ConditionTrue, ConditionError, ConditionPanic,
                    ConditionUnwinds
<1>9. ASSUME NEW outcome \in {"ok", "error", "panic"}, ActionReturns(outcome),
             groups' = IF outcome = "ok" /\ Here.kind = "first-fire"
                       THEN [groups EXCEPT ![entry] = Resolved(groups[entry])] ELSE groups
      PROVE  \A k \in 1 .. Len(entries) : Recorded(k)'
  <2>1. /\ pc = "action" /\ entries' = entries /\ entry' = entry /\ order' = order
        /\ order \in Rules /\ order \in Members(entry) /\ cond' = cond
        /\ act' = [act EXCEPT ![order] = outcome]
    BY <1>9, MemberFacts DEF ActionReturns
  <2>2. /\ act'[order] = outcome /\ act[order] = "uncalled" /\ cond[order] = "true"
        /\ \A p \in Rules : p # order => act'[p] = act[p]
    BY <2>1 DEF TypeOK, SelectionInv, Untouched
  <2>3. /\ Selects(entry, order) <=> Here.kind = "first-match"
        /\ Selects(entry, order)' <=>
             Here.kind = "first-match" \/ (outcome = "ok" /\ Here.kind = "first-fire")
    BY <2>1, <2>2 DEF Selects, Here
  <2>4. \A p \in Members(entry) : p # order => ~Selects(entry, p)'
    <3>1. Selections(entry) \subseteq {order} /\ \A p \in Members(entry) : p \in Rules
      BY <1>1, <2>1, SelectionsAtCursor, RecordFacts
    <3>2. \A p \in Members(entry) : p # order => ~Selects(entry, p)
      BY <3>1 DEF Selections
    <3>. QED
      BY <2>1, <2>2, <3>1, <3>2 DEF Selects
  <2>5. Selections(entry)' = IF Selects(entry, order)' THEN {order} ELSE {}
    BY <2>1, <2>4 DEF Selections, Members
  <2>. QED
    BY <1>9, <2>1, <2>2, <2>3, <2>5, CallRecorded
<1>10. CASE ActionOk \/ ActionError \/ ActionPanic \/ ActionUnwinds
  BY <1>9, <1>10 DEF ActionOk, ActionError, ActionPanic, ActionUnwinds
<1>11. CASE AfterAction
  <2>1. /\ cond' = cond /\ act' = act /\ entries' = entries /\ pc = "actionDone"
        /\ entry \in 1 .. Len(entries) /\ evaluatedThrough = order + 1
    BY <1>1, <1>11 DEF AfterAction, Position
  <2>2. CASE groups' = groups
    BY <1>2, <2>1, <2>2
  <2>3. CASE groups' # groups
    <3>1. /\ InGroup /\ groups[entry].state = "Resolved"
          /\ groups' = [groups EXCEPT ![entry].skippedFrom = order + 1]
      BY <1>11, <2>3 DEF AfterAction
    <3>2. entry \in GroupEntries
      BY <2>1, <3>1, RecordFacts DEF InGroup, Here
    <3>3. groups[entry].endReason = "None"
      BY <1>1, <2>1, <3>2 DEF Placed
    <3>4. /\ groups'[entry].state = "Resolved" /\ groups'[entry].skippedFrom = order + 1
          /\ groups'[entry].selected = groups[entry].selected
          /\ groups'[entry].endReason = "None" /\ groups'[entry].stop = groups[entry].stop
      BY <1>1, <2>1, <3>1, <3>3 DEF GroupSpace
    <3>5. \A o \in Members(entry) : o >= order + 1 => Uncalled(o)
      BY <2>1, RecordFacts DEF SelectionInv, Untouched, Uncalled
    <3>6. ASSUME NEW k \in 1 .. Len(entries), k = entry PROVE Recorded(k)'
      <4>1. Recorded(k) /\ groups[k].state = "Resolved" /\ groups[k].endReason = "None"
        BY <1>1, <2>1, <3>1, <3>3, <3>6
      <4>2. /\ {groups'[k].selected} \ {NoRule} = Selections(k)' /\ Selections(k)' # {}
            /\ k \in GroupEntries' /\ groups'[k].stop = "None"
        BY <1>3, <2>1, <3>2, <3>4, <3>6, <4>1 DEF Recorded
      <4>3. \A o \in Members(k)' : o >= groups'[k].skippedFrom => Uncalled(o)'
        BY <1>3, <2>1, <3>4, <3>5, <3>6
      <4>4. groups'[k].state = "Resolved" /\ groups'[k].endReason = "None"
        BY <3>4, <3>6
      <4>. QED
        BY <4>2, <4>3, <4>4 DEF Recorded
    <3>7. \A k \in 1 .. Len(entries) : k # entry => groups'[k] = groups[k]
      BY <1>1, <2>1, <3>1
    <3>. QED
      BY <1>2, <2>1, <3>6, <3>7
  <2>. QED
    BY <2>2, <2>3
<1>12. CASE Exhaust
  <2>1. /\ cond' = cond /\ act' = act /\ entries' = entries /\ pc = "rule"
        /\ entry \in 1 .. Len(entries) /\ order = Here.end
    BY <1>1, <1>12 DEF Exhaust
  <2>2. CASE ~InGroup
    BY <1>2, <1>12, <2>1, <2>2 DEF Exhaust
  <2>3. CASE InGroup
    <3>1. groups' = [groups EXCEPT ![entry].state = "Exhausted"] /\ entry \in GroupEntries
      BY <1>12, <2>1, <2>3, RecordFacts DEF Exhaust, InGroup, Here
    <3>2. groups[entry].endReason = "None"
      BY <1>1, <2>1, <3>1 DEF Placed
    <3>3. /\ groups'[entry].state = "Exhausted"
          /\ groups'[entry].selected = groups[entry].selected
          /\ groups'[entry].endReason = "None" /\ groups'[entry].stop = groups[entry].stop
      BY <1>1, <2>1, <3>1, <3>2 DEF GroupSpace
    <3>4. \A o \in Members(entry) : ~Uncalled(o)
      BY <2>1, WalkedMembers, RecordFacts DEF Here, ContractInv
    <3>5. Selections(entry) = {}
      BY <2>1, SelectionsAtCursor
    <3>6. ASSUME NEW k \in 1 .. Len(entries), k = entry PROVE Recorded(k)'
      <4>1. Recorded(k)
        BY <1>1, <2>1
      <4>. QED
        BY <1>3, <2>1, <3>1, <3>2, <3>3, <3>4, <3>5, <3>6, <4>1 DEF Recorded
    <3>7. \A k \in 1 .. Len(entries) : k # entry => groups'[k] = groups[k]
      BY <1>1, <2>1, <3>1
    <3>. QED
      BY <1>2, <2>1, <3>6, <3>7
  <2>. QED
    BY <2>2, <2>3
<1>13. CASE Leave
  <2>1. /\ cond' = cond /\ act' = act /\ entries' = entries /\ pc \in {"advance", "stop"}
        /\ entry \in 1 .. Len(entries)
    BY <1>1, <1>13 DEF Leave
  <2>2. CASE ~(InGroup /\ groups[entry].state # "NotEntered")
    BY <1>2, <1>13, <2>1, <2>2 DEF Leave
  <2>3. CASE InGroup /\ groups[entry].state # "NotEntered"
    <3>1. groups' = [groups EXCEPT ![entry] = Ended(groups[entry])] /\ entry \in GroupEntries
      BY <1>13, <2>1, <2>3, RecordFacts DEF Leave, InGroup, Here
    <3>2. groups[entry].endReason = "None" /\ groups[entry].stop = "None"
      BY <1>1, <2>1, <2>3, <3>1 DEF Placed, Recorded, NoGroup
    <3>3. /\ groups'[entry].state = groups[entry].state
          /\ groups'[entry].selected = groups[entry].selected
          /\ groups'[entry].skippedFrom = groups[entry].skippedFrom
          /\ groups'[entry].endReason =
               IF pc = "stop" THEN "ExecutionStopped"
               ELSE IF groups[entry].state = "Resolved" THEN "Resolved" ELSE "Exhausted"
          /\ groups'[entry].stop = IF pc = "stop" THEN stop ELSE "None"
      BY <1>1, <2>1, <3>1, <3>2 DEF GroupSpace, Ended
    <3>4. ASSUME NEW k \in 1 .. Len(entries), k = entry PROVE Recorded(k)'
      <4>1. Recorded(k) /\ Placed(k)
        BY <1>1, <2>1
      <4>2. CASE pc = "stop"
        BY <1>3, <2>1, <2>3, <3>1, <3>3, <3>4, <4>1, <4>2 DEF Recorded
      <4>3. CASE pc = "advance"
        BY <1>3, <2>1, <2>3, <3>1, <3>3, <3>4, <4>1, <4>3 DEF Recorded, Placed
      <4>. QED
        BY <2>1, <4>2, <4>3
    <3>5. \A k \in 1 .. Len(entries) : k # entry => groups'[k] = groups[k]
      BY <1>1, <2>1, <3>1
    <3>. QED
      BY <1>2, <2>1, <3>4, <3>5
  <2>. QED
    BY <2>2, <2>3
<1>. QED
  BY <1>4, <1>5, <1>6, <1>8, <1>10, <1>11, <1>12, <1>13 DEF Next, Step, Work, Observe

(* A call keeps the snapshot and the configuration that it captured. *)
LEMMA SetupKept ==
    ASSUME [Next]_vars
    PROVE  entries' = entries /\ config' = config
  BY DEF Next, Step, Work, Observe, vars, setup, control, ledger, observation, history,
         Start, PassInitialCheck, Interrupt, EnterRules, EnterGroup, NextRule, BeginCondition,
         ConditionReturns, ConditionFalse, ConditionTrue, ConditionError, ConditionPanic,
         ConditionUnwinds, AfterPanic, AfterCondition, Decide, ActionReturns, ActionOk,
         ActionError, ActionPanic, ActionUnwinds, AfterAction, Exhaust, Leave, Complete,
         Finish, Deliver, ObserverFails, ObserverUnwinds, ContextEnds, Terminated

(* The frontier only jumps over bypassed rules. *)
LEMMA FrontierStep ==
    ContractContext /\ ContractInv /\ GroupsInv /\ [Next]_vars => Frontier'
<1> SUFFICES ASSUME ContractContext, ContractInv, GroupsInv, [Next]_vars,
                    NEW p \in Rules, p < evaluatedThrough', Uncalled(p)'
             PROVE  (pc' \in {"inCondition", "unwound"} /\ p = order')
                       \/ Contract!Bypassed(p)'
  BY SetupKept DEF Frontier, Rules, Total
<1> USE DEF setup, control, ledger, observation, history, At, AtRule, Visiting,
            ContractContext
<1>1. /\ order \in Nat /\ p \in Nat /\ evaluatedThrough \in Nat
      /\ entries' = entries /\ config' = config
      /\ p < evaluatedThrough /\ Uncalled(p) =>
           (pc \in {"inCondition", "unwound"} /\ p = order) \/ Contract!Bypassed(p)
  BY SetupKept, ContractRules DEF TypeOK, GroupsInv, Frontier
<1>2. ASSUME cond' = cond, act' = act, evaluatedThrough' = evaluatedThrough,
             pc \in {"inCondition", "unwound"} =>
                pc' \in {"inCondition", "unwound"} /\ order' = order
      PROVE  (pc' \in {"inCondition", "unwound"} /\ p = order') \/ Contract!Bypassed(p)'
  <2>1. Contract!Bypassed(p)' <=> Contract!Bypassed(p)
    BY <1>1, <1>2 DEF Contract!Bypassed, Contract!SameGroup, Contract!Selects
  <2>2. p < evaluatedThrough /\ Uncalled(p)
    BY <1>2 DEF Uncalled
  <2>. QED
    BY <1>1, <1>2, <2>1, <2>2
<1>3. CASE Start \/ PassInitialCheck \/ Interrupt \/ EnterRules \/ EnterGroup \/ NextRule
           \/ AfterPanic \/ AfterCondition \/ AfterAction \/ Exhaust \/ Leave \/ Complete
           \/ Finish
  BY <1>2, <1>3 DEF Start, PassInitialCheck, Interrupt, EnterRules, EnterGroup, NextRule,
                    AfterPanic, AfterCondition, Decide, AfterAction, Exhaust, Leave, Complete,
                    Finish
<1>4. CASE Deliver \/ (\E cause \in {"error", "panic"} : ObserverFails(cause))
           \/ ObserverUnwinds \/ ContextEnds \/ Terminated \/ UNCHANGED vars
  BY <1>2, <1>4 DEF Deliver, ObserverFails, ObserverUnwinds, ContextEnds, Terminated, vars
<1>5. CASE BeginCondition
  <2>1. /\ cond' = cond /\ act' = act /\ evaluatedThrough' = order + 1 /\ order' = order
        /\ pc = "condition" /\ pc' = "inCondition"
    BY <1>5 DEF BeginCondition
  <2>2. CASE p < order
    <3>1. Contract!Passed(p)
      BY <2>1, <2>2 DEF ContractInv, Behind
    <3>2. ~Contract!Finished(p)
      BY <2>1 DEF Contract!Finished, Uncalled, SelectionInv, Untouched, TypeOK
    <3>3. Contract!Bypassed(p)' <=> Contract!Bypassed(p)
      BY <1>1, <2>1 DEF Contract!Bypassed, Contract!SameGroup, Contract!Selects
    <3>. QED
      BY <3>1, <3>2, <3>3 DEF Contract!Passed
  <2>. QED
    BY <1>1, <2>1, <2>2
<1>6. ASSUME pc \in {"inCondition", "action"}, evaluatedThrough' = evaluatedThrough,
             cond'[order] # "uncalled",
             \A q \in Rules : q # order => cond'[q] = cond[q] /\ act'[q] = act[q]
      PROVE  Contract!Bypassed(p)'
  <2>1. evaluatedThrough = order + 1 /\ order \in Rules
    BY <1>6, MemberFacts DEF Position
  <2>2. p # order /\ p < order /\ Uncalled(p)
    BY <1>1, <1>6, <2>1 DEF Uncalled
  <2>3. Contract!Bypassed(p)' <=> Contract!Bypassed(p)
    <3>1. \A q \in Rules : q < order => cond'[q] = cond[q] /\ act'[q] = act[q]
      BY <1>1, <1>6, ContractRules
    <3>2. \A q \in Rules : q <= order => (Contract!Bypassed(q)' <=> Contract!Bypassed(q))
      BY <1>1, <2>1, <3>1, BypassedKept
    <3>. QED
      BY <1>1, <2>2, <3>2
  <2>. QED
    BY <1>1, <1>6, <2>1, <2>2, <2>3
<1>7. ASSUME NEW outcome \in {"false", "true", "error", "panic"}, ConditionReturns(outcome)
      PROVE  Contract!Bypassed(p)'
  <2>1. pc = "inCondition" /\ order \in Rules
    BY <1>7, MemberFacts DEF ConditionReturns
  <2>. QED
    BY <1>6, <1>7, <2>1 DEF ConditionReturns, TypeOK
<1>8. ASSUME NEW outcome \in {"ok", "error", "panic"}, ActionReturns(outcome)
      PROVE  Contract!Bypassed(p)'
  <2>1. pc = "action" /\ order \in Rules
    BY <1>8, MemberFacts DEF ActionReturns
  <2>2. cond'[order] # "uncalled"
    BY <1>8, <2>1 DEF ActionReturns, SelectionInv, Untouched
  <2>. QED
    BY <1>6, <1>8, <2>1, <2>2 DEF ActionReturns, TypeOK
<1>9. CASE ConditionFalse \/ ConditionTrue \/ ConditionError \/ ConditionPanic
           \/ ConditionUnwinds \/ ActionOk \/ ActionError \/ ActionPanic \/ ActionUnwinds
  BY <1>7, <1>8, <1>9 DEF ConditionFalse, ConditionTrue, ConditionError, ConditionPanic,
       ConditionUnwinds, ActionOk, ActionError, ActionPanic, ActionUnwinds
<1>. QED
  BY <1>3, <1>4, <1>5, <1>9 DEF Next, Step, Work, Observe

(* The stop reason is given exactly when the walk has ended early. *)
LEMMA StoppedStep ==
    ContractContext /\ Stopped /\ [Next]_vars => Stopped'
<1> SUFFICES ASSUME ContractContext, Stopped, [Next]_vars PROVE Stopped'
  OBVIOUS
<1> USE DEF setup, control, ledger, observation, history, At, Stopped
<1>1. entry \in Nat /\ Len(entries) \in Nat \ {0}
      /\ entries' = entries /\ (pc = "initial" => entry = 1)
      /\ (pc = "advance" => entry <= Len(entries))
  BY SetupKept, LayoutFacts DEF ContractContext, TypeOK, Position
<1>2. CASE Start \/ PassInitialCheck \/ EnterRules \/ EnterGroup \/ NextRule
           \/ BeginCondition \/ AfterPanic \/ Exhaust \/ Complete \/ Finish
  BY <1>1, <1>2 DEF Start, PassInitialCheck, EnterRules, EnterGroup, NextRule, BeginCondition,
                    AfterPanic, Exhaust, Complete, Finish
<1>3. CASE Interrupt
  BY <1>1, <1>3 DEF Interrupt, ContextStop
<1>4. CASE ConditionFalse \/ ConditionTrue \/ ConditionError \/ ConditionPanic
           \/ ConditionUnwinds \/ ActionOk \/ ActionError \/ ActionPanic \/ ActionUnwinds
  BY <1>1, <1>4 DEF ConditionFalse, ConditionTrue, ConditionError, ConditionPanic,
       ConditionUnwinds, ActionOk, ActionError, ActionPanic, ActionUnwinds,
       ConditionReturns, ActionReturns
<1>5. CASE AfterCondition
  BY <1>1, <1>5 DEF AfterCondition, Decide
<1>6. CASE AfterAction
  BY <1>1, <1>6 DEF AfterAction, PolicyStop
<1>7. CASE Leave
  BY <1>1, <1>7 DEF Leave
<1>8. CASE Deliver \/ (\E cause \in {"error", "panic"} : ObserverFails(cause))
           \/ ObserverUnwinds \/ ContextEnds \/ Terminated \/ UNCHANGED vars
  BY <1>1, <1>8 DEF Deliver, ObserverFails, ObserverUnwinds, ContextEnds, Terminated, vars
<1>. QED
  BY <1>2, <1>3, <1>4, <1>5, <1>6, <1>7, <1>8 DEF Next, Step, Work, Observe

(* Where each group's record has got, after every step. *)
LEMMA PlacedStep ==
    ContractContext /\ ContractInv /\ GroupsInv /\ [Next]_vars
        => \A k \in 1 .. Len(entries) : Placed(k)'
<1> SUFFICES ASSUME ContractContext, ContractInv, GroupsInv, [Next]_vars,
                    NEW k \in 1 .. Len(entries)
             PROVE  Placed(k)'
  OBVIOUS
<1> USE DEF setup, control, ledger, observation, history, At, AtRule, Visiting,
            ContractContext
<1>1. /\ order \in Nat /\ evaluatedThrough \in Nat /\ entry \in Nat /\ k \in Nat
      /\ Len(entries) \in Nat /\ entries' = entries /\ GroupEntries' = GroupEntries
      /\ (pc \in {"start", "initial"} => entry = 1)
      /\ (pc \in AtRule \cup {"advance", "stop"} => entry \in 1 .. Len(entries))
      /\ DOMAIN groups = 1 .. Len(entries)
      /\ groups[k] \in GroupSpace /\ Recorded(k) /\ Placed(k)
      /\ (k \in GroupEntries <=> entries[k].kind \in GroupKinds)
  BY SetupKept, RecordFacts, LayoutFacts DEF TypeOK, Position, GroupsInv, GroupEntries
<1>2. /\ Stopped
      /\ pc \notin {"finish", "done", "unwound"} => groups[k].endReason # "ExecutionStopped"
      /\ NoGroup.endReason = "None" /\ NoGroup.state = "NotEntered"
  BY <1>1 DEF GroupsInv, Placed, NoGroup
<1>3. CASE Start \/ PassInitialCheck \/ Interrupt \/ EnterRules \/ NextRule
           \/ AfterPanic \/ AfterCondition \/ Complete \/ Finish
  <2>1. groups' = groups /\ evaluatedThrough' = evaluatedThrough /\ entry' = entry
    BY <1>3 DEF Start, PassInitialCheck, Interrupt, EnterRules, NextRule, AfterPanic,
                AfterCondition, Decide, Complete, Finish
  <2>2. Walking(k)' <=> Walking(k)
    BY <1>1, <2>1 DEF Walking
  <2>3. CASE Start \/ PassInitialCheck \/ NextRule \/ AfterPanic \/ AfterCondition
    <3>1. \/ pc = "start" /\ pc' = "initial"
          \/ pc = "initial" /\ pc' = "entry"
          \/ pc \in AtRule /\ pc' \in AtRule \cup {"stop"}
      BY <2>3 DEF Start, PassInitialCheck, NextRule, AfterPanic, AfterCondition, Decide
    <3>. QED
      BY <1>1, <1>2, <2>1, <2>2, <3>1 DEF Placed
  <2>4. CASE Interrupt
    <3>1. \/ pc = "initial" /\ pc' = "finish"
          \/ pc \in AtRule \cup {"entry"} /\ pc' = "stop"
      BY <2>4 DEF Interrupt
    <3>. QED
      BY <1>1, <1>2, <2>1, <2>2, <3>1 DEF Placed
  <2>5. CASE EnterRules
    <3>1. pc = "entry" /\ pc' = "rule" /\ entry \in 1 .. Len(entries)
          /\ Here.kind \notin GroupKinds
      BY <1>1, <2>5 DEF EnterRules, InGroup, Position
    <3>. QED
      BY <1>1, <1>2, <2>1, <2>2, <3>1 DEF Placed, Here
  <2>6. CASE Complete
    <3>1. pc = "entry" /\ pc' = "finish" /\ entry > Len(entries)
      BY <2>6 DEF Complete
    <3>. QED
      BY <1>1, <1>2, <2>1, <2>2, <3>1 DEF Placed
  <2>7. CASE Finish
    <3>1. pc = "finish" /\ pc' = "done" /\ stop' = stop
      BY <2>7 DEF Finish
    <3>. QED
      BY <1>1, <1>2, <2>1, <2>2, <3>1 DEF Placed
  <2>. QED
    BY <1>3, <2>3, <2>4, <2>5, <2>6, <2>7
<1>4. CASE Deliver \/ (\E cause \in {"error", "panic"} : ObserverFails(cause))
           \/ ObserverUnwinds \/ ContextEnds \/ Terminated \/ UNCHANGED vars
  <2>1. /\ groups' = groups /\ evaluatedThrough' = evaluatedThrough /\ entry' = entry
        /\ stop' = stop /\ cond' = cond /\ (pc' = pc \/ pc' = "unwound")
    BY <1>4 DEF Deliver, ObserverFails, ObserverUnwinds, ContextEnds, Terminated, vars
  <2>2. Walking(k)' <=> Walking(k)
    BY <1>1, <2>1 DEF Walking
  <2>3. CASE pc' = pc
    BY <1>1, <2>1, <2>2, <2>3 DEF Placed, Members, Uncalled
  <2>4. CASE pc' = "unwound"
    <3>1. groups[k].endReason = "ExecutionStopped" =>
            Walking(k) /\ groups[k].stop = stop /\ stop \notin {"None", "Completed"}
      BY <1>1 DEF Placed
    <3>2. k > entry => groups[k] = NoGroup
      BY <1>1 DEF Placed
    <3>3. k < entry /\ k \in GroupEntries => groups[k].endReason \in {"Resolved", "Exhausted"}
      BY <1>1 DEF Placed
    <3>. QED
      BY <1>1, <2>1, <2>2, <2>4, <3>1, <3>2, <3>3 DEF Placed
  <2>. QED
    BY <2>1, <2>3, <2>4
<1>5. CASE EnterGroup
  <2>1. /\ pc = "entry" /\ pc' \in AtRule /\ entry \in 1 .. Len(entries)
        /\ entry' = entry /\ entries[entry].kind \in GroupKinds
        /\ groups' = [groups EXCEPT ![entry] =
                         [NoGroup EXCEPT !.state = "Interrupted", !.skippedFrom = Here.end]]
    BY <1>1, <1>5 DEF EnterGroup, InGroup, Here, Position
  <2>2. CASE k = entry
    <3>1. /\ groups'[k].state = "Interrupted" /\ groups'[k].endReason = "None"
          /\ groups'[k].skippedFrom = entries[k].end
      BY <1>1, <2>1, <2>2 DEF NoGroup, Here
    <3>. QED
      BY <1>1, <2>1, <2>2, <3>1 DEF Placed, Walking
  <2>3. CASE k # entry
    BY <1>1, <1>2, <2>1, <2>3 DEF Placed
  <2>. QED
    BY <2>2, <2>3
<1>6. CASE BeginCondition
  <2>1. /\ pc = "condition" /\ pc' = "inCondition" /\ groups' = groups /\ entry' = entry
        /\ evaluatedThrough' = order + 1
    BY <1>6 DEF BeginCondition
  <2>2. k = entry => groups[k].state # "Resolved"
    BY <1>1, <2>1, SelectionsAtCursor DEF Recorded
  <2>. QED
    BY <1>1, <1>2, <2>1, <2>2 DEF Placed, Walking
<1>7. ASSUME pc \in {"inCondition", "action"},
             pc' \in AtRule \cup {"unwound"}, entry' = entry,
             evaluatedThrough' = evaluatedThrough,
             groups' = groups \/ groups' = [groups EXCEPT ![entry] = Resolved(groups[entry])]
      PROVE  Placed(k)'
  <2>1. CASE groups'[k] = groups[k]
    <3>1. Walking(k)' <=> Walking(k)
      BY <1>1, <1>7, <2>1 DEF Walking
    <3>. QED
      BY <1>1, <1>2, <1>7, <2>1, <3>1 DEF Placed
  <2>2. CASE groups'[k] # groups[k]
    <3>1. k = entry /\ groups'[k] = Resolved(groups[k])
      BY <1>1, <1>7, <2>2
    <3>2. /\ groups'[k].state = "Resolved" /\ groups'[k].selected = order
          /\ groups'[k].endReason = groups[k].endReason
          /\ groups'[k].skippedFrom = groups[k].skippedFrom
      BY <1>1, <3>1 DEF Resolved, GroupSpace
    <3>3. evaluatedThrough = order + 1
      BY <1>7 DEF Position
    <3>. QED
      BY <1>1, <1>2, <1>7, <3>1, <3>2, <3>3 DEF Placed, Walking
  <2>. QED
    BY <2>1, <2>2
<1>8. CASE ConditionFalse \/ ConditionTrue \/ ConditionError \/ ConditionPanic
           \/ ConditionUnwinds
  BY <1>7, <1>8 DEF ConditionFalse, ConditionTrue, ConditionError, ConditionPanic,
                    ConditionUnwinds, ConditionReturns
<1>9. CASE ActionOk \/ ActionError \/ ActionPanic \/ ActionUnwinds
  BY <1>7, <1>9 DEF ActionOk, ActionError, ActionPanic, ActionUnwinds, ActionReturns
<1>10. CASE AfterAction
  <2>1. /\ pc = "actionDone" /\ pc' \in {"stop", "advance", "rule"} /\ entry' = entry
        /\ evaluatedThrough' = evaluatedThrough
        /\ pc' \in {"stop", "rule"} => groups' = groups
        /\ pc' = "advance" => /\ groups[entry].state = "Resolved"
                              /\ groups' = [groups EXCEPT ![entry].skippedFrom = order + 1]
    BY <1>10 DEF AfterAction
  <2>2. CASE pc' # "advance"
    <3>1. Walking(k)' <=> Walking(k)
      BY <1>1, <2>1, <2>2 DEF Walking
    <3>. QED
      BY <1>1, <1>2, <2>1, <2>2, <3>1 DEF Placed
  <2>3. CASE pc' = "advance" /\ k = entry
    <3>1. /\ groups'[k].state = "Resolved" /\ groups'[k].endReason = groups[k].endReason
          /\ groups'[k].skippedFrom = order + 1
      BY <1>1, <2>1, <2>3 DEF GroupSpace
    <3>2. \A o \in Members(k) : Uncalled(o)' => o >= order + 1
      <4>1. \A o \in Members(entry) : o < order => ~Uncalled(o)
        BY <2>1, WalkedMembers DEF ContractInv
      <4>2. ~Uncalled(order) /\ cond' = cond
        BY <1>10, <2>1 DEF ContractInv, Called, Uncalled, AfterAction
      <4>. QED
        BY <1>1, <2>3, <4>1, <4>2, RecordFacts DEF Uncalled
    <3>. QED
      BY <1>1, <1>2, <2>1, <2>3, <3>1, <3>2 DEF Placed, Members
  <2>4. CASE pc' = "advance" /\ k # entry
    BY <1>1, <1>2, <2>1, <2>4 DEF Placed
  <2>. QED
    BY <2>2, <2>3, <2>4
<1>11. CASE Exhaust
  <2>1. /\ pc = "rule" /\ pc' = "advance" /\ entry' = entry
        /\ k # entry \/ k \notin GroupEntries => groups'[k] = groups[k]
        /\ k = entry /\ k \in GroupEntries =>
             groups' = [groups EXCEPT ![entry].state = "Exhausted"]
    BY <1>1, <1>11 DEF Exhaust, InGroup, Here
  <2>2. k = entry /\ k \in GroupEntries =>
          groups'[k].state = "Exhausted" /\ groups'[k].endReason = groups[k].endReason
    BY <1>1, <2>1 DEF GroupSpace
  <2>. QED
    BY <1>1, <1>2, <2>1, <2>2 DEF Placed
<1>12. CASE Leave
  <2>1. /\ pc \in {"advance", "stop"} /\ stop' = stop /\ cond' = cond
        /\ evaluatedThrough' = evaluatedThrough
        /\ pc = "advance" => pc' = "entry" /\ entry' = entry + 1
        /\ pc = "stop" => pc' = "finish" /\ entry' = entry
        /\ groups' = IF InGroup /\ groups[entry].state # "NotEntered"
                     THEN [groups EXCEPT ![entry] = Ended(groups[entry])] ELSE groups
    BY <1>12 DEF Leave
  <2>2. CASE k # entry
    BY <1>1, <1>2, <2>1, <2>2 DEF Placed
  <2>3. CASE k = entry /\ groups'[k] = groups[k]
    <3>1. k \notin GroupEntries \/ groups[k].state = "NotEntered"
             \/ Ended(groups[k]) = groups[k]
      BY <1>1, <2>1, <2>3 DEF InGroup, Here
    <3>2. Ended(groups[k]).endReason # "None"
      BY <1>1 DEF Ended, GroupSpace
    <3>3. k \notin GroupEntries \/ groups[k].state = "NotEntered"
      BY <1>1, <2>1, <2>3, <3>1, <3>2 DEF Placed
    <3>. QED
      BY <1>1, <1>2, <2>1, <2>3, <3>3 DEF Placed, Recorded
  <2>4. CASE k = entry /\ groups'[k] # groups[k]
    <3>1. k \in GroupEntries /\ groups[k].state # "NotEntered" /\ groups'[k] = Ended(groups[k])
      BY <1>1, <2>1, <2>4 DEF InGroup, Here
    <3>2. /\ groups'[k].state = groups[k].state
          /\ groups'[k].selected = groups[k].selected
          /\ groups'[k].skippedFrom = groups[k].skippedFrom
          /\ groups'[k].endReason =
               IF pc = "stop" THEN "ExecutionStopped"
               ELSE IF groups[k].state = "Resolved" THEN "Resolved" ELSE "Exhausted"
          /\ pc = "stop" => groups'[k].stop = stop
      BY <1>1, <3>1 DEF GroupSpace, Ended
    <3>3. CASE pc = "advance"
      BY <1>1, <1>2, <2>1, <2>4, <3>1, <3>2, <3>3 DEF Placed
    <3>4. CASE pc = "stop"
      <4>1. Walking(k)
        BY <1>1, <2>4, <3>1, <3>4 DEF Placed, NoGroup
      <4>2. Walking(k)'
        BY <1>1, <2>1, <3>2, <4>1 DEF Walking
      <4>3. stop \notin {"None", "Completed"}
        BY <1>2, <3>4 DEF Stopped
      <4>. QED
        BY <1>1, <2>1, <2>4, <3>2, <3>4, <4>2, <4>3 DEF Placed
    <3>. QED
      BY <2>1, <3>3, <3>4
  <2>. QED
    BY <2>2, <2>3, <2>4
<1>. QED
  BY <1>3, <1>4, <1>5, <1>6, <1>8, <1>9, <1>10, <1>11, <1>12 DEF Next, Step, Work, Observe

LEMMA GroupsInit == Init => GroupsInv
<1> SUFFICES ASSUME Init PROVE GroupsInv
  OBVIOUS
<1>1. /\ entries \in Layouts /\ pc = "start" /\ entry = 1 /\ evaluatedThrough = 0
      /\ stop = "None"
      /\ \A k \in 1 .. Len(entries) : groups[k] = NoGroup
      /\ \A o \in Rules : Uncalled(o) /\ act[o] = "uncalled" /\ o \in Int /\ o >= 0
  BY DEF Init, Layouts, Uncalled, Rules
<1>2. /\ \A k \in 1 .. Len(entries) : k \in Nat /\ Members(k) \subseteq Rules
      /\ \A k \in 1 .. Len(entries) : \A o \in Members(k) : ~Selects(k, o)
  <2>1. \A k \in 1 .. Len(entries) :
          /\ entries[k].start \in Nat /\ entries[k].end \in Nat
          /\ entries[k].end <= Total /\ Total \in Nat
    BY <1>1, LayoutFacts
  <2>2. \A k \in 1 .. Len(entries) : Members(k) \subseteq Rules
    BY <2>1 DEF Members, Rules
  <2>. QED
    BY <1>1, <2>2 DEF Selects, Uncalled
<1>3. Frontier /\ Stopped
  BY <1>1 DEF Frontier, Stopped
<1>4. ASSUME NEW k \in 1 .. Len(entries) PROVE Recorded(k)
  BY <1>1, <1>2 DEF Recorded, Selections, NoGroup
<1>5. ASSUME NEW k \in 1 .. Len(entries) PROVE Placed(k)
  BY <1>1, <1>2 DEF Placed, NoGroup, AtRule, Visiting
<1>. QED
  BY <1>3, <1>4, <1>5 DEF GroupsInv

ResultInv == ContractContext /\ ContractInv /\ GroupsInv

LEMMA GroupsInvariant == Spec => []ResultInv
<1>1. ContractContext /\ ContractInv /\ GroupsInv /\ [Next]_vars => GroupsInv'
  <2> SUFFICES ASSUME ContractContext, ContractInv, GroupsInv, [Next]_vars
               PROVE  GroupsInv'
    OBVIOUS
  <2>1. 1 .. Len(entries)' = 1 .. Len(entries)
    BY SetupKept
  <2>2. Stopped'
    BY StoppedStep DEF GroupsInv
  <2>. QED
    BY <2>1, <2>2, FrontierStep, RecordedStep, PlacedStep DEF GroupsInv
<1>. QED
  BY <1>1, GroupsInit, ContractInvariant, PTL DEF Spec, ResultInv
-----------------------------------------------------------------------------
(* What the group records of a Result say. *)

(* A group view tells which member met the group's criterion, if any did,  *)
(* and how the group ended: exhausted only after every member was called,  *)
(* resolved locally, or stopped by the call's own stop reason              *)
(* (groupAt, group_result.go:99-146).                                      *)
THEOREM GroupsTrue == Spec => []GroupsAreTrue
<1>1. ResultInv => GroupsAreTrue
  <2> SUFFICES ASSUME ResultInv, Returned, NEW k \in GroupEntries,
                      NEW view, view = groupAt(k)
               PROVE  /\ {view.selected} \ {NoRule} = Selections(k)
                      /\ (view.state = "Resolved") = (Selections(k) # {})
                      /\ view.state = "NotEntered" =>
                           \A o \in Members(k) : cond[o] = "uncalled"
                      /\ view.endReason = "Exhausted" =>
                           view.state = "Exhausted" /\ \A o \in Members(k) : cond[o] # "uncalled"
                      /\ view.endReason # "None"
                      /\ view.stop = IF view.endReason = "ExecutionStopped" THEN stop ELSE "None"
                      /\ view.endReason = "ExecutionStopped" => stop \notin {"None", "Completed"}
    BY DEF GroupsAreTrue
  <2>1. /\ k \in 1 .. Len(entries) /\ k \in Nat /\ entry \in Nat /\ pc = "done"
        /\ groups[k] \in GroupSpace /\ Recorded(k) /\ Placed(k) /\ Stopped
        /\ Len(entries) \in Nat
    BY RecordFacts, LayoutFacts
       DEF GroupEntries, Returned, ResultInv, ContractContext, GroupsInv, TypeOK
  <2>2. CASE groups[k].state = "NotEntered"
    <3>1. groups[k] = NoGroup /\ entry <= Len(entries)
      BY <2>1, <2>2 DEF Recorded, Placed, NoGroup
    <3>2. stop \notin {"None", "Completed"}
      BY <2>1, <3>1 DEF Stopped
    <3>3. /\ view.state = "NotEntered" /\ view.endReason = "ExecutionStopped"
          /\ view.stop = stop /\ view.selected = NoRule
      BY <2>2, <3>1 DEF groupAt, NoGroup
    <3>4. Selections(k) = {}
      BY <2>1, <2>2 DEF Recorded
    <3>. QED
      BY <2>1, <2>2, <3>2, <3>3, <3>4 DEF Recorded, Uncalled
  <2>3. CASE groups[k].state # "NotEntered"
    <3>1. view = groups[k]
      BY <2>3 DEF groupAt
    <3>2. groups[k].endReason # "None"
      BY <2>1, <2>3 DEF Placed, NoGroup
    <3>. QED
      BY <2>1, <2>3, <3>1, <3>2 DEF Recorded, Placed, Uncalled
  <2>. QED
    BY <2>2, <2>3
<1>. QED
  BY <1>1, GroupsInvariant, PTL

(* A set of numbers with a member has a least one. *)
LEMMA LeastElement ==
    ASSUME NEW S, S \subseteq Nat, S # {}
    PROVE  \E n \in S : \A m \in S : n <= m
<1>1. PICK n \in S : \A m \in S : <<m, n>> \notin OpToRel(<, Nat)
  BY NatLessThanWellFounded, WFMin
<1>2. \A m \in S : ~(m < n)
  BY <1>1 DEF OpToRel
<1>. QED
  BY <1>2

(* The entries cover the rules: the entry of a rule is the first to end    *)
(* behind it.                                                              *)
LEMMA EntryOfRule ==
    ASSUME TypeOK, NEW o \in Rules
    PROVE  EntryOf(o) \in 1 .. Len(entries) /\ o \in Members(EntryOf(o))
<1>1. /\ Len(entries) \in Nat \ {0} /\ o \in Nat /\ o < Total
      /\ \A k \in 1 .. Len(entries) : entries[k].start \in Nat /\ entries[k].end \in Nat
      /\ \A k \in 1 .. Len(entries) - 1 : entries[k + 1].start = entries[k].end
      /\ entries[1].start = 0
  <2>1. entries \in Layouts
    BY DEF TypeOK
  <2>2. o \in Nat /\ o < Total
    BY <2>1, LayoutFacts DEF Rules
  <2>. QED
    BY <2>1, <2>2, LayoutFacts
<1> DEFINE Ending == {k \in 1 .. Len(entries) : o < entries[k].end}
<1>2. Len(entries) \in Ending /\ Ending \subseteq Nat
  BY <1>1 DEF Total
<1>3. PICK k \in Ending : \A j \in Ending : k <= j
  BY <1>2, LeastElement
<1>4. entries[k].start <= o
  <2>1. CASE k = 1
    BY <1>1, <2>1
  <2>2. CASE k # 1
    <3>1. k - 1 \in 1 .. Len(entries) /\ ~(o < entries[k - 1].end)
      BY <1>1, <1>3, <2>2
    <3>2. entries[k].start = entries[k - 1].end
      BY <1>1, <1>3, <2>2, <3>1
    <3>. QED
      BY <1>1, <3>1, <3>2
  <2>. QED
    BY <2>1, <2>2
<1>5. k \in 1 .. Len(entries) /\ o \in entries[k].start .. entries[k].end - 1
  BY <1>1, <1>3, <1>4
<1>. QED
  BY <1>5 DEF EntryOf, Members

(* Why a hole is where it is: the frontier and the group suffix tell it.   *)
LEMMA HolesFollow == ResultInv => HolesAreExplained
<1> SUFFICES ASSUME ResultInv, Returned, NEW o \in Rules, NEW k, k = EntryOf(o)
             PROVE  LET local == k \in GroupEntries /\ groupAt(k).endReason = "Resolved"
                    IN  IF cond[o] # "uncalled" THEN ruleAt(o).notEvaluated = "None"
                        ELSE /\ ruleAt(o).notEvaluated =
                                  IF local THEN "GroupResolved" ELSE "ExecutionStopped"
                             /\ ~local => stop # "Completed"
  BY DEF HolesAreExplained
<1> USE DEF ResultInv, ContractContext, GroupsInv
<1>1. k \in 1 .. Len(entries) /\ o \in Members(k)
  BY EntryOfRule
<1>2. /\ k \in Nat /\ o \in Nat /\ entry \in Nat /\ Len(entries) \in Nat /\ pc = "done"
      /\ groups[k] \in GroupSpace /\ Recorded(k) /\ Placed(k) /\ Stopped
      /\ evaluatedThrough \in Nat /\ o < entries[k].end /\ entries[k].end \in Nat
  BY <1>1, RecordFacts, LayoutFacts DEF Returned, TypeOK
<1>3. ruleAt(o).notEvaluated =
        IF groups[k].state = "Resolved" /\ o >= groups[k].skippedFrom THEN "GroupResolved"
        ELSE IF o >= evaluatedThrough THEN "ExecutionStopped" ELSE "None"
  BY DEF ruleAt, View, Bypassed
<1>4. Uncalled(o) => o >= evaluatedThrough \/ Contract!Bypassed(o)
  BY <1>2 DEF Frontier
<1>5. o >= evaluatedThrough => Uncalled(o)
  BY DEF SelectionInv, Untouched, Uncalled
<1>6. Contract!Bypassed(o) =>
        /\ k \in GroupEntries /\ groups[k].state = "Resolved" /\ groups[k].selected < o
  <2> SUFFICES ASSUME Contract!Bypassed(o)
               PROVE  /\ k \in GroupEntries /\ groups[k].state = "Resolved"
                      /\ groups[k].selected < o
    OBVIOUS
  <2>1. PICK p \in Members(k) : p < o /\ Selects(k, p)
    BY <1>1, BypassedMeaning, MemberFacts
  <2>2. p \in Selections(k) /\ groups[k].selected = p
    BY <1>2, <2>1 DEF Selections, Recorded
  <2>. QED
    BY <1>2, <2>1, <2>2 DEF Recorded, NoGroup
<1>7. stop = "Completed" /\ Uncalled(o) => Contract!Bypassed(o) /\ entry > Len(entries)
  <2> SUFFICES ASSUME stop = "Completed", Uncalled(o)
               PROVE  Contract!Bypassed(o) /\ entry > Len(entries)
    OBVIOUS
  <2>1. entry > Len(entries)
    BY <1>2 DEF Stopped
  <2>2. Contract!Passed(o)
    BY <1>2 DEF ContractInv, Concluding, Justified, ContextStop, CalledStops,
                Contract!StopCalledFor
  <2>3. ~Contract!Finished(o)
    BY DEF Contract!Finished, Uncalled, SelectionInv, Untouched, TypeOK
  <2>. QED
    BY <2>1, <2>2, <2>3 DEF Contract!Passed
<1>8. CASE ~Uncalled(o)
  BY <1>1, <1>2, <1>3, <1>5, <1>8 DEF Recorded, Uncalled
<1>9. CASE Uncalled(o) /\ groups[k].endReason = "Resolved"
  <2>1. groups[k].state = "Resolved" /\ o >= groups[k].skippedFrom
    BY <1>1, <1>2, <1>9 DEF Recorded
  <2>2. k \in GroupEntries /\ groupAt(k) = groups[k]
    BY <1>2, <1>9, <2>1 DEF Recorded, NoGroup, groupAt
  <2>. QED
    BY <1>3, <1>9, <2>1, <2>2 DEF Uncalled
<1>10. CASE Uncalled(o) /\ groups[k].endReason # "Resolved"
  <2>1. groupAt(k).endReason # "Resolved"
    BY <1>2, <1>10 DEF groupAt, Recorded, NoGroup
  <2>2. groups[k].state = "Resolved" => Walking(k)
    BY <1>2, <1>10, <1>1 DEF Placed, Recorded, NoGroup
  <2>3. ~(groups[k].state = "Resolved" /\ o >= groups[k].skippedFrom)
    BY <1>2, <2>2 DEF Walking
  <2>4. o >= evaluatedThrough
    <3>1. CASE Contract!Bypassed(o)
      <4>1. evaluatedThrough <= groups[k].selected + 1 /\ groups[k].selected < o
        BY <1>6, <2>2, <3>1 DEF Walking
      <4>2. groups[k].selected \in Int
        BY <1>2 DEF GroupSpace, NoRule
      <4>. QED
        BY <1>2, <4>1, <4>2
    <3>. QED
      BY <1>4, <1>10, <3>1
  <2>5. stop # "Completed"
    <3> SUFFICES ASSUME stop = "Completed" PROVE FALSE
      OBVIOUS
    <3>1. k \in GroupEntries /\ groups[k].state = "Resolved" /\ k < entry
      BY <1>1, <1>2, <1>6, <1>7, <1>10
    <3>. QED
      BY <1>2, <1>10, <3>1 DEF Placed, Recorded
  <2>. QED
    BY <1>3, <1>10, <2>1, <2>3, <2>4, <2>5 DEF Uncalled
<1>. QED
  BY <1>8, <1>9, <1>10

(* The reason given for a condition that was never called is the true one: *)
(* "group resolved" exactly for the members behind a selection of a group  *)
(* that ended locally, "execution stopped" for every other hole, which     *)
(* only a call that did not complete has (NotEvaluatedReason,              *)
(* result.go:63-71; ruleAt).                                               *)
THEOREM HolesExplained == Spec => []HolesAreExplained
  BY HolesFollow, GroupsInvariant, PTL
-----------------------------------------------------------------------------
(* Facts that have been told. *)

LEMMA PrefixOfAppend ==
    ASSUME NEW S, NEW s \in Seq(S), NEW e \in S
    PROVE  IsPrefix(s, s) /\ IsPrefix(s, Append(s, e))
<1>1. /\ Append(s, e) \in Seq(S) /\ Len(s) \in Nat /\ Len(Append(s, e)) = Len(s) + 1
      /\ \A i \in 1 .. Len(s) : Append(s, e)[i] = s[i]
  OBVIOUS
<1>2. SubSeq(s, 1, Len(s)) = SubSeq(Append(s, e), 1, Len(s))
  BY <1>1
<1>. QED
  BY <1>1, <1>2 DEF IsPrefix

(* Records and failures are only ever added to. *)
LEMMA LogsGrow ==
    TypeOK /\ [Next]_vars => IsPrefix(records, records') /\ IsPrefix(failures, failures')
<1> SUFFICES ASSUME TypeOK, [Next]_vars
             PROVE  IsPrefix(records, records') /\ IsPrefix(failures, failures')
  OBVIOUS
<1> USE DEF setup, control, ledger, observation, history
<1>1. /\ records \in Seq(RecordSpace) /\ failures \in Seq(CauseSpace) /\ order \in Nat
      /\ Len(failures) + 1 \in Nat
  BY DEF TypeOK
<1>2. ASSUME NEW state \in {"Fired", "Skipped"}, Record(state)
      PROVE  IsPrefix(records, records')
  BY <1>1, <1>2, PrefixOfAppend DEF Record, RecordSpace
<1>3. ASSUME NEW phase \in {"condition", "action"}, NEW cause \in {"error", "panic"},
             NEW continued \in BOOLEAN, Fail(phase, cause, continued)
      PROVE  IsPrefix(records, records') /\ IsPrefix(failures, failures')
  BY <1>1, <1>3, PrefixOfAppend DEF Fail, RecordSpace, CauseSpace
<1>4. /\ records' = records => IsPrefix(records, records')
      /\ failures' = failures => IsPrefix(failures, failures')
  BY <1>1 DEF IsPrefix
<1>5. CASE Interrupt
  BY <1>2, <1>4, <1>5 DEF Interrupt
<1>6. CASE ConditionError \/ ConditionPanic \/ ActionError \/ ActionPanic
  BY <1>3, <1>6 DEF ConditionError, ConditionPanic, ActionError, ActionPanic
<1>7. CASE ActionOk
  BY <1>2, <1>4, <1>7 DEF ActionOk
<1>8. CASE Start \/ PassInitialCheck \/ EnterRules \/ EnterGroup \/ NextRule
           \/ BeginCondition \/ ConditionFalse \/ ConditionTrue \/ ConditionUnwinds
           \/ AfterPanic \/ AfterCondition \/ ActionUnwinds \/ AfterAction \/ Exhaust
           \/ Leave \/ Complete \/ Finish \/ Deliver
           \/ (\E cause \in {"error", "panic"} : ObserverFails(cause))
           \/ ObserverUnwinds \/ ContextEnds \/ Terminated \/ UNCHANGED vars
  <2>1. records' = records /\ failures' = failures
    BY <1>8 DEF Start, PassInitialCheck, EnterRules, EnterGroup, NextRule, BeginCondition,
         ConditionFalse, ConditionTrue, ConditionUnwinds, AfterPanic, AfterCondition, Decide,
         ActionUnwinds, AfterAction, Exhaust, Leave, Complete, Finish, Deliver, ObserverFails,
         ObserverUnwinds, ContextEnds, Terminated, vars
  <2>. QED
    BY <1>4, <2>1
<1>. QED
  BY <1>5, <1>6, <1>7, <1>8 DEF Next, Step, Work, Observe

(* The end and the selection of a group are written once. *)
LEMMA GroupFactsKept ==
    ASSUME ResultInv, [Next]_vars, NEW k \in 1 .. Len(entries)
    PROVE  /\ groups[k].endReason # "None" => groups'[k] = groups[k]
           /\ groups[k].selected # NoRule => groups'[k].selected = groups[k].selected
<1> USE DEF setup, control, ledger, observation, history, At, AtRule, Visiting,
            ResultInv, ContractContext
<1>1. /\ pc \in AtRule \cup {"advance", "stop"} => entry \in 1 .. Len(entries)
      /\ DOMAIN groups = 1 .. Len(entries) /\ Recorded(k) /\ Placed(k)
      /\ groups[k] \in GroupSpace
      /\ (k \in GroupEntries <=> entries[k].kind \in GroupKinds)
      /\ NoGroup.endReason = "None" /\ NoGroup.selected = NoRule
  BY RecordFacts DEF Position, GroupsInv, NoGroup
<1>2. CASE groups'[k] = groups[k]
  BY <1>2
<1>3. ASSUME pc \in AtRule \cup {"advance", "stop"}, k = entry, k \in GroupEntries,
             groups[k].state # "NotEntered" \/ pc # "stop"
      PROVE  groups[k].endReason = "None"
  BY <1>1, <1>3 DEF Placed, NoGroup
<1>4. ASSUME groups' = [groups EXCEPT ![entry] = Resolved(groups[entry])],
             pc \in {"inCondition", "action"}, Here.kind \in GroupKinds,
             ~Selects(entry, order)
      PROVE  /\ groups[k].endReason # "None" => groups'[k] = groups[k]
             /\ groups[k].selected # NoRule => groups'[k].selected = groups[k].selected
  <2>1. CASE k # entry
    BY <1>1, <1>2, <1>4, <2>1
  <2>2. CASE k = entry
    <3>1. Selections(entry) = {}
      BY <1>4, SelectionsAtCursor DEF Selections
    <3>2. groups[k].selected = NoRule
      BY <1>1, <2>2, <3>1 DEF Recorded
    <3>. QED
      BY <1>1, <1>3, <1>4, <2>2, <3>2 DEF Here
  <2>. QED
    BY <2>1, <2>2
<1>5. CASE EnterGroup
  <2>1. /\ pc = "entry" /\ entry \in 1 .. Len(entries) /\ entries[entry].kind \in GroupKinds
        /\ k # entry => groups'[k] = groups[k]
    BY <1>1, <1>5 DEF EnterGroup, InGroup, Here, Position
  <2>2. k = entry => groups[k] = NoGroup
    BY <1>1, <2>1 DEF Placed
  <2>. QED
    BY <1>1, <1>2, <2>1, <2>2
<1>6. CASE ConditionTrue
  <2>1. pc = "inCondition"
    BY <1>6 DEF ConditionTrue, ConditionReturns
  <2>2. ~Selects(entry, order)
    BY <2>1, SelectionsAtCursor, MemberFacts DEF Selections
  <2>3. Here.kind = "first-match" => Here.kind \in GroupKinds
    BY DEF GroupKinds
  <2>. QED
    BY <1>2, <1>4, <1>6, <2>1, <2>2, <2>3 DEF ConditionTrue
<1>7. CASE ActionOk
  <2>1. pc = "action"
    BY <1>7 DEF ActionOk, ActionReturns
  <2>2. Here.kind = "first-fire" => Here.kind \in GroupKinds /\ ~Selects(entry, order)
    BY <2>1 DEF GroupKinds, Selects, Here, SelectionInv, Untouched
  <2>. QED
    BY <1>2, <1>4, <1>7, <2>1, <2>2 DEF ActionOk
<1>8. CASE AfterAction \/ Exhaust
  <2>1. /\ pc \in AtRule
        /\ groups' # groups => /\ InGroup
             /\ groups' \in {[groups EXCEPT ![entry].skippedFrom = order + 1],
                             [groups EXCEPT ![entry].state = "Exhausted"]}
    BY <1>8 DEF AfterAction, Exhaust
  <2>2. groups'[k] # groups[k] => k = entry /\ k \in GroupEntries
    BY <1>1, <2>1 DEF InGroup, Here
  <2>3. groups'[k].selected = groups[k].selected
    BY <1>1, <2>1 DEF GroupSpace
  <2>. QED
    BY <1>3, <2>1, <2>2, <2>3
<1>9. CASE Leave
  <2>1. /\ pc \in {"advance", "stop"}
        /\ groups' # groups => /\ InGroup /\ groups[entry].state # "NotEntered"
             /\ groups' = [groups EXCEPT ![entry] = Ended(groups[entry])]
    BY <1>9 DEF Leave
  <2>2. groups'[k] # groups[k] => /\ k = entry /\ k \in GroupEntries
                                  /\ groups[k].state # "NotEntered"
    BY <1>1, <2>1 DEF InGroup, Here
  <2>3. groups'[k].selected = groups[k].selected
    <3>1. groups'[k] = groups[k] \/ groups'[k] = Ended(groups[k])
      BY <1>1, <2>1
    <3>2. Ended(groups[k]).selected = groups[k].selected
      BY <1>1 DEF GroupSpace, Ended
    <3>. QED
      BY <3>1, <3>2
  <2>. QED
    BY <1>3, <2>1, <2>2, <2>3
<1>10. CASE Start \/ PassInitialCheck \/ Interrupt \/ EnterRules \/ NextRule
           \/ BeginCondition \/ ConditionFalse \/ ConditionError \/ ConditionPanic
           \/ ConditionUnwinds \/ AfterPanic \/ AfterCondition \/ ActionError \/ ActionPanic
           \/ ActionUnwinds \/ Complete \/ Finish \/ Deliver
           \/ (\E cause \in {"error", "panic"} : ObserverFails(cause))
           \/ ObserverUnwinds \/ ContextEnds \/ Terminated \/ UNCHANGED vars
  <2>1. groups' = groups
    BY <1>10 DEF Start, PassInitialCheck, Interrupt, EnterRules, NextRule, BeginCondition,
         ConditionFalse, ConditionError, ConditionPanic, ConditionUnwinds, AfterPanic,
         AfterCondition, Decide, ActionError, ActionPanic, ActionUnwinds, Complete, Finish,
         Deliver, ObserverFails, ObserverUnwinds, ContextEnds, Terminated, vars
  <2>. QED
    BY <1>2, <2>1
<1>. QED
  BY <1>5, <1>6, <1>7, <1>8, <1>9, <1>10 DEF Next, Step, Work, Observe

(* The stop reason is written once. *)
LEMMA StopKept ==
    ASSUME Stopped, [Next]_vars, stop # "None"
    PROVE  stop' = stop
<1> USE DEF setup, control, ledger, observation, history, At, Stopped
<1>1. CASE Start \/ PassInitialCheck \/ Interrupt \/ EnterRules \/ EnterGroup \/ NextRule
           \/ BeginCondition \/ AfterPanic \/ AfterCondition \/ AfterAction \/ Exhaust
           \/ Leave \/ Complete \/ Finish
  BY <1>1 DEF Start, PassInitialCheck, Interrupt, EnterRules, EnterGroup, NextRule,
       BeginCondition, AfterPanic, AfterCondition, Decide, AfterAction, Exhaust, Leave,
       Complete, Finish
<1>2. CASE ConditionFalse \/ ConditionTrue \/ ConditionError \/ ConditionPanic
           \/ ConditionUnwinds \/ ActionOk \/ ActionError \/ ActionPanic \/ ActionUnwinds
  BY <1>2 DEF ConditionFalse, ConditionTrue, ConditionError, ConditionPanic,
       ConditionUnwinds, ActionOk, ActionError, ActionPanic, ActionUnwinds,
       ConditionReturns, ActionReturns
<1>3. CASE Deliver \/ (\E cause \in {"error", "panic"} : ObserverFails(cause))
           \/ ObserverUnwinds \/ ContextEnds \/ Terminated \/ UNCHANGED vars
  BY <1>3 DEF Deliver, ObserverFails, ObserverUnwinds, ContextEnds, Terminated, vars
<1>. QED
  BY <1>1, <1>2, <1>3 DEF Next, Step, Work, Observe

(* Nothing already told is rewritten by a later step: records and failures *)
(* are only appended, a group's end, its selection and the call's stop     *)
(* reason are final once set (group_result.go:133-136).                    *)
THEOREM FactsFinal == Spec => FactsAreFinal
<1>1. ResultInv /\ [Next]_vars =>
        [/\ IsPrefix(records, records') /\ IsPrefix(failures, failures')
         /\ \A k \in DOMAIN groups :
              /\ groups[k].endReason # "None" => groups'[k] = groups[k]
              /\ groups[k].selected # NoRule => groups'[k].selected = groups[k].selected
         /\ stop # "None" => stop' = stop]_vars
  <2> SUFFICES ASSUME ResultInv, [Next]_vars
               PROVE  /\ IsPrefix(records, records') /\ IsPrefix(failures, failures')
                      /\ \A k \in DOMAIN groups :
                          /\ groups[k].endReason # "None" => groups'[k] = groups[k]
                          /\ groups[k].selected # NoRule =>
                               groups'[k].selected = groups[k].selected
                      /\ stop # "None" => stop' = stop
    OBVIOUS
  <2>1. TypeOK /\ Stopped
    BY DEF ResultInv, ContractContext, GroupsInv
  <2>2. DOMAIN groups = 1 .. Len(entries)
    BY <2>1, RecordFacts
  <2>. QED
    BY <2>1, <2>2, LogsGrow, GroupFactsKept, StopKept
<1>. QED
  BY <1>1, GroupsInvariant, PTL DEF Spec, FactsAreFinal
-----------------------------------------------------------------------------
(* The records and the failures.                                           *)
(*                                                                         *)
(* Every record tells what its rule's callbacks did and names its own      *)
(* failure; every failure tells the callback it came from; and no rule     *)
(* that has been finished lacks its record or its failure.                 *)

Failing(o) == cond[o] \in {"error", "panic"} \/ act[o] \in {"error", "panic"}

Recounts(r) ==
    /\ r.order \in Rules /\ cond[r.order] \notin {"uncalled", "false"}
    /\ r.state = TrueState(r.order)
    /\ r.state = "Failed" =>
         r.failure \in 1 .. Len(failures) /\ failures[r.failure].order = r.order

Policy(phase) ==
    IF phase = "condition" THEN config.conditionErrors ELSE config.actionErrors

RightFailure(f) ==
    /\ f.order \in Rules /\ f.phase \in {"condition", "action"}
    /\ f.cause \in {"error", "panic"}
    /\ f.cause = IF f.phase = "condition" THEN cond[f.order] ELSE act[f.order]
    /\ f.continued = (f.cause = "error" /\ Policy(f.phase) = "ContinueOnError")

AllTold == \A n \in 1 .. Len(records) : Recounts(records[n])
AllRight == \A n \in 1 .. Len(failures) : RightFailure(failures[n])

AllRecorded ==
    pc # "unwound" => \A o \in Rules :
        /\ Failing(o) => \E n \in 1 .. Len(failures) : failures[n].order = o
        /\ cond[o] \notin {"uncalled", "false"} /\ ~(Matching /\ o = order)
             => \E n \in 1 .. Len(records) : records[n].order = o

FailuresSorted ==
    \A j, k \in 1 .. Len(failures) : j < k => failures[j].order < failures[k].order

(* The error's causes: the failures, and behind them what was seen of an   *)
(* ended context.                                                          *)
ContextSeen == Done /\ causes = failures \o ContextCauses
CausesKept ==
    /\ pc \notin {"stop", "finish", "done", "unwound"} => causes = failures
    /\ pc \in {"stop", "finish", "done"} =>
         /\ causes = failures \/ ContextSeen
         /\ late \/ stop \in ContextStops => ContextSeen

AccountInv ==
    AllTold /\ AllRight /\ AllRecorded /\ FailuresSorted /\ CausesKept

LEMMA LogTypes ==
    ASSUME TypeOK
    PROVE  /\ Len(records) \in Nat /\ Len(failures) \in Nat /\ order \in Nat
           /\ \A n \in 1 .. Len(records) : records[n] \in RecordSpace
           /\ \A n \in 1 .. Len(failures) : failures[n] \in CauseSpace
  BY ElementOfSeq DEF TypeOK

(* While a rule is being called, only earlier ones have been told of. *)
LEMMA ToldBefore ==
    ASSUME ContractContext, RecordsSorted, AccountInv, pc = "inCondition" \/ Matching
    PROVE  /\ \A n \in 1 .. Len(records) : records[n].order < order
           /\ \A n \in 1 .. Len(failures) : failures[n].order < order
<1> USE DEF ContractContext, AtRule, Visiting
<1>1. \A n \in 1 .. Len(records) : records[n].order < order
  BY DEF RecordsSorted
<1>2. /\ evaluatedThrough = order + 1 /\ order \in Nat
      /\ pc = "inCondition" => cond[order] = "uncalled" /\ act[order] = "uncalled"
      /\ Matching => cond[order] = "true" /\ act[order] = "uncalled"
      /\ \A p \in Rules : p \in Nat /\ (p >= evaluatedThrough => cond[p] = "uncalled")
      /\ \A p \in Rules : act[p] # "uncalled" => cond[p] = "true"
      /\ order \in Rules
  BY ContractRules, MemberFacts DEF Position, Matching, SelectionInv, Untouched, TypeOK
<1>3. ASSUME NEW n \in 1 .. Len(failures) PROVE failures[n].order < order
  <2>1. RightFailure(failures[n])
    BY DEF AccountInv, AllRight
  <2>2. failures[n].order \in Rules /\ failures[n].order # order
    BY <1>2, <2>1 DEF RightFailure
  <2>3. cond[failures[n].order] # "uncalled"
    BY <1>2, <2>1 DEF RightFailure
  <2>4. ASSUME NEW p \in Rules, p # order, cond[p] # "uncalled" PROVE p < order
    BY <1>2, <2>4
  <2>. QED
    BY <2>2, <2>3, <2>4
<1>. QED
  BY <1>1, <1>3

LEMMA ToldKept ==
    ASSUME TypeOK, entries' = entries, NEW r, Recounts(r),
           cond'[r.order] = cond[r.order], act'[r.order] = act[r.order],
           Len(failures') \in Nat, Len(failures) <= Len(failures'),
           \A i \in 1 .. Len(failures) : failures'[i] = failures[i]
    PROVE  Recounts(r)'
<1>1. TrueState(r.order)' = TrueState(r.order)
  BY DEF TrueState
<1>2. Rules' = Rules /\ Len(failures) \in Nat
  BY LogTypes DEF Rules, Total
<1>. QED
  BY <1>1, <1>2 DEF Recounts

LEMMA RightKept ==
    ASSUME entries' = entries, config' = config, NEW f, RightFailure(f),
           cond'[f.order] = cond[f.order], act'[f.order] = act[f.order]
    PROVE  RightFailure(f)'
  BY DEF RightFailure, Policy, Rules, Total

(* What the steps that call nothing and record nothing keep. *)
LEMMA QuietAccount ==
    ASSUME TypeOK, AccountInv, entries' = entries, config' = config,
           cond' = cond, act' = act, records' = records, failures' = failures,
           Matching => pc' = "unwound" \/ (Matching' /\ order' = order),
           pc = "unwound" => pc' = "unwound"
    PROVE  AllTold' /\ AllRight' /\ AllRecorded' /\ FailuresSorted'
<1>1. ASSUME NEW n \in 1 .. Len(records'), NEW r, r = records'[n] PROVE Recounts(r)'
  <2>1. Recounts(r)
    BY <1>1 DEF AccountInv, AllTold
  <2>. QED
    BY <2>1, ToldKept, LogTypes
<1>2. ASSUME NEW n \in 1 .. Len(failures'), NEW f, f = failures'[n] PROVE RightFailure(f)'
  <2>1. RightFailure(f)
    BY <1>2 DEF AccountInv, AllRight
  <2>. QED
    BY <2>1, RightKept
<1>3. AllRecorded'
  <2>1. Rules' = Rules
    BY DEF Rules, Total
  <2>2. \A o : Failing(o)' <=> Failing(o)
    BY DEF Failing
  <2>3. CASE pc' = "unwound"
    BY <2>3 DEF AllRecorded
  <2>4. CASE pc' # "unwound"
    <3>1. /\ pc # "unwound" /\ AllRecorded
          /\ \A o \in Rules : ~(Matching' /\ o = order') => ~(Matching /\ o = order)
      BY <2>4 DEF AccountInv
    <3>. QED
      BY <2>1, <2>2, <3>1 DEF AllRecorded
  <2>. QED
    BY <2>3, <2>4
<1>4. FailuresSorted'
  <2>1. FailuresSorted
    BY DEF AccountInv
  <2>. QED
    BY <2>1 DEF FailuresSorted
<1>. QED
  <2>1. AllTold'
    BY <1>1 DEF AllTold, Recounts
  <2>2. AllRight'
    BY <1>2 DEF AllRight, RightFailure
  <2>. QED
    BY <1>3, <1>4, <2>1, <2>2

LEMMA AppendFacts ==
    ASSUME NEW S, NEW s \in Seq(S), NEW e \in S, NEW t, t = s \/ t = Append(s, e)
    PROVE  /\ Len(s) \in Nat /\ Len(t) \in Nat /\ Len(s) <= Len(t)
           /\ \A n \in 1 .. Len(s) : n \in 1 .. Len(t) /\ t[n] = s[n]
           /\ \A n \in 1 .. Len(t) :
                n \notin 1 .. Len(s) => n = Len(s) + 1 /\ t[n] = e /\ t = Append(s, e)
           /\ t = Append(s, e) => Len(s) + 1 \in 1 .. Len(t) /\ t[Len(s) + 1] = e
<1>1. CASE t = s
  <2>1. t # Append(s, e)
    BY <1>1
  <2>. QED
    BY <1>1, <2>1
<1>2. CASE t = Append(s, e)
  BY <1>2
<1>. QED
  BY <1>1, <1>2

(* What the end of a callback, or the skip of a matched rule, makes of     *)
(* them: at most one record and one failure more, those of the rule at the *)
(* cursor.                                                                 *)
LEMMA CallAccount ==
    ASSUME ContractContext, RecordsSorted, AccountInv, pc = "inCondition" \/ Matching,
           entries' = entries, config' = config, order' = order,
           \A p \in Rules : p # order => cond'[p] = cond[p] /\ act'[p] = act[p],
           NEW r \in RecordSpace, NEW f \in CauseSpace, r.order = order, f.order = order,
           records' = records \/ (records' = Append(records, r) /\ Recounts(r)'),
           failures' = failures \/ (failures' = Append(failures, f) /\ RightFailure(f)'),
           pc' # "unwound" /\ Failing(order)' => failures' = Append(failures, f),
           pc' # "unwound" /\ cond'[order] \notin {"uncalled", "false"} /\ ~Matching'
               => records' = Append(records, r)
    PROVE  AllTold' /\ AllRight' /\ AllRecorded' /\ FailuresSorted'
<1> USE DEF ContractContext
<1> DEFINE rs == records'
           fs == failures'
<1>1. /\ Len(records) \in Nat /\ Len(failures) \in Nat /\ order \in Nat
      /\ Len(rs) \in Nat /\ Len(fs) \in Nat
      /\ Len(records) <= Len(rs) /\ Len(failures) <= Len(fs)
      /\ \A n \in 1 .. Len(records) : n \in 1 .. Len(rs) /\ rs[n] = records[n]
      /\ \A n \in 1 .. Len(failures) : n \in 1 .. Len(fs) /\ fs[n] = failures[n]
      /\ rs = Append(records, r) =>
            Len(records) + 1 \in 1 .. Len(rs) /\ rs[Len(records) + 1] = r
      /\ fs = Append(failures, f) =>
            Len(failures) + 1 \in 1 .. Len(fs) /\ fs[Len(failures) + 1] = f
      /\ Rules' = Rules
  <2>1. records \in Seq(RecordSpace) /\ failures \in Seq(CauseSpace) /\ order \in Nat
    BY DEF TypeOK
  <2>2. Rules' = Rules
    BY DEF Rules, Total
  <2> HIDE DEF rs, fs
  <2>3. (rs = records \/ rs = Append(records, r)) /\ (fs = failures \/ fs = Append(failures, f))
    BY DEF rs, fs
  <2>. QED
    BY <2>1, <2>2, <2>3, AppendFacts
<1>2. /\ \A n \in 1 .. Len(records) : records[n].order < order /\ records[n].order # order
      /\ \A n \in 1 .. Len(failures) : failures[n].order < order /\ failures[n].order # order
  <2>1. /\ \A n \in 1 .. Len(records) : records[n].order \in Int
        /\ \A n \in 1 .. Len(failures) : failures[n].order \in Int
    BY LogTypes DEF RecordSpace, CauseSpace, NoRule
  <2>2. /\ \A n \in 1 .. Len(records) : records[n].order < order
        /\ \A n \in 1 .. Len(failures) : failures[n].order < order
    BY ToldBefore
  <2>. QED
    BY SMTT(30), <1>1, <2>1, <2>2
<1>3. /\ \A n \in 1 .. Len(records') : n \in 1 .. Len(records) \/
            (n = Len(records) + 1 /\ records'[n] = r /\ Recounts(r)')
      /\ \A n \in 1 .. Len(failures') : n \in 1 .. Len(failures) \/
            (n = Len(failures) + 1 /\ failures'[n] = f /\ RightFailure(f)')
  <2>1. records \in Seq(RecordSpace) /\ failures \in Seq(CauseSpace)
    BY DEF TypeOK
  <2> HIDE DEF rs, fs
  <2>2. /\ \A n \in 1 .. Len(rs) : n \notin 1 .. Len(records)
             => n = Len(records) + 1 /\ rs[n] = r /\ rs = Append(records, r)
        /\ \A n \in 1 .. Len(fs) : n \notin 1 .. Len(failures)
             => n = Len(failures) + 1 /\ fs[n] = f /\ fs = Append(failures, f)
    <3>1. (rs = records \/ rs = Append(records, r))
             /\ (fs = failures \/ fs = Append(failures, f))
      BY DEF rs, fs
    <3>. QED
      BY <2>1, <3>1, AppendFacts
  <2>3. /\ records' = Append(records, r) => Recounts(r)' \/ records' = records
        /\ failures' = Append(failures, f) => RightFailure(f)' \/ failures' = failures
    OBVIOUS
  <2>. QED
    BY <2>2, <2>3 DEF rs, fs
<1>4. AllTold'
  <2>1. ASSUME NEW n \in 1 .. Len(records'), NEW q, q = records'[n] PROVE Recounts(q)'
    <3>1. CASE n \in 1 .. Len(records)
      <4>1. Recounts(q) /\ q.order # order
        BY <1>1, <1>2, <2>1, <3>1 DEF AccountInv, AllTold
      <4>2. cond'[q.order] = cond[q.order] /\ act'[q.order] = act[q.order]
        BY <4>1 DEF Recounts
      <4>. QED
        BY <1>1, <4>1, <4>2, ToldKept
    <3>2. CASE n \notin 1 .. Len(records)
      BY <1>3, <2>1, <3>2
    <3>. QED
      BY <3>1, <3>2
  <2>. QED
    BY <2>1 DEF AllTold, Recounts
<1>5. AllRight'
  <2>1. ASSUME NEW n \in 1 .. Len(failures'), NEW q, q = failures'[n] PROVE RightFailure(q)'
    <3>1. CASE n \in 1 .. Len(failures)
      <4>1. RightFailure(q) /\ q.order # order
        BY <1>1, <1>2, <2>1, <3>1 DEF AccountInv, AllRight
      <4>2. cond'[q.order] = cond[q.order] /\ act'[q.order] = act[q.order]
        BY <4>1 DEF RightFailure
      <4>. QED
        BY <4>1, <4>2, RightKept
    <3>2. CASE n \notin 1 .. Len(failures)
      BY <1>3, <2>1, <3>2
    <3>. QED
      BY <3>1, <3>2
  <2>. QED
    BY <2>1 DEF AllRight, RightFailure
<1>6. AllRecorded'
  <2> SUFFICES ASSUME pc' # "unwound", NEW o \in Rules
               PROVE  /\ Failing(o)' => \E n \in 1 .. Len(failures') : failures'[n].order = o
                      /\ cond'[o] \notin {"uncalled", "false"} /\ ~(Matching' /\ o = order')
                           => \E n \in 1 .. Len(records') : records'[n].order = o
    BY <1>1 DEF AllRecorded
  <2>1. CASE o = order
    <3>1. Failing(o)' => \E n \in 1 .. Len(failures') : failures'[n].order = o
      <4>1. failures' = Append(failures, f) => /\ Len(failures) + 1 \in 1 .. Len(failures')
                                             /\ failures'[Len(failures) + 1].order = o
        BY <1>1, <2>1 DEF TypeOK
      <4>. QED
        BY <2>1, <4>1 DEF Failing
    <3>2. cond'[o] \notin {"uncalled", "false"} /\ ~Matching'
             => \E n \in 1 .. Len(records') : records'[n].order = o
      <4>1. records' = Append(records, r) => /\ Len(records) + 1 \in 1 .. Len(records')
                                             /\ records'[Len(records) + 1].order = o
        BY <1>1, <2>1 DEF TypeOK
      <4>. QED
        BY <2>1, <4>1
    <3>. QED
      BY <2>1, <3>1, <3>2
  <2>2. CASE o # order
    <3>1. cond'[o] = cond[o] /\ act'[o] = act[o] /\ pc # "unwound"
      BY <2>2 DEF Matching
    <3>2. /\ Failing(o) => \E n \in 1 .. Len(failures) : failures[n].order = o
          /\ cond[o] \notin {"uncalled", "false"}
               => \E n \in 1 .. Len(records) : records[n].order = o
      BY <2>2, <3>1 DEF AccountInv, AllRecorded
    <3>3. /\ \A n \in 1 .. Len(records) : n \in 1 .. Len(records') /\ records'[n] = records[n]
          /\ \A n \in 1 .. Len(failures) : n \in 1 .. Len(failures')
                                           /\ failures'[n] = failures[n]
      BY <1>1
    <3>. QED
      BY <3>1, <3>2, <3>3 DEF Failing
  <2>. QED
    BY <2>1, <2>2
<1>7. FailuresSorted'
  <2>1. FailuresSorted
    BY DEF AccountInv
  <2>. QED
    BY SMTT(30), <1>1, <1>2, <1>3, <2>1 DEF FailuresSorted
<1>. QED
  BY <1>4, <1>5, <1>6, <1>7

(* A callback that fails leaves its record and its failure. *)
LEMMA FailAccount ==
    ASSUME ContractContext, RecordsSorted, AccountInv,
           entries' = entries, config' = config, order' = order,
           NEW phase \in {"condition", "action"}, NEW cause \in {"error", "panic"},
           NEW continued \in BOOLEAN, Fail(phase, cause, continued),
           continued = (cause = "error" /\ Policy(phase) = "ContinueOnError"),
           IF phase = "condition"
           THEN pc = "inCondition" /\ cond' = [cond EXCEPT ![order] = cause] /\ act' = act
           ELSE pc = "action" /\ act' = [act EXCEPT ![order] = cause] /\ cond' = cond
    PROVE  AllTold' /\ AllRight' /\ AllRecorded' /\ FailuresSorted'
<1> USE DEF ContractContext, AtRule, Visiting
<1>0. PICK r, f :
        /\ r = [order |-> order, state |-> "Failed", failure |-> Len(failures) + 1]
        /\ f = [order |-> order, phase |-> phase, cause |-> cause, continued |-> continued]
  OBVIOUS
<1>1. /\ records' = Append(records, r) /\ failures' = Append(failures, f)
      /\ order \in Rules /\ order \in Nat /\ Len(failures) \in Nat
      /\ \A p \in Rules : p # order => cond'[p] = cond[p] /\ act'[p] = act[p]
      /\ IF phase = "condition" THEN cond'[order] = cause
         ELSE act'[order] = cause /\ cond'[order] = "true"
      /\ pc = "inCondition" \/ Matching
      /\ Rules' = Rules
  <2>1. order \in Rules /\ pc \in {"inCondition", "action"}
    BY MemberFacts
  <2>2. /\ order \in Nat /\ Len(failures) \in Nat
        /\ \A p \in Rules : p # order => cond'[p] = cond[p] /\ act'[p] = act[p]
        /\ IF phase = "condition" THEN cond'[order] = cause
           ELSE act'[order] = cause /\ cond'[order] = cond[order]
    BY <2>1 DEF TypeOK
  <2>3. pc = "action" => cond[order] = "true"
    BY DEF SelectionInv, Untouched
  <2>. QED
    BY <1>0, <2>1, <2>2, <2>3 DEF Fail, Matching, Rules, Total
<1>2. r \in RecordSpace /\ f \in CauseSpace
  BY <1>0, <1>1 DEF RecordSpace, CauseSpace
<1>3. RightFailure(f)'
  BY <1>0, <1>1 DEF RightFailure, Policy
<1>4. Recounts(r)'
  <2>1. TrueState(order)' = "Failed"
    BY <1>1 DEF TrueState
  <2>2. Len(failures) + 1 \in 1 .. Len(failures') /\ failures'[Len(failures) + 1] = f
    BY <1>1, <1>2 DEF TypeOK
  <2>3. cond'[order] \notin {"uncalled", "false"}
    BY <1>1
  <2>. QED
    BY <1>0, <1>1, <2>1, <2>2, <2>3 DEF Recounts
<1>5. r.order = order /\ f.order = order
  BY <1>0
<1>. QED
  BY <1>1, <1>2, <1>3, <1>4, <1>5, CallAccount

LEMMA AccountStep ==
    ContractContext /\ LedgerInv /\ AccountInv /\ [Next]_vars
        => AllTold' /\ AllRight' /\ AllRecorded' /\ FailuresSorted'
<1> SUFFICES ASSUME ContractContext, LedgerInv, AccountInv, [Next]_vars
             PROVE  AllTold' /\ AllRight' /\ AllRecorded' /\ FailuresSorted'
  OBVIOUS
<1> USE DEF setup, control, ledger, observation, history, At, AtRule, Visiting,
            ContractContext
<1>1. /\ entries' = entries /\ config' = config /\ TypeOK /\ RecordsSorted
      /\ order \in Nat /\ Rules' = Rules
  BY SetupKept DEF LedgerInv, TypeOK, Rules, Total
<1>2. CASE Start \/ PassInitialCheck \/ EnterRules \/ EnterGroup \/ NextRule
           \/ BeginCondition \/ AfterPanic \/ AfterCondition \/ AfterAction \/ Exhaust
           \/ Leave \/ Complete \/ Finish
  <2>1. /\ cond' = cond /\ act' = act /\ records' = records /\ failures' = failures
        /\ pc # "unwound"
    BY <1>2 DEF Start, PassInitialCheck, EnterRules, EnterGroup, NextRule, BeginCondition,
         AfterPanic, AfterCondition, Decide, AfterAction, Exhaust, Leave, Complete, Finish
  <2>2. Matching => Matching' /\ order' = order
    BY <1>2 DEF Start, PassInitialCheck, EnterRules, EnterGroup, NextRule, BeginCondition,
         AfterPanic, AfterCondition, Decide, AfterAction, Exhaust, Leave, Complete, Finish,
         Matching
  <2>. QED
    BY <1>1, <2>1, <2>2, QuietAccount
<1>3. CASE Deliver \/ (\E cause \in {"error", "panic"} : ObserverFails(cause))
           \/ ObserverUnwinds \/ ContextEnds \/ Terminated \/ UNCHANGED vars
  <2>1. /\ cond' = cond /\ act' = act /\ records' = records /\ failures' = failures
        /\ order' = order /\ (pc' = pc \/ pc' = "unwound")
    BY <1>3 DEF Deliver, ObserverFails, ObserverUnwinds, ContextEnds, Terminated, vars
  <2>2. Matching => pc' = "unwound" \/ (Matching' /\ order' = order)
    BY <2>1 DEF Matching
  <2>. QED
    BY <1>1, <2>1, <2>2, QuietAccount
<1>4. CASE ConditionError \/ ConditionPanic \/ ActionError \/ ActionPanic
  <2>1. CASE ConditionError
    BY <1>1, <2>1, FailAccount DEF ConditionError, ConditionReturns, Policy
  <2>2. CASE ConditionPanic
    BY <1>1, <2>2, FailAccount DEF ConditionPanic, ConditionReturns, Policy
  <2>3. CASE ActionError
    BY <1>1, <2>3, FailAccount DEF ActionError, ActionReturns, Policy
  <2>4. CASE ActionPanic
    BY <1>1, <2>4, FailAccount DEF ActionPanic, ActionReturns, Policy
  <2>. QED
    BY <1>4, <2>1, <2>2, <2>3, <2>4
<1> DEFINE r(state) == [order |-> order, state |-> state, failure |-> 0]
           f == [order |-> order, phase |-> "condition", cause |-> "error",
                 continued |-> FALSE]
<1>5. /\ \A state \in {"Fired", "Skipped"} : r(state) \in RecordSpace /\ r(state).order = order
      /\ f \in CauseSpace /\ f.order = order
  BY <1>1 DEF RecordSpace, CauseSpace
<1> HIDE DEF f
<1>6. CASE ConditionFalse \/ ConditionTrue \/ ConditionUnwinds \/ ActionUnwinds
  <2>1. /\ records' = records /\ failures' = failures /\ order' = order
        /\ pc \in {"inCondition", "action"} /\ order \in Rules
        /\ \A p \in Rules : p # order => cond'[p] = cond[p] /\ act'[p] = act[p]
    BY <1>6, MemberFacts DEF ConditionFalse, ConditionTrue, ConditionUnwinds, ActionUnwinds,
         ConditionReturns, ActionReturns, TypeOK
  <2>2. pc' # "unwound" =>
          /\ cond'[order] \in {"true", "false"} /\ act'[order] = "uncalled"
          /\ cond'[order] = "true" => Matching'
    BY <1>6, <2>1 DEF ConditionFalse, ConditionTrue, ConditionUnwinds, ActionUnwinds,
         ConditionReturns, ActionReturns, TypeOK, SelectionInv, Untouched, Matching
  <2>3. pc' # "unwound" => ~Failing(order)'
    BY <2>1, <2>2 DEF Failing
  <2>4. pc = "inCondition" \/ Matching
    BY <2>1 DEF Matching
  <2>. QED
    BY <1>1, <1>5, <2>1, <2>2, <2>3, <2>4, CallAccount
<1>7. CASE ActionOk
  <2>1. /\ records' = Append(records, r("Fired")) /\ failures' = failures /\ order' = order
        /\ pc = "action" /\ order \in Rules /\ cond' = cond /\ cond[order] = "true"
        /\ act'[order] = "ok"
        /\ \A p \in Rules : p # order => cond'[p] = cond[p] /\ act'[p] = act[p]
    BY <1>7, MemberFacts DEF ActionOk, ActionReturns, Record, TypeOK, SelectionInv, Untouched
  <2>2. Recounts(r("Fired"))'
    BY <1>1, <2>1 DEF Recounts, TrueState
  <2>3. ~Failing(order)'
    BY <2>1 DEF Failing
  <2>4. Matching
    BY <2>1 DEF Matching
  <2>. QED
    BY <1>1, <1>5, <2>1, <2>2, <2>3, <2>4, CallAccount
<1>8. CASE Interrupt
  <2>1. /\ failures' = failures /\ order' = order /\ cond' = cond /\ act' = act
        /\ pc' \in {"finish", "stop"} /\ pc # "unwound"
    BY <1>8 DEF Interrupt
  <2>2. CASE ~(pc = "conditionDone" /\ cond[order] = "true")
    <3>1. records' = records /\ ~Matching
      BY <1>8, <2>2 DEF Interrupt, Matching
    <3>. QED
      BY <1>1, <2>1, <3>1, QuietAccount
  <2>3. CASE pc = "conditionDone" /\ cond[order] = "true"
    <3>1. records' = Append(records, r("Skipped")) /\ order \in Rules
      BY <1>8, <2>3, MemberFacts DEF Interrupt, Record
    <3>2. act[order] = "uncalled" /\ Matching
      BY <2>3 DEF SelectionInv, Untouched, Matching
    <3>3. Recounts(r("Skipped"))' /\ ~Failing(order)'
      BY <1>1, <2>1, <2>3, <3>1, <3>2 DEF Recounts, TrueState, Failing
    <3>. QED
      BY <1>1, <1>5, <2>1, <3>1, <3>2, <3>3, CallAccount
  <2>. QED
    BY <2>2, <2>3
<1>. QED
  BY <1>2, <1>3, <1>4, <1>6, <1>7, <1>8 DEF Next, Step, Work, Observe

(* The causes, after every step. *)
LEMMA CausesStep ==
    ContractContext /\ ContractInv /\ Stopped /\ AccountInv /\ [Next]_vars => CausesKept'
<1> SUFFICES ASSUME ContractContext, ContractInv, Stopped, AccountInv, [Next]_vars
             PROVE  CausesKept'
  OBVIOUS
<1> USE DEF setup, control, ledger, observation, history, At, ContractContext, CausesKept
<1>1. /\ CausesKept /\ failures \in Seq(CauseSpace) /\ causes \in Seq(CauseSpace)
      /\ ctx' = ctx => ContextCauses' = ContextCauses /\ (Done' <=> Done)
      /\ ~Done => ContextCauses = <<>>
      /\ late => Done
      /\ pc \in {"start", "initial", "entry", "rule", "condition", "inCondition", "action",
                 "advance"} => ~late
      /\ pc = "panicked" => stop = "Panic"
  BY DEF AccountInv, TypeOK, ContextCauses, Done, AfterEnd, ContractInv, Concluding
<1>2. CASE Start \/ PassInitialCheck \/ EnterRules \/ EnterGroup \/ NextRule
           \/ BeginCondition \/ AfterCondition \/ AfterAction \/ Exhaust \/ Complete
  <2>1. /\ causes' = causes /\ failures' = failures /\ ctx' = ctx /\ late' = late
        /\ causes = failures
        /\ pc' \in {"stop", "finish"} => ~Done \/ pc = "entry"
        /\ pc' \in {"stop", "finish"} => stop' \notin ContextStops
        /\ pc' # "done"
    BY <1>1, <1>2 DEF Start, PassInitialCheck, EnterRules, EnterGroup, NextRule,
         BeginCondition, AfterCondition, Decide, AfterAction, PolicyStop, Exhaust, Complete,
         ContextStops
  <2>. QED
    BY <1>1, <2>1
<1>3. CASE Interrupt
  BY <1>1, <1>3 DEF Interrupt, ContextSeen
<1>4. CASE AfterPanic
  <2>1. /\ causes' = failures \o ContextCauses /\ failures' = failures /\ ctx' = ctx
        /\ late' = late /\ pc' = "stop" /\ stop' = "Panic"
    BY <1>1, <1>4 DEF AfterPanic
  <2>2. ~Done => causes' = failures
    BY <1>1, <2>1
  <2>. QED
    BY <1>1, <2>1, <2>2 DEF ContextSeen, ContextStops
<1>5. ASSUME pc' \notin {"stop", "finish", "done"}, causes = failures, causes' = failures'
      PROVE  CausesKept'
  BY <1>5
<1>6. CASE ConditionFalse \/ ConditionTrue \/ ConditionError \/ ConditionPanic
           \/ ConditionUnwinds
  <2>1. pc' \notin {"stop", "finish", "done"} /\ causes = failures /\ causes' = failures'
    BY <1>1, <1>6 DEF ConditionFalse, ConditionTrue, ConditionError, ConditionPanic,
         ConditionUnwinds, ConditionReturns, Fail
  <2>. QED
    BY <1>5, <2>1
<1>7. CASE ActionOk \/ ActionError \/ ActionPanic \/ ActionUnwinds
  <2>1. pc' \notin {"stop", "finish", "done"} /\ causes = failures /\ causes' = failures'
    BY <1>1, <1>7 DEF ActionOk, ActionError, ActionPanic, ActionUnwinds, ActionReturns, Fail
  <2>. QED
    BY <1>5, <2>1
<1>8. CASE Leave \/ Finish
  <2>1. /\ causes' = causes /\ failures' = failures /\ ctx' = ctx /\ late' = late
        /\ stop' = stop
        /\ \/ pc \in {"stop", "finish"} /\ pc' \in {"finish", "done"}
           \/ pc = "advance" /\ pc' = "entry"
    BY <1>8 DEF Leave, Finish
  <2>2. ContextSeen' <=> ContextSeen
    BY <1>1, <2>1 DEF ContextSeen
  <2>. QED
    BY <1>1, <2>1, <2>2
<1>9. CASE Deliver \/ (\E cause \in {"error", "panic"} : ObserverFails(cause))
           \/ ObserverUnwinds \/ Terminated \/ UNCHANGED vars
  <2>1. /\ causes' = causes /\ failures' = failures /\ ctx' = ctx /\ late' = late
        /\ stop' = stop /\ (pc' = pc \/ pc' = "unwound")
    BY <1>9 DEF Deliver, ObserverFails, ObserverUnwinds, Terminated, vars
  <2>2. ContextSeen' <=> ContextSeen
    BY <1>1, <2>1 DEF ContextSeen
  <2>. QED
    BY <1>1, <2>1, <2>2
<1>10. CASE ContextEnds
  <2>1. /\ causes' = causes /\ failures' = failures /\ late' = late /\ stop' = stop
        /\ pc' = pc /\ ~Done
    BY <1>10 DEF ContextEnds
  <2>2. ~ContextSeen
    BY <2>1 DEF ContextSeen
  <2>. QED
    BY <1>1, <2>1, <2>2
<1>. QED
  BY <1>2, <1>3, <1>4, <1>6, <1>7, <1>8, <1>9, <1>10 DEF Next, Step, Work, Observe

LEMMA AccountInvariant == Spec => [](ResultInv /\ LedgerInv /\ AccountInv)
<1>1. Init => AccountInv
  <2> SUFFICES ASSUME Init PROVE AccountInv
    OBVIOUS
  <2>1. records = <<>> /\ failures = <<>> /\ causes = <<>> /\ pc = "start" /\ Len(<<>>) = 0
    BY DEF Init
  <2>2. \A o \in Rules : cond[o] = "uncalled" /\ act[o] = "uncalled"
    BY DEF Init
  <2>. QED
    BY <2>1, <2>2 DEF AccountInv, AllTold, AllRight, AllRecorded, FailuresSorted, CausesKept,
                      Failing
<1>2. ResultInv /\ LedgerInv /\ AccountInv /\ [Next]_vars => AccountInv'
  BY AccountStep, CausesStep DEF ResultInv, GroupsInv, AccountInv
<1>. QED
  BY <1>1, <1>2, GroupsInvariant, LedgerCorrect, PTL DEF Spec

LEMMA Tails ==
    ASSUME NEW S, NEW s \in Seq(S), NEW c \in Seq(S)
    PROVE  /\ IsPrefix(s, s \o c)
           /\ SubSeq(s \o c, Len(s) + 1, Len(s \o c)) = c
           /\ SubSeq(s, Len(s) + 1, Len(s)) = <<>>
<1>1. /\ s \o c \in Seq(S) /\ Len(s) \in Nat /\ Len(c) \in Nat
      /\ Len(s \o c) = Len(s) + Len(c)
      /\ \A i \in 1 .. Len(s) : (s \o c)[i] = s[i]
      /\ \A i \in 1 .. Len(c) : (s \o c)[Len(s) + i] = c[i]
  OBVIOUS
<1>2. SubSeq(s, 1, Len(s)) = SubSeq(s \o c, 1, Len(s))
  BY <1>1
<1>3. SubSeq(s \o c, Len(s) + 1, Len(s \o c)) = c
  BY <1>1
<1>. QED
  BY <1>1, <1>2, <1>3 DEF IsPrefix

LEMMA FailingState ==
    ASSUME ContractContext, NEW o \in Rules
    PROVE  TrueState(o) = "Failed" <=> Failing(o)
<1>1. /\ cond[o] \in {"uncalled", "false", "true", "error", "panic"}
      /\ act[o] \in {"uncalled", "ok", "error", "panic"}
      /\ act[o] # "uncalled" => cond[o] = "true"
  BY DEF ContractContext, TypeOK, SelectionInv, Untouched
<1>. QED
  BY <1>1 DEF TrueState, Failing

(* What was seen of an ended context. *)
LEMMA SeenCauses ==
    ASSUME TypeOK, Done
    PROVE  /\ ContextCauses \in Seq(CauseSpace) /\ ContextCauses # <<>>
           /\ [k \in DOMAIN ContextCauses |-> ContextCauses[k].cause]
                 = <<ctx.err>> \o IF ctx.cause THEN <<"cause">> ELSE <<>>
<1>1. ctx \in EndingSpace
  BY EndingsAssumption DEF TypeOK, Done, Live
<1>2. PICK because : because = [what \in {ctx.err, "cause"} |->
          [order |-> NoRule, phase |-> "context", cause |-> what, continued |-> FALSE]]
  OBVIOUS
<1>3. /\ because[ctx.err] \in CauseSpace /\ because["cause"] \in CauseSpace
      /\ because[ctx.err].cause = ctx.err /\ because["cause"].cause = "cause"
  BY <1>1, <1>2 DEF EndingSpace, CauseSpace
<1>4. CASE ctx.cause
  <2>1. ContextCauses = <<because[ctx.err], because["cause"]>>
    BY <1>2, <1>4 DEF ContextCauses
  <2>. QED
    BY <1>3, <1>4, <2>1
<1>5. CASE ~ctx.cause
  <2>1. ContextCauses = <<because[ctx.err]>>
    BY <1>2, <1>5 DEF ContextCauses
  <2>. QED
    BY <1>3, <1>5, <2>1
<1>. QED
  BY <1>4, <1>5

(* Fire's error is complete: every failure once, in rule order, with the   *)
(* policy it was met with, and behind them what was seen of the context,   *)
(* which was looked at whenever a callback had come back to an ended one   *)
(* (engine.go:72-75, execution_internal.go:209-238).                       *)
THEOREM ErrorComplete == Spec => []ErrorIsComplete
<1>1. ResultInv /\ LedgerInv /\ AccountInv => ErrorIsComplete
  <2> SUFFICES ASSUME ResultInv, LedgerInv, AccountInv, Returned,
                      NEW ending, NEW observed,
                      ending = <<ctx.err>> \o IF ctx.cause THEN <<"cause">> ELSE <<>>,
                      observed = SubSeq(causes, Len(failures) + 1, Len(causes))
               PROVE  /\ IsPrefix(failures, causes)
                      /\ observed # <<>> =>
                           [k \in DOMAIN observed |-> observed[k].cause] = ending
                      /\ late => observed # <<>>
                      /\ stop \in ContextStops => observed # <<>>
                      /\ InOrder([k \in DOMAIN failures |-> failures[k].order],
                                 Where(LAMBDA o : TrueState(o) = "Failed"))
                      /\ \A k \in DOMAIN failures :
                            failures[k].continued =
                              /\ failures[k].cause = "error"
                              /\ (IF failures[k].phase = "condition"
                                  THEN config.conditionErrors ELSE config.actionErrors)
                                   = "ContinueOnError"
    BY DEF ErrorIsComplete
  <2> USE DEF ResultInv, ContractContext, AccountInv, Returned
  <2>1. /\ causes = failures \/ ContextSeen
        /\ late \/ stop \in ContextStops => ContextSeen
        /\ failures \in Seq(CauseSpace) /\ DOMAIN failures = 1 .. Len(failures)
    BY DEF CausesKept, TypeOK
  <2>2. InOrder([k \in DOMAIN failures |-> failures[k].order],
                Where(LAMBDA o : TrueState(o) = "Failed"))
    <3> DEFINE q == [k \in DOMAIN failures |-> failures[k].order]
    <3>1. \A j, k \in DOMAIN q : j < k => q[j] < q[k]
      BY <2>1 DEF FailuresSorted
    <3>2. \A k \in DOMAIN q : q[k] \in Rules /\ Failing(q[k])
      BY <2>1 DEF AllRight, RightFailure, Failing
    <3>3. \A o \in Rules : Failing(o) => \E k \in DOMAIN q : q[k] = o
      BY <2>1 DEF AllRecorded
    <3>4. Where(LAMBDA o : TrueState(o) = "Failed") = {o \in Rules : Failing(o)}
      BY FailingState DEF Where
    <3> HIDE DEF q
    <3>5. {q[k] : k \in DOMAIN q} = {o \in Rules : Failing(o)}
      BY <3>2, <3>3
    <3>. QED
      BY <3>1, <3>4, <3>5 DEF InOrder, q
  <2>3. \A k \in DOMAIN failures :
          failures[k].continued =
            /\ failures[k].cause = "error"
            /\ (IF failures[k].phase = "condition"
                THEN config.conditionErrors ELSE config.actionErrors)
                 = "ContinueOnError"
    BY <2>1 DEF AllRight, RightFailure, Policy
  <2>4. CASE ContextSeen
    <3>1. /\ causes = failures \o ContextCauses /\ ContextCauses \in Seq(CauseSpace)
          /\ ContextCauses # <<>>
          /\ [k \in DOMAIN ContextCauses |-> ContextCauses[k].cause] = ending
      BY <2>4, SeenCauses DEF ContextSeen
    <3>2. IsPrefix(failures, causes) /\ observed = ContextCauses
      BY <2>1, <3>1, Tails
    <3>. QED
      BY <2>2, <2>3, <3>1, <3>2
  <2>5. CASE ~ContextSeen
    <3>1. causes = failures
      BY <2>1, <2>5
    <3>2. IsPrefix(failures, causes) /\ observed = <<>>
      BY <2>1, <3>1, Tails DEF IsPrefix
    <3>. QED
      BY <2>1, <2>2, <2>3, <2>5, <3>2
  <2>. QED
    BY <2>4, <2>5
<1>. QED
  BY <1>1, AccountInvariant, PTL
-----------------------------------------------------------------------------
(* The views of a Result.                                                  *)

(* The search finds the record of a rule, when there is one. *)
LEMMA SearchFinds ==
    ASSUME TypeOK, RecordsSorted, NEW o \in Rules
    PROVE  /\ \A n \in 1 .. Len(records) : records[n].order = o => FindRecord(o) = n
           /\ (\A n \in 1 .. Len(records) : records[n].order # o) => FindRecord(o) = 0
<1> DEFINE Divides(i) == /\ \A k \in 1 .. i - 1 : records[k].order < o
                         /\ \A k \in i .. Len(records) : records[k].order >= o
           Behind_(i) == i <= Len(records) => records[i].order >= o
           At_ == {i \in 1 .. Len(records) + 1 : Behind_(i)}
           at == CHOOSE i \in 1 .. Len(records) + 1 : Divides(i)
<1>1. /\ o \in Nat /\ Len(records) \in Nat
      /\ \A k \in 1 .. Len(records) : records[k].order \in Nat
      /\ \A j, k \in 1 .. Len(records) : j < k => records[j].order < records[k].order
  BY ContractRules, LogTypes, RecordOrders DEF RecordsSorted
<1>2. Len(records) + 1 \in At_ /\ At_ \subseteq Nat
  BY <1>1
<1>3. PICK i \in At_ : \A j \in At_ : i <= j
  <2> HIDE DEF At_
  <2>. QED
    BY <1>2, LeastElement
<1>4. Divides(i)
  <2>1. ASSUME NEW k \in 1 .. i - 1 PROVE records[k].order < o
    <3>1. k \in 1 .. Len(records) /\ k \in 1 .. Len(records) + 1 /\ k < i
      BY <1>1, <1>3
    <3>2. ~Behind_(k)
      BY <1>3, <3>1
    <3>. QED
      BY <1>1, <3>1, <3>2
  <2>2. ASSUME NEW k \in i .. Len(records) PROVE records[k].order >= o
    <3>1. i \in 1 .. Len(records) /\ k \in 1 .. Len(records) /\ records[i].order >= o
      BY <1>1, <1>3, <2>2
    <3>2. k = i \/ records[i].order < records[k].order
      BY <1>1, <1>3, <2>2, <3>1
    <3>. QED
      BY <1>1, <3>1, <3>2
  <2>. QED
    BY <2>1, <2>2
<1> HIDE DEF Divides
<1>5. at \in 1 .. Len(records) + 1 /\ Divides(at)
  BY <1>3, <1>4
<1>6. FindRecord(o) = IF at <= Len(records) /\ records[at].order = o THEN at ELSE 0
  BY DEF FindRecord, Divides
<1> HIDE DEF at
<1>7. ASSUME NEW n \in 1 .. Len(records), records[n].order = o PROVE at = n
  <2>1. ~(n < at)
    BY <1>1, <1>5, <1>7 DEF Divides
  <2>2. ~(at < n)
    <3> SUFFICES ASSUME at < n PROVE FALSE
      OBVIOUS
    <3>1. at \in 1 .. Len(records) /\ records[at].order >= o
      BY <1>1, <1>5 DEF Divides
    <3>2. records[at].order < o
      BY <1>1, <1>7, <3>1
    <3>. QED
      BY <1>1, <3>1, <3>2
  <2>. QED
    BY <1>1, <1>5, <2>1, <2>2
<1>. QED
  BY <1>1, <1>5, <1>6, <1>7

(* One pass over the records computes a sequence for every number of them. *)
Gathers(f, n, keep) ==
    f = [m \in 0 .. n |->
            IF m = 0 THEN <<>>
            ELSE IF m \in keep THEN Append(f[m - 1], records[m].order) ELSE f[m - 1]]

LEMMA GatherExists ==
    ASSUME NEW keep, NEW N \in Nat
    PROVE  \E f : Gathers(f, N, keep)
<1> DEFINE Bad == {n \in Nat : ~\E f : Gathers(f, n, keep)}
<1> SUFFICES ASSUME Bad # {} PROVE FALSE
  OBVIOUS
<1>1. PICK n \in Bad : \A m \in Bad : n <= m
  BY LeastElement
<1>2. n # 0
  <2> DEFINE g == [m \in 0 .. 0 |-> <<>>]
  <2>1. g = [m \in 0 .. 0 |->
                IF m = 0 THEN <<>>
                ELSE IF m \in keep THEN Append(g[m - 1], records[m].order) ELSE g[m - 1]]
    OBVIOUS
  <2>2. Gathers(g, 0, keep)
    BY <2>1 DEF Gathers
  <2>. QED
    BY <2>2
<1>3. n - 1 \in Nat /\ n - 1 \notin Bad
  BY <1>1, <1>2
<1>4. PICK f : Gathers(f, n - 1, keep)
  BY <1>3
<1> DEFINE g == [m \in 0 .. n |->
                    IF m < n THEN f[m]
                    ELSE IF n \in keep THEN Append(f[n - 1], records[n].order) ELSE f[n - 1]]
<1>5. \A m \in 0 .. n : m # n => g[m] = f[m]
  OBVIOUS
<1>6. \A m \in 0 .. n - 1 :
        f[m] = IF m = 0 THEN <<>>
               ELSE IF m \in keep THEN Append(f[m - 1], records[m].order) ELSE f[m - 1]
  BY <1>3, <1>4 DEF Gathers
<1>7. ASSUME NEW m \in 0 .. n
      PROVE  g[m] = IF m = 0 THEN <<>>
                    ELSE IF m \in keep THEN Append(g[m - 1], records[m].order) ELSE g[m - 1]
  <2>1. CASE m = n
    <3>1. n - 1 \in 0 .. n /\ n - 1 # n /\ n \in 0 .. n
      BY <1>3
    <3>. QED
      BY <1>2, <1>3, <1>5, <2>1, <3>1
  <2>2. CASE m < n
    <3>1. m \in 0 .. n - 1 /\ g[m] = f[m]
      BY <1>3, <2>2
    <3>2. m # 0 => m - 1 \in 0 .. n /\ m - 1 # n
      BY <1>3, <2>2
    <3> HIDE DEF g
    <3>. QED
      BY <1>5, <1>6, <3>1, <3>2
  <2>. QED
    BY <1>3, <2>1, <2>2
<1>8. Gathers(g, n, keep)
  <2> DEFINE h == [m \in 0 .. n |->
                     IF m = 0 THEN <<>>
                     ELSE IF m \in keep THEN Append(g[m - 1], records[m].order) ELSE g[m - 1]]
  <2>1. g = [m \in 0 .. n |-> g[m]]
    OBVIOUS
  <2> HIDE DEF g
  <2>2. h = [m \in 0 .. n |-> g[m]]
    BY <1>7
  <2>. QED
    BY <2>1, <2>2 DEF Gathers
<1>. QED
  BY <1>1, <1>8

LEMMA KeptGathers ==
    ASSUME TypeOK, NEW keep
    PROVE  \E f : Gathers(f, Len(records), keep) /\ Kept(keep) = f[Len(records)]
<1> DEFINE c == CHOOSE f : Gathers(f, Len(records), keep)
<1>1. Gathers(c, Len(records), keep)
  <2> HIDE DEF c
  <2>1. \E f : Gathers(f, Len(records), keep)
    BY GatherExists, LogTypes
  <2>. QED
    BY <2>1 DEF c
<1>2. Kept(keep) = c[Len(records)]
  BY Zenon DEF Kept, Gathers
<1>. QED
  BY <1>1, <1>2

(* The pass lists the orders of the records that it keeps. *)
LEMMA KeptInOrder ==
    ASSUME TypeOK, RecordsSorted, NEW keep
    PROVE  InOrder(Kept(keep), {records[n].order : n \in keep \cap (1 .. Len(records))})
<1>1. PICK f : Gathers(f, Len(records), keep) /\ Kept(keep) = f[Len(records)]
  BY KeptGathers
<1>2. /\ Len(records) \in Nat
      /\ \A n \in 1 .. Len(records) : records[n].order \in Nat
      /\ \A j, k \in 1 .. Len(records) : j < k => records[j].order < records[k].order
  BY LogTypes, RecordOrders DEF RecordsSorted
<1>3. /\ f[0] = <<>>
      /\ \A n \in 1 .. Len(records) :
            f[n] = IF n \in keep THEN Append(f[n - 1], records[n].order) ELSE f[n - 1]
  <2>1. \A m \in 0 .. Len(records) :
          f[m] = IF m = 0 THEN <<>>
                 ELSE IF m \in keep THEN Append(f[m - 1], records[m].order) ELSE f[m - 1]
    <3> DEFINE body(m) == IF m = 0 THEN <<>>
                          ELSE IF m \in keep THEN Append(f[m - 1], records[m].order)
                          ELSE f[m - 1]
    <3>1. f = [m \in 0 .. Len(records) |-> body(m)]
      BY <1>1 DEF Gathers
    <3> HIDE DEF body
    <3>2. \A m \in 0 .. Len(records) : f[m] = body(m)
      BY <3>1
    <3>. QED
      BY <3>2 DEF body
  <2>2. 0 \in 0 .. Len(records)
    BY <1>2
  <2>3. \A n \in 1 .. Len(records) : n \in 0 .. Len(records) /\ n # 0
    BY <1>2
  <2>. QED
    BY <2>1, <2>2, <2>3
<1> DEFINE Lists(n) ==
             /\ f[n] \in Seq(Nat)
             /\ \A i \in 1 .. Len(f[n]) :
                  \E m \in 1 .. n : m \in keep /\ f[n][i] = records[m].order
             /\ \A m \in 1 .. n : m \in keep =>
                  \E i \in 1 .. Len(f[n]) : f[n][i] = records[m].order
             /\ \A i, j \in 1 .. Len(f[n]) : i < j => f[n][i] < f[n][j]
<1>4. Lists(0)
  BY <1>3
<1>5. ASSUME NEW n \in 1 .. Len(records), Lists(n - 1) PROVE Lists(n)
  <2>1. CASE n \notin keep
    <3>1. f[n] = f[n - 1]
      BY <1>3, <2>1
    <3>2. \A m \in 1 .. n : m \in keep => m \in 1 .. n - 1
      BY <2>1
    <3>3. \A m \in 1 .. n - 1 : m \in 1 .. n
      OBVIOUS
    <3> DEFINE s == f[n - 1]
    <3>4. /\ s \in Seq(Nat)
          /\ \A i \in 1 .. Len(s) : \E m \in 1 .. n - 1 : m \in keep /\ s[i] = records[m].order
          /\ \A m \in 1 .. n - 1 : m \in keep =>
                \E i \in 1 .. Len(s) : s[i] = records[m].order
          /\ \A i, j \in 1 .. Len(s) : i < j => s[i] < s[j]
      BY <1>5
    <3>5. f[n] = s
      BY <3>1
    <3> HIDE DEF s
    <3>. QED
      BY <3>2, <3>3, <3>4, <3>5
  <2>2. CASE n \in keep
    <3> DEFINE s == f[n - 1]
               e == records[n].order
    <3>1. f[n] = Append(s, e) /\ s \in Seq(Nat) /\ e \in Nat
      BY <1>2, <1>3, <1>5, <2>2
    <3> HIDE DEF s, e
    <3>2. /\ f[n] \in Seq(Nat) /\ Len(s) \in Nat /\ Len(f[n]) = Len(s) + 1
          /\ f[n][Len(s) + 1] = e
          /\ \A i \in 1 .. Len(s) : f[n][i] = s[i]
      BY <3>1
    <3>3. /\ \A i \in 1 .. Len(s) : \E m \in 1 .. n - 1 : m \in keep /\ s[i] = records[m].order
          /\ \A m \in 1 .. n - 1 : m \in keep =>
                \E i \in 1 .. Len(s) : s[i] = records[m].order
          /\ \A i, j \in 1 .. Len(s) : i < j => s[i] < s[j]
      BY <1>5 DEF s
    <3>4. \A i \in 1 .. Len(s) : s[i] < e
      <4>1. \A m \in 1 .. n - 1 : records[m].order < e
        BY SMTT(30), <1>2 DEF e
      <4>. QED
        BY <3>3, <4>1
    <3>5. \A i \in 1 .. Len(f[n]) : i \in 1 .. Len(s) \/ i = Len(s) + 1
      BY <3>2
    <3>6. \A i \in 1 .. Len(f[n]) : \E m \in 1 .. n : m \in keep /\ f[n][i] = records[m].order
      <4>1. \A m \in 1 .. n - 1 : m \in 1 .. n
        OBVIOUS
      <4>2. n \in 1 .. n /\ e = records[n].order
        BY DEF e
      <4>3. TAKE i \in 1 .. Len(f[n])
      <4>4. CASE i \in 1 .. Len(s)
        <5>1. PICK m \in 1 .. n - 1 : m \in keep /\ s[i] = records[m].order
          BY <3>3, <4>4
        <5>2. f[n][i] = s[i]
          BY <3>2, <4>4
        <5>. QED
          BY <4>1, <5>1, <5>2
      <4>5. CASE i = Len(s) + 1
        <5>1. f[n][i] = e
          BY <3>2, <4>5
        <5>. QED
          BY <2>2, <4>2, <5>1
      <4>. QED
        BY <3>5, <4>4, <4>5
    <3>7. ASSUME NEW m \in 1 .. n, m \in keep
          PROVE  \E i \in 1 .. Len(f[n]) : f[n][i] = records[m].order
      <4>1. CASE m = n
        <5>1. Len(s) + 1 \in 1 .. Len(f[n]) /\ f[n][Len(s) + 1] = records[m].order
          BY <3>2, <4>1 DEF e
        <5>. QED
          BY <5>1
      <4>2. CASE m # n
        <5>1. PICK i \in 1 .. Len(s) : s[i] = records[m].order
          BY <3>3, <3>7, <4>2
        <5>2. i \in 1 .. Len(f[n]) /\ f[n][i] = records[m].order
          BY <3>2, <5>1
        <5>. QED
          BY <5>2
      <4>. QED
        BY <4>1, <4>2
    <3>8. ASSUME NEW i \in 1 .. Len(f[n]), NEW j \in 1 .. Len(f[n]), i < j
          PROVE  f[n][i] < f[n][j]
      <4>1. i \in 1 .. Len(s) /\ f[n][i] = s[i]
        BY <3>2, <3>8
      <4>2. CASE j \in 1 .. Len(s)
        <5>1. f[n][j] = s[j]
          BY <3>2, <4>2
        <5>. QED
          BY <3>3, <3>8, <4>1, <4>2, <5>1
      <4>3. CASE j = Len(s) + 1
        BY <3>2, <3>4, <4>1, <4>3
      <4>. QED
        BY <3>5, <4>2, <4>3
    <3>. QED
      BY <3>2, <3>6, <3>7, <3>8
  <2>. QED
    BY <2>1, <2>2
<1>6. Lists(Len(records))
  <2> DEFINE Bad == {n \in 0 .. Len(records) : ~Lists(n)}
  <2> SUFFICES ASSUME Bad # {} PROVE FALSE
    BY <1>2
  <2> HIDE DEF Lists
  <2>0. Bad \subseteq Nat
    BY <1>2
  <2>1. PICK n \in Bad : \A m \in Bad : n <= m
    <3> HIDE DEF Bad
    <3>. QED
      BY <2>0, LeastElement
  <2>2. n \in 1 .. Len(records) /\ n - 1 \notin Bad /\ n - 1 \in 0 .. Len(records)
    <3>1. n \in 0 .. Len(records) /\ ~Lists(n)
      BY <2>1
    <3>2. n # 0
      BY <1>4, <3>1
    <3>3. n - 1 \in 0 .. Len(records) /\ ~(n <= n - 1)
      BY <1>2, <3>1, <3>2
    <3> HIDE DEF Bad
    <3>. QED
      BY <1>2, <2>1, <3>1, <3>2, <3>3
  <2>. QED
    BY <1>5, <2>1, <2>2
<1>. QED
  <2> DEFINE s == f[Len(records)]
  <2>1. /\ s \in Seq(Nat) /\ DOMAIN s = 1 .. Len(s)
        /\ \A i \in 1 .. Len(s) :
              \E m \in 1 .. Len(records) : m \in keep /\ s[i] = records[m].order
        /\ \A m \in 1 .. Len(records) : m \in keep =>
              \E i \in 1 .. Len(s) : s[i] = records[m].order
        /\ \A i, j \in 1 .. Len(s) : i < j => s[i] < s[j]
    BY <1>6
  <2> HIDE DEF s
  <2>2. {s[k] : k \in DOMAIN s} = {records[n].order : n \in keep \cap (1 .. Len(records))}
    <3>1. ASSUME NEW k \in DOMAIN s
          PROVE  s[k] \in {records[n].order : n \in keep \cap (1 .. Len(records))}
      BY <2>1
    <3>2. ASSUME NEW n \in keep \cap (1 .. Len(records))
          PROVE  records[n].order \in {s[k] : k \in DOMAIN s}
      BY <2>1
    <3>. QED
      BY <3>1, <3>2
  <2>3. Kept(keep) = s
    BY <1>1 DEF s
  <2>. QED
    BY <2>1, <2>2, <2>3 DEF InOrder

(* What a record, and the failure that it names, say of the callbacks. *)
LEMMA RecordTells ==
    ASSUME ContractContext, AccountInv, NEW n \in 1 .. Len(records),
           NEW r, r = records[n], NEW f, f = failures[r.failure]
    PROVE  /\ r.order \in Rules /\ r.state = TrueState(r.order)
           /\ cond[r.order] \in {"true", "error", "panic"}
           /\ r.state \in {"Fired", "Skipped", "Failed"}
           /\ r.state = "Fired" <=> act[r.order] = "ok"
           /\ r.state = "Skipped" <=> cond[r.order] = "true" /\ act[r.order] = "uncalled"
           /\ r.state = "Failed" =>
                /\ f.order = r.order /\ f.order # NoRule
                /\ f.cause = IF f.phase = "condition" THEN cond[r.order] ELSE act[r.order]
                /\ f.phase = "action" <=> cond[r.order] = "true"
                /\ f.phase = "action" <=> act[r.order] # "uncalled"
<1>1. /\ r.order \in Rules /\ r.state = TrueState(r.order)
      /\ cond[r.order] \notin {"uncalled", "false"}
      /\ r.state = "Failed" =>
           r.failure \in 1 .. Len(failures) /\ failures[r.failure].order = r.order
  BY DEF AccountInv, AllTold, Recounts
<1>2. /\ cond[r.order] \in {"uncalled", "false", "true", "error", "panic"}
      /\ act[r.order] \in {"uncalled", "ok", "error", "panic"}
      /\ act[r.order] # "uncalled" => cond[r.order] = "true"
      /\ r.order \in Nat
  BY <1>1, ContractRules DEF ContractContext, TypeOK, SelectionInv, Untouched
<1>3. r.state = "Failed" =>
        /\ f.order = r.order /\ f.phase \in {"condition", "action"}
        /\ f.cause \in {"error", "panic"}
        /\ f.cause = IF f.phase = "condition" THEN cond[r.order] ELSE act[r.order]
  BY <1>1 DEF AccountInv, AllRight, RightFailure
<1>4. /\ r.state \in {"Fired", "Skipped", "Failed"}
      /\ r.state = "Fired" <=> act[r.order] = "ok"
      /\ r.state = "Skipped" <=> cond[r.order] = "true" /\ act[r.order] = "uncalled"
  BY <1>1, <1>2 DEF TrueState
<1>5. r.order # NoRule
  BY <1>2 DEF NoRule
<1>. QED
  BY <1>1, <1>2, <1>3, <1>4, <1>5

(* The view of one rule. *)
LEMMA ViewTells ==
    ASSUME ResultInv, LedgerInv, AccountInv, Returned, NEW o \in Rules,
           NEW v, v = ruleAt(o)
    PROVE  /\ v.state = TrueState(o)
           /\ HasMatched(v) <=> cond[o] = "true"
           /\ ActionStarted(v) <=> act[o] # "uncalled"
           /\ Error(v) = NoFailure <=> TrueState(o) # "Failed"
           /\ TrueState(o) = "Failed" =>
                LET f == Error(v)
                IN  /\ f.order = o
                    /\ f.cause = IF f.phase = "condition" THEN cond[o] ELSE act[o]
<1> USE DEF HasMatched, ActionStarted, Error, View
<1>1. /\ TypeOK /\ RecordsSorted /\ ContractContext /\ pc = "done" /\ ~Matching
      /\ cond[o] \in {"uncalled", "false", "true", "error", "panic"}
      /\ act[o] \in {"uncalled", "ok", "error", "panic"}
      /\ act[o] # "uncalled" => cond[o] = "true"
  BY DEF ResultInv, LedgerInv, ContractContext, Returned, Matching, TypeOK, SelectionInv,
         Untouched
<1>2. cond[o] # "uncalled" => v.notEvaluated = "None"
  BY HolesFollow DEF HolesAreExplained
<1>3. cond[o] = "uncalled" => v.notEvaluated # "None"
  BY HolesFollow DEF HolesAreExplained
<1>4. v \in {View("NotEvaluated", NoFailure, "GroupResolved"),
             View("NotEvaluated", NoFailure, "ExecutionStopped")}
      \/ v = IF FindRecord(o) = 0 THEN View("Unmatched", NoFailure, "None")
             ELSE View(records[FindRecord(o)].state,
                       IF records[FindRecord(o)].state = "Failed"
                       THEN failures[records[FindRecord(o)].failure] ELSE NoFailure,
                       "None")
  BY DEF ruleAt
<1>5. CASE cond[o] = "uncalled"
  <2>1. v.state = "NotEvaluated" /\ v.failure = NoFailure
    BY <1>3, <1>4, <1>5
  <2>2. TrueState(o) = "NotEvaluated"
    BY <1>5 DEF TrueState
  <2>. QED
    BY <1>1, <1>5, <2>1, <2>2
<1>6. CASE cond[o] = "false"
  <2>1. \A n \in 1 .. Len(records) : records[n].order # o
    BY <1>6 DEF AccountInv, AllTold, Recounts
  <2>2. FindRecord(o) = 0
    BY <1>1, <2>1, SearchFinds
  <2>3. v = View("Unmatched", NoFailure, "None")
    BY <1>2, <1>4, <1>6, <2>2
  <2>4. TrueState(o) = "Unmatched"
    BY <1>6 DEF TrueState
  <2>. QED
    BY <1>1, <1>6, <2>3, <2>4
<1>7. CASE cond[o] \notin {"uncalled", "false"}
  <2>1. PICK n \in 1 .. Len(records) : records[n].order = o
    BY <1>1, <1>7 DEF AccountInv, AllRecorded
  <2>2. FindRecord(o) = n /\ n # 0
    BY <1>1, <2>1, SearchFinds, LogTypes
  <2>3. PICK r, f : r = records[n] /\ f = failures[r.failure]
    OBVIOUS
  <2>4. v = View(r.state, IF r.state = "Failed" THEN f ELSE NoFailure, "None")
    BY <1>2, <1>4, <1>7, <2>2, <2>3
  <2>5. /\ r.order = o /\ r.state = TrueState(o) /\ cond[o] \in {"true", "error", "panic"}
        /\ r.state \in {"Fired", "Skipped", "Failed"}
        /\ r.state = "Fired" <=> act[o] = "ok"
        /\ r.state = "Skipped" <=> cond[o] = "true" /\ act[o] = "uncalled"
        /\ r.state = "Failed" =>
             /\ f.order = o /\ f.order # NoRule
             /\ f.cause = IF f.phase = "condition" THEN cond[o] ELSE act[o]
             /\ f.phase = "action" <=> cond[o] = "true"
             /\ f.phase = "action" <=> act[o] # "uncalled"
    BY <1>1, <2>1, <2>3, RecordTells
  <2>6. /\ v.state = r.state
        /\ v.failure = IF r.state = "Failed" THEN f ELSE NoFailure
    BY <2>4
  <2>7. NoFailure.order = NoRule
    BY DEF NoFailure
  <2> HIDE DEF View
  <2>8. CASE r.state = "Failed"
    <3>1. Error(v) = f /\ f # NoFailure /\ v.state = "Failed" /\ TrueState(o) = "Failed"
      BY <2>5, <2>6, <2>7, <2>8
    <3>2. HasMatched(v) <=> cond[o] = "true"
      BY <2>5, <2>6, <2>8
    <3>3. ActionStarted(v) <=> act[o] # "uncalled"
      BY <2>5, <2>6, <2>8
    <3> HIDE DEF HasMatched, ActionStarted, Error
    <3>. QED
      BY <2>5, <2>8, <3>1, <3>2, <3>3
  <2>9. CASE r.state # "Failed"
    BY <1>1, <2>5, <2>6, <2>9
  <2>. QED
    BY <2>8, <2>9
<1>. QED
  BY <1>1, <1>5, <1>6, <1>7

(* What Matched and Fired list. *)
LEMMA ListsTell ==
    ASSUME ResultInv, LedgerInv, AccountInv, Returned
    PROVE  /\ InOrder(Matched, Where(LAMBDA o : cond[o] = "true"))
           /\ InOrder(Fired, Where(LAMBDA o : act[o] = "ok"))
<1>1. /\ TypeOK /\ RecordsSorted /\ ContractContext /\ pc = "done" /\ ~Matching
      /\ \A o \in Rules : act[o] # "uncalled" => cond[o] = "true"
  BY DEF ResultInv, LedgerInv, ContractContext, Returned, Matching, TypeOK, SelectionInv,
         Untouched
<1>2. \A o \in Rules : cond[o] = "true" => \E n \in 1 .. Len(records) : records[n].order = o
  BY <1>1 DEF AccountInv, AllRecorded
<1>3. PICK matching : matching = {n \in 1 .. Len(records) :
                                   \/ records[n].state # "Failed"
                                   \/ failures[records[n].failure].phase = "action"}
  OBVIOUS
<1>4. PICK firing : firing = {n \in 1 .. Len(records) : records[n].state = "Fired"}
  OBVIOUS
<1>5. ASSUME NEW n \in 1 .. Len(records)
      PROVE  /\ records[n].order \in Rules
             /\ n \in matching <=> cond[records[n].order] = "true"
             /\ n \in firing <=> act[records[n].order] = "ok"
  <2>1. PICK r, f : r = records[n] /\ f = failures[r.failure]
    OBVIOUS
  <2>2. /\ r.order \in Rules
        /\ r.state \in {"Fired", "Skipped", "Failed"}
        /\ r.state = "Fired" <=> act[r.order] = "ok"
        /\ r.state = "Skipped" <=> cond[r.order] = "true" /\ act[r.order] = "uncalled"
        /\ r.state = "Failed" => (f.phase = "action" <=> cond[r.order] = "true")
    BY <1>1, <2>1, RecordTells
  <2>3. r.state = "Fired" => cond[r.order] = "true"
    BY <1>1, <2>2
  <2>. QED
    BY <1>3, <1>4, <2>1, <2>2, <2>3
<1>6. {records[n].order : n \in matching \cap (1 .. Len(records))}
        = Where(LAMBDA o : cond[o] = "true")
  BY <1>2, <1>3, <1>5 DEF Where
<1>7. {records[n].order : n \in firing \cap (1 .. Len(records))}
        = Where(LAMBDA o : act[o] = "ok")
  <2>1. \A o \in Rules : act[o] = "ok" => cond[o] = "true"
    BY <1>1
  <2>. QED
    BY <1>2, <1>4, <1>5, <2>1 DEF Where
<1>8. Matched = Kept(matching) /\ Fired = Kept(firing)
  BY <1>3, <1>4 DEF Matched, Fired
<1>. QED
  BY <1>1, <1>6, <1>7, <1>8, KeptInOrder

(* Every view that Result computes from its sparse ledger tells what the   *)
(* rule's callbacks did: its state, whether it matched and its action was  *)
(* started, and the failure that is its own; Matched and Fired list the    *)
(* same rules in order (result.go:167-244, 309-336).                       *)
THEOREM ViewsTrue == Spec => []ViewsAreTrue
<1>1. ResultInv /\ LedgerInv /\ AccountInv => ViewsAreTrue
  <2> SUFFICES ASSUME ResultInv, LedgerInv, AccountInv, Returned PROVE ViewsAreTrue
    BY DEF ViewsAreTrue
  <2>1. ASSUME NEW o \in Rules
        PROVE  /\ ruleAt(o).state = TrueState(o)
               /\ HasMatched(ruleAt(o)) = (cond[o] = "true")
               /\ ActionStarted(ruleAt(o)) = (act[o] # "uncalled")
               /\ (Error(ruleAt(o)) = NoFailure) = (TrueState(o) # "Failed")
               /\ TrueState(o) = "Failed" =>
                    LET f == Error(ruleAt(o))
                    IN  /\ f.order = o
                        /\ f.cause = IF f.phase = "condition" THEN cond[o] ELSE act[o]
    <3>1. PICK v : v = ruleAt(o)
      OBVIOUS
    <3>2. HasMatched(v) \in BOOLEAN /\ ActionStarted(v) \in BOOLEAN
      BY DEF HasMatched, ActionStarted
    <3>3. /\ HasMatched(v) = (cond[o] = "true")
          /\ ActionStarted(v) = (act[o] # "uncalled")
      BY <3>1, <3>2, ViewTells
    <3>. QED
      BY <3>1, <3>3, ViewTells
  <2>. QED
    BY <2>1, ListsTell DEF ViewsAreTrue
<1>. QED
  BY <1>1, AccountInvariant, PTL
-----------------------------------------------------------------------------
(* The events.                                                             *)
(*                                                                         *)
(* A book has a chapter for each entry: what its rules did, line by line,  *)
(* then how it ended.  The story of the call so far is the book of the     *)
(* present state between its opening and its closing; every step that      *)
(* emits events writes just these at the end of it.                        *)

PagesOf(es, told, k) ==
    [n \in 1 .. es[k].end - es[k].start |-> told[es[k].start + n - 1]]
Chapter(es, told, ends, k) == FlattenSeq(PagesOf(es, told, k)) \o ends[k]
Book(es, told, ends) ==
    FlattenSeq([k \in 1 .. Len(es) |-> Chapter(es, told, ends, k)])

Finished(k) ==
    IF groups[k].endReason = "None" THEN <<>>
    ELSE <<[kind |-> "group-finished", entry |-> k, view |-> groups[k]]>>
ToldOf == [o \in Rules |-> RuleStory(o)]
EndsOf == [k \in 1 .. Len(entries) |-> Finished(k)]

Prologue ==
    IF pc = "start" THEN <<>>
    ELSE <<[kind |-> "execution-started",
            counts |-> [ZeroCounts EXCEPT !["NotEvaluated"] = Total], stop |-> "None"]>>
Epilogue ==
    IF pc = "done" THEN <<[kind |-> "execution-finished", counts |-> counts, stop |-> stop]>>
    ELSE <<>>
BookNow == Book(entries, ToldOf, EndsOf)
SoFar == Prologue \o BookNow \o Epilogue

Heard ==
    IF observer THEN delivered \o pending = SoFar /\ diagnostics = <<>>
    ELSE /\ pending = <<>>
         /\ IF config.observer
            THEN /\ Len(diagnostics) = 1 /\ IsPrefix(delivered, SoFar)
                 /\ delivered # <<>> /\ Last(delivered) = diagnostics[1].event
            ELSE delivered = <<>> /\ diagnostics = <<>>

HeardInv ==
    /\ observer => config.observer
    /\ pc = "start" => counts = ZeroCounts
    /\ pc # "unwound" => Heard

LEMMA ConcatLaws ==
    ASSUME NEW S, NEW a \in Seq(S), NEW b \in Seq(S), NEW c \in Seq(S)
    PROVE  /\ (a \o b) \o c = a \o (b \o c)
           /\ a \o <<>> = a /\ <<>> \o a = a
           /\ a \o b \in Seq(S)
<1>1. PICK l, r : l = (a \o b) \o c /\ r = a \o (b \o c)
  OBVIOUS
<1>2. /\ l \in Seq(S) /\ r \in Seq(S)
      /\ Len(l) = Len(a) + Len(b) + Len(c) /\ Len(r) = Len(l)
      /\ Len(a) \in Nat /\ Len(b) \in Nat /\ Len(c) \in Nat
  BY <1>1
<1>3. ASSUME NEW i \in 1 .. Len(l) PROVE l[i] = r[i]
  BY <1>1, <1>2
<1>4. l = r
  BY <1>2, <1>3
<1>. QED
  BY <1>1, <1>4

Regrouped(a, b, c) == (a \o b) \o c = a \o (b \o c)

LEMMA Associates ==
    ASSUME NEW S, NEW a, NEW b, NEW c, a \in Seq(S), b \in Seq(S), c \in Seq(S)
    PROVE  Regrouped(a, b, c)
  BY ConcatLaws DEF Regrouped

(* FlattenSeq, by the function it is computed with. *)
Flattens(f, s, n) == f = [i \in 1 .. n |-> IF i = 1 THEN s[i] ELSE f[i - 1] \o s[i]]

LEMMA FlattensExist ==
    ASSUME NEW s, NEW N \in Nat
    PROVE  \E f : Flattens(f, s, N)
<1> DEFINE Bad == {n \in Nat : ~\E f : Flattens(f, s, n)}
<1> SUFFICES ASSUME Bad # {} PROVE FALSE
  OBVIOUS
<1>1. PICK n \in Bad : \A m \in Bad : n <= m
  BY LeastElement
<1>2. n # 0
  <2> DEFINE g == [i \in 1 .. 0 |-> s[i]]
  <2>1. g = [i \in 1 .. 0 |-> IF i = 1 THEN s[i] ELSE g[i - 1] \o s[i]]
    OBVIOUS
  <2>2. Flattens(g, s, 0)
    BY <2>1 DEF Flattens
  <2>. QED
    BY <2>2
<1>3. n - 1 \in Nat /\ n - 1 \notin Bad /\ n \in Nat
  BY <1>1, <1>2
<1>4. PICK f : Flattens(f, s, n - 1)
  BY <1>3
<1>5. PICK last : last = IF n = 1 THEN s[n] ELSE f[n - 1] \o s[n]
  OBVIOUS
<1> DEFINE g == [i \in 1 .. n |-> IF i < n THEN f[i] ELSE last]
<1>6. \A i \in 1 .. n : (i # n => g[i] = f[i]) /\ (i = n => g[i] = last)
  BY <1>3
<1>7. \A i \in 1 .. n - 1 : f[i] = IF i = 1 THEN s[i] ELSE f[i - 1] \o s[i]
  BY <1>3, <1>4 DEF Flattens
<1>8. ASSUME NEW i \in 1 .. n
      PROVE  g[i] = IF i = 1 THEN s[i] ELSE g[i - 1] \o s[i]
  <2>1. i # 1 => i - 1 \in 1 .. n /\ i - 1 # n
    BY <1>3
  <2>2. i # 1 => g[i - 1] = f[i - 1]
    BY <1>6, <2>1
  <2>3. i # n => i \in 1 .. n - 1
    BY <1>3
  <2>4. g[i] = IF i = n THEN last ELSE f[i]
    BY <1>6
  <2> HIDE DEF g
  <2>. QED
    BY <1>5, <1>7, <2>2, <2>3, <2>4
<1>9. Flattens(g, s, n)
  <2> DEFINE h == [i \in 1 .. n |-> IF i = 1 THEN s[i] ELSE g[i - 1] \o s[i]]
  <2>1. g = [i \in 1 .. n |-> g[i]]
    OBVIOUS
  <2> HIDE DEF g
  <2>2. h = [i \in 1 .. n |-> g[i]]
    BY <1>8
  <2>. QED
    BY <2>1, <2>2 DEF Flattens
<1>. QED
  BY <1>1, <1>9

Flattening(f, s, n) ==
    /\ FlattenSeq(s) = f[n]
    /\ \A i \in 1 .. n : f[i] = IF i = 1 THEN s[i] ELSE f[i - 1] \o s[i]

LEMMA FlattenIs ==
    ASSUME NEW s, Len(s) \in Nat, Len(s) # 0
    PROVE  \E f : Flattening(f, s, Len(s))
<1> DEFINE c == CHOOSE f : Flattens(f, s, Len(s))
<1>1. Flattens(c, s, Len(s))
  <2> HIDE DEF c
  <2>1. \E f : Flattens(f, s, Len(s))
    BY FlattensExist
  <2>. QED
    BY <2>1 DEF c
<1>2. FlattenSeq(s) = c[Len(s)]
  BY Zenon DEF FlattenSeq, Flattens
<1> HIDE DEF c
<1>3. \A i \in 1 .. Len(s) : c[i] = IF i = 1 THEN s[i] ELSE c[i - 1] \o s[i]
  BY <1>1 DEF Flattens
<1>. QED
  BY <1>2, <1>3 DEF Flattening

LEMMA Pages ==
    ASSUME NEW S, NEW n \in Nat, NEW s \in [1 .. n -> Seq(S)]
    PROVE  Len(s) = n /\ (n = 0 => s = <<>>) /\ \A i \in 1 .. n : s[i] \in Seq(S)
<1>1. s \in Seq(Seq(S))
  OBVIOUS
<1>2. Len(s) = n
  OBVIOUS
<1>. QED
  BY <1>1, <1>2

LEMMA FlattenTyped ==
    ASSUME NEW S, NEW n \in Nat, NEW s \in [1 .. n -> Seq(S)]
    PROVE  FlattenSeq(s) \in Seq(S)
<1>1. Len(s) = n /\ (n = 0 => s = <<>>) /\ \A i \in 1 .. n : s[i] \in Seq(S)
  BY Pages
<1>2. CASE n = 0
  BY <1>1, <1>2 DEF FlattenSeq
<1>3. CASE n # 0
  <2>1. PICK f : Flattening(f, s, n)
    BY <1>1, <1>3, FlattenIs
  <2>2. \A i \in 1 .. n : f[i] = IF i = 1 THEN s[i] ELSE f[i - 1] \o s[i]
    BY <2>1 DEF Flattening
  <2> DEFINE Bad == {i \in 1 .. n : f[i] \notin Seq(S)}
  <2>3. Bad = {}
    <3> SUFFICES ASSUME Bad # {} PROVE FALSE
      OBVIOUS
    <3>1. Bad \subseteq Nat
      OBVIOUS
    <3>2. PICK i \in Bad : \A j \in Bad : i <= j
      BY <3>1, LeastElement
    <3>3. i \in 1 .. n /\ f[i] \notin Seq(S) /\ s[i] \in Seq(S)
      BY <1>1, <3>2
    <3>4. i # 1
      BY <2>2, <3>3
    <3>5. PICK m : m = i - 1
      OBVIOUS
    <3>6. m \in 1 .. n /\ ~(i <= m)
      BY <3>3, <3>4, <3>5
    <3>7. m \notin Bad
      BY <3>2, <3>6
    <3>8. f[m] \in Seq(S)
      BY <3>6, <3>7
    <3>9. f[i] = f[m] \o s[i]
      BY <2>2, <3>3, <3>4, <3>5
    <3>10. PICK x, y : x = f[m] /\ y = s[i]
      OBVIOUS
    <3>11. x \o y \in Seq(S)
      BY <3>3, <3>8, <3>10, SeqTyping
    <3>. QED
      BY <3>3, <3>9, <3>10, <3>11
  <2>4. n \in 1 .. n
    BY <1>3
  <2>5. f[n] \in Seq(S)
    BY <2>3, <2>4
  <2>. QED
    BY <2>1, <2>5 DEF Flattening
<1>. QED
  BY <1>2, <1>3

(* What is written at the end of the last page that is not blank comes at  *)
(* the end of the whole.                                                   *)
Grown(S, f, g, k, ext, i) ==
    /\ f[i] \in Seq(S)
    /\ g[i] = IF i < k THEN f[i] ELSE f[i] \o ext

LEMMA GrowsOn ==
    ASSUME NEW S, NEW f, NEW g, NEW ext \in Seq(S), NEW k \in Nat, NEW i \in Nat, NEW m \in Nat,
           m = i - 1, Grown(S, f, g, k, ext, m), NEW p \in Seq(S), NEW q,
           f[i] = f[m] \o p, g[i] = g[m] \o q,
           i < k => q = p, i = k => q = p \o ext, i > k => q = <<>> /\ p = <<>>
    PROVE  Grown(S, f, g, k, ext, i)
<1>1. PICK x, y : x = f[m] /\ y = g[m]
  OBVIOUS
<1>2. x \in Seq(S) /\ f[i] = x \o p /\ g[i] = y \o q
  BY <1>1 DEF Grown
<1>3. f[i] \in Seq(S)
  BY <1>2, ConcatLaws
<1>4. CASE i < k
  <2>1. m < k /\ y = x /\ q = p
    BY <1>1, <1>4 DEF Grown
  <2>. QED
    BY <1>2, <1>3, <1>4, <2>1 DEF Grown
<1>5. CASE i = k
  <2>1. m < k /\ y = x /\ q = p \o ext
    BY <1>1, <1>5 DEF Grown
  <2>2. (x \o p) \o ext = x \o (p \o ext)
    <3>1. Regrouped(x, p, ext)
      BY <1>2, Associates
    <3>. QED
      BY <3>1, Zenon DEF Regrouped
  <2>3. g[i] = f[i] \o ext
    BY <1>2, <2>1, <2>2, Zenon
  <2>4. ~(i < k)
    BY <1>5
  <2>. QED
    BY <1>3, <2>3, <2>4, Zenon DEF Grown
<1>6. CASE i > k
  <2>1. ~(m < k) /\ y = x \o ext /\ q = <<>> /\ p = <<>>
    BY <1>1, <1>6 DEF Grown
  <2>2. x \o <<>> = x
    BY <1>2, ConcatLaws
  <2>3. PICK z : z = x \o ext
    OBVIOUS
  <2>4. z \o <<>> = z
    BY <1>2, <2>3, ConcatLaws
  <2>5. f[i] = x /\ g[i] = z
    BY <1>2, <2>1, <2>2, <2>3, <2>4, Zenon
  <2>6. ~(i < k)
    BY <1>6
  <2>. QED
    BY <1>3, <2>3, <2>5, <2>6, Zenon DEF Grown
<1>. QED
  BY <1>4, <1>5, <1>6

Extends(t, s, ext) == t = s \o ext
GrowsAt(n, s, t, k, ext) ==
    /\ k \in 1 .. n /\ t[k] = s[k] \o ext
    /\ \A i \in 1 .. n : (i # k => t[i] = s[i]) /\ (i > k => s[i] = <<>>)

LEMMA FlattenGrows ==
    ASSUME NEW S, NEW n \in Nat, NEW s \in [1 .. n -> Seq(S)], NEW t \in [1 .. n -> Seq(S)],
           NEW k, NEW ext \in Seq(S), GrowsAt(n, s, t, k, ext)
    PROVE  Extends(FlattenSeq(t), FlattenSeq(s), ext)
<1>0. /\ k \in 1 .. n /\ t[k] = s[k] \o ext
      /\ \A i \in 1 .. n : i # k => t[i] = s[i]
      /\ \A i \in 1 .. n : i > k => s[i] = <<>>
  BY DEF GrowsAt
<1>1. Len(s) = n /\ Len(t) = n /\ n # 0 /\ k \in Nat /\ \A i \in 1 .. n : s[i] \in Seq(S)
  <2>1. Len(s) = n /\ \A i \in 1 .. n : s[i] \in Seq(S)
    BY Pages
  <2>2. Len(t) = n
    BY Pages
  <2>3. n # 0 /\ k \in Nat
    <3>1. k \in 1 .. n
      BY <1>0, Zenon
    <3>. QED
      BY <3>1
  <2>. QED
    BY <2>1, <2>2, <2>3, Zenon
<1>2. PICK f : Flattening(f, s, n)
  BY <1>1, FlattenIs
<1>3. PICK g : Flattening(g, t, n)
  BY <1>1, FlattenIs
<1>4. /\ FlattenSeq(s) = f[n] /\ FlattenSeq(t) = g[n]
      /\ \A i \in 1 .. n : f[i] = IF i = 1 THEN s[i] ELSE f[i - 1] \o s[i]
      /\ \A i \in 1 .. n : g[i] = IF i = 1 THEN t[i] ELSE g[i - 1] \o t[i]
  BY <1>2, <1>3 DEF Flattening
<1> DEFINE Bad == {i \in 1 .. n : ~Grown(S, f, g, k, ext, i)}
<1>5. Bad = {}
  <2> SUFFICES ASSUME Bad # {} PROVE FALSE
    OBVIOUS
  <2>1. Bad \subseteq Nat
    OBVIOUS
  <2>2. PICK i \in Bad : \A j \in Bad : i <= j
    BY <2>1, LeastElement
  <2>3. i \in 1 .. n /\ ~Grown(S, f, g, k, ext, i) /\ s[i] \in Seq(S)
    BY <1>1, <2>2
  <2>4. /\ i < k => t[i] = s[i]
        /\ i = k => t[i] = s[i] \o ext
        /\ i > k => t[i] = <<>> /\ s[i] = <<>>
    <3>1. i < k => i # k
      BY <1>1, <2>3
    <3>2. i > k => i # k
      BY <1>1, <2>3
    <3>. QED
      BY <1>0, <2>3, <3>1, <3>2
  <2>5. CASE i = 1
    <3>1. f[i] = s[i] /\ g[i] = t[i] /\ (i < k \/ i = k)
      BY <1>0, <1>1, <1>4, <2>3, <2>5, SMTT(30)
    <3>. QED
      BY <2>3, <2>4, <3>1 DEF Grown
  <2>6. CASE i # 1
    <3>1. PICK m : m = i - 1
      OBVIOUS
    <3>2. m \in 1 .. n /\ m \in Nat /\ i \in Nat /\ ~(i <= m)
      BY <2>3, <2>6, <3>1
    <3>3. m \notin Bad
      BY <2>2, <3>2
    <3>4. Grown(S, f, g, k, ext, m)
      BY <3>2, <3>3
    <3>5. PICK p, q : p = s[i] /\ q = t[i]
      OBVIOUS
    <3>6. f[i] = f[m] \o p /\ g[i] = g[m] \o q /\ p \in Seq(S)
      BY <1>4, <2>3, <2>6, <3>1, <3>5
    <3>7. Grown(S, f, g, k, ext, i)
      BY <1>1, <2>4, <3>1, <3>2, <3>4, <3>5, <3>6, GrowsOn
    <3>. QED
      BY <2>3, <3>7
  <2>. QED
    BY <2>5, <2>6
<1>6. n \in 1 .. n /\ ~(n < k)
  BY <1>0, <1>1
<1>7. Grown(S, f, g, k, ext, n)
  BY <1>5, <1>6
<1>. QED
  BY <1>4, <1>6, <1>7 DEF Grown, Extends

LEMMA FlattenBlank ==
    ASSUME NEW S, NEW n \in Nat, NEW s \in [1 .. n -> Seq(S)],
           \A i \in 1 .. n : s[i] = <<>>
    PROVE  FlattenSeq(s) = <<>>
<1>1. Len(s) = n /\ (n = 0 => s = <<>>)
  BY Pages
<1>2. CASE n = 0
  BY <1>1, <1>2 DEF FlattenSeq
<1>3. CASE n # 0
  <2>1. PICK f : Flattening(f, s, n)
    BY <1>1, <1>3, FlattenIs
  <2>2. \A i \in 1 .. n : f[i] = IF i = 1 THEN s[i] ELSE f[i - 1] \o s[i]
    BY <2>1 DEF Flattening
  <2> DEFINE Bad == {i \in 1 .. n : f[i] # <<>>}
  <2>3. Bad = {}
    <3> SUFFICES ASSUME Bad # {} PROVE FALSE
      OBVIOUS
    <3>1. Bad \subseteq Nat
      OBVIOUS
    <3>2. PICK i \in Bad : \A j \in Bad : i <= j
      BY <3>1, LeastElement
    <3>3. i \in 1 .. n /\ f[i] # <<>> /\ s[i] = <<>>
      BY <3>2
    <3>4. i # 1
      BY <2>2, <3>3
    <3>5. PICK m : m = i - 1
      OBVIOUS
    <3>6. m \in 1 .. n /\ ~(i <= m)
      BY <3>3, <3>4, <3>5
    <3>7. m \notin Bad
      BY <3>2, <3>6
    <3>8. f[m] = <<>>
      BY <3>6, <3>7
    <3>9. f[i] = <<>> \o <<>>
      BY <2>2, <3>3, <3>4, <3>5, <3>8
    <3>10. <<>> \o <<>> = <<>>
      BY SeqTyping, ConcatLaws
    <3>. QED
      BY <3>3, <3>9, <3>10
  <2>4. n \in 1 .. n
    BY <1>3
  <2>5. f[n] = <<>>
    BY <2>3, <2>4
  <2>. QED
    BY <2>1, <2>5 DEF Flattening
<1>. QED
  BY <1>2, <1>3

(* The entries that a book is laid out by, over the rules below T. *)
Shelf(es, T) ==
    /\ Len(es) \in Nat /\ T \in Nat
    /\ \A k \in 1 .. Len(es) : /\ es[k].start \in Nat /\ es[k].end \in Nat
                               /\ es[k].start <= es[k].end /\ es[k].end <= T
    /\ \A j, k \in 1 .. Len(es) : j < k => es[j].end <= es[k].start

Paged(S, es, T, told, k, n, s) ==
    /\ n \in Nat /\ s \in [1 .. n -> Seq(S)]
    /\ \A i \in 1 .. n : \E o \in 0 .. T - 1 :
         /\ o = es[k].start + i - 1 /\ es[k].start <= o /\ o < es[k].end
         /\ s[i] = told[o]

LEMMA PagesTyped ==
    ASSUME NEW S, NEW es, NEW T, Shelf(es, T), NEW told \in [0 .. T - 1 -> Seq(S)],
           NEW k \in 1 .. Len(es), NEW n, n = es[k].end - es[k].start,
           NEW s, s = PagesOf(es, told, k)
    PROVE  Paged(S, es, T, told, k, n, s)
<1>1. PICK a, b : a = es[k].start /\ b = es[k].end
  OBVIOUS
<1>2. a \in Nat /\ b \in Nat /\ a <= b /\ b <= T /\ n = b - a /\ T \in Nat
  BY <1>1 DEF Shelf
<1>3. n \in Nat
  BY <1>2
<1>4. s = [i \in 1 .. n |-> told[a + i - 1]]
  BY <1>1 DEF PagesOf
<1>5. ASSUME NEW i \in 1 .. n
      PROVE  \E o \in 0 .. T - 1 : /\ o = es[k].start + i - 1 /\ es[k].start <= o /\ o < es[k].end
                                   /\ s[i] = told[o]
  <2>1. PICK o : o = a + i - 1
    OBVIOUS
  <2>2. o \in 0 .. T - 1 /\ a <= o /\ o < b
    BY <1>2, <2>1
  <2>. QED
    BY <1>1, <1>4, <2>1, <2>2
<1>6. \A i \in 1 .. n : s[i] \in Seq(S)
  BY <1>5
<1>. QED
  BY <1>3, <1>4, <1>5, <1>6 DEF Paged

LEMMA ChapterTyped ==
    ASSUME NEW S, NEW es, NEW T, Shelf(es, T), NEW told \in [0 .. T - 1 -> Seq(S)],
           NEW ends \in [1 .. Len(es) -> Seq(S)], NEW k \in 1 .. Len(es)
    PROVE  /\ FlattenSeq(PagesOf(es, told, k)) \in Seq(S)
           /\ Chapter(es, told, ends, k) \in Seq(S)
<1>1. PICK n, s : n = es[k].end - es[k].start /\ s = PagesOf(es, told, k)
  OBVIOUS
<1>2. Paged(S, es, T, told, k, n, s)
  BY <1>1, PagesTyped
<1>3. PICK x, y : x = FlattenSeq(s) /\ y = ends[k]
  OBVIOUS
<1>4. x \in Seq(S) /\ y \in Seq(S)
  <2>1. n \in Nat /\ s \in [1 .. n -> Seq(S)]
    BY <1>2 DEF Paged
  <2>. QED
    BY <1>3, <2>1, FlattenTyped
<1>5. x \o y \in Seq(S)
  BY <1>4, SeqTyping
<1>. QED
  BY <1>1, <1>3, <1>4, <1>5, Zenon DEF Chapter

BlankFrom(T, told, a) == \A o \in 0 .. T - 1 : o >= a => told[o] = <<>>
Alike(es, T, told, told2, k) ==
    \A o \in 0 .. T - 1 : es[k].start <= o /\ o < es[k].end => told2[o] = told[o]

LEMMA ChapterBlank ==
    ASSUME NEW S, NEW es, NEW T, Shelf(es, T), NEW told \in [0 .. T - 1 -> Seq(S)],
           NEW ends \in [1 .. Len(es) -> Seq(S)], NEW k \in 1 .. Len(es), ends[k] = <<>>,
           BlankFrom(T, told, es[k].start)
    PROVE  Chapter(es, told, ends, k) = <<>>
<1>1. PICK n, s, a : n = es[k].end - es[k].start /\ s = PagesOf(es, told, k) /\ a = es[k].start
  OBVIOUS
<1>2. /\ n \in Nat /\ s \in [1 .. n -> Seq(S)]
      /\ \A i \in 1 .. n : \E o \in 0 .. T - 1 :
            /\ o = es[k].start + i - 1 /\ es[k].start <= o /\ o < es[k].end
            /\ s[i] = told[o]
  <2>1. Paged(S, es, T, told, k, n, s)
    BY <1>1, PagesTyped
  <2>. QED
    BY <2>1 DEF Paged
<1>3. a \in Nat
  BY <1>1 DEF Shelf
<1>4. ASSUME NEW i \in 1 .. n PROVE s[i] = <<>>
  <2>1. PICK o \in 0 .. T - 1 : es[k].start <= o /\ s[i] = told[o]
    BY <1>2, Zenon
  <2>2. o >= a
    BY <1>1, <1>3, <2>1
  <2>. QED
    BY <1>1, <2>1, <2>2 DEF BlankFrom
<1>5. FlattenSeq(s) = <<>>
  BY <1>2, <1>4, FlattenBlank
<1>6. <<>> \o <<>> = <<>>
  BY SeqTyping, ConcatLaws
<1>. QED
  BY <1>1, <1>5, <1>6, Zenon DEF Chapter

SameChapter(es, told, told2, ends, ends2, k) ==
    Chapter(es, told2, ends2, k) = Chapter(es, told, ends, k)

LEMMA ChapterKept ==
    ASSUME NEW S, NEW es, NEW T, Shelf(es, T), NEW told \in [0 .. T - 1 -> Seq(S)],
           NEW told2 \in [0 .. T - 1 -> Seq(S)], NEW ends, NEW ends2,
           NEW k \in 1 .. Len(es), ends2[k] = ends[k],
           Alike(es, T, told, told2, k)
    PROVE  SameChapter(es, told, told2, ends, ends2, k)
<1>1. PICK n, s, t : /\ n = es[k].end - es[k].start
                     /\ s = PagesOf(es, told, k) /\ t = PagesOf(es, told2, k)
  OBVIOUS
<1>2. /\ n \in Nat /\ s \in [1 .. n -> Seq(S)]
      /\ \A i \in 1 .. n : \E o \in 0 .. T - 1 :
            /\ o = es[k].start + i - 1 /\ es[k].start <= o /\ o < es[k].end
            /\ s[i] = told[o]
  <2>1. Paged(S, es, T, told, k, n, s)
    BY <1>1, PagesTyped
  <2>. QED
    BY <2>1 DEF Paged
<1>3. /\ t \in [1 .. n -> Seq(S)]
      /\ \A i \in 1 .. n : \E o \in 0 .. T - 1 :
            /\ o = es[k].start + i - 1 /\ es[k].start <= o /\ o < es[k].end
            /\ t[i] = told2[o]
  <2>1. Paged(S, es, T, told2, k, n, t)
    BY <1>1, PagesTyped
  <2>. QED
    BY <2>1 DEF Paged
<1>4. ASSUME NEW i \in 1 .. n PROVE t[i] = s[i]
  <2>1. PICK o \in 0 .. T - 1 : /\ o = es[k].start + i - 1 /\ es[k].start <= o /\ o < es[k].end
                                /\ s[i] = told[o]
    BY <1>2, Zenon
  <2>2. PICK q \in 0 .. T - 1 : q = es[k].start + i - 1 /\ t[i] = told2[q]
    BY <1>3, Zenon
  <2>3. q = o /\ told2[o] = told[o]
    BY <2>1, <2>2, Zenon DEF Alike
  <2>. QED
    BY <2>1, <2>2, <2>3, Zenon
<1>5. t = s
  BY <1>2, <1>3, <1>4
<1>. QED
  BY <1>1, <1>5, Zenon DEF Chapter, SameChapter

ChaptersGrow(es, told, told2, ends, ends2, k, ext) ==
    /\ Chapter(es, told2, ends2, k) = Chapter(es, told, ends, k) \o ext
    /\ \A j \in 1 .. Len(es) :
         /\ j # k => Chapter(es, told2, ends2, j) = Chapter(es, told, ends, j)
         /\ j > k => Chapter(es, told, ends, j) = <<>>

(* What a rule or an entry adds behind everything told so far comes at the *)
(* end of the book: if the later chapters are blank and one chapter grows, *)
(* the book grows by as much.                                              *)
LEMMA BookGrows ==
    ASSUME NEW S, NEW es, NEW T, Shelf(es, T), NEW told \in [0 .. T - 1 -> Seq(S)],
           NEW told2 \in [0 .. T - 1 -> Seq(S)], NEW ends \in [1 .. Len(es) -> Seq(S)],
           NEW ends2 \in [1 .. Len(es) -> Seq(S)], NEW k \in 1 .. Len(es), NEW ext \in Seq(S),
           ChaptersGrow(es, told, told2, ends, ends2, k, ext)
    PROVE  Extends(Book(es, told2, ends2), Book(es, told, ends), ext)
<1>1. PICK n, s, t : /\ n = Len(es)
                     /\ s = [j \in 1 .. n |-> Chapter(es, told, ends, j)]
                     /\ t = [j \in 1 .. n |-> Chapter(es, told2, ends2, j)]
  OBVIOUS
<1>2. n \in Nat
  BY <1>1 DEF Shelf
<1>3. \A j \in 1 .. n : /\ Chapter(es, told, ends, j) \in Seq(S)
                        /\ Chapter(es, told2, ends2, j) \in Seq(S)
  BY <1>1, ChapterTyped
<1>4. s \in [1 .. n -> Seq(S)] /\ t \in [1 .. n -> Seq(S)]
  BY <1>1, <1>3
<1>5. GrowsAt(n, s, t, k, ext)
  <2>1. /\ k \in 1 .. n /\ t[k] = s[k] \o ext
        /\ \A j \in 1 .. n : (j # k => t[j] = s[j]) /\ (j > k => s[j] = <<>>)
    BY <1>1 DEF ChaptersGrow
  <2>. QED
    BY <2>1, Zenon DEF GrowsAt
<1>6. Extends(FlattenSeq(t), FlattenSeq(s), ext)
  BY <1>2, <1>4, <1>5, FlattenGrows
<1>. QED
  BY <1>1, <1>6, Zenon DEF Book

LEMMA BookGrowsByRule ==
    ASSUME NEW S, NEW es, NEW T, Shelf(es, T), NEW told \in [0 .. T - 1 -> Seq(S)],
           NEW told2 \in [0 .. T - 1 -> Seq(S)], NEW ends \in [1 .. Len(es) -> Seq(S)],
           NEW k \in 1 .. Len(es), NEW o \in 0 .. T - 1, es[k].start <= o, o < es[k].end,
           NEW ext \in Seq(S), told2[o] = told[o] \o ext,
           \A p \in 0 .. T - 1 : p # o => told2[p] = told[p],
           BlankFrom(T, told, o + 1),
           \A j \in 1 .. Len(es) : j >= k => ends[j] = <<>>
    PROVE  Extends(Book(es, told2, ends), Book(es, told, ends), ext)
<1>1. PICK n, s, t, a : /\ n = es[k].end - es[k].start /\ a = es[k].start
                        /\ s = PagesOf(es, told, k) /\ t = PagesOf(es, told2, k)
  OBVIOUS
<1>0. \A p \in 0 .. T - 1 : p > o => told[p] = <<>>
  <2>1. \A p \in 0 .. T - 1 : p > o => p >= o + 1
    BY DEF Shelf
  <2>. QED
    BY <2>1 DEF BlankFrom
<1>2. /\ n \in Nat /\ a \in Nat /\ o \in Nat /\ Len(es) \in Nat /\ k \in Nat
      /\ o - a + 1 \in 1 .. n
  <2>1. PICK b : b = es[k].end
    OBVIOUS
  <2>2. a \in Nat /\ b \in Nat /\ o \in Nat /\ Len(es) \in Nat /\ k \in Nat
    BY <1>1, <2>1 DEF Shelf
  <2>3. n = b - a /\ a <= o /\ o < b
    BY <1>1, <2>1
  <2>. QED
    BY <2>2, <2>3, SMTT(30)
<1>3. Paged(S, es, T, told, k, n, s) /\ Paged(S, es, T, told2, k, n, t)
  BY <1>1, PagesTyped
<1>4. PICK m : m = o - a + 1
  OBVIOUS
<1>5. m \in 1 .. n /\ a + m - 1 = o
  BY <1>2, <1>4
<1>6. ASSUME NEW i \in 1 .. n
      PROVE  \E p \in 0 .. T - 1 : /\ p = a + i - 1 /\ s[i] = told[p] /\ t[i] = told2[p]
  <2>1. PICK p \in 0 .. T - 1 : p = es[k].start + i - 1 /\ s[i] = told[p]
    BY <1>3, Zenon DEF Paged
  <2>2. PICK q \in 0 .. T - 1 : q = es[k].start + i - 1 /\ t[i] = told2[q]
    BY <1>3, Zenon DEF Paged
  <2>. QED
    BY <1>1, <2>1, <2>2, Zenon
<1>7. t[m] = s[m] \o ext
  <2>1. PICK p \in 0 .. T - 1 : p = a + m - 1 /\ s[m] = told[p] /\ t[m] = told2[p]
    BY <1>5, <1>6, Zenon
  <2>. QED
    BY <1>5, <2>1, Zenon
<1>8. ASSUME NEW i \in 1 .. n
      PROVE  (i # m => t[i] = s[i]) /\ (i > m => s[i] = <<>>)
  <2>1. PICK p \in 0 .. T - 1 : p = a + i - 1 /\ s[i] = told[p] /\ t[i] = told2[p]
    BY <1>6
  <2>2. (i # m => p # o) /\ (i > m => p > o)
    BY <1>2, <1>5, <2>1
  <2>. QED
    BY <1>0, <2>1, <2>2
<1>9. PICK x, y : x = FlattenSeq(s) /\ y = FlattenSeq(t)
  OBVIOUS
<1>10. y = x \o ext /\ x \in Seq(S)
  <2>1. s \in [1 .. n -> Seq(S)] /\ t \in [1 .. n -> Seq(S)]
    BY <1>3 DEF Paged
  <2>2. Extends(FlattenSeq(t), FlattenSeq(s), ext)
    <3>1. GrowsAt(n, s, t, m, ext)
      BY <1>5, <1>7, <1>8, Zenon DEF GrowsAt
    <3>. QED
      BY <1>2, <2>1, <3>1, FlattenGrows
  <2>3. FlattenSeq(s) \in Seq(S)
    BY <1>2, <2>1, FlattenTyped
  <2>. QED
    BY <1>9, <2>2, <2>3, Zenon DEF Extends
<1>11. ends[k] = <<>>
  BY <1>2
<1>12. Chapter(es, told2, ends, k) = Chapter(es, told, ends, k) \o ext
  <2>1. PICK z : z = x \o ext
    OBVIOUS
  <2>2. z \in Seq(S)
    BY <1>10, <2>1, SeqTyping
  <2>3. x \o <<>> = x /\ z \o <<>> = z
    BY <1>10, <2>2, ConcatLaws
  <2>4. Chapter(es, told2, ends, k) = y \o <<>> /\ Chapter(es, told, ends, k) = x \o <<>>
    BY <1>1, <1>9, <1>11, Zenon DEF Chapter
  <2>. QED
    BY <1>10, <2>1, <2>3, <2>4, Zenon
<1>13. ASSUME NEW j \in 1 .. Len(es), j # k
       PROVE  SameChapter(es, told, told2, ends, ends, j)
  <2>1. ~(es[j].start <= o /\ o < es[j].end)
    <3>1. PICK b, c, d : b = es[k].end /\ c = es[j].start /\ d = es[j].end
      OBVIOUS
    <3>2. (j < k => d <= a) /\ (k < j => b <= c) /\ b \in Nat /\ c \in Nat /\ d \in Nat
      BY <1>1, <3>1 DEF Shelf
    <3>3. a <= o /\ o < b /\ (j < k \/ k < j)
      BY <1>1, <1>2, <1>13, <3>1
    <3>4. ~(c <= o /\ o < d)
      BY <1>2, <3>2, <3>3
    <3>. QED
      BY <3>1, <3>4
  <2>2. Alike(es, T, told, told2, j)
    BY <2>1 DEF Alike
  <2>. QED
    BY <2>2, ChapterKept
<1>14. ASSUME NEW j \in 1 .. Len(es), j > k
       PROVE  Chapter(es, told, ends, j) = <<>>
  <2>1. PICK b, c : b = es[k].end /\ c = es[j].start
    OBVIOUS
  <2>2. b <= c /\ b \in Nat /\ c \in Nat /\ o < b
    <3>1. k < j
      BY <1>2, <1>14
    <3>. QED
      BY <2>1, <3>1 DEF Shelf
  <2>3. \A p \in 0 .. T - 1 : p >= c => p > o
    BY <1>2, <2>2
  <2>4. BlankFrom(T, told, es[j].start)
    BY <1>0, <2>1, <2>3 DEF BlankFrom
  <2>5. ends[j] = <<>>
    BY <1>2, <1>14
  <2>. QED
    BY <2>4, <2>5, ChapterBlank
<1>15. ChaptersGrow(es, told, told2, ends, ends, k, ext)
  BY <1>12, <1>13, <1>14, Zenon DEF ChaptersGrow, SameChapter
<1>. QED
  BY <1>15, BookGrows

LEMMA BookGrowsByEnd ==
    ASSUME NEW S, NEW es, NEW T, Shelf(es, T), NEW told \in [0 .. T - 1 -> Seq(S)],
           NEW ends \in [1 .. Len(es) -> Seq(S)], NEW ends2 \in [1 .. Len(es) -> Seq(S)],
           NEW k \in 1 .. Len(es), NEW ext \in Seq(S), ends[k] = <<>>, ends2[k] = ext,
           \A j \in 1 .. Len(es) : j # k => ends2[j] = ends[j],
           \A j \in 1 .. Len(es) : j > k => ends[j] = <<>>,
           BlankFrom(T, told, es[k].end)
    PROVE  Extends(Book(es, told, ends2), Book(es, told, ends), ext)
<1>1. PICK x : x = FlattenSeq(PagesOf(es, told, k))
  OBVIOUS
<1>2. x \in Seq(S)
  BY <1>1, ChapterTyped
<1>3. Chapter(es, told, ends2, k) = Chapter(es, told, ends, k) \o ext
  <2>1. x \o <<>> = x
    BY <1>2, ConcatLaws
  <2>. QED
    BY <1>1, <2>1, Zenon DEF Chapter
<1>4. \A j \in 1 .. Len(es) : j # k =>
        Chapter(es, told, ends2, j) = Chapter(es, told, ends, j)
  BY Zenon DEF Chapter
<1>5. ASSUME NEW j \in 1 .. Len(es), j > k
      PROVE  Chapter(es, told, ends, j) = <<>>
  <2>1. PICK b, c : b = es[k].end /\ c = es[j].start
    OBVIOUS
  <2>2. b <= c /\ b \in Nat /\ c \in Nat
    <3>1. k < j
      BY <1>5 DEF Shelf
    <3>. QED
      BY <2>1, <3>1 DEF Shelf
  <2>3. \A p \in 0 .. T - 1 : p >= c => p >= b
    BY <2>2
  <2>4. BlankFrom(T, told, es[j].start)
    BY <2>1, <2>3 DEF BlankFrom
  <2>. QED
    BY <1>5, <2>4, ChapterBlank
<1>6. ChaptersGrow(es, told, told, ends, ends2, k, ext)
  BY <1>3, <1>4, <1>5, Zenon DEF ChaptersGrow
<1>. QED
  BY <1>6, BookGrows

LEMMA BookBlank ==
    ASSUME NEW S, NEW es, NEW T, Shelf(es, T), NEW told \in [0 .. T - 1 -> Seq(S)],
           NEW ends \in [1 .. Len(es) -> Seq(S)],
           BlankFrom(T, told, 0), \A j \in 1 .. Len(es) : ends[j] = <<>>
    PROVE  Book(es, told, ends) = <<>>
<1>1. PICK n, s : n = Len(es) /\ s = [j \in 1 .. n |-> Chapter(es, told, ends, j)]
  OBVIOUS
<1>2. n \in Nat
  BY <1>1 DEF Shelf
<1>3. ASSUME NEW j \in 1 .. Len(es) PROVE Chapter(es, told, ends, j) = <<>>
  <2>1. \A o \in 0 .. T - 1 : o >= 0
    BY DEF Shelf
  <2>2. BlankFrom(T, told, es[j].start)
    BY <2>1 DEF BlankFrom
  <2>. QED
    BY <2>2, ChapterBlank
<1>4. s \in [1 .. n -> Seq(S)] /\ \A j \in 1 .. n : s[j] = <<>>
  BY <1>1, <1>3, SeqTyping
<1>5. FlattenSeq(s) = <<>>
  BY <1>2, <1>4, FlattenBlank
<1>. QED
  BY <1>1, <1>5, Zenon DEF Book

LEMMA BookTyped ==
    ASSUME NEW S, NEW es, NEW T, Shelf(es, T), NEW told \in [0 .. T - 1 -> Seq(S)],
           NEW ends \in [1 .. Len(es) -> Seq(S)]
    PROVE  Book(es, told, ends) \in Seq(S)
<1>1. PICK n, s : n = Len(es) /\ s = [j \in 1 .. n |-> Chapter(es, told, ends, j)]
  OBVIOUS
<1>2. n \in Nat
  BY <1>1 DEF Shelf
<1>3. s \in [1 .. n -> Seq(S)]
  BY <1>1, ChapterTyped
<1>4. FlattenSeq(s) \in Seq(S)
  BY <1>2, <1>3, FlattenTyped
<1>. QED
  BY <1>1, <1>4, Zenon DEF Book
-----------------------------------------------------------------------------
(* The story of one rule, from what its callbacks did. *)
Line(kind, o, outcome) == [kind |-> kind, order |-> o, outcome |-> outcome]
ResolvedLine(e, k, o, kind) ==
    IF e.kind # kind THEN <<>>
    ELSE <<[kind |-> "group-resolved", entry |-> k,
            view |-> [state |-> "Resolved", endReason |-> "None", stop |-> "None",
                      selected |-> o, skippedFrom |-> e.end]]>>
MatchedLines(e, k, o) ==
    <<Line("evaluated", o, "true")>> \o <<Line("matched", o, "true")>>
    \o ResolvedLine(e, k, o, "first-match")
Telling(e, k, o, c, a) ==
    CASE c = "uncalled" -> <<>>
      [] c = "false" -> <<Line("evaluated", o, "false")>>
      [] c \in {"error", "panic"} ->
            <<Line("evaluated", o, "error")>> \o <<Line("failed", o, "error")>>
      [] c = "true" ->
            MatchedLines(e, k, o)
            \o CASE a = "uncalled" -> <<>>
                 [] a = "ok" -> <<Line("fired", o, "not-evaluated")>>
                                \o ResolvedLine(e, k, o, "first-fire")
                 [] OTHER -> <<Line("failed", o, "not-evaluated")>>

LEMMA StoryIsTelling ==
    ASSUME entries' = entries
    PROVE  \A o : /\ RuleStory(o) = Telling(entries[EntryOf(o)], EntryOf(o), o, cond[o], act[o])
                  /\ RuleStory(o)' =
                        Telling(entries[EntryOf(o)], EntryOf(o), o, cond'[o], act'[o])
<1>1. \A o : EntryOf(o)' = EntryOf(o)
  BY DEF EntryOf
<1>2. \A o : RuleStory(o) = Telling(entries[EntryOf(o)], EntryOf(o), o, cond[o], act[o])
  BY Zenon DEF RuleStory, Telling, MatchedLines, ResolvedLine, Line
<1>3. \A o : RuleStory(o)' =
                Telling(entries'[EntryOf(o)'], EntryOf(o)', o, cond'[o], act'[o])
  BY Zenon DEF RuleStory, Telling, MatchedLines, ResolvedLine, Line
<1>. QED
  BY <1>1, <1>2, <1>3, Zenon

LEMMA BookPrimed ==
    ASSUME entries' = entries
    PROVE  /\ BookNow = Book(entries, ToldOf, EndsOf)
           /\ BookNow' = Book(entries, ToldOf', EndsOf')
<1>1. BookNow' = Book(entries', ToldOf', EndsOf')
  BY DEF BookNow
<1>. QED
  BY <1>1, Zenon DEF BookNow

LEMMA LinesTyped ==
    ASSUME NEW e, NEW k \in Nat, NEW o \in Nat, e.end \in Nat
    PROVE  /\ \A kind \in {"evaluated", "matched", "fired", "failed"} :
              \A outcome \in {"false", "true", "error", "not-evaluated"} :
                 <<Line(kind, o, outcome)>> \in Seq(EventSpace)
           /\ \A kind : ResolvedLine(e, k, o, kind) \in Seq(EventSpace)
           /\ MatchedLines(e, k, o) \in Seq(EventSpace)
<1>1. ASSUME NEW kind \in {"evaluated", "matched", "fired", "failed"},
             NEW outcome \in {"false", "true", "error", "not-evaluated"}
      PROVE  <<Line(kind, o, outcome)>> \in Seq(EventSpace)
  <2>1. Line(kind, o, outcome) \in EventSpace
    BY DEF Line, EventSpace
  <2>. QED
    BY <2>1, SeqTyping
<1>2. ASSUME NEW kind PROVE ResolvedLine(e, k, o, kind) \in Seq(EventSpace)
  <2>1. PICK v : v = [state |-> "Resolved", endReason |-> "None", stop |-> "None",
                      selected |-> o, skippedFrom |-> e.end]
    OBVIOUS
  <2>2. v \in GroupSpace
    BY <2>1 DEF GroupSpace, Stops
  <2>3. [kind |-> "group-resolved", entry |-> k, view |-> v] \in EventSpace
    BY <2>2 DEF EventSpace
  <2>4. <<[kind |-> "group-resolved", entry |-> k, view |-> v]>> \in Seq(EventSpace)
    BY <2>3, SeqTyping
  <2>5. <<>> \in Seq(EventSpace)
    BY SeqTyping
  <2>. QED
    BY <2>1, <2>4, <2>5, Zenon DEF ResolvedLine
<1>3. MatchedLines(e, k, o) \in Seq(EventSpace)
  <2>1. PICK x, y, z : /\ x = <<Line("evaluated", o, "true")>>
                       /\ y = <<Line("matched", o, "true")>>
                       /\ z = ResolvedLine(e, k, o, "first-match")
    OBVIOUS
  <2>2. x \in Seq(EventSpace) /\ y \in Seq(EventSpace) /\ z \in Seq(EventSpace)
    BY <1>1, <1>2, <2>1
  <2>3. (x \o y) \o z \in Seq(EventSpace)
    BY <2>2, SeqTyping
  <2>. QED
    BY <2>1, <2>3, Zenon DEF MatchedLines
<1>. QED
  BY <1>1, <1>2, <1>3

LEMMA TwoLines == \A a, b : <<a>> \o <<b>> = <<a, b>>
<1> SUFFICES ASSUME NEW a, NEW b PROVE <<a>> \o <<b>> = <<a, b>>
  OBVIOUS
<1>1. PICK x, y, z, w : x = <<a>> /\ y = <<b>> /\ z = x \o y /\ w = <<a, b>>
  OBVIOUS
<1>2. x \in Seq({a, b}) /\ y \in Seq({a, b}) /\ w \in Seq({a, b})
  BY <1>1, SeqTyping
<1>3. Len(x) = 1 /\ Len(y) = 1 /\ x[1] = a /\ y[1] = b /\ Len(w) = 2 /\ w[1] = a /\ w[2] = b
  BY <1>1
<1>4. z \in Seq({a, b}) /\ Len(z) = 2 /\ z[1] = a /\ z[2] = b
  BY <1>1, <1>2, <1>3
<1>5. \A i \in 1 .. 2 : z[i] = w[i]
  BY <1>3, <1>4
<1>6. z = w
  BY <1>2, <1>3, <1>4, <1>5
<1>. QED
  BY <1>1, <1>6

(* What each callback adds to the story of its rule. *)
Lengthens(e, k, o, c, a, c2, a2, ext) ==
    /\ ext \in Seq(EventSpace)
    /\ Extends(Telling(e, k, o, c2, a2), Telling(e, k, o, c, a), ext)

LEMMA TellingGrows ==
    ASSUME NEW e, NEW k \in Nat, NEW o \in Nat, e.end \in Nat
    PROVE  /\ Lengthens(e, k, o, "uncalled", "uncalled", "false", "uncalled",
                   <<Line("evaluated", o, "false")>>)
           /\ \A c \in {"error", "panic"} :
                Lengthens(e, k, o, "uncalled", "uncalled", c, "uncalled",
                     <<Line("evaluated", o, "error"), Line("failed", o, "error")>>)
           /\ Lengthens(e, k, o, "uncalled", "uncalled", "true", "uncalled",
                   <<Line("evaluated", o, "true"), Line("matched", o, "true")>>
                   \o ResolvedLine(e, k, o, "first-match"))
           /\ Lengthens(e, k, o, "true", "uncalled", "true", "ok",
                   <<Line("fired", o, "not-evaluated")>> \o ResolvedLine(e, k, o, "first-fire"))
           /\ \A a \in {"error", "panic"} :
                Lengthens(e, k, o, "true", "uncalled", "true", a,
                     <<Line("failed", o, "not-evaluated")>>)
<1>1. \A a, b : <<a>> \o <<b>> = <<a, b>>
  BY TwoLines
<1>2. \A x \in Seq(EventSpace) : <<>> \o x = x /\ x \o <<>> = x /\ Extends(x, <<>>, x)
  <2>1. \A x \in Seq(EventSpace) : <<>> \o x = x /\ x \o <<>> = x
    BY ConcatLaws
  <2>. QED
    BY <2>1, Zenon DEF Extends
<1>3. Telling(e, k, o, "uncalled", "uncalled") = <<>>
  BY DEF Telling
<1>4. PICK x, y, z, w : /\ x = <<Line("evaluated", o, "false")>>
                        /\ y = <<Line("evaluated", o, "error"), Line("failed", o, "error")>>
                        /\ z = <<Line("evaluated", o, "true"), Line("matched", o, "true")>>
                        /\ w = ResolvedLine(e, k, o, "first-match")
  OBVIOUS
<1>5. /\ x \in Seq(EventSpace) /\ y \in Seq(EventSpace) /\ z \in Seq(EventSpace)
      /\ w \in Seq(EventSpace) /\ z \o w \in Seq(EventSpace)
  <2>1. x \in Seq(EventSpace) /\ w \in Seq(EventSpace)
    BY <1>4, LinesTyped
  <2>2. /\ <<Line("evaluated", o, "error")>> \in Seq(EventSpace)
        /\ <<Line("failed", o, "error")>> \in Seq(EventSpace)
        /\ <<Line("evaluated", o, "true")>> \in Seq(EventSpace)
        /\ <<Line("matched", o, "true")>> \in Seq(EventSpace)
    BY LinesTyped
  <2>3. /\ <<Line("evaluated", o, "error")>> \o <<Line("failed", o, "error")>> \in Seq(EventSpace)
        /\ <<Line("evaluated", o, "true")>> \o <<Line("matched", o, "true")>> \in Seq(EventSpace)
    BY <2>2, SeqTyping
  <2>4. y \in Seq(EventSpace) /\ z \in Seq(EventSpace)
    BY <1>1, <1>4, <2>3
  <2>. QED
    BY <2>1, <2>4, SeqTyping
<1>6. Telling(e, k, o, "false", "uncalled") = x
  BY <1>4 DEF Telling
<1>7. \A c \in {"error", "panic"} : Telling(e, k, o, c, "uncalled") = y
  BY <1>1, <1>4 DEF Telling
<1>8. MatchedLines(e, k, o) = z \o w
  BY <1>1, <1>4, Zenon DEF MatchedLines
<1>9. PICK m : m = MatchedLines(e, k, o)
  OBVIOUS
<1>10. m \in Seq(EventSpace) /\ m \o <<>> = m
  BY <1>2, <1>9, LinesTyped
<1>11. Telling(e, k, o, "true", "uncalled") = m
  <2>1. Telling(e, k, o, "true", "uncalled") = MatchedLines(e, k, o) \o <<>>
    BY DEF Telling
  <2>. QED
    BY <1>9, <1>10, <2>1, Zenon
<1>12. PICK f, g : /\ f = <<Line("fired", o, "not-evaluated")>> \o ResolvedLine(e, k, o, "first-fire")
                   /\ g = <<Line("failed", o, "not-evaluated")>>
  OBVIOUS
<1>13. f \in Seq(EventSpace) /\ g \in Seq(EventSpace)
  BY <1>12, LinesTyped, SeqTyping
<1>14. /\ Telling(e, k, o, "true", "ok") = m \o f
       /\ \A a \in {"error", "panic"} : Telling(e, k, o, "true", a) = m \o g
  BY <1>9, <1>12 DEF Telling
<1>15. Lengthens(e, k, o, "uncalled", "uncalled", "false", "uncalled", x)
  BY <1>2, <1>3, <1>5, <1>6, Zenon DEF Lengthens
<1>16. \A c \in {"error", "panic"} : Lengthens(e, k, o, "uncalled", "uncalled", c, "uncalled", y)
  BY <1>2, <1>3, <1>5, <1>7, Zenon DEF Lengthens
<1>17. Lengthens(e, k, o, "uncalled", "uncalled", "true", "uncalled", z \o w)
  <2>1. Extends(z \o w, <<>>, z \o w)
    BY <1>2, <1>5
  <2>2. Telling(e, k, o, "true", "uncalled") = z \o w
    BY <1>8, <1>9, <1>11
  <2>. QED
    BY <1>3, <1>5, <2>1, <2>2, Zenon DEF Lengthens
<1>18. Lengthens(e, k, o, "true", "uncalled", "true", "ok", f)
  BY <1>11, <1>13, <1>14, Zenon DEF Lengthens, Extends
<1>19. \A a \in {"error", "panic"} : Lengthens(e, k, o, "true", "uncalled", "true", a, g)
  BY <1>11, <1>13, <1>14, Zenon DEF Lengthens, Extends
<1>. QED
  BY <1>4, <1>12, <1>15, <1>16, <1>17, <1>18, <1>19, Zenon

LEMMA TellingTyped ==
    ASSUME NEW e, NEW k \in Nat, NEW o \in Nat, e.end \in Nat,
           NEW c \in {"uncalled", "false", "true", "error", "panic"},
           NEW a \in {"uncalled", "ok", "error", "panic"}, a # "uncalled" => c = "true"
    PROVE  /\ Telling(e, k, o, c, a) \in Seq(EventSpace)
           /\ c = "uncalled" => Telling(e, k, o, c, a) = <<>>
<1>1. Telling(e, k, o, "uncalled", "uncalled") = <<>>
  BY DEF Telling
<1>2. \A c2, a2, ext : Lengthens(e, k, o, "uncalled", "uncalled", c2, a2, ext)
                          => Telling(e, k, o, c2, a2) \in Seq(EventSpace)
  <2> SUFFICES ASSUME NEW c2, NEW a2, NEW ext \in Seq(EventSpace),
                      Telling(e, k, o, c2, a2) = <<>> \o ext
               PROVE  Telling(e, k, o, c2, a2) \in Seq(EventSpace)
    BY <1>1, Zenon DEF Lengthens, Extends
  <2>1. <<>> \o ext \in Seq(EventSpace)
    BY SeqTyping
  <2>. QED
    BY <2>1, Zenon
<1>3. /\ Telling(e, k, o, "false", "uncalled") \in Seq(EventSpace)
      /\ Telling(e, k, o, "error", "uncalled") \in Seq(EventSpace)
      /\ Telling(e, k, o, "panic", "uncalled") \in Seq(EventSpace)
      /\ Telling(e, k, o, "true", "uncalled") \in Seq(EventSpace)
  BY <1>2, TellingGrows, Zenon
<1>4. \A c2, a2, ext : Lengthens(e, k, o, "true", "uncalled", c2, a2, ext)
                          => Telling(e, k, o, c2, a2) \in Seq(EventSpace)
  <2> SUFFICES ASSUME NEW c2, NEW a2, NEW ext \in Seq(EventSpace),
                      Telling(e, k, o, c2, a2) = Telling(e, k, o, "true", "uncalled") \o ext
               PROVE  Telling(e, k, o, c2, a2) \in Seq(EventSpace)
    BY Zenon DEF Lengthens, Extends
  <2>1. PICK x : x = Telling(e, k, o, "true", "uncalled")
    OBVIOUS
  <2>2. x \o ext \in Seq(EventSpace)
    BY <1>3, <2>1, SeqTyping
  <2>. QED
    BY <2>1, <2>2, Zenon
<1>5. /\ Telling(e, k, o, "true", "ok") \in Seq(EventSpace)
      /\ Telling(e, k, o, "true", "error") \in Seq(EventSpace)
      /\ Telling(e, k, o, "true", "panic") \in Seq(EventSpace)
  BY <1>4, TellingGrows, Zenon
<1>6. Telling(e, k, o, "uncalled", "uncalled") \in Seq(EventSpace)
  BY <1>1, SeqTyping
<1>. QED
  BY <1>1, <1>3, <1>5, <1>6
-----------------------------------------------------------------------------
(* The book before and after a step. *)
BooksAre(t, t2, e, e2) ==
    /\ Shelf(entries, Total)
    /\ t \in [0 .. Total - 1 -> Seq(EventSpace)] /\ t2 \in [0 .. Total - 1 -> Seq(EventSpace)]
    /\ e \in [1 .. Len(entries) -> Seq(EventSpace)]
    /\ e2 \in [1 .. Len(entries) -> Seq(EventSpace)]
    /\ BookNow = Book(entries, t, e) /\ BookNow' = Book(entries, t2, e2)
    /\ \A o \in Rules :
         /\ t[o] = Telling(entries[EntryOf(o)], EntryOf(o), o, cond[o], act[o])
         /\ t2[o] = Telling(entries[EntryOf(o)], EntryOf(o), o, cond'[o], act'[o])
         /\ cond[o] = "uncalled" => t[o] = <<>>
         /\ cond'[o] = "uncalled" => t2[o] = <<>>
    /\ \A k \in 1 .. Len(entries) : e[k] = Finished(k) /\ e2[k] = Finished(k)'

LEMMA ShelfNow ==
    ASSUME TypeOK
    PROVE  Shelf(entries, Total)
  BY LayoutFacts DEF TypeOK, Shelf

LEMMA FinishedTyped ==
    ASSUME TypeOK, NEW k \in 1 .. Len(entries)
    PROVE  Finished(k) \in Seq(EventSpace)
<1>1. groups[k] \in GroupSpace /\ k \in Nat
  BY RecordFacts
<1>2. [kind |-> "group-finished", entry |-> k, view |-> groups[k]] \in EventSpace
  BY <1>1 DEF EventSpace
<1>. QED
  BY <1>2, SeqTyping DEF Finished

LEMMA FinishedTypedNext ==
    ASSUME TypeOK', entries' = entries, NEW k \in 1 .. Len(entries)
    PROVE  Finished(k)' \in Seq(EventSpace)
<1>1. groups'[k] \in GroupSpace /\ k \in Nat
  <2>1. groups' \in [1 .. Len(entries) -> GroupSpace]
    BY Zenon DEF TypeOK
  <2>. QED
    BY <2>1
<1>2. [kind |-> "group-finished", entry |-> k, view |-> groups'[k]] \in EventSpace
  BY <1>1 DEF EventSpace
<1>. QED
  BY <1>2, SeqTyping DEF Finished

LEMMA BooksExist ==
    ASSUME TypeOK, TypeOK', Untouched, Untouched', entries' = entries
    PROVE  \E t, t2, e, e2 : BooksAre(t, t2, e, e2)
<1>1. PICK t, t2, e, e2 : t = ToldOf /\ t2 = ToldOf' /\ e = EndsOf /\ e2 = EndsOf'
  OBVIOUS
<1>2. Rules' = Rules /\ Len(entries)' = Len(entries) /\ Rules = 0 .. Total - 1
  BY DEF Rules, Total
<1>3. /\ t = [o \in Rules |-> RuleStory(o)]
      /\ t2 = [o \in Rules |-> RuleStory(o)']
      /\ e = [k \in 1 .. Len(entries) |-> Finished(k)]
      /\ e2 = [k \in 1 .. Len(entries) |-> Finished(k)']
  BY <1>1, <1>2 DEF ToldOf, EndsOf
<1>4. ASSUME NEW o \in Rules
      PROVE  /\ t[o] = Telling(entries[EntryOf(o)], EntryOf(o), o, cond[o], act[o])
             /\ t2[o] = Telling(entries[EntryOf(o)], EntryOf(o), o, cond'[o], act'[o])
  <2>1. t[o] = RuleStory(o) /\ t2[o] = RuleStory(o)'
    BY <1>3
  <2>. QED
    BY <2>1, StoryIsTelling, Zenon
<1>5. ASSUME NEW o \in Rules
      PROVE  /\ t[o] \in Seq(EventSpace) /\ t2[o] \in Seq(EventSpace)
             /\ cond[o] = "uncalled" => t[o] = <<>>
             /\ cond'[o] = "uncalled" => t2[o] = <<>>
  <2>1. PICK k, en : k = EntryOf(o) /\ en = entries[k]
    OBVIOUS
  <2>2. k \in 1 .. Len(entries)
    BY <2>1, EntryOfRule
  <2>3. k \in Nat /\ en.end \in Nat /\ o \in Nat
    <3>1. o \in Nat
      BY <1>2, ShelfNow DEF Shelf
    <3>. QED
      BY <2>1, <2>2, <3>1, RecordFacts
  <2>4. /\ cond[o] \in {"uncalled", "false", "true", "error", "panic"}
        /\ act[o] \in {"uncalled", "ok", "error", "panic"}
        /\ act[o] # "uncalled" => cond[o] = "true"
    BY DEF TypeOK, Untouched
  <2>5. /\ cond'[o] \in {"uncalled", "false", "true", "error", "panic"}
        /\ act'[o] \in {"uncalled", "ok", "error", "panic"}
        /\ act'[o] # "uncalled" => cond'[o] = "true"
    BY <1>2 DEF TypeOK, Untouched
  <2>6. PICK c, a, c2, a2 : c = cond[o] /\ a = act[o] /\ c2 = cond'[o] /\ a2 = act'[o]
    OBVIOUS
  <2>7. /\ Telling(en, k, o, c, a) \in Seq(EventSpace)
        /\ c = "uncalled" => Telling(en, k, o, c, a) = <<>>
    BY <2>3, <2>4, <2>6, TellingTyped, ZenonT(30)
  <2>8. /\ Telling(en, k, o, c2, a2) \in Seq(EventSpace)
        /\ c2 = "uncalled" => Telling(en, k, o, c2, a2) = <<>>
    BY <2>3, <2>5, <2>6, TellingTyped, ZenonT(30)
  <2>. QED
    BY <1>4, <2>1, <2>6, <2>7, <2>8, Zenon
<1>6. /\ t \in [0 .. Total - 1 -> Seq(EventSpace)]
      /\ t2 \in [0 .. Total - 1 -> Seq(EventSpace)]
  BY <1>2, <1>3, <1>5
<1>7. /\ e \in [1 .. Len(entries) -> Seq(EventSpace)]
      /\ e2 \in [1 .. Len(entries) -> Seq(EventSpace)]
  BY <1>3, FinishedTyped, FinishedTypedNext
<1>8. \A k \in 1 .. Len(entries) : e[k] = Finished(k) /\ e2[k] = Finished(k)'
  BY <1>3
<1>9. BookNow = Book(entries, t, e) /\ BookNow' = Book(entries, t2, e2)
  BY <1>1, BookPrimed, Zenon
<1>10. Shelf(entries, Total)
  BY ShelfNow
<1>11. BooksAre(t, t2, e, e2)
  BY <1>4, <1>5, <1>6, <1>7, <1>8, <1>9, <1>10, Zenon DEF BooksAre
<1>. QED
  BY <1>11, Zenon

LEMMA FinishedKept ==
    ASSUME NEW k, \/ groups'[k] = groups[k]
                  \/ groups[k].endReason = "None" /\ groups'[k].endReason = "None"
    PROVE  Finished(k)' = Finished(k)
  BY DEF Finished

LEMMA BookKept ==
    ASSUME entries' = entries, cond' = cond, act' = act,
           \A k \in 1 .. Len(entries) : Finished(k)' = Finished(k)
    PROVE  BookNow' = BookNow
<1>1. Rules' = Rules /\ Len(entries)' = Len(entries)
  BY DEF Rules, Total
<1>2. \A o : RuleStory(o)' = RuleStory(o)
  BY StoryIsTelling, Zenon
<1>3. ToldOf' = ToldOf /\ EndsOf' = EndsOf
  BY <1>1, <1>2 DEF ToldOf, EndsOf
<1>. QED
  BY <1>3, BookPrimed, Zenon

(* No entry at or behind the cursor has been finished while it is walked. *)
LEMMA Unfinished ==
    ASSUME ResultInv, pc \in AtRule \cup {"advance", "stop"}
    PROVE  \A k \in 1 .. Len(entries) :
             k >= entry => groups[k].endReason = "None" /\ Finished(k) = <<>>
<1> SUFFICES ASSUME NEW k \in 1 .. Len(entries), k >= entry PROVE groups[k].endReason = "None"
  BY DEF Finished
<1>1. k \in Nat /\ entry \in Nat /\ Recorded(k) /\ Placed(k)
  BY DEF ResultInv, ContractContext, TypeOK, GroupsInv
<1>2. CASE k > entry
  BY <1>1, <1>2 DEF Placed, NoGroup
<1>3. CASE k = entry /\ k \in GroupEntries
  BY <1>1, <1>3 DEF Placed, NoGroup
<1>4. CASE k \notin GroupEntries
  BY <1>1, <1>4 DEF Recorded, NoGroup
<1>. QED
  BY <1>1, <1>2, <1>3, <1>4

LEMMA EntryAtCursor ==
    ASSUME ResultInv, pc \in Visiting
    PROVE  /\ entry \in 1 .. Len(entries) /\ order \in Rules /\ order \in Members(entry)
           /\ EntryOf(order) = entry /\ evaluatedThrough = order + 1
<1>1. TypeOK /\ Position
  BY DEF ResultInv, ContractContext
<1>2. entry \in 1 .. Len(entries) /\ evaluatedThrough = order + 1
  BY <1>1 DEF Position, AtRule
<1>3. order \in Rules /\ order \in Members(entry)
  BY <1>1, MemberFacts
<1>4. EntryOf(order) \in 1 .. Len(entries) /\ order \in Members(EntryOf(order))
  BY <1>1, <1>3, EntryOfRule
<1>5. EntryOf(order) = entry
  BY <1>1, <1>2, <1>3, <1>4, MemberFacts
<1>. QED
  BY <1>2, <1>3, <1>5

(* A callback at the cursor writes its lines at the end of the book. *)
LEMMA CallTells ==
    ASSUME ResultInv, ResultInv', entries' = entries, pc \in {"inCondition", "action"},
           \A p \in Rules : p # order => cond'[p] = cond[p] /\ act'[p] = act[p],
           \A k \in 1 .. Len(entries) : Finished(k)' = Finished(k),
           NEW ext, Lengthens(entries[entry], entry, order, cond[order], act[order],
                         cond'[order], act'[order], ext)
    PROVE  ext \in Seq(EventSpace) /\ Extends(BookNow', BookNow, ext)
<1>1. /\ entry \in 1 .. Len(entries) /\ order \in Rules /\ order \in Members(entry)
      /\ EntryOf(order) = entry /\ evaluatedThrough = order + 1
  BY EntryAtCursor DEF Visiting
<1>2. TypeOK /\ TypeOK' /\ Untouched /\ Untouched'
  BY DEF ResultInv, ContractContext, SelectionInv
<1>3. PICK t, t2, e, e2 : BooksAre(t, t2, e, e2)
  BY <1>2, BooksExist
<1>4. PICK T, es : T = Total /\ es = entries
  OBVIOUS
<1>5. /\ Shelf(es, T)
      /\ t \in [0 .. T - 1 -> Seq(EventSpace)] /\ t2 \in [0 .. T - 1 -> Seq(EventSpace)]
      /\ e \in [1 .. Len(es) -> Seq(EventSpace)] /\ e2 \in [1 .. Len(es) -> Seq(EventSpace)]
      /\ BookNow = Book(es, t, e) /\ BookNow' = Book(es, t2, e2)
      /\ Rules = 0 .. T - 1
  BY <1>3, <1>4, Zenon DEF BooksAre, Rules
<1>6. \A o \in Rules :
        /\ t[o] = Telling(entries[EntryOf(o)], EntryOf(o), o, cond[o], act[o])
        /\ t2[o] = Telling(entries[EntryOf(o)], EntryOf(o), o, cond'[o], act'[o])
        /\ cond[o] = "uncalled" => t[o] = <<>>
  BY <1>3, Zenon DEF BooksAre
<1>7. \A k \in 1 .. Len(es) : e[k] = Finished(k) /\ e2[k] = Finished(k)'
  BY <1>3, <1>4, Zenon DEF BooksAre
<1>8. e2 = e
  BY <1>4, <1>5, <1>7
<1>9. ext \in Seq(EventSpace) /\ t2[order] = t[order] \o ext
  BY <1>1, <1>6, Zenon DEF Lengthens, Extends
<1>10. \A p \in 0 .. T - 1 : p # order => t2[p] = t[p]
  BY <1>5, <1>6, Zenon
<1>11. BlankFrom(T, t, order + 1)
  <2>1. \A p \in Rules : p >= order + 1 => cond[p] = "uncalled"
    BY <1>1, <1>2 DEF Untouched
  <2>. QED
    BY <1>5, <1>6, <2>1 DEF BlankFrom
<1>12. \A k \in 1 .. Len(es) : k >= entry => e[k] = <<>>
  BY <1>4, <1>7, Unfinished DEF AtRule, Visiting
<1>13. es[entry].start <= order /\ order < es[entry].end /\ order \in 0 .. T - 1
       /\ entry \in 1 .. Len(es)
  BY <1>1, <1>2, <1>4, <1>5, RecordFacts
<1>14. Extends(Book(es, t2, e), Book(es, t, e), ext)
  BY <1>5, <1>9, <1>10, <1>11, <1>12, <1>13, BookGrowsByRule
<1>. QED
  BY <1>5, <1>8, <1>9, <1>14, Zenon

(* Leaving a group writes its end at the end of the book. *)
LEMMA LeaveTells ==
    ASSUME ResultInv, ResultInv', entries' = entries, cond' = cond, act' = act,
           pc \in {"advance", "stop"}, NEW ext \in Seq(EventSpace),
           \A k \in 1 .. Len(entries) :
                Finished(k)' = IF k = entry THEN ext ELSE Finished(k)
    PROVE  Extends(BookNow', BookNow, ext)
<1>1. entry \in 1 .. Len(entries) /\ evaluatedThrough <= entries[entry].end
  BY DEF ResultInv, ContractContext, Position, Here
<1>2. TypeOK /\ TypeOK' /\ Untouched /\ Untouched'
  BY DEF ResultInv, ContractContext, SelectionInv
<1>3. PICK t, t2, e, e2 : BooksAre(t, t2, e, e2)
  BY <1>2, BooksExist
<1>4. PICK T, es : T = Total /\ es = entries
  OBVIOUS
<1>5. /\ Shelf(es, T)
      /\ t \in [0 .. T - 1 -> Seq(EventSpace)] /\ t2 \in [0 .. T - 1 -> Seq(EventSpace)]
      /\ e \in [1 .. Len(es) -> Seq(EventSpace)] /\ e2 \in [1 .. Len(es) -> Seq(EventSpace)]
      /\ BookNow = Book(es, t, e) /\ BookNow' = Book(es, t2, e2)
      /\ Rules = 0 .. T - 1
  BY <1>3, <1>4, Zenon DEF BooksAre, Rules
<1>6. \A o \in Rules :
        /\ t[o] = Telling(entries[EntryOf(o)], EntryOf(o), o, cond[o], act[o])
        /\ t2[o] = Telling(entries[EntryOf(o)], EntryOf(o), o, cond'[o], act'[o])
        /\ cond[o] = "uncalled" => t[o] = <<>>
  BY <1>3, Zenon DEF BooksAre
<1>7. \A k \in 1 .. Len(es) : e[k] = Finished(k) /\ e2[k] = Finished(k)'
  BY <1>3, <1>4, Zenon DEF BooksAre
<1>8. t2 = t
  <2>1. \A o \in 0 .. T - 1 : t2[o] = t[o]
    BY <1>5, <1>6, Zenon
  <2>2. PICK D, S : D = 0 .. T - 1 /\ S = Seq(EventSpace)
    OBVIOUS
  <2>3. t \in [D -> S] /\ t2 \in [D -> S] /\ \A o \in D : t2[o] = t[o]
    BY <1>5, <2>1, <2>2, Zenon
  <2>. QED
    BY <2>3
<1>9. /\ e2[entry] = ext /\ e[entry] = <<>>
      /\ \A k \in 1 .. Len(es) : k # entry => e2[k] = e[k]
      /\ \A k \in 1 .. Len(es) : k > entry => e[k] = <<>>
  <2>1. \A k \in 1 .. Len(entries) : k >= entry => Finished(k) = <<>>
    BY Unfinished
  <2>2. \A k \in 1 .. Len(entries) :
          /\ k = entry => k >= entry
          /\ k > entry => k >= entry
    BY <1>1
  <2>3. e[entry] = <<>> /\ \A k \in 1 .. Len(es) : k > entry => e[k] = <<>>
    BY <1>1, <1>4, <1>7, <2>1, <2>2, Zenon
  <2>4. e2[entry] = ext /\ \A k \in 1 .. Len(es) : k # entry => e2[k] = e[k]
    BY <1>1, <1>4, <1>7, Zenon
  <2>. QED
    BY <2>3, <2>4
<1>10. BlankFrom(T, t, es[entry].end)
  <2>1. \A p \in Rules : p >= entries[entry].end => p >= evaluatedThrough
    <3>1. entries[entry].end \in Nat /\ evaluatedThrough \in Nat
      BY <1>1, <1>2, RecordFacts DEF TypeOK
    <3>2. \A p \in Rules : p \in Nat
      BY <1>5 DEF Shelf
    <3>3. PICK a, b : a = entries[entry].end /\ b = evaluatedThrough
      OBVIOUS
    <3>4. \A p \in Nat : p >= a => p >= b
      BY <1>1, <3>1, <3>3
    <3>. QED
      BY <3>2, <3>3, <3>4
  <2>2. \A p \in Rules : p >= evaluatedThrough => cond[p] = "uncalled"
    BY <1>2 DEF Untouched
  <2>. QED
    BY <1>4, <1>5, <1>6, <2>1, <2>2 DEF BlankFrom
<1>11. entry \in 1 .. Len(es)
  BY <1>1, <1>4
<1>12. Extends(Book(es, t, e2), Book(es, t, e), ext)
  BY <1>5, <1>9, <1>10, <1>11, BookGrowsByEnd
<1>. QED
  BY <1>5, <1>8, <1>12, Zenon

LEMMA SummariesTyped ==
    ASSUME TypeOK
    PROVE  Prologue \in Seq(EventSpace) /\ Epilogue \in Seq(EventSpace)
<1>1. Total \in Nat
  BY MemberFacts
<1>2. PICK z : z = [ZeroCounts EXCEPT !["NotEvaluated"] = Total]
  OBVIOUS
<1>3. z \in CountSpace
  BY <1>1, <1>2 DEF CountSpace, ZeroCounts, CountFields
<1>4. [kind |-> "execution-started", counts |-> z, stop |-> "None"] \in EventSpace
  BY <1>3 DEF EventSpace, Stops
<1>5. [kind |-> "execution-finished", counts |-> counts, stop |-> stop] \in EventSpace
  BY DEF EventSpace, TypeOK
<1>6. /\ <<>> \in Seq(EventSpace)
      /\ <<[kind |-> "execution-started", counts |-> z, stop |-> "None"]>> \in Seq(EventSpace)
      /\ <<[kind |-> "execution-finished", counts |-> counts, stop |-> stop]>> \in Seq(EventSpace)
  BY <1>4, <1>5, SeqTyping
<1>. QED
  BY <1>2, <1>6 DEF Prologue, Epilogue

LEMMA BookNowTyped ==
    ASSUME ResultInv, ResultInv', entries' = entries
    PROVE  BookNow \in Seq(EventSpace) /\ BookNow' \in Seq(EventSpace)
<1>1. TypeOK /\ TypeOK' /\ Untouched /\ Untouched'
  BY DEF ResultInv, ContractContext, SelectionInv
<1>2. PICK t, t2, e, e2 : BooksAre(t, t2, e, e2)
  BY <1>1, BooksExist
<1>3. PICK T, es : T = Total /\ es = entries
  OBVIOUS
<1>4. /\ Shelf(es, T)
      /\ t \in [0 .. T - 1 -> Seq(EventSpace)] /\ t2 \in [0 .. T - 1 -> Seq(EventSpace)]
      /\ e \in [1 .. Len(es) -> Seq(EventSpace)] /\ e2 \in [1 .. Len(es) -> Seq(EventSpace)]
      /\ BookNow = Book(es, t, e) /\ BookNow' = Book(es, t2, e2)
  BY <1>2, <1>3, Zenon DEF BooksAre
<1>5. Book(es, t, e) \in Seq(EventSpace) /\ Book(es, t2, e2) \in Seq(EventSpace)
  BY <1>4, BookTyped
<1>. QED
  BY <1>4, <1>5, Zenon

(* While the walk lasts the story grows as the book does. *)
LEMMA SoFarGrows ==
    ASSUME ResultInv, ResultInv', entries' = entries, NEW ext \in Seq(EventSpace),
           pc \notin {"start", "done"}, pc' \notin {"start", "done"},
           Extends(BookNow', BookNow, ext)
    PROVE  Extends(SoFar', SoFar, ext)
<1>1. PICK o, b, b2 : o = Prologue /\ b = BookNow /\ b2 = BookNow'
  OBVIOUS
<1>2. o \in Seq(EventSpace) /\ b \in Seq(EventSpace) /\ b2 \in Seq(EventSpace)
  BY <1>1, SummariesTyped, BookNowTyped DEF ResultInv, ContractContext
<1>3. Prologue' = o
  BY <1>1 DEF Prologue, Total
<1>4. Epilogue = <<>> /\ Epilogue' = <<>>
  BY DEF Epilogue
<1>5. SoFar = (o \o b) \o <<>> /\ SoFar' = (o \o b2) \o <<>>
  BY <1>1, <1>3, <1>4, Zenon DEF SoFar
<1>6. b2 = b \o ext
  BY <1>1, Zenon DEF Extends
<1>7. PICK x, y : x = o \o b /\ y = o \o b2
  OBVIOUS
<1>8. x \in Seq(EventSpace) /\ y \in Seq(EventSpace)
  BY <1>2, <1>7, SeqTyping
<1>9. x \o <<>> = x /\ y \o <<>> = y
  BY <1>8, ConcatLaws
<1>10. Regrouped(o, b, ext)
  BY <1>2, Associates
<1>11. y = x \o ext
  BY <1>6, <1>7, <1>10, Zenon DEF Regrouped
<1>. QED
  BY <1>5, <1>7, <1>9, <1>11, Zenon DEF Extends

(* A step tells what it emits. *)
Tells == \E ext \in Seq(EventSpace) : Extends(SoFar', SoFar, ext) /\ Emit(ext)

LEMMA TellsNothing ==
    ASSUME ResultInv, ResultInv', entries' = entries, Quiet, UNCHANGED observation,
           pc \notin {"start", "done"}, pc' \notin {"start", "done"},
           BookNow' = BookNow
    PROVE  Tells
<1>1. <<>> \in Seq(EventSpace)
  BY SeqTyping
<1>2. PICK b : b = BookNow
  OBVIOUS
<1>3. b \o <<>> = b
  BY <1>2, BookNowTyped, ConcatLaws
<1>4. Extends(BookNow', BookNow, <<>>)
  BY <1>2, <1>3, Zenon DEF Extends
<1>5. Extends(SoFar', SoFar, <<>>)
  BY <1>1, <1>4, SoFarGrows
<1>6. Emit(<<>>)
  BY DEF Emit, Quiet, observation
<1>. QED
  BY <1>1, <1>5, <1>6 DEF Tells

LEMMA SilentTells ==
    ASSUME ResultInv, ResultInv', [Next]_vars,
           \/ PassInitialCheck \/ Interrupt \/ EnterRules \/ EnterGroup \/ NextRule
           \/ BeginCondition \/ AfterPanic \/ AfterCondition \/ AfterAction \/ Exhaust
           \/ Complete
    PROVE  Tells
<1>1. entries' = entries
  BY SetupKept
<1>2. /\ Quiet /\ UNCHANGED observation /\ cond' = cond /\ act' = act
      /\ pc \notin {"start", "done"} /\ pc' \notin {"start", "done"}
  BY DEF PassInitialCheck, Interrupt, EnterRules, EnterGroup, NextRule, BeginCondition,
         AfterPanic, AfterCondition, Decide, AfterAction, Exhaust, Complete, At, history
<1>3. ASSUME NEW k \in 1 .. Len(entries) PROVE Finished(k)' = Finished(k)
  <2> USE DEF ResultInv, ContractContext
  <2>1. /\ k \in Nat /\ groups[k] \in GroupSpace /\ groups \in [1 .. Len(entries) -> GroupSpace]
        /\ Placed(k) /\ Recorded(k)
    <3>1. TypeOK /\ GroupsInv
      OBVIOUS
    <3>2. groups \in [1 .. Len(entries) -> GroupSpace]
      BY <3>1, Zenon DEF TypeOK
    <3>3. k \in Nat /\ groups[k] \in GroupSpace
      BY <3>2
    <3>4. Placed(k) /\ Recorded(k)
      BY <3>1, Zenon DEF GroupsInv
    <3>. QED
      BY <3>2, <3>3, <3>4
  <2>2. CASE PassInitialCheck \/ Interrupt \/ EnterRules \/ NextRule \/ BeginCondition
             \/ AfterPanic \/ AfterCondition \/ Complete
    <3>1. groups' = groups
      BY <2>2 DEF PassInitialCheck, Interrupt, EnterRules, NextRule, BeginCondition,
                  AfterPanic, AfterCondition, Decide, Complete, ledger
    <3>. QED
      BY <3>1, FinishedKept
  <2>3. CASE EnterGroup
    <3>1. /\ pc = "entry" /\ InGroup
          /\ groups' = [groups EXCEPT ![entry] =
                [NoGroup EXCEPT !.state = "Interrupted", !.skippedFrom = Here.end]]
      BY <2>3 DEF EnterGroup, At
    <3>2. CASE k = entry
      <4>1. k \in GroupEntries
        BY <3>1, <3>2 DEF GroupEntries, InGroup, Here, GroupKinds
      <4>2. groups[k] = NoGroup
        BY <2>1, <3>1, <3>2, <4>1 DEF Placed
      <4>3. groups[k].endReason = "None" /\ groups'[k].endReason = "None"
        BY <2>1, <3>1, <3>2, <4>2 DEF NoGroup
      <4>. QED
        BY <4>3, FinishedKept
    <3>3. CASE k # entry
      <4>1. groups'[k] = groups[k]
        BY <2>1, <3>1, <3>3
      <4>. QED
        BY <4>1, FinishedKept
    <3>. QED
      BY <3>2, <3>3
  <2>4. CASE AfterAction \/ Exhaust
    <3>1. /\ pc \in AtRule
          /\ \/ groups' = groups
             \/ groups' = [groups EXCEPT ![entry].skippedFrom = order + 1]
             \/ groups' = [groups EXCEPT ![entry].state = "Exhausted"]
      BY <2>4 DEF AfterAction, Exhaust, At, AtRule, Visiting
    <3>2. CASE k = entry
      <4>1. groups[k].endReason = "None"
        BY <2>1, <3>1, <3>2, Unfinished
      <4>2. groups'[k].endReason = "None"
        BY <2>1, <3>1, <3>2, <4>1 DEF GroupSpace
      <4>. QED
        BY <4>1, <4>2, FinishedKept
    <3>3. CASE k # entry
      <4>1. groups'[k] = groups[k]
        BY <2>1, <3>1, <3>3
      <4>. QED
        BY <4>1, FinishedKept
    <3>. QED
      BY <3>2, <3>3
  <2>. QED
    BY <2>2, <2>3, <2>4
<1>4. BookNow' = BookNow
  BY <1>1, <1>2, <1>3, BookKept
<1>. QED
  BY <1>1, <1>2, <1>4, TellsNothing

(* The event of a selection shows the group as the story has it. *)
LEMMA ResolvedTells ==
    ASSUME ResultInv, pc \in {"inCondition", "action"}, NEW kind \in GroupKinds
    PROVE  /\ ResolvedLine(entries[entry], entry, order, kind) =
                IF Here.kind = kind
                THEN <<GroupEvent("group-resolved", Resolved(groups[entry]))>> ELSE <<>>
           /\ groups[entry].endReason = "None"
           /\ Resolved(groups[entry]).endReason = "None"
<1>1. pc \in Visiting /\ pc \in AtRule
  BY DEF Visiting, AtRule
<1>2. entry \in 1 .. Len(entries) /\ entry \in Nat
  BY <1>1, EntryAtCursor DEF ResultInv, ContractContext, TypeOK
<1>3. groups[entry].endReason = "None"
  BY <1>1, <1>2, Unfinished
<1>4. PICK g : g = groups[entry]
  OBVIOUS
<1>5. g \in GroupSpace
  BY <1>2, <1>4 DEF ResultInv, ContractContext, TypeOK
<1>6. Resolved(g).endReason = "None"
  BY <1>3, <1>4, <1>5 DEF Resolved, GroupSpace
<1>7. CASE Here.kind = kind
  <2>1. entry \in GroupEntries
    BY <1>2, <1>7 DEF GroupEntries, Here, GroupKinds
  <2>2. g.skippedFrom = Here.end
    BY <1>1, <1>2, <1>4, <2>1 DEF ResultInv, GroupsInv, Placed, Walking, Here
  <2>3. g.stop = "None"
    BY <1>2, <1>3, <1>4 DEF ResultInv, GroupsInv, Recorded
  <2>4. Resolved(g) = [state |-> "Resolved", endReason |-> "None", stop |-> "None",
                       selected |-> order, skippedFrom |-> Here.end]
    <3>1. PICK v : v = Resolved(g)
      OBVIOUS
    <3>2. v \in GroupSpace
      BY <1>5, <3>1, GroupValues DEF ResultInv, ContractContext
    <3>3. /\ v.state = "Resolved" /\ v.endReason = g.endReason /\ v.stop = g.stop
          /\ v.selected = order /\ v.skippedFrom = g.skippedFrom
      BY <1>5, <3>1 DEF Resolved, GroupSpace
    <3>4. v = [state |-> v.state, endReason |-> v.endReason, stop |-> v.stop,
               selected |-> v.selected, skippedFrom |-> v.skippedFrom]
      BY <3>2 DEF GroupSpace
    <3>. QED
      BY <1>3, <1>4, <2>2, <2>3, <3>1, <3>3, <3>4
  <2>. QED
    BY <1>3, <1>4, <1>6, <1>7, <2>4 DEF ResolvedLine, GroupEvent, Here
<1>8. CASE Here.kind # kind
  BY <1>3, <1>4, <1>6, <1>8 DEF ResolvedLine, Here
<1>. QED
  BY <1>7, <1>8

LEMMA CallFrame ==
    ASSUME ResultInv, [Next]_vars, pc \in {"inCondition", "action"},
           groups' = groups \/ groups' = [groups EXCEPT ![entry] = Resolved(groups[entry])]
    PROVE  \A k \in 1 .. Len(entries) : Finished(k)' = Finished(k)
<1> SUFFICES ASSUME NEW k \in 1 .. Len(entries) PROVE Finished(k)' = Finished(k)
  OBVIOUS
<1>1. groups \in [1 .. Len(entries) -> GroupSpace]
  BY DEF ResultInv, ContractContext, TypeOK
<1>2. groups[entry].endReason = "None" /\ Resolved(groups[entry]).endReason = "None"
  BY ResolvedTells DEF GroupKinds
<1>3. CASE k # entry
  <2>1. groups'[k] = groups[k]
    BY <1>1, <1>3
  <2>. QED
    BY <2>1, FinishedKept
<1>4. CASE k = entry
  <2>1. groups'[k].endReason = "None"
    BY <1>1, <1>2, <1>4
  <2>. QED
    BY <1>2, <1>4, <2>1, FinishedKept
<1>. QED
  BY <1>3, <1>4

LEMMA CallEmits ==
    ASSUME ResultInv, ResultInv', [Next]_vars, pc \in {"inCondition", "action"},
           pc' \notin {"start", "done"},
           groups' = groups \/ groups' = [groups EXCEPT ![entry] = Resolved(groups[entry])],
           \A p \in Rules : p # order => cond'[p] = cond[p] /\ act'[p] = act[p],
           NEW ext, Emit(ext),
           Lengthens(entries[entry], entry, order, cond[order], act[order],
                cond'[order], act'[order], ext)
    PROVE  Tells
<1>1. entries' = entries
  BY SetupKept
<1>2. \A k \in 1 .. Len(entries) : Finished(k)' = Finished(k)
  BY CallFrame
<1>3. ext \in Seq(EventSpace) /\ Extends(BookNow', BookNow, ext)
  BY <1>1, <1>2, CallTells
<1>4. Extends(SoFar', SoFar, ext)
  BY <1>1, <1>3, SoFarGrows
<1>. QED
  BY <1>3, <1>4 DEF Tells

LEMMA ConditionTells ==
    ASSUME ResultInv, ResultInv', [Next]_vars,
           ConditionFalse \/ ConditionTrue \/ ConditionError \/ ConditionPanic
    PROVE  Tells
<1>1. PICK outcome \in {"false", "true", "error", "panic"} : ConditionReturns(outcome)
  BY DEF ConditionFalse, ConditionTrue, ConditionError, ConditionPanic
<1>2. /\ pc = "inCondition" /\ act' = act /\ order \in Rules
      /\ cond' = [cond EXCEPT ![order] = outcome]
  BY <1>1, EntryAtCursor DEF ConditionReturns, At, Visiting
<1>3. /\ cond[order] = "uncalled" /\ act[order] = "uncalled"
      /\ cond'[order] = outcome /\ act'[order] = "uncalled"
      /\ \A p \in Rules : p # order => cond'[p] = cond[p] /\ act'[p] = act[p]
  BY <1>2 DEF ResultInv, ContractContext, SelectionInv, Untouched, TypeOK
<1>4. entry \in Nat /\ order \in Nat /\ entries[entry].end \in Nat
  <2>1. entry \in 1 .. Len(entries)
    BY <1>2, EntryAtCursor DEF Visiting
  <2>. QED
    BY <2>1, RecordFacts DEF ResultInv, ContractContext, TypeOK
<1>5. PICK en, n, o : en = entries[entry] /\ n = entry /\ o = order
  OBVIOUS
<1>6. ASSUME NEW ext, Emit(ext), Lengthens(en, n, o, "uncalled", "uncalled", outcome, "uncalled", ext),
             groups' = groups \/ groups' = [groups EXCEPT ![entry] = Resolved(groups[entry])],
             pc' \notin {"start", "done"}
      PROVE  Tells
  <2>1. Lengthens(entries[entry], entry, order, cond[order], act[order], cond'[order], act'[order], ext)
    BY <1>3, <1>5, <1>6, Zenon
  <2>. QED
    BY <1>2, <1>3, <1>6, <2>1, CallEmits
<1>7. en.end \in Nat /\ n \in Nat /\ o \in Nat
  BY <1>4, <1>5
<1>8. CASE ConditionFalse
  <2>1. PICK ext : ext = <<RuleEvent("evaluated", "false")>>
    OBVIOUS
  <2>2. Emit(ext) /\ groups' = groups /\ pc' = "conditionDone"
    BY <1>8, <2>1, Zenon DEF ConditionFalse
  <2>3. outcome = "false"
    BY <1>2, <1>3, <1>8 DEF ConditionFalse, ConditionReturns, ResultInv, ContractContext, TypeOK
  <2>4. ext = <<Line("evaluated", o, "false")>>
    BY <1>5, <2>1, Zenon DEF RuleEvent, Line
  <2>5. Lengthens(en, n, o, "uncalled", "uncalled", outcome, "uncalled", ext)
    BY <1>7, <2>3, <2>4, TellingGrows
  <2>. QED
    BY <1>6, <2>2, <2>5
<1>9. CASE ConditionError \/ ConditionPanic
  <2>1. PICK ext : ext = <<RuleEvent("evaluated", "error"), RuleEvent("failed", "error")>>
    OBVIOUS
  <2>2. Emit(ext) /\ groups' = groups /\ pc' \in {"conditionDone", "panicked"}
    BY <1>9, <2>1, Zenon DEF ConditionError, ConditionPanic
  <2>3. outcome \in {"error", "panic"}
    BY <1>2, <1>3, <1>9
       DEF ConditionError, ConditionPanic, ConditionReturns, ResultInv, ContractContext, TypeOK
  <2>4. ext = <<Line("evaluated", o, "error"), Line("failed", o, "error")>>
    BY <1>5, <2>1, Zenon DEF RuleEvent, Line
  <2>5. Lengthens(en, n, o, "uncalled", "uncalled", outcome, "uncalled", ext)
    BY <1>7, <2>3, <2>4, TellingGrows
  <2>. QED
    BY <1>6, <2>2, <2>5
<1>10. CASE ConditionTrue
  <2>1. PICK ext : ext = <<RuleEvent("evaluated", "true"), RuleEvent("matched", "true")>>
                         \o IF Here.kind = "first-match"
                            THEN <<GroupEvent("group-resolved", Resolved(groups[entry]))>>
                            ELSE <<>>
    OBVIOUS
  <2>2. /\ Emit(ext) /\ pc' = "conditionDone"
        /\ groups' = groups \/ groups' = [groups EXCEPT ![entry] = Resolved(groups[entry])]
    BY <1>10, <2>1, Zenon DEF ConditionTrue
  <2>3. outcome = "true"
    BY <1>2, <1>3, <1>10 DEF ConditionTrue, ConditionReturns, ResultInv, ContractContext, TypeOK
  <2>4. ResolvedLine(en, n, o, "first-match") =
           IF Here.kind = "first-match"
           THEN <<GroupEvent("group-resolved", Resolved(groups[entry]))>> ELSE <<>>
    BY <1>2, <1>5, ResolvedTells DEF GroupKinds
  <2>5. ext = <<Line("evaluated", o, "true"), Line("matched", o, "true")>>
              \o ResolvedLine(en, n, o, "first-match")
    BY <1>5, <2>1, <2>4, Zenon DEF RuleEvent, Line
  <2>6. Lengthens(en, n, o, "uncalled", "uncalled", outcome, "uncalled", ext)
    BY <1>7, <2>3, <2>5, TellingGrows
  <2>. QED
    BY <1>6, <2>2, <2>6
<1>. QED
  BY <1>8, <1>9, <1>10

LEMMA ActionTells ==
    ASSUME ResultInv, ResultInv', [Next]_vars, ActionOk \/ ActionError \/ ActionPanic
    PROVE  Tells
<1>1. PICK outcome \in {"ok", "error", "panic"} : ActionReturns(outcome)
  BY DEF ActionOk, ActionError, ActionPanic
<1>2. /\ pc = "action" /\ cond' = cond /\ order \in Rules
      /\ act' = [act EXCEPT ![order] = outcome]
  BY <1>1, EntryAtCursor DEF ActionReturns, At, Visiting
<1>3. /\ cond[order] = "true" /\ act[order] = "uncalled"
      /\ cond'[order] = "true" /\ act'[order] = outcome
      /\ \A p \in Rules : p # order => cond'[p] = cond[p] /\ act'[p] = act[p]
  BY <1>2 DEF ResultInv, ContractContext, SelectionInv, Untouched, TypeOK
<1>4. entry \in Nat /\ order \in Nat /\ entries[entry].end \in Nat
  <2>1. entry \in 1 .. Len(entries)
    BY <1>2, EntryAtCursor DEF Visiting
  <2>. QED
    BY <2>1, RecordFacts DEF ResultInv, ContractContext, TypeOK
<1>5. PICK en, n, o : en = entries[entry] /\ n = entry /\ o = order
  OBVIOUS
<1>6. ASSUME NEW ext, Emit(ext), Lengthens(en, n, o, "true", "uncalled", "true", outcome, ext),
             groups' = groups \/ groups' = [groups EXCEPT ![entry] = Resolved(groups[entry])],
             pc' \notin {"start", "done"}
      PROVE  Tells
  <2>1. Lengthens(entries[entry], entry, order, cond[order], act[order], cond'[order], act'[order], ext)
    BY <1>3, <1>5, <1>6, Zenon
  <2>. QED
    BY <1>2, <1>3, <1>6, <2>1, CallEmits
<1>7. en.end \in Nat /\ n \in Nat /\ o \in Nat
  BY <1>4, <1>5
<1>8. CASE ActionOk
  <2>1. PICK ext : ext = <<RuleEvent("fired", "not-evaluated")>>
                         \o IF Here.kind = "first-fire"
                            THEN <<GroupEvent("group-resolved", Resolved(groups[entry]))>>
                            ELSE <<>>
    OBVIOUS
  <2>2. /\ Emit(ext) /\ pc' = "actionDone"
        /\ groups' = groups \/ groups' = [groups EXCEPT ![entry] = Resolved(groups[entry])]
    BY <1>8, <2>1, Zenon DEF ActionOk
  <2>3. outcome = "ok"
    BY <1>2, <1>3, <1>8 DEF ActionOk, ActionReturns, ResultInv, ContractContext, TypeOK
  <2>4. ResolvedLine(en, n, o, "first-fire") =
           IF Here.kind = "first-fire"
           THEN <<GroupEvent("group-resolved", Resolved(groups[entry]))>> ELSE <<>>
    BY <1>2, <1>5, ResolvedTells DEF GroupKinds
  <2>5. ext = <<Line("fired", o, "not-evaluated")>> \o ResolvedLine(en, n, o, "first-fire")
    BY <1>5, <2>1, <2>4, Zenon DEF RuleEvent, Line
  <2>6. Lengthens(en, n, o, "true", "uncalled", "true", outcome, ext)
    BY <1>7, <2>3, <2>5, TellingGrows
  <2>. QED
    BY <1>6, <2>2, <2>6
<1>9. CASE ActionError \/ ActionPanic
  <2>1. PICK ext : ext = <<RuleEvent("failed", "not-evaluated")>>
    OBVIOUS
  <2>2. Emit(ext) /\ groups' = groups /\ pc' \in {"actionDone", "panicked"}
    BY <1>9, <2>1, Zenon DEF ActionError, ActionPanic
  <2>3. outcome \in {"error", "panic"}
    BY <1>2, <1>3, <1>9
       DEF ActionError, ActionPanic, ActionReturns, ResultInv, ContractContext, TypeOK
  <2>4. ext = <<Line("failed", o, "not-evaluated")>>
    BY <1>5, <2>1, Zenon DEF RuleEvent, Line
  <2>5. Lengthens(en, n, o, "true", "uncalled", "true", outcome, ext)
    BY <1>7, <2>3, <2>4, TellingGrows
  <2>. QED
    BY <1>6, <2>2, <2>5
<1>. QED
  BY <1>8, <1>9

LEMMA EndIsTold ==
    ASSUME ResultInv, ResultInv', [Next]_vars, Leave
    PROVE  Tells
<1>1. /\ entries' = entries /\ Quiet /\ cond' = cond /\ act' = act
      /\ pc \in {"advance", "stop"} /\ pc' \notin {"start", "done"}
      /\ entry \in 1 .. Len(entries)
  BY SetupKept DEF Leave, history, ResultInv, ContractContext, Position
<1>2. /\ groups \in [1 .. Len(entries) -> GroupSpace]
      /\ \A k \in 1 .. Len(entries) :
            k >= entry => groups[k].endReason = "None" /\ Finished(k) = <<>>
  BY <1>1, Unfinished DEF ResultInv, ContractContext, TypeOK
<1>3. CASE ~(InGroup /\ groups[entry].state # "NotEntered")
  <2>1. groups' = groups /\ UNCHANGED observation
    BY <1>3, Zenon DEF Leave
  <2>2. BookNow' = BookNow
    BY <1>1, <2>1, FinishedKept, BookKept
  <2>. QED
    BY <1>1, <2>1, <2>2, TellsNothing
<1>4. CASE InGroup /\ groups[entry].state # "NotEntered"
  <2>1. PICK g, n : g = Ended(groups[entry]) /\ n = entry
    OBVIOUS
  <2>2. /\ groups' = [groups EXCEPT ![entry] = g]
        /\ Emit(<<GroupEvent("group-finished", g)>>)
    BY <1>4, <2>1 DEF Leave
  <2>3. g.endReason # "None" /\ g \in GroupSpace
    <3>1. groups[entry] \in GroupSpace
      BY <1>1, <1>2
    <3>2. g \in GroupSpace
      BY <2>1, <3>1, GroupValues DEF ResultInv, ContractContext
    <3>3. g.endReason # "None"
      BY <2>1, <3>1 DEF Ended, GroupSpace
    <3>. QED
      BY <3>2, <3>3
  <2>4. PICK ext : ext = <<[kind |-> "group-finished", entry |-> n, view |-> g]>>
    OBVIOUS
  <2>5. ext = <<GroupEvent("group-finished", g)>>
    BY <2>1, <2>4, Zenon DEF GroupEvent
  <2>6. ASSUME NEW k \in 1 .. Len(entries)
        PROVE  Finished(k)' = IF k = entry THEN ext ELSE Finished(k)
    <3>1. CASE k = entry
      <4>1. groups'[k] = g
        BY <1>2, <2>2, <3>1
      <4>2. Finished(k)' = <<[kind |-> "group-finished", entry |-> k, view |-> g]>>
        BY <2>3, <4>1 DEF Finished
      <4>. QED
        BY <2>1, <2>4, <3>1, <4>2
    <3>2. CASE k # entry
      <4>1. groups'[k] = groups[k]
        BY <1>2, <2>2, <3>2
      <4>. QED
        BY <3>2, <4>1, FinishedKept
    <3>. QED
      BY <3>1, <3>2
  <2>7. ext \in Seq(EventSpace)
    <3>1. n \in Nat
      BY <2>1 DEF ResultInv, ContractContext, TypeOK
    <3>2. [kind |-> "group-finished", entry |-> n, view |-> g] \in EventSpace
      BY <2>3, <3>1 DEF EventSpace
    <3>. QED
      BY <2>4, <3>2, SeqTyping
  <2>8. Extends(BookNow', BookNow, ext)
    BY <1>1, <2>6, <2>7, LeaveTells
  <2>9. Extends(SoFar', SoFar, ext)
    BY <1>1, <2>7, <2>8, SoFarGrows
  <2>. QED
    BY <2>2, <2>5, <2>7, <2>9 DEF Tells
<1>. QED
  BY <1>3, <1>4

(* Before the first callback the book is blank. *)
LEMMA BlankBook ==
    ASSUME ResultInv, ResultInv', entries' = entries, pc = "start"
    PROVE  BookNow = <<>>
<1>1. TypeOK /\ TypeOK' /\ Untouched /\ Untouched'
  BY DEF ResultInv, ContractContext, SelectionInv
<1>2. PICK t, t2, e, e2 : BooksAre(t, t2, e, e2)
  BY <1>1, BooksExist
<1>3. PICK T, es : T = Total /\ es = entries
  OBVIOUS
<1>4. /\ Shelf(es, T) /\ t \in [0 .. T - 1 -> Seq(EventSpace)]
      /\ e \in [1 .. Len(es) -> Seq(EventSpace)]
      /\ BookNow = Book(es, t, e) /\ Rules = 0 .. T - 1
  BY <1>2, <1>3, Zenon DEF BooksAre, Rules
<1>5. BlankFrom(T, t, 0)
  <2>1. evaluatedThrough = 0
    BY DEF ResultInv, ContractContext, Position
  <2>2. \A o \in Rules : o >= evaluatedThrough
    BY <1>4, <2>1 DEF Shelf
  <2>3. \A o \in Rules : cond[o] = "uncalled"
    BY <1>1, <2>2 DEF Untouched
  <2>4. \A o \in Rules : t[o] = <<>>
    BY <1>2, <2>3, Zenon DEF BooksAre
  <2>. QED
    BY <1>4, <2>4 DEF BlankFrom
<1>6. \A k \in 1 .. Len(es) : e[k] = <<>>
  <2>1. \A k \in 1 .. Len(entries) : groups[k] = NoGroup
    BY DEF ResultInv, GroupsInv, Placed
  <2>2. \A k \in 1 .. Len(entries) : Finished(k) = <<>>
    BY <2>1 DEF Finished, NoGroup
  <2>. QED
    BY <1>2, <1>3, <2>2, Zenon DEF BooksAre
<1>7. Book(es, t, e) = <<>>
  BY <1>4, <1>5, <1>6, BookBlank
<1>. QED
  BY <1>4, <1>7, Zenon

LEMMA StartIsTold ==
    ASSUME ResultInv, ResultInv', [Next]_vars, Start, counts = ZeroCounts
    PROVE  Tells
<1>1. /\ entries' = entries /\ pc = "start" /\ pc' = "initial" /\ cond' = cond /\ act' = act
      /\ groups' = groups
      /\ Emit(<<SummaryEvent("execution-started",
                             [counts EXCEPT !["NotEvaluated"] = Total], stop)>>)
  BY SetupKept DEF Start, At, history, ledger
<1>2. stop = "None"
  BY <1>1 DEF ResultInv, GroupsInv, Stopped
<1>3. BookNow = <<>> /\ BookNow' = <<>>
  <2>1. BookNow' = BookNow
    BY <1>1, FinishedKept, BookKept
  <2>. QED
    BY <1>1, <2>1, BlankBook
<1>4. PICK ext : ext = <<SummaryEvent("execution-started",
                            [counts EXCEPT !["NotEvaluated"] = Total], stop)>>
  OBVIOUS
<1>5. Prologue' = ext /\ Prologue = <<>> /\ Epilogue = <<>> /\ Epilogue' = <<>>
  BY <1>1, <1>2, <1>4 DEF Prologue, Epilogue, SummaryEvent, Total
<1>6. ext \in Seq(EventSpace)
  <2>1. TypeOK' => Prologue' \in Seq(EventSpace)
    <3>1. PICK z : z = [counts EXCEPT !["NotEvaluated"] = Total]
      OBVIOUS
    <3>2. Total \in Nat /\ counts \in CountSpace
      BY MemberFacts DEF ResultInv, ContractContext, TypeOK
    <3>3. z \in CountSpace
      BY <3>1, <3>2 DEF CountSpace
    <3>4. SummaryEvent("execution-started", z, stop) \in EventSpace
      BY <1>2, <3>3 DEF SummaryEvent, EventSpace, Stops
    <3>. QED
      BY <1>4, <1>5, <3>1, <3>4, SeqTyping
  <2>. QED
    BY <1>5, <2>1 DEF ResultInv, ContractContext
<1>7. SoFar = (<<>> \o <<>>) \o <<>> /\ SoFar' = (ext \o <<>>) \o <<>>
  BY <1>3, <1>5, Zenon DEF SoFar
<1>8. /\ <<>> \o <<>> = <<>> /\ ext \o <<>> = ext /\ <<>> \o ext = ext
  BY <1>6, SeqTyping, ConcatLaws
<1>9. Extends(SoFar', SoFar, ext)
  BY <1>7, <1>8, Zenon DEF Extends
<1>. QED
  BY <1>1, <1>4, <1>6, <1>9 DEF Tells

LEMMA FinishTells ==
    ASSUME ResultInv, ResultInv', [Next]_vars, Finish
    PROVE  Tells
<1>1. /\ entries' = entries /\ pc = "finish" /\ pc' = "done" /\ cond' = cond /\ act' = act
      /\ groups' = groups /\ stop' = stop
      /\ Emit(<<SummaryEvent("execution-finished", counts', stop)>>)
  BY SetupKept DEF Finish, At, history
<1>2. BookNow' = BookNow
  BY <1>1, FinishedKept, BookKept
<1>3. PICK ext, o, b : ext = <<SummaryEvent("execution-finished", counts', stop)>>
                       /\ o = Prologue /\ b = BookNow
  OBVIOUS
<1>4. Prologue' = o /\ Epilogue = <<>> /\ Epilogue' = ext
  BY <1>1, <1>3 DEF Prologue, Epilogue, SummaryEvent, Total
<1>5. ext \in Seq(EventSpace)
  <2>1. counts' \in CountSpace
    BY Zenon DEF ResultInv, ContractContext, TypeOK
  <2>2. stop \in Stops
    BY DEF ResultInv, ContractContext, TypeOK
  <2>3. SummaryEvent("execution-finished", counts', stop) \in EventSpace
    BY <2>1, <2>2 DEF SummaryEvent, EventSpace
  <2>. QED
    BY <1>3, <2>3, SeqTyping
<1>6. o \in Seq(EventSpace) /\ b \in Seq(EventSpace)
  BY <1>1, <1>3, SummariesTyped, BookNowTyped DEF ResultInv, ContractContext
<1>7. SoFar = (o \o b) \o <<>> /\ SoFar' = (o \o b) \o ext
  BY <1>2, <1>3, <1>4, Zenon DEF SoFar
<1>8. PICK x : x = o \o b
  OBVIOUS
<1>9. x \in Seq(EventSpace)
  BY <1>6, <1>8, SeqTyping
<1>10. x \o <<>> = x
  BY <1>9, ConcatLaws
<1>11. Extends(SoFar', SoFar, ext)
  BY <1>7, <1>8, <1>10, Zenon DEF Extends
<1>. QED
  BY <1>1, <1>3, <1>5, <1>11 DEF Tells

(* Every step of the engine that returns tells what it emits. *)
LEMMA WorkIsTold ==
    ASSUME ResultInv, ResultInv', HeardInv, [Next]_vars, Work, pc' # "unwound"
    PROVE  Tells
<1>1. CASE Start
  <2>1. counts = ZeroCounts
    BY <1>1 DEF HeardInv, Start, At
  <2>. QED
    BY <1>1, <2>1, StartIsTold
<1>2. CASE PassInitialCheck \/ Interrupt \/ EnterRules \/ EnterGroup \/ NextRule
           \/ BeginCondition \/ AfterPanic \/ AfterCondition \/ AfterAction \/ Exhaust
           \/ Complete
  BY <1>2, SilentTells
<1>3. CASE ConditionFalse \/ ConditionTrue \/ ConditionError \/ ConditionPanic
  BY <1>3, ConditionTells
<1>4. CASE ActionOk \/ ActionError \/ ActionPanic
  BY <1>4, ActionTells
<1>5. CASE Leave
  BY <1>5, EndIsTold
<1>6. CASE Finish
  BY <1>6, FinishTells
<1>7. CASE ConditionUnwinds \/ ActionUnwinds
  BY <1>7 DEF ConditionUnwinds, ActionUnwinds
<1>. QED
  BY <1>1, <1>2, <1>3, <1>4, <1>5, <1>6, <1>7 DEF Work

(* Before the call starts nothing has been told. *)
LEMMA HeardInit ==
    ASSUME Init, ResultInv
    PROVE  HeardInv
<1>1. TypeOK /\ Shelf(entries, Total) /\ Rules = 0 .. Total - 1
  BY ShelfNow DEF ResultInv, ContractContext, Rules
<1>2. pc = "start" /\ counts = ZeroCounts /\ observer = config.observer
      /\ pending = <<>> /\ delivered = <<>> /\ diagnostics = <<>>
  BY DEF Init
<1>3. PICK T, es, t, e : T = Total /\ es = entries /\ t = ToldOf /\ e = EndsOf
  OBVIOUS
<1>4. ASSUME NEW o \in Rules PROVE RuleStory(o) = <<>>
  BY Zenon DEF RuleStory, Init
<1>5. t = [o \in 0 .. T - 1 |-> <<>>]
  BY <1>1, <1>3, <1>4 DEF ToldOf
<1>6. ASSUME NEW k \in 1 .. Len(entries) PROVE Finished(k) = <<>>
  BY DEF Finished, Init, NoGroup
<1>7. e = [k \in 1 .. Len(es) |-> <<>>]
  BY <1>3, <1>6 DEF EndsOf
<1>8. <<>> \in Seq(EventSpace)
  BY SeqTyping
<1>9. /\ t \in [0 .. T - 1 -> Seq(EventSpace)] /\ e \in [1 .. Len(es) -> Seq(EventSpace)]
      /\ \A k \in 1 .. Len(es) : e[k] = <<>>
      /\ BlankFrom(T, t, 0)
  BY <1>5, <1>7, <1>8 DEF BlankFrom
<1>10. Shelf(es, T) /\ BookNow = Book(es, t, e)
  BY <1>1, <1>3 DEF BookNow
<1>11. BookNow = <<>>
  BY <1>9, <1>10, BookBlank
<1>12. Prologue = <<>> /\ Epilogue = <<>>
  BY <1>2 DEF Prologue, Epilogue
<1>13. <<>> \o <<>> = <<>>
  BY <1>8, ConcatLaws
<1>14. SoFar = <<>>
  BY <1>11, <1>12, <1>13, Zenon DEF SoFar
<1>15. Heard
  <2>1. delivered \o pending = SoFar
    BY <1>2, <1>13, <1>14, Zenon
  <2>2. observer \in BOOLEAN
    BY <1>1 DEF TypeOK
  <2>. QED
    BY <1>2, <2>1, <2>2 DEF Heard
<1>. QED
  BY <1>2, <1>15 DEF HeardInv

(* The story depends on what the engine has recorded and nothing else. *)
LEMMA SoFarKept ==
    ASSUME entries' = entries, pc' = pc, counts' = counts, stop' = stop, groups' = groups,
           cond' = cond, act' = act
    PROVE  SoFar' = SoFar
<1>1. BookNow' = BookNow
  BY FinishedKept, BookKept
<1>2. Prologue' = Prologue /\ Epilogue' = Epilogue
  BY DEF Prologue, Epilogue, Total
<1>. QED
  BY <1>1, <1>2, Zenon DEF SoFar

LEMMA SoFarTyped ==
    ASSUME ResultInv, ResultInv', entries' = entries
    PROVE  SoFar \in Seq(EventSpace)
<1>1. PICK o, b, c : o = Prologue /\ b = BookNow /\ c = Epilogue
  OBVIOUS
<1>2. o \in Seq(EventSpace) /\ b \in Seq(EventSpace) /\ c \in Seq(EventSpace)
  BY <1>1, SummariesTyped, BookNowTyped DEF ResultInv, ContractContext
<1>3. (o \o b) \o c \in Seq(EventSpace)
  BY <1>2, SeqTyping
<1>. QED
  BY <1>1, <1>3, Zenon DEF SoFar

(* Handing over the first of what is pending. *)
LEMMA Handing ==
    ASSUME NEW S, NEW d \in Seq(S), NEW p \in Seq(S), p # <<>>
    PROVE  /\ Append(d, Head(p)) \o Tail(p) = d \o p
           /\ IsPrefix(Append(d, Head(p)), d \o p)
           /\ Append(d, Head(p)) # <<>> /\ Last(Append(d, Head(p))) = Head(p)
<1>1. PICK x, y : x = Head(p) /\ y = Tail(p)
  OBVIOUS
<1>2. x \in S /\ y \in Seq(S) /\ Len(p) = Len(y) + 1 /\ Len(d) \in Nat /\ Len(y) \in Nat
      /\ p[1] = x /\ \A i \in 1 .. Len(y) : p[i + 1] = y[i]
  <2>1. Len(p) \in Nat /\ Len(p) > 0 /\ Len(d) \in Nat
    OBVIOUS
  <2>2. x = p[1] /\ x \in S /\ y \in Seq(S) /\ Len(y) = Len(p) - 1
    BY <1>1, <2>1
  <2>3. \A i \in 1 .. Len(y) : p[i + 1] = y[i]
    BY <1>1, <2>1, <2>2
  <2>4. Len(y) \in Nat /\ Len(p) = Len(y) + 1
    BY <2>1, <2>2
  <2>. QED
    BY <2>1, <2>2, <2>3, <2>4, Zenon
<1>3. PICK a : a = Append(d, x)
  OBVIOUS
<1>4. a \in Seq(S) /\ Len(a) = Len(d) + 1 /\ a[Len(d) + 1] = x
      /\ \A i \in 1 .. Len(d) : a[i] = d[i]
  BY <1>2, <1>3
<1>5. PICK l, r : l = a \o y /\ r = d \o p
  OBVIOUS
<1>6. /\ l \in Seq(S) /\ r \in Seq(S) /\ Len(l) = Len(d) + 1 + Len(y) /\ Len(r) = Len(l)
      /\ \A i \in 1 .. Len(a) : l[i] = a[i]
      /\ \A i \in 1 .. Len(y) : l[Len(a) + i] = y[i]
      /\ \A i \in 1 .. Len(d) : r[i] = d[i]
      /\ \A i \in 1 .. Len(p) : r[Len(d) + i] = p[i]
  <2>1. l \in Seq(S) /\ Len(l) = Len(a) + Len(y)
    <3>1. a \in Seq(S) /\ y \in Seq(S)
      BY <1>2, <1>4
    <3>. QED
      BY <1>5, <3>1
  <2>2. r \in Seq(S) /\ Len(r) = Len(d) + Len(p)
    BY <1>5
  <2>3. Len(l) = Len(d) + 1 + Len(y) /\ Len(r) = Len(l)
    BY <1>2, <1>4, <2>1, <2>2
  <2>4. /\ \A i \in 1 .. Len(a) : l[i] = a[i]
        /\ \A i \in 1 .. Len(y) : l[Len(a) + i] = y[i]
    BY <1>2, <1>4, <1>5, SMTT(30)
  <2>5. /\ \A i \in 1 .. Len(d) : r[i] = d[i]
        /\ \A i \in 1 .. Len(p) : r[Len(d) + i] = p[i]
    BY <1>5
  <2>. QED
    BY <2>1, <2>2, <2>3, <2>4, <2>5
<1>7. ASSUME NEW i \in 1 .. Len(l) PROVE l[i] = r[i]
  <2>1. CASE i <= Len(d)
    BY <1>2, <1>4, <1>6, <2>1
  <2>2. CASE i = Len(d) + 1
    <3>1. l[i] = x
      <4>1. i \in 1 .. Len(a) /\ a[i] = x
        BY <1>2, <1>4, <2>2
      <4>. QED
        BY <1>6, <4>1
    <3>2. 1 \in 1 .. Len(p)
      BY <1>2
    <3>3. r[Len(d) + 1] = p[1]
      BY <1>6, <3>2
    <3>. QED
      BY <1>2, <2>2, <3>1, <3>3
  <2>3. CASE i > Len(d) + 1
    <3>1. PICK j \in 1 .. Len(y) : i = Len(d) + 1 + j
      <4>1. PICK j : j = i - Len(d) - 1
        OBVIOUS
      <4>2. j \in 1 .. Len(y) /\ i = Len(d) + 1 + j
        BY <1>2, <1>6, <2>3, <4>1
      <4>. QED
        BY <4>2
    <3>2. l[i] = y[j]
      <4>1. l[Len(a) + j] = y[j] /\ Len(a) + j = i
        BY <1>2, <1>4, <1>6, <3>1
      <4>. QED
        BY <4>1
    <3>3. j + 1 \in 1 .. Len(p) /\ i = Len(d) + (j + 1)
      BY <1>2, <3>1
    <3>4. r[i] = p[j + 1]
      BY <1>6, <3>3
    <3>. QED
      BY <1>2, <3>1, <3>2, <3>4
  <2>. QED
    BY <1>2, <1>6, <2>1, <2>2, <2>3
<1>8. l = r
  BY <1>6, <1>7
<1>9. IsPrefix(a, l)
  <2>1. SubSeq(a, 1, Len(a)) = SubSeq(l, 1, Len(a))
    BY <1>2, <1>4, <1>6
  <2>. QED
    BY <1>2, <1>4, <1>6, <2>1 DEF IsPrefix
<1>10. a # <<>> /\ Last(a) = x
  BY <1>2, <1>4 DEF Last
<1>. QED
  BY <1>1, <1>3, <1>5, <1>8, <1>9, <1>10

LEMMA PrefixGrows ==
    ASSUME NEW S, NEW d \in Seq(S), NEW s \in Seq(S), NEW ext \in Seq(S), IsPrefix(d, s)
    PROVE  IsPrefix(d, s \o ext)
<1>1. PICK t : t = s \o ext
  OBVIOUS
<1>2. /\ t \in Seq(S) /\ Len(d) \in Nat /\ Len(s) \in Nat /\ Len(t) = Len(s) + Len(ext)
      /\ Len(ext) \in Nat /\ \A i \in 1 .. Len(s) : t[i] = s[i]
  BY <1>1
<1>3. Len(d) <= Len(s) /\ SubSeq(d, 1, Len(d)) = SubSeq(s, 1, Len(d))
  BY <1>2 DEF IsPrefix
<1>4. SubSeq(s, 1, Len(d)) = SubSeq(t, 1, Len(d))
  BY <1>2, <1>3
<1>. QED
  BY <1>1, <1>2, <1>3, <1>4 DEF IsPrefix

(* What a step tells is what remains to be heard. *)
LEMMA TellingIsHeard ==
    ASSUME ResultInv, ResultInv', entries' = entries, config' = config, Heard, Quiet, Tells
    PROVE  Heard'
<1>1. PICK ext \in Seq(EventSpace) : Extends(SoFar', SoFar, ext) /\ Emit(ext)
  BY DEF Tells
<1>2. PICK s, s2, d : s = SoFar /\ s2 = SoFar' /\ d = delivered
  OBVIOUS
<1>3. s \in Seq(EventSpace) /\ d \in Seq(EventSpace) /\ s2 = s \o ext /\ observer \in BOOLEAN
  <2>1. s \in Seq(EventSpace)
    BY <1>2, SoFarTyped
  <2>2. d \in Seq(EventSpace) /\ observer \in BOOLEAN
    BY <1>2 DEF ResultInv, ContractContext, TypeOK
  <2>3. s2 = s \o ext
    BY <1>1, <1>2, Zenon DEF Extends
  <2>. QED
    BY <2>1, <2>2, <2>3
<1>4. /\ pending = <<>> /\ pending' = (IF observer THEN ext ELSE <<>>)
      /\ observer' = observer /\ diagnostics' = diagnostics /\ delivered' = d
  BY <1>1, <1>2 DEF Emit, Quiet
<1>5. CASE observer
  <2>1. d \o <<>> = s /\ diagnostics = <<>>
    BY <1>2, <1>4, <1>5, Zenon DEF Heard
  <2>2. d \o <<>> = d
    BY <1>3, ConcatLaws
  <2>3. delivered' \o pending' = s2
    BY <1>3, <1>4, <1>5, <2>1, <2>2, Zenon
  <2>. QED
    BY <1>2, <1>4, <1>5, <2>1, <2>3, Zenon DEF Heard
<1>6. CASE ~observer /\ config.observer
  <2>1. /\ Len(diagnostics) = 1 /\ IsPrefix(d, s) /\ d # <<>>
        /\ Last(d) = diagnostics[1].event
    BY <1>2, <1>6, Zenon DEF Heard
  <2>2. IsPrefix(d, s2)
    BY <1>3, <2>1, PrefixGrows
  <2>. QED
    BY <1>2, <1>4, <1>6, <2>1, <2>2, Zenon DEF Heard
<1>7. CASE ~observer /\ ~config.observer
  BY <1>2, <1>4, <1>7, Zenon DEF Heard
<1>. QED
  BY <1>5, <1>6, <1>7

(* The observer's steps, which take from what is pending. *)
LEMMA ObservedIsHeard ==
    ASSUME ResultInv, ResultInv', entries' = entries, config' = config, HeardInv, Heard,
           Deliver \/ \E cause \in {"error", "panic"} : ObserverFails(cause)
    PROVE  Heard'
<1>1. SoFar' = SoFar
  BY SoFarKept DEF Deliver, ObserverFails, control, ledger, history
<1>2. PICK s, d, p : s = SoFar /\ d = delivered /\ p = pending
  OBVIOUS
<1>3. s \in Seq(EventSpace) /\ d \in Seq(EventSpace) /\ p \in Seq(EventSpace) /\ p # <<>>
  <2>1. s \in Seq(EventSpace)
    BY <1>2, SoFarTyped
  <2>2. d \in Seq(EventSpace) /\ p \in Seq(EventSpace)
    BY <1>2 DEF ResultInv, ContractContext, TypeOK
  <2>3. p # <<>>
    BY <1>2 DEF Deliver, ObserverFails, Quiet
  <2>. QED
    BY <2>1, <2>2, <2>3
<1>4. observer /\ d \o p = s /\ diagnostics = <<>> /\ config.observer
  BY <1>2, <1>3, Zenon DEF Heard, HeardInv
<1>5. /\ Append(d, Head(p)) \o Tail(p) = s /\ IsPrefix(Append(d, Head(p)), s)
      /\ Append(d, Head(p)) # <<>> /\ Last(Append(d, Head(p))) = Head(p)
  BY <1>3, <1>4, Handing
<1>6. CASE Deliver
  <2>1. /\ pending' = Tail(p) /\ delivered' = Append(d, Head(p))
        /\ observer' = observer /\ diagnostics' = diagnostics
    BY <1>2, <1>6 DEF Deliver
  <2>. QED
    BY <1>1, <1>2, <1>4, <1>5, <2>1, Zenon DEF Heard
<1>7. ASSUME NEW cause \in {"error", "panic"}, ObserverFails(cause) PROVE Heard'
  <2>1. /\ pending' = <<>> /\ delivered' = Append(d, Head(p)) /\ ~observer'
        /\ diagnostics' = Append(<<>>, [event |-> Head(p), cause |-> cause])
    BY <1>2, <1>4, <1>7 DEF ObserverFails
  <2>2. Len(diagnostics') = 1 /\ diagnostics'[1].event = Head(p)
    BY <2>1
  <2>. QED
    BY <1>1, <1>2, <1>4, <1>5, <2>1, <2>2, Zenon DEF Heard
<1>. QED
  BY <1>6, <1>7

(* The engine's steps change the observer's part only through Emit. *)
LEMMA WorkFrame ==
    ASSUME Work
    PROVE  /\ Quiet /\ pc \notin {"done", "unwound"} /\ pc' # "start"
           /\ observer' = observer
  BY DEF Work, At, Emit, observation,
         Start, PassInitialCheck, Interrupt, EnterRules, EnterGroup, NextRule, BeginCondition,
         ConditionReturns, ConditionFalse, ConditionTrue, ConditionError, ConditionPanic,
         ConditionUnwinds, AfterPanic, AfterCondition, Decide, ActionReturns, ActionOk,
         ActionError, ActionPanic, ActionUnwinds, AfterAction, Exhaust, Leave, Complete,
         Finish

LEMMA HeardStep ==
    ASSUME ResultInv, ResultInv', HeardInv, [Next]_vars
    PROVE  HeardInv'
<1>1. entries' = entries /\ config' = config
  BY SetupKept
<1>2. CASE Work
  <2>1. /\ Quiet /\ pc \notin {"done", "unwound"} /\ pc' # "start" /\ observer' = observer
    BY <1>2, WorkFrame
  <2>2. ASSUME pc' # "unwound" PROVE Heard'
    BY <1>1, <1>2, <2>1, <2>2, WorkIsTold, TellingIsHeard DEF HeardInv
  <2>. QED
    BY <1>1, <2>1, <2>2 DEF HeardInv
<1>3. CASE Deliver \/ \E cause \in {"error", "panic"} : ObserverFails(cause)
  <2>1. pc' = pc /\ counts' = counts /\ (observer' => observer)
    BY <1>3 DEF Deliver, ObserverFails, control, ledger
  <2>2. ASSUME pc # "unwound" PROVE Heard'
    BY <1>1, <1>3, <2>2, ObservedIsHeard DEF HeardInv
  <2>. QED
    BY <1>1, <2>1, <2>2 DEF HeardInv
<1>4. CASE ObserverUnwinds
  <2>1. pc' = "unwound" /\ observer' = observer
    BY <1>4 DEF ObserverUnwinds
  <2>. QED
    BY <1>1, <2>1 DEF HeardInv
<1>5. CASE ContextEnds \/ Terminated \/ UNCHANGED vars
  <2>1. /\ pc' = pc /\ counts' = counts /\ stop' = stop /\ groups' = groups
        /\ cond' = cond /\ act' = act
        /\ pending' = pending /\ observer' = observer /\ diagnostics' = diagnostics
        /\ delivered' = delivered
    BY <1>5 DEF ContextEnds, Terminated, vars, control, ledger, observation, history
  <2>2. SoFar' = SoFar
    BY <1>1, <2>1, SoFarKept
  <2>3. Heard' = Heard
    BY <1>1, <2>1, <2>2, Zenon DEF Heard
  <2>. QED
    BY <1>1, <2>1, <2>3 DEF HeardInv
<1>. QED
  BY <1>2, <1>3, <1>4, <1>5 DEF Next, Step, Observe

LEMMA HeardInvariant == Spec => [](ResultInv /\ HeardInv)
<1>1. Init /\ ResultInv => HeardInv
  BY HeardInit
<1>2. ResultInv /\ ResultInv' /\ HeardInv /\ [Next]_vars => HeardInv'
  BY HeardStep
<1>. QED
  BY <1>1, <1>2, GroupsInvariant, PTL DEF Spec

(* When the call has returned, its story so far is the whole story. *)
LEMMA StoryTold ==
    ASSUME ResultInv, pc = "done"
    PROVE  Story = SoFar
<1>1. TypeOK /\ Shelf(entries, Total) /\ Rules = 0 .. Total - 1
  BY ShelfNow DEF ResultInv, ContractContext, Rules
<1>2. ASSUME NEW k \in 1 .. Len(entries)
      PROVE  /\ EntryStory(k) = Chapter(entries, ToldOf, EndsOf, k)
  <2>1. PICK s, m : s = entries[k].start /\ m = entries[k].end - entries[k].start
    OBVIOUS
  <2>2. \A n \in 1 .. m : s + n - 1 \in Rules
    BY <1>1, <2>1, SMTT(30) DEF Shelf
  <2>3. \A n \in 1 .. m : ToldOf[s + n - 1] = RuleStory(s + n - 1)
    BY <2>2 DEF ToldOf
  <2>4. PagesOf(entries, ToldOf, k) =
          [n \in 1 .. entries[k].end - entries[k].start |-> RuleStory(entries[k].start + n - 1)]
    BY <2>1, <2>3 DEF PagesOf
  <2>5. /\ k \in Nat /\ entry \in Nat /\ Recorded(k) /\ Placed(k)
        /\ k \in GroupEntries <=> entries[k].kind # "rules"
    BY <1>1 DEF ResultInv, TypeOK, GroupsInv, GroupEntries
  <2>6. groups[k].endReason # "None"
          <=> k \in GroupEntries /\ groups[k].state # "NotEntered"
    <3>1. CASE k \notin GroupEntries \/ groups[k].state = "NotEntered"
      BY <2>5, <3>1 DEF Recorded, NoGroup
    <3>2. CASE k \in GroupEntries /\ groups[k].state # "NotEntered" /\ k < entry
      BY <2>5, <3>2 DEF Placed
    <3>3. CASE k \in GroupEntries /\ groups[k].state # "NotEntered" /\ k = entry
      BY <2>5, <3>3 DEF Placed, NoGroup
    <3>4. CASE k \in GroupEntries /\ groups[k].state # "NotEntered" /\ k > entry
      BY <2>5, <3>4 DEF Placed, NoGroup
    <3>. QED
      BY <2>5, <3>1, <3>2, <3>3, <3>4
  <2>7. Finished(k) = IF k \in GroupEntries /\ groups[k].state # "NotEntered"
                      THEN <<[kind |-> "group-finished", entry |-> k, view |-> groupAt(k)]>>
                      ELSE <<>>
    BY <2>6 DEF Finished, groupAt
  <2>8. EndsOf[k] = Finished(k)
    BY DEF EndsOf
  <2>. QED
    BY <2>4, <2>7, <2>8, Zenon DEF EntryStory, Chapter
<1>3. [k \in 1 .. Len(entries) |-> EntryStory(k)] =
        [k \in 1 .. Len(entries) |-> Chapter(entries, ToldOf, EndsOf, k)]
  BY <1>2, Zenon
<1>4. FlattenSeq([k \in 1 .. Len(entries) |-> EntryStory(k)]) = BookNow
  BY <1>3, Zenon DEF BookNow, Book
<1>5. /\ Prologue = <<[kind |-> "execution-started",
                      counts |-> [ZeroCounts EXCEPT !["NotEvaluated"] = Total],
                      stop |-> "None"]>>
      /\ Epilogue = <<[kind |-> "execution-finished", counts |-> counts, stop |-> stop]>>
  BY DEF Prologue, Epilogue
<1>. QED
  BY <1>4, <1>5, Zenon DEF Story, SoFar

(***************************************************************************)
(* Whatever the callbacks, the observer and the context do, an observer    *)
(* that stays healthy is handed exactly the events the Result calls for,   *)
(* in order; one that fails was handed a prefix of them that ends with the *)
(* event of the one diagnostic; an absent one leaves nothing               *)
(* (observer_internal.go; observer.go:103-114, 135-138, 195-213).          *)
(***************************************************************************)
THEOREM EventsTold == Spec => []EventsTellTheStory
<1>1. ResultInv /\ HeardInv => EventsTellTheStory
  <2> SUFFICES ASSUME ResultInv, HeardInv, Returned PROVE EventsTellTheStory
    BY DEF EventsTellTheStory
  <2>1. Heard /\ pc = "done" /\ pending = <<>>
    BY DEF HeardInv, Returned, Quiet
  <2>2. Story = SoFar
    BY <2>1, StoryTold
  <2>3. PICK d : d = delivered
    OBVIOUS
  <2>4. d \in Seq(EventSpace)
    BY <2>3 DEF ResultInv, ContractContext, TypeOK
  <2>5. d \o <<>> = d
    BY <2>4, ConcatLaws
  <2>. QED
    BY <2>1, <2>2, <2>3, <2>5, Zenon DEF Heard, EventsTellTheStory
<1>. QED
  BY <1>1, HeardInvariant, PTL
=============================================================================
