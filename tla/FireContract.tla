---------------------------- MODULE FireContract ----------------------------
(***************************************************************************)
(* What Engine.Fire promises its caller about the business outcome, stated *)
(* from the callbacks that were called and what they returned, without a   *)
(* cursor, a ledger, group records or an observer.  Execution implements   *)
(* it, whatever its observer does.                                         *)
(***************************************************************************)
EXTENDS Integers, Sequences

CONSTANTS Calls, Endings

VARIABLES entries, config, ctx, cond, act, late, verdict

vars == <<entries, config, ctx, cond, act, late, verdict>>

Rules == 0 .. entries[Len(entries)].end - 1
Done == ctx.err # "nil"

SameGroup(p, o) ==
    \E k \in 1 .. Len(entries) :
        /\ entries[k].kind # "rules"
        /\ {p, o} \subseteq entries[k].start .. entries[k].end - 1

(* The criterion of p's group is met by p. *)
Selects(p) ==
    \E k \in 1 .. Len(entries) :
        /\ p \in entries[k].start .. entries[k].end - 1
        /\ \/ entries[k].kind = "first-match" /\ cond[p] = "true"
           \/ entries[k].kind = "first-fire" /\ act[p] = "ok"

Bypassed(o) == \E p \in 0 .. o - 1 : SameGroup(p, o) /\ Selects(p)

(* The global stop that rule o's own outcome calls for under the policy. *)
StopCalledFor(o) ==
    IF "panic" \in {cond[o], act[o]} THEN "Panic"
    ELSE IF cond[o] = "error" /\ config.conditionErrors = "StopOnError" THEN "ConditionError"
    ELSE IF act[o] = "error" /\ config.actionErrors = "StopOnError" THEN "ActionError"
    ELSE IF act[o] # "uncalled" /\ config.stop = "StopOnFirstMatch" THEN "FirstMatch"
    ELSE IF act[o] = "ok" /\ config.stop = "StopOnFirstFire" THEN "FirstFire"
    ELSE "None"

Finished(o) == cond[o] \in {"false", "error", "panic"} \/ act[o] # "uncalled"
Passed(o) == Bypassed(o) \/ (Finished(o) /\ StopCalledFor(o) = "None")

Init ==
    /\ \E call \in Calls : entries = call.entries /\ config = call.config
    /\ ctx \in {[err |-> "nil", cause |-> FALSE]} \cup Endings
    /\ cond = [o \in Rules |-> "uncalled"]
    /\ act = [o \in Rules |-> "uncalled"]
    /\ late = FALSE
    /\ verdict = "open"

Called(outcome) ==
    /\ late' = (late \/ Done)
    /\ verdict' = IF outcome = "panic" /\ config.panic = "PropagatePanics"
                  THEN "unwound" ELSE verdict
    /\ UNCHANGED <<entries, config, ctx>>

(* Strictly in order, never twice, never after a callback came back to an  *)
(* ended context.                                                          *)
Evaluate(o, outcome) ==
    /\ verdict = "open" /\ ~late
    /\ cond[o] = "uncalled" /\ ~Bypassed(o)
    /\ \A p \in 0 .. o - 1 : Passed(p)
    /\ cond' = [cond EXCEPT ![o] = outcome]
    /\ Called(outcome)
    /\ UNCHANGED act

Act(o, outcome) ==
    /\ verdict = "open" /\ ~late
    /\ cond[o] = "true" /\ act[o] = "uncalled"
    /\ act' = [act EXCEPT ![o] = outcome]
    /\ Called(outcome)
    /\ UNCHANGED cond

(* Panic before context before the rule's own stop before completion. *)
Conclude ==
    LET called == {StopCalledFor(o) : o \in Rules} \ {"None"}
    IN  /\ verdict = "open"
        /\ \/ /\ "Panic" \in called
              /\ verdict' = "Panic"
           \/ /\ "Panic" \notin called /\ Done
              /\ verdict' = IF ctx.err = "deadline" THEN "ContextDeadlineExceeded"
                                                    ELSE "ContextCanceled"
           \/ /\ "Panic" \notin called /\ ~late
              /\ verdict' \in called
           \/ /\ ~late /\ \A o \in Rules : Passed(o)
              /\ verdict' = "Completed"
        /\ UNCHANGED <<entries, config, ctx, cond, act, late>>

(* An observer's propagated panic leaves the call, too. *)
Unwind ==
    /\ verdict = "open" /\ config.panic = "PropagatePanics"
    /\ verdict' = "unwound"
    /\ UNCHANGED <<entries, config, ctx, cond, act, late>>

ContextEnds ==
    /\ ~Done /\ verdict = "open"
    /\ ctx' \in Endings
    /\ UNCHANGED <<entries, config, cond, act, late, verdict>>

Next ==
    \/ \E o \in Rules :
        \/ \E outcome \in {"false", "true", "error", "panic"} : Evaluate(o, outcome)
        \/ \E outcome \in {"ok", "error", "panic"} : Act(o, outcome)
    \/ Conclude \/ Unwind \/ ContextEnds

Spec == Init /\ [][Next]_vars
=============================================================================
