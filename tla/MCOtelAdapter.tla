---------------------------- MODULE MCOtelAdapter ----------------------------
(* A small instance of OtelAdapter for TLC. *)
EXTENDS OtelAdapter

TwoRules == {<<[kind |-> "rules", start |-> 0, end |-> 2]>>,
             <<[kind |-> "first-fire", start |-> 0, end |-> 2]>>}

ObservedToTheEnd ==
    {c \in ConfigSpace : /\ c.observer /\ c.stop = "EvaluateAll"
                         /\ c.conditionErrors = "ContinueOnError"}

SmallCalls == [entries : TwoRules, config : ObservedToTheEnd]

OneEnding == {[err |-> "canceled", cause |-> FALSE]}

(* A trace of every rule with a limit of one, and of one rule; counters    *)
(* that are enabled, and some or all of them disabled.                     *)
SmallAdapters ==
    {[eventLimit |-> 1, traceRules |-> {0, 1}, ruleMetrics |-> {1},
      counters |-> 1 .. 5, ruleCounter |-> TRUE],
     [eventLimit |-> 0, traceRules |-> {1}, ruleMetrics |-> {1},
      counters |-> {}, ruleCounter |-> FALSE],
     [eventLimit |-> 2, traceRules |-> {1}, ruleMetrics |-> {0, 1},
      counters |-> {1, 3, 5}, ruleCounter |-> TRUE]}
=============================================================================
