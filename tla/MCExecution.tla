----------------------------- MODULE MCExecution -----------------------------
(***************************************************************************)
(* Small instances of Execution for TLC.                                   *)
(***************************************************************************)
EXTENDS ExecutionResult

E(kind, start, end) == [kind |-> kind, start |-> start, end |-> end]

(* Ungrouped: none, or three rules. *)
PlainLayouts == {<<E("rules", 0, 0)>>, <<E("rules", 0, 3)>>}

(* Grouped: a group between rules, empty groups, two groups in a row.      *)
GroupedLayouts ==
    UNION {{<<E("rules", 0, 1), E(kind, 1, 3), E("rules", 3, 4)>>,
            <<E(kind, 0, 0), E("rules", 0, 1), E(kind, 1, 3)>>} : kind \in GroupKinds}
    \cup {<<E("first-match", 0, 2), E("first-fire", 2, 4)>>,
          <<E("first-fire", 0, 2), E("first-match", 2, 4)>>}

AllLayouts == PlainLayouts \cup GroupedLayouts

(* Observed: rules, each kind of group, a group followed by a rule.        *)
ObservedLayouts ==
    {<<E("rules", 0, 2)>>, <<E("first-match", 0, 2)>>, <<E("first-fire", 0, 2)>>,
     <<E("first-match", 0, 1), E("first-fire", 1, 2)>>,
     <<E("first-fire", 0, 1), E("rules", 1, 2)>>}

Silent == {c \in ConfigSpace : ~c.observer}
Observed == {c \in ConfigSpace : c.observer}
AllCalls == [entries : AllLayouts, config : Silent] \cup [entries : ObservedLayouts, config : Observed]

(* Either error, with a cause of its own or without. *)
TwoEndings == {[err |-> "canceled", cause |-> TRUE], [err |-> "deadline", cause |-> FALSE]}
=============================================================================
