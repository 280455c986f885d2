------------------------------- MODULE Compile -------------------------------
(***************************************************************************)
(* compileDefinitions (compile_internal.go:84-196): one pass that          *)
(* validates every definition and aggregates the issues, and, if there are *)
(* none, one that orders the entries, flattens the groups and builds the   *)
(* lookup tables.  Compile, CompileEntries and NewEngine all end here.     *)
(*                                                                         *)
(* Rule and group identities are abstract; ValidIDs are those that         *)
(* validRuleID accepts.  Indexes count from 0 as in the code.              *)
(***************************************************************************)
EXTENDS Layout

CONSTANTS
    Definitions,  \* the registration lists that callers pass
    ValidIDs,     \* identities of valid syntax
    NoID          \* the empty identity

(* What a registration holds; the identity is any string, valid or not.    *)
RuleSpace ==
    [kind : {"rule"}, id : STRING, priority : Int, condition : BOOLEAN, action : BOOLEAN]
GroupSpace == [kind : GroupKinds, id : STRING, priority : Int, members : Seq(RuleSpace)]

ASSUME IDsAssumption == NoID \notin ValidIDs
ASSUME DefinitionsAssumption == Definitions \subseteq Seq(RuleSpace \cup GroupSpace)

VARIABLES
    defs, pc, index, member,
    byID, byGroupID,   \* first the registration index, in the end the order
    issues,
    indexes,           \* the top-level entries, sorted
    rules, callbacks,  \* metadata and callbacks by compiled order
    groups, entries

input == <<defs>>
cursor == <<pc, index, member>>
snapshot == <<indexes, rules, callbacks, groups, entries>>
vars == <<input, cursor, byID, byGroupID, issues, snapshot>>

Absent == -1
NoGroup == -1

IsGroup(d) == d.kind \in GroupKinds
HasGroups == \E k \in DOMAIN defs : IsGroup(defs[k])
Def(i) == defs[i + 1]

Init ==
    /\ defs \in Definitions
    /\ pc = "validate" /\ index = 0 /\ member = 0
    /\ byID = [id \in ValidIDs |-> Absent]
    /\ byGroupID = [id \in ValidIDs |-> Absent]
    /\ issues = <<>>
    /\ indexes = <<>> /\ rules = <<>> /\ callbacks = <<>>
    /\ groups = <<>> /\ entries = <<>>

-----------------------------------------------------------------------------
Known(id) == IF id \in ValidIDs THEN id ELSE NoID

(* What is wrong with an identity, given those seen before it. *)
IdentityIssues_Forgetful(id, seen) ==
    IF id \notin ValidIDs THEN <<[cause |-> "invalid-id", first |-> Absent]>>
    ELSE IF seen[id] \notin {Absent, index} THEN <<[cause |-> "duplicate-id", first |-> seen[id]]>>
    ELSE <<>>

IdentityIssues(id, seen) ==
    IF id \notin ValidIDs THEN <<[cause |-> "invalid-id", first |-> Absent]>>
    ELSE IF seen[id] # Absent THEN <<[cause |-> "duplicate-id", first |-> seen[id]]>>
    ELSE <<>>

Seen(id, seen) ==
    IF id \in ValidIDs /\ seen[id] = Absent THEN [seen EXCEPT ![id] = index] ELSE seen

MissingCallbacks(rule) ==
    (IF rule.condition THEN <<>> ELSE <<[cause |-> "nil-condition", first |-> Absent]>>)
    \o (IF rule.action THEN <<>> ELSE <<[cause |-> "nil-action", first |-> Absent]>>)

Located(found, m, id, group, place) ==
    [k \in DOMAIN found |->
        [index |-> index, member |-> m, id |-> id, group |-> group, place |-> place,
         cause |-> found[k].cause, first |-> found[k].first]]

(* validateRule. *)
Validate(rule, m, group, place) ==
    /\ issues' = issues \o Located(IdentityIssues(rule.id, byID) \o MissingCallbacks(rule),
                                   m, Known(rule.id), group, place)
    /\ byID' = Seen(rule.id, byID)

ValidateRule ==
    /\ pc = "validate" /\ index < Len(defs) /\ ~IsGroup(Def(index))
    /\ Validate(Def(index), 0, NoID, "rule")
    /\ index' = index + 1
    /\ UNCHANGED <<input, pc, member, byGroupID, snapshot>>

ValidateGroup ==
    LET id == Def(index).id
    IN  /\ pc = "validate" /\ index < Len(defs) /\ IsGroup(Def(index))
        /\ issues' = issues \o Located(IdentityIssues(id, byGroupID), 0, NoID, Known(id), "group")
        /\ byGroupID' = Seen(id, byGroupID)
        /\ pc' = "members" /\ member' = 0
        /\ UNCHANGED <<input, index, byID, snapshot>>

ValidateMember ==
    /\ pc = "members" /\ member < Len(Def(index).members)
    /\ Validate(Def(index).members[member + 1], member, Known(Def(index).id), "member")
    /\ member' = member + 1
    /\ UNCHANGED <<input, pc, index, byGroupID, snapshot>>

LeaveMembers ==
    /\ pc = "members" /\ member = Len(Def(index).members)
    /\ pc' = "validate" /\ index' = index + 1
    /\ UNCHANGED <<input, member, byID, byGroupID, issues, snapshot>>

Refuse ==
    /\ pc = "validate" /\ index = Len(defs) /\ issues # <<>>
    /\ pc' = "refused"
    /\ UNCHANGED <<input, index, member, byID, byGroupID, issues, snapshot>>

-----------------------------------------------------------------------------
priorityComparison(a, b) == IF a > b THEN -1 ELSE IF a < b THEN 1 ELSE 0

(* What slices.SortStableFunc makes of elements with these priorities: the *)
(* permutation that puts the comparison first and the old position next.   *)
StableSorts(priorities) ==
    {p \in [DOMAIN priorities -> DOMAIN priorities] :
        \A a, b \in DOMAIN priorities : a < b =>
            LET order == priorityComparison(priorities[p[a]], priorities[p[b]])
            IN  order < 0 \/ (order = 0 /\ p[a] < p[b])}

Sort ==
    /\ pc = "validate" /\ index = Len(defs) /\ issues = <<>>
    /\ \E p \in StableSorts([k \in 1 .. Len(defs) |-> defs[k].priority]) :
          indexes' = [k \in 1 .. Len(defs) |-> p[k] - 1]
    /\ pc' = "place" /\ index' = 0
    /\ UNCHANGED <<input, member, byID, byGroupID, issues, rules, callbacks, groups, entries>>

(* The registration index of the entry that comes next. *)
Upcoming == indexes[index + 1]
Placing == pc = "place" /\ index < Len(defs)
Place(kind, start, end) == entries' = Append(entries, [kind |-> kind, start |-> start, end |-> end])

PlaceRule ==
    LET rule == Def(Upcoming)
        start == Len(rules)
    IN  /\ Placing /\ ~IsGroup(rule)
        /\ rules' = Append(rules, [id |-> rule.id, priority |-> rule.priority,
                                   registrationIndex |-> Upcoming, topLevelOrder |-> index,
                                   memberIndex |-> 0, group |-> NoGroup])
        /\ callbacks' = Append(callbacks, rule)
        /\ byID' = [byID EXCEPT ![rule.id] = start]
        /\ IF HasGroups THEN Place("rules", start, start + 1) ELSE UNCHANGED entries
        /\ index' = index + 1
        /\ UNCHANGED <<input, pc, member, byGroupID, issues, indexes, groups>>

(* The members' metadata is sorted first; the callbacks and the lookup     *)
(* table then follow the sorted metadata.                                  *)
Ordered_ByMember(id, sorted, start) ==
    LET k == CHOOSE i \in DOMAIN sorted : sorted[i].id = id
    IN  start + sorted[k].memberIndex
Ordered(id, sorted, start) ==
    LET k == CHOOSE i \in DOMAIN sorted : sorted[i].id = id
    IN  start + k - 1

Source_ByPosition(group, sorted, k) == group.members[k]
Source(group, sorted, k) == group.members[sorted[k].memberIndex + 1]

End(start, group) == start + Len(group.members)

PlaceGroup ==
    LET group == Def(Upcoming)
        start == Len(rules)
        metadata(m) == [id |-> group.members[m].id, priority |-> group.members[m].priority,
                        registrationIndex |-> Upcoming, topLevelOrder |-> index,
                        memberIndex |-> m - 1, group |-> Len(groups)]
    IN  /\ Placing /\ IsGroup(group)
        /\ \E p \in StableSorts([m \in 1 .. Len(group.members) |-> group.members[m].priority]) :
             LET sorted == [m \in 1 .. Len(group.members) |-> metadata(p[m])]
             IN  /\ rules' = rules \o sorted
                 /\ callbacks' = callbacks \o
                        [k \in 1 .. Len(group.members) |-> Source(group, sorted, k)]
                 /\ byID' = [id \in ValidIDs |->
                        IF \E k \in DOMAIN sorted : sorted[k].id = id
                        THEN Ordered(id, sorted, start) ELSE byID[id]]
        /\ groups' = Append(groups, [id |-> group.id, kind |-> group.kind,
                                     registrationIndex |-> Upcoming, topLevelOrder |-> index,
                                     start |-> start, end |-> End(start, group)])
        /\ byGroupID' = [byGroupID EXCEPT ![group.id] = Len(groups)]
        /\ Place(group.kind, start, End(start, group))
        /\ index' = index + 1
        /\ UNCHANGED <<input, pc, member, issues, indexes>>

Freeze ==
    /\ pc = "place" /\ index = Len(defs)
    /\ pc' = "compiled"
    /\ UNCHANGED <<input, index, member, byID, byGroupID, issues, snapshot>>

Terminated == pc \in {"compiled", "refused"} /\ UNCHANGED vars

Next ==
    \/ ValidateRule \/ ValidateGroup \/ ValidateMember \/ LeaveMembers \/ Refuse
    \/ Sort \/ PlaceRule \/ PlaceGroup \/ Freeze
    \/ Terminated

Spec == Init /\ [][Next]_vars
-----------------------------------------------------------------------------
(* Where rules are registered, and which comes before which. *)
Places ==
    {[index |-> k - 1, member |-> 0, place |-> "rule", rule |-> defs[k]] :
        k \in {i \in DOMAIN defs : ~IsGroup(defs[i])}}
    \cup UNION {{[index |-> k - 1, member |-> m - 1, place |-> "member",
                  rule |-> defs[k].members[m]] : m \in DOMAIN defs[k].members} :
                k \in {i \in DOMAIN defs : IsGroup(defs[i])}}
Before(p, q) == p.index < q.index \/ (p.index = q.index /\ p.member < q.member)

(* The ways in which a rule and a group are wrong, in the order of the      *)
(* issues, and these with the place they belong to.                        *)
Faults(p) ==
    (IF p.rule.id \notin ValidIDs THEN {1}
     ELSE IF \E q \in Places : Before(q, p) /\ q.rule.id = p.rule.id THEN {2} ELSE {})
    \cup (IF p.rule.condition THEN {} ELSE {3})
    \cup (IF p.rule.action THEN {} ELSE {4})
GroupFaults(k) ==
    IF defs[k].id \notin ValidIDs THEN {1}
    ELSE IF \E j \in 1 .. k - 1 : IsGroup(defs[j]) /\ defs[j].id = defs[k].id THEN {2} ELSE {}

Expected ==
    (UNION {{[index |-> p.index, member |-> p.member, place |-> p.place, rank |-> r] :
              r \in Faults(p)} : p \in Places})
    \cup UNION {{[index |-> k - 1, member |-> 0, place |-> "group", rank |-> r] :
              r \in GroupFaults(k)} : k \in {i \in DOMAIN defs : IsGroup(defs[i])}}

Rank == [cause \in {"invalid-id", "duplicate-id", "nil-condition", "nil-action"} |->
            CASE cause = "invalid-id" -> 1 [] cause = "duplicate-id" -> 2
              [] cause = "nil-condition" -> 3 [] cause = "nil-action" -> 4]
Found(k) == [index |-> issues[k].index, member |-> issues[k].member,
             place |-> issues[k].place, rank |-> Rank[issues[k].cause]]
Position(f) == <<f.index, IF f.place = "group" THEN 0 ELSE 1, f.member, f.rank>>
Less(s, t) == \E i \in DOMAIN s : s[i] < t[i] /\ \A j \in 1 .. i - 1 : s[j] = t[j]

(* Validation reports every mistake once, in registration order, a         *)
(* duplicate with the index of the first rule of that identity even when   *)
(* that one is wrong in other ways, and accepts exactly the lists without  *)
(* mistakes (errors.go:106-111, ruleset.go CompileEntries).                *)
IssuesAreComplete ==
    /\ pc = "refused" \/ pc = "compiled" =>
         /\ {Found(k) : k \in DOMAIN issues} = Expected
         /\ \A j, k \in DOMAIN issues :
              j < k => Less(Position(Found(j)), Position(Found(k)))
         /\ (pc = "refused") = (Expected # {})
    /\ \A k \in DOMAIN issues : issues[k].cause = "duplicate-id" /\ issues[k].place # "group" =>
         /\ \E p \in Places : p.rule.id = issues[k].id /\ p.index = issues[k].first
         /\ \A p \in Places : p.rule.id = issues[k].id => issues[k].first <= p.index

(* What execute runs over: the entries, or one entry without a group.      *)
Entries == IF entries = <<>> THEN <<[kind |-> "rules", start |-> 0, end |-> Len(rules)]>>
           ELSE entries

(* Every rule has one place in the compiled order: entries by descending   *)
(* priority, then registration; members the same within their group; the   *)
(* callbacks at an order are those of the rule described there             *)
(* (ruleset.go:35-41).  The entries meet and cover all rules, as Execution *)
(* assumes of its layouts.                                                 *)
OrderIsDeclared ==
    pc = "compiled" =>
      LET key(o) == <<-Def(rules[o].registrationIndex).priority, rules[o].registrationIndex,
                      -rules[o].priority, rules[o].memberIndex>>
          origin(o) == [index |-> rules[o].registrationIndex, member |-> rules[o].memberIndex,
                        place |-> IF rules[o].group = NoGroup THEN "rule" ELSE "member",
                        rule |-> callbacks[o]]
      IN  /\ DOMAIN callbacks = DOMAIN rules
          /\ {origin(o) : o \in DOMAIN rules} = Places
          /\ \A o \in DOMAIN rules : rules[o].id = callbacks[o].id
          /\ \A o, p \in DOMAIN rules : o < p => Less(key(o), key(p))
          /\ Compiled(Entries) /\ Entries[Len(Entries)].end = Len(rules)

(* The lookup tables, which held registration indexes during validation,   *)
(* in the end hold compiled positions, and nothing else.                   *)
LookupsAgree ==
    pc = "compiled" =>
      /\ \A id \in ValidIDs :
           /\ byID[id] = Absent => \A o \in DOMAIN rules : rules[o].id # id
           /\ byID[id] # Absent => rules[byID[id] + 1].id = id
           /\ byGroupID[id] = Absent => \A g \in DOMAIN groups : groups[g].id # id
           /\ byGroupID[id] # Absent => groups[byGroupID[id] + 1].id = id
      /\ \A o \in DOMAIN rules : rules[o].group # NoGroup =>
           LET g == groups[rules[o].group + 1]
           IN  /\ g.start < o /\ o <= g.end
               /\ g.topLevelOrder = rules[o].topLevelOrder
               /\ g.registrationIndex = rules[o].registrationIndex

=============================================================================
