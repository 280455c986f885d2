---------------------------- MODULE CompileProofs ----------------------------
(***************************************************************************)
(* What holds of every compilation, of lists of any length: the issues are *)
(* complete, the order is the declared one, the lookup tables agree, and   *)
(* the entries form a layout as Execution assumes of its own.  Then what   *)
(* holds of every engine made from one: which options a call runs with.    *)
(***************************************************************************)
EXTENDS Engine, TLAPS, FiniteSetTheorems, WellFoundedInduction

(***************************************************************************)
(* Where rules are registered, by position: entry k of the list, and part  *)
(* m of it, which is the entry itself or a member of the group.            *)
(***************************************************************************)
Grouped(k) == IsGroup(defs[k])
Parts(k) == IF Grouped(k) THEN DOMAIN defs[k].members ELSE {1}
RuleAt(k, m) == IF Grouped(k) THEN defs[k].members[m] ELSE defs[k]
KindAt(k) == IF Grouped(k) THEN "member" ELSE "rule"
PlaceAt(k, m) == [index |-> k - 1, member |-> m - 1, place |-> KindAt(k), rule |-> RuleAt(k, m)]
Earlier(j, l, k, m) == j < k \/ (j = k /\ l < m)

(* The faults of part m of entry k. *)
RuleFaults(k, m) ==
    (IF RuleAt(k, m).id \notin ValidIDs THEN {1}
     ELSE IF \E j \in DOMAIN defs : \E l \in Parts(j) :
                 Earlier(j, l, k, m) /\ RuleAt(j, l).id = RuleAt(k, m).id
     THEN {2} ELSE {})
    \cup (IF RuleAt(k, m).condition THEN {} ELSE {3})
    \cup (IF RuleAt(k, m).action THEN {} ELSE {4})
RuleFault(k, m, r) == [index |-> k - 1, member |-> m - 1, place |-> KindAt(k), rank |-> r]
GroupFault(k, r) == [index |-> k - 1, member |-> 0, place |-> "group", rank |-> r]

(* What validation has passed: part m of entry k, the group at entry k. *)
PartPassed(k, m) ==
    CASE pc = "validate" -> k <= index
      [] pc = "members" -> k <= index \/ (k = index + 1 /\ m <= member)
      [] OTHER -> TRUE
GroupPassed(k) ==
    CASE pc = "validate" -> k <= index
      [] pc = "members" -> k <= index + 1
      [] OTHER -> TRUE

TypeInv ==
    /\ defs \in Definitions
    /\ pc \in {"validate", "members", "refused", "place", "compiled"}
    /\ index \in 0 .. Len(defs) /\ member \in Nat
    /\ pc = "members" => /\ index < Len(defs) /\ Grouped(index + 1)
                         /\ member <= Len(defs[index + 1].members)
    /\ pc \in {"refused", "compiled"} => index = Len(defs)
    /\ byID \in [ValidIDs -> Nat \cup {Absent}]
    /\ byGroupID \in [ValidIDs -> Nat \cup {Absent}]

IssueSpace ==
    [index : Nat, member : Nat, id : ValidIDs \cup {NoID}, group : ValidIDs \cup {NoID},
     place : {"rule", "member", "group"},
     cause : {"invalid-id", "duplicate-id", "nil-condition", "nil-action"},
     first : Nat \cup {Absent}]

(* During validation the tables hold the first registration of an identity. *)
SeenInv ==
    pc \in {"validate", "members"} => \A id \in ValidIDs :
        /\ byID[id] = Absent =>
             \A k \in DOMAIN defs : \A m \in Parts(k) : PartPassed(k, m) => RuleAt(k, m).id # id
        /\ byID[id] # Absent =>
             /\ \E k \in DOMAIN defs : \E m \in Parts(k) :
                    PartPassed(k, m) /\ RuleAt(k, m).id = id /\ byID[id] = k - 1
             /\ \A k \in DOMAIN defs : \A m \in Parts(k) : RuleAt(k, m).id = id => byID[id] <= k - 1
        /\ byGroupID[id] = Absent =>
             \A k \in DOMAIN defs : Grouped(k) /\ GroupPassed(k) => defs[k].id # id
        /\ byGroupID[id] # Absent =>
             \E k \in DOMAIN defs : Grouped(k) /\ GroupPassed(k) /\ defs[k].id = id

(* The issues so far are the faults of what was passed. *)
TrueFault(f) ==
    \/ \E k \in DOMAIN defs : \E m \in Parts(k) : \E r \in RuleFaults(k, m) :
          PartPassed(k, m) /\ f = RuleFault(k, m, r)
    \/ \E k \in DOMAIN defs : \E r \in GroupFaults(k) :
          Grouped(k) /\ GroupPassed(k) /\ f = GroupFault(k, r)

FoundOf(issue) ==
    [index |-> issue.index, member |-> issue.member, place |-> issue.place,
     rank |-> Rank[issue.cause]]
IsFound(f) == \E i \in DOMAIN issues : FoundOf(issues[i]) = f

FoundInv ==
    /\ issues \in Seq(IssueSpace)
    /\ \A i \in DOMAIN issues : TrueFault(FoundOf(issues[i]))
    /\ \A k \in DOMAIN defs : \A m \in Parts(k) : PartPassed(k, m) =>
          \A r \in RuleFaults(k, m) : IsFound(RuleFault(k, m, r))
    /\ \A k \in DOMAIN defs : Grouped(k) /\ GroupPassed(k) =>
          \A r \in GroupFaults(k) : IsFound(GroupFault(k, r))
    /\ \A i, j \in DOMAIN issues :
          i < j => Less(Position(FoundOf(issues[i])), Position(FoundOf(issues[j])))

FirstInv ==
    \A i \in DOMAIN issues : issues[i].cause = "duplicate-id" /\ issues[i].place # "group" =>
        /\ \E k \in DOMAIN defs : \E m \in Parts(k) :
              RuleAt(k, m).id = issues[i].id /\ k - 1 = issues[i].first
        /\ \A k \in DOMAIN defs : \A m \in Parts(k) :
              RuleAt(k, m).id = issues[i].id => issues[i].first <= k - 1

VerdictInv ==
    /\ pc = "refused" => issues # <<>>
    /\ pc \in {"place", "compiled"} => issues = <<>>

IssuesInv == TypeInv /\ SeenInv /\ FoundInv /\ FirstInv /\ VerdictInv

-----------------------------------------------------------------------------
(* Nothing is wrong with the list. *)
Faultless ==
    /\ \A k \in DOMAIN defs : \A m \in Parts(k) : RuleFaults(k, m) = {}
    /\ \A k \in DOMAIN defs : Grouped(k) => GroupFaults(k) = {}

(* The sorted entries: a permutation of the registered ones. *)
SortedInv ==
    /\ indexes \in [1 .. Len(defs) -> 0 .. Len(defs) - 1]
    /\ \A a, b \in 1 .. Len(defs) : a < b =>
          \/ defs[indexes[a] + 1].priority > defs[indexes[b] + 1].priority
          \/ /\ defs[indexes[a] + 1].priority = defs[indexes[b] + 1].priority
             /\ indexes[a] < indexes[b]
    /\ \A k \in 1 .. Len(defs) : \E a \in 1 .. Len(defs) : indexes[a] = k - 1

RuleMeta ==
    [id : STRING, priority : Int, registrationIndex : Nat, topLevelOrder : Nat,
     memberIndex : Nat, group : Nat \cup {NoGroup}]
GroupMeta ==
    [id : STRING, kind : GroupKinds, registrationIndex : Nat, topLevelOrder : Nat,
     start : Nat, end : Nat]
EntrySpace == [kind : GroupKinds \cup {"rules"}, start : Nat, end : Nat]

(* Each placed rule is described as it was registered, and belongs to its  *)
(* group's span.                                                           *)
Described(o) ==
    \E k \in DOMAIN defs : \E m \in Parts(k) :
        /\ rules[o].topLevelOrder < index
        /\ indexes[rules[o].topLevelOrder + 1] = k - 1
        /\ rules[o].registrationIndex = k - 1 /\ rules[o].memberIndex = m - 1
        /\ rules[o].id = RuleAt(k, m).id /\ rules[o].priority = RuleAt(k, m).priority
        /\ callbacks[o] = RuleAt(k, m)
        /\ ~Grouped(k) => rules[o].group = NoGroup
        /\ Grouped(k) =>
             /\ rules[o].group \in 0 .. Len(groups) - 1
             /\ groups[rules[o].group + 1].start < o /\ o <= groups[rules[o].group + 1].end
             /\ groups[rules[o].group + 1].topLevelOrder = rules[o].topLevelOrder
             /\ groups[rules[o].group + 1].registrationIndex = k - 1
RuleOrder(o, p) ==
    \/ rules[o].topLevelOrder < rules[p].topLevelOrder
    \/ /\ rules[o].topLevelOrder = rules[p].topLevelOrder
       /\ \/ rules[o].priority > rules[p].priority
          \/ /\ rules[o].priority = rules[p].priority
             /\ rules[o].memberIndex < rules[p].memberIndex

RulesInv ==
    /\ rules \in Seq(RuleMeta) /\ callbacks \in Seq(RuleSpace)
    /\ Len(callbacks) = Len(rules)
    /\ \A o \in DOMAIN rules : Described(o)
    /\ \A o, p \in DOMAIN rules : o < p => RuleOrder(o, p)
    /\ \A a \in 1 .. index : \A k \in DOMAIN defs : indexes[a] = k - 1 =>
          \A m \in Parts(k) : \E o \in DOMAIN rules :
             rules[o].topLevelOrder = a - 1 /\ rules[o].memberIndex = m - 1

GroupsInv ==
    /\ groups \in Seq(GroupMeta)
    /\ \A g \in DOMAIN groups : \E k \in DOMAIN defs :
          /\ groups[g].topLevelOrder < index
          /\ indexes[groups[g].topLevelOrder + 1] = k - 1
          /\ groups[g].registrationIndex = k - 1
          /\ Grouped(k) /\ groups[g].id = defs[k].id
    /\ \A a \in 1 .. index : \A k \in DOMAIN defs : indexes[a] = k - 1 /\ Grouped(k) =>
          \E g \in DOMAIN groups : groups[g].topLevelOrder = a - 1

EntriesInv ==
    /\ entries \in Seq(EntrySpace)
    /\ HasGroups => Len(entries) = index
    /\ ~HasGroups => entries = <<>>
    /\ \A e \in DOMAIN entries : entries[e].start <= entries[e].end /\ entries[e].end <= Len(rules)
    /\ entries = <<>> /\ HasGroups => rules = <<>>
    /\ entries # <<>> => entries[1].start = 0 /\ entries[Len(entries)].end = Len(rules)
    /\ \A e \in 1 .. Len(entries) - 1 : entries[e + 1].start = entries[e].end
    /\ \A d, e \in DOMAIN entries : d < e => entries[d].end <= entries[e].start

TablesInv ==
    /\ \A o \in DOMAIN rules : byID[rules[o].id] = o - 1
    /\ \A g \in DOMAIN groups : byGroupID[groups[g].id] = g - 1
    /\ \A id \in ValidIDs :
          /\ byID[id] # Absent => \E k \in DOMAIN defs : \E m \in Parts(k) : RuleAt(k, m).id = id
          /\ byGroupID[id] # Absent => \E k \in DOMAIN defs : Grouped(k) /\ defs[k].id = id

PlacedInv ==
    pc \in {"place", "compiled"} =>
        Faultless /\ SortedInv /\ RulesInv /\ GroupsInv /\ EntriesInv /\ TablesInv
EmptyInv ==
    pc \in {"validate", "members"} =>
        rules = <<>> /\ callbacks = <<>> /\ groups = <<>> /\ entries = <<>>

CompileInv == IssuesInv /\ PlacedInv /\ EmptyInv
-----------------------------------------------------------------------------
(* The list and its parts have the types that registration gives them. *)
LEMMA ListTyped ==
    ASSUME defs \in Definitions
    PROVE  /\ Len(defs) \in Nat /\ DOMAIN defs = 1 .. Len(defs)
           /\ \A k \in DOMAIN defs :
                 /\ Grouped(k) => defs[k] \in GroupSpace
                 /\ ~Grouped(k) => defs[k] \in RuleSpace
<1>1. defs \in Seq(RuleSpace \cup GroupSpace)
  BY DefinitionsAssumption
<1>2. \A k \in DOMAIN defs : defs[k] \in RuleSpace \cup GroupSpace
  BY <1>1
<1>3. \A d \in RuleSpace : ~IsGroup(d)
  BY DEF RuleSpace, IsGroup, GroupKinds
<1>4. \A d \in GroupSpace : IsGroup(d)
  BY DEF GroupSpace, IsGroup
<1> QED
  BY <1>1, <1>2, <1>3, <1>4 DEF Grouped

LEMMA PartsTyped ==
    ASSUME defs \in Definitions, NEW k \in DOMAIN defs
    PROVE  /\ k \in Nat /\ k >= 1 /\ k <= Len(defs)
           /\ defs[k].priority \in Int /\ defs[k].id \in STRING
           /\ Grouped(k) => /\ defs[k].members \in Seq(RuleSpace)
                            /\ Len(defs[k].members) \in Nat
                            /\ DOMAIN defs[k].members = 1 .. Len(defs[k].members)
                            /\ Parts(k) = 1 .. Len(defs[k].members)
                            /\ defs[k].kind \in GroupKinds
           /\ ~Grouped(k) => Parts(k) = {1}
           /\ \A m \in Parts(k) : m \in Nat /\ m >= 1 /\ RuleAt(k, m) \in RuleSpace
<1> USE ListTyped
<1>1. k \in Nat /\ k >= 1 /\ k <= Len(defs)
  OBVIOUS
<1>2. CASE Grouped(k)
  <2>1. defs[k] \in GroupSpace
    BY <1>2
  <2>2. /\ defs[k].priority \in Int /\ defs[k].id \in STRING
        /\ defs[k].members \in Seq(RuleSpace) /\ defs[k].kind \in GroupKinds
    BY <2>1 DEF GroupSpace
  <2>3. Parts(k) = DOMAIN defs[k].members
    BY <1>2 DEF Parts
  <2>4. \A m : RuleAt(k, m) = defs[k].members[m]
    BY <1>2 DEF RuleAt
  <2> QED
    BY <1>1, <1>2, <2>2, <2>3, <2>4
<1>3. CASE ~Grouped(k)
  <2>1. defs[k] \in RuleSpace
    BY <1>3
  <2>2. defs[k].priority \in Int /\ defs[k].id \in STRING
    BY <2>1 DEF RuleSpace
  <2>3. Parts(k) = {1}
    BY <1>3 DEF Parts
  <2>4. \A m : RuleAt(k, m) = defs[k]
    BY <1>3 DEF RuleAt
  <2> QED
    BY <1>1, <1>3, <2>1, <2>2, <2>3, <2>4
<1> QED
  BY <1>2, <1>3

LEMMA RuleTyped ==
    ASSUME NEW r \in RuleSpace
    PROVE  /\ r.id \in STRING /\ r.priority \in Int
           /\ r.condition \in BOOLEAN /\ r.action \in BOOLEAN
  BY DEF RuleSpace

(* No step changes the list. *)
LEMMA SameList ==
    ASSUME defs' = defs
    PROVE  /\ \A k : (Grouped(k)' <=> Grouped(k)) /\ KindAt(k)' = KindAt(k)
           /\ \A k : Parts(k)' = Parts(k)
           /\ \A k, m : RuleAt(k, m)' = RuleAt(k, m)
           /\ \A k, m : RuleFaults(k, m)' = RuleFaults(k, m)
           /\ \A k : GroupFaults(k)' = GroupFaults(k)
           /\ \A k, m, r : RuleFault(k, m, r)' = RuleFault(k, m, r)
<1>1. \A k : (Grouped(k)' <=> Grouped(k)) /\ KindAt(k)' = KindAt(k)
  BY DEF Grouped, KindAt
<1>2. \A k : Parts(k)' = Parts(k)
  BY <1>1 DEF Parts
<1>3. \A k, m : RuleAt(k, m)' = RuleAt(k, m)
  BY <1>1 DEF RuleAt
<1>4. \A k, m : RuleFaults(k, m)' = RuleFaults(k, m)
  BY <1>2, <1>3 DEF RuleFaults
<1>5. \A k : GroupFaults(k)' = GroupFaults(k)
  BY DEF GroupFaults
<1>6. \A k, m, r : RuleFault(k, m, r)' = RuleFault(k, m, r)
  BY <1>1 DEF RuleFault
<1> QED
  BY <1>1, <1>2, <1>3, <1>4, <1>5, <1>6

(* Places, by entry and part. *)
LEMMA PlacesAre ==
    ASSUME defs \in Definitions
    PROVE  /\ \A k \in DOMAIN defs : \A m \in Parts(k) : PlaceAt(k, m) \in Places
           /\ \A p \in Places : \E k \in DOMAIN defs : \E m \in Parts(k) : p = PlaceAt(k, m)
<1>1. ASSUME NEW k \in DOMAIN defs, NEW m \in Parts(k)
      PROVE  PlaceAt(k, m) \in Places
  <2>1. CASE Grouped(k)
    BY <2>1 DEF Places, PlaceAt, KindAt, RuleAt, Parts, Grouped
  <2>2. CASE ~Grouped(k)
    <3>1. m = 1
      BY <2>2 DEF Parts
    <3> QED
      BY <2>2, <3>1 DEF Places, PlaceAt, KindAt, RuleAt, Grouped
  <2> QED
    BY <2>1, <2>2
<1>2. ASSUME NEW p \in Places
      PROVE  \E k \in DOMAIN defs : \E m \in Parts(k) : p = PlaceAt(k, m)
  <2>1. CASE \E k \in DOMAIN defs : ~Grouped(k)
                /\ p = [index |-> k - 1, member |-> 0, place |-> "rule", rule |-> defs[k]]
    BY <2>1, SMTT(30) DEF PlaceAt, KindAt, RuleAt, Parts
  <2>2. CASE \E k \in DOMAIN defs : Grouped(k) /\ \E m \in DOMAIN defs[k].members :
                p = [index |-> k - 1, member |-> m - 1, place |-> "member",
                     rule |-> defs[k].members[m]]
    BY <2>2 DEF PlaceAt, KindAt, RuleAt, Parts
  <2> QED
    BY <2>1, <2>2 DEF Places, Grouped
<1> QED
  BY <1>1, <1>2

(* Expected, place by place. *)
LEMMA FaultsAre ==
    ASSUME defs \in Definitions, NEW k \in DOMAIN defs, NEW m \in Parts(k)
    PROVE  Faults(PlaceAt(k, m)) = RuleFaults(k, m)
<1> DEFINE p == PlaceAt(k, m)
<1>1. p.index = k - 1 /\ p.member = m - 1 /\ p.rule = RuleAt(k, m)
  BY DEF PlaceAt
<1>2. /\ k \in Int /\ m \in Int
      /\ \A j \in DOMAIN defs : j \in Int /\ \A l \in Parts(j) : l \in Int
  BY PartsTyped
<1>3. ASSUME NEW j \in DOMAIN defs, NEW l \in Parts(j)
      PROVE  /\ Before(PlaceAt(j, l), p) <=> Earlier(j, l, k, m)
             /\ PlaceAt(j, l).rule = RuleAt(j, l)
  <2>1. /\ PlaceAt(j, l).index = j - 1 /\ PlaceAt(j, l).member = l - 1
        /\ PlaceAt(j, l).rule = RuleAt(j, l)
    BY DEF PlaceAt
  <2>2. j \in Int /\ l \in Int
    BY <1>2
  <2> HIDE DEF p
  <2> QED
    BY <1>1, <1>2, <2>1, <2>2 DEF Before, Earlier
<1> HIDE DEF p
<1>4. (\E q \in Places : Before(q, p) /\ q.rule.id = p.rule.id)
      <=> \E j \in DOMAIN defs : \E l \in Parts(j) :
             Earlier(j, l, k, m) /\ RuleAt(j, l).id = RuleAt(k, m).id
  BY <1>1, <1>3, PlacesAre
<1>5. Faults(p) = RuleFaults(k, m)
  BY <1>1, <1>4 DEF Faults, RuleFaults
<1> QED
  BY <1>5 DEF p

LEMMA ExpectedAre ==
    ASSUME defs \in Definitions
    PROVE  /\ \A k \in DOMAIN defs : \A m \in Parts(k) : \A r \in RuleFaults(k, m) :
                 RuleFault(k, m, r) \in Expected
           /\ \A k \in DOMAIN defs : Grouped(k) =>
                 \A r \in GroupFaults(k) : GroupFault(k, r) \in Expected
           /\ \A f \in Expected :
                 \/ \E k \in DOMAIN defs : \E m \in Parts(k) : \E r \in RuleFaults(k, m) :
                       f = RuleFault(k, m, r)
                 \/ \E k \in DOMAIN defs : Grouped(k) /\ \E r \in GroupFaults(k) :
                       f = GroupFault(k, r)
<1> DEFINE InRules == UNION {{[index |-> p.index, member |-> p.member, place |-> p.place, rank |-> r] :
                                 r \in Faults(p)} : p \in Places}
           InGroups == UNION {{GroupFault(k, r) : r \in GroupFaults(k)} :
                                 k \in {i \in DOMAIN defs : IsGroup(defs[i])}}
<1>1. Expected = InRules \cup InGroups
  BY Zenon DEF Expected, GroupFault
<1>2. ASSUME NEW k \in DOMAIN defs, NEW m \in Parts(k), NEW r \in RuleFaults(k, m)
      PROVE  RuleFault(k, m, r) \in InRules
  <2>1. PlaceAt(k, m) \in Places /\ r \in Faults(PlaceAt(k, m))
    BY PlacesAre, FaultsAre
  <2>2. RuleFault(k, m, r) = [index |-> PlaceAt(k, m).index, member |-> PlaceAt(k, m).member,
                              place |-> PlaceAt(k, m).place, rank |-> r]
    BY DEF RuleFault, PlaceAt
  <2> QED
    BY <2>1, <2>2
<1>3. ASSUME NEW k \in DOMAIN defs, Grouped(k), NEW r \in GroupFaults(k)
      PROVE  GroupFault(k, r) \in InGroups
  BY <1>3 DEF Grouped
<1>4. ASSUME NEW f \in InRules
      PROVE  \E k \in DOMAIN defs : \E m \in Parts(k) : \E r \in RuleFaults(k, m) :
                f = RuleFault(k, m, r)
  <2>0. PICK p \in Places : \E r \in Faults(p) :
           f = [index |-> p.index, member |-> p.member, place |-> p.place, rank |-> r]
    OBVIOUS
  <2>1. PICK r \in Faults(p) :
           f = [index |-> p.index, member |-> p.member, place |-> p.place, rank |-> r]
    BY <2>0
  <2>2. PICK k \in DOMAIN defs : \E m \in Parts(k) : p = PlaceAt(k, m)
    BY PlacesAre
  <2>5. PICK m \in Parts(k) : p = PlaceAt(k, m)
    BY <2>2
  <2>3. r \in RuleFaults(k, m)
    BY <2>5, FaultsAre
  <2>4. f = RuleFault(k, m, r)
    BY <2>1, <2>5 DEF RuleFault, PlaceAt
  <2> QED
    BY <2>3, <2>4
<1>5. ASSUME NEW f \in InGroups
      PROVE  \E k \in DOMAIN defs : Grouped(k) /\ \E r \in GroupFaults(k) : f = GroupFault(k, r)
  BY DEF Grouped
<1> HIDE DEF InRules, InGroups
<1> QED
  BY <1>1, <1>2, <1>3, <1>4, <1>5

-----------------------------------------------------------------------------
(* Sequences, and the order of issues. *)
LEMMA Concatenated ==
    ASSUME NEW S, NEW s \in Seq(S), NEW t \in Seq(S)
    PROVE  /\ s \o t \in Seq(S)
           /\ Len(s) \in Nat /\ Len(t) \in Nat /\ Len(s \o t) = Len(s) + Len(t)
           /\ DOMAIN s = 1 .. Len(s) /\ DOMAIN t = 1 .. Len(t)
           /\ DOMAIN (s \o t) = 1 .. Len(s) + Len(t)
           /\ \A i \in DOMAIN s : i \in DOMAIN (s \o t) /\ (s \o t)[i] = s[i]
           /\ \A i \in DOMAIN t : Len(s) + i \in DOMAIN (s \o t) /\ (s \o t)[Len(s) + i] = t[i]
           /\ \A i \in DOMAIN (s \o t) :
                 \/ i \in DOMAIN s /\ (s \o t)[i] = s[i]
                 \/ \E j \in DOMAIN t : i = Len(s) + j /\ (s \o t)[i] = t[j]
<1>1. /\ s \o t \in Seq(S)
      /\ Len(s) \in Nat /\ Len(t) \in Nat /\ Len(s \o t) = Len(s) + Len(t)
      /\ DOMAIN s = 1 .. Len(s) /\ DOMAIN t = 1 .. Len(t)
  OBVIOUS
<1>2. \A i \in 1 .. Len(s) : (s \o t)[i] = s[i]
  OBVIOUS
<1>3. \A i \in 1 .. Len(t) : (s \o t)[Len(s) + i] = t[i]
  OBVIOUS
<1>4. PICK u : u = s \o t
  OBVIOUS
<1>5. u \in Seq(S) /\ Len(u) = Len(s) + Len(t) /\ DOMAIN u = 1 .. Len(s) + Len(t)
  BY <1>1, <1>4
<1>6. \A i \in DOMAIN s : i \in DOMAIN u /\ u[i] = s[i]
  BY <1>1, <1>2, <1>4, <1>5
<1>7. \A i \in DOMAIN t : Len(s) + i \in DOMAIN u /\ u[Len(s) + i] = t[i]
  BY <1>1, <1>3, <1>4, <1>5
<1>8. ASSUME NEW i \in DOMAIN u
      PROVE  \/ i \in DOMAIN s /\ u[i] = s[i]
             \/ \E j \in DOMAIN t : i = Len(s) + j /\ u[i] = t[j]
  <2>1. CASE i \in DOMAIN s
    BY <1>6, <2>1
  <2>2. CASE i \notin DOMAIN s
    <3>1. i - Len(s) \in DOMAIN t /\ i = Len(s) + (i - Len(s))
      BY <1>1, <1>5, <2>2
    <3> QED
      BY <1>7, <3>1
  <2> QED
    BY <2>1, <2>2
<1> QED
  BY <1>1, <1>4, <1>5, <1>6, <1>7, <1>8

LEMMA Empty ==
    ASSUME NEW S
    PROVE  <<>> \in Seq(S) /\ Len(<<>>) = 0 /\ DOMAIN <<>> = {}
  OBVIOUS

LEMMA NoElements ==
    ASSUME NEW S, NEW s \in Seq(S), Len(s) = 0
    PROVE  s = <<>>
  OBVIOUS

LEMMA OneMore ==
    ASSUME NEW S, NEW s \in Seq(S), NEW x \in S
    PROVE  /\ Append(s, x) \in Seq(S)
           /\ Len(Append(s, x)) = Len(s) + 1 /\ Len(s) \in Nat
           /\ DOMAIN s = 1 .. Len(s) /\ DOMAIN Append(s, x) = 1 .. Len(s) + 1
           /\ \A i \in 1 .. Len(s) : Append(s, x)[i] = s[i]
           /\ Append(s, x)[Len(s) + 1] = x
  OBVIOUS

LEMMA LessIs ==
    ASSUME NEW a \in Int, NEW b \in Int, NEW c \in Int, NEW d \in Int,
           NEW e \in Int, NEW f \in Int, NEW g \in Int, NEW h \in Int,
           \/ a < e
           \/ a = e /\ b < f
           \/ a = e /\ b = f /\ c < g
           \/ a = e /\ b = f /\ c = g /\ d < h
    PROVE  Less(<<a, b, c, d>>, <<e, f, g, h>>)
<1> DEFINE s == <<a, b, c, d>>
           t == <<e, f, g, h>>
<1>1. /\ DOMAIN s = 1 .. 4
      /\ s[1] = a /\ s[2] = b /\ s[3] = c /\ s[4] = d
      /\ t[1] = e /\ t[2] = f /\ t[3] = g /\ t[4] = h
  OBVIOUS
<1> HIDE DEF s, t
<1>2. CASE a < e
  <2>1. \A j \in 1 .. 1 - 1 : s[j] = t[j]
    OBVIOUS
  <2> QED
    BY <1>1, <1>2, <2>1 DEF Less
<1>3. CASE a = e /\ b < f
  <2>1. \A j \in 1 .. 2 - 1 : s[j] = t[j]
    BY <1>1, <1>3
  <2> QED
    BY <1>1, <1>3, <2>1 DEF Less
<1>4. CASE a = e /\ b = f /\ c < g
  <2>1. \A j \in 1 .. 3 - 1 : s[j] = t[j]
    BY <1>1, <1>4
  <2> QED
    BY <1>1, <1>4, <2>1 DEF Less
<1>5. CASE a = e /\ b = f /\ c = g /\ d < h
  <2>1. \A j \in 1 .. 4 - 1 : s[j] = t[j]
    <3>1. \A j \in 1 .. 4 - 1 : j = 1 \/ j = 2 \/ j = 3
      OBVIOUS
    <3> QED
      BY <1>1, <1>5, <3>1
  <2> QED
    BY <1>1, <1>5, <2>1 DEF Less
<1> QED
  BY <1>2, <1>3, <1>4, <1>5

Causes == {"invalid-id", "duplicate-id", "nil-condition", "nil-action"}
CauseSpace == [cause : Causes, first : Nat \cup {Absent}]

LEMMA RankIs ==
    /\ Rank["invalid-id"] = 1 /\ Rank["duplicate-id"] = 2
    /\ Rank["nil-condition"] = 3 /\ Rank["nil-action"] = 4
    /\ \A c \in Causes : Rank[c] \in 1 .. 4
<1>1. /\ Rank["invalid-id"] = 1 /\ Rank["duplicate-id"] = 2
      /\ Rank["nil-condition"] = 3 /\ Rank["nil-action"] = 4
  BY DEF Rank
<1> QED
  BY <1>1 DEF Causes

(***************************************************************************)
(* The issues of one rule are its faults, by rank, each once.              *)
(***************************************************************************)
Ranks(rule, seen) ==
    (IF rule.id \notin ValidIDs THEN {1} ELSE IF seen[rule.id] # Absent THEN {2} ELSE {})
    \cup (IF rule.condition THEN {} ELSE {3})
    \cup (IF rule.action THEN {} ELSE {4})

(* Causes as issues have them: of these ranks, rising. *)
Tells(found, ranks) ==
    /\ found \in Seq(CauseSpace)
    /\ \A i \in DOMAIN found : Rank[found[i].cause] \in ranks
    /\ \A r \in ranks : \E i \in DOMAIN found : Rank[found[i].cause] = r
    /\ \A i, j \in DOMAIN found : i < j => Rank[found[i].cause] < Rank[found[j].cause]

LEMMA TellsNothing == Tells(<<>>, {})
  BY Empty DEF Tells

LEMMA TellsOne ==
    ASSUME NEW c \in CauseSpace
    PROVE  Tells(<<c>>, {Rank[c.cause]})
<1>1. <<c>> \in Seq(CauseSpace) /\ DOMAIN <<c>> = {1} /\ <<c>>[1] = c
  OBVIOUS
<1>2. PICK s : s = <<c>>
  OBVIOUS
<1>3. s \in Seq(CauseSpace) /\ DOMAIN s = {1} /\ s[1] = c
  BY <1>1, <1>2
<1>4. Tells(s, {Rank[c.cause]})
  BY <1>3 DEF Tells
<1> QED
  BY <1>2, <1>4

LEMMA TellsBoth ==
    ASSUME NEW s, NEW t, NEW R \in SUBSET (1 .. 4), NEW Q \in SUBSET (1 .. 4),
           Tells(s, R), Tells(t, Q), \A r \in R, q \in Q : r < q
    PROVE  Tells(s \o t, R \cup Q)
<1>1. s \in Seq(CauseSpace) /\ t \in Seq(CauseSpace)
  BY DEF Tells
<1>2. PICK u : u = s \o t
  OBVIOUS
<1>3. /\ u \in Seq(CauseSpace)
      /\ Len(s) \in Nat /\ Len(t) \in Nat
      /\ DOMAIN s = 1 .. Len(s) /\ DOMAIN t = 1 .. Len(t)
      /\ DOMAIN u = 1 .. Len(s) + Len(t)
      /\ \A i \in DOMAIN s : i \in DOMAIN u /\ u[i] = s[i]
      /\ \A i \in DOMAIN t : Len(s) + i \in DOMAIN u /\ u[Len(s) + i] = t[i]
      /\ \A i \in DOMAIN u : \/ i \in DOMAIN s /\ u[i] = s[i]
                             \/ \E j \in DOMAIN t : i = Len(s) + j /\ u[i] = t[j]
  BY <1>1, <1>2, Concatenated
<1>4. \A i \in DOMAIN u : Rank[u[i].cause] \in R \cup Q
  BY <1>3 DEF Tells
<1>5. ASSUME NEW r \in R \cup Q
      PROVE  \E i \in DOMAIN u : Rank[u[i].cause] = r
  <2>1. CASE r \in R
    <3>1. PICK i \in DOMAIN s : Rank[s[i].cause] = r
      BY <2>1 DEF Tells
    <3>2. i \in DOMAIN u /\ u[i] = s[i]
      BY <1>3
    <3> QED
      BY <3>1, <3>2
  <2>2. CASE r \in Q
    <3>1. PICK i \in DOMAIN t : Rank[t[i].cause] = r
      BY <2>2 DEF Tells
    <3>2. Len(s) + i \in DOMAIN u /\ u[Len(s) + i] = t[i]
      BY <1>3
    <3> QED
      BY <3>1, <3>2
  <2> QED
    BY <2>1, <2>2
<1>6. ASSUME NEW i \in DOMAIN u, NEW j \in DOMAIN u, i < j
      PROVE  Rank[u[i].cause] < Rank[u[j].cause]
  <2>1. CASE i \in DOMAIN s /\ u[i] = s[i] /\ j \in DOMAIN s /\ u[j] = s[j]
    BY <1>6, <2>1 DEF Tells
  <2>2. ASSUME i \in DOMAIN s, u[i] = s[i], NEW l \in DOMAIN t, j = Len(s) + l, u[j] = t[l]
        PROVE  Rank[u[i].cause] < Rank[u[j].cause]
    BY <2>2 DEF Tells
  <2>3. ASSUME NEW k \in DOMAIN t, i = Len(s) + k, u[i] = t[k],
               NEW l \in DOMAIN t, j = Len(s) + l, u[j] = t[l]
        PROVE  Rank[u[i].cause] < Rank[u[j].cause]
    <3>1. k < l
      BY <1>3, <1>6, <2>3
    <3> QED
      BY <2>3, <3>1 DEF Tells
  <2>4. ASSUME NEW k \in DOMAIN t, i = Len(s) + k, j \in DOMAIN s
        PROVE  FALSE
    BY <1>3, <1>6, <2>4
  <2> QED
    BY <1>3, <2>1, <2>2, <2>3, <2>4
<1>7. Tells(u, R \cup Q)
  BY <1>3, <1>4, <1>5, <1>6 DEF Tells
<1> QED
  BY <1>2, <1>7

LEMMA IdentityTells ==
    ASSUME NEW id, NEW seen \in [ValidIDs -> Nat \cup {Absent}]
    PROVE  /\ Tells(IdentityIssues(id, seen),
                    IF id \notin ValidIDs THEN {1} ELSE IF seen[id] # Absent THEN {2} ELSE {})
           /\ \A i \in DOMAIN IdentityIssues(id, seen) :
                 /\ IdentityIssues(id, seen)[i].cause \in {"invalid-id", "duplicate-id"}
                 /\ IdentityIssues(id, seen)[i].cause = "duplicate-id" =>
                       id \in ValidIDs /\ IdentityIssues(id, seen)[i].first = seen[id]
                                       /\ seen[id] # Absent
<1>1. CASE id \notin ValidIDs
  <2> DEFINE c == [cause |-> "invalid-id", first |-> Absent]
  <2>1. c \in CauseSpace /\ c.cause = "invalid-id"
    BY DEF CauseSpace, Causes
  <2>2. IdentityIssues(id, seen) = <<c>>
    BY <1>1 DEF IdentityIssues
  <2> HIDE DEF c
  <2>3. Tells(<<c>>, {1})
    BY <2>1, TellsOne, RankIs
  <2>4. DOMAIN <<c>> = {1} /\ <<c>>[1] = c
    OBVIOUS
  <2> QED
    BY <1>1, <2>1, <2>2, <2>3, <2>4
<1>2. CASE id \in ValidIDs /\ seen[id] # Absent
  <2> DEFINE c == [cause |-> "duplicate-id", first |-> seen[id]]
  <2>1. c \in CauseSpace /\ c.cause = "duplicate-id" /\ c.first = seen[id]
    BY <1>2 DEF CauseSpace, Causes
  <2>2. IdentityIssues(id, seen) = <<c>>
    BY <1>2 DEF IdentityIssues
  <2> HIDE DEF c
  <2>3. Tells(<<c>>, {2})
    BY <2>1, TellsOne, RankIs
  <2>4. DOMAIN <<c>> = {1} /\ <<c>>[1] = c
    OBVIOUS
  <2> QED
    BY <1>2, <2>1, <2>2, <2>3, <2>4
<1>3. CASE id \in ValidIDs /\ seen[id] = Absent
  <2>1. IdentityIssues(id, seen) = <<>>
    BY <1>3 DEF IdentityIssues
  <2> QED
    BY <1>3, <2>1, TellsNothing, Empty
<1> QED
  BY <1>1, <1>2, <1>3

LEMMA CallbacksTell ==
    ASSUME NEW rule
    PROVE  /\ Tells(MissingCallbacks(rule), (IF rule.condition THEN {} ELSE {3})
                                             \cup (IF rule.action THEN {} ELSE {4}))
           /\ \A i \in DOMAIN MissingCallbacks(rule) :
                 MissingCallbacks(rule)[i].cause \in {"nil-condition", "nil-action"}
<1> DEFINE A == IF rule.condition THEN {} ELSE {3}
           B == IF rule.action THEN {} ELSE {4}
           s == IF rule.condition THEN <<>> ELSE <<[cause |-> "nil-condition", first |-> Absent]>>
           t == IF rule.action THEN <<>> ELSE <<[cause |-> "nil-action", first |-> Absent]>>
<1>1. /\ [cause |-> "nil-condition", first |-> Absent] \in CauseSpace
      /\ [cause |-> "nil-action", first |-> Absent] \in CauseSpace
  BY DEF CauseSpace, Causes
<1>2. Tells(s, A)
  <2>1. CASE rule.condition
    BY <2>1, TellsNothing
  <2>2. CASE ~rule.condition
    <3>1. s = <<[cause |-> "nil-condition", first |-> Absent]>> /\ A = {3}
      BY <2>2
    <3> HIDE DEF s, A
    <3> QED
      BY <1>1, <3>1, TellsOne, RankIs
  <2> QED
    BY <2>1, <2>2
<1>3. Tells(t, B)
  <2>1. CASE rule.action
    BY <2>1, TellsNothing
  <2>2. CASE ~rule.action
    <3>1. t = <<[cause |-> "nil-action", first |-> Absent]>> /\ B = {4}
      BY <2>2
    <3> HIDE DEF t, B
    <3> QED
      BY <1>1, <3>1, TellsOne, RankIs
  <2> QED
    BY <2>1, <2>2
<1>4. A \in SUBSET (1 .. 4) /\ B \in SUBSET (1 .. 4) /\ \A r \in A, q \in B : r < q
  OBVIOUS
<1>7. A \subseteq {3, 4} /\ B \subseteq {3, 4}
  OBVIOUS
<1> HIDE DEF A, B, s, t
<1>5. Tells(s \o t, A \cup B)
  BY <1>2, <1>3, <1>4, TellsBoth
<1>6. MissingCallbacks(rule) = s \o t
  BY DEF MissingCallbacks, s, t
<1>8. PICK u : u = s \o t
  OBVIOUS
<1>9. Tells(u, A \cup B)
  BY <1>5, <1>8
<1>10. \A i \in DOMAIN u : u[i].cause \in Causes /\ Rank[u[i].cause] \in {3, 4}
  <2>1. u \in Seq(CauseSpace) /\ \A i \in DOMAIN u : Rank[u[i].cause] \in A \cup B
    BY <1>9 DEF Tells
  <2>2. \A i \in DOMAIN u : u[i] \in CauseSpace
    BY <2>1
  <2> QED
    BY <1>7, <2>1, <2>2 DEF CauseSpace
<1>11. \A i \in DOMAIN u : u[i].cause \in {"nil-condition", "nil-action"}
  BY <1>10, RankIs DEF Causes
<1>12. Tells(MissingCallbacks(rule), A \cup B)
  BY <1>6, <1>8, <1>9
<1> QED
  BY <1>6, <1>8, <1>11, <1>12 DEF A, B

LEMMA RuleTells ==
    ASSUME NEW rule, NEW seen \in [ValidIDs -> Nat \cup {Absent}]
    PROVE  LET found == IdentityIssues(rule.id, seen) \o MissingCallbacks(rule)
           IN  /\ Tells(found, Ranks(rule, seen))
               /\ \A i \in DOMAIN found : found[i].cause = "duplicate-id" =>
                     rule.id \in ValidIDs /\ found[i].first = seen[rule.id]
                                          /\ seen[rule.id] # Absent
<1> DEFINE A == IF rule.id \notin ValidIDs THEN {1}
                ELSE IF seen[rule.id] # Absent THEN {2} ELSE {}
           B == (IF rule.condition THEN {} ELSE {3}) \cup (IF rule.action THEN {} ELSE {4})
<1>1. PICK s : s = IdentityIssues(rule.id, seen)
  OBVIOUS
<1>2. PICK t : t = MissingCallbacks(rule)
  OBVIOUS
<1>3. Tells(s, A) /\ \A i \in DOMAIN s : s[i].cause = "duplicate-id" =>
        rule.id \in ValidIDs /\ s[i].first = seen[rule.id] /\ seen[rule.id] # Absent
  BY <1>1, IdentityTells
<1>4. Tells(t, B) /\ \A i \in DOMAIN t : t[i].cause # "duplicate-id"
  BY <1>2, CallbacksTell
<1>5. A \in SUBSET (1 .. 4) /\ B \in SUBSET (1 .. 4) /\ \A r \in A, q \in B : r < q
  OBVIOUS
<1>6. Ranks(rule, seen) = A \cup B
  BY DEF Ranks
<1> HIDE DEF A, B
<1>7. Tells(s \o t, A \cup B)
  BY <1>3, <1>4, <1>5, TellsBoth
<1>8. s \in Seq(CauseSpace) /\ t \in Seq(CauseSpace)
  BY <1>3, <1>4 DEF Tells
<1>9. \A i \in DOMAIN (s \o t) : \/ i \in DOMAIN s /\ (s \o t)[i] = s[i]
                                 \/ \E j \in DOMAIN t : i = Len(s) + j /\ (s \o t)[i] = t[j]
  BY <1>8, Concatenated
<1> QED
  BY <1>1, <1>2, <1>3, <1>4, <1>6, <1>7, <1>9

LEMMA LocatedIs ==
    ASSUME index \in Nat, NEW found \in Seq(CauseSpace), NEW m \in Nat, NEW id, NEW group, NEW place,
           id \in ValidIDs \cup {NoID}, group \in ValidIDs \cup {NoID},
           place \in {"rule", "member", "group"},
           NEW placed, placed = Located(found, m, id, group, place)
    PROVE  /\ placed \in Seq(IssueSpace) /\ DOMAIN placed = DOMAIN found
           /\ \A i \in DOMAIN found :
                /\ placed[i].index = index /\ placed[i].member = m
                /\ placed[i].id = id /\ placed[i].place = place
                /\ placed[i].cause = found[i].cause /\ placed[i].first = found[i].first
<1>1. \A i \in DOMAIN found : found[i].cause \in Causes /\ found[i].first \in Nat \cup {Absent}
  <2>1. \A i \in DOMAIN found : found[i] \in CauseSpace
    OBVIOUS
  <2>2. \A c \in CauseSpace : c.cause \in Causes /\ c.first \in Nat \cup {Absent}
    BY DEF CauseSpace
  <2> QED
    BY <2>1, <2>2
<1>2. DOMAIN found = 1 .. Len(found) /\ Len(found) \in Nat
  OBVIOUS
<1>3. placed = Located(found, m, id, group, place)
  OBVIOUS
<1>7. placed = [i \in 1 .. Len(found) |-> placed[i]]
  BY <1>2, <1>3 DEF Located
<1>4. /\ placed = [i \in 1 .. Len(found) |-> placed[i]]
      /\ \A i \in DOMAIN found :
           /\ placed[i].index = index /\ placed[i].member = m
           /\ placed[i].id = id /\ placed[i].place = place
           /\ placed[i].cause = found[i].cause /\ placed[i].first = found[i].first
  BY <1>2, <1>3, <1>7 DEF Located
<1>5. \A i \in DOMAIN found : placed[i] \in IssueSpace
  <2> SUFFICES ASSUME NEW i \in DOMAIN found
               PROVE  placed[i] \in IssueSpace
    OBVIOUS
  <2>1. placed[i] = [index |-> index, member |-> m, id |-> id, group |-> group, place |-> place,
                     cause |-> found[i].cause, first |-> found[i].first]
    BY <1>3 DEF Located
  <2> QED
    BY <1>1, <2>1 DEF IssueSpace, Causes
<1>6. placed \in Seq(IssueSpace)
  <2>1. placed \in [1 .. Len(found) -> IssueSpace]
    BY <1>2, <1>4, <1>5
  <2> QED
    BY <1>2, <2>1
<1> QED
  BY <1>2, <1>3, <1>4, <1>6

-----------------------------------------------------------------------------
LEMMA PositionIs ==
    ASSUME NEW k, NEW m, NEW r
    PROVE  /\ Position(RuleFault(k, m, r)) = <<k - 1, 1, m - 1, r>>
           /\ Position(GroupFault(k, r)) = <<k - 1, 0, 0, r>>
<1>1. /\ RuleFault(k, m, r).index = k - 1 /\ RuleFault(k, m, r).member = m - 1
      /\ RuleFault(k, m, r).place # "group" /\ RuleFault(k, m, r).rank = r
  BY DEF RuleFault, KindAt
<1>2. /\ GroupFault(k, r).index = k - 1 /\ GroupFault(k, r).member = 0
      /\ GroupFault(k, r).place = "group" /\ GroupFault(k, r).rank = r
  BY DEF GroupFault
<1> QED
  BY <1>1, <1>2 DEF Position

LEMMA RanksTyped ==
    /\ \A k, m : RuleFaults(k, m) \subseteq 1 .. 4
    /\ \A k : GroupFaults(k) \subseteq 1 .. 4
    /\ \A k, m : \A r \in RuleFaults(k, m) : r \in Int
    /\ \A k : \A r \in GroupFaults(k) : r \in Int
<1>1. \A k, m : RuleFaults(k, m) \subseteq 1 .. 4
  BY DEF RuleFaults
<1>2. \A k : GroupFaults(k) \subseteq 1 .. 4
  BY DEF GroupFaults
<1> QED
  BY <1>1, <1>2

LEMMA RuleAfterRule ==
    ASSUME NEW j \in Int, NEW l \in Int, NEW q \in Int, NEW k \in Int, NEW m \in Int, NEW r \in Int,
           Earlier(j, l, k, m) \/ (j = k /\ l = m /\ q < r)
    PROVE  Less(Position(RuleFault(j, l, q)), Position(RuleFault(k, m, r)))
<1>1. PICK a, c, e, g : a = j - 1 /\ c = l - 1 /\ e = k - 1 /\ g = m - 1
  OBVIOUS
<1>2. /\ a \in Int /\ c \in Int /\ e \in Int /\ g \in Int
      /\ \/ a < e
         \/ a = e /\ c < g
         \/ a = e /\ c = g /\ q < r
  BY <1>1 DEF Earlier
<1>3. Less(<<a, 1, c, q>>, <<e, 1, g, r>>)
  <2>1. CASE a < e
    BY <1>2, <2>1, LessIs, SMTT(30)
  <2>2. CASE a = e /\ c < g
    BY <1>2, <2>2, LessIs
  <2>3. CASE a = e /\ c = g /\ q < r
    BY <1>2, <2>3, LessIs
  <2> QED
    BY <1>2, <2>1, <2>2, <2>3
<1> QED
  BY <1>1, <1>3, PositionIs

LEMMA RuleAfterGroup ==
    ASSUME NEW j \in Int, NEW q \in Int, NEW k \in Int, NEW m \in Int, NEW r \in Int, j <= k
    PROVE  Less(Position(GroupFault(j, q)), Position(RuleFault(k, m, r)))
<1>1. PICK a, e, g : a = j - 1 /\ e = k - 1 /\ g = m - 1
  OBVIOUS
<1>2. a \in Int /\ e \in Int /\ g \in Int /\ (a < e \/ a = e)
  BY <1>1
<1>3. Less(<<a, 0, 0, q>>, <<e, 1, g, r>>)
  BY <1>2, LessIs, SMTT(30)
<1> QED
  BY <1>1, <1>3, PositionIs

LEMMA GroupAfterRule ==
    ASSUME NEW j \in Int, NEW l \in Int, NEW q \in Int, NEW k \in Int, NEW r \in Int, j < k
    PROVE  Less(Position(RuleFault(j, l, q)), Position(GroupFault(k, r)))
<1>1. PICK a, c, e : a = j - 1 /\ c = l - 1 /\ e = k - 1
  OBVIOUS
<1>2. a \in Int /\ c \in Int /\ e \in Int /\ a < e
  BY <1>1
<1>3. Less(<<a, 1, c, q>>, <<e, 0, 0, r>>)
  BY <1>2, LessIs, SMTT(30)
<1> QED
  BY <1>1, <1>3, PositionIs

LEMMA GroupAfterGroup ==
    ASSUME NEW j \in Int, NEW q \in Int, NEW k \in Int, NEW r \in Int, j < k
    PROVE  Less(Position(GroupFault(j, q)), Position(GroupFault(k, r)))
<1>1. PICK a, e : a = j - 1 /\ e = k - 1
  OBVIOUS
<1>2. a \in Int /\ e \in Int /\ a < e
  BY <1>1
<1>3. Less(<<a, 0, 0, q>>, <<e, 0, 0, r>>)
  BY <1>2, LessIs
<1> QED
  BY <1>1, <1>3, PositionIs

(* What is added to the issues leaves them sorted, and loses none. *)
LEMMA Extended ==
    ASSUME NEW placed \in Seq(IssueSpace), issues \in Seq(IssueSpace),
           issues' = issues \o placed,
           \A i, j \in DOMAIN issues :
              i < j => Less(Position(FoundOf(issues[i])), Position(FoundOf(issues[j]))),
           \A i, j \in DOMAIN placed :
              i < j => Less(Position(FoundOf(placed[i])), Position(FoundOf(placed[j]))),
           \A i \in DOMAIN issues, j \in DOMAIN placed :
              Less(Position(FoundOf(issues[i])), Position(FoundOf(placed[j])))
    PROVE  /\ issues' \in Seq(IssueSpace)
           /\ \A i \in DOMAIN issues' : \/ i \in DOMAIN issues /\ issues'[i] = issues[i]
                                        \/ \E j \in DOMAIN placed : issues'[i] = placed[j]
           /\ \A i \in DOMAIN issues : i \in DOMAIN issues' /\ issues'[i] = issues[i]
           /\ \A j \in DOMAIN placed : \E i \in DOMAIN issues' : issues'[i] = placed[j]
           /\ \A i, j \in DOMAIN issues' :
                 i < j => Less(Position(FoundOf(issues'[i])), Position(FoundOf(issues'[j])))
<1>1. PICK s, u : s = issues /\ u = issues'
  OBVIOUS
<1>2. /\ u \in Seq(IssueSpace)
      /\ Len(s) \in Nat /\ Len(placed) \in Nat
      /\ DOMAIN s = 1 .. Len(s) /\ DOMAIN placed = 1 .. Len(placed)
      /\ DOMAIN u = 1 .. Len(s) + Len(placed)
      /\ \A i \in DOMAIN s : i \in DOMAIN u /\ u[i] = s[i]
      /\ \A i \in DOMAIN placed : Len(s) + i \in DOMAIN u /\ u[Len(s) + i] = placed[i]
      /\ \A i \in DOMAIN u : \/ i \in DOMAIN s /\ u[i] = s[i]
                             \/ \E j \in DOMAIN placed : i = Len(s) + j /\ u[i] = placed[j]
  <2>1. s \in Seq(IssueSpace) /\ u = s \o placed
    BY <1>1
  <2> QED
    BY <2>1, Concatenated, SMTT(30)
<1>3. ASSUME NEW i \in DOMAIN u, NEW j \in DOMAIN u, i < j
      PROVE  Less(Position(FoundOf(u[i])), Position(FoundOf(u[j])))
  <2>1. CASE i \in DOMAIN s /\ u[i] = s[i] /\ j \in DOMAIN s /\ u[j] = s[j]
    BY <1>1, <1>3, <2>1
  <2>2. ASSUME i \in DOMAIN s, u[i] = s[i],
               NEW l \in DOMAIN placed, j = Len(s) + l, u[j] = placed[l]
        PROVE  Less(Position(FoundOf(u[i])), Position(FoundOf(u[j])))
    BY <1>1, <2>2
  <2>3. ASSUME NEW k \in DOMAIN placed, i = Len(s) + k, u[i] = placed[k],
               NEW l \in DOMAIN placed, j = Len(s) + l, u[j] = placed[l]
        PROVE  Less(Position(FoundOf(u[i])), Position(FoundOf(u[j])))
    <3>1. k < l
      BY <1>2, <1>3, <2>3
    <3> QED
      BY <2>3, <3>1
  <2>4. ASSUME NEW k \in DOMAIN placed, i = Len(s) + k, j \in DOMAIN s
        PROVE  FALSE
    BY <1>2, <1>3, <2>4
  <2> QED
    BY <1>2, <2>1, <2>2, <2>3, <2>4
<1> QED
  BY <1>1, <1>2, <1>3

(***************************************************************************)
(* Validating one rule, of its own or of a group.                          *)
(***************************************************************************)
LEMMA RuleChecked ==
    ASSUME defs \in Definitions, defs' = defs, index \in Nat,
           NEW k \in DOMAIN defs, k = index + 1, NEW m \in Parts(k),
           NEW group \in ValidIDs \cup {NoID},
           pc \in {"validate", "members"}, pc' \in {"validate", "members"},
           byID \in [ValidIDs -> Nat \cup {Absent}],
           SeenInv, FoundInv, FirstInv,
           \A j \in DOMAIN defs : \A l \in Parts(j) :
              /\ PartPassed(j, l) <=> Earlier(j, l, k, m)
              /\ PartPassed(j, l)' <=> PartPassed(j, l) \/ (j = k /\ l = m),
           \A j \in DOMAIN defs : Grouped(j) =>
              /\ GroupPassed(j)' <=> GroupPassed(j)
              /\ GroupPassed(j) => j <= k,
           Validate(RuleAt(k, m), m - 1, group, KindAt(k)), byGroupID' = byGroupID
    PROVE  /\ byID' \in [ValidIDs -> Nat \cup {Absent}]
           /\ SeenInv' /\ FoundInv' /\ FirstInv'
<1>1. PICK rule : rule = RuleAt(k, m)
  OBVIOUS
<1>2. k \in Nat /\ k >= 1 /\ m \in Nat /\ m >= 1
  BY PartsTyped
<1>3. ASSUME rule.id \in ValidIDs
      PROVE  byID[rule.id] # Absent <=> \E j \in DOMAIN defs : \E l \in Parts(j) :
                Earlier(j, l, k, m) /\ RuleAt(j, l).id = rule.id
  BY <1>3 DEF SeenInv
<1>4. Ranks(rule, byID) = RuleFaults(k, m)
  BY <1>1, <1>3 DEF Ranks, RuleFaults
<1>5. PICK found : found = IdentityIssues(rule.id, byID) \o MissingCallbacks(rule)
  OBVIOUS
<1>6. /\ Tells(found, RuleFaults(k, m))
      /\ \A i \in DOMAIN found : found[i].cause = "duplicate-id" =>
            rule.id \in ValidIDs /\ found[i].first = byID[rule.id] /\ byID[rule.id] # Absent
  BY <1>4, <1>5, RuleTells
<1>7. found \in Seq(CauseSpace)
  BY <1>6 DEF Tells
<1>8. PICK placed : placed = Located(found, m - 1, Known(rule.id), group, KindAt(k))
  OBVIOUS
<1>9. /\ placed \in Seq(IssueSpace) /\ DOMAIN placed = DOMAIN found
      /\ \A i \in DOMAIN found :
           /\ placed[i].index = index /\ placed[i].member = m - 1
           /\ placed[i].id = Known(rule.id) /\ placed[i].place = KindAt(k)
           /\ placed[i].cause = found[i].cause /\ placed[i].first = found[i].first
  <2>1. /\ m - 1 \in Nat /\ Known(rule.id) \in ValidIDs \cup {NoID}
        /\ KindAt(k) \in {"rule", "member", "group"}
    BY <1>2 DEF Known, KindAt
  <2>2. PICK n, id, place : n = m - 1 /\ id = Known(rule.id) /\ place = KindAt(k)
    OBVIOUS
  <2>3. /\ n \in Nat /\ id \in ValidIDs \cup {NoID} /\ place \in {"rule", "member", "group"}
        /\ placed = Located(found, n, id, group, place)
    BY <1>8, <2>1, <2>2
  <2>4. /\ placed \in Seq(IssueSpace) /\ DOMAIN placed = DOMAIN found
        /\ \A i \in DOMAIN found :
             /\ placed[i].index = index /\ placed[i].member = n
             /\ placed[i].id = id /\ placed[i].place = place
             /\ placed[i].cause = found[i].cause /\ placed[i].first = found[i].first
    BY <1>7, <2>3, LocatedIs
  <2> QED
    BY <2>2, <2>4
<1>10. issues' = issues \o placed /\ byID' = Seen(rule.id, byID)
  BY <1>1, <1>5, <1>8 DEF Validate
<1>11. \A i \in DOMAIN placed : FoundOf(placed[i]) = RuleFault(k, m, Rank[found[i].cause])
  BY <1>2, <1>9 DEF FoundOf, RuleFault
<1>12. \A i \in DOMAIN found : Rank[found[i].cause] \in RuleFaults(k, m) /\ Rank[found[i].cause] \in Int
  BY <1>6, RanksTyped DEF Tells
<1>13. ASSUME NEW i \in DOMAIN placed, NEW j \in DOMAIN placed, i < j
       PROVE  Less(Position(FoundOf(placed[i])), Position(FoundOf(placed[j])))
  <2>1. /\ Rank[found[i].cause] \in Int /\ Rank[found[j].cause] \in Int
        /\ Rank[found[i].cause] < Rank[found[j].cause]
    BY <1>6, <1>9, <1>12, <1>13 DEF Tells
  <2>2. k \in Int /\ m \in Int
    BY <1>2
  <2> QED
    BY <1>11, <2>1, <2>2, RuleAfterRule, SMTT(30)
<1>14. ASSUME NEW i \in DOMAIN issues, NEW j \in DOMAIN placed
       PROVE  Less(Position(FoundOf(issues[i])), Position(FoundOf(placed[j])))
  <2>1. PICK r : r = Rank[found[j].cause]
    OBVIOUS
  <2>2. r \in Int /\ k \in Int /\ m \in Int /\ FoundOf(placed[j]) = RuleFault(k, m, r)
    BY <1>2, <1>9, <1>11, <1>12, <2>1
  <2>3. TrueFault(FoundOf(issues[i]))
    BY DEF FoundInv
  <2>4. ASSUME NEW j1 \in DOMAIN defs, NEW l \in Parts(j1), NEW q \in RuleFaults(j1, l),
               PartPassed(j1, l), FoundOf(issues[i]) = RuleFault(j1, l, q)
        PROVE  Less(Position(FoundOf(issues[i])), Position(FoundOf(placed[j])))
    <3>1. Earlier(j1, l, k, m)
      BY <2>4
    <3>2. j1 \in Int /\ l \in Int /\ q \in Int
      BY PartsTyped, RanksTyped
    <3> QED
      BY <2>2, <2>4, <3>1, <3>2, RuleAfterRule
  <2>5. ASSUME NEW j1 \in DOMAIN defs, NEW q \in GroupFaults(j1),
               Grouped(j1), GroupPassed(j1), FoundOf(issues[i]) = GroupFault(j1, q)
        PROVE  Less(Position(FoundOf(issues[i])), Position(FoundOf(placed[j])))
    <3>1. j1 <= k
      BY <2>5
    <3>2. j1 \in Int /\ q \in Int
      BY PartsTyped, RanksTyped
    <3> QED
      BY <2>2, <2>5, <3>1, <3>2, RuleAfterGroup
  <2> QED
    BY <2>3, <2>4, <2>5 DEF TrueFault
<1>15. /\ issues' \in Seq(IssueSpace)
       /\ \A i \in DOMAIN issues' : \/ i \in DOMAIN issues /\ issues'[i] = issues[i]
                                    \/ \E j \in DOMAIN placed : issues'[i] = placed[j]
       /\ \A i \in DOMAIN issues : i \in DOMAIN issues' /\ issues'[i] = issues[i]
       /\ \A j \in DOMAIN placed : \E i \in DOMAIN issues' : issues'[i] = placed[j]
       /\ \A i, j \in DOMAIN issues' :
             i < j => Less(Position(FoundOf(issues'[i])), Position(FoundOf(issues'[j])))
  BY <1>9, <1>10, <1>13, <1>14, Extended DEF FoundInv
<1>16. \A f : TrueFault(f) => TrueFault(f)'
  <2> SUFFICES ASSUME NEW f, TrueFault(f)
               PROVE  TrueFault(f)'
    OBVIOUS
  <2>1. ASSUME NEW j \in DOMAIN defs, NEW l \in Parts(j), NEW r \in RuleFaults(j, l),
               PartPassed(j, l), f = RuleFault(j, l, r)
        PROVE  TrueFault(f)'
    <3>1. PartPassed(j, l)'
      BY <2>1
    <3> QED
      BY <2>1, <3>1, SameList DEF TrueFault
  <2>2. ASSUME NEW j \in DOMAIN defs, NEW r \in GroupFaults(j),
               Grouped(j), GroupPassed(j), f = GroupFault(j, r)
        PROVE  TrueFault(f)'
    <3>1. GroupPassed(j)'
      BY <2>2
    <3> QED
      BY <2>2, <3>1, SameList DEF TrueFault
  <2> QED
    BY <2>1, <2>2 DEF TrueFault
<1>18. \A f : IsFound(f) => IsFound(f)'
  BY <1>15 DEF IsFound
<1>19. \A r \in RuleFaults(k, m) : \E i \in DOMAIN issues' : FoundOf(issues'[i]) = RuleFault(k, m, r)
  <2> SUFFICES ASSUME NEW r \in RuleFaults(k, m)
               PROVE  \E i \in DOMAIN issues' : FoundOf(issues'[i]) = RuleFault(k, m, r)
    OBVIOUS
  <2>1. PICK j \in DOMAIN found : Rank[found[j].cause] = r
    BY <1>6 DEF Tells
  <2>2. j \in DOMAIN placed /\ FoundOf(placed[j]) = RuleFault(k, m, r)
    BY <1>9, <1>11, <2>1
  <2>3. PICK i \in DOMAIN issues' : issues'[i] = placed[j]
    BY <1>15, <2>2
  <2> QED
    BY <2>2, <2>3
<1>20. FoundInv'
  <2>1. \A i \in DOMAIN issues' : TrueFault(FoundOf(issues[i]))'
    <3> SUFFICES ASSUME NEW i \in DOMAIN issues', NEW f, f = FoundOf(issues'[i])
                 PROVE  TrueFault(f)'
      OBVIOUS
    <3>1. CASE i \in DOMAIN issues /\ issues'[i] = issues[i]
      <4>1. TrueFault(f)
        BY <3>1 DEF FoundInv
      <4> QED
        BY <1>16, <4>1
    <3>2. ASSUME NEW j \in DOMAIN placed, issues'[i] = placed[j]
          PROVE  TrueFault(f)'
      <4>1. /\ f = RuleFault(k, m, Rank[found[j].cause])
            /\ Rank[found[j].cause] \in RuleFaults(k, m)
        BY <1>9, <1>11, <1>12, <3>2
      <4>2. PICK r \in RuleFaults(k, m) : f = RuleFault(k, m, r)
        BY <4>1
      <4>3. PartPassed(k, m)'
        OBVIOUS
      <4> QED
        BY <4>2, <4>3, SameList DEF TrueFault
    <3> QED
      BY <1>15, <3>1, <3>2
  <2>2. ASSUME NEW j \in DOMAIN defs, NEW l \in Parts(j), PartPassed(j, l)',
               NEW r \in RuleFaults(j, l)
        PROVE  IsFound(RuleFault(j, l, r))'
    <3>1. CASE PartPassed(j, l)
      <4>1. PICK f : f = RuleFault(j, l, r)
        OBVIOUS
      <4>2. IsFound(f)
        BY <3>1, <4>1 DEF FoundInv
      <4> QED
        BY <1>18, <4>1, <4>2, SameList
    <3>2. CASE j = k /\ l = m
      BY <1>19, <3>2, SameList DEF IsFound
    <3> QED
      BY <2>2, <3>1, <3>2
  <2>3. ASSUME NEW j \in DOMAIN defs, Grouped(j), GroupPassed(j)', NEW r \in GroupFaults(j)
        PROVE  IsFound(GroupFault(j, r))'
    <3>1. GroupPassed(j)
      BY <2>3
    <3>2. PICK f : f = GroupFault(j, r)
      OBVIOUS
    <3>3. IsFound(f)
      BY <2>3, <3>1, <3>2 DEF FoundInv
    <3> QED
      BY <1>18, <3>2, <3>3
  <2> QED
    BY <1>15, <2>1, <2>2, <2>3, SameList DEF FoundInv
<1>21. byID' \in [ValidIDs -> Nat \cup {Absent}]
  BY <1>10 DEF Seen
<1>22. ASSUME NEW id \in ValidIDs, id = rule.id, byID[id] = Absent
       PROVE  /\ byID'[id] = k - 1
              /\ \A j \in DOMAIN defs : \A l \in Parts(j) : RuleAt(j, l).id = id => k - 1 <= j - 1
  <2>1. byID'[id] = k - 1
    BY <1>10, <1>22 DEF Seen
  <2>2. ASSUME NEW j \in DOMAIN defs, NEW l \in Parts(j), RuleAt(j, l).id = id
        PROVE  k - 1 <= j - 1
    <3>1. ~Earlier(j, l, k, m)
      BY <1>22, <2>2 DEF SeenInv
    <3>2. j \in Int
      BY PartsTyped
    <3> QED
      BY <1>2, <3>1, <3>2 DEF Earlier
  <2> QED
    BY <2>1, <2>2
<1>23. \A id \in ValidIDs : id # rule.id \/ byID[id] # Absent => byID'[id] = byID[id]
  BY <1>10 DEF Seen
<1>24. ASSUME NEW id \in ValidIDs
       PROVE  /\ byID'[id] = Absent =>
                    \A j \in DOMAIN defs : \A l \in Parts(j) : PartPassed(j, l)' => RuleAt(j, l).id # id
              /\ byID'[id] # Absent =>
                    /\ \E j \in DOMAIN defs : \E l \in Parts(j) :
                          PartPassed(j, l)' /\ RuleAt(j, l).id = id /\ byID'[id] = j - 1
                    /\ \A j \in DOMAIN defs : \A l \in Parts(j) :
                          RuleAt(j, l).id = id => byID'[id] <= j - 1
  <2>1. CASE id = rule.id /\ byID[id] = Absent
    <3>1. PartPassed(k, m)'
      OBVIOUS
    <3>2. k - 1 # Absent
      BY <1>2 DEF Absent
    <3> QED
      BY <1>1, <1>22, <2>1, <3>1, <3>2
  <2>2. CASE byID[id] # Absent
    <3>1. byID'[id] = byID[id]
      BY <1>23, <2>2
    <3>2. PICK j \in DOMAIN defs : \E l \in Parts(j) :
             PartPassed(j, l) /\ RuleAt(j, l).id = id /\ byID[id] = j - 1
      BY <2>2 DEF SeenInv
    <3>3. PICK l \in Parts(j) : PartPassed(j, l) /\ RuleAt(j, l).id = id /\ byID[id] = j - 1
      BY <3>2
    <3>4. PartPassed(j, l)'
      BY <3>3
    <3>5. \A j1 \in DOMAIN defs : \A l1 \in Parts(j1) : RuleAt(j1, l1).id = id => byID[id] <= j1 - 1
      BY <2>2 DEF SeenInv
    <3> QED
      BY <2>2, <3>1, <3>3, <3>4, <3>5
  <2>3. CASE id # rule.id /\ byID[id] = Absent
    <3>1. byID'[id] = Absent
      BY <1>23, <2>3
    <3>2. \A j \in DOMAIN defs : \A l \in Parts(j) : PartPassed(j, l) => RuleAt(j, l).id # id
      BY <2>3 DEF SeenInv
    <3> QED
      BY <1>1, <2>3, <3>1, <3>2
  <2> QED
    BY <2>1, <2>2, <2>3
<1>25. ASSUME NEW id \in ValidIDs
       PROVE  /\ byGroupID'[id] = Absent =>
                    \A j \in DOMAIN defs : Grouped(j) /\ GroupPassed(j)' => defs[j].id # id
              /\ byGroupID'[id] # Absent =>
                    \E j \in DOMAIN defs : Grouped(j) /\ GroupPassed(j)' /\ defs[j].id = id
  <2>1. /\ byGroupID[id] = Absent =>
              \A j \in DOMAIN defs : Grouped(j) /\ GroupPassed(j) => defs[j].id # id
        /\ byGroupID[id] # Absent =>
              \E j \in DOMAIN defs : Grouped(j) /\ GroupPassed(j) /\ defs[j].id = id
    BY DEF SeenInv
  <2> QED
    BY <2>1
<1>26. SeenInv'
  BY <1>24, <1>25, SameList DEF SeenInv
<1>27. ASSUME NEW i \in DOMAIN issues', issues'[i].cause = "duplicate-id", issues'[i].place # "group"
       PROVE  /\ \E j \in DOMAIN defs : \E l \in Parts(j) :
                    RuleAt(j, l).id = issues'[i].id /\ j - 1 = issues'[i].first
              /\ \A j \in DOMAIN defs : \A l \in Parts(j) :
                    RuleAt(j, l).id = issues'[i].id => issues'[i].first <= j - 1
  <2>1. CASE i \in DOMAIN issues /\ issues'[i] = issues[i]
    BY <1>27, <2>1 DEF FirstInv
  <2>2. ASSUME NEW p \in DOMAIN placed, issues'[i] = placed[p]
        PROVE  /\ \E j \in DOMAIN defs : \E l \in Parts(j) :
                      RuleAt(j, l).id = issues'[i].id /\ j - 1 = issues'[i].first
               /\ \A j \in DOMAIN defs : \A l \in Parts(j) :
                      RuleAt(j, l).id = issues'[i].id => issues'[i].first <= j - 1
    <3>1. /\ rule.id \in ValidIDs /\ issues'[i].id = rule.id
          /\ issues'[i].first = byID[rule.id] /\ byID[rule.id] # Absent
      BY <1>6, <1>9, <1>27, <2>2 DEF Known
    <3>2. /\ \E j \in DOMAIN defs : \E l \in Parts(j) :
                RuleAt(j, l).id = rule.id /\ j - 1 = byID[rule.id]
          /\ \A j \in DOMAIN defs : \A l \in Parts(j) :
                RuleAt(j, l).id = rule.id => byID[rule.id] <= j - 1
      BY <3>1 DEF SeenInv
    <3> QED
      BY <3>1, <3>2
  <2> QED
    BY <1>15, <2>1, <2>2
<1>28. FirstInv'
  BY <1>27, SameList DEF FirstInv
<1> QED
  BY <1>20, <1>21, <1>26, <1>28

(***************************************************************************)
(* Validating a group's own identity.                                      *)
(***************************************************************************)
LEMMA GroupChecked ==
    ASSUME IssuesInv, ValidateGroup
    PROVE  SeenInv' /\ FoundInv' /\ FirstInv' /\ byGroupID' \in [ValidIDs -> Nat \cup {Absent}]
<1>0. PICK k : k = index + 1
  OBVIOUS
<1>1. /\ defs \in Definitions /\ defs' = defs /\ index \in Nat /\ k \in DOMAIN defs
      /\ byGroupID \in [ValidIDs -> Nat \cup {Absent}]
      /\ SeenInv /\ FoundInv /\ FirstInv
  BY <1>0, ListTyped DEF IssuesInv, TypeInv, ValidateGroup, input
<1>2. /\ pc = "validate" /\ pc' = "members" /\ member' = 0 /\ index' = index /\ byID' = byID
      /\ Grouped(k) /\ Def(index) = defs[k]
  BY <1>0 DEF ValidateGroup, Grouped, Def
<1>3. PICK id : id = defs[k].id
  OBVIOUS
<1>4. PICK found : found = IdentityIssues(id, byGroupID)
  OBVIOUS
<1>5. PICK placed : placed = Located(found, 0, NoID, Known(id), "group")
  OBVIOUS
<1>6. issues' = issues \o placed /\ byGroupID' = Seen(id, byGroupID)
  BY <1>2, <1>3, <1>4, <1>5 DEF ValidateGroup
<1>7. /\ \A j \in DOMAIN defs : \A l \in Parts(j) : PartPassed(j, l)' <=> PartPassed(j, l)
      /\ \A j \in DOMAIN defs : GroupPassed(j) <=> j < k
      /\ \A j \in DOMAIN defs : GroupPassed(j)' <=> j < k \/ j = k
      /\ \A j \in DOMAIN defs : \A l \in Parts(j) : PartPassed(j, l) => j < k
  <2> SUFFICES ASSUME NEW j \in DOMAIN defs
               PROVE  /\ \A l \in Parts(j) : PartPassed(j, l)' <=> PartPassed(j, l)
                      /\ GroupPassed(j) <=> j < k
                      /\ GroupPassed(j)' <=> j < k \/ j = k
                      /\ \A l \in Parts(j) : PartPassed(j, l) => j < k
    OBVIOUS
  <2>1. j \in Nat /\ \A l \in Parts(j) : l \in Nat /\ l >= 1
    BY <1>1, PartsTyped
  <2> QED
    BY <1>0, <1>1, <1>2, <2>1 DEF PartPassed, GroupPassed
<1>8. k \in Nat /\ k >= 1 /\ k - 1 = index
  BY <1>0, <1>1
<1>9. /\ Tells(found, GroupFaults(k))
      /\ \A i \in DOMAIN found : found[i].cause \in {"invalid-id", "duplicate-id"}
  <2>1. ASSUME id \in ValidIDs
        PROVE  byGroupID[id] # Absent <=> \E j \in 1 .. k - 1 : IsGroup(defs[j]) /\ defs[j].id = id
    <3>1. \A j : j \in 1 .. k - 1 <=> j \in DOMAIN defs /\ j < k
      BY <1>1, <1>8, ListTyped
    <3>2. /\ byGroupID[id] = Absent =>
                \A j \in DOMAIN defs : Grouped(j) /\ GroupPassed(j) => defs[j].id # id
          /\ byGroupID[id] # Absent =>
                \E j \in DOMAIN defs : Grouped(j) /\ GroupPassed(j) /\ defs[j].id = id
      BY <1>1, <1>2, <2>1 DEF SeenInv
    <3> QED
      BY <1>7, <3>1, <3>2 DEF Grouped
  <2>2. GroupFaults(k) = IF id \notin ValidIDs THEN {1}
                         ELSE IF byGroupID[id] # Absent THEN {2} ELSE {}
    BY <1>3, <2>1 DEF GroupFaults
  <2> QED
    BY <1>1, <1>4, <2>2, IdentityTells
<1>10. found \in Seq(CauseSpace)
  BY <1>9 DEF Tells
<1>11. /\ placed \in Seq(IssueSpace) /\ DOMAIN placed = DOMAIN found
       /\ \A i \in DOMAIN found :
            /\ placed[i].index = index /\ placed[i].member = 0
            /\ placed[i].place = "group" /\ placed[i].cause = found[i].cause
  <2>1. PICK group, none, place : group = Known(id) /\ none = NoID /\ place = "group"
    OBVIOUS
  <2>2. /\ group \in ValidIDs \cup {NoID} /\ none \in ValidIDs \cup {NoID}
        /\ place \in {"rule", "member", "group"} /\ placed = Located(found, 0, none, group, place)
        /\ 0 \in Nat
    BY <1>5, <2>1 DEF Known
  <2> QED
    BY <1>1, <1>10, <2>1, <2>2, LocatedIs
<1>12. \A i \in DOMAIN placed : FoundOf(placed[i]) = GroupFault(k, Rank[found[i].cause])
  BY <1>8, <1>11 DEF FoundOf, GroupFault
<1>13. \A i \in DOMAIN found : Rank[found[i].cause] \in GroupFaults(k) /\ Rank[found[i].cause] \in Int
  BY <1>9, RanksTyped DEF Tells
<1>14. \A i, j \in DOMAIN placed :
          i < j => Less(Position(FoundOf(placed[i])), Position(FoundOf(placed[j])))
  <2> SUFFICES ASSUME NEW i \in DOMAIN found, NEW j \in DOMAIN found, i < j
               PROVE  FALSE
    BY <1>11
  <2>1. \A r \in GroupFaults(k), q \in GroupFaults(k) : r = q
    BY DEF GroupFaults
  <2> QED
    BY <1>9, <1>13, <2>1 DEF Tells
<1>15. ASSUME NEW i \in DOMAIN issues, NEW j \in DOMAIN placed
       PROVE  Less(Position(FoundOf(issues[i])), Position(FoundOf(placed[j])))
  <2>1. PICK r : r = Rank[found[j].cause]
    OBVIOUS
  <2>2. r \in Int /\ k \in Int /\ FoundOf(placed[j]) = GroupFault(k, r)
    BY <1>8, <1>11, <1>12, <1>13, <2>1
  <2>3. TrueFault(FoundOf(issues[i]))
    BY <1>1 DEF FoundInv
  <2>4. ASSUME NEW j1 \in DOMAIN defs, NEW l \in Parts(j1), NEW q \in RuleFaults(j1, l),
               PartPassed(j1, l), FoundOf(issues[i]) = RuleFault(j1, l, q)
        PROVE  Less(Position(FoundOf(issues[i])), Position(FoundOf(placed[j])))
    <3>1. j1 \in Int /\ l \in Int /\ q \in Int /\ j1 < k
      BY <1>1, <1>7, <2>4, PartsTyped, RanksTyped
    <3> QED
      BY <2>2, <2>4, <3>1, GroupAfterRule
  <2>5. ASSUME NEW j1 \in DOMAIN defs, NEW q \in GroupFaults(j1),
               Grouped(j1), GroupPassed(j1), FoundOf(issues[i]) = GroupFault(j1, q)
        PROVE  Less(Position(FoundOf(issues[i])), Position(FoundOf(placed[j])))
    <3>1. j1 \in Int /\ q \in Int /\ j1 < k
      BY <1>1, <1>7, <2>5, PartsTyped, RanksTyped
    <3> QED
      BY <2>2, <2>5, <3>1, GroupAfterGroup
  <2> QED
    BY <2>3, <2>4, <2>5 DEF TrueFault
<1>16. /\ issues' \in Seq(IssueSpace)
       /\ \A i \in DOMAIN issues' : \/ i \in DOMAIN issues /\ issues'[i] = issues[i]
                                    \/ \E j \in DOMAIN placed : issues'[i] = placed[j]
       /\ \A i \in DOMAIN issues : i \in DOMAIN issues' /\ issues'[i] = issues[i]
       /\ \A j \in DOMAIN placed : \E i \in DOMAIN issues' : issues'[i] = placed[j]
       /\ \A i, j \in DOMAIN issues' :
             i < j => Less(Position(FoundOf(issues'[i])), Position(FoundOf(issues'[j])))
  BY <1>1, <1>6, <1>11, <1>14, <1>15, Extended DEF FoundInv
<1>17. /\ \A j : (Grouped(j)' <=> Grouped(j)) /\ Parts(j)' = Parts(j) /\ GroupFaults(j)' = GroupFaults(j)
       /\ \A j, l : RuleFaults(j, l)' = RuleFaults(j, l) /\ RuleAt(j, l)' = RuleAt(j, l)
       /\ \A j, l, r : RuleFault(j, l, r)' = RuleFault(j, l, r)
  BY <1>1, SameList
<1>18. \A f : TrueFault(f) => TrueFault(f)'
  <2> SUFFICES ASSUME NEW f, TrueFault(f)
               PROVE  TrueFault(f)'
    OBVIOUS
  <2>1. ASSUME NEW j \in DOMAIN defs, NEW l \in Parts(j), NEW r \in RuleFaults(j, l),
               PartPassed(j, l), f = RuleFault(j, l, r)
        PROVE  TrueFault(f)'
    <3>1. PartPassed(j, l)'
      BY <1>7, <2>1
    <3> QED
      BY <1>1, <1>17, <2>1, <3>1 DEF TrueFault
  <2>2. ASSUME NEW j \in DOMAIN defs, NEW r \in GroupFaults(j),
               Grouped(j), GroupPassed(j), f = GroupFault(j, r)
        PROVE  TrueFault(f)'
    <3>1. GroupPassed(j)'
      BY <1>7, <2>2
    <3> QED
      BY <1>1, <1>17, <2>2, <3>1 DEF TrueFault
  <2> QED
    BY <2>1, <2>2 DEF TrueFault
<1>19. \A f : IsFound(f) => IsFound(f)'
  BY <1>16 DEF IsFound
<1>20. ASSUME NEW r \in GroupFaults(k)
       PROVE  \E i \in DOMAIN issues' : FoundOf(issues'[i]) = GroupFault(k, r)
  <2>1. PICK j \in DOMAIN found : Rank[found[j].cause] = r
    BY <1>9 DEF Tells
  <2>2. j \in DOMAIN placed /\ FoundOf(placed[j]) = GroupFault(k, r)
    BY <1>11, <1>12, <2>1
  <2>3. PICK i \in DOMAIN issues' : issues'[i] = placed[j]
    BY <1>16, <2>2
  <2> QED
    BY <2>2, <2>3
<1>21. FoundInv'
  <2>1. ASSUME NEW i \in DOMAIN issues', NEW f, f = FoundOf(issues'[i])
        PROVE  TrueFault(f)'
    <3>1. CASE i \in DOMAIN issues /\ issues'[i] = issues[i]
      <4>1. TrueFault(f)
        BY <1>1, <2>1, <3>1 DEF FoundInv
      <4> QED
        BY <1>18, <4>1
    <3>2. ASSUME NEW j \in DOMAIN placed, issues'[i] = placed[j]
          PROVE  TrueFault(f)'
      <4>1. PICK r \in GroupFaults(k) : f = GroupFault(k, r)
        BY <1>11, <1>12, <1>13, <2>1, <3>2
      <4>2. GroupPassed(k)'
        BY <1>1, <1>7
      <4> QED
        BY <1>1, <1>2, <1>17, <4>1, <4>2 DEF TrueFault
    <3> QED
      BY <1>16, <3>1, <3>2
  <2>2. ASSUME NEW j \in DOMAIN defs, NEW l \in Parts(j), PartPassed(j, l)',
               NEW r \in RuleFaults(j, l)
        PROVE  IsFound(RuleFault(j, l, r))'
    <3>1. PICK f : f = RuleFault(j, l, r)
      OBVIOUS
    <3>2. IsFound(f)
      BY <1>1, <1>7, <2>2, <3>1 DEF FoundInv
    <3> QED
      BY <1>17, <1>19, <3>1, <3>2
  <2>3. ASSUME NEW j \in DOMAIN defs, Grouped(j), GroupPassed(j)', NEW r \in GroupFaults(j)
        PROVE  IsFound(GroupFault(j, r))'
    <3>1. CASE j = k
      BY <1>20, <3>1 DEF IsFound
    <3>2. CASE j < k
      <4>1. PICK f : f = GroupFault(j, r)
        OBVIOUS
      <4>2. IsFound(f)
        BY <1>1, <1>7, <2>3, <3>2, <4>1 DEF FoundInv
      <4> QED
        BY <1>19, <4>1, <4>2
    <3> QED
      BY <1>7, <2>3, <3>1, <3>2
  <2>4. \A i \in DOMAIN issues' : TrueFault(FoundOf(issues[i]))'
    BY <2>1
  <2> QED
    BY <1>1, <1>16, <1>17, <2>2, <2>3, <2>4 DEF FoundInv
<1>22. ASSUME NEW id1 \in ValidIDs
       PROVE  /\ byGroupID'[id1] = Absent =>
                    \A j \in DOMAIN defs : Grouped(j) /\ GroupPassed(j)' => defs[j].id # id1
              /\ byGroupID'[id1] # Absent =>
                    \E j \in DOMAIN defs : Grouped(j) /\ GroupPassed(j)' /\ defs[j].id = id1
  <2>1. /\ byGroupID[id1] = Absent =>
              \A j \in DOMAIN defs : Grouped(j) /\ GroupPassed(j) => defs[j].id # id1
        /\ byGroupID[id1] # Absent =>
              \E j \in DOMAIN defs : Grouped(j) /\ GroupPassed(j) /\ defs[j].id = id1
    BY <1>1, <1>2 DEF SeenInv
  <2>2. CASE id1 = id
    <3>1. byGroupID'[id1] # Absent
      BY <1>1, <1>6, <1>8, <2>2 DEF Seen, Absent
    <3>2. GroupPassed(k)'
      BY <1>1, <1>7
    <3> QED
      BY <1>1, <1>2, <1>3, <2>2, <3>1, <3>2
  <2>3. CASE id1 # id
    <3>1. byGroupID'[id1] = byGroupID[id1]
      BY <1>1, <1>6, <2>3 DEF Seen
    <3> QED
      BY <1>3, <1>7, <2>1, <2>3, <3>1
  <2> QED
    BY <2>2, <2>3
<1>23. SeenInv'
  <2>1. ASSUME NEW id1 \in ValidIDs
        PROVE  /\ byID'[id1] = Absent =>
                     \A j \in DOMAIN defs : \A l \in Parts(j) : PartPassed(j, l)' => RuleAt(j, l).id # id1
               /\ byID'[id1] # Absent =>
                     /\ \E j \in DOMAIN defs : \E l \in Parts(j) :
                           PartPassed(j, l)' /\ RuleAt(j, l).id = id1 /\ byID'[id1] = j - 1
                     /\ \A j \in DOMAIN defs : \A l \in Parts(j) :
                           RuleAt(j, l).id = id1 => byID'[id1] <= j - 1
    BY <1>1, <1>2, <1>7 DEF SeenInv
  <2> QED
    BY <1>1, <1>17, <1>22, <2>1 DEF SeenInv
<1>24. FirstInv'
  <2>1. \A j \in DOMAIN placed : placed[j].place = "group"
    BY <1>11
  <2> QED
    BY <1>1, <1>16, <1>17, <2>1 DEF FirstInv
<1>25. byGroupID' \in [ValidIDs -> Nat \cup {Absent}]
  BY <1>1, <1>6 DEF Seen
<1> QED
  BY <1>21, <1>23, <1>24, <1>25

-----------------------------------------------------------------------------
(* The steps of validation keep the invariant of the issues. *)
LEMMA InitIssues ==
    ASSUME Init
    PROVE  IssuesInv
<1>1. /\ defs \in Definitions /\ pc = "validate" /\ index = 0 /\ member = 0 /\ issues = <<>>
      /\ \A id \in ValidIDs : byID[id] = Absent /\ byGroupID[id] = Absent
      /\ byID \in [ValidIDs -> Nat \cup {Absent}] /\ byGroupID \in [ValidIDs -> Nat \cup {Absent}]
  BY DEF Init
<1>2. \A k \in DOMAIN defs : /\ \A m \in Parts(k) : ~PartPassed(k, m)
                             /\ ~GroupPassed(k)
  BY <1>1, PartsTyped DEF PartPassed, GroupPassed
<1>3. TypeInv
  BY <1>1, ListTyped DEF TypeInv
<1>4. SeenInv
  BY <1>1, <1>2 DEF SeenInv
<1>5. issues \in Seq(IssueSpace) /\ DOMAIN issues = {}
  BY <1>1, Empty
<1>6. FoundInv
  BY <1>2, <1>5 DEF FoundInv
<1>7. FirstInv
  BY <1>5 DEF FirstInv
<1>8. VerdictInv
  BY <1>1 DEF VerdictInv
<1> QED
  BY <1>3, <1>4, <1>6, <1>7, <1>8 DEF IssuesInv

LEMMA SamePassed ==
    ASSUME defs \in Definitions, FoundInv, FirstInv, defs' = defs, issues' = issues,
           \A k \in DOMAIN defs : /\ \A m \in Parts(k) : PartPassed(k, m)' <=> PartPassed(k, m)
                                  /\ Grouped(k) => (GroupPassed(k)' <=> GroupPassed(k))
    PROVE  FoundInv' /\ FirstInv'
<1>1. /\ \A k : (Grouped(k)' <=> Grouped(k)) /\ Parts(k)' = Parts(k) /\ GroupFaults(k)' = GroupFaults(k)
      /\ \A k, m : RuleFaults(k, m)' = RuleFaults(k, m) /\ RuleAt(k, m)' = RuleAt(k, m)
      /\ \A k, m, r : RuleFault(k, m, r)' = RuleFault(k, m, r)
  BY SameList
<1>2. ASSUME NEW f, TrueFault(f)
      PROVE  TrueFault(f)'
  <2>1. ASSUME NEW k \in DOMAIN defs, NEW m \in Parts(k), NEW r \in RuleFaults(k, m),
               PartPassed(k, m), f = RuleFault(k, m, r)
        PROVE  TrueFault(f)'
    <3>1. PartPassed(k, m)'
      BY <2>1
    <3> QED
      BY <1>1, <2>1, <3>1 DEF TrueFault
  <2>2. ASSUME NEW k \in DOMAIN defs, NEW r \in GroupFaults(k),
               Grouped(k), GroupPassed(k), f = GroupFault(k, r)
        PROVE  TrueFault(f)'
    <3>1. GroupPassed(k)'
      BY <2>2
    <3> QED
      BY <1>1, <2>2, <3>1 DEF TrueFault
  <2> QED
    BY <1>2, <2>1, <2>2 DEF TrueFault
<1>3. \A f : IsFound(f)' <=> IsFound(f)
  BY DEF IsFound
<1>4. \A i \in DOMAIN issues' : TrueFault(FoundOf(issues[i]))'
  <2> SUFFICES ASSUME NEW i \in DOMAIN issues, NEW f, f = FoundOf(issues[i])
               PROVE  TrueFault(f)'
    OBVIOUS
  <2>1. TrueFault(f)
    BY DEF FoundInv
  <2> QED
    BY <1>2, <2>1
<1>5. ASSUME NEW k \in DOMAIN defs, NEW m \in Parts(k), PartPassed(k, m)', NEW r \in RuleFaults(k, m)
      PROVE  IsFound(RuleFault(k, m, r))'
  <2>1. PICK f : f = RuleFault(k, m, r)
    OBVIOUS
  <2>2. IsFound(f)
    BY <1>5, <2>1 DEF FoundInv
  <2> QED
    BY <1>1, <1>3, <2>1, <2>2
<1>6. ASSUME NEW k \in DOMAIN defs, Grouped(k), GroupPassed(k)', NEW r \in GroupFaults(k)
      PROVE  IsFound(GroupFault(k, r))'
  <2>1. PICK f : f = GroupFault(k, r)
    OBVIOUS
  <2>2. IsFound(f)
    BY <1>6, <2>1 DEF FoundInv
  <2> QED
    BY <1>3, <2>1, <2>2
<1>7. FoundInv'
  <2>1. /\ issues' \in Seq(IssueSpace)
        /\ \A i, j \in DOMAIN issues' :
              i < j => Less(Position(FoundOf(issues'[i])), Position(FoundOf(issues'[j])))
    BY DEF FoundInv
  <2> QED
    BY <1>1, <1>4, <1>5, <1>6, <2>1 DEF FoundInv
<1>8. FirstInv'
  BY <1>1 DEF FirstInv
<1> QED
  BY <1>7, <1>8

LEMMA ValidateRuleKeeps ==
    ASSUME IssuesInv, ValidateRule
    PROVE  IssuesInv'
<1>0. PICK k : k = index + 1
  OBVIOUS
<1>1. /\ defs \in Definitions /\ defs' = defs /\ index \in Nat /\ k \in DOMAIN defs
      /\ byID \in [ValidIDs -> Nat \cup {Absent}] /\ byGroupID \in [ValidIDs -> Nat \cup {Absent}]
      /\ SeenInv /\ FoundInv /\ FirstInv
  BY <1>0, ListTyped DEF IssuesInv, TypeInv, ValidateRule, input
<1>2. /\ pc = "validate" /\ pc' = "validate" /\ index' = index + 1 /\ member' = member
      /\ byGroupID' = byGroupID /\ ~Grouped(k) /\ index < Len(defs)
      /\ Validate(defs[k], 0, NoID, "rule")
  BY <1>0 DEF ValidateRule, Grouped, Def
<1>3. Parts(k) = {1} /\ RuleAt(k, 1) = defs[k] /\ KindAt(k) = "rule"
  BY <1>2 DEF Parts, RuleAt, KindAt
<1>4. /\ \A j \in DOMAIN defs : \A l \in Parts(j) :
            /\ PartPassed(j, l) <=> Earlier(j, l, k, 1)
            /\ PartPassed(j, l)' <=> PartPassed(j, l) \/ (j = k /\ l = 1)
      /\ \A j \in DOMAIN defs : Grouped(j) =>
            /\ GroupPassed(j)' <=> GroupPassed(j)
            /\ GroupPassed(j) => j <= k
  <2> SUFFICES ASSUME NEW j \in DOMAIN defs
               PROVE  /\ \A l \in Parts(j) :
                           /\ PartPassed(j, l) <=> Earlier(j, l, k, 1)
                           /\ PartPassed(j, l)' <=> PartPassed(j, l) \/ (j = k /\ l = 1)
                      /\ Grouped(j) => /\ GroupPassed(j)' <=> GroupPassed(j)
                                       /\ GroupPassed(j) => j <= k
    OBVIOUS
  <2>1. j \in Nat /\ \A l \in Parts(j) : l \in Nat /\ l >= 1
    BY <1>1, PartsTyped
  <2> QED
    BY <1>0, <1>1, <1>2, <1>3, <2>1 DEF PartPassed, GroupPassed, Earlier
<1>5. Validate(RuleAt(k, 1), 1 - 1, NoID, KindAt(k))
  BY <1>2, <1>3
<1>6. byID' \in [ValidIDs -> Nat \cup {Absent}] /\ SeenInv' /\ FoundInv' /\ FirstInv'
  <2>1. 1 \in Parts(k) /\ NoID \in ValidIDs \cup {NoID} /\ pc \in {"validate", "members"}
        /\ pc' \in {"validate", "members"}
    BY <1>2, <1>3
  <2> QED
    BY <1>0, <1>1, <1>2, <1>4, <1>5, <2>1, RuleChecked
<1>7. TypeInv'
  BY <1>1, <1>2, <1>6, ListTyped DEF IssuesInv, TypeInv
<1>8. VerdictInv'
  BY <1>2 DEF VerdictInv
<1> QED
  BY <1>6, <1>7, <1>8 DEF IssuesInv

LEMMA ValidateGroupKeeps ==
    ASSUME IssuesInv, ValidateGroup
    PROVE  IssuesInv'
<1>1. /\ defs \in Definitions /\ defs' = defs /\ index \in Nat
      /\ byID \in [ValidIDs -> Nat \cup {Absent}]
  BY DEF IssuesInv, TypeInv, ValidateGroup, input
<1>2. /\ pc' = "members" /\ index' = index /\ member' = 0 /\ byID' = byID
      /\ Grouped(index + 1) /\ index < Len(defs)
  BY DEF ValidateGroup, Grouped, Def
<1>3. SeenInv' /\ FoundInv' /\ FirstInv' /\ byGroupID' \in [ValidIDs -> Nat \cup {Absent}]
  BY GroupChecked
<1>4. Len(defs[index + 1].members) \in Nat /\ Len(defs) \in Nat
  BY <1>1, <1>2, ListTyped, PartsTyped
<1>5. Grouped(index + 1)'
  BY <1>1, <1>2 DEF Grouped
<1>6. TypeInv'
  BY <1>1, <1>2, <1>3, <1>4, <1>5 DEF TypeInv
<1>7. VerdictInv'
  BY <1>2 DEF VerdictInv
<1> QED
  BY <1>3, <1>6, <1>7 DEF IssuesInv

LEMMA ValidateMemberKeeps ==
    ASSUME IssuesInv, ValidateMember
    PROVE  IssuesInv'
<1>0. PICK k, m : k = index + 1 /\ m = member + 1
  OBVIOUS
<1>1. /\ defs \in Definitions /\ defs' = defs /\ index \in Nat /\ k \in DOMAIN defs /\ member \in Nat
      /\ byID \in [ValidIDs -> Nat \cup {Absent}] /\ byGroupID \in [ValidIDs -> Nat \cup {Absent}]
      /\ SeenInv /\ FoundInv /\ FirstInv
      /\ Grouped(k) /\ index < Len(defs)
  BY <1>0, ListTyped DEF IssuesInv, TypeInv, ValidateMember, input
<1>2. /\ pc = "members" /\ pc' = "members" /\ index' = index /\ member' = m
      /\ byGroupID' = byGroupID /\ member < Len(defs[k].members)
      /\ Validate(defs[k].members[m], member, Known(defs[k].id), "member")
  BY <1>0 DEF ValidateMember, Def
<1>3. m \in Parts(k) /\ RuleAt(k, m) = defs[k].members[m] /\ KindAt(k) = "member" /\ m - 1 = member
  <2>1. Parts(k) = 1 .. Len(defs[k].members) /\ Len(defs[k].members) \in Nat
    BY <1>1, PartsTyped
  <2> QED
    BY <1>0, <1>1, <1>2, <2>1 DEF RuleAt, KindAt
<1>4. /\ \A j \in DOMAIN defs : \A l \in Parts(j) :
            /\ PartPassed(j, l) <=> Earlier(j, l, k, m)
            /\ PartPassed(j, l)' <=> PartPassed(j, l) \/ (j = k /\ l = m)
      /\ \A j \in DOMAIN defs : Grouped(j) =>
            /\ GroupPassed(j)' <=> GroupPassed(j)
            /\ GroupPassed(j) => j <= k
  <2> SUFFICES ASSUME NEW j \in DOMAIN defs
               PROVE  /\ \A l \in Parts(j) :
                           /\ PartPassed(j, l) <=> Earlier(j, l, k, m)
                           /\ PartPassed(j, l)' <=> PartPassed(j, l) \/ (j = k /\ l = m)
                      /\ Grouped(j) => /\ GroupPassed(j)' <=> GroupPassed(j)
                                       /\ GroupPassed(j) => j <= k
    OBVIOUS
  <2>1. j \in Nat /\ \A l \in Parts(j) : l \in Nat /\ l >= 1
    BY <1>1, PartsTyped
  <2> QED
    BY <1>0, <1>1, <1>2, <1>3, <2>1 DEF PartPassed, GroupPassed, Earlier
<1>5. PICK group : group = Known(defs[k].id)
  OBVIOUS
<1>6. Validate(RuleAt(k, m), m - 1, group, KindAt(k)) /\ group \in ValidIDs \cup {NoID}
  BY <1>2, <1>3, <1>5 DEF Known
<1>7. byID' \in [ValidIDs -> Nat \cup {Absent}] /\ SeenInv' /\ FoundInv' /\ FirstInv'
  <2>1. pc \in {"validate", "members"} /\ pc' \in {"validate", "members"}
    BY <1>2
  <2> QED
    BY <1>0, <1>1, <1>2, <1>3, <1>4, <1>6, <2>1, RuleChecked
<1>8. TypeInv'
  <2>1. Grouped(index + 1)'
    BY <1>0, <1>1, <1>2 DEF Grouped
  <2>2. Len(defs[k].members) \in Nat /\ Len(defs) \in Nat
    BY <1>1, PartsTyped, ListTyped
  <2> QED
    BY <1>0, <1>1, <1>2, <1>7, <2>1, <2>2 DEF TypeInv
<1>9. VerdictInv'
  BY <1>2 DEF VerdictInv
<1> QED
  BY <1>7, <1>8, <1>9 DEF IssuesInv

LEMMA LeaveMembersKeeps ==
    ASSUME IssuesInv, LeaveMembers
    PROVE  IssuesInv'
<1>0. PICK k : k = index + 1
  OBVIOUS
<1>1. /\ defs \in Definitions /\ defs' = defs /\ index \in Nat /\ k \in DOMAIN defs /\ member \in Nat
      /\ byID \in [ValidIDs -> Nat \cup {Absent}] /\ byGroupID \in [ValidIDs -> Nat \cup {Absent}]
      /\ SeenInv /\ FoundInv /\ FirstInv
      /\ Grouped(k) /\ index < Len(defs)
  BY <1>0, ListTyped DEF IssuesInv, TypeInv, LeaveMembers, input
<1>2. /\ pc = "members" /\ pc' = "validate" /\ index' = k /\ member' = member
      /\ byID' = byID /\ byGroupID' = byGroupID /\ issues' = issues
      /\ member = Len(defs[k].members)
  BY <1>0 DEF LeaveMembers, Def
<1>3. ASSUME NEW j \in DOMAIN defs
      PROVE  /\ \A l \in Parts(j) : PartPassed(j, l)' <=> PartPassed(j, l)
             /\ GroupPassed(j)' <=> GroupPassed(j)
  <2>1. j \in Nat /\ \A l \in Parts(j) : l \in Nat /\ l >= 1
    BY <1>1, PartsTyped
  <2>2. \A l \in Parts(k) : l <= member
    BY <1>1, <1>2, PartsTyped
  <2> QED
    BY <1>0, <1>1, <1>2, <2>1, <2>2 DEF PartPassed, GroupPassed
<1>4. FoundInv' /\ FirstInv'
  BY <1>1, <1>2, <1>3, SamePassed
<1>5. SeenInv'
  <2>1. /\ \A j : (Grouped(j)' <=> Grouped(j)) /\ Parts(j)' = Parts(j)
        /\ \A j, l : RuleAt(j, l)' = RuleAt(j, l)
    BY <1>1, SameList
  <2>2. ASSUME NEW id \in ValidIDs
        PROVE  /\ byID[id] = Absent =>
                     \A j \in DOMAIN defs : \A l \in Parts(j) : PartPassed(j, l)' => RuleAt(j, l).id # id
               /\ byID[id] # Absent =>
                     /\ \E j \in DOMAIN defs : \E l \in Parts(j) :
                           PartPassed(j, l)' /\ RuleAt(j, l).id = id /\ byID[id] = j - 1
                     /\ \A j \in DOMAIN defs : \A l \in Parts(j) :
                           RuleAt(j, l).id = id => byID[id] <= j - 1
               /\ byGroupID[id] = Absent =>
                     \A j \in DOMAIN defs : Grouped(j) /\ GroupPassed(j)' => defs[j].id # id
               /\ byGroupID[id] # Absent =>
                     \E j \in DOMAIN defs : Grouped(j) /\ GroupPassed(j)' /\ defs[j].id = id
    BY <1>1, <1>2, <1>3 DEF SeenInv
  <2> QED
    BY <1>1, <1>2, <2>1, <2>2 DEF SeenInv
<1>6. TypeInv'
  BY <1>0, <1>1, <1>2, ListTyped DEF TypeInv
<1>7. VerdictInv'
  BY <1>2 DEF VerdictInv
<1> QED
  BY <1>4, <1>5, <1>6, <1>7 DEF IssuesInv

(* After validation nothing of this changes. *)
Settled == pc \in {"refused", "place", "compiled"}

LEMMA SettledKeeps ==
    ASSUME IssuesInv, defs' = defs, issues' = issues, member' = member,
           (pc = "validate" /\ index = Len(defs)) \/ Settled,
           Settled', index' \in 0 .. Len(defs),
           pc' \in {"refused", "compiled"} => index' = Len(defs),
           byID' \in [ValidIDs -> Nat \cup {Absent}],
           byGroupID' \in [ValidIDs -> Nat \cup {Absent}],
           VerdictInv'
    PROVE  IssuesInv'
<1>1. defs \in Definitions /\ FoundInv /\ FirstInv /\ member \in Nat /\ Len(defs) \in Nat
  BY ListTyped DEF IssuesInv, TypeInv
<1>2. ASSUME NEW k \in DOMAIN defs
      PROVE  /\ \A m \in Parts(k) : PartPassed(k, m)' <=> PartPassed(k, m)
             /\ GroupPassed(k)' <=> GroupPassed(k)
  <2>1. k \in Nat /\ k <= Len(defs)
    BY <1>1, PartsTyped
  <2> QED
    BY <2>1 DEF Settled, PartPassed, GroupPassed
<1>3. FoundInv' /\ FirstInv'
  BY <1>1, <1>2, SamePassed
<1>4. TypeInv'
  BY <1>1 DEF TypeInv, Settled
<1>5. SeenInv'
  BY DEF SeenInv, Settled
<1> QED
  BY <1>3, <1>4, <1>5 DEF IssuesInv

LEMMA EmptyIsShort ==
    ASSUME NEW S, NEW s \in Seq(S)
    PROVE  s = <<>> <=> DOMAIN s = {}
<1>1. DOMAIN s = 1 .. Len(s) /\ Len(s) \in Nat
  OBVIOUS
<1>2. ASSUME DOMAIN s = {}
      PROVE  s = <<>>
  <2>1. Len(s) = 0
    <3>1. ~(1 <= Len(s))
      BY <1>1, <1>2
    <3> QED
      BY <1>1, <3>1
  <2> QED
    BY <2>1, NoElements
<1> QED
  BY <1>2, Empty

LEMMA FoundAreExpected ==
    ASSUME IssuesInv, Settled
    PROVE  /\ {Found(i) : i \in DOMAIN issues} = Expected
           /\ issues = <<>> <=> Expected = {}
<1>1. defs \in Definitions /\ FoundInv
  BY DEF IssuesInv, TypeInv
<1>2. \A k : GroupPassed(k) /\ \A m : PartPassed(k, m)
  BY DEF Settled, PartPassed, GroupPassed
<1>3. \A i : Found(i) = FoundOf(issues[i])
  BY DEF Found, FoundOf
<1>4. ASSUME NEW i \in DOMAIN issues
      PROVE  Found(i) \in Expected
  <2>1. TrueFault(Found(i))
    BY <1>1, <1>3 DEF FoundInv
  <2> QED
    BY <1>1, <2>1, ExpectedAre DEF TrueFault
<1>5. ASSUME NEW f \in Expected
      PROVE  \E i \in DOMAIN issues : Found(i) = f
  <2>1. IsFound(f)
    BY <1>1, <1>2, ExpectedAre DEF FoundInv
  <2> QED
    BY <1>3, <2>1 DEF IsFound
<1>6. issues \in Seq(IssueSpace)
  BY <1>1 DEF FoundInv
<1> QED
  BY <1>4, <1>5, <1>6, EmptyIsShort

LEMMA IssuesInvSuffices ==
    ASSUME IssuesInv
    PROVE  IssuesAreComplete
<1>1. defs \in Definitions /\ FoundInv /\ FirstInv /\ VerdictInv
  BY DEF IssuesInv, TypeInv
<1>2. \A i : Found(i) = FoundOf(issues[i])
  BY DEF Found, FoundOf
<1>3. ASSUME pc = "refused" \/ pc = "compiled"
      PROVE  /\ {Found(k) : k \in DOMAIN issues} = Expected
             /\ \A j, k \in DOMAIN issues : j < k => Less(Position(Found(j)), Position(Found(k)))
             /\ (pc = "refused") = (Expected # {})
  <2>1. Settled
    BY <1>3 DEF Settled
  <2>2. \A j, k \in DOMAIN issues : j < k => Less(Position(Found(j)), Position(Found(k)))
    BY <1>1, <1>2 DEF FoundInv
  <2>3. pc = "refused" <=> Expected # {}
    BY <1>1, <1>3, <2>1, FoundAreExpected DEF VerdictInv
  <2> QED
    BY <2>1, <2>2, <2>3, FoundAreExpected
<1>4. ASSUME NEW i \in DOMAIN issues, issues[i].cause = "duplicate-id", issues[i].place # "group"
      PROVE  /\ \E p \in Places : p.rule.id = issues[i].id /\ p.index = issues[i].first
             /\ \A p \in Places : p.rule.id = issues[i].id => issues[i].first <= p.index
  <2>1. \A k, m : PlaceAt(k, m).index = k - 1 /\ PlaceAt(k, m).rule = RuleAt(k, m)
    BY DEF PlaceAt
  <2>2. /\ \E k \in DOMAIN defs : \E m \in Parts(k) :
              RuleAt(k, m).id = issues[i].id /\ k - 1 = issues[i].first
        /\ \A k \in DOMAIN defs : \A m \in Parts(k) :
              RuleAt(k, m).id = issues[i].id => issues[i].first <= k - 1
    BY <1>1, <1>4 DEF FirstInv
  <2>3. /\ \A k \in DOMAIN defs : \A m \in Parts(k) : PlaceAt(k, m) \in Places
        /\ \A p \in Places : \E k \in DOMAIN defs : \E m \in Parts(k) : p = PlaceAt(k, m)
    BY <1>1, PlacesAre
  <2>4. \E p \in Places : p.rule.id = issues[i].id /\ p.index = issues[i].first
    BY <2>1, <2>2, <2>3
  <2>5. \A p \in Places : p.rule.id = issues[i].id => issues[i].first <= p.index
    BY <2>1, <2>2, <2>3
  <2> QED
    BY <2>4, <2>5
<1> QED
  BY <1>3, <1>4 DEF IssuesAreComplete

-----------------------------------------------------------------------------
(* A stable sort permutes.                                                 *)
Permutes(p, n, priorities) ==
    /\ p \in [1 .. n -> 1 .. n]
    /\ \A a, b \in 1 .. n : a < b =>
          \/ priorities[p[a]] > priorities[p[b]]
          \/ priorities[p[a]] = priorities[p[b]] /\ p[a] < p[b]
    /\ \A k \in 1 .. n : \E a \in 1 .. n : p[a] = k

LEMMA StableIsPermutation ==
    ASSUME NEW n \in Nat, NEW priorities \in [1 .. n -> Int], NEW p \in StableSorts(priorities)
    PROVE  Permutes(p, n, priorities)
<1>1. DOMAIN priorities = 1 .. n
  OBVIOUS
<1>2. p \in [1 .. n -> 1 .. n]
  BY <1>1 DEF StableSorts
<1>3. ASSUME NEW a \in 1 .. n, NEW b \in 1 .. n, a < b
      PROVE  \/ priorities[p[a]] > priorities[p[b]]
             \/ priorities[p[a]] = priorities[p[b]] /\ p[a] < p[b]
  <2>1. PICK x, y : x = priorities[p[a]] /\ y = priorities[p[b]]
    OBVIOUS
  <2>2. x \in Int /\ y \in Int
    BY <1>2, <2>1
  <2>3. priorityComparison(x, y) < 0 \/ (priorityComparison(x, y) = 0 /\ p[a] < p[b])
    BY <1>1, <1>3, <2>1 DEF StableSorts
  <2> QED
    BY <2>1, <2>2, <2>3 DEF priorityComparison
<1>4. ASSUME NEW a \in 1 .. n, NEW b \in 1 .. n, p[a] = p[b]
      PROVE  a = b
  <2>1. priorities[p[a]] \in Int /\ priorities[p[a]] = priorities[p[b]] /\ p[a] \in Int
    BY <1>2, <1>4
  <2>2. ~(a < b) /\ ~(b < a)
    BY <1>3, <1>4, <2>1
  <2> QED
    BY <2>2
<1>5. \A k \in 1 .. n : \E a \in 1 .. n : p[a] = k
  <2>1. p \in Injection(1 .. n, 1 .. n)
    BY <1>2, <1>4 DEF Injection, IsInjective
  <2>2. IsFiniteSet(1 .. n)
    BY FS_Interval
  <2>3. p \in Surjection(1 .. n, 1 .. n)
    BY <2>1, <2>2, FS_Injection
  <2> QED
    BY <2>3 DEF Surjection
<1> QED
  BY <1>2, <1>3, <1>5 DEF Permutes

LEMMA FaultlessIs ==
    ASSUME defs \in Definitions, Faultless
    PROVE  /\ \A k \in DOMAIN defs : \A m \in Parts(k) : RuleAt(k, m).id \in ValidIDs
           /\ \A j, k \in DOMAIN defs : \A l \in Parts(j), m \in Parts(k) :
                 RuleAt(j, l).id = RuleAt(k, m).id => j = k /\ l = m
           /\ \A k \in DOMAIN defs : Grouped(k) => defs[k].id \in ValidIDs
           /\ \A j, k \in DOMAIN defs :
                 Grouped(j) /\ Grouped(k) /\ defs[j].id = defs[k].id => j = k
<1>1. \A k \in DOMAIN defs : \A m \in Parts(k) : RuleAt(k, m).id \in ValidIDs
  BY DEF Faultless, RuleFaults
<1>2. ASSUME NEW j \in DOMAIN defs, NEW k \in DOMAIN defs, NEW l \in Parts(j), NEW m \in Parts(k),
             RuleAt(j, l).id = RuleAt(k, m).id
      PROVE  j = k /\ l = m
  <2>1. j \in Int /\ k \in Int /\ l \in Int /\ m \in Int
    BY PartsTyped
  <2>2. ~Earlier(j, l, k, m)
    BY <1>1, <1>2 DEF Faultless, RuleFaults
  <2>3. ~Earlier(k, m, j, l)
    BY <1>1, <1>2 DEF Faultless, RuleFaults
  <2> QED
    BY <2>1, <2>2, <2>3 DEF Earlier
<1>3. \A k \in DOMAIN defs : Grouped(k) => defs[k].id \in ValidIDs
  BY DEF Faultless, GroupFaults
<1>4. ASSUME NEW j \in DOMAIN defs, NEW k \in DOMAIN defs, Grouped(j), Grouped(k),
             defs[j].id = defs[k].id
      PROVE  j = k
  <2>1. j \in Nat /\ k \in Nat /\ j >= 1 /\ k >= 1
    BY PartsTyped
  <2>2. ASSUME NEW a \in DOMAIN defs, NEW b \in DOMAIN defs, Grouped(a), Grouped(b),
               defs[a].id = defs[b].id, a < b
        PROVE  FALSE
    <3>1. a \in Nat /\ b \in Nat /\ a >= 1
      BY PartsTyped
    <3>2. a \in 1 .. b - 1
      BY <2>2, <3>1
    <3> QED
      BY <1>3, <2>2, <3>2 DEF Faultless, GroupFaults, Grouped
  <2> QED
    BY <1>4, <2>1, <2>2
<1> QED
  BY <1>1, <1>2, <1>3, <1>4

LEMMA SortKeeps ==
    ASSUME CompileInv, Sort
    PROVE  CompileInv'
<1>1. /\ defs \in Definitions /\ defs' = defs /\ issues' = issues /\ member' = member
      /\ pc = "validate" /\ index = Len(defs) /\ issues = <<>>
      /\ pc' = "place" /\ index' = 0
      /\ byID' = byID /\ byGroupID' = byGroupID
      /\ byID \in [ValidIDs -> Nat \cup {Absent}] /\ byGroupID \in [ValidIDs -> Nat \cup {Absent}]
      /\ IssuesInv /\ FoundInv /\ SeenInv
      /\ rules' = rules /\ callbacks' = callbacks /\ groups' = groups /\ entries' = entries
  BY DEF CompileInv, IssuesInv, TypeInv, Sort, input
<1>2. rules = <<>> /\ callbacks = <<>> /\ groups = <<>> /\ entries = <<>>
  BY <1>1 DEF CompileInv, EmptyInv
<1>3. Len(defs) \in Nat /\ DOMAIN defs = 1 .. Len(defs)
  BY <1>1, ListTyped
<1>4. IssuesInv'
  <2>1. VerdictInv' /\ Settled' /\ index' \in 0 .. Len(defs)
        /\ (pc' \in {"refused", "compiled"} => index' = Len(defs))
    BY <1>1, <1>3 DEF VerdictInv, Settled
  <2> QED
    BY <1>1, <2>1, SettledKeeps
<1>5. \A k \in DOMAIN defs : GroupPassed(k) /\ \A m \in Parts(k) : PartPassed(k, m)
  BY <1>1, <1>3 DEF GroupPassed, PartPassed
<1>6. Faultless
  <2>1. \A f : ~IsFound(f)
    BY <1>1, Empty DEF IsFound
  <2>2. \A k \in DOMAIN defs : \A m \in Parts(k) : RuleFaults(k, m) = {}
    BY <1>1, <1>5, <2>1 DEF FoundInv
  <2>3. \A k \in DOMAIN defs : Grouped(k) => GroupFaults(k) = {}
    BY <1>1, <1>5, <2>1 DEF FoundInv
  <2> QED
    BY <2>2, <2>3 DEF Faultless
<1>7. /\ \A k : (Grouped(k)' <=> Grouped(k)) /\ Parts(k)' = Parts(k) /\ GroupFaults(k)' = GroupFaults(k)
      /\ \A k, m : RuleFaults(k, m)' = RuleFaults(k, m) /\ RuleAt(k, m)' = RuleAt(k, m)
  BY <1>1, SameList
<1>8. Faultless'
  BY <1>1, <1>6, <1>7 DEF Faultless
<1>9. SortedInv'
  <2>1. PICK n : n = Len(defs)
    OBVIOUS
  <2>2. PICK priorities : priorities = [k \in 1 .. n |-> defs[k].priority]
    OBVIOUS
  <2>3. n \in Nat /\ priorities \in [1 .. n -> Int] /\ \A k \in 1 .. n : priorities[k] = defs[k].priority
    BY <1>1, <1>3, <2>1, <2>2, PartsTyped
  <2>4. PICK p \in StableSorts(priorities) : indexes' = [k \in 1 .. n |-> p[k] - 1]
    BY <2>1, <2>2 DEF Sort
  <2>5. Permutes(p, n, priorities)
    BY <2>3, StableIsPermutation
  <2>6. \A a \in 1 .. n : indexes'[a] = p[a] - 1 /\ indexes'[a] + 1 = p[a] /\ p[a] \in 1 .. n
    BY <2>4, <2>5, SMTT(30) DEF Permutes
  <2>7. indexes' \in [1 .. n -> 0 .. n - 1]
    <3>1. \A k \in 1 .. n : k - 1 \in 0 .. n - 1
      BY <2>3
    <3> QED
      BY <2>4, <2>5, <3>1 DEF Permutes
  <2>8. ASSUME NEW a \in 1 .. n, NEW b \in 1 .. n, a < b
        PROVE  \/ defs[indexes'[a] + 1].priority > defs[indexes'[b] + 1].priority
               \/ /\ defs[indexes'[a] + 1].priority = defs[indexes'[b] + 1].priority
                  /\ indexes'[a] < indexes'[b]
    <3>1. /\ indexes'[a] = p[a] - 1 /\ indexes'[a] + 1 = p[a] /\ p[a] \in Int
          /\ indexes'[b] = p[b] - 1 /\ indexes'[b] + 1 = p[b] /\ p[b] \in Int
      BY <2>6
    <3>2. priorities[p[a]] = defs[p[a]].priority /\ priorities[p[b]] = defs[p[b]].priority
      BY <2>3, <2>6
    <3>3. \/ priorities[p[a]] > priorities[p[b]]
          \/ priorities[p[a]] = priorities[p[b]] /\ p[a] < p[b]
      BY <2>5, <2>8 DEF Permutes
    <3>4. p[a] < p[b] => indexes'[a] < indexes'[b]
      BY <3>1
    <3> QED
      BY <3>1, <3>2, <3>3, <3>4
  <2>9. \A k \in 1 .. n : \E a \in 1 .. n : indexes'[a] = k - 1
    BY <2>5, <2>6 DEF Permutes
  <2> QED
    BY <1>1, <2>1, <2>7, <2>8, <2>9 DEF SortedInv
<1>10. RulesInv' /\ GroupsInv' /\ TablesInv'
  <2>1. \A S : <<>> \in Seq(S) /\ Len(<<>>) = 0 /\ DOMAIN <<>> = {}
    BY Empty
  <2>2. /\ DOMAIN rules' = {} /\ Len(rules') = 0 /\ rules' \in Seq(RuleMeta)
        /\ DOMAIN callbacks' = {} /\ Len(callbacks') = 0 /\ callbacks' \in Seq(RuleSpace)
        /\ DOMAIN groups' = {} /\ groups' \in Seq(GroupMeta)
    BY <1>1, <1>2, <2>1
  <2>3. \A a : a \notin 1 .. index'
    BY <1>1
  <2>4. RulesInv'
    BY <2>2, <2>3 DEF RulesInv
  <2>5. GroupsInv'
    BY <2>2, <2>3 DEF GroupsInv
  <2>6. \A id \in ValidIDs :
          /\ byID[id] # Absent => \E k \in DOMAIN defs : \E m \in Parts(k) : RuleAt(k, m).id = id
          /\ byGroupID[id] # Absent => \E k \in DOMAIN defs : Grouped(k) /\ defs[k].id = id
    BY <1>1 DEF SeenInv
  <2>7. TablesInv'
    BY <1>1, <1>7, <2>2, <2>6 DEF TablesInv
  <2> QED
    BY <2>4, <2>5, <2>7
<1>11. EntriesInv'
  <2>1. /\ entries' = <<>> /\ entries' \in Seq(EntrySpace) /\ Len(entries') = 0 /\ DOMAIN entries' = {}
        /\ rules' = <<>>
    BY <1>1, <1>2, Empty
  <2>2. \A e : e \notin 1 .. Len(entries') - 1
    BY <2>1
  <2> QED
    BY <1>1, <2>1, <2>2 DEF EntriesInv
<1>12. PlacedInv' /\ EmptyInv'
  BY <1>1, <1>8, <1>9, <1>10, <1>11 DEF PlacedInv, EmptyInv
<1> QED
  BY <1>4, <1>12 DEF CompileInv

-----------------------------------------------------------------------------
(***************************************************************************)
(* What PlaceRule and PlaceGroup have in common: the n parts of entry k,   *)
(* in the order p, follow the rules placed so far.                         *)
(***************************************************************************)
MetaOf(k, m) ==
    [id |-> RuleAt(k, m).id, priority |-> RuleAt(k, m).priority,
     registrationIndex |-> k - 1, topLevelOrder |-> index, memberIndex |-> m - 1,
     group |-> IF Grouped(k) THEN Len(groups) ELSE NoGroup]

AddedRules(k, n, p) ==
    /\ rules' \in Seq(RuleMeta) /\ Len(rules') = Len(rules) + n
    /\ \A o \in DOMAIN rules : rules'[o] = rules[o]
    /\ \A i \in 1 .. n : rules'[Len(rules) + i] = MetaOf(k, p[i])
    /\ callbacks' \in Seq(RuleSpace) /\ Len(callbacks') = Len(callbacks) + n
    /\ \A o \in DOMAIN callbacks : callbacks'[o] = callbacks[o]
    /\ \A i \in 1 .. n : callbacks'[Len(callbacks) + i] = RuleAt(k, p[i])

AddedNames(k, n, p) ==
    /\ byID' \in [ValidIDs -> Nat \cup {Absent}]
    /\ \A i \in 1 .. n : byID'[RuleAt(k, p[i]).id] = Len(rules) + i - 1
    /\ \A id \in ValidIDs : (\A m \in Parts(k) : RuleAt(k, m).id # id) => byID'[id] = byID[id]

AddedGroup(k, n) ==
    /\ ~Grouped(k) => groups' = groups /\ byGroupID' = byGroupID
    /\ Grouped(k) =>
         /\ groups' = Append(groups, [id |-> defs[k].id, kind |-> defs[k].kind,
                                      registrationIndex |-> k - 1, topLevelOrder |-> index,
                                      start |-> Len(rules), end |-> Len(rules) + n])
         /\ byGroupID' = [byGroupID EXCEPT ![defs[k].id] = Len(groups)]

AddedEntry(n) ==
    /\ HasGroups => \E kind \in GroupKinds \cup {"rules"} :
         entries' = Append(entries, [kind |-> kind, start |-> Len(rules), end |-> Len(rules) + n])
    /\ ~HasGroups => entries' = entries

Added(k, n, p) ==
    /\ Placing /\ k = Upcoming + 1 /\ n \in Nat
    /\ p \in [1 .. n -> Parts(k)]
    /\ \A m \in Parts(k) : \E i \in 1 .. n : p[i] = m
    /\ \A i, j \in 1 .. n : i < j =>
         \/ RuleAt(k, p[i]).priority > RuleAt(k, p[j]).priority
         \/ RuleAt(k, p[i]).priority = RuleAt(k, p[j]).priority /\ p[i] < p[j]
    /\ AddedRules(k, n, p) /\ AddedNames(k, n, p) /\ AddedGroup(k, n) /\ AddedEntry(n)
    /\ index' = index + 1
    /\ defs' = defs /\ pc' = pc /\ member' = member /\ issues' = issues /\ indexes' = indexes

LEMMA AddedIs ==
    ASSUME CompileInv, NEW k, NEW n, NEW p, Added(k, n, p)
    PROVE  /\ defs \in Definitions /\ defs' = defs /\ indexes' = indexes /\ index' = index + 1
           /\ IssuesInv /\ Faultless /\ SortedInv /\ RulesInv /\ GroupsInv /\ EntriesInv /\ TablesInv
           /\ index \in Nat /\ index + 1 \in 1 .. Len(defs) /\ Len(defs) \in Nat
           /\ DOMAIN defs = 1 .. Len(defs)
           /\ k \in DOMAIN defs /\ k \in Nat /\ k >= 1 /\ indexes[index + 1] = k - 1
           /\ rules \in Seq(RuleMeta) /\ Len(rules) \in Nat /\ DOMAIN rules = 1 .. Len(rules)
           /\ Len(callbacks) = Len(rules) /\ DOMAIN callbacks = DOMAIN rules
           /\ groups \in Seq(GroupMeta) /\ Len(groups) \in Nat /\ DOMAIN groups = 1 .. Len(groups)
           /\ n \in Nat /\ \A i \in 1 .. n : p[i] \in Parts(k) /\ p[i] \in Nat /\ p[i] >= 1
<1>1. /\ defs' = defs /\ indexes' = indexes /\ index' = index + 1 /\ n \in Nat
      /\ p \in [1 .. n -> Parts(k)] /\ k = indexes[index + 1] + 1
      /\ pc = "place" /\ index < Len(defs)
  BY DEF Added, Placing, Upcoming
<1>2. IssuesInv /\ Faultless /\ SortedInv /\ RulesInv /\ GroupsInv /\ EntriesInv /\ TablesInv
  BY <1>1 DEF CompileInv, PlacedInv
<1>3. defs \in Definitions /\ index \in Nat
  BY <1>2 DEF IssuesInv, TypeInv
<1>4. Len(defs) \in Nat /\ DOMAIN defs = 1 .. Len(defs) /\ index + 1 \in 1 .. Len(defs)
  BY <1>1, <1>3, ListTyped
<1>5. indexes[index + 1] \in 0 .. Len(defs) - 1
  BY <1>2, <1>4 DEF SortedInv
<1>6. k \in DOMAIN defs /\ k \in Nat /\ k >= 1 /\ indexes[index + 1] = k - 1
  BY <1>1, <1>4, <1>5
<1>7. /\ rules \in Seq(RuleMeta) /\ callbacks \in Seq(RuleSpace) /\ groups \in Seq(GroupMeta)
      /\ Len(callbacks) = Len(rules)
  BY <1>2 DEF RulesInv, GroupsInv
<1>8. /\ Len(rules) \in Nat /\ DOMAIN rules = 1 .. Len(rules)
      /\ DOMAIN callbacks = 1 .. Len(callbacks)
      /\ Len(groups) \in Nat /\ DOMAIN groups = 1 .. Len(groups)
  BY <1>7
<1>9. \A i \in 1 .. n : p[i] \in Parts(k) /\ p[i] \in Nat /\ p[i] >= 1
  BY <1>1, <1>3, <1>6, PartsTyped
<1> QED
  BY <1>1, <1>2, <1>3, <1>4, <1>6, <1>7, <1>8, <1>9

(* The rules placed before stay as they are described. *)
LEMMA GroupsGrow ==
    ASSUME CompileInv, NEW k, NEW n, NEW p, Added(k, n, p)
    PROVE  /\ groups' \in Seq(GroupMeta)
           /\ DOMAIN groups' = 1 .. Len(groups')
           /\ Len(groups') = IF Grouped(k) THEN Len(groups) + 1 ELSE Len(groups)
           /\ \A g \in DOMAIN groups : g \in DOMAIN groups' /\ groups'[g] = groups[g]
           /\ Grouped(k) =>
                LET g == groups'[Len(groups) + 1]
                IN  /\ g.id = defs[k].id /\ g.registrationIndex = k - 1 /\ g.topLevelOrder = index
                    /\ g.start = Len(rules) /\ g.end = Len(rules) + n
<1>1. CASE Grouped(k)
  <2>1. PICK g : g = [id |-> defs[k].id, kind |-> defs[k].kind,
                      registrationIndex |-> k - 1, topLevelOrder |-> index,
                      start |-> Len(rules), end |-> Len(rules) + n]
    OBVIOUS
  <2>2. groups' = Append(groups, g)
    BY <1>1, <2>1 DEF Added, AddedGroup
  <2>3. g \in GroupMeta
    <3>1. defs[k].id \in STRING /\ defs[k].kind \in GroupKinds
      BY <1>1, AddedIs, PartsTyped
    <3>2. k - 1 \in Nat /\ index \in Nat /\ Len(rules) \in Nat /\ Len(rules) + n \in Nat
      BY AddedIs
    <3> QED
      BY <2>1, <3>1, <3>2 DEF GroupMeta
  <2>4. groups \in Seq(GroupMeta)
    BY AddedIs
  <2>5. /\ groups' \in Seq(GroupMeta) /\ Len(groups') = Len(groups) + 1 /\ Len(groups) \in Nat
        /\ DOMAIN groups = 1 .. Len(groups) /\ DOMAIN groups' = 1 .. Len(groups) + 1
        /\ \A i \in 1 .. Len(groups) : groups'[i] = groups[i]
        /\ groups'[Len(groups) + 1] = g
    BY <2>2, <2>3, <2>4, OneMore
  <2>6. \A i \in DOMAIN groups : i \in DOMAIN groups' /\ groups'[i] = groups[i]
    BY <2>5
  <2> QED
    BY <1>1, <2>1, <2>5, <2>6
<1>2. CASE ~Grouped(k)
  <2>1. groups' = groups
    BY <1>2 DEF Added, AddedGroup
  <2> QED
    BY <1>2, <2>1, AddedIs
<1> QED
  BY <1>1, <1>2

LEMMA OldDescribed ==
    ASSUME CompileInv, NEW k, NEW n, NEW p, Added(k, n, p), NEW o \in DOMAIN rules
    PROVE  Described(o)'
<1>1. PICK j \in DOMAIN defs : \E m \in Parts(j) :
        /\ rules[o].topLevelOrder < index
        /\ indexes[rules[o].topLevelOrder + 1] = j - 1
        /\ rules[o].registrationIndex = j - 1 /\ rules[o].memberIndex = m - 1
        /\ rules[o].id = RuleAt(j, m).id /\ rules[o].priority = RuleAt(j, m).priority
        /\ callbacks[o] = RuleAt(j, m)
        /\ ~Grouped(j) => rules[o].group = NoGroup
        /\ Grouped(j) =>
             /\ rules[o].group \in 0 .. Len(groups) - 1
             /\ groups[rules[o].group + 1].start < o /\ o <= groups[rules[o].group + 1].end
             /\ groups[rules[o].group + 1].topLevelOrder = rules[o].topLevelOrder
             /\ groups[rules[o].group + 1].registrationIndex = j - 1
  BY AddedIs DEF RulesInv, Described
<1>2. PICK m \in Parts(j) :
        /\ rules[o].topLevelOrder < index
        /\ indexes[rules[o].topLevelOrder + 1] = j - 1
        /\ rules[o].registrationIndex = j - 1 /\ rules[o].memberIndex = m - 1
        /\ rules[o].id = RuleAt(j, m).id /\ rules[o].priority = RuleAt(j, m).priority
        /\ callbacks[o] = RuleAt(j, m)
        /\ ~Grouped(j) => rules[o].group = NoGroup
        /\ Grouped(j) =>
             /\ rules[o].group \in 0 .. Len(groups) - 1
             /\ groups[rules[o].group + 1].start < o /\ o <= groups[rules[o].group + 1].end
             /\ groups[rules[o].group + 1].topLevelOrder = rules[o].topLevelOrder
             /\ groups[rules[o].group + 1].registrationIndex = j - 1
  BY <1>1
<1>3. rules'[o] = rules[o] /\ callbacks'[o] = callbacks[o]
  <2>1. AddedRules(k, n, p)
    BY DEF Added
  <2>2. o \in DOMAIN callbacks
    BY AddedIs
  <2> QED
    BY <2>1, <2>2 DEF AddedRules
<1>4. rules[o].topLevelOrder \in Nat
  <2>1. rules \in Seq(RuleMeta)
    BY AddedIs
  <2>2. rules[o] \in RuleMeta
    BY <2>1
  <2> QED
    BY <2>2 DEF RuleMeta
<1>5. /\ defs' = defs /\ indexes' = indexes /\ index' = index + 1 /\ index \in Nat
  BY AddedIs
<1>6. ASSUME Grouped(j)
      PROVE  /\ rules[o].group \in 0 .. Len(groups') - 1
             /\ groups'[rules[o].group + 1] = groups[rules[o].group + 1]
  <2>1. PICK g : g = rules[o].group + 1
    OBVIOUS
  <2>2. rules[o].group \in 0 .. Len(groups) - 1 /\ Len(groups) \in Nat
    BY <1>2, <1>6, AddedIs
  <2>3. g \in DOMAIN groups
    BY <2>1, <2>2, AddedIs, SMTT(30)
  <2>4. groups'[g] = groups[g] /\ Len(groups') >= Len(groups) /\ Len(groups') \in Nat
    BY <2>2, <2>3, GroupsGrow
  <2> QED
    BY <2>1, <2>2, <2>4
<1>7. /\ \A i : (Grouped(i)' <=> Grouped(i)) /\ Parts(i)' = Parts(i)
      /\ \A i, l : RuleAt(i, l)' = RuleAt(i, l)
  BY <1>5, SameList
<1>8. rules[o].topLevelOrder < index'
  BY <1>2, <1>4, <1>5
<1>9. /\ rules'[o].topLevelOrder < index'
      /\ indexes'[rules'[o].topLevelOrder + 1] = j - 1
      /\ rules'[o].registrationIndex = j - 1 /\ rules'[o].memberIndex = m - 1
      /\ rules'[o].id = RuleAt(j, m)'.id /\ rules'[o].priority = RuleAt(j, m)'.priority
      /\ callbacks'[o] = RuleAt(j, m)'
      /\ ~Grouped(j)' => rules'[o].group = NoGroup
      /\ Grouped(j)' =>
             /\ rules'[o].group \in 0 .. Len(groups') - 1
             /\ groups'[rules'[o].group + 1].start < o /\ o <= groups'[rules'[o].group + 1].end
             /\ groups'[rules'[o].group + 1].topLevelOrder = rules'[o].topLevelOrder
             /\ groups'[rules'[o].group + 1].registrationIndex = j - 1
  BY <1>2, <1>3, <1>5, <1>6, <1>7, <1>8
<1>10. j \in DOMAIN defs' /\ m \in Parts(j)'
  BY <1>5, <1>7
<1> QED
  BY <1>9, <1>10 DEF Described

LEMMA NewDescribed ==
    ASSUME CompileInv, NEW k, NEW n, NEW p, Added(k, n, p),
           NEW i \in 1 .. n, NEW o, o = Len(rules) + i
    PROVE  /\ rules'[o] = MetaOf(k, p[i])
           /\ Described(o)'
<1>1. PICK m \in Parts(k) : m = p[i]
  BY AddedIs
<1>2. rules'[o] = MetaOf(k, m) /\ callbacks'[o] = RuleAt(k, m)
  <2>1. AddedRules(k, n, p)
    BY DEF Added
  <2>2. Len(callbacks) = Len(rules)
    BY AddedIs
  <2> QED
    BY <1>1, <2>1, <2>2 DEF AddedRules
<1>3. /\ rules'[o].id = RuleAt(k, m).id /\ rules'[o].priority = RuleAt(k, m).priority
      /\ rules'[o].registrationIndex = k - 1 /\ rules'[o].topLevelOrder = index
      /\ rules'[o].memberIndex = m - 1
      /\ rules'[o].group = IF Grouped(k) THEN Len(groups) ELSE NoGroup
  BY <1>2 DEF MetaOf
<1>4. /\ defs' = defs /\ indexes' = indexes /\ index' = index + 1 /\ index \in Nat
      /\ indexes[index + 1] = k - 1 /\ k \in DOMAIN defs
      /\ i \in Nat /\ i >= 1 /\ i <= n /\ n \in Nat /\ Len(rules) \in Nat /\ Len(groups) \in Nat
  BY AddedIs
<1>5. /\ \A j : (Grouped(j)' <=> Grouped(j)) /\ Parts(j)' = Parts(j)
      /\ \A j, l : RuleAt(j, l)' = RuleAt(j, l)
  BY <1>4, SameList
<1>6. ASSUME Grouped(k)
      PROVE  /\ rules'[o].group \in 0 .. Len(groups') - 1
             /\ groups'[rules'[o].group + 1].start < o /\ o <= groups'[rules'[o].group + 1].end
             /\ groups'[rules'[o].group + 1].topLevelOrder = index
             /\ groups'[rules'[o].group + 1].registrationIndex = k - 1
  <2>1. rules'[o].group = Len(groups)
    BY <1>3, <1>6
  <2>2. /\ Len(groups') = Len(groups) + 1
        /\ groups'[Len(groups) + 1].start = Len(rules) /\ groups'[Len(groups) + 1].end = Len(rules) + n
        /\ groups'[Len(groups) + 1].topLevelOrder = index
        /\ groups'[Len(groups) + 1].registrationIndex = k - 1
    BY <1>6, GroupsGrow
  <2>3. Len(rules) < o /\ o <= Len(rules) + n
    BY <1>4
  <2> QED
    BY <1>4, <2>1, <2>2, <2>3
<1>7. /\ rules'[o].topLevelOrder < index'
      /\ indexes'[rules'[o].topLevelOrder + 1] = k - 1
      /\ rules'[o].registrationIndex = k - 1 /\ rules'[o].memberIndex = m - 1
      /\ rules'[o].id = RuleAt(k, m)'.id /\ rules'[o].priority = RuleAt(k, m)'.priority
      /\ callbacks'[o] = RuleAt(k, m)'
      /\ ~Grouped(k)' => rules'[o].group = NoGroup
      /\ Grouped(k)' =>
             /\ rules'[o].group \in 0 .. Len(groups') - 1
             /\ groups'[rules'[o].group + 1].start < o /\ o <= groups'[rules'[o].group + 1].end
             /\ groups'[rules'[o].group + 1].topLevelOrder = rules'[o].topLevelOrder
             /\ groups'[rules'[o].group + 1].registrationIndex = k - 1
  BY <1>2, <1>3, <1>4, <1>5, <1>6
<1>8. k \in DOMAIN defs' /\ m \in Parts(k)'
  BY <1>4, <1>5
<1>9. Described(o)'
  BY <1>7, <1>8 DEF Described
<1> QED
  BY <1>1, <1>2, <1>9

(* A compiled order is an old one or that of an added part. *)
LEMMA OldOrNew ==
    ASSUME CompileInv, NEW k, NEW n, NEW p, Added(k, n, p)
    PROVE  /\ rules' \in Seq(RuleMeta) /\ DOMAIN rules' = 1 .. Len(rules) + n
           /\ callbacks' \in Seq(RuleSpace) /\ Len(rules') = Len(rules) + n /\ Len(callbacks') = Len(rules')
           /\ \A o \in DOMAIN rules : o \in DOMAIN rules' /\ rules'[o] = rules[o]
           /\ \A o \in DOMAIN rules' :
                 o \in DOMAIN rules \/ \E i \in 1 .. n : o = Len(rules) + i
           /\ \A i \in 1 .. n : Len(rules) + i \in DOMAIN rules'
<1>1. AddedRules(k, n, p)
  BY DEF Added
<1>2. /\ n \in Nat /\ Len(rules) \in Nat /\ DOMAIN rules = 1 .. Len(rules)
      /\ Len(callbacks) = Len(rules)
  BY AddedIs
<1>3. /\ rules' \in Seq(RuleMeta) /\ Len(rules') = Len(rules) + n
      /\ callbacks' \in Seq(RuleSpace) /\ Len(callbacks') = Len(callbacks) + n
      /\ \A o \in DOMAIN rules : rules'[o] = rules[o]
  BY <1>1 DEF AddedRules
<1>4. DOMAIN rules' = 1 .. Len(rules) + n
  BY <1>3
<1>5. ASSUME NEW o \in 1 .. Len(rules) + n, o \notin 1 .. Len(rules)
      PROVE  \E i \in 1 .. n : o = Len(rules) + i
  <2>1. o - Len(rules) \in 1 .. n /\ o = Len(rules) + (o - Len(rules))
    BY <1>2, <1>5
  <2> QED
    BY <2>1
<1>6. \A i \in 1 .. n : Len(rules) + i \in 1 .. Len(rules) + n
  BY <1>2
<1>7. \A o \in 1 .. Len(rules) : o \in 1 .. Len(rules) + n
  BY <1>2
<1> QED
  BY <1>2, <1>3, <1>4, <1>5, <1>6, <1>7

LEMMA AddedInOrder ==
    ASSUME CompileInv, NEW k, NEW n, NEW p, Added(k, n, p),
           NEW o \in DOMAIN rules', NEW q \in DOMAIN rules', o < q
    PROVE  RuleOrder(o, q)'
<1>1. /\ n \in Nat /\ Len(rules) \in Nat /\ DOMAIN rules = 1 .. Len(rules) /\ index \in Nat
      /\ rules \in Seq(RuleMeta)
  BY AddedIs
<1>2. CASE o \in DOMAIN rules /\ q \in DOMAIN rules
  <2>1. rules'[o] = rules[o] /\ rules'[q] = rules[q]
    BY <1>2, OldOrNew
  <2>2. RuleOrder(o, q)
    BY <1>2, AddedIs DEF RulesInv
  <2> QED
    BY <2>1, <2>2 DEF RuleOrder
<1>3. CASE o \in DOMAIN rules /\ q \notin DOMAIN rules
  <2>1. PICK i \in 1 .. n : q = Len(rules) + i
    BY <1>3, OldOrNew
  <2>2. rules'[q].topLevelOrder = index
    <3>1. rules'[q] = MetaOf(k, p[i])
      BY <2>1, NewDescribed
    <3> QED
      BY <3>1 DEF MetaOf
  <2>3. Described(o)
    BY <1>3, AddedIs DEF RulesInv
  <2>4. rules'[o] = rules[o] /\ rules[o].topLevelOrder < index
    BY <1>3, <2>3, OldOrNew DEF Described
  <2> QED
    BY <2>2, <2>4 DEF RuleOrder
<1>4. CASE o \notin DOMAIN rules /\ q \notin DOMAIN rules
  <2>1. PICK i \in 1 .. n : o = Len(rules) + i
    BY <1>4, OldOrNew
  <2>2. PICK j \in 1 .. n : q = Len(rules) + j
    BY <1>4, OldOrNew
  <2>3. i < j
    BY <1>1, <2>1, <2>2
  <2>4. PICK l \in Parts(k) : l = p[i]
    BY AddedIs
  <2>5. PICK m \in Parts(k) : m = p[j]
    BY AddedIs
  <2>6. \/ RuleAt(k, l).priority > RuleAt(k, m).priority
        \/ RuleAt(k, l).priority = RuleAt(k, m).priority /\ l < m
    BY <2>3, <2>4, <2>5 DEF Added
  <2>7. rules'[o] = MetaOf(k, l) /\ rules'[q] = MetaOf(k, m)
    BY <2>1, <2>2, <2>4, <2>5, NewDescribed
  <2>8. l \in Nat /\ m \in Nat
    BY <2>4, <2>5, AddedIs
  <2>9. /\ rules'[o].topLevelOrder = rules'[q].topLevelOrder
        /\ rules'[o].priority = RuleAt(k, l).priority /\ rules'[q].priority = RuleAt(k, m).priority
        /\ rules'[o].memberIndex = l - 1 /\ rules'[q].memberIndex = m - 1
    BY <2>7 DEF MetaOf
  <2>10. l < m => rules'[o].memberIndex < rules'[q].memberIndex
    BY <2>8, <2>9
  <2> QED
    BY <2>6, <2>9, <2>10 DEF RuleOrder
<1>5. CASE o \notin DOMAIN rules /\ q \in DOMAIN rules
  <2>1. PICK i \in 1 .. n : o = Len(rules) + i
    BY <1>5, OldOrNew
  <2> QED
    BY <1>1, <1>5, <2>1
<1> QED
  BY <1>2, <1>3, <1>4, <1>5

LEMMA RulesAdded ==
    ASSUME CompileInv, NEW k, NEW n, NEW p, Added(k, n, p)
    PROVE  RulesInv'
<1>1. \A o \in DOMAIN rules' : Described(o)'
  BY OldOrNew, OldDescribed, NewDescribed
<1>2. \A o, q \in DOMAIN rules' : o < q => RuleOrder(o, q)'
  BY AddedInOrder
<1>3. /\ defs' = defs /\ indexes' = indexes /\ index' = index + 1 /\ index \in Nat
      /\ indexes[index + 1] = k - 1 /\ k \in DOMAIN defs /\ k \in Nat /\ n \in Nat
      /\ RulesInv
  BY AddedIs
<1>4. ASSUME NEW a \in 1 .. index', NEW j \in DOMAIN defs, indexes[a] = j - 1, NEW m \in Parts(j)
      PROVE  \E o \in DOMAIN rules' : rules'[o].topLevelOrder = a - 1 /\ rules'[o].memberIndex = m - 1
  <2>1. CASE a = index + 1
    <3>1. j = k
      <4>1. j \in Nat
        BY <1>4, AddedIs, PartsTyped
      <4> QED
        BY <1>3, <1>4, <2>1, <4>1
    <3>2. PICK i \in 1 .. n : p[i] = m
      BY <1>4, <3>1 DEF Added
    <3>3. PICK o : o = Len(rules) + i
      OBVIOUS
    <3>4. rules'[o] = MetaOf(k, m) /\ o \in DOMAIN rules'
      BY <3>2, <3>3, NewDescribed, OldOrNew
    <3>5. rules'[o].topLevelOrder = a - 1 /\ rules'[o].memberIndex = m - 1
      BY <1>3, <2>1, <3>4 DEF MetaOf
    <3> QED
      BY <3>4, <3>5
  <2>2. CASE a # index + 1
    <3>1. a \in 1 .. index
      BY <1>3, <2>2
    <3>2. PICK o \in DOMAIN rules :
             rules[o].topLevelOrder = a - 1 /\ rules[o].memberIndex = m - 1
      BY <1>3, <1>4, <3>1 DEF RulesInv
    <3> QED
      BY <3>2, OldOrNew
  <2> QED
    BY <2>1, <2>2
<1>5. \A j : Parts(j)' = Parts(j)
  BY <1>3, SameList
<1>6. \A a \in 1 .. index' : \A j \in DOMAIN defs' : indexes'[a] = j - 1 =>
          \A m \in Parts(j)' : \E o \in DOMAIN rules' :
             rules'[o].topLevelOrder = a - 1 /\ rules'[o].memberIndex = m - 1
  BY <1>3, <1>4, <1>5
<1>7. rules' \in Seq(RuleMeta) /\ callbacks' \in Seq(RuleSpace) /\ Len(callbacks') = Len(rules')
  BY OldOrNew
<1> QED
  BY <1>1, <1>2, <1>6, <1>7 DEF RulesInv

LEMMA GroupsAdded ==
    ASSUME CompileInv, NEW k, NEW n, NEW p, Added(k, n, p)
    PROVE  GroupsInv'
<1>1. /\ defs' = defs /\ indexes' = indexes /\ index' = index + 1 /\ index \in Nat
      /\ indexes[index + 1] = k - 1 /\ k \in DOMAIN defs /\ k \in Nat
      /\ GroupsInv /\ groups \in Seq(GroupMeta) /\ Len(groups) \in Nat /\ DOMAIN groups = 1 .. Len(groups)
  BY AddedIs
<1>2. \A j : Grouped(j)' <=> Grouped(j)
  BY <1>1, SameList
<1>3. ASSUME NEW g \in DOMAIN groups'
      PROVE  \E j \in DOMAIN defs :
                /\ groups'[g].topLevelOrder < index + 1
                /\ indexes[groups'[g].topLevelOrder + 1] = j - 1
                /\ groups'[g].registrationIndex = j - 1
                /\ Grouped(j) /\ groups'[g].id = defs[j].id
  <2>1. CASE g \in DOMAIN groups
    <3>1. groups'[g] = groups[g]
      BY <2>1, GroupsGrow
    <3>2. PICK j \in DOMAIN defs :
             /\ groups[g].topLevelOrder < index
             /\ indexes[groups[g].topLevelOrder + 1] = j - 1
             /\ groups[g].registrationIndex = j - 1
             /\ Grouped(j) /\ groups[g].id = defs[j].id
      BY <1>1, <2>1 DEF GroupsInv
    <3>3. groups[g].topLevelOrder \in Nat
      <4>1. groups[g] \in GroupMeta
        BY <1>1, <2>1
      <4> QED
        BY <4>1 DEF GroupMeta
    <3>4. groups[g].topLevelOrder < index + 1
      BY <1>1, <3>2, <3>3
    <3> QED
      BY <3>1, <3>2, <3>4
  <2>2. CASE g \notin DOMAIN groups
    <3>1. DOMAIN groups' = 1 .. Len(groups')
          /\ Len(groups') = IF Grouped(k) THEN Len(groups) + 1 ELSE Len(groups)
      BY GroupsGrow
    <3>2. Grouped(k) /\ g = Len(groups) + 1
      BY <1>1, <2>2, <3>1
    <3>3. /\ groups'[g].id = defs[k].id /\ groups'[g].registrationIndex = k - 1
          /\ groups'[g].topLevelOrder = index
      BY <3>2, GroupsGrow
    <3>4. index < index + 1
      BY <1>1
    <3> QED
      BY <1>1, <3>2, <3>3, <3>4
  <2> QED
    BY <2>1, <2>2
<1>4. ASSUME NEW a \in 1 .. index', NEW j \in DOMAIN defs, indexes[a] = j - 1, Grouped(j)
      PROVE  \E g \in DOMAIN groups' : groups'[g].topLevelOrder = a - 1
  <2>1. CASE a = index + 1
    <3>1. j = k
      <4>1. j \in Nat
        BY <1>4, AddedIs, PartsTyped
      <4> QED
        BY <1>1, <1>4, <2>1, <4>1
    <3>2. /\ groups'[Len(groups) + 1].topLevelOrder = index
          /\ DOMAIN groups' = 1 .. Len(groups) + 1
      BY <1>4, <3>1, GroupsGrow
    <3>3. Len(groups) + 1 \in DOMAIN groups' /\ index = a - 1
      BY <1>1, <2>1, <3>2
    <3> QED
      BY <3>2, <3>3
  <2>2. CASE a # index + 1
    <3>1. a \in 1 .. index
      BY <1>1, <2>2
    <3>2. PICK g \in DOMAIN groups : groups[g].topLevelOrder = a - 1
      BY <1>1, <1>4, <3>1 DEF GroupsInv
    <3> QED
      BY <3>2, GroupsGrow
  <2> QED
    BY <2>1, <2>2
<1>5. groups' \in Seq(GroupMeta)
  BY GroupsGrow
<1>6. \A g \in DOMAIN groups' : \E j \in DOMAIN defs' :
          /\ groups'[g].topLevelOrder < index'
          /\ indexes'[groups'[g].topLevelOrder + 1] = j - 1
          /\ groups'[g].registrationIndex = j - 1
          /\ Grouped(j)' /\ groups'[g].id = defs'[j].id
  BY <1>1, <1>2, <1>3
<1>7. \A a \in 1 .. index' : \A j \in DOMAIN defs' : indexes'[a] = j - 1 /\ Grouped(j)' =>
          \E g \in DOMAIN groups' : groups'[g].topLevelOrder = a - 1
  BY <1>1, <1>2, <1>4
<1> QED
  BY <1>5, <1>6, <1>7 DEF GroupsInv

(* The entries meet, also the one that is added. *)
LEMMA EntriesAdded ==
    ASSUME CompileInv, NEW k, NEW n, NEW p, Added(k, n, p)
    PROVE  EntriesInv'
<1>1. /\ defs' = defs /\ index' = index + 1 /\ index \in Nat /\ n \in Nat /\ Len(rules) \in Nat
      /\ EntriesInv /\ rules \in Seq(RuleMeta)
  BY AddedIs
<1>2. HasGroups' <=> HasGroups
  BY <1>1 DEF HasGroups
<1>3. Len(rules') = Len(rules) + n /\ AddedEntry(n)
  BY OldOrNew DEF Added
<1>4. CASE ~HasGroups
  <2>1. entries = <<>> /\ entries' = <<>>
    BY <1>1, <1>3, <1>4 DEF EntriesInv, AddedEntry
  <2>2. entries' \in Seq(EntrySpace) /\ Len(entries') = 0 /\ DOMAIN entries' = {}
    BY <2>1, Empty
  <2>3. \A e : e \notin 1 .. Len(entries') - 1
    BY <2>2
  <2> QED
    BY <1>2, <1>4, <2>1, <2>2, <2>3 DEF EntriesInv
<1>5. CASE HasGroups
  <2>1. PICK kind \in GroupKinds \cup {"rules"} :
           entries' = Append(entries, [kind |-> kind, start |-> Len(rules), end |-> Len(rules) + n])
    BY <1>3, <1>5 DEF AddedEntry
  <2>0. PICK x : x = [kind |-> kind, start |-> Len(rules), end |-> Len(rules) + n]
    OBVIOUS
  <2>2. x \in EntrySpace /\ x.start = Len(rules) /\ x.end = Len(rules) + n
    BY <1>1, <2>0 DEF EntrySpace
  <2>3. entries \in Seq(EntrySpace) /\ Len(entries) = index
    BY <1>1, <1>5 DEF EntriesInv
  <2>4. /\ entries' \in Seq(EntrySpace) /\ Len(entries') = index + 1
        /\ DOMAIN entries = 1 .. index /\ DOMAIN entries' = 1 .. index + 1
        /\ \A e \in 1 .. index : entries'[e] = entries[e]
        /\ entries'[index + 1] = x
    BY <2>0, <2>1, <2>2, <2>3, OneMore
  <2>5. \A e \in 1 .. index : entries[e].start \in Nat /\ entries[e].end \in Nat
    <3>1. \A e \in 1 .. index : entries[e] \in EntrySpace
      BY <2>3, <2>4
    <3> QED
      BY <3>1 DEF EntrySpace
  <2>6. /\ \A e \in 1 .. index : entries[e].start <= entries[e].end /\ entries[e].end <= Len(rules)
        /\ \A e \in 1 .. index - 1 : entries[e + 1].start = entries[e].end
        /\ \A d, e \in 1 .. index : d < e => entries[d].end <= entries[e].start
    BY <1>1, <2>3, <2>4 DEF EntriesInv
  <2>7. index = 0 => Len(rules) = 0
    BY <1>1, <1>5, <2>3, NoElements, Empty DEF EntriesInv
  <2>8. index # 0 => entries[1].start = 0 /\ entries[index].end = Len(rules)
    BY <1>1, <2>3, Empty DEF EntriesInv
  <2>9. \A e \in 1 .. index + 1 :
           entries'[e].start <= entries'[e].end /\ entries'[e].end <= Len(rules) + n
    BY <1>1, <2>2, <2>4, <2>5, <2>6
  <2>10. entries'[1].start = 0 /\ entries'[index + 1].end = Len(rules) + n
    BY <1>1, <2>2, <2>4, <2>7, <2>8
  <2>11. ASSUME NEW e \in 1 .. index
         PROVE  entries'[e + 1].start = entries'[e].end
    <3>1. CASE e = index
      BY <1>1, <2>2, <2>4, <2>8, <3>1
    <3>2. CASE e # index
      <4>1. PICK d : d = e + 1
        OBVIOUS
      <4>2. e \in 1 .. index - 1 /\ d \in 1 .. index
        BY <1>1, <3>2, <4>1
      <4>3. entries'[d] = entries[d] /\ entries'[e] = entries[e] /\ entries[d].start = entries[e].end
        BY <2>4, <2>6, <4>1, <4>2
      <4> QED
        BY <4>1, <4>3
    <3> QED
      BY <3>1, <3>2
  <2>12. ASSUME NEW d \in 1 .. index + 1, NEW e \in 1 .. index + 1, d < e
         PROVE  entries'[d].end <= entries'[e].start
    <3>1. d \in 1 .. index /\ entries'[d] = entries[d]
      BY <1>1, <2>4, <2>12
    <3>2. CASE e = index + 1
      BY <1>1, <2>2, <2>4, <2>6, <3>1, <3>2
    <3>3. CASE e # index + 1
      <4>1. e \in 1 .. index /\ entries'[e] = entries[e]
        BY <1>1, <2>4, <3>3
      <4> QED
        BY <2>6, <2>12, <3>1, <4>1
    <3> QED
      BY <3>2, <3>3
  <2>13. entries' # <<>>
    BY <1>1, <2>4, Empty
  <2>14. \A e \in 1 .. Len(entries') - 1 : e \in 1 .. index
    BY <1>1, <2>4
  <2>15. Len(rules') = Len(rules) + n /\ DOMAIN entries' = 1 .. index + 1 /\ Len(entries') = index'
    BY <1>1, <1>3, <2>4
  <2>16. entries'[Len(entries')].end = Len(rules')
    BY <2>4, <2>10, <2>15
  <2> QED
    BY <1>2, <1>5, <2>4, <2>9, <2>10, <2>11, <2>12, <2>13, <2>14, <2>15, <2>16 DEF EntriesInv
<1> QED
  BY <1>4, <1>5

(* The tables hold the new positions, and the old ones of other rules. *)
LEMMA TablesAdded ==
    ASSUME CompileInv, NEW k, NEW n, NEW p, Added(k, n, p)
    PROVE  /\ TablesInv'
           /\ byID' \in [ValidIDs -> Nat \cup {Absent}]
           /\ byGroupID' \in [ValidIDs -> Nat \cup {Absent}]
<1>1. /\ defs \in Definitions /\ Faultless /\ SortedInv /\ TablesInv /\ RulesInv /\ GroupsInv /\ IssuesInv
      /\ defs' = defs /\ index' = index + 1 /\ index \in Nat
      /\ index + 1 \in 1 .. Len(defs) /\ Len(defs) \in Nat
      /\ indexes[index + 1] = k - 1 /\ k \in DOMAIN defs /\ k \in Nat /\ n \in Nat /\ Len(rules) \in Nat
      /\ \A i \in 1 .. n : p[i] \in Parts(k)
  BY AddedIs
<1>2. AddedNames(k, n, p) /\ AddedGroup(k, n)
  BY DEF Added
<1>3. byID' \in [ValidIDs -> Nat \cup {Absent}]
  BY <1>2 DEF AddedNames
<1>4. byGroupID \in [ValidIDs -> Nat \cup {Absent}] /\ Len(groups) \in Nat /\ DOMAIN groups = 1 .. Len(groups)
  BY <1>1, AddedIs DEF IssuesInv, TypeInv
<1>5. Grouped(k) => /\ defs[k].id \in ValidIDs
                    /\ byGroupID' = [byGroupID EXCEPT ![defs[k].id] = Len(groups)]
  BY <1>1, <1>2, FaultlessIs DEF AddedGroup
<1>6. ~Grouped(k) => byGroupID' = byGroupID /\ groups' = groups
  BY <1>2 DEF AddedGroup
<1>7. byGroupID' \in [ValidIDs -> Nat \cup {Absent}]
  BY <1>4, <1>5, <1>6
<1>8. \* An entry placed before is another one.
      ASSUME NEW a \in Nat, a < index, NEW j \in DOMAIN defs, indexes[a + 1] = j - 1
      PROVE  j # k
  <2>1. PICK b : b = a + 1
    OBVIOUS
  <2>2. PICK c : c = index + 1
    OBVIOUS
  <2>3. b \in 1 .. Len(defs) /\ c \in 1 .. Len(defs) /\ b < c
    BY <1>1, <1>8, <2>1, <2>2
  <2>4. \/ defs[indexes[b] + 1].priority > defs[indexes[c] + 1].priority
        \/ /\ defs[indexes[b] + 1].priority = defs[indexes[c] + 1].priority
           /\ indexes[b] < indexes[c]
    BY <1>1, <2>3 DEF SortedInv
  <2>5. SUFFICES ASSUME j = k
                 PROVE  FALSE
    OBVIOUS
  <2>6. indexes[b] = k - 1 /\ indexes[c] = k - 1 /\ k - 1 + 1 = k
    BY <1>1, <1>8, <2>1, <2>2, <2>5
  <2>7. defs[k].priority \in Int
    BY <1>1, PartsTyped
  <2> QED
    BY <1>1, <2>4, <2>6, <2>7
<1>9. ASSUME NEW o \in DOMAIN rules'
      PROVE  byID'[rules'[o].id] = o - 1
  <2>1. CASE o \in DOMAIN rules
    <3>1. Described(o)
      BY <1>1, <2>1 DEF RulesInv
    <3>2. PICK j \in DOMAIN defs : \E m \in Parts(j) :
             /\ rules[o].topLevelOrder < index
             /\ indexes[rules[o].topLevelOrder + 1] = j - 1
             /\ rules[o].id = RuleAt(j, m).id
      BY <3>1 DEF Described
    <3>3. PICK m \in Parts(j) : rules[o].id = RuleAt(j, m).id
      BY <3>2
    <3>4. rules[o].topLevelOrder \in Nat
      <4>1. rules \in Seq(RuleMeta)
        BY AddedIs
      <4>2. rules[o] \in RuleMeta
        BY <2>1, <4>1
      <4> QED
        BY <4>2 DEF RuleMeta
    <3>5. j # k
      BY <1>8, <3>2, <3>4
    <3>6. /\ \A l \in Parts(k) : RuleAt(k, l).id # rules[o].id
          /\ rules[o].id \in ValidIDs
      BY <1>1, <3>3, <3>5, FaultlessIs
    <3>7. byID'[rules[o].id] = byID[rules[o].id]
      BY <1>2, <3>6 DEF AddedNames
    <3>8. byID[rules[o].id] = o - 1 /\ rules'[o] = rules[o]
      BY <1>1, <2>1, OldOrNew DEF TablesInv
    <3> QED
      BY <3>7, <3>8
  <2>2. CASE o \notin DOMAIN rules
    <3>1. PICK i \in 1 .. n : o = Len(rules) + i
      BY <2>2, OldOrNew
    <3>2. rules'[o] = MetaOf(k, p[i])
      BY <3>1, NewDescribed
    <3>3. rules'[o].id = RuleAt(k, p[i]).id
      BY <3>2 DEF MetaOf
    <3>4. byID'[RuleAt(k, p[i]).id] = Len(rules) + i - 1
      BY <1>2 DEF AddedNames
    <3> QED
      BY <3>1, <3>3, <3>4
  <2> QED
    BY <2>1, <2>2
<1>10. ASSUME NEW g \in DOMAIN groups'
       PROVE  byGroupID'[groups'[g].id] = g - 1
  <2>1. CASE g \in DOMAIN groups
    <3>1. groups'[g] = groups[g] /\ byGroupID[groups[g].id] = g - 1
      BY <1>1, <2>1, GroupsGrow DEF TablesInv
    <3>2. PICK j \in DOMAIN defs :
             /\ groups[g].topLevelOrder < index
             /\ indexes[groups[g].topLevelOrder + 1] = j - 1
             /\ Grouped(j) /\ groups[g].id = defs[j].id
      BY <1>1, <2>1 DEF GroupsInv
    <3>3. groups[g].topLevelOrder \in Nat
      <4>1. groups \in Seq(GroupMeta)
        BY AddedIs
      <4>2. groups[g] \in GroupMeta
        BY <2>1, <4>1
      <4> QED
        BY <4>2 DEF GroupMeta
    <3>4. j # k
      BY <1>8, <3>2, <3>3
    <3>5. Grouped(k) => defs[k].id # groups[g].id
      BY <1>1, <3>2, <3>4, FaultlessIs
    <3>6. groups[g].id \in ValidIDs
      BY <1>1, <3>2, FaultlessIs
    <3> QED
      BY <1>4, <1>5, <1>6, <3>1, <3>5, <3>6
  <2>2. CASE g \notin DOMAIN groups
    <3>1. DOMAIN groups' = 1 .. Len(groups')
          /\ Len(groups') = IF Grouped(k) THEN Len(groups) + 1 ELSE Len(groups)
      BY GroupsGrow
    <3>2. Grouped(k) /\ g = Len(groups) + 1
      BY <1>4, <2>2, <3>1
    <3>3. groups'[g].id = defs[k].id
      BY <3>2, GroupsGrow
    <3> QED
      BY <1>4, <1>5, <3>2, <3>3
  <2> QED
    BY <2>1, <2>2
<1>11. ASSUME NEW id \in ValidIDs
       PROVE  /\ byID'[id] # Absent => \E j \in DOMAIN defs : \E m \in Parts(j) : RuleAt(j, m).id = id
              /\ byGroupID'[id] # Absent => \E j \in DOMAIN defs : Grouped(j) /\ defs[j].id = id
  <2>1. byID'[id] = byID[id] \/ \E m \in Parts(k) : RuleAt(k, m).id = id
    BY <1>2 DEF AddedNames
  <2>2. byGroupID'[id] = byGroupID[id] \/ (Grouped(k) /\ defs[k].id = id)
    BY <1>4, <1>5, <1>6
  <2> QED
    BY <1>1, <2>1, <2>2 DEF TablesInv
<1>12. /\ \A j : (Grouped(j)' <=> Grouped(j)) /\ Parts(j)' = Parts(j)
       /\ \A j, l : RuleAt(j, l)' = RuleAt(j, l)
  BY <1>1, SameList
<1>13. TablesInv'
  BY <1>1, <1>9, <1>10, <1>11, <1>12 DEF TablesInv
<1> QED
  BY <1>3, <1>7, <1>13

(* A placement, of a rule or of a group, keeps the invariant. *)
LEMMA AddedKeeps ==
    ASSUME CompileInv, NEW k, NEW n, NEW p, Added(k, n, p)
    PROVE  CompileInv'
<1>1. /\ defs' = defs /\ indexes' = indexes /\ index' = index + 1
      /\ pc' = pc /\ member' = member /\ issues' = issues /\ pc = "place"
  BY DEF Added, Placing
<1>2. /\ index \in Nat /\ index + 1 \in 1 .. Len(defs) /\ Len(defs) \in Nat
      /\ Faultless /\ SortedInv /\ IssuesInv
  BY AddedIs
<1>3. IssuesInv'
  <2>1. VerdictInv
    BY <1>2 DEF IssuesInv
  <2>2. VerdictInv' /\ Settled /\ Settled' /\ index' \in 0 .. Len(defs)
        /\ (pc' \in {"refused", "compiled"} => index' = Len(defs))
    BY <1>1, <1>2, <2>1 DEF VerdictInv, Settled
  <2> QED
    BY <1>1, <1>2, <2>2, TablesAdded, SettledKeeps
<1>4. Faultless'
  <2>1. /\ \A j : (Grouped(j)' <=> Grouped(j)) /\ Parts(j)' = Parts(j) /\ GroupFaults(j)' = GroupFaults(j)
        /\ \A j, m : RuleFaults(j, m)' = RuleFaults(j, m)
    BY <1>1, SameList
  <2> QED
    BY <1>1, <1>2, <2>1 DEF Faultless
<1>5. SortedInv'
  BY <1>1, <1>2 DEF SortedInv
<1>6. PlacedInv'
  BY <1>4, <1>5, RulesAdded, GroupsAdded, EntriesAdded, TablesAdded DEF PlacedInv
<1>7. EmptyInv'
  BY <1>1 DEF EmptyInv
<1> QED
  BY <1>3, <1>6, <1>7 DEF CompileInv

(* What is next to be placed. *)
LEMMA PlacingIs ==
    ASSUME CompileInv, Placing, NEW k, k = Upcoming + 1
    PROVE  /\ defs \in Definitions /\ Faultless /\ index \in Nat
           /\ k \in DOMAIN defs /\ k \in Nat /\ k >= 1 /\ Upcoming = k - 1 /\ Def(Upcoming) = defs[k]
           /\ rules \in Seq(RuleMeta) /\ Len(rules) \in Nat
           /\ callbacks \in Seq(RuleSpace) /\ Len(callbacks) = Len(rules) /\ Len(groups) \in Nat
           /\ byID \in [ValidIDs -> Nat \cup {Absent}]
           /\ \A m \in Parts(k) : MetaOf(k, m) \in RuleMeta /\ RuleAt(k, m) \in RuleSpace
<1>1. IssuesInv /\ Faultless /\ SortedInv /\ RulesInv /\ GroupsInv /\ pc = "place" /\ index < Len(defs)
  BY DEF CompileInv, PlacedInv, Placing
<1>2. defs \in Definitions /\ index \in Nat /\ byID \in [ValidIDs -> Nat \cup {Absent}]
  BY <1>1 DEF IssuesInv, TypeInv
<1>3. Len(defs) \in Nat /\ DOMAIN defs = 1 .. Len(defs) /\ index + 1 \in 1 .. Len(defs)
  BY <1>1, <1>2, ListTyped
<1>4. indexes[index + 1] \in 0 .. Len(defs) - 1
  BY <1>1, <1>3 DEF SortedInv
<1>5. k \in DOMAIN defs /\ k \in Nat /\ k >= 1 /\ Upcoming = k - 1 /\ Def(Upcoming) = defs[k]
  BY <1>3, <1>4 DEF Upcoming, Def
<1>6. /\ rules \in Seq(RuleMeta) /\ callbacks \in Seq(RuleSpace) /\ groups \in Seq(GroupMeta)
      /\ Len(callbacks) = Len(rules)
  BY <1>1 DEF RulesInv, GroupsInv
<1>7. Len(rules) \in Nat /\ Len(groups) \in Nat
  BY <1>6
<1>8. ASSUME NEW m \in Parts(k)
      PROVE  MetaOf(k, m) \in RuleMeta /\ RuleAt(k, m) \in RuleSpace
  <2>1. RuleAt(k, m) \in RuleSpace /\ m \in Nat /\ m >= 1
    BY <1>2, <1>5, PartsTyped
  <2>2. RuleAt(k, m).id \in STRING /\ RuleAt(k, m).priority \in Int
    BY <2>1, RuleTyped
  <2>3. k - 1 \in Nat /\ m - 1 \in Nat
    BY <1>5, <2>1
  <2>4. (IF Grouped(k) THEN Len(groups) ELSE NoGroup) \in Nat \cup {NoGroup}
    BY <1>7
  <2> QED
    BY <1>2, <2>1, <2>2, <2>3, <2>4 DEF MetaOf, RuleMeta
<1> QED
  BY <1>1, <1>2, <1>5, <1>6, <1>7, <1>8

(* A rule on its own is an entry of one part. *)
LEMMA PlaceRuleAdds ==
    ASSUME CompileInv, PlaceRule, NEW k, k = Upcoming + 1, NEW p, p = [i \in 1 .. 1 |-> 1]
    PROVE  Added(k, 1, p)
<1>0. Placing /\ ~IsGroup(Def(Upcoming))
  BY DEF PlaceRule
<1>1. /\ defs \in Definitions /\ Faultless /\ index \in Nat
      /\ k \in DOMAIN defs /\ k \in Nat /\ Upcoming = k - 1 /\ Def(Upcoming) = defs[k]
      /\ rules \in Seq(RuleMeta) /\ Len(rules) \in Nat
      /\ callbacks \in Seq(RuleSpace) /\ Len(callbacks) = Len(rules)
      /\ byID \in [ValidIDs -> Nat \cup {Absent}]
      /\ \A m \in Parts(k) : MetaOf(k, m) \in RuleMeta /\ RuleAt(k, m) \in RuleSpace
  BY <1>0, PlacingIs
<1>2. ~Grouped(k) /\ Parts(k) = {1} /\ RuleAt(k, 1) = defs[k]
  BY <1>0, <1>1 DEF Grouped, Parts, RuleAt
<1>3. \A i \in 1 .. 1 : i = 1 /\ p[i] = 1
  OBVIOUS
<1>4. PICK meta : meta = MetaOf(k, 1)
  OBVIOUS
<1>5. rules' = Append(rules, meta)
  BY <1>1, <1>2, <1>4 DEF PlaceRule, MetaOf
<1>6. callbacks' = Append(callbacks, RuleAt(k, 1))
  BY <1>1, <1>2 DEF PlaceRule
<1>7. AddedRules(k, 1, p)
  <2>1. meta \in RuleMeta /\ RuleAt(k, 1) \in RuleSpace
    BY <1>1, <1>2, <1>4
  <2>2. /\ rules' \in Seq(RuleMeta) /\ Len(rules') = Len(rules) + 1
        /\ DOMAIN rules = 1 .. Len(rules)
        /\ \A i \in 1 .. Len(rules) : rules'[i] = rules[i]
        /\ rules'[Len(rules) + 1] = meta
    BY <1>1, <1>5, <2>1, OneMore
  <2>3. /\ callbacks' \in Seq(RuleSpace) /\ Len(callbacks') = Len(callbacks) + 1
        /\ DOMAIN callbacks = 1 .. Len(callbacks)
        /\ \A i \in 1 .. Len(callbacks) : callbacks'[i] = callbacks[i]
        /\ callbacks'[Len(callbacks) + 1] = RuleAt(k, 1)
    BY <1>1, <1>6, <2>1, OneMore
  <2>4. \A i \in 1 .. 1 : /\ rules'[Len(rules) + i] = MetaOf(k, p[i])
                          /\ callbacks'[Len(callbacks) + i] = RuleAt(k, p[i])
    BY <1>3, <1>4, <2>2, <2>3
  <2> QED
    BY <2>2, <2>3, <2>4 DEF AddedRules
<1>8. AddedNames(k, 1, p)
  <2>1. defs[k].id \in ValidIDs
    BY <1>1, <1>2, FaultlessIs
  <2>2. byID' = [byID EXCEPT ![defs[k].id] = Len(rules)]
    BY <1>1 DEF PlaceRule
  <2>3. byID' \in [ValidIDs -> Nat \cup {Absent}]
    BY <1>1, <2>1, <2>2
  <2>4. \A i \in 1 .. 1 : byID'[RuleAt(k, p[i]).id] = Len(rules) + i - 1
    <3>1. byID'[defs[k].id] = Len(rules) /\ Len(rules) + 1 - 1 = Len(rules)
      BY <1>1, <2>1, <2>2
    <3> QED
      BY <1>2, <1>3, <3>1
  <2>5. \A id \in ValidIDs : (\A m \in Parts(k) : RuleAt(k, m).id # id) => byID'[id] = byID[id]
    BY <1>1, <1>2, <2>1, <2>2
  <2> QED
    BY <2>3, <2>4, <2>5 DEF AddedNames
<1>9. AddedGroup(k, 1)
  BY <1>2 DEF AddedGroup, PlaceRule
<1>10. AddedEntry(1)
  BY DEF AddedEntry, PlaceRule, Place
<1>11. /\ index' = index + 1
       /\ defs' = defs /\ pc' = pc /\ member' = member /\ issues' = issues /\ indexes' = indexes
  BY DEF PlaceRule, input
<1>12. /\ p \in [1 .. 1 -> Parts(k)] /\ \A m \in Parts(k) : \E i \in 1 .. 1 : p[i] = m
       /\ \A i, j \in 1 .. 1 : ~(i < j)
  BY <1>2, <1>3
<1>13. 1 \in Nat
  OBVIOUS
<1> QED
  BY <1>0, <1>7, <1>8, <1>9, <1>10, <1>11, <1>12, <1>13 DEF Added

(* The members of a group, sorted, are its parts in another order. *)
LEMMA PlaceGroupAdds ==
    ASSUME CompileInv, PlaceGroup, NEW k, k = Upcoming + 1, NEW n, n = Len(defs[k].members)
    PROVE  \E p : Added(k, n, p)
<1>0. Placing /\ IsGroup(Def(Upcoming))
  BY DEF PlaceGroup
<1>1. /\ defs \in Definitions /\ Faultless /\ index \in Nat
      /\ k \in DOMAIN defs /\ k \in Nat /\ Upcoming = k - 1 /\ Def(Upcoming) = defs[k]
      /\ rules \in Seq(RuleMeta) /\ Len(rules) \in Nat
      /\ callbacks \in Seq(RuleSpace) /\ Len(callbacks) = Len(rules)
      /\ byID \in [ValidIDs -> Nat \cup {Absent}]
      /\ \A m \in Parts(k) : MetaOf(k, m) \in RuleMeta /\ RuleAt(k, m) \in RuleSpace
  BY <1>0, PlacingIs
<1>2. /\ Grouped(k) /\ Parts(k) = 1 .. n /\ n \in Nat
      /\ \A m \in 1 .. n : RuleAt(k, m) = defs[k].members[m]
      /\ \A m \in 1 .. n : RuleAt(k, m).id \in STRING /\ RuleAt(k, m).priority \in Int
  <2>1. Grouped(k)
    BY <1>0, <1>1 DEF Grouped
  <2>2. \A m : RuleAt(k, m) = defs[k].members[m]
    BY <2>1 DEF RuleAt
  <2>3. Parts(k) = 1 .. n /\ n \in Nat
    BY <1>1, <2>1, PartsTyped
  <2>4. \A m \in 1 .. n : RuleAt(k, m).id \in STRING /\ RuleAt(k, m).priority \in Int
    BY <1>1, <2>3, RuleTyped
  <2> QED
    BY <2>1, <2>2, <2>3, <2>4
<1>3. PICK priorities : priorities = [m \in 1 .. n |-> defs[k].members[m].priority]
  OBVIOUS
<1>4. PICK p \in StableSorts([m \in 1 .. Len(Def(Upcoming).members) |->
                               Def(Upcoming).members[m].priority]) :
         \E sorted :
            /\ sorted = [m \in 1 .. Len(Def(Upcoming).members) |->
                  [id |-> Def(Upcoming).members[p[m]].id,
                   priority |-> Def(Upcoming).members[p[m]].priority,
                   registrationIndex |-> Upcoming, topLevelOrder |-> index,
                   memberIndex |-> p[m] - 1, group |-> Len(groups)]]
            /\ rules' = rules \o sorted
            /\ callbacks' = callbacks \o [j \in 1 .. Len(Def(Upcoming).members) |->
                                             Source(Def(Upcoming), sorted, j)]
            /\ byID' = [id \in ValidIDs |->
                          IF \E j \in DOMAIN sorted : sorted[j].id = id
                          THEN Ordered(id, sorted, Len(rules)) ELSE byID[id]]
  BY Zenon DEF PlaceGroup
<1>5. PICK sorted :
         /\ sorted = [m \in 1 .. Len(Def(Upcoming).members) |->
               [id |-> Def(Upcoming).members[p[m]].id,
                priority |-> Def(Upcoming).members[p[m]].priority,
                registrationIndex |-> Upcoming, topLevelOrder |-> index,
                memberIndex |-> p[m] - 1, group |-> Len(groups)]]
         /\ rules' = rules \o sorted
         /\ callbacks' = callbacks \o [j \in 1 .. Len(Def(Upcoming).members) |->
                                          Source(Def(Upcoming), sorted, j)]
         /\ byID' = [id \in ValidIDs |->
                       IF \E j \in DOMAIN sorted : sorted[j].id = id
                       THEN Ordered(id, sorted, Len(rules)) ELSE byID[id]]
  BY <1>4
<1>6. PICK sources : sources = [j \in 1 .. Len(Def(Upcoming).members) |->
                                  Source(Def(Upcoming), sorted, j)]
  OBVIOUS
<1>7. /\ p \in StableSorts(priorities)
      /\ rules' = rules \o sorted /\ callbacks' = callbacks \o sources
      /\ sources = [j \in 1 .. n |-> sources[j]]
      /\ \A j \in 1 .. n : sources[j] = Source(defs[k], sorted, j)
      /\ sorted = [m \in 1 .. n |-> sorted[m]]
  BY <1>1, <1>3, <1>4, <1>5, <1>6
<1>8. /\ byID' = [id \in ValidIDs |-> byID'[id]]
      /\ \A id \in ValidIDs :
            /\ (\E j \in DOMAIN sorted : sorted[j].id = id) => byID'[id] = Ordered(id, sorted, Len(rules))
            /\ ~(\E j \in DOMAIN sorted : sorted[j].id = id) => byID'[id] = byID[id]
  BY <1>5
<1>9. priorities \in [1 .. n -> Int] /\ \A m \in 1 .. n : priorities[m] = RuleAt(k, m).priority
  BY <1>2, <1>3
<1>10. /\ p \in [1 .. n -> 1 .. n]
       /\ \A a, b \in 1 .. n : a < b =>
             \/ priorities[p[a]] > priorities[p[b]]
             \/ priorities[p[a]] = priorities[p[b]] /\ p[a] < p[b]
       /\ \A m \in 1 .. n : \E i \in 1 .. n : p[i] = m
  <2>1. Permutes(p, n, priorities)
    BY <1>2, <1>7, <1>9, StableIsPermutation
  <2> QED
    BY <2>1 DEF Permutes
<1>11. ASSUME NEW i \in 1 .. n
       PROVE  /\ p[i] \in 1 .. n /\ p[i] \in Parts(k) /\ sorted[i] = MetaOf(k, p[i])
              /\ sorted[i].memberIndex + 1 = p[i] /\ sorted[i].id = RuleAt(k, p[i]).id
              /\ sources[i] = RuleAt(k, p[i])
  <2>1. PICK m \in 1 .. n : m = p[i]
    BY <1>10
  <2>2. RuleAt(k, m) = defs[k].members[m]
    BY <1>2
  <2>3. sorted[i] = [id |-> defs[k].members[m].id, priority |-> defs[k].members[m].priority,
                     registrationIndex |-> Upcoming, topLevelOrder |-> index,
                     memberIndex |-> m - 1, group |-> Len(groups)]
    BY <1>1, <1>5, <2>1
  <2>4. sorted[i] = MetaOf(k, m)
    BY <1>1, <1>2, <2>2, <2>3 DEF MetaOf
  <2>5. sorted[i].memberIndex = m - 1 /\ sorted[i].memberIndex + 1 = m
    BY <2>3
  <2>6. sorted[i].id = RuleAt(k, m).id
    BY <2>2, <2>3
  <2>7. sources[i] = RuleAt(k, m)
    BY <1>7, <2>2, <2>5 DEF Source
  <2> QED
    BY <1>2, <2>1, <2>4, <2>5, <2>6, <2>7
<1>12. /\ DOMAIN sorted = 1 .. n /\ sorted \in Seq(RuleMeta) /\ Len(sorted) = n
       /\ DOMAIN sources = 1 .. n /\ sources \in Seq(RuleSpace) /\ Len(sources) = n
  <2>1. \A i \in 1 .. n : sorted[i] \in RuleMeta /\ sources[i] \in RuleSpace
    BY <1>1, <1>11
  <2>2. sorted \in [1 .. n -> RuleMeta]
    BY <1>7, <2>1
  <2>3. sources \in [1 .. n -> RuleSpace]
    BY <1>7, <2>1
  <2>4. sorted \in Seq(RuleMeta) /\ Len(sorted) = n
    BY <1>2, <2>2, SMTT(30)
  <2>5. sources \in Seq(RuleSpace) /\ Len(sources) = n
    BY <1>2, <2>3, SMTT(30)
  <2> QED
    BY <2>2, <2>3, <2>4, <2>5
<1>13. AddedRules(k, n, p)
  <2>1. PICK u : u = rules \o sorted
    OBVIOUS
  <2>2. /\ u \in Seq(RuleMeta) /\ Len(u) = Len(rules) + n
        /\ \A o \in DOMAIN rules : u[o] = rules[o]
        /\ \A i \in DOMAIN sorted : u[Len(rules) + i] = sorted[i]
    <3>1. PICK s, t : s = rules /\ t = sorted
      OBVIOUS
    <3>2. s \in Seq(RuleMeta) /\ t \in Seq(RuleMeta) /\ u = s \o t
      BY <1>1, <1>12, <2>1, <3>1
    <3>3. /\ u \in Seq(RuleMeta) /\ Len(u) = Len(s) + Len(t)
          /\ \A o \in DOMAIN s : u[o] = s[o]
          /\ \A i \in DOMAIN t : u[Len(s) + i] = t[i]
      BY <3>2, Concatenated
    <3> QED
      BY <1>12, <3>1, <3>3
  <2>3. PICK v : v = callbacks \o sources
    OBVIOUS
  <2>4. /\ v \in Seq(RuleSpace) /\ Len(v) = Len(callbacks) + n
        /\ \A o \in DOMAIN callbacks : v[o] = callbacks[o]
        /\ \A i \in DOMAIN sources : v[Len(callbacks) + i] = sources[i]
    <3>1. PICK s, t : s = callbacks /\ t = sources
      OBVIOUS
    <3>2. s \in Seq(RuleSpace) /\ t \in Seq(RuleSpace) /\ v = s \o t
      BY <1>1, <1>12, <2>3, <3>1
    <3>3. /\ v \in Seq(RuleSpace) /\ Len(v) = Len(s) + Len(t)
          /\ \A o \in DOMAIN s : v[o] = s[o]
          /\ \A i \in DOMAIN t : v[Len(s) + i] = t[i]
      BY <3>2, Concatenated
    <3> QED
      BY <1>12, <3>1, <3>3
  <2>5. rules' = u /\ callbacks' = v
    BY <1>7, <2>1, <2>3
  <2> QED
    BY <1>11, <1>12, <2>2, <2>4, <2>5 DEF AddedRules
<1>14. ASSUME NEW i \in 1 .. n, NEW j \in 1 .. n, sorted[i].id = sorted[j].id
       PROVE  i = j
  <2>1. PICK l \in Parts(k) : l = p[i]
    BY <1>11
  <2>2. PICK m \in Parts(k) : m = p[j]
    BY <1>11
  <2>3. RuleAt(k, l).id = RuleAt(k, m).id
    BY <1>11, <1>14, <2>1, <2>2
  <2>4. l = m
    BY <1>1, <2>3, FaultlessIs
  <2>5. p[i] = p[j] /\ p[i] \in Int /\ priorities[p[i]] \in Int
    <3>1. p[i] = p[j]
      BY <2>1, <2>2, <2>4, Zenon
    <3>2. PICK a \in 1 .. n : a = p[i]
      BY <1>11
    <3>3. a \in Int /\ priorities[a] \in Int
      <4>1. priorities \in [1 .. n -> Int]
        BY <1>9
      <4> QED
        BY <3>2, <4>1
    <3> QED
      BY <3>1, <3>2, <3>3, Zenon
  <2>6. ASSUME NEW a \in 1 .. n, NEW b \in 1 .. n, p[a] = p[b], p[a] \in Int, priorities[p[a]] \in Int
        PROVE  ~(a < b)
    <3>1. a < b => priorities[p[a]] > priorities[p[b]] \/ p[a] < p[b]
      BY <1>10
    <3>2. priorities[p[b]] = priorities[p[a]] /\ p[b] = p[a]
      BY <2>6
    <3> QED
      BY <2>6, <3>1, <3>2
  <2>7. ~(i < j) /\ ~(j < i)
    BY <2>5, <2>6
  <2> QED
    BY <1>2, <2>7
<1>15. AddedNames(k, n, p)
  <2>1. ASSUME NEW i \in 1 .. n
        PROVE  Ordered(sorted[i].id, sorted, Len(rules)) = Len(rules) + i - 1
    <3>1. PICK c : c = CHOOSE j \in DOMAIN sorted : sorted[j].id = sorted[i].id
      OBVIOUS
    <3>2. c \in 1 .. n /\ sorted[c].id = sorted[i].id
      BY <1>12, <3>1
    <3>3. c = i
      BY <1>14, <3>2
    <3> QED
      BY <3>1, <3>3 DEF Ordered
  <2>2. \A i \in 1 .. n : sorted[i].id = RuleAt(k, p[i]).id /\ sorted[i].id \in ValidIDs
    BY <1>1, <1>11, FaultlessIs
  <2>3. ASSUME NEW i \in 1 .. n
        PROVE  byID'[RuleAt(k, p[i]).id] = Len(rules) + i - 1
    <3>1. PICK id \in ValidIDs : id = sorted[i].id
      BY <2>2
    <3>2. byID'[id] = Ordered(id, sorted, Len(rules))
      BY <1>8, <1>12, <3>1
    <3> QED
      BY <2>1, <2>2, <3>1, <3>2
  <2>4. ASSUME NEW id \in ValidIDs
        PROVE  /\ byID'[id] \in Nat \cup {Absent}
               /\ (\A m \in Parts(k) : RuleAt(k, m).id # id) => byID'[id] = byID[id]
    <3>1. CASE \E i \in 1 .. n : sorted[i].id = id
      <4>1. PICK i \in 1 .. n : sorted[i].id = id
        BY <3>1
      <4>2. byID'[id] = Len(rules) + i - 1 /\ p[i] \in Parts(k) /\ RuleAt(k, p[i]).id = id
        BY <1>11, <2>2, <2>3, <4>1
      <4>3. Len(rules) + i - 1 \in Nat
        BY <1>1
      <4> QED
        BY <4>2, <4>3
    <3>2. CASE ~\E i \in 1 .. n : sorted[i].id = id
      <4>1. byID'[id] = byID[id]
        BY <1>8, <1>12, <3>2
      <4> QED
        BY <1>1, <4>1
    <3> QED
      BY <3>1, <3>2
  <2>5. byID' \in [ValidIDs -> Nat \cup {Absent}]
    BY <1>8, <2>4
  <2> QED
    BY <2>3, <2>4, <2>5 DEF AddedNames
<1>16. End(Len(rules), defs[k]) = Len(rules) + n
  BY DEF End
<1>17. AddedGroup(k, n)
  BY <1>1, <1>2, <1>16 DEF AddedGroup, PlaceGroup
<1>18. AddedEntry(n)
  <2>1. HasGroups /\ defs[k].kind \in GroupKinds
    BY <1>1, <1>2 DEF HasGroups, Grouped, IsGroup
  <2> QED
    BY <1>1, <1>16, <2>1 DEF AddedEntry, PlaceGroup, Place
<1>19. /\ index' = index + 1
       /\ defs' = defs /\ pc' = pc /\ member' = member /\ issues' = issues /\ indexes' = indexes
  BY DEF PlaceGroup, input
<1>20. ASSUME NEW a \in 1 .. n, NEW b \in 1 .. n, a < b
       PROVE  \/ RuleAt(k, p[a]).priority > RuleAt(k, p[b]).priority
              \/ RuleAt(k, p[a]).priority = RuleAt(k, p[b]).priority /\ p[a] < p[b]
  <2>1. /\ priorities[p[a]] = RuleAt(k, p[a]).priority
        /\ priorities[p[b]] = RuleAt(k, p[b]).priority
    BY <1>9, <1>10
  <2> QED
    BY <1>10, <1>20, <2>1, ZenonT(30)
<1>21. p \in [1 .. n -> Parts(k)] /\ \A m \in Parts(k) : \E i \in 1 .. n : p[i] = m
  BY <1>2, <1>10
<1> QED
  BY <1>0, <1>2, <1>13, <1>15, <1>17, <1>18, <1>19, <1>20, <1>21 DEF Added

LEMMA RefuseKeeps ==
    ASSUME CompileInv, Refuse
    PROVE  CompileInv'
<1>1. /\ IssuesInv /\ pc = "validate" /\ index = Len(defs) /\ issues # <<>>
      /\ pc' = "refused" /\ defs' = defs /\ index' = index /\ member' = member
      /\ byID' = byID /\ byGroupID' = byGroupID /\ issues' = issues
  BY DEF CompileInv, Refuse, input
<1>2. /\ byID \in [ValidIDs -> Nat \cup {Absent}] /\ byGroupID \in [ValidIDs -> Nat \cup {Absent}]
      /\ index \in 0 .. Len(defs)
  BY <1>1 DEF IssuesInv, TypeInv
<1>3. VerdictInv' /\ Settled'
  BY <1>1 DEF VerdictInv, Settled
<1>4. IssuesInv'
  BY <1>1, <1>2, <1>3, SettledKeeps
<1> QED
  BY <1>1, <1>4 DEF CompileInv, PlacedInv, EmptyInv

LEMMA SortedKept ==
    ASSUME SortedInv, defs' = defs, indexes' = indexes
    PROVE  SortedInv'
  BY DEF SortedInv

LEMMA FreezeKeeps ==
    ASSUME CompileInv, Freeze
    PROVE  CompileInv'
<1>1. /\ IssuesInv /\ pc = "place" /\ index = Len(defs) /\ pc' = "compiled"
      /\ defs' = defs /\ index' = index /\ member' = member
      /\ byID' = byID /\ byGroupID' = byGroupID /\ issues' = issues /\ indexes' = indexes
      /\ rules' = rules /\ callbacks' = callbacks /\ groups' = groups /\ entries' = entries
  BY DEF CompileInv, Freeze, input, snapshot
<1>2. /\ byID \in [ValidIDs -> Nat \cup {Absent}] /\ byGroupID \in [ValidIDs -> Nat \cup {Absent}]
      /\ index \in 0 .. Len(defs) /\ VerdictInv
  BY <1>1 DEF IssuesInv, TypeInv
<1>3. VerdictInv' /\ Settled /\ Settled'
  BY <1>1, <1>2 DEF VerdictInv, Settled
<1>4. IssuesInv'
  BY <1>1, <1>2, <1>3, SettledKeeps
<1>5. Faultless /\ SortedInv /\ RulesInv /\ GroupsInv /\ EntriesInv /\ TablesInv
  BY <1>1 DEF CompileInv, PlacedInv
<1>6. /\ \A j : (Grouped(j)' <=> Grouped(j)) /\ Parts(j)' = Parts(j) /\ GroupFaults(j)' = GroupFaults(j)
      /\ \A j, m : RuleFaults(j, m)' = RuleFaults(j, m) /\ RuleAt(j, m)' = RuleAt(j, m)
  BY <1>1, SameList
<1>7. Faultless'
  BY <1>1, <1>5, <1>6 DEF Faultless
<1>8. SortedInv'
  <2>1. SortedInv
    BY <1>5
  <2>2. defs' = defs /\ indexes' = indexes
    BY <1>1
  <2> QED
    BY <2>1, <2>2, SortedKept
<1>9. RulesInv'
  <2>1. \A o : Described(o)' <=> Described(o)
    BY <1>1, <1>6 DEF Described
  <2>2. \A o, q : RuleOrder(o, q)' <=> RuleOrder(o, q)
    BY <1>1 DEF RuleOrder
  <2> QED
    BY <1>1, <1>5, <1>6, <2>1, <2>2 DEF RulesInv
<1>10. GroupsInv'
  BY <1>1, <1>5, <1>6 DEF GroupsInv
<1>11. EntriesInv'
  <2>1. HasGroups' <=> HasGroups
    BY <1>1 DEF HasGroups
  <2> QED
    BY <1>1, <1>5, <2>1 DEF EntriesInv
<1>12. TablesInv'
  BY <1>1, <1>5, <1>6 DEF TablesInv
<1> QED
  BY <1>1, <1>4, <1>7, <1>8, <1>9, <1>10, <1>11, <1>12 DEF CompileInv, PlacedInv, EmptyInv

(* Nothing changes. *)
LEMMA NothingKeeps ==
    ASSUME CompileInv, UNCHANGED vars
    PROVE  CompileInv'
<1>1. /\ defs' = defs /\ pc' = pc /\ index' = index /\ member' = member
      /\ byID' = byID /\ byGroupID' = byGroupID /\ issues' = issues /\ indexes' = indexes
      /\ rules' = rules /\ callbacks' = callbacks /\ groups' = groups /\ entries' = entries
  BY Zenon DEF vars, input, cursor, snapshot
<1>2. IssuesInv /\ PlacedInv /\ EmptyInv
  BY DEF CompileInv
<1>3. TypeInv /\ SeenInv /\ FoundInv /\ FirstInv /\ VerdictInv
  BY <1>2 DEF IssuesInv
<1>4. /\ \A j : (Grouped(j)' <=> Grouped(j)) /\ Parts(j)' = Parts(j) /\ GroupFaults(j)' = GroupFaults(j)
      /\ \A j, m : RuleFaults(j, m)' = RuleFaults(j, m) /\ RuleAt(j, m)' = RuleAt(j, m)
  BY <1>1, SameList
<1>5. /\ \A k, m : PartPassed(k, m)' <=> PartPassed(k, m)
      /\ \A k : GroupPassed(k)' <=> GroupPassed(k)
  BY <1>1 DEF PartPassed, GroupPassed
<1>6. FoundInv' /\ FirstInv'
  BY <1>1, <1>3, <1>5, SamePassed DEF TypeInv
<1>7. TypeInv'
  <2>1. Grouped(index + 1)' <=> Grouped(index + 1)
    BY <1>1 DEF Grouped
  <2> QED
    BY <1>1, <1>3, <2>1 DEF TypeInv
<1>8. SeenInv'
  BY <1>1, <1>3, <1>4, <1>5 DEF SeenInv
<1>9. VerdictInv'
  BY <1>1, <1>3 DEF VerdictInv
<1>10. EmptyInv'
  BY <1>1, <1>2 DEF EmptyInv
<1>11. PlacedInv'
  <2> SUFFICES ASSUME pc' \in {"place", "compiled"}
               PROVE  Faultless' /\ SortedInv' /\ RulesInv' /\ GroupsInv' /\ EntriesInv' /\ TablesInv'
    BY DEF PlacedInv
  <2>1. Faultless /\ SortedInv /\ RulesInv /\ GroupsInv /\ EntriesInv /\ TablesInv
    BY <1>1, <1>2 DEF PlacedInv
  <2>2. Faultless'
    BY <1>1, <1>4, <2>1 DEF Faultless
  <2>3. SortedInv'
    <3>1. SortedInv
      BY <2>1
    <3>2. defs' = defs /\ indexes' = indexes
      BY <1>1
    <3> QED
      BY <3>1, <3>2 DEF SortedInv
  <2>4. RulesInv'
    <3>1. \A o : Described(o)' <=> Described(o)
      BY <1>1, <1>4 DEF Described
    <3>2. \A o, q : RuleOrder(o, q)' <=> RuleOrder(o, q)
      BY <1>1 DEF RuleOrder
    <3> QED
      BY <1>1, <1>4, <2>1, <3>1, <3>2 DEF RulesInv
  <2>5. GroupsInv'
    BY <1>1, <1>4, <2>1 DEF GroupsInv
  <2>6. EntriesInv'
    <3>1. HasGroups' <=> HasGroups
      BY <1>1 DEF HasGroups
    <3> QED
      BY <1>1, <2>1, <3>1 DEF EntriesInv
  <2>7. TablesInv'
    BY <1>1, <1>4, <2>1 DEF TablesInv
  <2> QED
    BY <2>2, <2>3, <2>4, <2>5, <2>6, <2>7
<1> QED
  BY <1>6, <1>7, <1>8, <1>9, <1>10, <1>11 DEF CompileInv, IssuesInv

LEMMA InitCompiles ==
    ASSUME Init
    PROVE  CompileInv
<1>1. IssuesInv
  BY InitIssues
<1> QED
  BY <1>1 DEF CompileInv, Init, PlacedInv, EmptyInv

LEMMA NextKeeps ==
    ASSUME CompileInv, [Next]_vars
    PROVE  CompileInv'
<1>1. IssuesInv
  BY DEF CompileInv
<1>2. ASSUME ValidateRule \/ ValidateGroup \/ ValidateMember \/ LeaveMembers
      PROVE  CompileInv'
  <2>1. IssuesInv'
    BY <1>1, <1>2, ValidateRuleKeeps, ValidateGroupKeeps, ValidateMemberKeeps, LeaveMembersKeeps
  <2>2. /\ pc \in {"validate", "members"} /\ pc' \in {"validate", "members"}
        /\ rules' = rules /\ callbacks' = callbacks /\ groups' = groups /\ entries' = entries
    BY <1>2 DEF ValidateRule, ValidateGroup, ValidateMember, LeaveMembers, snapshot
  <2>3. EmptyInv' /\ PlacedInv'
    BY <2>2 DEF CompileInv, EmptyInv, PlacedInv
  <2> QED
    BY <2>1, <2>3 DEF CompileInv
<1>3. CASE Refuse
  BY <1>3, RefuseKeeps
<1>4. CASE Sort
  BY <1>4, SortKeeps
<1>5. ASSUME PlaceRule
      PROVE  CompileInv'
  <2>1. PICK k, p : k = Upcoming + 1 /\ p = [i \in 1 .. 1 |-> 1]
    OBVIOUS
  <2>2. Added(k, 1, p)
    BY <1>5, <2>1, PlaceRuleAdds
  <2> QED
    BY <2>2, AddedKeeps
<1>6. ASSUME PlaceGroup
      PROVE  CompileInv'
  <2>1. PICK k : k = Upcoming + 1
    OBVIOUS
  <2>2. PICK n : n = Len(defs[k].members)
    OBVIOUS
  <2>3. \E p : Added(k, n, p)
    BY <1>6, <2>1, <2>2, PlaceGroupAdds
  <2> QED
    BY <2>3, AddedKeeps
<1>7. CASE Freeze
  BY <1>7, FreezeKeeps
<1>8. CASE UNCHANGED vars
  BY <1>8, NothingKeeps
<1> QED
  BY <1>2, <1>3, <1>4, <1>5, <1>6, <1>7, <1>8 DEF Next, Terminated

(***************************************************************************)
(* The inductive invariant of compilation: validation has found the faults *)
(* of what it passed, placement has described what it placed.              *)
(***************************************************************************)
THEOREM CompileInvariant == Spec => []CompileInv
<1>1. Init => CompileInv
  BY InitCompiles
<1>2. CompileInv /\ [Next]_vars => CompileInv'
  BY NextKeeps
<1> QED
  BY <1>1, <1>2, PTL DEF Spec

(***************************************************************************)
(* Validation reports every mistake once, in registration order, a         *)
(* duplicate with the index of the first rule of that identity, and        *)
(* accepts exactly the lists without mistakes (compile_internal.go:84-150).*)
(***************************************************************************)
THEOREM IssuesComplete == Spec => []IssuesAreComplete
<1>1. CompileInv => IssuesAreComplete
  BY IssuesInvSuffices DEF CompileInv
<1> QED
  BY <1>1, CompileInvariant, PTL
-----------------------------------------------------------------------------
(* The key and the origin of a compiled rule, as OrderIsDeclared has them. *)
Key(o) == <<-Def(rules[o].registrationIndex).priority, rules[o].registrationIndex,
            -rules[o].priority, rules[o].memberIndex>>
Origin(o) == [index |-> rules[o].registrationIndex, member |-> rules[o].memberIndex,
              place |-> IF rules[o].group = NoGroup THEN "rule" ELSE "member",
              rule |-> callbacks[o]]

LEMMA OriginIs ==
    ASSUME CompileInv, pc \in {"place", "compiled"}, NEW o \in DOMAIN rules
    PROVE  \E k \in DOMAIN defs : \E m \in Parts(k) :
              /\ rules[o].topLevelOrder \in 0 .. index - 1
              /\ indexes[rules[o].topLevelOrder + 1] = k - 1
              /\ rules[o].registrationIndex = k - 1 /\ rules[o].memberIndex = m - 1
              /\ rules[o].id = RuleAt(k, m).id /\ rules[o].priority = RuleAt(k, m).priority
              /\ callbacks[o] = RuleAt(k, m)
              /\ Origin(o) = PlaceAt(k, m)
              /\ Key(o) = <<-defs[k].priority, k - 1, -rules[o].priority, m - 1>>
<1>1. RulesInv /\ defs \in Definitions /\ index \in Nat
  BY DEF CompileInv, PlacedInv, IssuesInv, TypeInv
<1>2. Described(o)
  BY <1>1 DEF RulesInv
<1>0. PICK k \in DOMAIN defs : \E m \in Parts(k) :
        /\ rules[o].topLevelOrder < index
        /\ indexes[rules[o].topLevelOrder + 1] = k - 1
        /\ rules[o].registrationIndex = k - 1 /\ rules[o].memberIndex = m - 1
        /\ rules[o].id = RuleAt(k, m).id /\ rules[o].priority = RuleAt(k, m).priority
        /\ callbacks[o] = RuleAt(k, m)
        /\ ~Grouped(k) => rules[o].group = NoGroup
        /\ Grouped(k) => rules[o].group \in 0 .. Len(groups) - 1
  BY <1>2 DEF Described
<1>3. PICK m \in Parts(k) :
        /\ rules[o].topLevelOrder < index
        /\ indexes[rules[o].topLevelOrder + 1] = k - 1
        /\ rules[o].registrationIndex = k - 1 /\ rules[o].memberIndex = m - 1
        /\ rules[o].id = RuleAt(k, m).id /\ rules[o].priority = RuleAt(k, m).priority
        /\ callbacks[o] = RuleAt(k, m)
        /\ ~Grouped(k) => rules[o].group = NoGroup
        /\ Grouped(k) => rules[o].group \in 0 .. Len(groups) - 1
  BY <1>0
<1>4. rules[o].topLevelOrder \in Nat
  <2>1. rules \in Seq(RuleMeta)
    BY <1>1 DEF RulesInv
  <2>2. rules[o] \in RuleMeta
    BY <2>1
  <2> QED
    BY <2>2 DEF RuleMeta
<1>5. rules[o].group = NoGroup <=> ~Grouped(k)
  BY <1>3 DEF NoGroup
<1>6. Origin(o) = PlaceAt(k, m)
  BY <1>3, <1>5 DEF Origin, PlaceAt, KindAt
<1>7. Key(o) = <<-defs[k].priority, k - 1, -rules[o].priority, m - 1>>
  <2>1. k \in Nat /\ k - 1 + 1 = k
    BY <1>1, PartsTyped
  <2>2. Def(rules[o].registrationIndex) = defs[k]
    BY <1>3, <2>1 DEF Def
  <2> QED
    BY <1>3, <2>2 DEF Key
<1> QED
  BY <1>1, <1>3, <1>4, <1>6, <1>7

LEMMA OriginsArePlaces ==
    ASSUME CompileInv, pc = "compiled"
    PROVE  {Origin(o) : o \in DOMAIN rules} = Places
<1>1. /\ RulesInv /\ SortedInv /\ defs \in Definitions /\ index = Len(defs)
      /\ Len(defs) \in Nat /\ DOMAIN defs = 1 .. Len(defs)
  BY ListTyped DEF CompileInv, PlacedInv, IssuesInv, TypeInv
<1>2. ASSUME NEW o \in DOMAIN rules
      PROVE  Origin(o) \in Places
  BY <1>1, OriginIs, PlacesAre
<1>3. ASSUME NEW p \in Places
      PROVE  \E o \in DOMAIN rules : Origin(o) = p
  <2>1. PICK k \in DOMAIN defs : \E m \in Parts(k) : p = PlaceAt(k, m)
    BY <1>1, PlacesAre
  <2>2. PICK m \in Parts(k) : p = PlaceAt(k, m)
    BY <2>1
  <2>3. PICK a \in 1 .. Len(defs) : indexes[a] = k - 1
    BY <1>1 DEF SortedInv
  <2>4. PICK o \in DOMAIN rules : rules[o].topLevelOrder = a - 1 /\ rules[o].memberIndex = m - 1
    BY <1>1, <2>3 DEF RulesInv
  <2>5. PICK j \in DOMAIN defs : \E l \in Parts(j) :
           /\ indexes[rules[o].topLevelOrder + 1] = j - 1
           /\ rules[o].memberIndex = l - 1 /\ Origin(o) = PlaceAt(j, l)
    BY OriginIs
  <2>6. PICK l \in Parts(j) :
           /\ indexes[rules[o].topLevelOrder + 1] = j - 1
           /\ rules[o].memberIndex = l - 1 /\ Origin(o) = PlaceAt(j, l)
    BY <2>5
  <2>7. a - 1 + 1 = a /\ j \in Nat /\ k \in Nat
    BY <1>1
  <2>8. indexes[a] = j - 1
    BY <2>4, <2>6, <2>7
  <2>9. j = k
    BY <2>3, <2>7, <2>8
  <2>10. l \in Nat /\ m \in Nat
    BY <1>1, <2>9, PartsTyped
  <2>11. l = m
    BY <2>4, <2>6, <2>10
  <2> QED
    BY <2>2, <2>6, <2>9, <2>11
<1> QED
  BY <1>2, <1>3

LEMMA KeysAscend ==
    ASSUME CompileInv, pc = "compiled", NEW o \in DOMAIN rules, NEW q \in DOMAIN rules, o < q
    PROVE  Less(Key(o), Key(q))
<1>1. /\ RulesInv /\ SortedInv /\ defs \in Definitions /\ index = Len(defs) /\ Len(defs) \in Nat
  BY ListTyped DEF CompileInv, PlacedInv, IssuesInv, TypeInv
<1>2. PICK j \in DOMAIN defs : \E l \in Parts(j) :
        /\ rules[o].topLevelOrder \in 0 .. index - 1
        /\ indexes[rules[o].topLevelOrder + 1] = j - 1
        /\ rules[o].memberIndex = l - 1 /\ rules[o].priority = RuleAt(j, l).priority
        /\ Key(o) = <<-defs[j].priority, j - 1, -rules[o].priority, l - 1>>
  BY OriginIs
<1>3. PICK l \in Parts(j) :
        /\ rules[o].topLevelOrder \in 0 .. index - 1
        /\ indexes[rules[o].topLevelOrder + 1] = j - 1
        /\ rules[o].memberIndex = l - 1 /\ rules[o].priority = RuleAt(j, l).priority
        /\ Key(o) = <<-defs[j].priority, j - 1, -rules[o].priority, l - 1>>
  BY <1>2
<1>4. PICK k \in DOMAIN defs : \E m \in Parts(k) :
        /\ rules[q].topLevelOrder \in 0 .. index - 1
        /\ indexes[rules[q].topLevelOrder + 1] = k - 1
        /\ rules[q].memberIndex = m - 1 /\ rules[q].priority = RuleAt(k, m).priority
        /\ Key(q) = <<-defs[k].priority, k - 1, -rules[q].priority, m - 1>>
  BY OriginIs
<1>5. PICK m \in Parts(k) :
        /\ rules[q].topLevelOrder \in 0 .. index - 1
        /\ indexes[rules[q].topLevelOrder + 1] = k - 1
        /\ rules[q].memberIndex = m - 1 /\ rules[q].priority = RuleAt(k, m).priority
        /\ Key(q) = <<-defs[k].priority, k - 1, -rules[q].priority, m - 1>>
  BY <1>4
<1>6. PICK a, b : a = rules[o].topLevelOrder + 1 /\ b = rules[q].topLevelOrder + 1
  OBVIOUS
<1>7. /\ a \in 1 .. Len(defs) /\ b \in 1 .. Len(defs)
      /\ indexes[a] = j - 1 /\ indexes[b] = k - 1
  <2>1. PICK c, d : c = rules[o].topLevelOrder /\ d = rules[q].topLevelOrder
    OBVIOUS
  <2>2. c \in 0 .. index - 1 /\ indexes[c + 1] = j - 1
    BY <1>3, <2>1
  <2>3. d \in 0 .. index - 1 /\ indexes[d + 1] = k - 1
    BY <1>5, <2>1
  <2>4. a = c + 1 /\ b = d + 1
    BY <1>6, <2>1
  <2> QED
    BY <1>1, <2>2, <2>3, <2>4
<1>8. /\ j \in Nat /\ k \in Nat /\ l \in Nat /\ m \in Nat
      /\ defs[j].priority \in Int /\ defs[k].priority \in Int
      /\ RuleAt(j, l).priority \in Int /\ RuleAt(k, m).priority \in Int
  <2>1. /\ j \in Nat /\ k \in Nat /\ l \in Nat /\ m \in Nat
        /\ defs[j].priority \in Int /\ defs[k].priority \in Int
    BY <1>1, PartsTyped
  <2>2. RuleAt(j, l) \in RuleSpace /\ RuleAt(k, m) \in RuleSpace
    BY <1>1, PartsTyped
  <2> QED
    BY <2>1, <2>2, RuleTyped
<1>9. RuleOrder(o, q)
  BY <1>1 DEF RulesInv
<1>10. \/ a < b
       \/ /\ a = b
          /\ \/ rules[o].priority > rules[q].priority
             \/ rules[o].priority = rules[q].priority /\ rules[o].memberIndex < rules[q].memberIndex
  BY <1>3, <1>5, <1>6, <1>9 DEF RuleOrder
<1>11. PICK u, v, w, x, y, z :
          /\ u = -defs[j].priority /\ v = j - 1 /\ w = -rules[o].priority
          /\ x = -defs[k].priority /\ y = k - 1 /\ z = -rules[q].priority
  OBVIOUS
<1>12. PICK f, g : f = l - 1 /\ g = m - 1
  OBVIOUS
<1>13. /\ u \in Int /\ v \in Int /\ w \in Int /\ x \in Int /\ y \in Int /\ z \in Int
       /\ f \in Int /\ g \in Int
  BY <1>3, <1>5, <1>8, <1>11, <1>12
<1>14. CASE a < b
  <2>1. \/ defs[indexes[a] + 1].priority > defs[indexes[b] + 1].priority
        \/ /\ defs[indexes[a] + 1].priority = defs[indexes[b] + 1].priority
           /\ indexes[a] < indexes[b]
    BY <1>1, <1>7, <1>14 DEF SortedInv
  <2>2. indexes[a] + 1 = j /\ indexes[b] + 1 = k
    BY <1>7, <1>8, SMTT(30)
  <2>3. \/ defs[j].priority > defs[k].priority
        \/ defs[j].priority = defs[k].priority /\ v < y
    BY <1>7, <1>11, <2>1, <2>2
  <2>4. u < x \/ (u = x /\ v < y)
    BY <1>8, <1>11, <2>3
  <2>5. Less(<<u, v, w, f>>, <<x, y, z, g>>)
    BY <1>13, <2>4, LessIs
  <2> QED
    BY <1>3, <1>5, <1>11, <1>12, <2>5
<1>15. CASE ~(a < b)
  <2>1. j = k
    BY <1>7, <1>8, <1>10, <1>15
  <2>2. u = x /\ v = y
    BY <1>11, <2>1
  <2>3. \/ rules[o].priority > rules[q].priority
        \/ rules[o].priority = rules[q].priority /\ f < g
    BY <1>3, <1>5, <1>10, <1>12, <1>15
  <2>4. w < z \/ (w = z /\ f < g)
    BY <1>3, <1>5, <1>8, <1>11, <2>3
  <2>5. Less(<<u, v, w, f>>, <<x, y, z, g>>)
    BY <1>13, <2>2, <2>4, LessIs
  <2> QED
    BY <1>3, <1>5, <1>11, <1>12, <2>5
<1> QED
  BY <1>14, <1>15

(* The compiled entries are a layout as Execution assumes of its own. *)
LEMMA EntriesCompiled ==
    ASSUME CompileInv, pc = "compiled"
    PROVE  Compiled(Entries) /\ Entries[Len(Entries)].end = Len(rules)
<1>1. EntriesInv /\ RulesInv
  BY DEF CompileInv, PlacedInv
<1>2. Len(rules) \in Nat
  <2>1. rules \in Seq(RuleMeta)
    BY <1>1 DEF RulesInv
  <2> QED
    BY <2>1
<1>3. CASE entries = <<>>
  <2>1. PICK x : x = [kind |-> "rules", start |-> 0, end |-> Len(rules)]
    OBVIOUS
  <2>2. Entries = <<x>>
    BY <1>3, <2>1 DEF Entries
  <2>3. x \in EntrySpace /\ x.start = 0 /\ x.end = Len(rules)
    BY <1>2, <2>1 DEF EntrySpace
  <2>4. PICK es : es = <<x>>
    OBVIOUS
  <2>5. es \in Seq(EntrySpace) /\ Len(es) = 1 /\ es[1] = x /\ es # <<>>
    BY <2>3, <2>4
  <2>6. Compiled(es) /\ es[Len(es)].end = Len(rules)
    BY <1>2, <2>3, <2>5 DEF Compiled, EntrySpace
  <2> QED
    BY <2>2, <2>4, <2>6
<1>4. CASE entries # <<>>
  <2>1. Entries = entries
    BY <1>4 DEF Entries
  <2>2. entries \in Seq(EntrySpace) /\ DOMAIN entries = 1 .. Len(entries)
    BY <1>1 DEF EntriesInv
  <2>3. /\ entries[1].start = 0 /\ entries[Len(entries)].end = Len(rules)
        /\ \A e \in 1 .. Len(entries) : entries[e].start <= entries[e].end
        /\ \A e \in 1 .. Len(entries) - 1 : entries[e + 1].start = entries[e].end
        /\ \A d, e \in 1 .. Len(entries) : d < e => entries[d].end <= entries[e].start
    BY <1>1, <1>4, <2>2 DEF EntriesInv
  <2>4. Compiled(entries)
    BY <1>4, <2>2, <2>3 DEF Compiled, EntrySpace
  <2> QED
    BY <2>1, <2>3, <2>4
<1> QED
  BY <1>3, <1>4

LEMMA OrderSuffices ==
    ASSUME CompileInv
    PROVE  OrderIsDeclared
<1> SUFFICES ASSUME pc = "compiled"
             PROVE  OrderIsDeclared
  BY DEF OrderIsDeclared
<1>1. DOMAIN callbacks = DOMAIN rules
  <2>1. rules \in Seq(RuleMeta) /\ callbacks \in Seq(RuleSpace) /\ Len(callbacks) = Len(rules)
    BY DEF CompileInv, PlacedInv, RulesInv
  <2> QED
    BY <2>1
<1>2. \A o \in DOMAIN rules : rules[o].id = callbacks[o].id
  BY OriginIs
<1>3. {Origin(o) : o \in DOMAIN rules} = Places
  BY OriginsArePlaces
<1>4. \A o, q \in DOMAIN rules : o < q => Less(Key(o), Key(q))
  BY KeysAscend
<1>5. Compiled(Entries) /\ Entries[Len(Entries)].end = Len(rules)
  BY EntriesCompiled
<1> QED
  BY <1>1, <1>2, <1>3, <1>4, <1>5, Zenon DEF OrderIsDeclared, Origin, Key

(***************************************************************************)
(* Every rule has one place in the compiled order: entries by descending   *)
(* priority, then registration, members the same within their group; the   *)
(* entries meet and cover all rules (compile_internal.go:150-196).         *)
(***************************************************************************)
THEOREM OrderDeclared == Spec => []OrderIsDeclared
<1>1. CompileInv => OrderIsDeclared
  BY OrderSuffices
<1> QED
  BY <1>1, CompileInvariant, PTL
-----------------------------------------------------------------------------
LEMMA LookupsSuffice ==
    ASSUME CompileInv
    PROVE  LookupsAgree
<1> SUFFICES ASSUME pc = "compiled"
             PROVE  LookupsAgree
  BY DEF LookupsAgree
<1>1. /\ RulesInv /\ GroupsInv /\ SortedInv /\ TablesInv /\ defs \in Definitions
      /\ index = Len(defs) /\ Len(defs) \in Nat
      /\ byID \in [ValidIDs -> Nat \cup {Absent}] /\ byGroupID \in [ValidIDs -> Nat \cup {Absent}]
  BY ListTyped DEF CompileInv, PlacedInv, IssuesInv, TypeInv
<1>2. /\ rules \in Seq(RuleMeta) /\ DOMAIN rules = 1 .. Len(rules) /\ Len(rules) \in Nat
      /\ groups \in Seq(GroupMeta) /\ DOMAIN groups = 1 .. Len(groups) /\ Len(groups) \in Nat
  <2>1. rules \in Seq(RuleMeta) /\ groups \in Seq(GroupMeta)
    BY <1>1 DEF RulesInv, GroupsInv
  <2> QED
    BY <2>1
<1>3. /\ \A o \in DOMAIN rules : byID[rules[o].id] = o - 1
      /\ \A g \in DOMAIN groups : byGroupID[groups[g].id] = g - 1
  BY <1>1 DEF TablesInv
<1>4. ASSUME NEW id \in ValidIDs
      PROVE  /\ byID[id] = Absent => \A o \in DOMAIN rules : rules[o].id # id
             /\ byGroupID[id] = Absent => \A g \in DOMAIN groups : groups[g].id # id
  <2>1. \A o \in DOMAIN rules : o - 1 # Absent
    BY <1>2 DEF Absent
  <2>2. \A g \in DOMAIN groups : g - 1 # Absent
    BY <1>2 DEF Absent
  <2> QED
    BY <1>3, <2>1, <2>2
<1>5. ASSUME NEW id \in ValidIDs, byID[id] # Absent
      PROVE  rules[byID[id] + 1].id = id
  <2>1. PICK k \in DOMAIN defs : \E m \in Parts(k) : RuleAt(k, m).id = id
    BY <1>1, <1>5 DEF TablesInv
  <2>2. PICK m \in Parts(k) : RuleAt(k, m).id = id
    BY <2>1
  <2>3. PlaceAt(k, m) \in {Origin(o) : o \in DOMAIN rules}
    BY <1>1, PlacesAre, OriginsArePlaces
  <2>4. PICK o \in DOMAIN rules : Origin(o) = PlaceAt(k, m)
    BY <2>3
  <2>5. callbacks[o] = RuleAt(k, m)
    BY <2>4 DEF Origin, PlaceAt
  <2>6. rules[o].id = callbacks[o].id
    BY OriginIs
  <2>7. rules[o].id = id /\ byID[id] = o - 1
    BY <1>3, <2>2, <2>5, <2>6
  <2>8. o - 1 + 1 = o
    BY <1>2
  <2> QED
    BY <2>7, <2>8
<1>6. ASSUME NEW id \in ValidIDs, byGroupID[id] # Absent
      PROVE  groups[byGroupID[id] + 1].id = id
  <2>1. PICK k \in DOMAIN defs : Grouped(k) /\ defs[k].id = id
    BY <1>1, <1>6 DEF TablesInv
  <2>2. DOMAIN defs = 1 .. Len(defs)
    BY <1>1, ListTyped
  <2>3. PICK a \in 1 .. Len(defs) : indexes[a] = k - 1
    BY <1>1, <2>2 DEF SortedInv
  <2>4. PICK g \in DOMAIN groups : groups[g].topLevelOrder = a - 1
    BY <1>1, <2>1, <2>3 DEF GroupsInv
  <2>5. PICK j \in DOMAIN defs :
           indexes[groups[g].topLevelOrder + 1] = j - 1 /\ groups[g].id = defs[j].id
    BY <1>1 DEF GroupsInv
  <2>6. j = k
    <3>1. a - 1 + 1 = a /\ j \in Nat /\ k \in Nat
      BY <2>2
    <3> QED
      BY <2>3, <2>4, <2>5, <3>1
  <2>7. groups[g].id = id /\ byGroupID[id] = g - 1
    BY <1>3, <2>1, <2>5, <2>6
  <2>8. g - 1 + 1 = g
    BY <1>2
  <2> QED
    BY <2>7, <2>8
<1>7. ASSUME NEW o \in DOMAIN rules, rules[o].group # NoGroup
      PROVE  /\ groups[rules[o].group + 1].start < o /\ o <= groups[rules[o].group + 1].end
             /\ groups[rules[o].group + 1].topLevelOrder = rules[o].topLevelOrder
             /\ groups[rules[o].group + 1].registrationIndex = rules[o].registrationIndex
  <2>1. Described(o)
    BY <1>1 DEF RulesInv
  <2> QED
    BY <1>7, <2>1, Zenon DEF Described
<1> QED
  BY <1>4, <1>5, <1>6, <1>7, Zenon DEF LookupsAgree

(***************************************************************************)
(* The lookup tables in the end hold the compiled positions, and nothing   *)
(* else; a member's order lies in the span of its group                    *)
(* (compile_internal.go:160-196, ruleset.go:35-41).                        *)
(***************************************************************************)
THEOREM LookupsTrue == Spec => []LookupsAgree
<1>1. CompileInv => LookupsAgree
  BY LookupsSuffice
<1> QED
  BY <1>1, CompileInvariant, PTL
-----------------------------------------------------------------------------
(* The compilation of an engine is one of Compile. *)
THEOREM EngineCompiles == EngineSpec => Spec
<1>1. EngineInit => Init
  BY DEF EngineInit
<1>2. [EngineNext]_allVars => [Next]_vars
  BY Zenon DEF EngineNext, allVars, NewEngineFromRuleSet, Fire, Finished
<1> QED
  BY <1>1, <1>2, PTL DEF EngineSpec, Spec

LEMMA LeastElement ==
    ASSUME NEW S, S \subseteq Nat, S # {}
    PROVE  \E n \in S : \A m \in S : n <= m
<1>1. PICK n \in S : \A m \in S : <<m, n>> \notin OpToRel(<, Nat)
  BY NatLessThanWellFounded, WFMin
<1>2. \A m \in S : ~(m < n)
  BY <1>1 DEF OpToRel
<1> QED
  BY <1>2

(* One option, and all of them, in the order of the call. *)
Once(acc, option) ==
    IF Ended(acc, option) THEN acc
    ELSE IF OptionError(option) # "nil" THEN Rejected(OptionError(option))
    ELSE Configured(Set(acc.config, option))
Applies(f, config, options, n) ==
    f = [i \in 0 .. n |-> IF i = 0 THEN Configured(config) ELSE Once(f[i - 1], options[i])]

LEMMA AppliesExist ==
    ASSUME NEW config, NEW options, NEW N \in Nat
    PROVE  \E f : Applies(f, config, options, N)
<1> DEFINE Bad == {n \in Nat : ~\E f : Applies(f, config, options, n)}
<1> SUFFICES ASSUME Bad # {} PROVE FALSE
  OBVIOUS
<1>1. PICK n \in Bad : \A m \in Bad : n <= m
  BY LeastElement
<1>2. n # 0
  <2> DEFINE g == [i \in 0 .. 0 |-> Configured(config)]
  <2>1. g = [i \in 0 .. 0 |-> IF i = 0 THEN Configured(config) ELSE Once(g[i - 1], options[i])]
    OBVIOUS
  <2>2. Applies(g, config, options, 0)
    BY <2>1 DEF Applies
  <2> QED
    BY <2>2
<1>3. n - 1 \in Nat /\ n - 1 \notin Bad
  BY <1>1, <1>2
<1>4. PICK f : Applies(f, config, options, n - 1)
  BY <1>3
<1> DEFINE g == [i \in 0 .. n |-> IF i < n THEN f[i] ELSE Once(f[n - 1], options[n])]
<1>5. \A i \in 0 .. n : i # n => g[i] = f[i]
  OBVIOUS
<1>6. \A i \in 0 .. n - 1 :
        f[i] = IF i = 0 THEN Configured(config) ELSE Once(f[i - 1], options[i])
  BY <1>3, <1>4 DEF Applies
<1>7. ASSUME NEW i \in 0 .. n
      PROVE  g[i] = IF i = 0 THEN Configured(config) ELSE Once(g[i - 1], options[i])
  <2>1. CASE i = n
    <3>1. n - 1 \in 0 .. n /\ n - 1 # n /\ n \in 0 .. n
      BY <1>3
    <3> QED
      BY <1>2, <1>3, <1>5, <2>1, <3>1
  <2>2. CASE i < n
    <3>1. i \in 0 .. n - 1 /\ g[i] = f[i]
      BY <1>3, <2>2
    <3>2. i # 0 => i - 1 \in 0 .. n /\ i - 1 # n
      BY <1>3, <2>2
    <3> HIDE DEF g
    <3> QED
      BY <1>5, <1>6, <3>1, <3>2
  <2> QED
    BY <1>3, <2>1, <2>2
<1>8. Applies(g, config, options, n)
  <2> DEFINE h == [i \in 0 .. n |->
                     IF i = 0 THEN Configured(config) ELSE Once(g[i - 1], options[i])]
  <2>1. g = [i \in 0 .. n |-> g[i]]
    OBVIOUS
  <2> HIDE DEF g
  <2>2. h = [i \in 0 .. n |-> g[i]]
    BY <1>7
  <2> QED
    BY <2>1, <2>2 DEF Applies
<1> QED
  BY <1>1, <1>8

LEMMA OptionsApplied ==
    ASSUME NEW config, NEW options, Len(options) \in Nat
    PROVE  \E f : /\ Applies(f, config, options, Len(options))
                  /\ configureExecution(config, options) = f[Len(options)]
<1> DEFINE c == CHOOSE f : Applies(f, config, options, Len(options))
<1>1. Applies(c, config, options, Len(options))
  <2> HIDE DEF c
  <2>1. \E f : Applies(f, config, options, Len(options))
    BY AppliesExist
  <2> QED
    BY <2>1 DEF c
<1>2. configureExecution(config, options) = c[Len(options)]
  BY Zenon DEF configureExecution, Applies, Once
<1> QED
  BY <1>1, <1>2

Observers == STRING \cup {"none"}
ConfigSpace ==
    [policy : Modes \X Modes \X Modes, panic : Modes, trace : BOOLEAN, observer : Observers]
ErrorSpace == {"nil", "invalid-policy", "invalid-panic-mode", "invalid-rule-set", "nil-context",
               "nil-input", "invalid-engine"}
Setters == {"policy", "panic", "observer"}

(* The configuration c after the first n options: a setting is the last    *)
(* one of its kind, or as it was before.                                   *)
Carries(config, options, n, c) ==
    /\ c \in ConfigSpace
    /\ \A kind \in Setters :
          \/ c[kind] = config[kind] /\ \A j \in 1 .. n : options[j].kind # kind
          \/ \E j \in 1 .. n :
                /\ options[j].kind = kind /\ c[kind] = options[j].value
                /\ \A l \in 1 .. n : options[l].kind = kind => l <= j
    /\ c.trace <=> (config.trace \/ \E j \in 1 .. n : options[j].kind = "trace")

(* The first n options are valid, or err is what the first wrong one says. *)
Sound(options, n) == \A j \in 1 .. n : OptionError(options[j]) = "nil"
FirstError(options, n, err) ==
    \E j \in 1 .. n :
        /\ OptionError(options[j]) = err /\ err # "nil"
        /\ \A l \in 1 .. n : l < j => OptionError(options[l]) = "nil"

Outcome(config, options, n, r) ==
    \/ /\ r = Configured(r.config) /\ Sound(options, n)
       /\ Carries(config, options, n, r.config)
    \/ r = Rejected(r.err) /\ FirstError(options, n, r.err)

LEMMA OptionErrors ==
    ASSUME NEW option
    PROVE  OptionError(option) \in {"nil", "invalid-policy", "invalid-panic-mode"}
  BY DEF OptionError

LEMMA ConfiguredIs ==
    ASSUME NEW config
    PROVE  Configured(config).err = "nil" /\ Configured(config).config = config
  BY DEF Configured

LEMMA RejectedIs ==
    ASSUME NEW err
    PROVE  Rejected(err).err = err /\ Rejected(err).config = ZeroConfig
  BY DEF Rejected

LEMMA ZeroTyped == ZeroConfig \in ConfigSpace /\ ZeroConfig.trace = FALSE
<1>1. 0 \in Modes
  BY DEF Modes
<1>2. PICK policy : policy = <<0, 0, 0>>
  OBVIOUS
<1>3. policy \in Modes \X Modes \X Modes
  BY <1>1, <1>2
<1>4. "none" \in Observers
  BY DEF Observers
<1>5. ZeroConfig = [policy |-> policy, panic |-> 0, trace |-> FALSE, observer |-> "none"]
  BY <1>2 DEF ZeroConfig
<1>6. ZeroConfig \in ConfigSpace /\ ZeroConfig.trace = FALSE
  BY <1>1, <1>3, <1>4, <1>5 DEF ConfigSpace
<1> QED
  BY <1>6

(* What one valid option sets, and what it leaves. *)
LEMMA SetIs ==
    ASSUME NEW c \in ConfigSpace, NEW option \in OptionSpace
    PROVE  /\ Set(c, option) \in ConfigSpace
           /\ \A kind \in Setters :
                 Set(c, option)[kind] = IF option.kind = kind THEN option.value ELSE c[kind]
           /\ Set(c, option).trace <=> (c.trace \/ option.kind = "trace")
<1>1. option.kind \in {"none", "trace", "policy", "panic", "observer"}
  BY DEF OptionSpace
<1>2. /\ option.kind = "policy" => option.value \in Modes \X Modes \X Modes
      /\ option.kind = "panic" => option.value \in Modes
      /\ option.kind = "observer" => option.value \in STRING
  BY DEF OptionSpace
<1>3. PICK v : v = option.value
  OBVIOUS
<1>4. CASE option.kind = "none"
  <2>1. Set(c, option) = c
    BY <1>4 DEF Set
  <2> QED
    BY <1>4, <2>1 DEF Setters
<1>5. CASE option.kind = "trace"
  <2>1. Set(c, option) = [c EXCEPT !.trace = TRUE]
    BY <1>5 DEF Set
  <2> QED
    BY <1>5, <2>1 DEF Setters, ConfigSpace
<1>6. CASE option.kind = "policy"
  <2>1. Set(c, option) = [c EXCEPT !["policy"] = v]
    BY <1>3, <1>6 DEF Set
  <2>2. v \in Modes \X Modes \X Modes
    BY <1>2, <1>3, <1>6
  <2> QED
    BY <1>3, <1>6, <2>1, <2>2 DEF Setters, ConfigSpace
<1>7. CASE option.kind = "panic"
  <2>1. Set(c, option) = [c EXCEPT !["panic"] = v]
    BY <1>3, <1>7 DEF Set
  <2>2. v \in Modes
    BY <1>2, <1>3, <1>7
  <2> QED
    BY <1>3, <1>7, <2>1, <2>2 DEF Setters, ConfigSpace
<1>8. CASE option.kind = "observer"
  <2>1. Set(c, option) = [c EXCEPT !["observer"] = v]
    BY <1>3, <1>8 DEF Set
  <2>2. v \in Observers
    BY <1>2, <1>3, <1>8 DEF Observers
  <2> QED
    BY <1>3, <1>8, <2>1, <2>2 DEF Setters, ConfigSpace
<1> QED
  BY <1>1, <1>4, <1>5, <1>6, <1>7, <1>8

(* One more option. *)
LEMMA OnceMore ==
    ASSUME NEW config, NEW options, NEW n \in Nat, NEW i \in Nat, i = n + 1,
           options[i] \in OptionSpace, NEW r, Outcome(config, options, n, r)
    PROVE  Outcome(config, options, i, Once(r, options[i]))
<1>1. PICK o : o = options[i]
  OBVIOUS
<1>2. i \in 1 .. i /\ \A j \in 1 .. i : j = i \/ (j \in 1 .. n /\ j # i)
  OBVIOUS
<1>3. \A j \in 1 .. n : j \in 1 .. i /\ j < i
  OBVIOUS
<1>4. CASE r = Rejected(r.err) /\ FirstError(options, n, r.err)
  <2>1. FirstError(options, i, r.err)
    <3>1. PICK j \in 1 .. n :
             /\ OptionError(options[j]) = r.err /\ r.err # "nil"
             /\ \A l \in 1 .. n : l < j => OptionError(options[l]) = "nil"
      BY <1>4 DEF FirstError
    <3>2. \A l \in 1 .. i : l < j => l \in 1 .. n
      BY <3>1
    <3> QED
      BY <1>3, <3>1, <3>2 DEF FirstError
  <2>2. Once(r, options[i]) = r
    BY <1>4 DEF Once, Ended, FirstError
  <2> QED
    BY <1>4, <2>1, <2>2 DEF Outcome
<1>5. CASE /\ r = Configured(r.config) /\ Sound(options, n)
           /\ Carries(config, options, n, r.config)
  <2>1. ~Ended(r, options[i])
    BY <1>5, ConfiguredIs DEF Ended
  <2>2. CASE OptionError(o) # "nil"
    <3>1. Once(r, options[i]) = Rejected(OptionError(o))
      BY <1>1, <2>1, <2>2 DEF Once
    <3>2. PICK err : err = OptionError(o)
      OBVIOUS
    <3>3. FirstError(options, i, err)
      <4>1. \A l \in 1 .. i : l < i => l \in 1 .. n
        OBVIOUS
      <4>2. \A l \in 1 .. n : OptionError(options[l]) = "nil"
        BY <1>5 DEF Sound
      <4> QED
        BY <1>1, <1>2, <2>2, <3>2, <4>1, <4>2 DEF FirstError
    <3>4. Rejected(err) = Rejected(Rejected(err).err) /\ Rejected(err).err = err
      BY RejectedIs
    <3> QED
      BY <3>1, <3>2, <3>3, <3>4 DEF Outcome
  <2>3. CASE OptionError(o) = "nil"
    <3>1. PICK c, d : c = r.config /\ d = Set(r.config, o)
      OBVIOUS
    <3>2. Once(r, options[i]) = Configured(d)
      BY <1>1, <2>1, <2>3, <3>1 DEF Once
    <3>3. Sound(options, i)
      BY <1>1, <1>2, <1>5, <2>3 DEF Sound
    <3>4. /\ c \in ConfigSpace
          /\ \A kind \in Setters :
               \/ c[kind] = config[kind] /\ \A j \in 1 .. n : options[j].kind # kind
               \/ \E j \in 1 .. n :
                     /\ options[j].kind = kind /\ c[kind] = options[j].value
                     /\ \A l \in 1 .. n : options[l].kind = kind => l <= j
          /\ c.trace <=> (config.trace \/ \E j \in 1 .. n : options[j].kind = "trace")
      BY <1>5, <3>1 DEF Carries
    <3>5. /\ d \in ConfigSpace
          /\ \A kind \in Setters : d[kind] = IF o.kind = kind THEN o.value ELSE c[kind]
          /\ d.trace <=> (c.trace \/ o.kind = "trace")
      BY <1>1, <3>1, <3>4, SetIs
    <3>6. ASSUME NEW kind \in Setters
          PROVE  \/ d[kind] = config[kind] /\ \A j \in 1 .. i : options[j].kind # kind
                 \/ \E j \in 1 .. i :
                       /\ options[j].kind = kind /\ d[kind] = options[j].value
                       /\ \A l \in 1 .. i : options[l].kind = kind => l <= j
      <4>1. CASE o.kind = kind
        <5>1. d[kind] = o.value
          BY <3>5, <4>1
        <5>2. \A l \in 1 .. i : l <= i
          OBVIOUS
        <5> QED
          BY <1>1, <1>2, <4>1, <5>1, <5>2
      <4>2. CASE o.kind # kind
        <5>1. d[kind] = c[kind]
          BY <3>5, <4>2
        <5>2. CASE c[kind] = config[kind] /\ \A j \in 1 .. n : options[j].kind # kind
          BY <1>1, <1>2, <4>2, <5>1, <5>2
        <5>3. CASE \E j \in 1 .. n :
                      /\ options[j].kind = kind /\ c[kind] = options[j].value
                      /\ \A l \in 1 .. n : options[l].kind = kind => l <= j
          <6>1. PICK j \in 1 .. n :
                   /\ options[j].kind = kind /\ c[kind] = options[j].value
                   /\ \A l \in 1 .. n : options[l].kind = kind => l <= j
            BY <5>3
          <6>2. \A l \in 1 .. i : options[l].kind = kind => l <= j
            BY <1>1, <1>2, <4>2, <6>1
          <6> QED
            BY <1>3, <5>1, <6>1, <6>2
        <5> QED
          BY <3>4, <5>2, <5>3
      <4> QED
        BY <4>1, <4>2
    <3>7. d.trace <=> (config.trace \/ \E j \in 1 .. i : options[j].kind = "trace")
      BY <1>1, <1>2, <1>3, <3>4, <3>5
    <3>8. Carries(config, options, i, d)
      BY <3>5, <3>6, <3>7 DEF Carries
    <3>9. Configured(d) = Configured(Configured(d).config) /\ Configured(d).config = d
      BY ConfiguredIs
    <3> QED
      BY <3>2, <3>3, <3>8, <3>9 DEF Outcome
  <2> QED
    BY <2>2, <2>3
<1> QED
  BY <1>4, <1>5 DEF Outcome

(* What the options add up to. *)
LEMMA ConfigurationIs ==
    ASSUME NEW config \in ConfigSpace, NEW options \in Seq(OptionSpace)
    PROVE  Outcome(config, options, Len(options), configureExecution(config, options))
<1>1. PICK N : N = Len(options)
  OBVIOUS
<1>2. N \in Nat /\ \A i \in 1 .. N : options[i] \in OptionSpace
  BY <1>1
<1>3. PICK f : Applies(f, config, options, N) /\ configureExecution(config, options) = f[N]
  BY <1>1, <1>2, OptionsApplied
<1>4. \A i \in 0 .. N : f[i] = IF i = 0 THEN Configured(config) ELSE Once(f[i - 1], options[i])
  BY <1>3 DEF Applies
<1>5. Outcome(config, options, 0, f[0])
  <2>1. f[0] = Configured(config) /\ f[0].config = config
    BY <1>2, <1>4, ConfiguredIs
  <2>2. \A j : j \notin 1 .. 0
    OBVIOUS
  <2>3. Carries(config, options, 0, config)
    BY <2>2 DEF Carries
  <2>4. Sound(options, 0)
    BY <2>2 DEF Sound
  <2> QED
    BY <2>1, <2>3, <2>4 DEF Outcome
<1> DEFINE Bad == {i \in Nat : i <= N /\ ~Outcome(config, options, i, f[i])}
<1>6. Bad = {}
  <2> SUFFICES ASSUME Bad # {} PROVE FALSE
    OBVIOUS
  <2>1. PICK i \in Bad : \A m \in Bad : i <= m
    BY LeastElement
  <2>2. i \in Nat /\ i <= N /\ ~Outcome(config, options, i, f[i]) /\ i # 0
    BY <1>5, <2>1
  <2>3. PICK m : m = i - 1
    OBVIOUS
  <2>4. m \in Nat /\ m <= N /\ m \notin Bad /\ i = m + 1 /\ i \in 1 .. N
    BY <1>2, <2>1, <2>2, <2>3
  <2>5. Outcome(config, options, m, f[m])
    BY <2>4
  <2>6. f[i] = Once(f[m], options[i])
    BY <1>4, <2>2, <2>3, <2>4
  <2> HIDE DEF Bad
  <2>7. Outcome(config, options, i, Once(f[m], options[i]))
    BY <1>2, <2>2, <2>4, <2>5, OnceMore
  <2> QED
    BY <2>2, <2>6, <2>7
<1> QED
  BY <1>1, <1>2, <1>3, <1>6

(* One outcome after another is that of the options put together. *)
Together(s, a, t, b, u, n) ==
    /\ a \in Nat /\ b \in Nat /\ n = a + b
    /\ \A i \in 1 .. a : i \in 1 .. n /\ u[i] = s[i]
    /\ \A i \in 1 .. b : a + i \in 1 .. n /\ u[a + i] = t[i]
    /\ \A i \in 1 .. n : i \in 1 .. a \/ \E j \in 1 .. b : i = a + j

LEMMA AreTogether ==
    ASSUME NEW s \in Seq(OptionSpace), NEW t \in Seq(OptionSpace), NEW u, u = s \o t
    PROVE  Together(s, Len(s), t, Len(t), u, Len(u))
<1>1. /\ u \in Seq(OptionSpace) /\ Len(s) \in Nat /\ Len(t) \in Nat
      /\ Len(u) = Len(s) + Len(t)
      /\ DOMAIN s = 1 .. Len(s) /\ DOMAIN t = 1 .. Len(t) /\ DOMAIN u = 1 .. Len(u)
  BY Concatenated
<1>2. \A i \in DOMAIN s : i \in DOMAIN u /\ u[i] = s[i]
  BY Concatenated
<1>3. \A i \in DOMAIN t : Len(s) + i \in DOMAIN u /\ u[Len(s) + i] = t[i]
  BY Concatenated
<1>4. \A i \in DOMAIN u : i \in DOMAIN s \/ \E j \in DOMAIN t : i = Len(s) + j
  BY Concatenated
<1> QED
  BY <1>1, <1>2, <1>3, <1>4 DEF Together

LEMMA CarriesOn ==
    ASSUME NEW s \in Seq(OptionSpace), NEW t \in Seq(OptionSpace), NEW u, u = s \o t,
           NEW c, NEW d, Carries(ZeroConfig, s, Len(s), c), Carries(c, t, Len(t), d)
    PROVE  Carries(ZeroConfig, u, Len(u), d)
<1>0. Together(s, Len(s), t, Len(t), u, Len(u))
  BY AreTogether
<1> DEFINE a == Len(s)
           b == Len(t)
           n == Len(u)
<1>1. /\ a \in Nat /\ b \in Nat /\ n = a + b
      /\ \A i \in 1 .. a : i \in 1 .. n /\ u[i] = s[i]
      /\ \A i \in 1 .. b : a + i \in 1 .. n /\ u[a + i] = t[i]
      /\ \A i \in 1 .. n : i \in 1 .. a \/ \E j \in 1 .. b : i = a + j
  BY <1>0, Zenon DEF Together
<1>2. Carries(ZeroConfig, s, a, c) /\ Carries(c, t, b, d)
  OBVIOUS
<1> HIDE DEF a, b, n
<1>3. ASSUME NEW kind \in Setters
      PROVE  \/ d[kind] = ZeroConfig[kind] /\ \A j \in 1 .. n : u[j].kind # kind
             \/ \E j \in 1 .. n :
                   /\ u[j].kind = kind /\ d[kind] = u[j].value
                   /\ \A l \in 1 .. n : u[l].kind = kind => l <= j
  <2>1. CASE d[kind] = c[kind] /\ \A j \in 1 .. b : t[j].kind # kind
    <3>1. ASSUME NEW i \in 1 .. n, u[i].kind = kind
          PROVE  i \in 1 .. a
      <4>1. CASE \E j \in 1 .. b : i = a + j
        <5>1. PICK j \in 1 .. b : i = a + j
          BY <4>1
        <5>2. t[j].kind = kind
          BY <1>1, <3>1, <5>1
        <5> QED
          BY <2>1, <5>2
      <4> QED
        BY <1>1, <4>1
    <3>2. CASE c[kind] = ZeroConfig[kind] /\ \A j \in 1 .. a : s[j].kind # kind
      <4>1. \A i \in 1 .. n : u[i].kind # kind
        BY <1>1, <3>1, <3>2
      <4> QED
        BY <2>1, <3>2, <4>1
    <3>3. CASE \E j \in 1 .. a :
                  /\ s[j].kind = kind /\ c[kind] = s[j].value
                  /\ \A l \in 1 .. a : s[l].kind = kind => l <= j
      <4>1. PICK j \in 1 .. a :
                  /\ s[j].kind = kind /\ c[kind] = s[j].value
                  /\ \A l \in 1 .. a : s[l].kind = kind => l <= j
        BY <3>3
      <4>2. j \in 1 .. n /\ u[j] = s[j]
        BY <1>1
      <4>3. \A l \in 1 .. n : u[l].kind = kind => l <= j
        BY <1>1, <3>1, <4>1
      <4> QED
        BY <2>1, <4>1, <4>2, <4>3
    <3> QED
      BY <1>2, <3>2, <3>3 DEF Carries
  <2>2. CASE \E j \in 1 .. b :
                /\ t[j].kind = kind /\ d[kind] = t[j].value
                /\ \A l \in 1 .. b : t[l].kind = kind => l <= j
    <3>1. PICK j \in 1 .. b :
                /\ t[j].kind = kind /\ d[kind] = t[j].value
                /\ \A l \in 1 .. b : t[l].kind = kind => l <= j
      BY <2>2
    <3>2. PICK i : i = a + j
      OBVIOUS
    <3>3. i \in 1 .. n /\ u[i] = t[j]
      BY <1>1, <3>2
    <3>4. ASSUME NEW l \in 1 .. n, u[l].kind = kind
          PROVE  l <= i
      <4>1. CASE l \in 1 .. a
        BY <1>1, <3>2, <4>1
      <4>2. CASE \E m \in 1 .. b : l = a + m
        <5>1. PICK m \in 1 .. b : l = a + m
          BY <4>2
        <5>2. t[m].kind = kind
          BY <1>1, <3>4, <5>1
        <5>3. m <= j
          BY <3>1, <5>2
        <5> QED
          BY <1>1, <3>2, <5>1, <5>3
      <4> QED
        BY <1>1, <4>1, <4>2
    <3> QED
      BY <3>1, <3>3, <3>4
  <2> QED
    BY <1>2, <2>1, <2>2 DEF Carries
<1>4. d.trace <=> (ZeroConfig.trace \/ \E j \in 1 .. n : u[j].kind = "trace")
  <2>1. c.trace <=> (ZeroConfig.trace \/ \E j \in 1 .. a : s[j].kind = "trace")
    BY <1>2 DEF Carries
  <2>2. d.trace <=> (c.trace \/ \E j \in 1 .. b : t[j].kind = "trace")
    BY <1>2 DEF Carries
  <2>3. ASSUME NEW j \in 1 .. n, u[j].kind = "trace"
        PROVE  \/ \E i \in 1 .. a : s[i].kind = "trace"
               \/ \E i \in 1 .. b : t[i].kind = "trace"
    <3>1. CASE j \in 1 .. a
      BY <1>1, <2>3, <3>1
    <3>2. CASE \E i \in 1 .. b : j = a + i
      <4>1. PICK i \in 1 .. b : j = a + i
        BY <3>2
      <4>2. t[i].kind = "trace"
        BY <1>1, <2>3, <4>1
      <4> QED
        BY <4>2
    <3> QED
      BY <1>1, <3>1, <3>2
  <2>4. ASSUME NEW j \in 1 .. a, s[j].kind = "trace"
        PROVE  \E i \in 1 .. n : u[i].kind = "trace"
    BY <1>1, <2>4
  <2>5. ASSUME NEW j \in 1 .. b, t[j].kind = "trace"
        PROVE  \E i \in 1 .. n : u[i].kind = "trace"
    BY <1>1, <2>5, ZenonT(30)
  <2> QED
    BY <2>1, <2>2, <2>3, <2>4, <2>5, Zenon
<1>5. Carries(ZeroConfig, u, n, d)
  BY <1>2, <1>3, <1>4 DEF Carries
<1> QED
  BY <1>5 DEF n

LEMMA OutcomesJoin ==
    ASSUME NEW s \in Seq(OptionSpace), NEW t \in Seq(OptionSpace), NEW u, u = s \o t,
           NEW c, Sound(s, Len(s)), Carries(ZeroConfig, s, Len(s), c),
           NEW r, Outcome(c, t, Len(t), r)
    PROVE  Outcome(ZeroConfig, u, Len(u), r)
<1>0. Together(s, Len(s), t, Len(t), u, Len(u))
  BY AreTogether
<1>1. /\ Len(s) \in Nat /\ Len(t) \in Nat /\ Len(u) = Len(s) + Len(t)
      /\ \A i \in 1 .. Len(s) : i \in 1 .. Len(u) /\ u[i] = s[i]
      /\ \A i \in 1 .. Len(t) : Len(s) + i \in 1 .. Len(u) /\ u[Len(s) + i] = t[i]
      /\ \A i \in 1 .. Len(u) : i \in 1 .. Len(s) \/ \E j \in 1 .. Len(t) : i = Len(s) + j
  BY <1>0, Zenon DEF Together
<1>2. \A i \in 1 .. Len(s) : OptionError(u[i]) = "nil"
  BY <1>1 DEF Sound
<1>3. CASE /\ r = Configured(r.config) /\ Sound(t, Len(t))
           /\ Carries(c, t, Len(t), r.config)
  <2>1. Carries(ZeroConfig, u, Len(u), r.config)
    BY <1>3, CarriesOn
  <2>2. \A i \in 1 .. Len(t) : OptionError(u[Len(s) + i]) = "nil"
    BY <1>1, <1>3 DEF Sound
  <2>3. Sound(u, Len(u))
    BY <1>1, <1>2, <2>2 DEF Sound
  <2> QED
    BY <1>3, <2>1, <2>3 DEF Outcome
<1>4. CASE r = Rejected(r.err) /\ FirstError(t, Len(t), r.err)
  <2>1. PICK j \in 1 .. Len(t) :
           /\ OptionError(t[j]) = r.err /\ r.err # "nil"
           /\ \A l \in 1 .. Len(t) : l < j => OptionError(t[l]) = "nil"
    BY <1>4 DEF FirstError
  <2>2. PICK i : i = Len(s) + j
    OBVIOUS
  <2>3. i \in 1 .. Len(u) /\ u[i] = t[j]
    BY <1>1, <2>2
  <2>4. ASSUME NEW l \in 1 .. Len(u), l < i
        PROVE  OptionError(u[l]) = "nil"
    <3>1. CASE l \in 1 .. Len(s)
      BY <1>2, <3>1
    <3>2. CASE \E m \in 1 .. Len(t) : l = Len(s) + m
      <4>1. PICK m \in 1 .. Len(t) : l = Len(s) + m
        BY <3>2
      <4>2. m < j /\ u[l] = t[m]
        BY <1>1, <2>2, <2>4, <4>1
      <4> QED
        BY <2>1, <4>2
    <3> QED
      BY <1>1, <3>1, <3>2
  <2>5. FirstError(u, Len(u), r.err)
    BY <2>1, <2>3, <2>4 DEF FirstError
  <2> QED
    BY <1>4, <2>5 DEF Outcome
<1> QED
  BY <1>3, <1>4 DEF Outcome

(* What an outcome from the zero configuration says, as the property does. *)
Told(options, r) ==
    /\ r.err = IF Wrong(options) # {} THEN FirstWrong(options) ELSE "nil"
    /\ r.err = "nil" =>
         /\ \A kind \in Setters : r.config[kind] = Setting(options, kind)
         /\ r.config.trace = (Settings(options, "trace") # {})

LEMMA SettingIs ==
    ASSUME NEW options \in Seq(OptionSpace), NEW c, Carries(ZeroConfig, options, Len(options), c),
           NEW kind \in Setters
    PROVE  c[kind] = Setting(options, kind)
<1>1. DOMAIN options = 1 .. Len(options) /\ Len(options) \in Nat
  OBVIOUS
<1>2. PICK S : S = Settings(options, kind)
  OBVIOUS
<1>3. \A i : i \in S <=> i \in 1 .. Len(options) /\ options[i].kind = kind
  BY <1>1, <1>2 DEF Settings
<1>4. CASE /\ c[kind] = ZeroConfig[kind]
           /\ \A j \in 1 .. Len(options) : options[j].kind # kind
  <2>1. S = {}
    BY <1>3, <1>4
  <2> QED
    BY <1>2, <1>4, <2>1, Zenon DEF Setting
<1>5. CASE \E j \in 1 .. Len(options) :
              /\ options[j].kind = kind /\ c[kind] = options[j].value
              /\ \A l \in 1 .. Len(options) : options[l].kind = kind => l <= j
  <2>1. PICK j \in 1 .. Len(options) :
              /\ options[j].kind = kind /\ c[kind] = options[j].value
              /\ \A l \in 1 .. Len(options) : options[l].kind = kind => l <= j
    BY <1>5
  <2>2. j \in S /\ \A l \in S : l <= j
    BY <1>3, <2>1
  <2> DEFINE last == CHOOSE i \in S : \A l \in S : l <= i
  <2>3. last \in S /\ \A l \in S : l <= last
    BY <2>2, Zenon
  <2>4. Setting(options, kind) = options[last].value
    BY <1>2, <2>2, Zenon DEF Setting
  <2> HIDE DEF last
  <2>5. last = j
    BY <1>1, <1>3, <2>2, <2>3
  <2> QED
    BY <2>1, <2>4, <2>5
<1> QED
  BY <1>4, <1>5 DEF Carries

LEMMA OutcomeTold ==
    ASSUME NEW options \in Seq(OptionSpace), NEW r,
           Outcome(ZeroConfig, options, Len(options), r)
    PROVE  Told(options, r)
<1>1. DOMAIN options = 1 .. Len(options) /\ Len(options) \in Nat
  OBVIOUS
<1>2. PICK W : W = Wrong(options)
  OBVIOUS
<1>3. \A i : i \in W <=> i \in 1 .. Len(options) /\ OptionError(options[i]) # "nil"
  BY <1>1, <1>2 DEF Wrong
<1>4. CASE /\ r = Configured(r.config) /\ Sound(options, Len(options))
           /\ Carries(ZeroConfig, options, Len(options), r.config)
  <2>1. PICK c : c = r.config
    OBVIOUS
  <2>2. r.err = "nil" /\ Carries(ZeroConfig, options, Len(options), c)
    BY <1>4, <2>1, ConfiguredIs
  <2>3. W = {}
    BY <1>3, <1>4 DEF Sound
  <2>4. \A kind \in Setters : c[kind] = Setting(options, kind)
    BY <2>2, SettingIs
  <2>5. c.trace <=> \E j \in 1 .. Len(options) : options[j].kind = "trace"
    BY <2>2, ZeroTyped DEF Carries
  <2>6. (Settings(options, "trace") # {})
          <=> \E j \in 1 .. Len(options) : options[j].kind = "trace"
    BY <1>1 DEF Settings
  <2>7. c.trace \in BOOLEAN
    BY <2>2 DEF Carries, ConfigSpace
  <2>8. c.trace = (Settings(options, "trace") # {})
    BY <2>5, <2>6, <2>7
  <2> QED
    BY <1>2, <2>1, <2>2, <2>3, <2>4, <2>8, Zenon DEF Told
<1>5. CASE r = Rejected(r.err) /\ FirstError(options, Len(options), r.err)
  <2>1. PICK j \in 1 .. Len(options) :
           /\ OptionError(options[j]) = r.err /\ r.err # "nil"
           /\ \A l \in 1 .. Len(options) : l < j => OptionError(options[l]) = "nil"
    BY <1>5 DEF FirstError
  <2>2. j \in W /\ \A l \in W : j <= l
    BY <1>1, <1>3, <2>1
  <2> DEFINE first == CHOOSE i \in W : \A l \in W : i <= l
  <2>3. first \in W /\ \A l \in W : first <= l
    BY <2>2, Zenon
  <2>4. FirstWrong(options) = OptionError(options[first])
    BY <1>2, Zenon DEF FirstWrong
  <2> HIDE DEF first
  <2>5. first = j
    BY <1>1, <1>3, <2>2, <2>3
  <2>6. r.err = FirstWrong(options) /\ W # {} /\ r.err # "nil"
    BY <2>1, <2>2, <2>4, <2>5
  <2> QED
    BY <1>2, <2>6, Zenon DEF Told
<1> QED
  BY <1>4, <1>5 DEF Outcome

-----------------------------------------------------------------------------
(* The engine is what its RuleSet and its options make, and every call so  *)
(* far got what its arguments and options make of the engine's defaults.   *)
Made(refused, u, e) ==
    IF refused \/ u.set = "zero"
    THEN e = [err |-> "invalid-rule-set", defaults |-> ZeroConfig]
    ELSE \E r : /\ Outcome(ZeroConfig, u.options, Len(u.options), r)
                /\ e = [err |-> r.err, defaults |-> r.config]
Answered(e, call, r) ==
    IF call.context = "nil" THEN r = Rejected("nil-context")
    ELSE IF call.input = "nil" THEN r = Rejected("nil-input")
    ELSE IF e.err # "nil" THEN r = Rejected("invalid-engine")
    ELSE Outcome(e.defaults, call.options, Len(call.options), r)

ResultSpace == [err : ErrorSpace, config : ConfigSpace]
EngineInv ==
    /\ use \in Uses /\ engine \in [err : ErrorSpace \cup {"unmade"}, defaults : ConfigSpace]
    /\ defs = use.definitions
    /\ engine.err # "unmade" => pc \in {"compiled", "refused"} /\ Made(pc = "refused", use, engine)
    /\ engine.err = "unmade" => started = <<>>
    /\ started \in Seq(ResultSpace) /\ Len(started) <= Len(use.fires)
    /\ \A k \in 1 .. Len(started) : Answered(engine, use.fires[k], started[k])

LEMMA OutcomeTyped ==
    ASSUME NEW config, NEW options, NEW n, NEW r, Outcome(config, options, n, r)
    PROVE  r \in ResultSpace
<1>1. CASE r = Configured(r.config) /\ Carries(config, options, n, r.config)
  BY <1>1 DEF Configured, Carries, ResultSpace, ErrorSpace
<1>2. CASE r = Rejected(r.err) /\ FirstError(options, n, r.err)
  <2>1. r.err \in ErrorSpace
    BY <1>2, OptionErrors DEF FirstError, ErrorSpace
  <2> QED
    BY <1>2, <2>1, ZeroTyped DEF Rejected, ResultSpace
<1> QED
  BY <1>1, <1>2 DEF Outcome

LEMMA RejectedTyped ==
    ASSUME NEW err \in ErrorSpace
    PROVE  Rejected(err) \in ResultSpace
  BY ZeroTyped DEF Rejected, ResultSpace

LEMMA UseTyped ==
    ASSUME NEW u \in Uses
    PROVE  /\ u.options \in Seq(OptionSpace)
           /\ Len(u.fires) \in Nat
           /\ \A k \in 1 .. Len(u.fires) : u.fires[k].options \in Seq(OptionSpace)
<1>1. PICK C : C = [context : STRING, input : STRING, options : Seq(OptionSpace)]
  OBVIOUS
<1>2. u.options \in Seq(OptionSpace) /\ u.fires \in Seq(C)
  BY <1>1, UsesAssumption
<1>3. Len(u.fires) \in Nat /\ \A k \in 1 .. Len(u.fires) : u.fires[k] \in C
  BY <1>2
<1> QED
  BY <1>1, <1>2, <1>3

LEMMA InitMakes ==
    ASSUME EngineInit
    PROVE  EngineInv
<1>1. /\ use \in Uses /\ engine = [err |-> "unmade", defaults |-> ZeroConfig]
      /\ started = <<>> /\ defs = use.definitions
  BY DEF EngineInit
<1>2. engine \in [err : ErrorSpace \cup {"unmade"}, defaults : ConfigSpace]
  BY <1>1, ZeroTyped
<1>3. engine.err = "unmade" /\ Len(started) = 0 /\ started \in Seq(ResultSpace)
  BY <1>1
<1>4. Len(use.fires) \in Nat
  BY <1>1, UseTyped
<1> QED
  BY <1>1, <1>2, <1>3, <1>4 DEF EngineInv

LEMMA NewEngineKeeps ==
    ASSUME EngineInv, NewEngineFromRuleSet
    PROVE  EngineInv'
<1>1. PICK c :
        /\ c = IF pc = "refused" \/ use.set = "zero" THEN Rejected("invalid-rule-set")
               ELSE configureExecution(ZeroConfig, use.options)
        /\ pc \in {"compiled", "refused"} /\ engine.err = "unmade"
        /\ engine' = [err |-> c.err, defaults |-> c.config]
        /\ UNCHANGED <<vars, use, started>>
  BY Zenon DEF NewEngineFromRuleSet
<1>2. pc' = pc /\ use' = use /\ started' = started /\ defs' = defs
  BY <1>1 DEF vars, cursor, input
<1>3. PICK u, e : u = use /\ e = engine'
  OBVIOUS
<1>4. u \in Uses /\ u.options \in Seq(OptionSpace) /\ Len(u.fires) \in Nat
  BY <1>3, UseTyped DEF EngineInv
<1>5. started = <<>> /\ started \in Seq(ResultSpace) /\ Len(started) = 0
  BY <1>1 DEF EngineInv
<1>6. CASE pc = "refused" \/ u.set = "zero"
  <2>1. c = Rejected("invalid-rule-set")
    BY <1>1, <1>3, <1>6
  <2>2. e = [err |-> "invalid-rule-set", defaults |-> ZeroConfig]
    BY <1>1, <1>3, <2>1, RejectedIs
  <2>3. Made(pc = "refused", u, e)
    BY <1>6, <2>2 DEF Made
  <2>4. e \in [err : ErrorSpace \cup {"unmade"}, defaults : ConfigSpace] /\ e.err # "unmade"
    BY <2>2, ZeroTyped DEF ErrorSpace
  <2> QED
    BY <1>1, <1>2, <1>3, <1>4, <1>5, <2>3, <2>4 DEF EngineInv
<1>7. CASE ~(pc = "refused" \/ u.set = "zero")
  <2>1. c = configureExecution(ZeroConfig, u.options)
    BY <1>1, <1>3, <1>7
  <2>2. Outcome(ZeroConfig, u.options, Len(u.options), c)
    BY <1>4, <2>1, ConfigurationIs, ZeroTyped
  <2>3. c \in ResultSpace
    BY <2>2, OutcomeTyped
  <2>4. Made(pc = "refused", u, e)
    BY <1>1, <1>3, <1>7, <2>2 DEF Made
  <2>5. e \in [err : ErrorSpace \cup {"unmade"}, defaults : ConfigSpace]
    BY <1>1, <1>3, <2>3 DEF ResultSpace
  <2> QED
    BY <1>1, <1>2, <1>3, <1>4, <1>5, <2>4, <2>5 DEF EngineInv
<1> QED
  BY <1>6, <1>7

LEMMA FireKeeps ==
    ASSUME EngineInv, Fire
    PROVE  EngineInv'
<1>1. PICK call : call = use.fires[Len(started) + 1]
  OBVIOUS
<1>2. PICK c :
        /\ c = IF call.context = "nil" THEN Rejected("nil-context")
               ELSE IF call.input = "nil" THEN Rejected("nil-input")
               ELSE IF engine.err # "nil" THEN Rejected("invalid-engine")
               ELSE configureExecution(engine.defaults, call.options)
        /\ engine.err # "unmade" /\ Len(started) < Len(use.fires)
        /\ started' = Append(started, c)
        /\ UNCHANGED <<vars, use, engine>>
  BY <1>1, Zenon DEF Fire
<1>3. pc' = pc /\ use' = use /\ engine' = engine /\ defs' = defs
  BY <1>2 DEF vars, cursor, input
<1>4. PICK u, e, s, s2 : u = use /\ e = engine /\ s = started /\ s2 = started'
  OBVIOUS
<1>5. u \in Uses /\ e.defaults \in ConfigSpace /\ s \in Seq(ResultSpace) /\ Len(s) \in Nat
  BY <1>4 DEF EngineInv
<1>6. PICK k : k = Len(s) + 1
  OBVIOUS
<1>7. Len(u.fires) \in Nat /\ k \in 1 .. Len(u.fires) /\ call = u.fires[k]
  BY <1>1, <1>2, <1>4, <1>5, <1>6, UseTyped
<1>8. call.options \in Seq(OptionSpace)
  BY <1>5, <1>7, UseTyped
<1>9. Answered(e, call, c) /\ c \in ResultSpace
  <2>1. CASE call.context = "nil"
    <3>1. c = Rejected("nil-context")
      BY <1>2, <2>1
    <3> QED
      BY <2>1, <3>1, RejectedTyped DEF Answered, ErrorSpace
  <2>2. CASE call.context # "nil" /\ call.input = "nil"
    <3>1. c = Rejected("nil-input")
      BY <1>2, <2>2
    <3> QED
      BY <2>2, <3>1, RejectedTyped DEF Answered, ErrorSpace
  <2>3. CASE call.context # "nil" /\ call.input # "nil" /\ e.err # "nil"
    <3>1. c = Rejected("invalid-engine")
      BY <1>2, <1>4, <2>3
    <3> QED
      BY <2>3, <3>1, RejectedTyped DEF Answered, ErrorSpace
  <2>4. CASE call.context # "nil" /\ call.input # "nil" /\ e.err = "nil"
    <3>1. c = configureExecution(e.defaults, call.options)
      BY <1>2, <1>4, <2>4
    <3>2. Outcome(e.defaults, call.options, Len(call.options), c)
      BY <1>5, <1>8, <3>1, ConfigurationIs
    <3>3. c \in ResultSpace
      BY <3>2, OutcomeTyped
    <3> QED
      BY <2>4, <3>2, <3>3, Zenon DEF Answered
  <2> QED
    BY <2>1, <2>2, <2>3, <2>4
<1>10. /\ s2 \in Seq(ResultSpace) /\ Len(s2) = k /\ s2[k] = c
       /\ \A i \in 1 .. Len(s) : s2[i] = s[i]
  BY <1>2, <1>4, <1>5, <1>6, <1>9
<1>11. \A i \in 1 .. Len(s2) : Answered(e, u.fires[i], s2[i])
  <2>1. \A i \in 1 .. Len(s) : Answered(e, u.fires[i], s[i])
    BY <1>4 DEF EngineInv
  <2>2. \A i \in 1 .. k : i = k \/ i \in 1 .. Len(s)
    BY <1>5, <1>6
  <2> QED
    BY <1>7, <1>9, <1>10, <2>1, <2>2
<1>12. Len(s2) <= Len(u.fires)
  BY <1>7, <1>10
<1> QED
  BY <1>2, <1>3, <1>4, <1>10, <1>11, <1>12 DEF EngineInv

(* Compilation is over before there is an engine. *)
LEMMA CompilingKeeps ==
    ASSUME EngineInv, [Next]_vars, UNCHANGED engineVars
    PROVE  EngineInv'
<1>1. use' = use /\ engine' = engine /\ started' = started
  BY DEF engineVars
<1>2. defs' = defs
  BY Zenon DEF Next, Terminated, ValidateRule, ValidateGroup, ValidateMember, LeaveMembers,
     Refuse, Sort, PlaceRule, PlaceGroup, Freeze, vars, input
<1>3. pc \in {"compiled", "refused"} => pc' = pc
  BY DEF Next, Terminated, ValidateRule, ValidateGroup, ValidateMember, LeaveMembers,
     Refuse, Sort, PlaceRule, PlaceGroup, Placing, Freeze, vars, cursor
<1>4. PICK u, e, s : u = use /\ e = engine /\ s = started
  OBVIOUS
<1> QED
  BY <1>1, <1>2, <1>3, <1>4 DEF EngineInv

(***************************************************************************)
(* The engine is what its set and options make, and the calls got what     *)
(* theirs make of its defaults (engine.go:30-120).                         *)
(***************************************************************************)
THEOREM EngineInvariant == EngineSpec => []EngineInv
<1>1. EngineInit => EngineInv
  BY InitMakes
<1>2. EngineInv /\ [EngineNext]_allVars => EngineInv'
  <2> SUFFICES ASSUME EngineInv, [EngineNext]_allVars
               PROVE  EngineInv'
    OBVIOUS
  <2>1. CASE Next /\ UNCHANGED engineVars
    BY <2>1, CompilingKeeps
  <2>2. CASE NewEngineFromRuleSet
    BY <2>2, NewEngineKeeps
  <2>3. CASE Fire
    BY <2>3, FireKeeps
  <2>4. CASE UNCHANGED allVars
    <3>1. UNCHANGED vars /\ UNCHANGED engineVars
      BY <2>4, Zenon DEF allVars
    <3> QED
      BY <3>1, CompilingKeeps
  <2> QED
    BY <2>1, <2>2, <2>3, <2>4 DEF EngineNext, Finished
<1> QED
  BY <1>1, <1>2, PTL DEF EngineSpec

(* There is an engine: its set was compiled, and its options are sound. *)
LEMMA EngineSays ==
    ASSUME EngineInv, IssuesAreComplete, engine.err # "unmade"
    PROVE  /\ engine.err = IF Expected # {} \/ use.set = "zero" THEN "invalid-rule-set"
                           ELSE IF Wrong(use.options) # {} THEN FirstWrong(use.options) ELSE "nil"
           /\ engine.err = "nil" =>
                /\ Sound(use.options, Len(use.options))
                /\ Carries(ZeroConfig, use.options, Len(use.options), engine.defaults)
<1>1. pc \in {"compiled", "refused"} /\ Made(pc = "refused", use, engine) /\ use \in Uses
  BY DEF EngineInv
<1>2. (pc = "refused") = (Expected # {})
  BY <1>1 DEF IssuesAreComplete
<1>3. use.options \in Seq(OptionSpace)
  BY <1>1, UseTyped
<1>4. CASE Expected # {} \/ use.set = "zero"
  <2>1. engine = [err |-> "invalid-rule-set", defaults |-> ZeroConfig]
    BY <1>1, <1>2, <1>4 DEF Made
  <2> QED
    BY <1>4, <2>1
<1>5. CASE ~(Expected # {} \/ use.set = "zero")
  <2>1. PICK r : /\ Outcome(ZeroConfig, use.options, Len(use.options), r)
                 /\ engine = [err |-> r.err, defaults |-> r.config]
    BY <1>1, <1>2, <1>5, Zenon DEF Made
  <2>2. engine.err = r.err /\ engine.defaults = r.config
    BY <2>1
  <2>3. r.err = IF Wrong(use.options) # {} THEN FirstWrong(use.options) ELSE "nil"
    BY <1>3, <2>1, OutcomeTold DEF Told
  <2>4. r.err = "nil" =>
          /\ Sound(use.options, Len(use.options))
          /\ Carries(ZeroConfig, use.options, Len(use.options), r.config)
    BY <2>1 DEF Outcome, FirstError
  <2> QED
    BY <1>5, <2>2, <2>3, <2>4
<1> QED
  BY <1>4, <1>5

(* What a call got, from all the options that count for it. *)
Begun(call, all, r) ==
    /\ r.err = CASE call.context = "nil" -> "nil-context"
                 [] call.context # "nil" /\ call.input = "nil" -> "nil-input"
                 [] OTHER -> IF engine.err # "nil" THEN "invalid-engine"
                             ELSE IF Wrong(all) # {} THEN FirstWrong(all) ELSE "nil"
    /\ r.err = "nil" =>
         /\ \A kind \in Setters : r.config[kind] = Setting(all, kind)
         /\ r.config.trace = (Settings(all, "trace") # {})

LEMMA FireSays ==
    ASSUME EngineInv, IssuesAreComplete, NEW k \in DOMAIN started
    PROVE  Begun(use.fires[k], use.options \o use.fires[k].options, started[k])
<1>1. /\ use \in Uses /\ started \in Seq(ResultSpace) /\ Len(started) <= Len(use.fires)
      /\ k \in 1 .. Len(started) /\ Answered(engine, use.fires[k], started[k])
  BY DEF EngineInv
<1>2. started # <<>>
  BY <1>1
<1>3. engine.err # "unmade"
  BY <1>2 DEF EngineInv
<1>4. k \in 1 .. Len(use.fires)
  BY <1>1, UseTyped
<1>5. PICK call, r, s, t : /\ call = use.fires[k] /\ r = started[k]
                           /\ s = use.options /\ t = call.options
  OBVIOUS
<1>6. PICK u : u = s \o t
  OBVIOUS
<1>7. s \in Seq(OptionSpace) /\ t \in Seq(OptionSpace)
  BY <1>1, <1>4, <1>5, UseTyped
<1>8. u \in Seq(OptionSpace)
  BY <1>6, <1>7, Concatenated
<1>9. Answered(engine, call, r)
  BY <1>1, <1>5
<1>10. ASSUME call.context = "nil"
       PROVE  Begun(call, u, r)
  <2>1. r = Rejected("nil-context")
    BY <1>9, <1>10, Zenon DEF Answered
  <2>2. r.err = "nil-context"
    BY <2>1, RejectedIs
  <2> QED
    BY <1>10, <2>2 DEF Begun
<1>11. ASSUME call.context # "nil" /\ call.input = "nil"
       PROVE  Begun(call, u, r)
  <2>1. r = Rejected("nil-input")
    BY <1>9, <1>11, Zenon DEF Answered
  <2>2. r.err = "nil-input"
    BY <2>1, RejectedIs
  <2> QED
    BY <1>11, <2>2 DEF Begun
<1>12. ASSUME call.context # "nil" /\ call.input # "nil" /\ engine.err # "nil"
       PROVE  Begun(call, u, r)
  <2>1. r = Rejected("invalid-engine")
    BY <1>9, <1>12, Zenon DEF Answered
  <2>2. r.err = "invalid-engine"
    BY <2>1, RejectedIs
  <2> QED
    BY <1>12, <2>2 DEF Begun
<1>13. ASSUME call.context # "nil", call.input # "nil", engine.err = "nil"
       PROVE  Begun(call, u, r)
  <2>1. PICK c : c = engine.defaults
    OBVIOUS
  <2>2. Sound(s, Len(s)) /\ Carries(ZeroConfig, s, Len(s), c)
    BY <1>3, <1>5, <1>13, <2>1, EngineSays
  <2>3. Outcome(c, t, Len(t), r)
    BY <1>5, <1>9, <1>13, <2>1, Zenon DEF Answered
  <2>4. Outcome(ZeroConfig, u, Len(u), r)
    BY <1>6, <1>7, <2>2, <2>3, OutcomesJoin
  <2>5. Told(u, r)
    BY <1>8, <2>4, OutcomeTold
  <2> QED
    BY <1>13, <2>5 DEF Told, Begun
<1>14. Begun(call, u, r)
  BY <1>10, <1>11, <1>12, <1>13
<1> QED
  BY <1>5, <1>6, <1>14

LEMMA OptionsSuffice ==
    ASSUME EngineInv, IssuesAreComplete
    PROVE  OptionsApplyInOrder
<1>1. engine.err # "unmade" =>
        engine.err = IF Expected # {} \/ use.set = "zero" THEN "invalid-rule-set"
                     ELSE IF Wrong(use.options) # {} THEN FirstWrong(use.options) ELSE "nil"
  BY EngineSays
<1>2. \A k \in DOMAIN started :
        Begun(use.fires[k], use.options \o use.fires[k].options, started[k])
  BY FireSays
<1> QED
  BY <1>1, <1>2, Zenon DEF OptionsApplyInOrder, Begun, Setters

(***************************************************************************)
(* Whatever the lists of options, an engine exists only with a valid set   *)
(* and valid options, and a call that starts runs with the last setting of *)
(* each kind among the engine's options and its own, unaffected by other   *)
(* calls; one that does not names the first thing wrong (policy.go:70-140, *)
(* engine.go:30-120).                                                      *)
(***************************************************************************)
THEOREM OptionsInOrder == EngineSpec => []OptionsApplyInOrder
<1>1. EngineInv /\ IssuesAreComplete => OptionsApplyInOrder
  BY OptionsSuffice
<1> QED
  BY <1>1, EngineCompiles, IssuesComplete, EngineInvariant, PTL
=============================================================================
