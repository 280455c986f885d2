------------------------------ MODULE MCCompile ------------------------------
(***************************************************************************)
(* Small registration lists for TLC: one family with mistakes, one with    *)
(* priorities.  For one rule, its engine and calls: lists of up to three   *)
(* options.                                                                *)
(***************************************************************************)
EXTENDS Engine

UpTo(n, S) == UNION {[1 .. k -> S] : k \in 0 .. n}

R(id, priority, ok) ==
    [kind |-> "rule", id |-> id, priority |-> priority, condition |-> ok, action |-> ok]
G(id, priority, members) ==
    [kind |-> "first-fire", id |-> id, priority |-> priority, members |-> members]

TwoIDs == {"a", "b"}
ManyIDs == {"r11", "r12", "r21", "r22", "r31", "r32", "g1", "g2", "g3"}
AllIDs == TwoIDs \cup ManyIDs

(* Two entries with equal, invalid and missing parts. *)
SomeRules == {R(id, 0, ok) : id \in TwoIDs \cup {"?"}, ok \in BOOLEAN}
Mistaken == UpTo(2, SomeRules \cup {G(id, 0, ms) : id \in {"a", "?"}, ms \in UpTo(2, SomeRules)})

(* Up to three valid entries, rules and groups of up to two, any priorities. *)
RuleIDs == <<<<"r11", "r12">>, <<"r21", "r22">>, <<"r31", "r32">>>>
GroupIDs == <<"g1", "g2", "g3">>
Priorities == {1, 2}
EntriesAt(k) ==
    {R(RuleIDs[k][1], p, TRUE) : p \in Priorities}
    \cup {G(GroupIDs[k], p, [m \in DOMAIN ps |-> R(RuleIDs[k][m], ps[m], TRUE)]) :
            p \in Priorities, ps \in UpTo(2, Priorities)}
Prioritized ==
    {<<e1, e2, e3>> : e1 \in EntriesAt(1), e2 \in EntriesAt(2), e3 \in EntriesAt(3)}
    \cup {<<>>}

-----------------------------------------------------------------------------
Option(kind, value) == [kind |-> kind, value |-> value]
SomeOptions ==
    {Option("none", 0), Option("trace", 0), Option("observer", "o"), Option("observer", "none")}
    \cup {Option("policy", p) : p \in {<<0, 0, 0>>, <<2, 1, 1>>, <<3, 0, 0>>, <<0, 2, 0>>}}
    \cup {Option("panic", mode) : mode \in 0 .. 2}

Call(context, options) == [context |-> context, input |-> "input", options |-> options]
Using(definitions, set, options, fires) ==
    [definitions |-> definitions, set |-> set, options |-> options, fires |-> fires]

(* The second call shows what the first one left behind. *)
Configuring == {Using(<<R("a", 0, TRUE)>>, "compiled", o, <<Call("ctx", f), Call("ctx", <<>>)>>) :
                    <<o, f>> \in UpTo(2, SomeOptions) \X UpTo(1, SomeOptions)
                                \cup UpTo(1, SomeOptions) \X UpTo(2, SomeOptions)}
Checking ==
    {Using(<<R("a", 0, ok)>>, set, o,
           <<[context |-> c, input |-> i, options |-> <<Option("panic", 2)>>]>>) :
        ok \in BOOLEAN, set \in {"compiled", "zero"}, c \in {"nil", "ctx"}, i \in {"nil", "input"},
        o \in UpTo(1, SomeOptions)}

AllUses == {Using(d, "compiled", <<>>, <<>>) : d \in Mistaken \cup Prioritized}
           \cup Configuring \cup Checking
AllDefinitions == Mistaken \cup Prioritized
LastModes == <<2, 1, 1>>
=============================================================================
