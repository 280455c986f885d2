--------------------------- MODULE MCCelCondition ---------------------------
(***************************************************************************)
(* Small hosts for TLC.  Most of them only register: struct types that     *)
(* share, repeat and collide, protobuf files that import each other.  Some *)
(* go on to compile a condition and to call it.                            *)
(***************************************************************************)
EXTENDS CelCondition

UpTo(n, S) == UNION {[1 .. k -> S] : k \in 0 .. n}
Elements(kind, es) == [kind |-> kind, fault |-> "none", elements |-> es]
Struct(name, fields) ==
    [kind |-> "struct", fault |-> "none", name |-> name, fields |-> fields]
F(go, json, type) ==
    [embedded |-> FALSE, exported |-> TRUE, go |-> go, json |-> json, type |-> type]

Scalar == Elements("scalar", <<>>)
Unsupported == [Scalar EXCEPT !.kind = "other", !.fault = "fault"]
Entry(name, kind, of) == [name |-> name, kind |-> kind, of |-> of, given |-> TRUE]

Option1(limit, json) == [hasCostLimit |-> limit # -1, costLimit |-> limit, jsonNames |-> json]
Plain == {<<>>}
Varied == {<<>>, <<Option1(-1, TRUE), Option1(5, FALSE)>>, <<Option1(0, FALSE), Option1(5, FALSE)>>}

Registering(types, files, options, entries) ==
    [types |-> types, files |-> files, options |-> options, entries |-> entries,
     refuses |-> {}, sources |-> {}]

NoFiles == <<>>
(* Three structs, a list or map, and what their fields may be. *)
Named(ts) == [i \in DOMAIN ts |-> F(<<"P", "Q", "R">>[i], "", ts[i])]
Graphs ==
    {Registering([A |-> Struct("p.T", Named(a)), B |-> Struct(name, Named(b)),
                  C |-> Struct("p.V", <<>>), L |-> Elements("list", <<l>>), S |-> Scalar, X |-> Unsupported],
                 NoFiles, Plain, {Entry("x", "native", "A"), Entry("y", "native", "B")}) :
        a \in UpTo(3, {"A", "B", "L"}), b \in UpTo(1, {"A", "C", "L", "X"}),
        l \in {"A", "L", "S"}, name \in {"p.T", "p.U"}}

(* The fields of one struct. *)
FieldKinds ==
    {F(go, json, "S") : go \in {"P", "Q"}, json \in {"", "-", "__p", "Q", "9"}}
    \cup {[F("P", "", "X") EXCEPT !.exported = FALSE], [F("P", "", "S") EXCEPT !.embedded = TRUE]}
Fields ==
    {Registering([A |-> Struct("p.T", fs), S |-> Scalar, X |-> Unsupported],
                 NoFiles, Varied, {Entry("x", "native", "A")}) :
        fs \in {g \in UpTo(2, FieldKinds) : Len(g) = 2 /\ g[1].go = "P" => g[2].go = "Q"}}

(* Three protobuf files beside a struct. *)
File(path, messages, imports) == [path |-> path, messages |-> messages, imports |-> imports]
Protos ==
    {Registering([A |-> Struct("p.T", <<>>)],
                 [f |-> File("f", <<"q.F">>, fi), g |-> File("g", gm, gi), h |-> File(path, hm, <<>>)],
                 Plain,
                 {Entry("m", "proto", "f"), Entry("n", "proto", "g"), Entry("x", "native", "A")}) :
        fi \in {<<>>, <<"g">>, <<"g", "h">>}, gi \in {<<>>, <<"h">>},
        gm \in {<<"q.G">>, <<"q.F">>, <<"p.T">>}, path \in {"g", "h"},
        hm \in {<<>>, <<"q.H">>, <<"q.G", "q.H">>, <<"Any">>}}

(* Hosts that compile and call: of one or two bindings in any order, with  *)
(* registrations after the build, and of three bindings.                   *)
Source(uses) == [parses |-> TRUE, uses |-> uses, output |-> "bool", planned |-> TRUE]
Calling(entries, sources) ==
    [types |-> [A |-> Struct("p.T", <<>>), S |-> Scalar],
     files |-> [f |-> File("f", <<"q.F">>, <<>>)], options |-> Plain,
     entries |-> entries, refuses |-> {}, sources |-> sources]

SomeSources == {Source({"x"}), Source({"x", "m"}),
                [Source({"x"}) EXCEPT !.output = "int"], [Source({}) EXCEPT !.parses = FALSE],
                [Source({"x"}) EXCEPT !.planned = FALSE]}
Clashing ==
    LET x == Entry("x", "native", "A")
        m == Entry("m", "function", "S")
        y == Entry("y", "native", "S")
    IN  [Calling({x, m, y}, {}) EXCEPT !.refuses = {{x, m}, {y}}]
Living ==
    {Calling({Entry("x", "native", "A"), Entry("m", "proto", "f"), Entry("int", "native", "S"),
              Entry("__y", "native", "S"),
              [Entry("y", "native", "S") EXCEPT !.given = FALSE]}, SomeSources),
     Clashing,
     Calling({Entry("x", "native", "A"), Entry("m", "function", "S"),
              Entry("x", "function", "S"), Entry("g", "function", "A")}, SomeSources),
     Calling({Entry("x", "native", "A"), Entry("y", "native", "S"), Entry("m", "proto", "f")},
             {Source({"x", "y", "m"})})}

SmallHosts == Graphs \cup Fields \cup Protos \cup Living
IllegalNames == {"9"}
PrefixedNames == {"__p", "__y"}
ReservedNames == {"int"}
DynamicMessages == {"Any"}

V(depth) == [what |-> "visit", n |-> depth]
B(n) == [what |-> "bytes", n |-> n]
I(n) == [what |-> "items", n |-> n]

(* A scalar, strings, lists, a message with unknown fields, a nested value. *)
SmallTraversals ==
    {<<V(0)>>, <<V(0), B(1)>>, <<V(0), B(3)>>, <<V(0), I(0)>>,
     <<V(0), I(2), V(1), V(1)>>, <<V(0), B(1), V(1), B(1)>>,
     <<V(0), V(1), V(2)>>, <<V(0), V(1), V(2), V(3)>>}
=============================================================================
