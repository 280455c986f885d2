---------------------------- MODULE MCParamSchema ----------------------------
(* Small type graphs for TLC. *)
EXTENDS ParamSchema

FourTypes == 1 .. 4

UpTo(n, S) == UNION {[1 .. k -> S] : k \in 0 .. n}
Ok(ts) == [k \in DOMAIN ts |-> [status |-> "ok", type |-> ts[k]]]
Made(fields) == [fault |-> "none", fields |-> fields]
Faulty(fault) == [fault |-> fault, fields |-> <<>>]

(* Every graph of three types with up to two fields each and a leaf. *)
AnyFields == {Made(Ok(ts)) : ts \in UpTo(2, FourTypes)}
Graphs == {<<a, b, c, d>> : a, b, c \in AnyFields, d \in {Made(<<>>), Faulty("unsupported")}}

(* Faults in the type, in its fields, and in a shared type. *)
SomeFields == UpTo(2, [status : {"ok", "hidden", "bad"}, type : {2, 3}])
Mistaken ==
    {<<Made(fs), b, c, Made(<<>>)>> :
        fs \in SomeFields, b \in {Made(Ok(<<3>>)), Made(Ok(<<4, 3>>))},
        c \in {Faulty(f) : f \in Faults}}

SomeShapes == Graphs \cup Mistaken
=============================================================================
