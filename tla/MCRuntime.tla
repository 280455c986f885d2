------------------------------ MODULE MCRuntime ------------------------------
(***************************************************************************)
(* A small Runtime for TLC: the revision counter is exhausted after two    *)
(* publications.                                                           *)
(***************************************************************************)
EXTENDS Runtime

CONSTANTS e1, e2

FourCalls == 1 .. 4
TwoEngines == {e1, e2}

PublishOf(r, e) == [op |-> "publish", receiver |-> r, engine |-> e]
FireOf(r, given) == [op |-> "fire", receiver |-> r, given |-> given]
SnapshotOf(r) == [op |-> "snapshot", receiver |-> r]

SomeRequests ==
    {PublishOf("runtime", e1), PublishOf("runtime", e2), PublishOf("runtime", NoEngine),
     FireOf("runtime", "valid"), FireOf("runtime", "invalid options"),
     SnapshotOf("runtime")}
=============================================================================
