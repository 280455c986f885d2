-------------------------------- MODULE Layout --------------------------------
(***************************************************************************)
(* The flattened entry lists that compilation hands to execution           *)
(* (compiledEntry, compile_internal.go:38-41).  An entry spans the orders  *)
(* start .. end - 1; "rules" is an entry without a group.                  *)
(***************************************************************************)
EXTENDS Integers, Sequences

GroupKinds == {"first-match", "first-fire"}

Compiled(es) ==
    /\ es \in Seq([kind : GroupKinds \cup {"rules"}, start : Nat, end : Nat])
    /\ es # <<>>
    /\ es[1].start = 0
    /\ \A k \in 1 .. Len(es) : es[k].start <= es[k].end
    /\ \A k \in 1 .. Len(es) - 1 : es[k + 1].start = es[k].end
    /\ \A j, k \in 1 .. Len(es) : j < k => es[j].end <= es[k].start
=============================================================================
