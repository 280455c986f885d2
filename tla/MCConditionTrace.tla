-------------------------- MODULE MCConditionTrace --------------------------
(* Small instances of ConditionTrace for TLC. *)
EXTENDS ConditionTrace

OneGoroutine == {"other"}
NoGoroutines == {}
=============================================================================
