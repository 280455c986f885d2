---------------------------- MODULE Publications ----------------------------
(***************************************************************************)
(* What a Runtime promises (runtime.go:17-27, 49-61, 95-101): an atomic    *)
(* log of publications.  Every call takes effect at one instant between    *)
(* its start and its return.  A publication's revision is its place in the *)
(* log; a reader answers with one whole entry of it.                       *)
(***************************************************************************)
EXTENDS Integers, Sequences

CONSTANTS Calls, Requests, Engines, MaxRevision, NoEngine, NoCall

VARIABLES log, request, parent, phase, reply

vars == <<log, request, parent, phase, reply>>

NoRequest == [op |-> "none"]
NoIdentity == [version |-> NoEngine, revision |-> 0]
Answered(engine, identity) == [engine |-> engine, identity |-> identity, err |-> "nil"]
Refused(err) == [engine |-> NoEngine, identity |-> NoIdentity, err |-> err]

Newest == IF log = <<>> THEN NoIdentity
          ELSE [version |-> log[Len(log)], revision |-> Len(log)]

Init ==
    /\ log = <<>>
    /\ request = [k \in Calls |-> NoRequest]
    /\ parent = [k \in Calls |-> NoCall]
    /\ phase = [k \in Calls |-> "idle"]
    /\ reply = [k \in Calls |-> Refused("nil")]

(* A call is made by a goroutine of its own or by a callback of a Fire. *)
Begin(k) ==
    /\ phase[k] = "idle"
    /\ phase' = [phase EXCEPT ![k] = "open"]
    /\ \E q \in Requests : request' = [request EXCEPT ![k] = q]
    /\ \E p \in Calls \cup {NoCall} : parent' = [parent EXCEPT ![k] = p]
    /\ UNCHANGED <<log, reply>>

Answer(k, r) ==
    /\ phase[k] = "open"
    /\ phase' = [phase EXCEPT ![k] = "answered"]
    /\ reply' = [reply EXCEPT ![k] = r]
    /\ UNCHANGED <<request, parent>>

Publish(k) ==
    LET q == request[k]
    IN  /\ q.op = "publish"
        /\ \/ q.receiver = "nil" /\ Answer(k, Refused("invalid runtime")) /\ UNCHANGED log
           \/ /\ q.receiver # "nil" /\ q.engine = NoEngine
              /\ Answer(k, Refused("invalid engine")) /\ UNCHANGED log
           \/ /\ q.receiver # "nil" /\ q.engine # NoEngine /\ Len(log) = MaxRevision
              /\ Answer(k, Refused("exhausted")) /\ UNCHANGED log
           \/ /\ q.receiver # "nil" /\ q.engine # NoEngine /\ Len(log) < MaxRevision
              /\ log' = Append(log, q.engine)
              /\ Answer(k, Answered(q.engine, [version |-> q.engine, revision |-> Len(log')]))

Fire(k) ==
    LET q == request[k]
        readable == q.receiver # "nil" /\ log # <<>>
    IN  /\ q.op = "fire"
        /\ \/ q.given \in {"nil context", "nil input"} /\ Answer(k, Refused(q.given))
           \/ /\ q.given \notin {"nil context", "nil input"} /\ ~readable
              /\ Answer(k, Refused("invalid runtime"))
           \/ q.given = "invalid options" /\ readable /\ Answer(k, Refused(q.given))
           \/ q.given = "valid" /\ readable /\ Answer(k, Answered(Newest.version, Newest))
        /\ UNCHANGED log

Snapshot(k) ==
    /\ request[k].op = "snapshot"
    /\ Answer(k, Answered(NoEngine, IF request[k].receiver = "nil" THEN NoIdentity ELSE Newest))
    /\ UNCHANGED log

Next == \E k \in Calls : Begin(k) \/ Publish(k) \/ Fire(k) \/ Snapshot(k)

Spec == Init /\ [][Next]_vars
=============================================================================
