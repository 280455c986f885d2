------------------------------- MODULE Runtime -------------------------------
(***************************************************************************)
(* rulite.Runtime (runtime.go): publishers serialized by publishMu, one    *)
(* atomic pointer, and readers that never lock.  Calls run concurrently,   *)
(* and a callback or observer of a running Fire may call the same Runtime; *)
(* the Fire then waits for that call.                                      *)
(*                                                                         *)
(* The steps of a call are its accesses to shared state.  What Fire runs   *)
(* with the engine it captured is module Execution.                        *)
(***************************************************************************)
EXTENDS Integers, Sequences

CONSTANTS
    Calls,        \* the calls that are made, numbered as they begin
    Requests,     \* what a call may ask
    Engines,      \* valid engines; each also stands for its version and digest
    MaxRevision,  \* ^SnapshotRevision(0)
    NoEngine      \* a nil or zero engine

RequestSpace ==
    [op : {"publish"}, receiver : {"runtime", "nil"}, engine : Engines \cup {NoEngine}]
    \cup [op : {"fire"}, receiver : {"runtime", "nil"},
          given : {"valid", "nil context", "nil input", "invalid options"}]
    \cup [op : {"snapshot"}, receiver : {"runtime", "nil"}]

ASSUME CallsAssumption == Calls \subseteq Nat \ {0}
ASSUME EnginesAssumption == NoEngine \notin Engines
ASSUME RequestsAssumption == Requests \subseteq RequestSpace
ASSUME RevisionAssumption == MaxRevision \in Nat

VARIABLES
    publishMu,  \* the call that holds the mutex, or NoCall
    current,    \* the publication the atomic pointer refers to
    request, parent, pc,
    local,      \* each call's own publication: next, or what it captured
    reply,
    log         \* history: the engines stored, in the order of the stores

vars == <<publishMu, current, request, parent, pc, local, reply, log>>

NoCall == 0
NoRequest == [op |-> "none"]
NoIdentity == [version |-> NoEngine, revision |-> 0]
NoPublication == [engine |-> NoEngine, identity |-> NoIdentity]

Refused(err) == [engine |-> NoEngine, identity |-> NoIdentity, err |-> err]
Answered(engine, identity) == [engine |-> engine, identity |-> identity, err |-> "nil"]

-----------------------------------------------------------------------------
Init ==
    /\ publishMu = NoCall
    /\ current = NoPublication
    /\ request = [k \in Calls |-> NoRequest]
    /\ parent = [k \in Calls |-> NoCall]
    /\ pc = [k \in Calls |-> "idle"]
    /\ local = [k \in Calls |-> NoPublication]
    /\ reply = [k \in Calls |-> Refused("nil")]
    /\ log = <<>>

Go(k, from, to) == pc[k] = from /\ pc' = [pc EXCEPT ![k] = to]

(* A call from a new goroutine, or from a callback of the running call p,  *)
(* which makes one call at a time.                                         *)
Waiting(p) == \E k \in Calls : parent[k] = p /\ pc[k] # "returned"

Begin(k) ==
    /\ Go(k, "idle", "begun")
    /\ \A j \in Calls : j < k => pc[j] # "idle"
    /\ \E q \in Requests : request' = [request EXCEPT ![k] = q]
    /\ \/ UNCHANGED parent
       \/ \E p \in Calls : /\ pc[p] = "running" /\ ~Waiting(p)
                           /\ parent' = [parent EXCEPT ![k] = p]
    /\ UNCHANGED <<publishMu, current, local, reply, log>>

-----------------------------------------------------------------------------
(* Publish. *)
PublishError(q) ==
    IF q.receiver = "nil" THEN "invalid runtime"
    ELSE IF q.engine = NoEngine THEN "invalid engine"
    ELSE "nil"

RefusePublish(k) ==
    /\ request[k].op = "publish" /\ PublishError(request[k]) # "nil"
    /\ Go(k, "begun", "returned")
    /\ reply' = [reply EXCEPT ![k] = Refused(PublishError(request[k]))]
    /\ UNCHANGED <<publishMu, current, request, parent, local, log>>

Lock(k) ==
    /\ request[k].op = "publish" /\ PublishError(request[k]) = "nil"
    /\ Go(k, "begun", "locked")
    /\ publishMu = NoCall /\ publishMu' = k
    /\ UNCHANGED <<current, request, parent, local, reply, log>>

(* The revision is read under the mutex; the last one is never passed.     *)
Exhausted_Unchecked(revision) == FALSE
Exhausted(revision) == revision = MaxRevision

(* revision + 1 in the width of SnapshotRevision. *)
Successor(revision) == (revision + 1) % (MaxRevision + 1)

LoadRevision(k) ==
    LET revision == current.identity.revision
        next == [engine |-> request[k].engine,
                 identity |-> [version |-> request[k].engine,
                               revision |-> Successor(revision)]]
    IN  /\ \/ /\ Exhausted(revision)
              /\ Go(k, "locked", "unlock")
              /\ reply' = [reply EXCEPT ![k] = Refused("exhausted")]
              /\ UNCHANGED local
           \/ /\ ~Exhausted(revision)
              /\ Go(k, "locked", "store")
              /\ local' = [local EXCEPT ![k] = next]
              /\ UNCHANGED reply
        /\ UNCHANGED <<publishMu, current, request, parent, log>>

Store(k) ==
    /\ Go(k, "store", "unlock")
    /\ current' = local[k]
    /\ log' = Append(log, local[k].engine)
    /\ reply' = [reply EXCEPT ![k] = Answered(local[k].engine, local[k].identity)]
    /\ UNCHANGED <<publishMu, request, parent, local>>

Unlock_Forgotten(k) ==
    /\ Go(k, "unlock", "returned")
    /\ publishMu' = IF reply[k].err = "nil" THEN NoCall ELSE publishMu
    /\ UNCHANGED <<current, request, parent, local, reply, log>>

Unlock(k) ==
    /\ Go(k, "unlock", "returned")
    /\ publishMu' = NoCall
    /\ UNCHANGED <<current, request, parent, local, reply, log>>

-----------------------------------------------------------------------------
(* Fire captures one publication and then works from it alone. *)
Capture(k) ==
    /\ request[k].op = "fire"
    /\ Go(k, "begun", "captured")
    /\ local' = [local EXCEPT ![k] =
                    IF request[k].receiver = "nil" THEN NoPublication ELSE current]
    /\ UNCHANGED <<publishMu, current, request, parent, reply, log>>

(* Engine.fire's order of checks. *)
FireError(q, captured) ==
    IF q.given \in {"nil context", "nil input"} THEN q.given
    ELSE IF captured.engine = NoEngine THEN "invalid runtime"
    ELSE IF q.given = "invalid options" THEN q.given
    ELSE "nil"

RefuseFire(k) ==
    /\ Go(k, "captured", "returned")
    /\ FireError(request[k], local[k]) # "nil"
    /\ reply' = [reply EXCEPT ![k] = Refused(FireError(request[k], local[k]))]
    /\ UNCHANGED <<publishMu, current, request, parent, local, log>>

Run(k) ==
    /\ Go(k, "captured", "running")
    /\ FireError(request[k], local[k]) = "nil"
    /\ UNCHANGED <<publishMu, current, request, parent, local, reply, log>>

FireResult_Reread(k) == Answered(local[k].engine, current.identity)
FireResult(k) == Answered(local[k].engine, local[k].identity)

ReturnFire(k) ==
    /\ Go(k, "running", "returned") /\ ~Waiting(k)
    /\ reply' = [reply EXCEPT ![k] = FireResult(k)]
    /\ UNCHANGED <<publishMu, current, request, parent, local, log>>

Snapshot(k) ==
    /\ request[k].op = "snapshot"
    /\ Go(k, "begun", "returned")
    /\ reply' = [reply EXCEPT ![k] =
                    Answered(NoEngine, IF request[k].receiver = "nil" THEN NoIdentity
                                       ELSE current.identity)]
    /\ UNCHANGED <<publishMu, current, request, parent, local, log>>

-----------------------------------------------------------------------------
Proceed(k) ==
    \/ RefusePublish(k) \/ Lock(k) \/ LoadRevision(k) \/ Store(k) \/ Unlock(k)
    \/ Capture(k) \/ RefuseFire(k) \/ Run(k) \/ ReturnFire(k)
    \/ Snapshot(k)

Settled == \A k \in Calls : pc[k] \in {"idle", "returned"}

Terminated == Settled /\ UNCHANGED vars

Next == (\E k \in Calls : Begin(k) \/ Proceed(k)) \/ Terminated

Spec == Init /\ [][Next]_vars

(* Goroutines run and callbacks return.  The calls are finite in number,   *)
(* so that no assumption on the fairness of the mutex is needed.           *)
FairSpec == Spec /\ \A k \in Calls : WF_vars(Proceed(k))
-----------------------------------------------------------------------------
IdentitySpace == [version : Engines \cup {NoEngine}, revision : 0 .. MaxRevision]
PublicationSpace == [engine : Engines \cup {NoEngine}, identity : IdentitySpace]
Errors == {"nil", "invalid runtime", "invalid engine", "exhausted",
           "nil context", "nil input", "invalid options"}
ReplySpace == [engine : Engines \cup {NoEngine}, identity : IdentitySpace, err : Errors]
Holding == {"locked", "store", "unlock"}

(* Every variable has the shape the code gives it. *)
TypeOK ==
    /\ publishMu \in Calls \cup {NoCall}
    /\ current \in PublicationSpace
    /\ request \in [Calls -> Requests \cup {NoRequest}]
    /\ parent \in [Calls -> Calls \cup {NoCall}]
    /\ pc \in [Calls -> {"idle", "begun", "captured", "running", "returned"} \cup Holding]
    /\ local \in [Calls -> PublicationSpace]
    /\ reply \in [Calls -> ReplySpace]
    /\ log \in Seq(Engines)

(* publishMu is held by exactly the call that is between Lock and Unlock:  *)
(* never across a callback, never after a failed Publish has returned.     *)
Exclusion ==
    /\ \A k \in Calls : (pc[k] \in Holding) = (publishMu = k)
    /\ publishMu # NoCall => pc[publishMu] \in Holding

(* The visible revision counts the stores and so never repeats, skips,     *)
(* goes back or wraps to zero, and what is visible is the engine stored    *)
(* last, with its own version (runtime.go:13-15, 55-60).                   *)
RevisionCounts ==
    /\ current.identity.revision = Len(log)
    /\ log # <<>> => /\ current.engine = log[Len(log)]
                     /\ current.identity.version = current.engine
    /\ \A k \in Calls : pc[k] = "store" =>
            /\ local[k].identity.revision = Len(log) + 1
            /\ Len(log) < MaxRevision

(* Every call that has begun returns, those made from callbacks and those  *)
(* behind a failed publication included.                                   *)
EveryCallReturns == []<>Settled

-----------------------------------------------------------------------------
(* Publish takes effect at its store (or, exhausted, at its load), Fire    *)
(* and Snapshot at their one load of the pointer.                          *)
Phase == [k \in Calls |->
    IF pc[k] = "idle" THEN "idle"
    ELSE IF pc[k] \in {"begun", "locked", "store"} THEN "open"
    ELSE "answered"]

Settles(k) ==
    IF pc[k] \in {"captured", "running"}
    THEN IF FireError(request[k], local[k]) # "nil"
         THEN Refused(FireError(request[k], local[k]))
         ELSE Answered(local[k].engine, local[k].identity)
    ELSE reply[k]
Reply == [k \in Calls |-> Settles(k)]

Log == INSTANCE Publications WITH phase <- Phase, reply <- Reply

(* A Runtime is an atomic log of publications: no lost or repeated         *)
(* revision, no call answered from before its start or from two entries.   *)
ImplementsLog == Log!Spec
=============================================================================
