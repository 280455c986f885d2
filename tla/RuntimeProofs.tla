---------------------------- MODULE RuntimeProofs ----------------------------
(***************************************************************************)
(* Runtime for any number of calls, any engines and any revision width.    *)
(*                                                                         *)
(* The inductive invariant adds to the checked ones what a call in the     *)
(* middle of its work remembers of its request (Intent).                   *)
(***************************************************************************)
EXTENDS Runtime, TLAPS

Intent ==
    \A k \in Calls :
        /\ pc[k] = "begun" => request[k] \in Requests
        /\ pc[k] \in Holding => /\ request[k].op = "publish"
                                /\ PublishError(request[k]) = "nil"
                                /\ request[k].engine \in Engines
        /\ pc[k] = "store" => /\ local[k].engine = request[k].engine
                              /\ local[k].identity.version = request[k].engine
        /\ pc[k] \in {"captured", "running"} =>
              request[k] \in Requests /\ request[k].op = "fire"
        /\ pc[k] = "running" => FireError(request[k], local[k]) = "nil"

Unpublished == log = <<>> => current = NoPublication

IInv == TypeOK /\ Exclusion /\ RevisionCounts /\ Intent /\ Unpublished

LEMMA RequestFacts ==
    ASSUME NEW q \in Requests
    PROVE  /\ q.op \in {"publish", "fire", "snapshot"}
           /\ q.op = "publish" => q.engine \in Engines \cup {NoEngine}
  BY RequestsAssumption DEF RequestSpace

LEMMA InitInv == Init => IInv
<1> SUFFICES ASSUME Init PROVE IInv
  OBVIOUS
<1>. USE RevisionAssumption DEF Init, NoPublication, NoIdentity, Refused
<1>1. TypeOK
  BY DEF TypeOK, PublicationSpace, IdentitySpace, ReplySpace, Errors, Holding
<1>2. Exclusion /\ RevisionCounts /\ Intent /\ Unpublished
  BY CallsAssumption DEF Exclusion, RevisionCounts, Intent, Unpublished, Holding, NoCall
<1>. QED
  BY <1>1, <1>2 DEF IInv

LEMMA GoFacts ==
    ASSUME TypeOK, NEW k \in Calls, NEW from, NEW to, Go(k, from, to)
    PROVE  pc[k] = from /\ pc'[k] = to /\ \A j \in Calls : j # k => pc'[j] = pc[j]
  BY DEF TypeOK, Go

LEMMA ReplyTyping ==
    /\ \A err \in Errors : Refused(err) \in ReplySpace
    /\ \A e \in Engines \cup {NoEngine}, i \in IdentitySpace : Answered(e, i) \in ReplySpace
    /\ NoIdentity \in IdentitySpace /\ NoPublication \in PublicationSpace
  BY RevisionAssumption
     DEF Refused, Answered, ReplySpace, Errors, NoIdentity, NoPublication,
         IdentitySpace, PublicationSpace

LEMMA TypeStep == IInv /\ [Next]_vars => TypeOK'
<1> SUFFICES ASSUME IInv, [Next]_vars PROVE TypeOK'
  OBVIOUS
<1>1. TypeOK
  BY DEF IInv
<1>2. ASSUME NEW k \in Calls, Begin(k) PROVE TypeOK'
  BY <1>1, <1>2 DEF Begin, Go, TypeOK, Holding
<1>3. ASSUME NEW k \in Calls, RefusePublish(k) PROVE TypeOK'
  <2>1. Refused(PublishError(request[k])) \in ReplySpace
    BY ReplyTyping DEF PublishError, Errors
  <2>. QED
    BY <1>1, <1>3, <2>1 DEF RefusePublish, Go, TypeOK, Holding
<1>4. ASSUME NEW k \in Calls, Lock(k) PROVE TypeOK'
  BY <1>1, <1>4 DEF Lock, Go, TypeOK, Holding
<1>5. ASSUME NEW k \in Calls, LoadRevision(k) PROVE TypeOK'
  <2>1. pc[k] = "locked"
    BY <1>5 DEF LoadRevision, Go
  <2>2. request[k].engine \in Engines
    BY <2>1 DEF IInv, Intent, Holding
  <2>3. current.identity.revision \in 0 .. MaxRevision
    BY <1>1 DEF TypeOK, PublicationSpace, IdentitySpace
  <2>4. Successor(current.identity.revision) \in 0 .. MaxRevision
    BY <2>3, RevisionAssumption DEF Successor
  <2>5. [engine |-> request[k].engine,
         identity |-> [version |-> request[k].engine,
                       revision |-> Successor(current.identity.revision)]] \in PublicationSpace
    BY <2>2, <2>4 DEF PublicationSpace, IdentitySpace
  <2>6. Refused("exhausted") \in ReplySpace
    BY ReplyTyping DEF Errors
  <2>. QED
    BY <1>1, <1>5, <2>5, <2>6 DEF LoadRevision, Go, TypeOK, Holding
<1>6. ASSUME NEW k \in Calls, Store(k) PROVE TypeOK'
  <2>1. pc[k] = "store"
    BY <1>6 DEF Store, Go
  <2>2. local[k] \in PublicationSpace /\ local[k].engine \in Engines
    BY <1>1, <2>1 DEF IInv, Intent, Holding, TypeOK
  <2>3. Answered(local[k].engine, local[k].identity) \in ReplySpace
    BY <2>2, ReplyTyping DEF PublicationSpace
  <2>. QED
    BY <1>1, <1>6, <2>2, <2>3 DEF Store, Go, TypeOK, Holding
<1>7. ASSUME NEW k \in Calls, Unlock(k) PROVE TypeOK'
  BY <1>1, <1>7 DEF Unlock, Go, TypeOK, Holding
<1>8. ASSUME NEW k \in Calls, Capture(k) PROVE TypeOK'
  BY <1>1, <1>8, ReplyTyping DEF Capture, Go, TypeOK, Holding
<1>9. ASSUME NEW k \in Calls, RefuseFire(k) PROVE TypeOK'
  <2>1. request[k] \in Requests /\ request[k].op = "fire"
    BY <1>9 DEF RefuseFire, Go, IInv, Intent
  <2>2. FireError(request[k], local[k]) \in Errors
    BY DEF FireError, Errors
  <2>3. Refused(FireError(request[k], local[k])) \in ReplySpace
    BY <2>2, ReplyTyping
  <2>. QED
    BY <1>1, <1>9, <2>3 DEF RefuseFire, Go, TypeOK, Holding
<1>10. ASSUME NEW k \in Calls, Run(k) PROVE TypeOK'
  BY <1>1, <1>10 DEF Run, Go, TypeOK, Holding
<1>11. ASSUME NEW k \in Calls, ReturnFire(k) PROVE TypeOK'
  <2>1. FireResult(k) \in ReplySpace
    BY <1>1, ReplyTyping DEF FireResult, TypeOK, PublicationSpace
  <2>. QED
    BY <1>1, <1>11, <2>1 DEF ReturnFire, Go, TypeOK, Holding
<1>12. ASSUME NEW k \in Calls, Snapshot(k) PROVE TypeOK'
  <2>1. Answered(NoEngine, IF request[k].receiver = "nil" THEN NoIdentity
                           ELSE current.identity) \in ReplySpace
    BY <1>1, ReplyTyping DEF TypeOK, PublicationSpace
  <2>. QED
    BY <1>1, <1>12, <2>1 DEF Snapshot, Go, TypeOK, Holding
<1>13. CASE UNCHANGED vars
  BY <1>1, <1>13 DEF TypeOK, vars
<1>. QED
  BY <1>2, <1>3, <1>4, <1>5, <1>6, <1>7, <1>8, <1>9, <1>10, <1>11, <1>12, <1>13
     DEF Next, Proceed, Terminated

LEMMA ExclusionStep == IInv /\ [Next]_vars => Exclusion'
<1> SUFFICES ASSUME IInv, [Next]_vars PROVE Exclusion'
  OBVIOUS
<1>1. TypeOK /\ Exclusion /\ NoCall \notin Calls
  BY CallsAssumption DEF IInv, NoCall
<1>2. ASSUME NEW k \in Calls, Lock(k) PROVE Exclusion'
  BY <1>1, <1>2 DEF Lock, Go, TypeOK, Exclusion, Holding
<1>3. ASSUME NEW k \in Calls, Unlock(k) PROVE Exclusion'
  BY <1>1, <1>3 DEF Unlock, Go, TypeOK, Exclusion, Holding
<1>4. ASSUME NEW k \in Calls, LoadRevision(k) \/ Store(k) PROVE Exclusion'
  BY <1>1, <1>4 DEF LoadRevision, Store, Go, TypeOK, Exclusion, Holding
<1>5. ASSUME NEW k \in Calls,
             Begin(k) \/ RefusePublish(k) \/ Capture(k) \/ RefuseFire(k) \/ Run(k)
             \/ ReturnFire(k) \/ Snapshot(k)
      PROVE  Exclusion'
  BY <1>1, <1>5 DEF Begin, RefusePublish, Capture, RefuseFire, Run, ReturnFire, Snapshot,
                    Go, TypeOK, Exclusion, Holding
<1>6. CASE UNCHANGED vars
  BY <1>1, <1>6 DEF Exclusion, vars
<1>. QED
  BY <1>2, <1>3, <1>4, <1>5, <1>6 DEF Next, Proceed, Terminated

(* Steps that leave the pointer, the log and the publishers' plans alone. *)
LEMMA CountsKept ==
    ASSUME RevisionCounts, Unpublished, UNCHANGED <<current, log>>,
           \A k \in Calls : pc'[k] = "store" => pc[k] = "store" /\ local'[k] = local[k]
    PROVE  RevisionCounts' /\ Unpublished'
  BY DEF RevisionCounts, Unpublished

LEMMA CountStep == IInv /\ [Next]_vars => RevisionCounts' /\ Unpublished'
<1> SUFFICES ASSUME IInv, [Next]_vars PROVE RevisionCounts' /\ Unpublished'
  OBVIOUS
<1>1. TypeOK /\ Exclusion /\ RevisionCounts /\ Intent /\ Unpublished
  BY DEF IInv
<1>2. ASSUME NEW k \in Calls, LoadRevision(k) PROVE RevisionCounts' /\ Unpublished'
  <2>1. /\ UNCHANGED <<current, log>> /\ Len(log) \in 0 .. MaxRevision
        /\ current.identity.revision = Len(log)
    BY <1>1, <1>2 DEF LoadRevision, TypeOK, PublicationSpace, IdentitySpace, RevisionCounts
  <2>2. ASSUME pc'[k] = "store"
        PROVE  local'[k].identity.revision = Len(log) + 1 /\ Len(log) < MaxRevision
    <3>1. Len(log) # MaxRevision
      BY <1>1, <1>2, <2>1, <2>2 DEF LoadRevision, Go, TypeOK, Exhausted
    <3>2. Len(log) + 1 \in 0 .. MaxRevision /\ Successor(Len(log)) = Len(log) + 1
      BY <2>1, <3>1, RevisionAssumption DEF Successor
    <3>3. local'[k].identity.revision = Successor(Len(log))
      BY <1>1, <1>2, <2>1, <2>2 DEF LoadRevision, Go, TypeOK
    <3>. QED
      BY <2>1, <3>1, <3>2, <3>3, RevisionAssumption
  <2>3. \A j \in Calls : j # k => pc'[j] = pc[j] /\ local'[j] = local[j]
    BY <1>1, <1>2 DEF LoadRevision, Go, TypeOK
  <2>. QED
    BY <1>1, <2>1, <2>2, <2>3 DEF RevisionCounts, Unpublished
<1>3. ASSUME NEW k \in Calls, Store(k) PROVE RevisionCounts' /\ Unpublished'
  <2>1. /\ pc[k] = "store" /\ pc'[k] = "unlock" /\ local' = local
        /\ current' = local[k] /\ log' = Append(log, local[k].engine)
        /\ log \in Seq(Engines) /\ local[k].engine \in Engines
        /\ local[k].identity.version = local[k].engine
        /\ local[k].identity.revision = Len(log) + 1
    BY <1>1, <1>3 DEF Store, Go, TypeOK, Intent, Holding, RevisionCounts
  <2>2. \A j \in Calls : pc'[j] # "store"
    BY <1>1, <1>3, <2>1 DEF Store, Go, TypeOK, Exclusion, Holding
  <2>3. /\ Len(log') = Len(log) + 1 /\ log'[Len(log')] = local[k].engine /\ log' # <<>>
    BY <2>1
  <2>. QED
    BY <2>1, <2>2, <2>3 DEF RevisionCounts, Unpublished
<1>4. ASSUME NEW k \in Calls,
             Begin(k) \/ RefusePublish(k) \/ Lock(k) \/ Unlock(k) \/ Capture(k)
             \/ RefuseFire(k) \/ Run(k) \/ ReturnFire(k) \/ Snapshot(k)
      PROVE  RevisionCounts' /\ Unpublished'
  <2>1. /\ UNCHANGED <<current, log>>
        /\ \A j \in Calls : pc'[j] = "store" => pc[j] = "store" /\ local'[j] = local[j]
    BY <1>1, <1>4 DEF Begin, RefusePublish, Lock, Unlock, Capture, RefuseFire, Run,
                      ReturnFire, Snapshot, Go, TypeOK
  <2>. QED
    BY <1>1, <2>1, CountsKept
<1>5. CASE UNCHANGED vars
  BY <1>1, <1>5, CountsKept DEF vars
<1>. QED
  BY <1>2, <1>3, <1>4, <1>5 DEF Next, Proceed, Terminated

LEMMA IntentStep == IInv /\ [Next]_vars => Intent'
<1> SUFFICES ASSUME IInv, [Next]_vars PROVE Intent'
  OBVIOUS
<1>1. TypeOK /\ Intent
  BY DEF IInv
<1>. USE DEF Go, Holding
<1>2. ASSUME NEW k \in Calls, Begin(k) PROVE Intent'
  BY <1>1, <1>2 DEF Begin, TypeOK, Intent
<1>3. ASSUME NEW k \in Calls, RefusePublish(k) \/ Unlock(k) \/ RefuseFire(k)
                              \/ ReturnFire(k) \/ Snapshot(k) \/ Store(k)
      PROVE  Intent'
  BY <1>1, <1>3 DEF RefusePublish, Unlock, RefuseFire, ReturnFire, Snapshot, Store,
                    TypeOK, Intent
<1>4. ASSUME NEW k \in Calls, Lock(k) PROVE Intent'
  <2>1. request[k].engine \in Engines
    BY <1>1, <1>4, RequestFacts DEF Lock, Intent, PublishError
  <2>. QED
    BY <1>1, <1>4, <2>1 DEF Lock, TypeOK, Intent
<1>5. ASSUME NEW k \in Calls, LoadRevision(k) PROVE Intent'
  BY <1>1, <1>5 DEF LoadRevision, TypeOK, Intent
<1>6. ASSUME NEW k \in Calls, Capture(k) PROVE Intent'
  BY <1>1, <1>6 DEF Capture, TypeOK, Intent
<1>7. ASSUME NEW k \in Calls, Run(k) PROVE Intent'
  BY <1>1, <1>7 DEF Run, TypeOK, Intent
<1>8. CASE UNCHANGED vars
  BY <1>1, <1>8 DEF Intent, vars
<1>. QED
  BY <1>2, <1>3, <1>4, <1>5, <1>6, <1>7, <1>8 DEF Next, Proceed, Terminated

THEOREM Invariance == Spec => []IInv
<1>1. IInv /\ [Next]_vars => IInv'
  BY TypeStep, ExclusionStep, CountStep, IntentStep DEF IInv
<1>. QED
  BY InitInv, <1>1, PTL DEF Spec

(* publishMu is held exactly between Lock and Unlock (Exclusion).          *)
THEOREM MutualExclusion == Spec => []Exclusion
<1>1. IInv => Exclusion
  BY DEF IInv
<1>. QED
  BY <1>1, Invariance, PTL

(* Revisions count the stores and never wrap, at any width and with any    *)
(* number of publishers and readers (RevisionCounts).                      *)
THEOREM RevisionsNeverWrap == Spec => []RevisionCounts
<1>1. IInv => RevisionCounts
  BY DEF IInv
<1>. QED
  BY <1>1, Invariance, PTL
-----------------------------------------------------------------------------
(* The refinement.  What is visible through the pointer is the newest      *)
(* entry of the log.                                                       *)
LEMMA Visible ==
    ASSUME IInv
    PROVE  /\ Log!Newest = current.identity
           /\ Log!Newest.version = current.engine
           /\ (current.engine = NoEngine) = (log = <<>>)
<1>1. /\ log \in Seq(Engines) /\ current \in PublicationSpace
      /\ current.identity.revision = Len(log)
  BY DEF IInv, TypeOK, RevisionCounts
<1>2. CASE log = <<>>
  BY <1>2 DEF IInv, Unpublished, Log!Newest, Log!NoIdentity, NoPublication, NoIdentity
<1>3. CASE log # <<>>
  <2>1. /\ log[Len(log)] \in Engines /\ current.engine = log[Len(log)]
        /\ current.identity.version = log[Len(log)]
    BY <1>1, <1>3 DEF IInv, RevisionCounts
  <2>2. current.identity = [version |-> log[Len(log)], revision |-> Len(log)]
    BY <1>1, <2>1 DEF PublicationSpace, IdentitySpace
  <2>. QED
    BY <1>3, <2>1, <2>2, EnginesAssumption DEF Log!Newest
<1>. QED
  BY <1>2, <1>3

LEMMA InitRefines == Init => Log!Init
<1> SUFFICES ASSUME Init PROVE Log!Init
  OBVIOUS
<1>1. Phase = [k \in Calls |-> "idle"]
  BY DEF Init, Phase
<1>2. Reply = [k \in Calls |-> Refused("nil")]
  BY DEF Init, Reply, Settles
<1>. QED
  BY <1>1, <1>2 DEF Init, Log!Init, Refused, Log!Refused, NoIdentity, Log!NoIdentity,
                    NoRequest, Log!NoRequest

(* A call that takes effect changes its own phase and reply, and no other. *)
LEMMA TakesEffect ==
    ASSUME NEW k \in Calls, NEW r, IInv,
           pc[k] \in {"begun", "locked", "store"},
           pc'[k] \in {"unlock", "captured", "returned"},
           \A j \in Calls : j # k => pc'[j] = pc[j] /\ local'[j] = local[j] /\ reply'[j] = reply[j],
           request' = request, parent' = parent,
           Settles(k)' = r
    PROVE  Log!Answer(k, r)
<1>1. Phase[k] = "open" /\ Phase' = [Phase EXCEPT ![k] = "answered"]
  BY DEF Phase
<1>2. Reply' = [Reply EXCEPT ![k] = r]
  <2>1. ASSUME NEW j \in Calls, j # k PROVE Settles(j)' = Settles(j)
    BY <2>1 DEF Settles, FireError, Refused, Answered
  <2>2. /\ Reply = [j \in Calls |-> Settles(j)]
        /\ Reply' = [j \in Calls |-> Settles(j)']
    BY DEF Reply
  <2>. QED
    BY <2>1, <2>2
<1>. QED
  BY <1>1, <1>2 DEF Log!Answer

(* A call that does not take effect in this step looks the same as before. *)
LEMMA Unseen ==
    ASSUME NEW k \in Calls, IInv,
           \A j \in Calls : j # k => pc'[j] = pc[j] /\ local'[j] = local[j] /\ reply'[j] = reply[j],
           UNCHANGED <<request, parent, log>>,
           \/ {pc[k], pc'[k]} \subseteq {"begun", "locked", "store"}
           \/ {pc[k], pc'[k]} \subseteq {"unlock", "captured", "running", "returned"},
           Settles(k)' = Settles(k)
    PROVE  UNCHANGED Log!vars
<1>1. Phase' = Phase
  BY DEF Phase
<1>2. Reply' = Reply
  <2>1. ASSUME NEW j \in Calls PROVE Settles(j)' = Settles(j)
    <3>1. CASE j = k
      BY <3>1
    <3>2. CASE j # k
      BY <2>1, <3>2 DEF Settles, FireError, Refused, Answered
    <3>. QED
      BY <3>1, <3>2
  <2>2. /\ Reply = [j \in Calls |-> Settles(j)]
        /\ Reply' = [j \in Calls |-> Settles(j)']
    BY DEF Reply
  <2>. QED
    BY <2>1, <2>2
<1>. QED
  BY <1>1, <1>2 DEF Log!vars

LEMMA StepRefines == IInv /\ [Next]_vars => [Log!Next]_(Log!vars)
<1> SUFFICES ASSUME IInv, [Next]_vars PROVE Log!Next \/ UNCHANGED Log!vars
  OBVIOUS
<1>1. TypeOK /\ Intent /\ RevisionCounts
  BY DEF IInv
<1>. USE DEF Go, Refused, Answered, NoIdentity, Log!Refused, Log!Answered, Log!NoIdentity
<1>2. ASSUME NEW k \in Calls, Begin(k) PROVE Log!Next
  <2>1. Phase[k] = "idle" /\ Phase' = [Phase EXCEPT ![k] = "open"]
    BY <1>1, <1>2 DEF Begin, Phase, TypeOK
  <2>2. Reply' = Reply
    BY <1>1, <1>2 DEF Begin, Reply, Settles, TypeOK
  <2>3. \E p \in Calls \cup {NoCall} : parent' = [parent EXCEPT ![k] = p]
    <3>1. CASE UNCHANGED parent
      <4>1. parent' = [parent EXCEPT ![k] = parent[k]] /\ parent[k] \in Calls \cup {NoCall}
        BY <1>1, <3>1 DEF TypeOK
      <4>. QED
        BY <4>1
    <3>. QED
      BY <1>2, <3>1 DEF Begin
  <2>4. \E q \in Requests : request' = [request EXCEPT ![k] = q]
    BY <1>2 DEF Begin
  <2>5. log' = log
    BY <1>2 DEF Begin
  <2>6. Log!Begin(k)
    BY <2>1, <2>2, <2>3, <2>4, <2>5 DEF Log!Begin, NoCall
  <2>. QED
    BY <2>6 DEF Log!Next
<1>3. ASSUME NEW k \in Calls, RefusePublish(k) PROVE Log!Next
  <2>1. Log!Answer(k, Refused(PublishError(request[k])))
    BY <1>1, <1>3, TakesEffect DEF RefusePublish, TypeOK, Settles
  <2>2. Log!Publish(k)
    BY <1>3, <2>1 DEF RefusePublish, PublishError, Log!Publish
  <2>. QED
    BY <2>2 DEF Log!Next
<1>4. ASSUME NEW k \in Calls, Lock(k) PROVE UNCHANGED Log!vars
  BY <1>1, <1>4, Unseen DEF Lock, TypeOK, Settles
<1>5. ASSUME NEW k \in Calls, LoadRevision(k) PROVE Log!Next \/ UNCHANGED Log!vars
  <2>1. /\ pc[k] = "locked" /\ request[k].op = "publish"
        /\ request[k].receiver # "nil" /\ request[k].engine # NoEngine
    BY <1>1, <1>5 DEF LoadRevision, Intent, Holding, PublishError
  <2>2. CASE Exhausted(current.identity.revision)
    <3>1. Log!Answer(k, Refused("exhausted"))
      BY <1>1, <1>5, <2>2, TakesEffect DEF LoadRevision, TypeOK, Settles
    <3>2. Len(log) = MaxRevision /\ log' = log
      BY <1>1, <1>5, <2>2 DEF LoadRevision, RevisionCounts, Exhausted
    <3>3. Log!Publish(k)
      BY <2>1, <3>1, <3>2 DEF Log!Publish
    <3>. QED
      BY <3>3 DEF Log!Next
  <2>3. CASE ~Exhausted(current.identity.revision)
    BY <1>1, <1>5, <2>3, Unseen DEF LoadRevision, TypeOK, Settles
  <2>. QED
    BY <2>2, <2>3
<1>6. ASSUME NEW k \in Calls, Store(k) PROVE Log!Next
  <2>1. /\ pc[k] = "store" /\ request[k].op = "publish"
        /\ request[k].receiver # "nil" /\ request[k].engine # NoEngine
        /\ local[k].engine = request[k].engine
        /\ local[k].identity.version = request[k].engine
        /\ local[k].identity.revision = Len(log) + 1 /\ Len(log) < MaxRevision
    BY <1>1, <1>6 DEF Store, Intent, Holding, PublishError, RevisionCounts
  <2>2. local[k] \in PublicationSpace /\ log \in Seq(Engines)
    BY <1>1 DEF TypeOK
  <2>3. local[k].identity = [version |-> request[k].engine, revision |-> Len(log) + 1]
    BY <2>1, <2>2 DEF PublicationSpace, IdentitySpace
  <2>4. Log!Answer(k, Answered(local[k].engine, local[k].identity))
    BY <1>1, <1>6, TakesEffect DEF Store, TypeOK, Settles
  <2>5. log' = Append(log, request[k].engine) /\ Len(log') = Len(log) + 1
    <3>1. request[k].engine \in Engines
      BY <1>1, <2>1 DEF Intent, Holding
    <3>. QED
      BY <1>6, <2>1, <2>2, <3>1 DEF Store
  <2>6. Log!Publish(k)
    BY <2>1, <2>3, <2>4, <2>5 DEF Log!Publish
  <2>. QED
    BY <2>6 DEF Log!Next
<1>7. ASSUME NEW k \in Calls, Unlock(k) PROVE UNCHANGED Log!vars
  BY <1>1, <1>7, Unseen DEF Unlock, TypeOK, Settles
<1>8. ASSUME NEW k \in Calls, Capture(k) PROVE Log!Next
  <2>1. /\ request[k].op = "fire" /\ log' = log /\ request[k] \in RequestSpace
    BY <1>1, <1>8, RequestsAssumption DEF Capture, Intent
  <2>2. request[k].given \in {"valid", "nil context", "nil input", "invalid options"}
    BY <2>1 DEF RequestSpace
  <2>3. PICK c : /\ c = IF request[k].receiver = "nil" THEN NoPublication ELSE current
                 /\ local'[k] = c
    BY <1>1, <1>8 DEF Capture, TypeOK
  <2>4. Log!Answer(k, IF FireError(request[k], c) # "nil" THEN Refused(FireError(request[k], c))
                      ELSE Answered(c.engine, c.identity))
    BY <1>1, <1>8, <2>3, TakesEffect DEF Capture, TypeOK, Settles
  <2>5. (c.engine = NoEngine) = (request[k].receiver = "nil" \/ log = <<>>)
    BY <2>3, Visible DEF NoPublication
  <2>6. c.engine # NoEngine => c.identity = Log!Newest /\ c.engine = Log!Newest.version
    BY <2>3, Visible DEF NoPublication
  <2>7. Log!Fire(k)
    BY <2>1, <2>2, <2>4, <2>5, <2>6 DEF Log!Fire, FireError
  <2>. QED
    BY <2>7 DEF Log!Next
<1>9. ASSUME NEW k \in Calls, RefuseFire(k) \/ Run(k) \/ ReturnFire(k)
      PROVE  UNCHANGED Log!vars
  <2>1. Settles(k)' = Settles(k)
    BY <1>1, <1>9 DEF RefuseFire, Run, ReturnFire, FireResult, TypeOK, Settles, Intent
  <2>. QED
    BY <1>1, <1>9, <2>1, Unseen DEF RefuseFire, Run, ReturnFire, TypeOK
<1>10. ASSUME NEW k \in Calls, Snapshot(k) PROVE Log!Next
  <2>1. Log!Answer(k, Answered(NoEngine, IF request[k].receiver = "nil" THEN NoIdentity
                                         ELSE current.identity))
    BY <1>1, <1>10, TakesEffect DEF Snapshot, TypeOK, Settles
  <2>2. Log!Snapshot(k)
    BY <1>10, <2>1, Visible DEF Snapshot, Log!Snapshot
  <2>. QED
    BY <2>2 DEF Log!Next
<1>11. CASE UNCHANGED vars
  BY <1>11 DEF vars, Log!vars, Phase, Reply, Settles
<1>. QED
  BY <1>2, <1>3, <1>4, <1>5, <1>6, <1>7, <1>8, <1>9, <1>10, <1>11
     DEF Next, Proceed, Terminated

(* Runtime implements the atomic log of publications (ImplementsLog).      *)
THEOREM RuntimeImplementsLog == Spec => ImplementsLog
  BY InitRefines, StepRefines, Invariance, PTL DEF Spec, ImplementsLog, Log!Spec
=============================================================================
