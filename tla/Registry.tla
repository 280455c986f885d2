------------------------------- MODULE Registry -------------------------------
(***************************************************************************)
(* Package dynamic: a registry of typed actions that goroutines register,  *)
(* freeze and compile with (dynamic/registry.go), and the compilation of   *)
(* definitions into rules (dynamic/definition.go).                         *)
(*                                                                         *)
(* A call's steps are its locked sections and, between them, its calls to  *)
(* code it does not own: the CEL compiler and the validators.  What may    *)
(* change while a compilation runs or after it is the caller's definitions *)
(* and any value that a validator was shown.                               *)
(*                                                                         *)
(* Parameters are what decoding and validation make of them.  A decoded    *)
(* value is a cell of its own, so that sharing it shows.  The source of a  *)
(* compile-JSON is strict or has a fault that checkJSON or Unmarshal finds *)
(* in it; without one its definitions are what it decodes to.              *)
(***************************************************************************)
EXTENDS Integers, Sequences, FiniteSets

CONSTANTS
    Calls,       \* the calls that are made, numbered as they begin
    Requests,    \* what a call may ask
    Names,       \* well-formed action names
    MaxActions,      \* 256 in the code
    MaxDefinitions   \* 256 in the code

ParamSpace == {"valid", "other", "undecodable", "refused", "panicking"}
DefinitionSpace ==
    [id : {"sound", "faulty"}, fields : {"sound", "faulty"}, when : {"sound", "faulty"},
     action : Names, params : ParamSpace]
Receivers == {"registry", "nil"}
RequestSpace ==
    [op : {"register"}, receiver : Receivers, name : Names,
     form : {"sound", "invalid", "bad-schema"}, validator : BOOLEAN]
    \cup [op : {"freeze"}, receiver : Receivers]
    \cup [op : {"compile", "compile-JSON"}, receiver : Receivers, source : {"strict", "faulty"},
          definitions : Seq(DefinitionSpace), compiler : {"sound", "nil"}]

ASSUME CallsAssumption == Calls \subseteq Nat \ {0}
ASSUME RequestsAssumption == Requests \subseteq RequestSpace
ASSUME ActionsAssumption == MaxActions \in Nat /\ IsFiniteSet(Names)
ASSUME DefinitionsAssumption == MaxDefinitions \in Nat

VARIABLES
    frozen, actions,   \* registryState, shared by all copies of the registry
    request, pc, reply,
    dto,               \* the definitions in the caller's hands
    owned,             \* those that the compilation works on
    index,             \* the definition that comes next
    cells,             \* the parameter values decoded so far
    rules,             \* of each compilation: the cells its actions hold
    accepted,          \* history: the registrations that succeeded
    validated          \* history: the validators a compilation has run

registry == <<frozen, actions>>
work == <<dto, owned, index, cells, rules>>
history == <<accepted, validated>>
vars == <<registry, request, pc, reply, work, history>>

NoRequest == [op |-> "none"]
NoAction == [by |-> 0, validator |-> FALSE]
Nil == [stage |-> "none", index |-> -1, err |-> "nil"]
Failure(stage, i, err) == [stage |-> stage, index |-> i, err |-> err]
Refused(err) == Failure("none", -1, err)

Registered == {n \in Names : actions[n] # NoAction}
Here(k) == owned[k][index[k] + 1]

Init ==
    /\ frozen = FALSE
    /\ actions = [n \in Names |-> NoAction]
    /\ request = [k \in Calls |-> NoRequest]
    /\ pc = [k \in Calls |-> "idle"]
    /\ reply = [k \in Calls |-> Nil]
    /\ dto = [k \in Calls |-> <<>>] /\ owned = [k \in Calls |-> <<>>]
    /\ index = [k \in Calls |-> 0]
    /\ cells = <<>>
    /\ rules = [k \in Calls |-> <<>>]
    /\ accepted = {}
    /\ validated = [k \in Calls |-> 0]

Go(k, from, to) == pc[k] = from /\ pc' = [pc EXCEPT ![k] = to]
Return(k, from, r) == Go(k, from, "returned") /\ reply' = [reply EXCEPT ![k] = r]

Begin(k) ==
    /\ Go(k, "idle", "begun")
    /\ \A j \in Calls : j < k => pc[j] # "idle"
    /\ \E q \in Requests : request' = [request EXCEPT ![k] = q]
    /\ dto' = [dto EXCEPT ![k] =
                  IF request'[k].op \in {"compile", "compile-JSON"}
                  THEN request'[k].definitions ELSE <<>>]
    /\ UNCHANGED <<registry, reply, owned, index, cells, rules, history>>

-----------------------------------------------------------------------------
(* Register, whole under the mutex; its checks in order. *)
RegisterError_NoDuplicates(q) ==
    IF q.receiver = "nil" THEN "invalid-registry"
    ELSE IF frozen THEN "frozen"
    ELSE IF q.form = "invalid" THEN "invalid-action"
    ELSE IF Cardinality(Registered) >= MaxActions THEN "limit"
    ELSE IF q.form = "bad-schema" THEN "invalid-action"
    ELSE "nil"

RegisterError_AfterFreeze(q) ==
    IF q.receiver = "nil" THEN "invalid-registry"
    ELSE IF q.form = "invalid" THEN "invalid-action"
    ELSE IF q.name \in Registered THEN "duplicate"
    ELSE IF Cardinality(Registered) >= MaxActions THEN "limit"
    ELSE IF q.form = "bad-schema" THEN "invalid-action"
    ELSE "nil"

RegisterError(q) ==
    IF q.receiver = "nil" THEN "invalid-registry"
    ELSE IF frozen THEN "frozen"
    ELSE IF q.form = "invalid" THEN "invalid-action"
    ELSE IF q.name \in Registered THEN "duplicate"
    ELSE IF Cardinality(Registered) >= MaxActions THEN "limit"
    ELSE IF q.form = "bad-schema" THEN "invalid-action"
    ELSE "nil"

Register(k) ==
    LET q == request[k]
        error == RegisterError(q)
    IN  /\ q.op = "register"
        /\ Return(k, "begun", Refused(error))
        /\ IF error = "nil"
           THEN /\ actions' = [actions EXCEPT ![q.name] = [by |-> k, validator |-> q.validator]]
                /\ accepted' = accepted \cup {k}
           ELSE UNCHANGED <<actions, accepted>>
        /\ UNCHANGED <<frozen, request, work, validated>>

Freeze(k) ==
    /\ request[k].op = "freeze"
    /\ Return(k, "begun", Refused(IF request[k].receiver = "nil"
                                  THEN "invalid-registry" ELSE "nil"))
    /\ frozen' = (frozen \/ request[k].receiver # "nil")
    /\ UNCHANGED <<actions, request, work, history>>

-----------------------------------------------------------------------------
(* snapshot: under the read lock, but the map it hands out is the shared   *)
(* one, read later without a lock.                                         *)
SnapshotError(q) ==
    IF q.receiver = "nil" THEN "invalid-registry"
    ELSE IF ~frozen THEN "not-frozen"
    ELSE "nil"

Snapshot(k) ==
    LET error == SnapshotError(request[k])
    IN  /\ request[k].op \in {"compile", "compile-JSON"}
        /\ IF error # "nil" THEN Return(k, "begun", Refused(error))
           ELSE Go(k, "begun", "validate") /\ UNCHANGED reply
        /\ UNCHANGED <<registry, request, work, history>>

(* validateDefinitions: too many definitions are refused unseen, the first *)
(* one with faulty fields stops it, identities come last.                  *)
Places(defs) == 0 .. Len(defs) - 1
FirstOf(places) == CHOOSE i \in places : \A j \in places : i <= j
Faulty(defs, part) == {i \in Places(defs) : defs[i + 1][part] = "faulty"}

ValidationFailure_IDsFirst(defs) ==
    IF Len(defs) > MaxDefinitions THEN Failure("validate", -1, "limit")
    ELSE IF Faulty(defs, "id") # {} THEN Failure("validate", -1, "validation")
    ELSE IF Faulty(defs, "fields") # {}
    THEN Failure("validate", FirstOf(Faulty(defs, "fields")), "invalid-definition")
    ELSE Nil

ValidationFailure(defs) ==
    IF Len(defs) > MaxDefinitions THEN Failure("validate", -1, "limit")
    ELSE IF Faulty(defs, "fields") # {}
    THEN Failure("validate", FirstOf(Faulty(defs, "fields")), "invalid-definition")
    ELSE IF Faulty(defs, "id") # {} THEN Failure("validate", -1, "validation")
    ELSE Nil

(* Decode validates what it decoded; Compile and CompileRules validate     *)
(* what they were given, and copy it.                                      *)
SourceFaulty(k) == request[k].op = "compile-JSON" /\ request[k].source = "faulty"

InputFailure(k) ==
    IF SourceFaulty(k) THEN Failure("decode", -1, "invalid-definition")
    ELSE ValidationFailure(dto[k])

Validate(k) ==
    LET failure == InputFailure(k)
    IN  /\ IF failure # Nil
           THEN Return(k, "validate", failure) /\ UNCHANGED owned
           ELSE /\ Go(k, "validate", "conditions") /\ UNCHANGED reply
                /\ owned' = [owned EXCEPT ![k] = dto[k]]
        /\ UNCHANGED <<registry, request, dto, index, cells, rules, history>>

CompileCondition(k) ==
    LET nil == request[k].compiler = "nil"
        last == index[k] + 1 >= Len(owned[k])
        at == IF owned[k] = <<>> THEN -1 ELSE index[k]
    IN  /\ pc[k] = "conditions"
        /\ IF nil \/ (owned[k] # <<>> /\ Here(k).when = "faulty")
           THEN /\ Return(k, "conditions", Failure("condition", at, "cel"))
                /\ UNCHANGED index
           ELSE /\ Go(k, "conditions", IF last THEN "actions" ELSE "conditions")
                /\ index' = [index EXCEPT ![k] = IF last THEN 0 ELSE @ + 1]
                /\ UNCHANGED reply
        /\ UNCHANGED <<registry, request, dto, owned, cells, rules, history>>

-----------------------------------------------------------------------------
(* A factory: decode, validate what was decoded, decode once more. *)
RawParams(k) == Here(k).params
Decoded(k, retained) ==
    [value |-> RawParams(k), retained |-> retained]

ResolveAction(k) ==
    LET action == actions[Here(k).action]
        fails(err) == Return(k, "actions", Failure("action", index[k], err))
                      /\ UNCHANGED <<cells, rules, index>>
    IN  /\ pc[k] = "actions" /\ index[k] < Len(owned[k])
        /\ \/ action = NoAction /\ fails("unknown-action")
           \/ action # NoAction /\ RawParams(k) = "undecodable" /\ fails("invalid-params")
           \/ /\ action # NoAction /\ RawParams(k) # "undecodable" /\ action.validator
              /\ Go(k, "actions", "validator")
              /\ cells' = Append(cells, Decoded(k, TRUE))
              /\ rules' = [rules EXCEPT ![k] = Append(@, Len(cells'))]
              /\ UNCHANGED <<reply, index>>
           \/ /\ action # NoAction /\ RawParams(k) # "undecodable" /\ ~action.validator
              /\ cells' = Append(cells, Decoded(k, FALSE))
              /\ rules' = [rules EXCEPT ![k] = Append(@, Len(cells'))]
              /\ index' = [index EXCEPT ![k] = @ + 1]
              /\ UNCHANGED <<pc, reply>>
        /\ UNCHANGED <<registry, request, dto, owned, history>>

(* The value decoded last becomes the one the action holds. *)
Executing_Validated(k) == UNCHANGED <<cells, rules>>
Executing(k) ==
    /\ cells' = Append(cells, Decoded(k, FALSE))
    /\ rules' = [rules EXCEPT ![k] = [@ EXCEPT ![Len(@)] = Len(cells')]]

(* The validator returns or panics; a panic passes through the compilation. *)
RunValidator(k) ==
    LET shown == cells[rules[k][Len(rules[k])]].value
    IN  /\ pc[k] = "validator"
        /\ validated' = [validated EXCEPT ![k] = @ + 1]
        /\ \/ /\ shown = "panicking"
              /\ Return(k, "validator", Refused("panic"))
              /\ UNCHANGED <<cells, rules, index>>
           \/ /\ shown = "refused"
              /\ Return(k, "validator", Failure("action", index[k], "invalid-params"))
              /\ UNCHANGED <<cells, rules, index>>
           \/ /\ shown \notin {"panicking", "refused"}
              /\ Go(k, "validator", "actions")
              /\ Executing(k)
              /\ index' = [index EXCEPT ![k] = @ + 1]
              /\ UNCHANGED reply
        /\ UNCHANGED <<registry, request, dto, owned, accepted>>

(* The rules are complete; rulite.Compile accepts identities that          *)
(* validateDefinitions accepted.                                           *)
CompleteRules(k) ==
    /\ index[k] = Len(owned[k])
    /\ Return(k, "actions", Nil)
    /\ UNCHANGED <<registry, request, work, history>>

-----------------------------------------------------------------------------
(* The caller edits its definitions, once they have been copied.  The      *)
(* definitions of a JSON document are nobody else's.                       *)
CallerEdits(k, i) ==
    /\ request[k].op = "compile" /\ pc[k] \notin {"begun", "validate"}
    /\ i \in DOMAIN dto[k] /\ dto[k][i].params # "other"
    /\ dto' = [dto EXCEPT ![k][i].params = "other"]
    /\ UNCHANGED <<registry, request, pc, reply, owned, index, cells, rules, history>>

(* A validator kept a value it was shown and edits it later. *)
RetainedEdit(c) ==
    /\ cells[c].retained /\ cells[c].value # "other"
    /\ \A k \in Calls : pc[k] = "validator" => rules[k][Len(rules[k])] # c
    /\ cells' = [cells EXCEPT ![c].value = "other"]
    /\ UNCHANGED <<registry, request, pc, reply, dto, owned, index, rules, history>>

Proceed(k) ==
    \/ Register(k) \/ Freeze(k)
    \/ Snapshot(k) \/ Validate(k) \/ CompileCondition(k)
    \/ ResolveAction(k) \/ RunValidator(k) \/ CompleteRules(k)

Terminated == (\A k \in Calls : pc[k] = "returned") /\ UNCHANGED vars

Next ==
    \/ \E k \in Calls : Begin(k) \/ Proceed(k) \/ \E i \in DOMAIN dto[k] : CallerEdits(k, i)
    \/ \E c \in DOMAIN cells : RetainedEdit(c)
    \/ Terminated

Spec == Init /\ [][Next]_vars
-----------------------------------------------------------------------------
Compiling(k) == pc[k] \in {"validate", "conditions", "actions", "validator"}
Compiled(k) ==
    /\ request[k].op \in {"compile", "compile-JSON"}
    /\ pc[k] = "returned" /\ reply[k].err = "nil"

(* No compilation reads the shared map while another call writes it: the   *)
(* read after the unlock is safe only because a frozen registry takes no   *)
(* more registrations (dynamic/registry.go:23-25, 105-106).                *)
NoWriteWhileRead == [][(\E k \in Calls : Compiling(k)) => UNCHANGED actions]_vars

(* Whatever the interleaving, each successful registration owns one name   *)
(* for good, nothing else is in the registry, and the limit holds          *)
(* (dynamic/registry.go:38-41).                                            *)
RegistrationsHold ==
    /\ accepted = {actions[n].by : n \in Registered}
    /\ Cardinality(accepted) = Cardinality(Registered)
    /\ Cardinality(Registered) <= MaxActions

(* The values that the actions of a compiled set hold are the ones decoded *)
(* from the definitions as given, and stay so whatever validators kept and *)
(* callers edit (dynamic/definition.go:80-81, dynamic/registry.go:43-47).  *)
ParamsAreIsolated ==
    \A k \in Calls : Compiled(k) =>
        /\ Len(rules[k]) = Len(request[k].definitions)
        /\ \A i \in DOMAIN rules[k] :
              cells[rules[k][i]].value = request[k].definitions[i].params

(* One compilation's outcome: the first failure by phase, then by index.   *)
Expected(k) ==
    LET defs == request[k].definitions
        whens == {i \in Places(defs) : request[k].compiler = "nil"
                                       \/ defs[i + 1].when = "faulty"}
        unusable(d) == \/ d.action \notin Registered
                       \/ d.params = "undecodable"
                       \/ d.params \in {"refused", "panicking"} /\ actions[d.action].validator
        bad == {i \in Places(defs) : unusable(defs[i + 1])}
    IN  IF SourceFaulty(k) THEN <<"decode", -1>>
        ELSE IF Len(defs) > MaxDefinitions THEN <<"validate", -1>>
        ELSE IF Faulty(defs, "fields") # {} THEN <<"validate", FirstOf(Faulty(defs, "fields"))>>
        ELSE IF Faulty(defs, "id") # {} THEN <<"validate", -1>>
        ELSE IF defs = <<>> /\ request[k].compiler = "nil" THEN <<"condition", -1>>
        ELSE IF whens # {} THEN <<"condition", FirstOf(whens)>>
        ELSE IF bad # {} THEN <<"action", FirstOf(bad)>>
        ELSE <<"none", -1>>

(* A compilation fails with the first failure in the order of the phases,  *)
(* whatever happens around it: decoding, the length of the list, each      *)
(* definition, their identities, conditions, actions; and no validator     *)
(* runs before all conditions compiled (dynamic/definition.go:54-57,       *)
(* 75-79).                                                                 *)
FirstFailureWins ==
    \A k \in Calls : request[k].op \in {"compile", "compile-JSON"} =>
        /\ pc[k] = "returned" /\ reply[k].err \notin {"invalid-registry", "not-frozen"} =>
             IF reply[k].err = "panic"
             THEN Expected(k) = <<"action", index[k]>>
             ELSE Expected(k) = <<reply[k].stage, reply[k].index>>
        /\ validated[k] > 0 => Expected(k)[1] \in {"none", "action"}
=============================================================================
