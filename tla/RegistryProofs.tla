----------------------------- MODULE RegistryProofs -----------------------------
(***************************************************************************)
(* What holds of a registry for every number of calls, goroutines, names   *)
(* and definitions: no compilation reads the shared map while it is        *)
(* written, registrations hold, parameters stay isolated, and a            *)
(* compilation fails with its first failure.                               *)
(*                                                                         *)
(* They rest on one fact: a compilation runs only on a frozen registry,    *)
(* whose map no call changes any more.                                     *)
(***************************************************************************)
EXTENDS Registry, FiniteSetTheorems, WellFoundedInduction, SequenceTheorems, TLAPS

Points == {"idle", "begun", "validate", "conditions", "actions", "validator", "returned"}
CellSpace == [value : ParamSpace, retained : BOOLEAN]
Stages == {"none", "decode", "validate", "condition", "action"}
Errors == {"nil", "invalid-registry", "frozen", "invalid-action", "duplicate", "limit",
           "not-frozen", "validation", "invalid-definition", "cel", "unknown-action",
           "invalid-params", "panic"}
ReplySpace == [stage : Stages, index : Int, err : Errors]

TypeOK ==
    /\ frozen \in BOOLEAN
    /\ actions \in [Names -> [by : Nat, validator : BOOLEAN]]
    /\ request \in [Calls -> RequestSpace \cup {NoRequest}]
    /\ pc \in [Calls -> Points]
    /\ reply \in [Calls -> ReplySpace]
    /\ dto \in [Calls -> Seq(DefinitionSpace)]
    /\ owned \in [Calls -> Seq(DefinitionSpace)]
    /\ index \in [Calls -> Nat]
    /\ cells \in Seq(CellSpace)
    /\ rules \in [Calls -> Seq(Nat)]
    /\ accepted \subseteq Calls
    /\ validated \in [Calls -> Nat]

Asks(k) == request[k].op \in {"compile", "compile-JSON"}
Working(k) == pc[k] \in {"conditions", "actions", "validator"}

(* A request stands from its beginning, and the compilation works on what  *)
(* it was given.                                                           *)
Given(k) ==
    /\ pc[k] = "idle" <=> request[k] = NoRequest
    /\ Compiling(k) => Asks(k)
    /\ pc[k] \in {"begun", "validate"} /\ Asks(k) => dto[k] = request[k].definitions
    /\ Working(k) \/ Compiled(k) => owned[k] = request[k].definitions
    /\ pc[k] \in {"idle", "begun", "validate"} => index[k] = 0 /\ rules[k] = <<>>
    /\ pc[k] = "conditions" => rules[k] = <<>>

(* A compilation that saw the map saw it frozen. *)
SawFrozen(k) ==
    Compiling(k) \/ (pc[k] = "returned" /\ Asks(k)
                     /\ reply[k].err \notin {"invalid-registry", "not-frozen"}) => frozen

Registrations ==
    /\ RegistrationsHold /\ IsFiniteSet(accepted)
    /\ \A k \in accepted : pc[k] = "returned"

(* The cells that the rules of a compilation hold. *)
Isolated(k, i) ==
    /\ rules[k][i] \in 1 .. Len(cells)
    /\ cells[rules[k][i]] = [value |-> owned[k][i].params, retained |-> FALSE]

Held(k) ==
    /\ pc[k] = "actions" \/ Compiled(k) =>
         /\ Len(rules[k]) = index[k] /\ index[k] <= Len(owned[k])
         /\ \A i \in 1 .. index[k] : Isolated(k, i)
    /\ Compiled(k) => index[k] = Len(owned[k])
    /\ pc[k] = "validator" =>
         /\ Len(rules[k]) = index[k] + 1 /\ index[k] < Len(owned[k])
         /\ \A i \in 1 .. index[k] : Isolated(k, i)
         /\ rules[k][index[k] + 1] \in 1 .. Len(cells)
         /\ cells[rules[k][index[k] + 1]].value = owned[k][index[k] + 1].params

(* What a compilation has found in order when it gets that far. *)
WellFormed(k) ==
    /\ ~SourceFaulty(k) /\ ~(Len(request[k].definitions) > MaxDefinitions)
    /\ \A i \in 1 .. Len(request[k].definitions) :
          request[k].definitions[i].fields = "sound" /\ request[k].definitions[i].id = "sound"
Compiles(k, i) == request[k].compiler # "nil" /\ request[k].definitions[i].when = "sound"
AllCompile(k) ==
    /\ WellFormed(k) /\ request[k].compiler # "nil"
    /\ \A i \in 1 .. Len(request[k].definitions) : Compiles(k, i)

Usable(k, i) ==
    LET d == request[k].definitions[i]
    IN  /\ d.action \in Registered /\ d.params # "undecodable"
        /\ d.params \in {"refused", "panicking"} => ~actions[d.action].validator

Progress(k) ==
    /\ pc[k] = "conditions" =>
         /\ WellFormed(k) /\ \A i \in 1 .. index[k] : Compiles(k, i)
         /\ index[k] < Len(owned[k]) \/ (index[k] = 0 /\ owned[k] = <<>>)
    /\ pc[k] \in {"actions", "validator"} =>
         AllCompile(k) /\ \A i \in 1 .. index[k] : Usable(k, i)
    /\ pc[k] = "validator" =>
         LET d == owned[k][index[k] + 1]
         IN  d.action \in Registered /\ actions[d.action].validator /\ d.params # "undecodable"
    /\ validated[k] > 0 => Asks(k) /\ AllCompile(k)

Outcome(k) ==
    pc[k] = "returned" /\ Asks(k) /\ reply[k].err \notin {"invalid-registry", "not-frozen"} =>
      IF reply[k].err = "panic"
      THEN Expected(k) = <<"action", index[k]>>
      ELSE Expected(k) = <<reply[k].stage, reply[k].index>>

CallInv(k) == Given(k) /\ SawFrozen(k) /\ Held(k) /\ Progress(k) /\ Outcome(k)

RegistryInv == TypeOK /\ Registrations /\ \A k \in Calls : CallInv(k)
-----------------------------------------------------------------------------
(* Requests and definitions. *)

LEMMA RequestFacts ==
    ASSUME TypeOK, NEW k \in Calls
    PROVE  /\ Asks(k) => /\ request[k].definitions \in Seq(DefinitionSpace)
                         /\ Len(request[k].definitions) \in Nat
                         /\ request[k].compiler \in {"sound", "nil"}
                         /\ request[k].receiver \in Receivers
           /\ request[k].op = "register" =>
                /\ request[k].name \in Names /\ request[k].validator \in BOOLEAN
                /\ request[k].receiver \in Receivers
                /\ request[k].form \in {"sound", "invalid", "bad-schema"}
<1>1. PICK q : q = request[k]
  OBVIOUS
<1>2. q \in RequestSpace \cup {NoRequest}
  BY <1>1 DEF TypeOK
<1>3. CASE q \in [op : {"register"}, receiver : Receivers, name : Names,
                  form : {"sound", "invalid", "bad-schema"}, validator : BOOLEAN]
  BY <1>1, <1>3 DEF Asks
<1>4. CASE q \in [op : {"freeze"}, receiver : Receivers]
  BY <1>1, <1>4 DEF Asks
<1>5. CASE q \in [op : {"compile", "compile-JSON"}, receiver : Receivers,
                  source : {"strict", "faulty"}, definitions : Seq(DefinitionSpace), compiler : {"sound", "nil"}]
  <2>1. /\ q.definitions \in Seq(DefinitionSpace) /\ q.compiler \in {"sound", "nil"}
        /\ q.receiver \in Receivers /\ q.op \in {"compile", "compile-JSON"}
    BY <1>5
  <2>2. Len(q.definitions) \in Nat
    BY <2>1
  <2>. QED
    BY <1>1, <2>1, <2>2 DEF Asks
<1>6. CASE q = NoRequest
  BY <1>1, <1>6 DEF Asks, NoRequest
<1>. QED
  BY <1>2, <1>3, <1>4, <1>5, <1>6 DEF RequestSpace

LEMMA DefinitionFacts ==
    ASSUME NEW defs \in Seq(DefinitionSpace), NEW i \in 1 .. Len(defs)
    PROVE  /\ defs[i].id \in {"sound", "faulty"} /\ defs[i].fields \in {"sound", "faulty"}
           /\ defs[i].when \in {"sound", "faulty"} /\ defs[i].params \in ParamSpace
           /\ defs[i].action \in Names
<1>1. defs[i] \in DefinitionSpace
  BY ElementOfSeq
<1>. QED
  BY <1>1 DEF DefinitionSpace

(* FirstOf is the least of its places. *)
LEMMA FirstOfLeast ==
    ASSUME NEW S, S \subseteq Nat, NEW n \in S, \A m \in S : n <= m
    PROVE  FirstOf(S) = n
<1> DEFINE least == CHOOSE i \in S : \A j \in S : i <= j
<1>1. least \in S /\ \A j \in S : least <= j
  OBVIOUS
<1>2. FirstOf(S) = least
  BY DEF FirstOf
<1> HIDE DEF least
<1>3. least \in Nat /\ n \in Nat /\ least <= n /\ n <= least
  BY <1>1
<1>. QED
  BY <1>2, <1>3

LEMMA FirstOfMember ==
    ASSUME NEW S, S \subseteq Nat, S # {}
    PROVE  FirstOf(S) \in S
<1>1. PICK n \in S : \A m \in S : <<m, n>> \notin OpToRel(<, Nat)
  BY NatLessThanWellFounded, WFMin
<1>2. \A m \in S : ~(m < n)
  BY <1>1 DEF OpToRel
<1>3. \A m \in S : n <= m
  BY <1>2
<1>. QED
  BY <1>1, <1>3, FirstOfLeast

LEMMA FaultyFacts ==
    ASSUME NEW defs \in Seq(DefinitionSpace), NEW part
    PROVE  /\ Faulty(defs, part) \subseteq Nat
           /\ Faulty(defs, part) = {} <=> \A i \in 1 .. Len(defs) : defs[i][part] # "faulty"
<1>1. Len(defs) \in Nat
  OBVIOUS
<1>2. ASSUME Faulty(defs, part) = {}, NEW i \in 1 .. Len(defs) PROVE defs[i][part] # "faulty"
  <2>1. i - 1 \in Places(defs) /\ (i - 1) + 1 = i
    BY <1>1 DEF Places
  <2>. QED
    BY <1>2, <2>1 DEF Faulty
<1>3. ASSUME NEW i \in Places(defs) PROVE i + 1 \in 1 .. Len(defs) /\ i \in Nat
  BY <1>1 DEF Places
<1>. QED
  BY <1>2, <1>3 DEF Faulty

LEMMA WellFormedFacts ==
    ASSUME TypeOK, NEW k \in Calls, Asks(k)
    PROVE  WellFormed(k) <=> /\ ~SourceFaulty(k)
                             /\ ~(Len(request[k].definitions) > MaxDefinitions)
                             /\ Faulty(request[k].definitions, "fields") = {}
                             /\ Faulty(request[k].definitions, "id") = {}
<1>1. PICK defs : defs = request[k].definitions
  OBVIOUS
<1>2. /\ defs \in Seq(DefinitionSpace)
      /\ \A i \in 1 .. Len(defs) : /\ defs[i].fields \in {"sound", "faulty"}
                                   /\ defs[i].id \in {"sound", "faulty"}
  BY <1>1, RequestFacts, DefinitionFacts
<1>3. /\ Faulty(defs, "fields") = {} <=> \A i \in 1 .. Len(defs) : defs[i].fields # "faulty"
      /\ Faulty(defs, "id") = {} <=> \A i \in 1 .. Len(defs) : defs[i].id # "faulty"
  BY <1>2, FaultyFacts
<1>. QED
  BY <1>1, <1>2, <1>3 DEF WellFormed
-----------------------------------------------------------------------------
(* What a step does to the call that takes it. *)

LEMMA GoFacts ==
    ASSUME TypeOK, NEW k \in Calls, NEW from, NEW to, Go(k, from, to)
    PROVE  pc[k] = from /\ pc'[k] = to /\ \A j \in Calls : j # k => pc'[j] = pc[j]
  BY DEF TypeOK, Go

LEMMA ReturnFacts ==
    ASSUME TypeOK, NEW k \in Calls, NEW from, NEW r, Return(k, from, r)
    PROVE  /\ pc[k] = from /\ pc'[k] = "returned" /\ reply'[k] = r
           /\ \A j \in Calls : j # k => pc'[j] = pc[j] /\ reply'[j] = reply[j]
  BY GoFacts DEF TypeOK, Return

LEMMA ReplyTyping ==
    /\ Nil \in ReplySpace
    /\ \A err \in Errors : Refused(err) \in ReplySpace
    /\ \A stage \in Stages, i \in Int, err \in Errors : Failure(stage, i, err) \in ReplySpace
  BY DEF Nil, Refused, Failure, ReplySpace, Stages, Errors

LEMMA RegisterErrors == \A q : RegisterError(q) \in Errors
  BY DEF RegisterError, Errors

LEMMA ReturnTyping ==
    ASSUME TypeOK, NEW k \in Calls, NEW from, NEW r \in ReplySpace, Return(k, from, r)
    PROVE  pc' \in [Calls -> Points] /\ reply' \in [Calls -> ReplySpace]
  BY DEF TypeOK, Return, Go, Points

LEMMA ValidationTyping ==
    ASSUME NEW defs \in Seq(DefinitionSpace)
    PROVE  ValidationFailure(defs) \in ReplySpace
<1>1. Faulty(defs, "fields") # {} => FirstOf(Faulty(defs, "fields")) \in Nat
  BY FaultyFacts, FirstOfMember
<1>2. -1 \in Int /\ {"validation", "invalid-definition", "limit"} \subseteq Errors /\ "validate" \in Stages
  BY DEF Errors, Stages
<1>3. /\ Failure("validate", -1, "validation") \in ReplySpace
      /\ Failure("validate", -1, "limit") \in ReplySpace
      /\ Faulty(defs, "fields") # {} =>
           Failure("validate", FirstOf(Faulty(defs, "fields")), "invalid-definition")
             \in ReplySpace
  BY <1>1, <1>2, ReplyTyping
<1>. QED
  BY <1>3, ReplyTyping DEF ValidationFailure

LEMMA InputTyping ==
    ASSUME TypeOK, NEW k \in Calls
    PROVE  InputFailure(k) \in ReplySpace
<1>1. dto[k] \in Seq(DefinitionSpace)
  BY DEF TypeOK
<1>2. ValidationFailure(dto[k]) \in ReplySpace
  BY <1>1, ValidationTyping
<1>3. Failure("decode", -1, "invalid-definition") \in ReplySpace
  BY ReplyTyping DEF Stages, Errors
<1>. QED
  BY <1>2, <1>3 DEF InputFailure

LEMMA AppendFacts ==
    ASSUME NEW S, NEW s \in Seq(S), NEW e \in S
    PROVE  /\ Append(s, e) \in Seq(S) /\ Len(s) \in Nat /\ Len(Append(s, e)) = Len(s) + 1
           /\ Append(s, e)[Len(s) + 1] = e
           /\ \A i \in 1 .. Len(s) : Append(s, e)[i] = s[i]
  OBVIOUS

LEMMA DecodedFacts ==
    ASSUME TypeOK, NEW k \in Calls, index[k] < Len(owned[k]), NEW retained \in BOOLEAN
    PROVE  /\ index[k] + 1 \in 1 .. Len(owned[k]) /\ Here(k).action \in Names
           /\ Here(k).params \in ParamSpace
           /\ Decoded(k, retained) = [value |-> Here(k).params, retained |-> retained]
           /\ Decoded(k, retained) \in CellSpace
<1>1. owned[k] \in Seq(DefinitionSpace) /\ index[k] \in Nat
  BY DEF TypeOK
<1>2. index[k] + 1 \in 1 .. Len(owned[k])
  BY <1>1
<1>3. Here(k).params \in ParamSpace /\ Here(k).action \in Names
  BY <1>1, <1>2, DefinitionFacts DEF Here
<1>4. Decoded(k, retained) = [value |-> Here(k).params, retained |-> retained]
  BY DEF Decoded, RawParams
<1>. QED
  BY <1>2, <1>3, <1>4 DEF CellSpace

LEMMA RegisterEffect ==
    ASSUME TypeOK, NEW k \in Calls, Register(k), NEW error, error = RegisterError(request[k])
    PROVE  /\ pc[k] = "begun" /\ request[k].op = "register"
           /\ Return(k, "begun", Refused(error)) /\ error \in Errors
           /\ UNCHANGED <<frozen, request, work, validated>>
           /\ error # "nil" => actions' = actions /\ accepted' = accepted
           /\ error = "nil" =>
                /\ ~frozen /\ request[k].name \notin Registered
                /\ ~(Cardinality(Registered) >= MaxActions)
                /\ request[k].name \in Names /\ request[k].validator \in BOOLEAN
                /\ actions' = [actions EXCEPT ![request[k].name] =
                                  [by |-> k, validator |-> request[k].validator]]
                /\ accepted' = accepted \cup {k}
<1>1. /\ request[k].op = "register" /\ Return(k, "begun", Refused(error))
      /\ IF error = "nil"
         THEN /\ actions' = [actions EXCEPT ![request[k].name] =
                                [by |-> k, validator |-> request[k].validator]]
              /\ accepted' = accepted \cup {k}
         ELSE UNCHANGED <<actions, accepted>>
      /\ UNCHANGED <<frozen, request, work, validated>>
  BY DEF Register
<1>2. error = "nil" => /\ ~frozen /\ request[k].name \notin Registered
                       /\ ~(Cardinality(Registered) >= MaxActions)
  BY DEF RegisterError
<1>3. error \in Errors
  BY RegisterErrors
<1>. QED
  BY <1>1, <1>2, <1>3, RequestFacts, ReturnFacts

LEMMA ResolveEffect ==
    ASSUME TypeOK, NEW k \in Calls, ResolveAction(k),
           NEW d, d = Here(k), NEW a, a = actions[d.action]
    PROVE  /\ pc[k] = "actions" /\ index[k] < Len(owned[k]) /\ d.action \in Names
           /\ d.params \in ParamSpace /\ a.validator \in BOOLEAN
           /\ UNCHANGED <<registry, request, dto, owned, history>>
           /\ \/ \E err \in {"unknown-action", "invalid-params"} :
                    /\ Return(k, "actions", Failure("action", index[k], err))
                    /\ d.action \notin Registered \/ d.params = "undecodable"
                    /\ UNCHANGED <<cells, rules, index>>
              \/ /\ d.action \in Registered /\ d.params # "undecodable"
                 /\ cells' = Append(cells, [value |-> d.params, retained |-> a.validator])
                 /\ rules' = [rules EXCEPT ![k] = Append(@, Len(cells'))]
                 /\ reply' = reply
                 /\ \/ a.validator /\ Go(k, "actions", "validator") /\ index' = index
                    \/ ~a.validator /\ pc' = pc /\ index' = [index EXCEPT ![k] = @ + 1]
<1>1. pc[k] = "actions" /\ index[k] < Len(owned[k])
      /\ UNCHANGED <<registry, request, dto, owned, history>>
  BY DEF ResolveAction
<1>2. d.action \in Names /\ d.params \in ParamSpace
  BY <1>1, DecodedFacts
<1>3. a = NoAction <=> d.action \notin Registered
  BY <1>2 DEF Registered
<1>4. a.validator \in BOOLEAN
  BY <1>2 DEF TypeOK
<1>5. \/ a = NoAction /\ Return(k, "actions", Failure("action", index[k], "unknown-action"))
         /\ UNCHANGED <<cells, rules, index>>
      \/ d.params = "undecodable"
         /\ Return(k, "actions", Failure("action", index[k], "invalid-params"))
         /\ UNCHANGED <<cells, rules, index>>
      \/ /\ a # NoAction /\ d.params # "undecodable" /\ a.validator
         /\ Go(k, "actions", "validator")
         /\ cells' = Append(cells, [value |-> d.params, retained |-> TRUE])
         /\ rules' = [rules EXCEPT ![k] = Append(@, Len(cells'))]
         /\ reply' = reply /\ index' = index
      \/ /\ a # NoAction /\ d.params # "undecodable" /\ ~a.validator
         /\ cells' = Append(cells, [value |-> d.params, retained |-> FALSE])
         /\ rules' = [rules EXCEPT ![k] = Append(@, Len(cells'))]
         /\ index' = [index EXCEPT ![k] = @ + 1]
         /\ pc' = pc /\ reply' = reply
  BY DEF ResolveAction, Decoded, RawParams
<1>6. (a.validator => a.validator = TRUE) /\ (~a.validator => a.validator = FALSE)
  BY <1>4
<1>. QED
  BY <1>1, <1>2, <1>3, <1>4, <1>5, <1>6

LEMMA RunEffect ==
    ASSUME TypeOK, NEW k \in Calls, Held(k), RunValidator(k), NEW d, d = Here(k)
    PROVE  /\ pc[k] = "validator" /\ index[k] < Len(owned[k])
           /\ Len(rules[k]) = index[k] + 1
           /\ validated' = [validated EXCEPT ![k] = @ + 1]
           /\ UNCHANGED <<registry, request, dto, owned, accepted>>
           /\ \/ /\ d.params = "panicking" /\ Return(k, "validator", Refused("panic"))
                 /\ UNCHANGED <<cells, rules, index>>
              \/ /\ d.params = "refused"
                 /\ Return(k, "validator", Failure("action", index[k], "invalid-params"))
                 /\ UNCHANGED <<cells, rules, index>>
              \/ /\ d.params \notin {"panicking", "refused"}
                 /\ Go(k, "validator", "actions") /\ reply' = reply
                 /\ cells' = Append(cells, [value |-> d.params, retained |-> FALSE])
                 /\ rules' = [rules EXCEPT ![k] = [@ EXCEPT ![index[k] + 1] = Len(cells')]]
                 /\ index' = [index EXCEPT ![k] = @ + 1]
<1>1. pc[k] = "validator"
  BY DEF RunValidator
<1>2. /\ index[k] < Len(owned[k]) /\ Len(rules[k]) = index[k] + 1
      /\ cells[rules[k][Len(rules[k])]].value = d.params
  BY <1>1 DEF Held, Here
<1>3. Decoded(k, FALSE) = [value |-> d.params, retained |-> FALSE]
  BY <1>2, DecodedFacts
<1>. QED
  BY <1>1, <1>2, <1>3 DEF RunValidator, Executing

LEMMA TypeStep == RegistryInv /\ [Next]_vars => TypeOK'
<1> SUFFICES ASSUME RegistryInv, [Next]_vars PROVE TypeOK'
  OBVIOUS
<1>1. TypeOK /\ \A k \in Calls : CallInv(k)
  BY DEF RegistryInv
<1> USE DEF registry, work, history
<1>2. ASSUME NEW k \in Calls, Begin(k) PROVE TypeOK'
  <2>1. PICK q \in Requests : request' = [request EXCEPT ![k] = q]
    BY <1>2 DEF Begin
  <2>2. q \in RequestSpace /\ request'[k] = q /\ request' \in [Calls -> RequestSpace \cup {NoRequest}]
    BY <1>1, <2>1, RequestsAssumption DEF TypeOK
  <2>3. Asks(k)' => request'[k].definitions \in Seq(DefinitionSpace)
    <3>1. CASE q \in [op : {"register"}, receiver : Receivers, name : Names,
                      form : {"sound", "invalid", "bad-schema"}, validator : BOOLEAN]
      BY <2>2, <3>1 DEF Asks
    <3>2. CASE q \in [op : {"freeze"}, receiver : Receivers]
      BY <2>2, <3>2 DEF Asks
    <3>3. CASE q \in [op : {"compile", "compile-JSON"}, receiver : Receivers,
                      definitions : Seq(DefinitionSpace), compiler : {"sound", "nil"}]
      BY <2>2, <3>3 DEF Asks
    <3>. QED
      BY <2>2, <3>1, <3>2, <3>3 DEF RequestSpace
  <2>4. dto' \in [Calls -> Seq(DefinitionSpace)]
    <3>1. PICK d : /\ d = IF Asks(k)' THEN request'[k].definitions ELSE <<>>
                   /\ dto' = [dto EXCEPT ![k] = d]
      BY <1>2 DEF Begin, Asks
    <3>2. d \in Seq(DefinitionSpace)
      BY <2>3, <3>1
    <3>. QED
      BY <1>1, <3>1, <3>2 DEF TypeOK
  <2>5. pc' \in [Calls -> Points]
    BY <1>1, <1>2 DEF TypeOK, Begin, Go, Points
  <2>. QED
    BY <1>1, <1>2, <2>2, <2>4, <2>5 DEF TypeOK, Begin
<1>3. ASSUME NEW k \in Calls, Register(k) PROVE TypeOK'
  <2>1. PICK error : error = RegisterError(request[k])
    OBVIOUS
  <2>2. pc' \in [Calls -> Points] /\ reply' \in [Calls -> ReplySpace]
    BY <1>1, <1>3, <2>1, RegisterEffect, ReplyTyping, ReturnTyping
  <2>3. actions' \in [Names -> [by : Nat, validator : BOOLEAN]] /\ accepted' \subseteq Calls
    <3>1. actions \in [Names -> [by : Nat, validator : BOOLEAN]] /\ accepted \subseteq Calls
          /\ k \in Nat
      BY <1>1, CallsAssumption DEF TypeOK
    <3>2. CASE error = "nil"
      <4>1. PICK name, a : name = request[k].name
                           /\ a = [by |-> k, validator |-> request[k].validator]
        OBVIOUS
      <4>2. /\ name \in Names /\ a \in [by : Nat, validator : BOOLEAN]
            /\ actions' = [actions EXCEPT ![name] = a] /\ accepted' = accepted \cup {k}
        BY <1>1, <1>3, <2>1, <3>1, <3>2, <4>1, RegisterEffect
      <4>. QED
        BY <3>1, <4>2
    <3>3. CASE error # "nil"
      BY <1>1, <1>3, <2>1, <3>1, <3>3, RegisterEffect
    <3>. QED
      BY <3>2, <3>3
  <2>. QED
    BY <1>1, <1>3, <2>2, <2>3 DEF TypeOK, Register
<1>4. ASSUME NEW k \in Calls, Freeze(k) PROVE TypeOK'
  <2>1. {"invalid-registry", "nil"} \subseteq Errors
    BY DEF Errors
  <2>2. pc' \in [Calls -> Points] /\ reply' \in [Calls -> ReplySpace]
    BY <1>1, <1>4, <2>1, ReplyTyping, ReturnTyping DEF Freeze
  <2>. QED
    BY <1>1, <1>4, <2>2 DEF TypeOK, Freeze
<1>5. ASSUME NEW k \in Calls, Snapshot(k) PROVE TypeOK'
  <2>1. SnapshotError(request[k]) \in Errors
    BY DEF SnapshotError, Errors
  <2>2. pc' \in [Calls -> Points] /\ reply' \in [Calls -> ReplySpace]
    <3>1. CASE SnapshotError(request[k]) # "nil"
      BY <1>1, <1>5, <2>1, <3>1, ReplyTyping, ReturnTyping DEF Snapshot
    <3>2. CASE SnapshotError(request[k]) = "nil"
      BY <1>1, <1>5, <3>2 DEF Snapshot, Go, TypeOK, Points
    <3>. QED
      BY <3>1, <3>2
  <2>. QED
    BY <1>1, <1>5, <2>2 DEF TypeOK, Snapshot
<1>6. ASSUME NEW k \in Calls, Validate(k) PROVE TypeOK'
  <2>1. InputFailure(k) \in ReplySpace
    BY <1>1, InputTyping
  <2>2. CASE InputFailure(k) # Nil
    <3>1. pc' \in [Calls -> Points] /\ reply' \in [Calls -> ReplySpace]
      BY <1>1, <1>6, <2>1, <2>2, ReturnTyping DEF Validate
    <3>. QED
      BY <1>1, <1>6, <2>2, <3>1 DEF TypeOK, Validate
  <2>3. CASE InputFailure(k) = Nil
    <3>1. pc' \in [Calls -> Points] /\ reply' = reply
      BY <1>1, <1>6, <2>3 DEF Validate, Go, TypeOK, Points
    <3>. QED
      BY <1>1, <1>6, <2>3, <3>1 DEF TypeOK, Validate
  <2>. QED
    BY <2>2, <2>3
<1>7. ASSUME NEW k \in Calls, CompileCondition(k) PROVE TypeOK'
  <2>1. index[k] \in Nat /\ -1 \in Int /\ "cel" \in Errors /\ "condition" \in Stages
    BY <1>1 DEF TypeOK, Errors, Stages
  <2>2. PICK at, last : /\ at = IF owned[k] = <<>> THEN -1 ELSE index[k]
                        /\ last = (index[k] + 1 >= Len(owned[k]))
    OBVIOUS
  <2>3. at \in Int
    BY <2>2, <2>1
  <2>4. \/ /\ Return(k, "conditions", Failure("condition", at, "cel"))
           /\ index' = index
        \/ /\ Go(k, "conditions", IF last THEN "actions" ELSE "conditions")
           /\ index' = [index EXCEPT ![k] = IF last THEN 0 ELSE @ + 1]
           /\ reply' = reply
    BY <1>7, <2>2 DEF CompileCondition
  <2>5. pc' \in [Calls -> Points] /\ reply' \in [Calls -> ReplySpace] /\ index' \in [Calls -> Nat]
    <3>1. CASE Return(k, "conditions", Failure("condition", at, "cel")) /\ index' = index
      <4>1. Failure("condition", at, "cel") \in ReplySpace
        BY <2>1, <2>3, ReplyTyping
      <4>. QED
        BY <1>1, <3>1, <4>1, ReturnTyping DEF TypeOK
    <3>2. CASE /\ Go(k, "conditions", IF last THEN "actions" ELSE "conditions")
               /\ index' = [index EXCEPT ![k] = IF last THEN 0 ELSE @ + 1]
               /\ reply' = reply
      BY <1>1, <2>1, <3>2 DEF TypeOK, Go, Points
    <3>. QED
      BY <2>4, <3>1, <3>2
  <2>. QED
    BY <1>1, <1>7, <2>5 DEF TypeOK, CompileCondition
<1>8. ASSUME NEW k \in Calls, ResolveAction(k) PROVE TypeOK'
  <2>1. PICK d, a : d = Here(k) /\ a = actions[d.action]
    OBVIOUS
  <2>2. /\ pc[k] = "actions" /\ d.params \in ParamSpace /\ a.validator \in BOOLEAN
        /\ index[k] \in Nat /\ {"unknown-action", "invalid-params"} \subseteq Errors
        /\ "action" \in Stages /\ UNCHANGED <<registry, request, dto, owned, history>>
    BY <1>1, <1>8, <2>1, ResolveEffect DEF TypeOK, Errors, Stages
  <2>3. CASE \E err \in {"unknown-action", "invalid-params"} :
                /\ Return(k, "actions", Failure("action", index[k], err))
                /\ UNCHANGED <<cells, rules, index>>
    <3>1. pc' \in [Calls -> Points] /\ reply' \in [Calls -> ReplySpace]
      BY <1>1, <2>2, <2>3, ReplyTyping, ReturnTyping
    <3>. QED
      BY <1>1, <2>2, <2>3, <3>1 DEF TypeOK
  <2>4. CASE /\ cells' = Append(cells, [value |-> d.params, retained |-> a.validator])
             /\ rules' = [rules EXCEPT ![k] = Append(@, Len(cells'))]
             /\ reply' = reply
             /\ \/ a.validator /\ Go(k, "actions", "validator") /\ index' = index
                \/ ~a.validator /\ pc' = pc /\ index' = [index EXCEPT ![k] = @ + 1]
    <3>1. [value |-> d.params, retained |-> a.validator] \in CellSpace
      BY <2>2 DEF CellSpace
    <3>2. cells' \in Seq(CellSpace) /\ Len(cells') \in Nat
      <4>1. cells \in Seq(CellSpace)
        BY <1>1 DEF TypeOK
      <4>. QED
        BY <2>4, <3>1, <4>1, AppendFacts
    <3>3. rules' \in [Calls -> Seq(Nat)]
      <4>1. rules[k] \in Seq(Nat) /\ rules \in [Calls -> Seq(Nat)]
        BY <1>1 DEF TypeOK
      <4>2. Append(rules[k], Len(cells')) \in Seq(Nat)
        BY <3>2, <4>1, AppendFacts
      <4>. QED
        BY <2>4, <4>1, <4>2
    <3>4. pc' \in [Calls -> Points] /\ index' \in [Calls -> Nat]
      <4>1. pc \in [Calls -> Points] /\ index \in [Calls -> Nat] /\ "validator" \in Points
        BY <1>1 DEF TypeOK, Points
      <4>2. CASE Go(k, "actions", "validator") /\ index' = index
        BY <4>1, <4>2 DEF Go
      <4>3. CASE pc' = pc /\ index' = [index EXCEPT ![k] = @ + 1]
        BY <4>1, <4>3
      <4>. QED
        BY <2>4, <4>2, <4>3
    <3>. QED
      BY <1>1, <2>2, <2>4, <3>2, <3>3, <3>4 DEF TypeOK
  <2>. QED
    BY <1>1, <1>8, <2>1, <2>3, <2>4, ResolveEffect
<1>9. ASSUME NEW k \in Calls, RunValidator(k) PROVE TypeOK'
  <2>1. PICK d : d = Here(k)
    OBVIOUS
  <2>2. /\ index[k] \in Nat /\ {"panic", "invalid-params"} \subseteq Errors
        /\ "action" \in Stages /\ Held(k)
    BY <1>1 DEF TypeOK, Errors, Stages, CallInv
  <2>3. /\ pc[k] = "validator" /\ index[k] < Len(owned[k]) /\ Len(rules[k]) = index[k] + 1
        /\ validated' = [validated EXCEPT ![k] = @ + 1]
        /\ UNCHANGED <<registry, request, dto, owned, accepted>>
    BY <1>1, <1>9, <2>1, <2>2, RunEffect
  <2>4. validated' \in [Calls -> Nat]
    BY <1>1, <2>3 DEF TypeOK
  <2>5. CASE \E r \in {Refused("panic"), Failure("action", index[k], "invalid-params")} :
                Return(k, "validator", r) /\ UNCHANGED <<cells, rules, index>>
    <3>1. pc' \in [Calls -> Points] /\ reply' \in [Calls -> ReplySpace]
      BY <1>1, <2>2, <2>5, ReplyTyping, ReturnTyping
    <3>. QED
      BY <1>1, <2>3, <2>4, <2>5, <3>1 DEF TypeOK
  <2>6. CASE /\ Go(k, "validator", "actions") /\ reply' = reply
             /\ cells' = Append(cells, [value |-> d.params, retained |-> FALSE])
             /\ rules' = [rules EXCEPT ![k] = [@ EXCEPT ![index[k] + 1] = Len(cells')]]
             /\ index' = [index EXCEPT ![k] = @ + 1]
    <3>1. [value |-> d.params, retained |-> FALSE] \in CellSpace
      BY <1>1, <2>1, <2>3, DecodedFacts DEF CellSpace
    <3>2. cells' \in Seq(CellSpace) /\ Len(cells') \in Nat
      <4>1. cells \in Seq(CellSpace)
        BY <1>1 DEF TypeOK
      <4>. QED
        BY <2>6, <3>1, <4>1, AppendFacts
    <3>3. rules' \in [Calls -> Seq(Nat)]
      <4>1. rules[k] \in Seq(Nat) /\ rules \in [Calls -> Seq(Nat)]
        BY <1>1 DEF TypeOK
      <4>2. [rules[k] EXCEPT ![index[k] + 1] = Len(cells')] \in Seq(Nat)
        <5>1. rules[k] \in [1 .. Len(rules[k]) -> Nat] /\ Len(rules[k]) \in Nat
          BY <4>1
        <5>2. [rules[k] EXCEPT ![index[k] + 1] = Len(cells')] \in [1 .. Len(rules[k]) -> Nat]
          BY <3>2, <5>1
        <5>. QED
          BY <5>1, <5>2
      <4>. QED
        BY <2>6, <4>1, <4>2
    <3>4. pc' \in [Calls -> Points] /\ index' \in [Calls -> Nat]
      BY <1>1, <2>6 DEF TypeOK, Go, Points
    <3>. QED
      BY <1>1, <2>3, <2>4, <2>6, <3>2, <3>3, <3>4 DEF TypeOK
  <2>. QED
    BY <1>1, <1>9, <2>1, <2>2, <2>5, <2>6, RunEffect
<1>10. ASSUME NEW k \in Calls, CompleteRules(k) PROVE TypeOK'
  <2>1. pc' \in [Calls -> Points] /\ reply' \in [Calls -> ReplySpace]
    BY <1>1, <1>10, ReplyTyping, ReturnTyping DEF CompleteRules
  <2>. QED
    BY <1>1, <1>10, <2>1 DEF TypeOK, CompleteRules
<1>11. ASSUME NEW k \in Calls, NEW i \in DOMAIN dto[k], CallerEdits(k, i) PROVE TypeOK'
  <2>1. dto[k] \in Seq(DefinitionSpace) /\ dto \in [Calls -> Seq(DefinitionSpace)]
        /\ i \in 1 .. Len(dto[k])
    BY <1>1 DEF TypeOK
  <2>2. PICK d : d = [dto[k][i] EXCEPT !.params = "other"]
    OBVIOUS
  <2>3. d \in DefinitionSpace
    <3>1. dto[k][i] \in DefinitionSpace
      BY <2>1
    <3>. QED
      BY <2>2, <3>1 DEF DefinitionSpace, ParamSpace
  <2>4. dto' = [dto EXCEPT ![k] = [dto[k] EXCEPT ![i] = d]]
    BY <1>11, <2>1, <2>2 DEF CallerEdits
  <2>5. [dto[k] EXCEPT ![i] = d] \in Seq(DefinitionSpace)
    BY <2>1, <2>3
  <2>6. dto' \in [Calls -> Seq(DefinitionSpace)]
    BY <2>1, <2>4, <2>5
  <2>. QED
    BY <1>1, <1>11, <2>6 DEF TypeOK, CallerEdits
<1>12. ASSUME NEW c \in DOMAIN cells, RetainedEdit(c) PROVE TypeOK'
  <2>1. cells \in Seq(CellSpace) /\ c \in 1 .. Len(cells)
    BY <1>1 DEF TypeOK
  <2>2. [cells[c] EXCEPT !.value = "other"] \in CellSpace
    <3>1. cells[c] \in CellSpace
      BY <2>1
    <3>. QED
      BY <3>1 DEF CellSpace, ParamSpace
  <2>3. PICK e : e = [cells[c] EXCEPT !.value = "other"]
    OBVIOUS
  <2>4. cells' = [cells EXCEPT ![c] = e]
    BY <1>12, <2>1, <2>3 DEF RetainedEdit
  <2>5. cells' \in Seq(CellSpace)
    BY <2>1, <2>2, <2>3, <2>4
  <2>. QED
    BY <1>1, <1>12, <2>5 DEF TypeOK, RetainedEdit
<1>13. CASE UNCHANGED vars
  BY <1>1, <1>13 DEF TypeOK, vars
<1>. QED
  BY <1>2, <1>3, <1>4, <1>5, <1>6, <1>7, <1>8, <1>9, <1>10, <1>11, <1>12, <1>13
     DEF Next, Proceed, Terminated
-----------------------------------------------------------------------------
(* What a call has done stands while other calls proceed. *)

(* The registry is not written any more once it is frozen, and no cell     *)
(* changes but those that validators keep.                                 *)
Grown(spared) ==
    /\ frozen => frozen' /\ actions' = actions
    /\ Len(cells) <= Len(cells')
    /\ \A c \in 1 .. Len(cells) : ~cells[c].retained \/ c \in spared => cells'[c] = cells[c]

LEMMA ExpectedKept ==
    ASSUME NEW k \in Calls, request'[k] = request[k], actions' = actions
    PROVE  Expected(k)' = Expected(k)
  BY DEF Expected, Registered, SourceFaulty

LEMMA OthersKept ==
    ASSUME TypeOK, TypeOK', NEW k \in Calls, CallInv(k),
           request'[k] = request[k], pc'[k] = pc[k], reply'[k] = reply[k],
           owned'[k] = owned[k], index'[k] = index[k], rules'[k] = rules[k],
           validated'[k] = validated[k],
           dto'[k] = dto[k] \/ pc[k] \notin {"begun", "validate"},
           NEW spared, pc[k] = "validator" => rules[k][Len(rules[k])] \in spared,
           Grown(spared)
    PROVE  CallInv(k)'
<1>1. /\ (Asks(k)' <=> Asks(k)) /\ (Compiling(k)' <=> Compiling(k))
      /\ (Compiled(k)' <=> Compiled(k)) /\ (Working(k)' <=> Working(k))
  BY DEF Asks, Compiling, Compiled, Working
<1>2. Given(k)'
  BY <1>1 DEF CallInv, Given
<1>3. SawFrozen(k)'
  BY <1>1 DEF CallInv, SawFrozen, Grown
<1>4. /\ Len(cells) \in Nat /\ Len(cells') \in Nat /\ index[k] \in Nat
      /\ \A c \in 1 .. Len(cells) : c \in 1 .. Len(cells')
  BY DEF TypeOK, Grown
<1>5. ASSUME NEW i, Isolated(k, i) PROVE Isolated(k, i)'
  <2>1. PICK c : c = rules[k][i]
    OBVIOUS
  <2>2. c \in 1 .. Len(cells) /\ cells[c] = [value |-> owned[k][i].params, retained |-> FALSE]
    BY <1>5, <2>1 DEF Isolated
  <2>3. cells'[c] = cells[c]
    BY <2>2 DEF Grown
  <2>. QED
    BY <1>4, <2>1, <2>2, <2>3 DEF Isolated
<1>6. Held(k)'
  <2>1. pc[k] = "validator" =>
          cells'[rules[k][index[k] + 1]] = cells[rules[k][index[k] + 1]]
    BY DEF CallInv, Held, Grown
  <2>. QED
    BY <1>1, <1>4, <1>5, <2>1 DEF CallInv, Held
<1>7. frozen => actions' = actions /\ Registered' = Registered
  BY DEF Grown, Registered
<1>8. /\ (WellFormed(k)' <=> WellFormed(k)) /\ (AllCompile(k)' <=> AllCompile(k))
      /\ \A i : Compiles(k, i)' <=> Compiles(k, i)
  BY DEF WellFormed, AllCompile, Compiles, SourceFaulty
<1>9. Progress(k)'
  <2>1. CASE pc[k] \in {"actions", "validator"}
    <3>1. frozen
      BY <2>1 DEF CallInv, SawFrozen, Compiling
    <3>2. \A i : Usable(k, i)' <=> Usable(k, i)
      BY <1>7, <3>1 DEF Usable
    <3>. QED
      BY <1>1, <1>7, <1>8, <2>1, <3>1, <3>2 DEF CallInv, Progress
  <2>2. CASE pc[k] \notin {"actions", "validator"}
    BY <1>1, <1>8, <2>2 DEF CallInv, Progress
  <2>. QED
    BY <2>1, <2>2
<1>10. Outcome(k)'
  <2> SUFFICES ASSUME pc[k] = "returned", Asks(k),
                      reply[k].err \notin {"invalid-registry", "not-frozen"}
               PROVE  Outcome(k)'
    BY <1>1 DEF Outcome
  <2>1. frozen
    BY DEF CallInv, SawFrozen
  <2>2. Expected(k)' = Expected(k)
    BY <1>7, <2>1, ExpectedKept
  <2>. QED
    BY <1>1, <2>2 DEF CallInv, Outcome
<1>. QED
  BY <1>2, <1>3, <1>6, <1>9, <1>10 DEF CallInv

LEMMA Elsewhere ==
    ASSUME TypeOK, NEW k \in Calls, Held(k), Begin(k) \/ Proceed(k)
    PROVE  /\ \A j \in Calls : j # k =>
                /\ request'[j] = request[j] /\ pc'[j] = pc[j] /\ reply'[j] = reply[j]
                /\ dto'[j] = dto[j] /\ owned'[j] = owned[j] /\ index'[j] = index[j]
                /\ rules'[j] = rules[j] /\ validated'[j] = validated[j]
           /\ Grown(1 .. Len(cells))
<1> USE DEF registry, work, history, Grown
<1>1. Len(cells) \in Nat /\ cells \in Seq(CellSpace)
  BY DEF TypeOK
<1>2. CASE Begin(k)
  BY <1>1, <1>2, GoFacts DEF Begin, TypeOK
<1>3. CASE Register(k)
  <2>1. PICK error : error = RegisterError(request[k])
    OBVIOUS
  <2>2. /\ Return(k, "begun", Refused(error))
        /\ UNCHANGED <<frozen, request, work, validated>>
        /\ frozen => actions' = actions
    BY <1>3, <2>1, RegisterEffect
  <2>. QED
    BY <1>1, <2>2, ReturnFacts
<1>4. CASE Freeze(k)
  BY <1>1, <1>4, ReturnFacts DEF Freeze, TypeOK
<1>5. CASE Snapshot(k)
  BY <1>1, <1>5, ReturnFacts, GoFacts DEF Snapshot
<1>6. CASE Validate(k)
  <2>1. /\ UNCHANGED <<registry, request, dto, index, cells, rules, history>>
        /\ \A j \in Calls : j # k => owned'[j] = owned[j]
    BY <1>6 DEF Validate, TypeOK
  <2>2. \A j \in Calls : j # k => pc'[j] = pc[j] /\ reply'[j] = reply[j]
    BY <1>6, ReturnFacts, GoFacts DEF Validate
  <2>. QED
    BY <1>1, <2>1, <2>2
<1>7. CASE CompileCondition(k)
  <2>1. /\ UNCHANGED <<registry, request, dto, owned, cells, rules, history>>
        /\ \A j \in Calls : j # k => index'[j] = index[j]
    BY <1>7 DEF CompileCondition, TypeOK
  <2>2. PICK to, r : \/ Return(k, "conditions", r)
                     \/ Go(k, "conditions", to) /\ reply' = reply
    BY <1>7 DEF CompileCondition
  <2>3. \A j \in Calls : j # k => pc'[j] = pc[j] /\ reply'[j] = reply[j]
    BY <2>2, ReturnFacts, GoFacts
  <2>. QED
    BY <1>1, <2>1, <2>3
<1>8. CASE ResolveAction(k)
  <2>1. PICK d, a : d = Here(k) /\ a = actions[d.action]
    OBVIOUS
  <2>2. /\ UNCHANGED <<registry, request, dto, owned, history>>
        /\ d.params \in ParamSpace /\ a.validator \in BOOLEAN
    BY <1>8, <2>1, ResolveEffect
  <2>3. [value |-> d.params, retained |-> a.validator] \in CellSpace
    BY <2>2 DEF CellSpace
  <2>4. CASE \E r : Return(k, "actions", r) /\ UNCHANGED <<cells, rules, index>>
    BY <1>1, <2>2, <2>4, ReturnFacts
  <2>5. CASE /\ cells' = Append(cells, [value |-> d.params, retained |-> a.validator])
             /\ rules' = [rules EXCEPT ![k] = Append(@, Len(cells'))]
             /\ reply' = reply
             /\ \/ a.validator /\ Go(k, "actions", "validator") /\ index' = index
                \/ ~a.validator /\ pc' = pc /\ index' = [index EXCEPT ![k] = @ + 1]
    <3>1. Len(cells') = Len(cells) + 1 /\ \A c \in 1 .. Len(cells) : cells'[c] = cells[c]
      BY <1>1, <2>3, <2>5, AppendFacts
    <3>2. \A j \in Calls : j # k => pc'[j] = pc[j]
      BY <2>5, GoFacts
    <3>3. \A j \in Calls : j # k => rules'[j] = rules[j] /\ index'[j] = index[j]
      BY <2>5 DEF TypeOK
    <3>. QED
      BY <1>1, <2>2, <2>5, <3>1, <3>2, <3>3
  <2>. QED
    BY <1>8, <2>1, <2>4, <2>5, ResolveEffect
<1>9. CASE RunValidator(k)
  <2>1. PICK d : d = Here(k)
    OBVIOUS
  <2>2. /\ validated' = [validated EXCEPT ![k] = @ + 1]
        /\ UNCHANGED <<registry, request, dto, owned, accepted>>
        /\ index[k] < Len(owned[k])
    BY <1>9, <2>1, RunEffect
  <2>3. \A j \in Calls : j # k => validated'[j] = validated[j]
    BY <2>2 DEF TypeOK
  <2>4. [value |-> d.params, retained |-> FALSE] \in CellSpace
    BY <2>1, <2>2, DecodedFacts DEF CellSpace
  <2>5. CASE \E r : Return(k, "validator", r) /\ UNCHANGED <<cells, rules, index>>
    BY <1>1, <2>2, <2>3, <2>5, ReturnFacts
  <2>6. CASE /\ Go(k, "validator", "actions") /\ reply' = reply
             /\ cells' = Append(cells, [value |-> d.params, retained |-> FALSE])
             /\ rules' = [rules EXCEPT ![k] = [@ EXCEPT ![index[k] + 1] = Len(cells')]]
             /\ index' = [index EXCEPT ![k] = @ + 1]
    <3>1. Len(cells') = Len(cells) + 1 /\ \A c \in 1 .. Len(cells) : cells'[c] = cells[c]
      BY <1>1, <2>4, <2>6, AppendFacts
    <3>2. \A j \in Calls : j # k => pc'[j] = pc[j]
      BY <2>6, GoFacts
    <3>3. \A j \in Calls : j # k => rules'[j] = rules[j] /\ index'[j] = index[j]
      BY <2>6 DEF TypeOK
    <3>. QED
      BY <1>1, <2>2, <2>3, <2>6, <3>1, <3>2, <3>3
  <2>. QED
    BY <1>9, <2>1, <2>5, <2>6, RunEffect
<1>10. CASE CompleteRules(k)
  BY <1>1, <1>10, ReturnFacts DEF CompleteRules
<1>. QED
  BY <1>2, <1>3, <1>4, <1>5, <1>6, <1>7, <1>8, <1>9, <1>10 DEF Proceed

(* A registration adds one name and one call that has returned. *)
LEMMA RegistrationsStep ==
    ASSUME TypeOK, Registrations, [Next]_vars
    PROVE  Registrations'
<1> USE DEF registry, work, history
<1>1. /\ Registered \subseteq Names /\ IsFiniteSet(Names) /\ MaxActions \in Nat
      /\ IsFiniteSet(Registered) /\ Cardinality(Registered) \in Nat
  <2>1. Registered \subseteq Names /\ IsFiniteSet(Names) /\ MaxActions \in Nat
    BY ActionsAssumption DEF Registered
  <2>. QED
    BY <2>1, FS_Subset, FS_CardinalityType
<1>2. CASE /\ actions' = actions /\ accepted' = accepted
           /\ \A j \in Calls : pc[j] = "returned" => pc'[j] = "returned"
  <2>1. Registered' = Registered
    BY <1>2 DEF Registered
  <2>. QED
    BY <1>2, <2>1 DEF Registrations, RegistrationsHold, TypeOK
<1>3. CASE \E k \in Calls : Register(k)
  <2>1. PICK k \in Calls : Register(k)
    BY <1>3
  <2>2. PICK error : Register(k) /\ error = RegisterError(request[k])
    BY <2>1
  <2>3. /\ pc[k] = "begun" /\ \A j \in Calls : pc[j] = "returned" => pc'[j] = "returned"
        /\ pc'[k] = "returned"
    BY <2>2, RegisterEffect, ReturnFacts
  <2>4. CASE error # "nil"
    BY <1>2, <2>2, <2>3, <2>4, RegisterEffect
  <2>5. CASE error = "nil"
    <3>1. PICK name, a : name = request[k].name
                         /\ a = [by |-> k, validator |-> request[k].validator]
      OBVIOUS
    <3>2. /\ name \in Names /\ name \notin Registered /\ a.by = k
          /\ ~(Cardinality(Registered) >= MaxActions)
          /\ actions' = [actions EXCEPT ![name] = a] /\ accepted' = accepted \cup {k}
      BY <2>2, <2>5, <3>1, RegisterEffect
    <3>3. a # NoAction
      BY <3>2, CallsAssumption DEF NoAction
    <3>4. Registered' = Registered \cup {name}
      BY <3>2, <3>3 DEF Registered, TypeOK
    <3>5. k \notin accepted
      BY <2>3 DEF Registrations
    <3>6. /\ accepted = {actions[n].by : n \in Registered}
          /\ Cardinality(accepted) = Cardinality(Registered)
      BY DEF Registrations, RegistrationsHold
    <3>7. IsFiniteSet(accepted)
      BY DEF Registrations
    <3>8. /\ Cardinality(Registered') = Cardinality(Registered) + 1
          /\ Cardinality(accepted') = Cardinality(accepted) + 1
          /\ IsFiniteSet(accepted')
      BY <1>1, <3>2, <3>4, <3>5, <3>7, FS_AddElement
    <3>9. accepted' = {actions'[n].by : n \in Registered'}
      <4>1. actions'[name].by = k /\ \A n \in Registered : actions'[n] = actions[n]
        BY <1>1, <3>2 DEF TypeOK
      <4>. QED
        BY <3>2, <3>4, <3>6, <4>1
    <3>10. Cardinality(Registered') <= MaxActions
      BY <1>1, <3>2, <3>8
    <3>11. \A j \in accepted' : pc'[j] = "returned"
      BY <2>3, <3>2 DEF Registrations, TypeOK
    <3>. QED
      BY <3>6, <3>8, <3>9, <3>10, <3>11 DEF Registrations, RegistrationsHold
  <2>. QED
    BY <2>4, <2>5
<1>4. ASSUME NEW k \in Calls, NEW from, NEW to, Go(k, from, to), from # "returned"
      PROVE  \A j \in Calls : pc[j] = "returned" => pc'[j] = "returned"
  BY <1>4, GoFacts
<1>5. ASSUME NEW k \in Calls, NEW from, NEW r, Return(k, from, r), from # "returned"
      PROVE  \A j \in Calls : pc[j] = "returned" => pc'[j] = "returned"
  BY <1>5, ReturnFacts
<1>6. ASSUME NEW k \in Calls, Begin(k) PROVE Registrations'
  BY <1>2, <1>4, <1>6 DEF Begin
<1>7. ASSUME NEW k \in Calls, Freeze(k) PROVE Registrations'
  BY <1>2, <1>5, <1>7 DEF Freeze
<1>8. ASSUME NEW k \in Calls, Snapshot(k) PROVE Registrations'
  BY <1>2, <1>4, <1>5, <1>8 DEF Snapshot
<1>9. ASSUME NEW k \in Calls, Validate(k) PROVE Registrations'
  BY <1>2, <1>4, <1>5, <1>9 DEF Validate
<1>10. ASSUME NEW k \in Calls, CompileCondition(k) PROVE Registrations'
  <2>1. PICK to, r : \/ Return(k, "conditions", r)
                     \/ Go(k, "conditions", to)
    BY <1>10 DEF CompileCondition
  <2>. QED
    BY <1>2, <1>4, <1>5, <1>10, <2>1 DEF CompileCondition
<1>11. ASSUME NEW k \in Calls, ResolveAction(k) PROVE Registrations'
  <2>1. \/ \E r : Return(k, "actions", r)
        \/ Go(k, "actions", "validator")
        \/ pc' = pc
    BY <1>11 DEF ResolveAction
  <2>. QED
    BY <1>2, <1>4, <1>5, <1>11, <2>1 DEF ResolveAction
<1>12. ASSUME NEW k \in Calls, RunValidator(k) PROVE Registrations'
  <2>1. \/ \E r : Return(k, "validator", r)
        \/ Go(k, "validator", "actions")
    BY <1>12 DEF RunValidator
  <2>. QED
    BY <1>2, <1>4, <1>5, <1>12, <2>1 DEF RunValidator
<1>13. ASSUME NEW k \in Calls, CompleteRules(k) PROVE Registrations'
  BY <1>2, <1>5, <1>13 DEF CompleteRules
<1>14. CASE \E k \in Calls : \E i \in DOMAIN dto[k] : CallerEdits(k, i)
  BY <1>2, <1>14 DEF CallerEdits
<1>15. CASE \E c \in DOMAIN cells : RetainedEdit(c)
  BY <1>2, <1>15 DEF RetainedEdit
<1>16. CASE UNCHANGED vars
  BY <1>2, <1>16 DEF vars
<1>. QED
  BY <1>3, <1>6, <1>7, <1>8, <1>9, <1>10, <1>11, <1>12, <1>13, <1>14, <1>15, <1>16
     DEF Next, Proceed, Terminated
-----------------------------------------------------------------------------
(* The outcome that is expected of a compilation. *)

FaultyWhens(k) ==
    {i \in Places(request[k].definitions) :
        request[k].compiler = "nil" \/ request[k].definitions[i + 1].when = "faulty"}
Unusables(k) == {i \in Places(request[k].definitions) : ~Usable(k, i + 1)}

LEMMA ExpectedLate ==
    ASSUME TypeOK, NEW k \in Calls, Asks(k), WellFormed(k),
           ~(request[k].definitions = <<>> /\ request[k].compiler = "nil")
    PROVE  Expected(k) = IF FaultyWhens(k) # {} THEN <<"condition", FirstOf(FaultyWhens(k))>>
                         ELSE IF Unusables(k) # {} THEN <<"action", FirstOf(Unusables(k))>>
                         ELSE <<"none", -1>>
<1>1. PICK defs : defs = request[k].definitions
  OBVIOUS
<1>2. /\ ~SourceFaulty(k) /\ ~(Len(defs) > MaxDefinitions)
      /\ Faulty(defs, "fields") = {} /\ Faulty(defs, "id") = {}
  BY <1>1, WellFormedFacts
<1> DEFINE unusable(d) == \/ d.action \notin Registered
                          \/ d.params = "undecodable"
                          \/ d.params \in {"refused", "panicking"} /\ actions[d.action].validator
<1>3. Unusables(k) = {i \in Places(defs) : unusable(defs[i + 1])}
  BY <1>1 DEF Unusables, Usable
<1>4. FaultyWhens(k) = {i \in Places(defs) : request[k].compiler = "nil"
                                             \/ defs[i + 1].when = "faulty"}
  BY <1>1 DEF FaultyWhens
<1>. QED
  BY <1>1, <1>2, <1>3, <1>4 DEF Expected

LEMMA PlacesFacts ==
    ASSUME TypeOK, NEW k \in Calls, Asks(k), NEW defs, defs = request[k].definitions
    PROVE  /\ Len(defs) \in Nat /\ Places(defs) \subseteq Nat
           /\ \A i \in Places(defs) : i + 1 \in 1 .. Len(defs)
           /\ \A i \in 1 .. Len(defs) : i - 1 \in Places(defs)
           /\ Places(defs) # {} => defs # <<>>
<1>1. defs \in Seq(DefinitionSpace) /\ Len(defs) \in Nat
  BY RequestFacts
<1>. QED
  BY <1>1 DEF Places

LEMMA ExpectedCondition ==
    ASSUME TypeOK, NEW k \in Calls, Asks(k), WellFormed(k),
           NEW defs, defs = request[k].definitions, NEW n \in Places(defs),
           request[k].compiler = "nil" \/ defs[n + 1].when = "faulty",
           \A i \in 1 .. n : Compiles(k, i)
    PROVE  Expected(k) = <<"condition", n>>
<1>1. n \in FaultyWhens(k) /\ FaultyWhens(k) \subseteq Nat /\ n \in Nat
  BY PlacesFacts DEF FaultyWhens
<1>2. ASSUME NEW m \in FaultyWhens(k) PROVE n <= m
  <2> SUFFICES ASSUME m < n PROVE FALSE
    BY <1>1
  <2>1. m + 1 \in 1 .. n
    BY <1>1
  <2>2. Compiles(k, m + 1)
    BY <2>1
  <2>. QED
    BY <2>2 DEF Compiles, FaultyWhens
<1>3. FirstOf(FaultyWhens(k)) = n
  BY <1>1, <1>2, FirstOfLeast
<1>4. defs # <<>>
  BY PlacesFacts
<1>. QED
  BY <1>1, <1>3, <1>4, ExpectedLate

LEMMA NoneFaulty ==
    ASSUME TypeOK, NEW k \in Calls, Asks(k), AllCompile(k)
    PROVE  WellFormed(k) /\ request[k].compiler # "nil" /\ FaultyWhens(k) = {}
  BY PlacesFacts DEF AllCompile, Compiles, FaultyWhens

LEMMA ExpectedAction ==
    ASSUME TypeOK, NEW k \in Calls, Asks(k), AllCompile(k),
           NEW n \in Places(request[k].definitions),
           ~Usable(k, n + 1), \A i \in 1 .. n : Usable(k, i)
    PROVE  Expected(k) = <<"action", n>>
<1>1. n \in Unusables(k) /\ Unusables(k) \subseteq Nat /\ n \in Nat
  BY PlacesFacts DEF Unusables
<1>2. ASSUME NEW m \in Unusables(k) PROVE n <= m
  <2> SUFFICES ASSUME m < n PROVE FALSE
    BY <1>1
  <2>1. m + 1 \in 1 .. n
    BY <1>1
  <2>. QED
    BY <2>1 DEF Unusables
<1>3. FirstOf(Unusables(k)) = n
  BY <1>1, <1>2, FirstOfLeast
<1>. QED
  BY <1>1, <1>3, NoneFaulty, ExpectedLate

LEMMA ExpectedNone ==
    ASSUME TypeOK, NEW k \in Calls, Asks(k), AllCompile(k),
           \A i \in 1 .. Len(request[k].definitions) : Usable(k, i)
    PROVE  Expected(k) = <<"none", -1>>
<1>1. Unusables(k) = {}
  BY PlacesFacts DEF Unusables
<1>. QED
  BY <1>1, NoneFaulty, ExpectedLate

LEMMA ExpectedAfterConditions ==
    ASSUME TypeOK, NEW k \in Calls, Asks(k), AllCompile(k)
    PROVE  Expected(k)[1] \in {"none", "action"}
<1>1. Expected(k) = IF Unusables(k) # {} THEN <<"action", FirstOf(Unusables(k))>>
                    ELSE <<"none", -1>>
  BY NoneFaulty, ExpectedLate
<1>. QED
  BY <1>1
-----------------------------------------------------------------------------
(* What a call's own step makes of it. *)

LEMMA BeginOwn ==
    ASSUME TypeOK, TypeOK', NEW k \in Calls, CallInv(k), Begin(k)
    PROVE  CallInv(k)'
<1>1. PICK q \in Requests : request' = [request EXCEPT ![k] = q]
  BY DEF Begin
<1>2. request'[k] = q /\ q # NoRequest
  <2>1. q.op # "none"
    BY RequestsAssumption DEF RequestSpace
  <2>. QED
    BY <1>1, <2>1 DEF TypeOK, NoRequest
<1>3. pc[k] = "idle" /\ pc'[k] = "begun"
  BY GoFacts DEF Begin
<1>4. Asks(k)' => dto'[k] = request'[k].definitions
  BY DEF Begin, Asks, TypeOK
<1>5. index'[k] = 0 /\ rules'[k] = <<>>
  BY <1>3 DEF CallInv, Given, Begin, work
<1>6. ~(validated'[k] > 0)
  <2>1. ~Asks(k)
    BY <1>3 DEF CallInv, Given, Asks, NoRequest
  <2>. QED
    BY <2>1 DEF CallInv, Progress, Begin, history
<1>. QED
  BY <1>2, <1>3, <1>4, <1>5, <1>6
     DEF CallInv, Given, SawFrozen, Held, Progress, Outcome, Compiling, Compiled, Working

(* A call that asked for no compilation returns. *)
LEMMA OtherOwn ==
    ASSUME TypeOK, NEW k \in Calls, CallInv(k), ~Asks(k), pc[k] # "idle",
           request' = request, validated' = validated, pc'[k] = "returned"
    PROVE  CallInv(k)'
<1>1. ~Asks(k)' /\ request[k] # NoRequest /\ ~(validated'[k] > 0) /\ ~Compiled(k)'
  BY DEF CallInv, Given, Progress, Asks, Compiled
<1>. QED
  BY <1>1 DEF CallInv, Given, SawFrozen, Held, Progress, Outcome, Compiling, Working

(* A compilation returns a failure. *)
LEMMA FailureOwn ==
    ASSUME TypeOK, NEW k \in Calls, CallInv(k), pc[k] # "idle",
           request' = request, AllCompile(k)' <=> AllCompile(k), pc'[k] = "returned",
           validated' = validated \/ AllCompile(k), Asks(k),
           reply'[k].err # "nil",
           reply'[k].err \notin {"invalid-registry", "not-frozen"} => frozen' /\ Outcome(k)'
    PROVE  CallInv(k)'
<1>1. Asks(k)' /\ request[k] # NoRequest /\ ~Compiled(k)' /\ ~Compiling(k)' /\ ~Working(k)'
  BY DEF CallInv, Given, Asks, Compiled, Compiling, Working
<1>2. Given(k)' /\ SawFrozen(k)' /\ Held(k)'
  BY <1>1 DEF Given, SawFrozen, Held
<1>3. Progress(k)'
  BY <1>1 DEF CallInv, Progress
<1>4. Outcome(k)'
  BY DEF Outcome
<1>. QED
  BY <1>2, <1>3, <1>4 DEF CallInv

LEMMA AllCompileKept ==
    ASSUME request' = request, NEW k \in Calls
    PROVE  (AllCompile(k)' <=> AllCompile(k)) /\ (WellFormed(k)' <=> WellFormed(k))
           /\ \A i : Compiles(k, i)' <=> Compiles(k, i)
  BY DEF AllCompile, WellFormed, Compiles, SourceFaulty

LEMMA SnapshotOwn ==
    ASSUME TypeOK, TypeOK', NEW k \in Calls, CallInv(k), Snapshot(k)
    PROVE  CallInv(k)'
<1>1. PICK error : error = SnapshotError(request[k])
  OBVIOUS
<1>2. /\ Asks(k) /\ UNCHANGED <<frozen, actions, request, dto, owned, index, cells, rules,
                               accepted, validated>>
  BY DEF Snapshot, Asks, registry, work, history
<1>3. CASE error # "nil"
  <2>1. Return(k, "begun", Refused(error)) /\ error \in {"invalid-registry", "not-frozen"}
    BY <1>1, <1>3 DEF Snapshot, SnapshotError
  <2>2. pc[k] = "begun" /\ pc'[k] = "returned" /\ reply'[k].err = error
    BY <2>1, ReturnFacts DEF Refused, Failure
  <2>. QED
    BY <1>2, <1>3, <2>1, <2>2, AllCompileKept, FailureOwn
<1>4. CASE error = "nil"
  <2>1. Go(k, "begun", "validate") /\ reply' = reply /\ frozen
    BY <1>1, <1>4 DEF Snapshot, SnapshotError
  <2>2. pc[k] = "begun" /\ pc'[k] = "validate"
    BY <2>1, GoFacts
  <2>. QED
    BY <1>2, <2>1, <2>2, AllCompileKept
       DEF CallInv, Given, SawFrozen, Held, Progress, Outcome, Compiling, Compiled, Working, Asks
<1>. QED
  BY <1>3, <1>4

LEMMA ValidateOwn ==
    ASSUME TypeOK, TypeOK', NEW k \in Calls, CallInv(k), Validate(k)
    PROVE  CallInv(k)'
<1>1. PICK defs, failure : defs = request[k].definitions /\ failure = InputFailure(k)
  OBVIOUS
<1>2. /\ UNCHANGED <<frozen, actions, request, dto, index, cells, rules, accepted, validated>>
      /\ pc[k] = "validate"
  BY GoFacts, ReturnFacts DEF Validate, registry, history
<1>3. Asks(k) /\ frozen /\ dto[k] = defs
  BY <1>1, <1>2 DEF CallInv, Given, SawFrozen, Compiling
<1>4. defs \in Seq(DefinitionSpace) /\ Len(defs) \in Nat
  BY <1>1, <1>3, RequestFacts
<1>5. CASE failure # Nil
  <2>1. Return(k, "validate", failure)
    BY <1>1, <1>3, <1>5 DEF Validate
  <2>2. pc'[k] = "returned" /\ reply'[k] = failure
    BY <2>1, ReturnFacts
  <2>3. /\ Expected(k) = <<failure.stage, failure.index>>
        /\ failure.err \in {"invalid-definition", "validation", "limit"}
    BY <1>1, <1>3, <1>5 DEF InputFailure, ValidationFailure, Expected, Failure
  <2>4. Outcome(k)'
    <3>1. Expected(k)' = Expected(k)
      BY <1>2, ExpectedKept
    <3>. QED
      BY <2>2, <2>3, <3>1 DEF Outcome
  <2>. QED
    BY <1>2, <1>3, <2>2, <2>3, <2>4, AllCompileKept, FailureOwn
<1>6. CASE failure = Nil
  <2>1. Go(k, "validate", "conditions") /\ reply' = reply /\ owned' = [owned EXCEPT ![k] = defs]
    BY <1>1, <1>3, <1>6 DEF Validate
  <2>2. pc'[k] = "conditions" /\ owned'[k] = defs
    BY <2>1, GoFacts DEF TypeOK
  <2>3. /\ ~SourceFaulty(k) /\ ~(Len(defs) > MaxDefinitions)
        /\ Faulty(defs, "fields") = {} /\ Faulty(defs, "id") = {}
    BY <1>1, <1>3, <1>6 DEF InputFailure, ValidationFailure, Nil, Failure
  <2>4. WellFormed(k)'
    BY <1>1, <1>2, <1>3, <2>3, WellFormedFacts, AllCompileKept
  <2>5. index'[k] = 0 /\ rules'[k] = <<>> /\ (0 < Len(defs) \/ defs = <<>>)
    BY <1>2, <1>4 DEF CallInv, Given
  <2>. QED
    BY <1>1, <1>2, <1>3, <2>2, <2>4, <2>5, AllCompileKept
       DEF CallInv, Given, SawFrozen, Held, Progress, Outcome, Compiling, Compiled, Working, Asks
<1>. QED
  BY <1>5, <1>6

LEMMA ConditionOwn ==
    ASSUME TypeOK, TypeOK', NEW k \in Calls, CallInv(k), CompileCondition(k)
    PROVE  CallInv(k)'
<1>1. PICK defs, n : defs = request[k].definitions /\ n = index[k]
  OBVIOUS
<1>2. /\ UNCHANGED <<frozen, actions, request, dto, owned, cells, rules, accepted, validated>>
      /\ pc[k] = "conditions"
  BY DEF CompileCondition, registry, history
<1>3. /\ Asks(k) /\ frozen /\ owned[k] = defs /\ request[k] # NoRequest /\ rules[k] = <<>>
      /\ WellFormed(k) /\ \A i \in 1 .. n : Compiles(k, i)
      /\ n < Len(defs) \/ (n = 0 /\ defs = <<>>)
  BY <1>1, <1>2 DEF CallInv, Given, SawFrozen, Compiling, Progress, Working
<1>4. defs \in Seq(DefinitionSpace) /\ Len(defs) \in Nat /\ n \in Nat
      /\ request[k].compiler \in {"sound", "nil"}
  BY <1>1, <1>3, RequestFacts DEF TypeOK
<1>5. n < Len(defs) => n \in Places(defs) /\ Here(k) = defs[n + 1]
                       /\ defs[n + 1].when \in {"sound", "faulty"}
  BY <1>1, <1>3, <1>4, DefinitionFacts DEF Places, Here
<1>6. CASE request[k].compiler = "nil" \/ (defs # <<>> /\ Here(k).when = "faulty")
  <2>1. PICK at : at = IF defs = <<>> THEN -1 ELSE n
    OBVIOUS
  <2>2. Return(k, "conditions", Failure("condition", at, "cel"))
    BY <1>1, <1>3, <1>6, <2>1 DEF CompileCondition
  <2>3. pc'[k] = "returned" /\ reply'[k] = Failure("condition", at, "cel")
    BY <2>2, ReturnFacts
  <2>4. Expected(k) = <<"condition", at>>
    <3>1. CASE defs = <<>>
      <4>1. /\ ~SourceFaulty(k) /\ ~(Len(defs) > MaxDefinitions)
            /\ Faulty(defs, "fields") = {} /\ Faulty(defs, "id") = {}
        BY <1>1, <1>3, WellFormedFacts
      <4>. QED
        BY <1>1, <1>6, <2>1, <3>1, <4>1 DEF Expected
    <3>2. CASE defs # <<>>
      BY <1>1, <1>3, <1>5, <1>6, <2>1, <3>2, ExpectedCondition
    <3>. QED
      BY <3>1, <3>2
  <2>5. Outcome(k)'
    <3>1. Expected(k)' = Expected(k)
      BY <1>2, ExpectedKept
    <3>. QED
      BY <2>3, <2>4, <3>1 DEF Outcome, Failure
  <2>6. reply'[k].err = "cel"
    BY <2>3 DEF Failure
  <2>. QED
    BY <1>2, <1>3, <2>3, <2>5, <2>6, AllCompileKept, FailureOwn
<1>7. CASE ~(request[k].compiler = "nil" \/ (defs # <<>> /\ Here(k).when = "faulty"))
  <2>1. PICK last : last = (n + 1 >= Len(defs))
    OBVIOUS
  <2>2. /\ Go(k, "conditions", IF last THEN "actions" ELSE "conditions") /\ reply' = reply
        /\ index' = [index EXCEPT ![k] = IF last THEN 0 ELSE @ + 1]
    BY <1>1, <1>3, <1>7, <2>1 DEF CompileCondition
  <2>3. n < Len(defs) => Compiles(k, n + 1)
    BY <1>1, <1>3, <1>4, <1>5, <1>7 DEF Compiles
  <2>4. ASSUME NEW i \in 1 .. n + 1, n < Len(defs) PROVE Compiles(k, i)
    BY <1>3, <1>4, <2>3, <2>4
  <2>5. CASE n + 1 >= Len(defs)
    <3>1. pc'[k] = "actions" /\ index'[k] = 0
      BY <2>1, <2>2, <2>5, GoFacts DEF TypeOK
    <3>2. AllCompile(k)
      <4>1. \A i \in 1 .. Len(defs) : Compiles(k, i)
        BY <1>3, <1>4, <2>4, <2>5
      <4>. QED
        BY <1>1, <1>3, <1>7, <4>1 DEF AllCompile
    <3>. QED
      BY <1>1, <1>2, <1>3, <1>4, <3>1, <3>2, AllCompileKept
         DEF CallInv, Given, SawFrozen, Held, Progress, Outcome, Compiling, Compiled, Working, Asks
  <2>6. CASE ~(n + 1 >= Len(defs))
    <3>1. pc'[k] = "conditions" /\ index'[k] = n + 1
      BY <1>1, <2>1, <2>2, <2>6, GoFacts DEF TypeOK
    <3>2. n < Len(defs) /\ n + 1 < Len(defs)
      BY <1>4, <2>6
    <3>. QED
      BY <1>1, <1>2, <1>3, <1>4, <2>4, <3>1, <3>2, AllCompileKept
         DEF CallInv, Given, SawFrozen, Held, Progress, Outcome, Compiling, Compiled, Working, Asks
  <2>. QED
    BY <2>5, <2>6
<1>. QED
  BY <1>6, <1>7

(* Where a compilation stands while it makes its actions. *)
LEMMA AtActions ==
    ASSUME TypeOK, NEW k \in Calls, CallInv(k), pc[k] \in {"actions", "validator"},
           NEW defs, defs = request[k].definitions, NEW n, n = index[k],
           NEW d, d = Here(k)
    PROVE  /\ Asks(k) /\ frozen /\ owned[k] = defs /\ AllCompile(k) /\ request[k] # NoRequest
           /\ defs \in Seq(DefinitionSpace) /\ Len(defs) \in Nat /\ n \in Nat
           /\ n < Len(defs) => n \in Places(defs) /\ d = defs[n + 1] /\ n + 1 \in 1 .. Len(defs)
           /\ \A i \in 1 .. n : Usable(k, i) /\ Isolated(k, i)
           /\ pc[k] = "validator" => d.action \in Registered /\ actions[d.action].validator
<1>1. Asks(k) /\ frozen /\ owned[k] = defs /\ AllCompile(k) /\ request[k] # NoRequest
  BY DEF CallInv, Given, SawFrozen, Compiling, Progress, Working
<1>2. defs \in Seq(DefinitionSpace) /\ Len(defs) \in Nat /\ n \in Nat
  BY <1>1, RequestFacts DEF TypeOK
<1>3. n < Len(defs) => n \in Places(defs) /\ d = defs[n + 1] /\ n + 1 \in 1 .. Len(defs)
  BY <1>1, <1>2 DEF Places, Here
<1>4. \A i \in 1 .. n : Usable(k, i) /\ Isolated(k, i)
  BY DEF CallInv, Progress, Held
<1>5. pc[k] = "validator" => d.action \in Registered /\ actions[d.action].validator
  BY DEF CallInv, Progress, Here
<1>. QED
  BY <1>1, <1>2, <1>3, <1>4, <1>5

LEMMA ActionFailureOwn ==
    ASSUME TypeOK, NEW k \in Calls, CallInv(k), pc[k] \in {"actions", "validator"},
           index[k] < Len(owned[k]), ~Usable(k, index[k] + 1),
           frozen' = frozen, actions' = actions, request' = request, index' = index,
           NEW from, NEW r, Return(k, from, r), r.err # "nil",
           r.err # "panic" => r.stage = "action" /\ r.index = index[k]
    PROVE  CallInv(k)'
<1>1. PICK defs, n, d : defs = request[k].definitions /\ n = index[k] /\ d = Here(k)
  OBVIOUS
<1>2. /\ Asks(k) /\ frozen /\ owned[k] = defs /\ AllCompile(k) /\ request[k] # NoRequest
      /\ n < Len(defs) => n \in Places(defs)
      /\ \A i \in 1 .. n : Usable(k, i)
  BY <1>1, AtActions
<1>3. Expected(k) = <<"action", n>>
  BY <1>1, <1>2, ExpectedAction
<1>4. pc[k] # "idle" /\ pc'[k] = "returned" /\ reply'[k] = r
  BY ReturnFacts
<1>5. Expected(k)' = Expected(k)
  BY ExpectedKept
<1>6. Outcome(k)'
  BY <1>1, <1>3, <1>4, <1>5 DEF Outcome
<1>. QED
  BY <1>2, <1>4, <1>6, AllCompileKept, FailureOwn

(* The action of one more definition is made. *)
LEMMA MadeOwn ==
    ASSUME TypeOK, TypeOK', NEW k \in Calls, CallInv(k), pc[k] \in {"actions", "validator"},
           NEW n, n = index[k], n < Len(owned[k]), NEW d, d = Here(k),
           frozen' = frozen, actions' = actions, request' = request, owned' = owned,
           pc'[k] = "actions", index'[k] = n + 1,
           Len(rules'[k]) = n + 1, \A i \in 1 .. n : rules'[k][i] = rules[k][i],
           Len(cells') = Len(cells) + 1, \A c \in 1 .. Len(cells) : cells'[c] = cells[c],
           rules'[k][n + 1] = Len(cells'),
           cells'[Len(cells')] = [value |-> d.params, retained |-> FALSE],
           Usable(k, n + 1)
    PROVE  CallInv(k)'
<1>1. PICK defs : defs = request[k].definitions
  OBVIOUS
<1>2. /\ Asks(k) /\ frozen /\ owned[k] = defs /\ AllCompile(k) /\ request[k] # NoRequest
      /\ Len(defs) \in Nat /\ n \in Nat /\ d = defs[n + 1]
      /\ \A i \in 1 .. n : Usable(k, i) /\ Isolated(k, i)
  BY <1>1, AtActions
<1>3. Len(cells) \in Nat
  BY DEF TypeOK
<1>4. ASSUME NEW i \in 1 .. n PROVE Isolated(k, i)'
  <2>1. PICK c : c = rules[k][i]
    OBVIOUS
  <2>2. c \in 1 .. Len(cells) /\ cells[c] = [value |-> owned[k][i].params, retained |-> FALSE]
    BY <1>2, <2>1 DEF Isolated
  <2>3. rules'[k][i] = c /\ cells'[c] = cells[c] /\ c \in 1 .. Len(cells')
    BY <1>3, <2>1, <2>2
  <2>. QED
    BY <2>2, <2>3 DEF Isolated
<1>5. Isolated(k, n + 1)'
  BY <1>2, <1>3 DEF Isolated
<1>6. \A i \in 1 .. n + 1 : i \in 1 .. n \/ i = n + 1
  BY <1>2
<1>7. \A i \in 1 .. n + 1 : Isolated(k, i)'
  BY <1>4, <1>5, <1>6
<1>8. \A i : Usable(k, i)' <=> Usable(k, i)
  BY DEF Usable, Registered
<1>9. \A i \in 1 .. n + 1 : Usable(k, i)'
  BY <1>2, <1>6, <1>8
<1>10. Asks(k)' /\ ~Compiled(k)' /\ Compiling(k)' /\ AllCompile(k)'
  BY <1>2, AllCompileKept DEF Asks, Compiled, Compiling
<1>11. Held(k)'
  BY <1>2, <1>7, <1>10 DEF Held
<1>12. Progress(k)'
  BY <1>9, <1>10 DEF Progress
<1>. QED
  BY <1>1, <1>2, <1>10, <1>11, <1>12 DEF CallInv, Given, SawFrozen, Outcome

LEMMA ResolveOwn ==
    ASSUME TypeOK, TypeOK', NEW k \in Calls, CallInv(k), ResolveAction(k)
    PROVE  CallInv(k)'
<1>1. PICK defs, n, d, a : /\ defs = request[k].definitions /\ n = index[k] /\ d = Here(k)
                           /\ a = actions[d.action]
  OBVIOUS
<1>2. /\ pc[k] = "actions" /\ n < Len(owned[k]) /\ a.validator \in BOOLEAN
      /\ d.params \in ParamSpace
      /\ UNCHANGED <<frozen, actions, request, dto, owned, accepted, validated>>
  BY <1>1, ResolveEffect DEF registry, history
<1>3. /\ Asks(k) /\ frozen /\ owned[k] = defs /\ AllCompile(k) /\ request[k] # NoRequest
      /\ Len(defs) \in Nat /\ n \in Nat /\ d = defs[n + 1]
      /\ \A i \in 1 .. n : Usable(k, i) /\ Isolated(k, i)
  BY <1>1, <1>2, AtActions
<1>4. CASE \E err \in {"unknown-action", "invalid-params"} :
              /\ Return(k, "actions", Failure("action", index[k], err))
              /\ d.action \notin Registered \/ d.params = "undecodable"
              /\ UNCHANGED <<cells, rules, index>>
  <2>1. ~Usable(k, n + 1)
    BY <1>1, <1>3, <1>4 DEF Usable
  <2>2. PICK r : /\ Return(k, "actions", r) /\ r.err # "nil"
                 /\ r.stage = "action" /\ r.index = n
    BY <1>1, <1>4 DEF Failure
  <2>. QED
    BY <1>1, <1>2, <1>4, <2>1, <2>2, ActionFailureOwn
<1>5. CASE /\ d.action \in Registered /\ d.params # "undecodable"
           /\ cells' = Append(cells, [value |-> d.params, retained |-> a.validator])
           /\ rules' = [rules EXCEPT ![k] = Append(@, Len(cells'))]
           /\ reply' = reply
           /\ \/ a.validator /\ Go(k, "actions", "validator") /\ index' = index
              \/ ~a.validator /\ pc' = pc /\ index' = [index EXCEPT ![k] = @ + 1]
  <2>1. PICK cell : cell = [value |-> d.params, retained |-> a.validator]
    OBVIOUS
  <2>2. /\ Len(cells') = Len(cells) + 1 /\ \A c \in 1 .. Len(cells) : cells'[c] = cells[c]
        /\ cells'[Len(cells')] = cell /\ Len(cells) \in Nat
    <3>1. cells \in Seq(CellSpace) /\ cell \in CellSpace
      BY <1>2, <2>1 DEF TypeOK, CellSpace
    <3>. QED
      BY <1>5, <2>1, <3>1, AppendFacts
  <2>3. /\ Len(rules'[k]) = n + 1 /\ \A i \in 1 .. n : rules'[k][i] = rules[k][i]
        /\ rules'[k][n + 1] = Len(cells')
    <3>1. rules[k] \in Seq(Nat) /\ Len(cells') \in Nat /\ Len(rules[k]) = n
      BY <1>1, <1>2, <2>2 DEF TypeOK, CallInv, Held
    <3>2. rules'[k] = Append(rules[k], Len(cells'))
      BY <1>5 DEF TypeOK
    <3>. QED
      BY <3>1, <3>2, AppendFacts
  <2>4. CASE ~a.validator /\ pc' = pc /\ index' = [index EXCEPT ![k] = @ + 1]
    <3>1. index'[k] = n + 1 /\ pc'[k] = "actions"
      BY <1>1, <1>2, <2>4 DEF TypeOK
    <3>2. cell = [value |-> d.params, retained |-> FALSE]
      BY <1>2, <2>1, <2>4
    <3>3. Usable(k, n + 1)
      BY <1>1, <1>3, <1>5, <2>4 DEF Usable
    <3>. QED
      BY <1>1, <1>2, <2>2, <2>3, <3>1, <3>2, <3>3, MadeOwn
  <2>5. CASE a.validator /\ Go(k, "actions", "validator") /\ index' = index
    <3>1. pc'[k] = "validator" /\ index'[k] = n
      BY <1>1, <2>5, GoFacts
    <3>2. ASSUME NEW i \in 1 .. n PROVE Isolated(k, i)'
      <4>1. PICK c : c = rules[k][i]
        OBVIOUS
      <4>2. /\ c \in 1 .. Len(cells)
            /\ cells[c] = [value |-> owned[k][i].params, retained |-> FALSE]
        BY <1>3, <4>1 DEF Isolated
      <4>3. rules'[k][i] = c /\ cells'[c] = cells[c] /\ c \in 1 .. Len(cells')
        BY <2>2, <2>3, <4>1, <4>2
      <4>. QED
        BY <1>2, <4>2, <4>3 DEF Isolated
    <3>3. \A i : Usable(k, i)' <=> Usable(k, i)
      BY <1>2 DEF Usable, Registered
    <3>4. Asks(k)' /\ ~Compiled(k)' /\ Compiling(k)' /\ AllCompile(k)'
      BY <1>2, <1>3, <3>1, AllCompileKept DEF Asks, Compiled, Compiling
    <3>5. Len(cells') \in 1 .. Len(cells') /\ cells'[Len(cells')].value = d.params
      BY <2>1, <2>2
    <3>6. Held(k)'
      BY <1>1, <1>2, <1>3, <2>3, <3>1, <3>2, <3>4, <3>5 DEF Held
    <3>7. Progress(k)'
      BY <1>1, <1>2, <1>3, <1>5, <2>5, <3>1, <3>3, <3>4 DEF Progress, Registered
    <3>. QED
      BY <1>1, <1>2, <1>3, <3>1, <3>4, <3>6, <3>7 DEF CallInv, Given, SawFrozen, Outcome
  <2>. QED
    BY <1>5, <2>4, <2>5
<1>. QED
  BY <1>1, <1>4, <1>5, ResolveEffect

LEMMA RunOwn ==
    ASSUME TypeOK, TypeOK', NEW k \in Calls, CallInv(k), RunValidator(k)
    PROVE  CallInv(k)'
<1>1. PICK defs, n, d : defs = request[k].definitions /\ n = index[k] /\ d = Here(k)
  OBVIOUS
<1>2. /\ pc[k] = "validator" /\ n < Len(owned[k]) /\ Len(rules[k]) = n + 1
      /\ UNCHANGED <<frozen, actions, request, dto, owned, accepted>>
  BY <1>1, RunEffect DEF CallInv, registry
<1>3. /\ Asks(k) /\ frozen /\ owned[k] = defs /\ n \in Nat /\ d = defs[n + 1]
      /\ d.action \in Registered /\ actions[d.action].validator /\ d.params # "undecodable"
  BY <1>1, <1>2, AtActions DEF CallInv, Progress, Here
<1>4. CASE \/ /\ d.params = "panicking" /\ Return(k, "validator", Refused("panic"))
              /\ UNCHANGED <<cells, rules, index>>
           \/ /\ d.params = "refused"
              /\ Return(k, "validator", Failure("action", index[k], "invalid-params"))
              /\ UNCHANGED <<cells, rules, index>>
  <2>1. ~Usable(k, n + 1)
    BY <1>1, <1>3, <1>4 DEF Usable
  <2>2. PICK r : /\ Return(k, "validator", r) /\ r.err # "nil"
                 /\ r.err # "panic" => r.stage = "action" /\ r.index = n
    BY <1>1, <1>4 DEF Failure, Refused
  <2>. QED
    BY <1>1, <1>2, <1>4, <2>1, <2>2, ActionFailureOwn
<1>5. CASE /\ d.params \notin {"panicking", "refused"}
           /\ Go(k, "validator", "actions") /\ reply' = reply
           /\ cells' = Append(cells, [value |-> d.params, retained |-> FALSE])
           /\ rules' = [rules EXCEPT ![k] = [@ EXCEPT ![index[k] + 1] = Len(cells')]]
           /\ index' = [index EXCEPT ![k] = @ + 1]
  <2>1. PICK cell : cell = [value |-> d.params, retained |-> FALSE]
    OBVIOUS
  <2>2. /\ Len(cells') = Len(cells) + 1 /\ \A c \in 1 .. Len(cells) : cells'[c] = cells[c]
        /\ cells'[Len(cells')] = cell /\ Len(cells) \in Nat
    <3>1. cells \in Seq(CellSpace) /\ cell \in CellSpace
      BY <1>1, <1>2, <2>1, DecodedFacts DEF TypeOK, CellSpace
    <3>. QED
      BY <1>5, <2>1, <3>1, AppendFacts
  <2>3. /\ Len(rules'[k]) = n + 1 /\ \A i \in 1 .. n : rules'[k][i] = rules[k][i]
        /\ rules'[k][n + 1] = Len(cells')
    <3>1. rules[k] \in Seq(Nat) /\ n + 1 \in DOMAIN rules[k]
      BY <1>1, <1>2, <1>3 DEF TypeOK
    <3>2. rules'[k] = [rules[k] EXCEPT ![n + 1] = Len(cells')]
      BY <1>1, <1>5 DEF TypeOK
    <3>. QED
      BY <1>2, <1>3, <3>1, <3>2
  <2>4. index'[k] = n + 1 /\ pc'[k] = "actions"
    BY <1>1, <1>5, GoFacts DEF TypeOK
  <2>5. Usable(k, n + 1)
    BY <1>1, <1>3, <1>5 DEF Usable
  <2>. QED
    BY <1>1, <1>2, <2>1, <2>2, <2>3, <2>4, <2>5, MadeOwn
<1>. QED
  BY <1>1, <1>4, <1>5, RunEffect DEF CallInv

LEMMA CompleteOwn ==
    ASSUME TypeOK, TypeOK', NEW k \in Calls, CallInv(k), CompleteRules(k)
    PROVE  CallInv(k)'
<1>1. PICK defs, n, d : defs = request[k].definitions /\ n = index[k] /\ d = Here(k)
  OBVIOUS
<1>2. /\ pc[k] = "actions" /\ pc'[k] = "returned" /\ reply'[k] = Nil
      /\ n = Len(owned[k])
      /\ UNCHANGED <<frozen, actions, request, dto, owned, index, cells, rules, accepted,
                     validated>>
  BY <1>1, ReturnFacts DEF CompleteRules, registry, work, history
<1>3. /\ Asks(k) /\ frozen /\ owned[k] = defs /\ AllCompile(k) /\ request[k] # NoRequest
      /\ \A i \in 1 .. n : Usable(k, i)
  BY <1>1, <1>2, AtActions
<1>4. Expected(k) = <<"none", -1>>
  BY <1>1, <1>2, <1>3, ExpectedNone
<1>5. Expected(k)' = Expected(k)
  BY <1>2, ExpectedKept
<1>6. Outcome(k)'
  BY <1>2, <1>4, <1>5 DEF Outcome, Nil
<1>7. Held(k)'
  <2>1. \A i : Isolated(k, i)' <=> Isolated(k, i)
    BY <1>2 DEF Isolated
  <2>. QED
    BY <1>1, <1>2, <2>1 DEF CallInv, Held
<1>. QED
  BY <1>1, <1>2, <1>3, <1>6, <1>7, AllCompileKept
     DEF CallInv, Given, SawFrozen, Progress, Compiling, Compiled, Working, Asks

LEMMA OwnStep ==
    ASSUME TypeOK, TypeOK', NEW k \in Calls, CallInv(k), Begin(k) \/ Proceed(k)
    PROVE  CallInv(k)'
<1>1. CASE Register(k)
  <2>1. PICK error : error = RegisterError(request[k])
    OBVIOUS
  <2>2. /\ pc[k] = "begun" /\ request[k].op = "register" /\ pc'[k] = "returned"
        /\ UNCHANGED <<request, validated>>
    BY <1>1, <2>1, RegisterEffect, ReturnFacts
  <2>. QED
    BY <2>2, OtherOwn DEF Asks
<1>2. CASE Freeze(k)
  <2>1. /\ pc[k] = "begun" /\ request[k].op = "freeze" /\ pc'[k] = "returned"
        /\ UNCHANGED <<request, validated>>
    BY <1>2, ReturnFacts DEF Freeze, history
  <2>. QED
    BY <2>1, OtherOwn DEF Asks
<1>. QED
  BY <1>1, <1>2, BeginOwn, SnapshotOwn, ValidateOwn, ConditionOwn, ResolveOwn, RunOwn,
     CompleteOwn DEF Proceed

LEMMA InitInv == Init => RegistryInv
<1> SUFFICES ASSUME Init PROVE RegistryInv
  OBVIOUS
<1> USE DEF Init
<1>1. Nil \in ReplySpace /\ Nil.err = "nil" /\ NoAction \in [by : Nat, validator : BOOLEAN]
      /\ <<>> \in Seq(DefinitionSpace) /\ <<>> \in Seq(CellSpace) /\ <<>> \in Seq(Nat)
      /\ "idle" \in Points /\ NoRequest.op = "none"
  BY ReplyTyping DEF Nil, NoAction, Points, NoRequest
<1>2. TypeOK
  BY <1>1 DEF TypeOK
<1>3. Registrations
  <2>1. Registered = {}
    BY DEF Registered
  <2>2. {actions[n].by : n \in Registered} = {}
    BY <2>1
  <2>3. Cardinality({}) = 0 /\ IsFiniteSet({})
    BY FS_EmptySet
  <2>4. 0 <= MaxActions
    BY ActionsAssumption
  <2>. QED
    BY <2>1, <2>2, <2>3, <2>4 DEF Registrations, RegistrationsHold
<1>4. ASSUME NEW k \in Calls PROVE CallInv(k)
  <2>1. /\ pc[k] = "idle" /\ request[k] = NoRequest /\ index[k] = 0 /\ rules[k] = <<>>
        /\ ~(validated[k] > 0)
    OBVIOUS
  <2>. QED
    BY <2>1 DEF CallInv, Given, SawFrozen, Held, Progress, Outcome, Compiling, Compiled, Working
<1>. QED
  BY <1>2, <1>3, <1>4 DEF RegistryInv

LEMMA InvStep == RegistryInv /\ [Next]_vars => RegistryInv'
<1> SUFFICES ASSUME RegistryInv, [Next]_vars PROVE RegistryInv'
  OBVIOUS
<1>1. TypeOK /\ Registrations /\ TypeOK' /\ \A k \in Calls : CallInv(k)
  BY TypeStep DEF RegistryInv
<1>2. Registrations'
  BY <1>1, RegistrationsStep
<1>3. ASSUME NEW k \in Calls, Begin(k) \/ Proceed(k), NEW j \in Calls PROVE CallInv(j)'
  <2>1. CASE j = k
    BY <1>1, <1>3, <2>1, OwnStep
  <2>2. CASE j # k
    <3>1. Held(k)
      BY <1>1 DEF CallInv
    <3>2. /\ request'[j] = request[j] /\ pc'[j] = pc[j] /\ reply'[j] = reply[j]
          /\ dto'[j] = dto[j] /\ owned'[j] = owned[j] /\ index'[j] = index[j]
          /\ rules'[j] = rules[j] /\ validated'[j] = validated[j]
      BY <1>1, <1>3, <2>2, <3>1, Elsewhere
    <3>3. Grown(1 .. Len(cells))
      BY <1>1, <1>3, <3>1, Elsewhere
    <3>4. pc[j] = "validator" => rules[j][Len(rules[j])] \in 1 .. Len(cells)
      BY <1>1 DEF CallInv, Held
    <3>. QED
      BY <1>1, <3>2, <3>3, <3>4, OthersKept
  <2>. QED
    BY <2>1, <2>2
<1>4. ASSUME NEW k \in Calls, NEW i \in DOMAIN dto[k], CallerEdits(k, i), NEW j \in Calls
      PROVE  CallInv(j)'
  <2>1. /\ UNCHANGED <<registry, request, pc, reply, owned, index, cells, rules, history>>
        /\ dto'[j] = dto[j] \/ pc[j] \notin {"begun", "validate"}
    BY <1>1, <1>4 DEF CallerEdits, TypeOK
  <2>2. Grown(1 .. Len(cells)) /\ validated' = validated
    BY <1>1, <2>1 DEF Grown, registry, history, TypeOK
  <2>3. pc[j] = "validator" => rules[j][Len(rules[j])] \in 1 .. Len(cells)
    BY <1>1 DEF CallInv, Held
  <2>. QED
    BY <1>1, <2>1, <2>2, <2>3, OthersKept
<1>5. ASSUME NEW c \in DOMAIN cells, RetainedEdit(c), NEW j \in Calls PROVE CallInv(j)'
  <2>1. PICK spared : spared = {rules[k][Len(rules[k])] : k \in {i \in Calls : pc[i] = "validator"}}
    OBVIOUS
  <2>2. /\ UNCHANGED <<registry, request, pc, reply, dto, owned, index, rules, history>>
        /\ cells[c].retained /\ c \notin spared
        /\ cells' = [cells EXCEPT ![c] = [cells[c] EXCEPT !.value = "other"]]
    BY <1>5, <2>1 DEF RetainedEdit
  <2>3. Grown(spared) /\ validated' = validated
    BY <1>1, <2>2 DEF Grown, registry, history, TypeOK
  <2>4. pc[j] = "validator" => rules[j][Len(rules[j])] \in spared
    BY <2>1
  <2>. QED
    BY <1>1, <2>2, <2>3, <2>4, OthersKept
<1>6. ASSUME UNCHANGED vars, NEW j \in Calls PROVE CallInv(j)'
  <2>1. Grown(1 .. Len(cells)) /\ validated' = validated
    BY <1>1, <1>6 DEF Grown, vars, registry, history, work, TypeOK
  <2>2. pc[j] = "validator" => rules[j][Len(rules[j])] \in 1 .. Len(cells)
    BY <1>1 DEF CallInv, Held
  <2>. QED
    BY <1>1, <1>6, <2>1, <2>2, OthersKept DEF vars, work
<1>7. \A j \in Calls : CallInv(j)'
  BY <1>3, <1>4, <1>5, <1>6 DEF Next, Terminated
<1>. QED
  BY <1>1, <1>2, <1>7 DEF RegistryInv

LEMMA Inductive == Spec => []RegistryInv
  BY InitInv, InvStep, PTL DEF Spec
-----------------------------------------------------------------------------
(* No compilation reads the action map while a registration writes it: a   *)
(* compilation got the map from a frozen registry, and Register refuses    *)
(* everything from then on (dynamic/registry.go:23-25, 105-106).           *)
THEOREM MapStable == Spec => NoWriteWhileRead
<1>1. RegistryInv /\ [Next]_vars =>
        [(\E k \in Calls : Compiling(k)) => UNCHANGED actions]_vars
  <2> SUFFICES ASSUME RegistryInv, Next, NEW k \in Calls, Compiling(k)
               PROVE  actions' = actions
    OBVIOUS
  <2>1. TypeOK /\ frozen /\ \A j \in Calls : Held(j)
    BY DEF RegistryInv, CallInv, SawFrozen
  <2>2. ASSUME NEW j \in Calls, Begin(j) \/ Proceed(j) PROVE actions' = actions
    BY <2>1, <2>2, Elsewhere DEF Grown
  <2>. QED
    BY <2>2 DEF Next, Terminated, CallerEdits, RetainedEdit, vars, registry
<1>. QED
  BY <1>1, Inductive, PTL DEF Spec, NoWriteWhileRead

(* Whatever the interleaving of goroutines, each successful Register owns  *)
(* one name, the registry holds nothing else, and it holds no more than    *)
(* its limit (dynamic/registry.go:38-41).                                  *)
THEOREM RegistrationsKept == Spec => []RegistrationsHold
<1>1. RegistryInv => RegistrationsHold
  BY DEF RegistryInv, Registrations
<1>. QED
  BY <1>1, Inductive, PTL

(* The actions of a compiled rule set hold the parameters that were given  *)
(* for them, decoded into values that no validator was shown and no caller *)
(* holds (dynamic/definition.go:80-81, dynamic/registry.go:43-47).         *)
THEOREM ParamsIsolated == Spec => []ParamsAreIsolated
<1>1. RegistryInv => ParamsAreIsolated
  <2> SUFFICES ASSUME RegistryInv, NEW k \in Calls, Compiled(k)
               PROVE  /\ Len(rules[k]) = Len(request[k].definitions)
                      /\ \A i \in DOMAIN rules[k] :
                            cells[rules[k][i]].value = request[k].definitions[i].params
    BY DEF ParamsAreIsolated
  <2>1. /\ TypeOK /\ owned[k] = request[k].definitions /\ Len(rules[k]) = Len(owned[k])
        /\ \A i \in 1 .. Len(owned[k]) : Isolated(k, i)
    BY DEF RegistryInv, CallInv, Given, Held
  <2>2. DOMAIN rules[k] = 1 .. Len(rules[k])
    BY <2>1 DEF TypeOK
  <2>3. ASSUME NEW i \in DOMAIN rules[k]
        PROVE  cells[rules[k][i]].value = request[k].definitions[i].params
    <3>1. Isolated(k, i)
      BY <2>1, <2>2
    <3>2. [value |-> owned[k][i].params, retained |-> FALSE].value = owned[k][i].params
      OBVIOUS
    <3>. QED
      BY <2>1, <3>1, <3>2 DEF Isolated
  <2>. QED
    BY <2>1, <2>3
<1>. QED
  BY <1>1, Inductive, PTL

(* Compilation fails with its first failure: by phase, then by definition, *)
(* whatever other goroutines, callers and validators do meanwhile; and no  *)
(* validator is run unless every condition compiled                        *)
(* (dynamic/definition.go:75-79).                                          *)
THEOREM FirstFailureHolds == Spec => []FirstFailureWins
<1>1. RegistryInv => FirstFailureWins
  <2> SUFFICES ASSUME RegistryInv PROVE FirstFailureWins
    OBVIOUS
  <2>1. ASSUME NEW k \in Calls, Asks(k)
        PROVE  /\ Outcome(k)
               /\ validated[k] > 0 => Expected(k)[1] \in {"none", "action"}
    <3>1. TypeOK /\ Outcome(k) /\ (validated[k] > 0 => AllCompile(k))
      BY DEF RegistryInv, CallInv, Progress
    <3>. QED
      BY <2>1, <3>1, ExpectedAfterConditions
  <2>. QED
    BY <2>1 DEF FirstFailureWins, Outcome, Asks
<1>. QED
  BY <1>1, Inductive, PTL
=============================================================================
