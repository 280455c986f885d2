------------------------------ MODULE MCRegistry ------------------------------
(* A small registry for TLC: room for one action fewer than there are names. *)
EXTENDS Registry

ThreeCalls == 1 .. 3
ThreeNames == {"a", "b", "c"}

RegisterOf(name, form, validator) ==
    [op |-> "register", receiver |-> "registry", name |-> name, form |-> form,
     validator |-> validator]
CompileOf(op, definitions) ==
    [op |-> op, receiver |-> "registry", source |-> "strict",
     definitions |-> definitions, compiler |-> "sound"]

Sound(name, params) ==
    [id |-> "sound", fields |-> "sound", when |-> "sound", action |-> name, params |-> params]

SomeRequests ==
    {RegisterOf("a", "sound", TRUE), RegisterOf("a", "sound", FALSE),
     RegisterOf("b", "sound", TRUE), RegisterOf("c", "sound", FALSE), RegisterOf("b", "bad-schema", FALSE),
     [op |-> "freeze", receiver |-> "registry"],
     CompileOf("compile", <<>>),
     CompileOf("compile", <<Sound("a", "valid"), Sound("a", "valid")>>),
     CompileOf("compile-JSON", <<Sound("a", "valid"), Sound("a", "refused")>>),
     [CompileOf("compile-JSON", <<[Sound("a", "valid") EXCEPT !.id = "faulty"]>>)
         EXCEPT !.source = "faulty"],
     CompileOf("compile", [i \in 1 .. 3 |-> [Sound("b", "valid") EXCEPT !.fields = "faulty"]]),
     CompileOf("compile", <<Sound("a", "panicking")>>),
     CompileOf("compile", <<Sound("a", "undecodable"), [Sound("a", "valid") EXCEPT !.when = "faulty"]>>),
     CompileOf("compile", <<[Sound("b", "valid") EXCEPT !.when = "faulty", !.id = "faulty"],
                            [Sound("a", "valid") EXCEPT !.fields = "faulty"]>>),
     CompileOf("compile-JSON", <<[Sound("a", "valid") EXCEPT !.id = "faulty"]>>),
     [CompileOf("compile", <<>>) EXCEPT !.compiler = "nil"]}
=============================================================================
