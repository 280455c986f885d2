# A TLA+ model of Rulite

Rulite is a rule engine for Go: an application compiles rules, each a condition and an action over one
input, and fires them in one synchronous, deterministic pass. Around that core are a runtime that swaps
compiled rule sets while they are in use, condition traces, observers, an OpenTelemetry adapter, a package
that reads rules from data, and one that writes conditions in CEL. This directory models the parts that keep
state, checks them with TLC on small instances, and proves the central invariants for every instance with
TLAPS.

Contents: [the system](#the-system) · [modules](#modules) · [runs](#runs) · [bounds](#bounds) ·
[fairness](#fairness) · [proofs](#proofs) · [findings](#findings) · [not modelled](#what-is-not-modelled) ·
[plan](#plan).

## The system

| Component | State it keeps | Operations | What is hard about it | What makes it correct |
| --- | --- | --- | --- | --- |
| Execution engine (`execution_internal.go`, `engine.go`, `policy.go`) | the ledger of one call: counts, sparse rule records, failures, error causes, the evaluated frontier, a record per group | `Fire` and, inside it, a boundary between every two callbacks | the caller's context ends at any moment; five places ask it; callbacks fail or panic under four policies; groups end locally inside a pass that ends globally | the Result, the group views and the error tell exactly what the callbacks did; nothing starts after the end of the context was seen; recorded facts are final |
| Observer delivery (`observer_internal.go`) | whether the observer is still called | batches of events between the engine's steps | an observer fails in the middle of a batch | the events are those the Result calls for; an observer never changes the outcome |
| Results and explanations (`result.go`, `group_result.go`) | none beyond the ledger | `Rule`, `Matched`, `Fired`, `Group`, `Explain` | rule views are computed from sparse data and binary search | every view equals what happened |
| Compilation (`compile_internal.go`) | the rule set under construction | `Compile`, `CompileEntries` | mistakes nested in groups, two sorts, one map used for two purposes, flattening | every mistake is reported once; order, callbacks, lookups and entries agree |
| Runtime (`runtime.go`, `snapshot.go`) | the current publication, the revision, a mutex | `Publish`, `Fire`, `Snapshot` | concurrent and nested calls, the last revision | an atomic log of publications; rules and identity of one publication |
| Condition traces (`condition.go`, `condition_trace_internal.go`) | a tree of recordings of one condition | `All`, `Any`, `Not`, `freeze` | a recording context may be reused, kept, used by another goroutine, during or after its operator, or handed to a nested `Fire` | the frozen tree never claims what did not happen |
| OpenTelemetry adapter (`otel/adapter.go`) | span, counters and limits of one call | `Fire`, the private observer, the cleanup | every provider call may panic | one span end; telemetry says what the Result says |
| Dynamic registry and definitions (`dynamic/registry.go`, `dynamic/definition.go`) | the actions and whether they are frozen | `Register`, `Freeze`, `Compile`, `CompileRules`, `CompileJSON` | goroutines race to register, freeze and compile; callers and validators keep references | no write while the map is read, no lost registration, isolated parameters, a definite first failure |
| Parameter schemas (`dynamic/params.go`) | the types seen and active in one walk | `validateParamType` | shared and recursive types under limits | what is accepted is sound, what is refused has the fault |
| CEL bindings (`cel/binding.go`, `cel/compiler.go`, `cel/function.go`, `cel/schema.go`, `cel/input.go`) | the registrations of a builder; one budget per condition call | `NewBuilder`, `Bind`, `BindProto`, `Function`, `Build`, `Compile`, the compiled condition | two kinds of types share one space of names; failed and late registrations; the context ends between projections; a budget shared by bindings | what is bound makes one sound schema; an answer stands for all bindings of its own compiler within their common limits; a failure names its cause |
| CEL native values (`cel/native_equality.go`, `cel/native_budget.go`, `cel/native_conversion.go`) | one budget and one memory of pairs per operation | equality, literals, arguments, lookups | shared and cyclic objects, NaN, limits, truncation and overflow, fields in the order of a Go map | an answer is derivable without memory or budget; a conversion means what it was given |

How they interact. Compilation turns registrations into the flat list of rules and the entries that
`Layout!Compiled` describes; an engine adds its default options, a call its own, and an execution walks the
entries. The runtime hands one published engine to each
`Fire`; callbacks may call the runtime again. The engine calls conditions, actions and, between its steps, the
observer, all on the caller's goroutine. A traced condition receives a context with a recording, into which the
operators it calls write. The OpenTelemetry adapter is an observer with a frame of its own around `Fire`. The
dynamic package compiles definitions, through CEL for conditions and the registry for actions, into ordinary
rules. The caller's context is shared by all of them and ends when it likes.

## Modules

| Module | Models | State and actions in terms of the code |
| --- | --- | --- |
| `Layout` | what compilation leaves an execution: entries | `Compiled` is the shape of `compiledEntry` lists: they meet and cover every rule |
| `FireContract` | the abstract promise of `Fire` | what callbacks were called, what they returned, the stop reason; no cursor, ledger, group record or observer |
| `Execution` | one `Fire` | `pc`, `entry`, `order` are the place in `executeRules`; `counts`, `records`, `failures`, `causes`, `groups`, `evaluatedThrough` are the fields of `Result` and `ExecutionError`; `pending` is the batch of events being delivered. Each action is the code between two places where something outside the engine may happen: a callback returns, the context is asked, an event is delivered. `cond`, `act` and `late` are history: what the callbacks did |
| `ExecutionResult` | `Result.Rule`, `Result.Group`, `Matched`, `Fired` | the views as functions of the ledger, and the properties that compare them with `cond` and `act` |
| `ExecutionProofs` | | theorems about `Execution`, its refinement of `FireContract`, and `ExecutionResult` |
| `Publications` | the abstract runtime | an append-only log of publications with an atomic effect for each call |
| `Runtime` | `Runtime[T]` | one action per locked or atomic step of `Publish`, `Fire` and `Snapshot`; `parent` is the call whose callback makes a nested one |
| `RuntimeProofs` | | theorems about `Runtime` and its refinement of `Publications` |
| `ConditionTrace` | the recordings of one traced condition | `nodes` are `conditionRecording`s, `stack` is the call stack of each goroutine, with the frames of operators, of callbacks and of nested calls of `Fire`; one action per locked section; `frozen` is the copy made by `freeze`; `operators`, `answer`, `returned` and `intruders` are history |
| `ConditionTraceProofs` | | theorems about `ConditionTrace` |
| `OtelAdapter` | `otel.Adapter` over `Execution` | the handling of each event is a sequence of provider calls, each of which may panic; extends the states and steps of `Execution` |
| `OtelProofs` | | theorems about `OtelAdapter` |
| `Compile` | `compileDefinitions` | validation of entry after entry and member after member, the sorts, the placing of rules, groups and lookups, with the scratch map as a variable |
| `Engine` | `NewEngineFromRuleSet`, the preflight of `Fire`, `configureExecution` | extends `Compile`: an engine is made from the compiled set and fired, each time from its own defaults; `started` is what every call ran with or was refused for |
| `CompileProofs` | | theorems about `Compile` and `Engine` |
| `Registry` | `Registry`, `Compile`, `CompileRules`, `CompileJSON` of package dynamic | one action per locked section, per condition compiled, per action resolved and per validator run; `dto` and `owned` are the caller's definitions and the copy, `cells` the decoded parameter values, so that sharing one shows |
| `RegistryProofs` | | theorems about `Registry` |
| `ParamSchema` | `validateParamType` | `stack` is the recursion, `seen` the map of that name; the active types are those on the stack |
| `ParamSchemaProofs` | | theorems about `ParamSchema` |
| `CelBuilder` | `cel.Builder` and `Compiler.Compile` | `bindings`, `functions` and `compiler` are the fields of those names; `native`, `addFile` and `Environment` are the functions that build the candidate schema, as functions that return the schema or its first error |
| `CelCondition` | one call of the condition that a builder's host compiled | extends `CelBuilder`, whose steps go on before and during the call; `pc` is the place in `Compile`'s closure, `projectBindings`, `inputBudget` or `evaluate`; `budget` is the `inputBudget`; a projected value is the sequence of charges its traversal makes; `late` is history |
| `CelProofs` | | theorems about `CelBuilder`, `CelCondition`, `CelEquality` and `CelLookup` |
| `CelEquality` | `nativeEquality.equal` under one `nativeBudget` | `frames` is the recursion: each frame has its question, the fields, indexes or keys it has left (`keys`) and the calls about the one at hand (`todo`); `remaining` is the budget, `equaled` the pairs of pointers found equal |
| `CelIntegers` | the integers of CEL and of the platform | their ranges, as powers of their widths |
| `CelConversion` | `nativeBudget.convert`, literals, arguments of functions | the conversions are operators that pass a budget along, one operation is one step: nothing of it is visible until it is over |
| `CelLookup` | `nativeIntegerMap` | `Find`, `Get`, `Contains` and `Equal` are functions of one map or two; one operation is one step |
| `CelNative` | one native operation | a behaviour of `ComparisonSpec`, about which the theorems are, or one operation of `CelConversion` or of `CelLookup` |
| `MC...` | | small instances of the modules above |

`OtelAdapter` composes with `Execution` (it is the observer of the execution it wraps), `ExecutionResult` reads
its state, `Engine` with `Compile`, `CelCondition` with `CelBuilder`. `Compile` and `Execution` meet in `Layout`: one
establishes `Compiled` (`OrderDeclared`), the other assumes it of the entries of its `Calls`; the configurations
there are those that `Engine` can start a call with. `Runtime` abstracts a `Fire` to the engine and identity it
runs with.

A definition whose name has a suffix after an underscore (`Remembered_Identity`, `Masked_Inherited`) is a seeded
mistake: the definition as a plausible bug would have it. No specification uses it. It documents which mistake
each property catches.

## Runs

| Run | Module and configuration | Question | States |
| --- | --- | --- | --- |
| `execution` | `MCExecution` | does a Fire tell the truth, at every step, in counts, views, group views, error and events, for all policies, panic modes, callback outcomes and context endings; does a failing observer leave the outcome alone (refinement of `FireContract`)? | 1.0 million |
| `runtime` | `MCRuntime` | do four concurrent or nested calls implement the log of publications, does the revision stop at its maximum, does every call return? | 271 thousand |
| `condition_trace` | `MCConditionTrace.cfg` | with nested operators, nested Fires, a second goroutine and kept contexts: does a node claim an operator only if it was the only one, does it follow from its children, do a nested Fire's conditions stay out? | 1.8 million |
| `condition_trace_panic` | `MCConditionTrace`, `MCConditionTracePanic.cfg` | *violated*: see findings | – |
| `nested_fire` | `MCConditionTrace`, `MCNestedFire.cfg` | *violated*: see findings | – |
| `otel_adapter` | `MCOtelAdapter` | does the span end once, and do span and metrics agree with the Result, whichever provider call panics? | 579 thousand |
| `compile` | `MCCompile` | are all mistakes and only those reported, do order, callbacks, lookups and entries agree, and does each call run with the options it should? | 180 thousand |
| `registry` | `MCRegistry` | do three interleaved calls keep the registry, the snapshot and the parameters apart, and report the first failure? | 158 thousand |
| `param_schema` | `MCParamSchema.cfg` | is the verdict on every small type graph the right one? | 111 thousand |
| `param_schema_depth` | `MCParamSchema`, `MCParamSchemaDepth.cfg` | *violated*: see findings | – |
| `cel_condition` | `MCCelCondition` | do registrations in any order make a sound schema or a due refusal, does an answer stand for all bindings of its compiler within their common limits, does a failure name its causes, whenever the context ends? | 65 thousand |
| `cel_native` | `MCCelNative` | is every answer about every small heap derivable, every abort due, every conversion true, every lookup exact? | 210 thousand |

What the properties say is written above each of them, in the module that states it. The ones that say most:

- `ImplementsContract`: whatever the observer does, the callbacks called and the stop reason are those of
  `FireContract`, which knows no cursor, no ledger and no observer.
- `CountsAreTrue`, `ViewsAreTrue`, `HolesAreExplained`, `GroupsAreTrue`, `ErrorIsComplete`: everything a caller
  can ask of the Result and the error, compared with what the callbacks did.
- `EventsTellTheStory`: the whole event stream, or the prefix up to the observer's failure, as a function of the
  outcome.
- `ImplementsLog`: `Publish`, `Fire` and `Snapshot` take effect atomically, in spite of the lock-free reads.
- `OneOperator`, `TreeFollows`: no misuse of a recording context makes a tree claim what did not happen.
- `SpanEndsOnce`, `SpanTellsTheResult`, `MetricsTellTheResult`: telemetry under partial failure.
- `NestedConditionsStayOut`: the context of a nested Fire's condition never leads to the enclosing recording.
- `IssuesAreComplete`, `OrderIsDeclared`, `LookupsAgree`: the compiled set is the one the registrations describe,
  and its entries are what `Execution` assumes.
- `OptionsApplyInOrder`: every call runs with the last setting of each kind among the engine's options and its own,
  unaffected by other calls, or is refused for the first thing wrong.
- `NoWriteWhileRead`: `snapshot` hands out the shared map, read without a lock afterwards, and no write meets
  such a read.
- `SchemaIsSound`, `RefusalHasReason`: the walk over types and files, with its early returns, decides what the graph
  of types says, in whatever order bindings come.
- `AnswerIsWhole`, `FailureIsTrue`: a condition answers for the bindings its compiler was built with, all of them.
- `AnswerIsDerived`, `LimitIsExceeded`: the memory of compared pairs and the shared budget never change an answer.
- `ConversionIsTrue`, `LookupIsExact`: a conversion succeeds exactly within ranges and limits, whatever the order of
  the fields, and reads back as what was given; numbers of different kinds meet only when they are the same number.

## Bounds

Every bound is a constant or a set in an `MC` module.

- `execution`: without an observer, no rule, three rules, groups of two among rules, empty groups, two groups in a
  row, for every configuration. Two members are needed to distinguish a selected member from the suffix after it, a
  third rule to have something before and after a stop. With an observer, up to two rules and each kind of group, for
  every configuration: an event is followed and preceded by others in each of these. The context is canceled with a
  cause of its own or passes its deadline without one.
- `runtime`: four calls, two engines, `MaxRevision = 2`, so that two publications exhaust the counter, a third is
  refused, and a fourth call reads or fires meanwhile. The width of the counter is a parameter in the proofs.
- `condition_trace`: `MaxNodes = 4` recordings, nested Fires and running goroutines together, `MaxChildren = 2`
  children for an operator, `MaxCalls = 3` operators and nested Fires called together, one extra goroutine. Four
  recordings give a child with a sibling and a grandchild; with the goroutine running or a Fire made there are three,
  enough for misuse of the root's and a child's context, by a nested condition with or without a recording of its own
  and by its action. `condition_trace_panic` and `nested_fire` need one child only.
- `otel_adapter`: two rules, ungrouped or in a first-fire group, event limits of zero, one and two, filters that
  select some rules, counters that are all enabled, some or none, the rule counter enabled or not; every provider call
  may panic.
- `compile`: two entries with duplicate, malformed and missing parts, and three valid entries of rules and groups
  of up to two members under two priorities; for one rule, lists of up to two options of the engine and one of the call,
  or the reverse, among valid and invalid ones of every kind, followed by a second call that shows what the first left;
  every combination of a refused or zero set, nil context and nil input.
- `registry`: three calls, three names, `MaxActions = 2`, `MaxDefinitions = 2`, definitions in lists of up to three
  that exhibit every kind of failure, and a JSON source that does not decode.
- `param_schema`: four types, `MaxDepth = 2`, `MaxTypes = 3`: every graph of a representative family, limits met
  by some and not by others.
- `cel_condition`: struct types that share, repeat, nest, recur and collide, with up to three fields; one struct with
  two fields under every combination of Go and JSON names, with one that a field may have and a binding may not; an
  environment that cel-go refuses; three files that import each other; limits of three
  bindings, two structs, two fields, two files, three levels, each met and passed by some host. For calls, up to three
  bindings of both kinds, values of up to four charges, limits of two, six, three and three with a look at the context
  every second visit: each limit is met by one value alone and by several together.
- `cel_native`: three structs that point at each other, or two with lists, byte strings or maps; limits chosen
  so that depth, visits, items and bytes are each exhausted by some comparison. Literals of two fields among all
  kinds, and of three at the edges of `SmallLimits`, so that each limit is passed by one field and by several
  together. CEL's integers have four bits and the platform's three, so every number, half of one included, is
  looked up, and both kinds of overflow happen; so is an unknown and an error. Maps are compared with integer maps of
  either kind and with maps that cel-go looks up, with and without keys of other kinds.

Deadlock is checked in every run: the modules have a `Terminated` (`Decided`, `Finished`, `FireDone`) step for the states in
which everything is over. In `cel_condition` a builder can always go on.

## Fairness

`Runtime!FairSpec` is weak fairness of each call's own steps: the goroutines are scheduled and callbacks return.
The mutex needs no strong fairness because the calls are finite in number, so a waiting call is eventually alone.
Under this `EveryCallReturns` holds, also for calls nested in a callback of another.

All other properties are safety properties and need none. `Execution` states no fairness: `execute` is a loop over a
finite slice that waits for nothing, so that whether it comes back depends on nothing but its callbacks.

## Proofs

The theorems hold for all values of the constants: any compiled layouts (any number and size of groups), any subset
of configurations and endings, any list of definitions and of options, any number of calls, goroutines, recordings,
operators and actions, any type graph, any width of the revision, any hosts, limits and traversals of CEL inputs,
any objects compared, any integer maps and widths of integers.

| Theorem | Says |
| --- | --- |
| `TypeCorrect` | `TypeOK` of `Execution` always |
| `LedgerCorrect` | `LedgerInv` always: the cursor, the sorted records and the counts at every step |
| `ReturnedCounts` | when Fire returns, the counts partition the rules |
| `NoCallbackAfterEnd` | `EndIsFinal`: no callback starts once one has returned to an ended context |
| `SelectsOnce` | `OneSelection`: no group selects twice, and nothing of it is evaluated after its selection |
| `FireImplementsContract` | `ImplementsContract`: refinement of `FireContract`, whatever the observer does |
| `CountsTrue` | `CountsAreTrue`: each count is the number of rules to which that happened |
| `GroupsTrue` | `GroupsAreTrue`: each group view says which member selected and how the group ended |
| `HolesExplained` | `HolesAreExplained`: the reason given for a rule that was not called is the true one |
| `FactsFinal` | `FactsAreFinal`: no step rewrites what was told |
| `ErrorComplete` | `ErrorIsComplete`: the error holds every failure once, in order, and what was seen of the context |
| `ViewsTrue` | `ViewsAreTrue`: searching the sparse ledger yields what each rule's callbacks did |
| `EventsTold` | `EventsTellTheStory`: a healthy observer gets exactly the events the Result calls for, in order; a failed one a prefix of them |
| `CompileInvariant` | `CompileInv`: the invariant of compilation from which the next three follow |
| `IssuesComplete` | `IssuesAreComplete`: every mistake is reported once and in order, and only lists with a mistake are refused |
| `OrderDeclared` | `OrderIsDeclared`: one place for every registration, in the declared order; the entries are a layout as `Execution` assumes |
| `LookupsTrue` | `LookupsAgree`: the tables hold the compiled positions of the identities and nothing else |
| `EngineCompiles` | a behaviour of `Engine` is one of `Compile`, so the above hold of it |
| `EngineInvariant` | `EngineInv`: the engine and each started call are the left-to-right reading of their options |
| `OptionsInOrder` | `OptionsApplyInOrder`: the last setting of each kind applies, or the first thing wrong is named |
| `MutualExclusion` | `Exclusion`: the mutex and the critical section of `Publish` |
| `RevisionsNeverWrap` | `RevisionCounts`: the visible revision counts the stores and stays in its width |
| `RuntimeImplementsLog` | `ImplementsLog`: refinement of `Publications` |
| `OneOperatorTrue` | `OneOperator`: a tree claims an operator only for a callback that called one and gave its answer |
| `TreeTrue` | `TreeFollows`: an operator node follows from its children, for any interleaving of goroutines |
| `NestedOut` | `NestedConditionsStayOut`: a nested Fire's conditions do not write into the enclosing recording |
| `MapStable` | `NoWriteWhileRead`: no write of the action map meets an unlocked read |
| `RegistrationsKept` | `RegistrationsHold`: each success owns one name, and nothing else is registered |
| `ParamsIsolated` | `ParamsAreIsolated`: no caller or validator can reach the parameters of a compiled action |
| `FirstFailureHolds` | `FirstFailureWins`: a compilation fails with its first failure |
| `FireIsExecution` | a call through the adapter is a call of `Execution`, so all of the above hold of it |
| `SpanEndedOnce` | `SpanEndsOnce`: one end of the span, after the last event, whoever panics |
| `SpanTold` | `SpanTellsTheResult`: the span holds the first eligible events and accounts for the others; its attributes repeat the Result |
| `MetricsTold` | `MetricsTellTheResult`: the counters got what happened or a prefix of it, whatever the trace filtered or dropped |
| `AcceptedSound` | `AcceptedIsSound`: an accepted type has no fault, no recursion, and is within the number of types |
| `RefusalTrue` | `RefusalIsTrue`: a refused type has the fault that the refusal names |
| `CallInvariant` | `CallInv`: what a call of a condition has passed and spent at each place, from which the next two follow |
| `AnswersWhole` | `AnswerIsWhole`: an answer stands for all bindings of its own compiler, within their common limits, before the context was seen to end |
| `FailuresTrue` | `FailureIsTrue`: a failure names a cause that the call met, and first |
| `BuilderInvariant` | `BuilderInv`: what was registered, in any order and after any refusals, is what `Environment` accepts |
| `SchemaSound` | `SchemaIsSound`: the types and messages bound make one schema, without two of a name, within the limits |
| `RefusalsReasoned` | `RefusalHasReason`: a refused registration has the fault that the refusal names |
| `AnswersDerived` | `AnswerIsDerived`: true only of values alike down to their last leaf, false only of values that differ somewhere, whatever is shared, cyclic or remembered |
| `LimitsExceeded` | `LimitIsExceeded`: a comparison aborts only where a full walk of the left value passes a limit |
| `LookupsExact` | `LookupIsExact`: an integer map finds the entry of the very number asked for; two maps are equal when they have equal entries |

*Assumptions.* `LayoutsAssumption` says that every layout is `Compiled`, which `OrderDeclared` proves of every layout
that `Compile` leaves. `DefinitionsAssumption` (`Compile`) and `UsesAssumption` give registrations and options the
types that Go gives them (an identity is any string, a priority any integer, a mode any byte), `IDsAssumption` says
that the empty identity is not valid. `ActionsAssumption` (`Registry`) and `RootAssumption` (`ParamSchema`) say that
the names of actions and the types of a program are finitely many, `LimitsAssumption` that the limits are numbers, the
one of types at least one, that of `Registry` (`DefinitionsAssumption`) among them, `ObservedAssumption`
(`OtelAdapter`) that an adapter's call has an observer, its own, and `GoroutinesAssumption` (`ConditionTrace`) that
the goroutine which runs `Fire` is not one that a condition started. `HostsAssumption` (`CelBuilder`) says that a host
has finitely many types and files, that what they name exists, that a file names a message once (protobuf's own
registry sees to it), that a cost limit is unsigned and that cel-go accepts an environment in which nothing is
registered; the assumptions of `CelCondition` that limits are numbers and a traversal is a list of charges.
`ComparisonsAssumption` (`CelEquality`) says what a Go program can leave in memory: pointers, lists, fields and finite
maps lead to values, nil ones to none, a map's keys are strings, integers or bools (`cel/schema.go:94-97`), and two
values of one type have that type's shape; `ComparisonLimitsAssumption` that the limits of a comparison are numbers.
`LookupsAssumption` (`CelLookup`) says that an integer map has finitely many keys, each an integer of its kind and
platform, and that any other map is finite, `WidthAssumption` (`CelIntegers`) that the platform's integers are no
wider than CEL's. The others give constants their types. All are evaluated by TLC on the instances.

*Argument for Execution.* `TypeOK` is not inductive alone: that `order` is a rule while one is visited rests on
`Position`, which places the cursor in its entry and the frontier behind it. `Position` needs only types.
`RecordsSorted` needs `Position` (a new record belongs to the rule under the cursor, and all others are behind
it); `CountsPartition` needs to know whether a rule is in flight. The conjunction is inductive and implies each.
`EndIsFinal` needs that after `late` the place is one from which only stopping is possible; `OneSelection` that a
selected group is left before its next member. Both are stated as further conjuncts and proved relative to the
first. Each step lemma has one case per action of `Next`.

*Argument for the contract.* A call of a callback is the contract's `Evaluate` or `Act`, handing out the Result its
`Conclude`, an observer's propagated panic its `Unwind`; all else stutters. The contract lets a rule be evaluated only
when every earlier one was passed, and a stop reason be returned only when a callback's outcome, the context or the
end of the rules called for it. So the invariant says that the rules behind the cursor have been passed (`Behind`),
which needs that a group is resolved by the member under the cursor and no other (`Marked`), that a panic is never
walked past (`Calm`), and that a stop reason once chosen is still one that the contract allows (`Concluding`).

*Argument for the Result.* The counts are compared with the callbacks field by field (`Tally`): at each place, a
field is the number of rules to which it applies by their callbacks, but for the one in flight (`Ahead`). The
records of groups are described by where the walk is in them (`Placed`) and, for a call that stopped, by where
it stopped (`Stopped`, `Frontier`). `AccountInv` says that every rule whose callbacks did something noteworthy
has its record and its failure and no other rule has, and that the causes are the failures followed by the
context's. That the views and the error are true of the last state then is a matter of what a search in a sorted
list finds (`FindRecord`).

*Argument for the events.* The story of a call so far (`SoFar`) is a book with a chapter for each entry, the lines of
its rules in order and then how it ended, between an opening and a closing line. Rules are visited in order and an
entry ends behind all of its rules, so everything that a step adds to the book stands behind what is there: the step
writes at the end of the story exactly the events that it emits (`WorkIsTold`). So what was delivered and what is
pending make up the story (`HeardInv`); an observer's failure keeps the part delivered, which stays a prefix. In the
state in which `Fire` returns nothing is pending and the story is the whole one (`StoryTold`). Chapters and books are
concatenations of sequences of sequences, computed by the recursive function of `FlattenSeq`: what writing at the end
of one of their parts does to the whole (`FlattenGrows`) follows by the least number at which it would not.

*Argument for compilation.* During validation the issues are those of the places already passed (`IssuesInv`), where
the scratch map holds the first registration of every identity passed; a place's faults depend on the places before it
only, so they never change. An issue is followed by later ones only, since positions are visited in their order. Once
there are none, identities are valid and no two are alike. `SortedInv` says that the sorted indexes are a permutation
that puts higher priorities first and leaves equal ones in order: a stable sort of finitely many places has no place
twice, and therefore all. Placing a rule and placing a group then add to the snapshot in the same way (`Added`): rules
that are described by their registration, behind all others in the declared order, an entry that begins where the last
one ended, and the positions in the tables. So `PlacedInv` is proved for both at once, and gives order, lookups and
layout at the end.

*Argument for options.* `configureExecution` is a recursive function: what it leaves is the first error or the last
settings (`Outcome`), by the least number of options at which it would not be. Outcomes join: reading an engine's
options and then a call's is reading both in a row, unless the first has an error. `EngineInv` says that the engine and
each started call have these outcomes; that the engine exists only for a sound list is `IssuesComplete`.

*Argument for Runtime.* `IInv` joins the types, `Exclusion`, `RevisionCounts`, `Intent` (what a call at a given
place must have asked for) and `Unpublished`. The refinement maps `pc` to idle, pending or answered: the effect
of a publication is its store, that of a `Fire` or `Snapshot` its single atomic load, so each step is the log's
effect, its begin or return, or a stutter (`TakesEffect`, `Unseen`).

*Argument for condition traces.* Recordings are shared by all goroutines, so `TraceInv` says of each frame of each
stack what no other goroutine can take from it. A callback's recording is running and in no other frame; the children
of an operator belong to it alone, the ones before the cursor finished and told it to go on, the others have not
started (`Frames`, `Apart`). Two operators may claim one recording, but then it is opaque, and so it stays
(`ClaimInv`). An operator's answer is written to a recording that is not finished only; hence one that is neither
opaque nor without operator has the answer of the one operator that claimed it, and this follows from the children
(`Nodes`). What has finished and what no operator will start never changes again (`Grows`, `Settled`), and only that
is copied unless a panic reached Fire; so every copy agrees with its recording for good (`Copies`). Without the
panic's exception `Copies` is false, which is the first finding below.

*Argument for the registry.* Everything rests on one fact: a compilation gets past its check of the receiver only when
the registry is frozen, and a frozen registry registers nothing (`SawFrozen`). So the map it reads is the one that
every later step sees. `Held` says which cells a compilation owns and that no validator was shown them; `Progress`
that what it has passed was sound, which is why its first failure is the first there is.

*Argument for the adapter.* The adapter's states are those of `Execution` with its own beside them, and each of its
steps maps to a step or a stutter. Its span's life is bracketed by two events, each queued alone (`Bracketed`), a
sequence of provider calls belongs to the event at the head of the queue (`StepFits`), and once the span is closed no
event is left to be delivered (`Closing`). What is told is compared with the delivered events as the call goes on: the
trace with those of eligible rules (`InTrace`), the rule counter with those of its rules and, between the counter and
the trace, the one at hand (`Traced`). That holds while no provider has panicked (`Sound`), and then the observer is
still there at the end (`Attends`) and the finish event leaves its marks in the order of its provider calls
(`Settles`). The execution counters are right even after a panic, as far as they got (`Sums`): the finish event carries
the counts of `Execution`, which are the true ones (`Tally`). `EventsOf` is a recursive function; that one more event is
one more or none picked (`EventsOfAppend`) follows by the least number at which it would not.

*Argument for parameter schemas.* The walk is a depth-first search. `OnPath` says that the active types are a path
from the root, `Explored` that the fields behind the cursor of each have been visited, `Ranked` that settled types
lead to settled types only and can be ranked so that fields lead down: a cycle through them is impossible. A type
reached by some walk of the graph is then seen, and a refusal has its reason on the path. The reference definition
`Walks` is a recursive function: that it exists and what it computes is proved by taking the least number at which it
would not (`LeastElement`).

*Argument for the CEL schema.* Every walk is a recursive function, of the levels that are left or of the entries
passed. That such functions exist and equal their unfolded bodies (`WalkIs`, `FollowIs`, `NestIs`) follows by the
least number at which they would not, and so does what a loop that ends with the first error keeps (`EachKeeps`). A
schema on the way is `Sound`: what it has entered is without a fault and reachable. It is not closed, since the walk
enters a struct before its fields. So the walk of a type says of its result that whatever it entered leads only to
what the result has, but for what was there before (`Walked`, `Trail`; `Followed` for files): such trails join, and
the trail of a whole candidate began with nothing. Therefore a schema that was accepted has everything that the
candidate reaches, and is sound because each part is; a refusal has its reason where it was raised, and that place is
reachable. `BuilderInv` says that what is registered could be built: settings change only before anything is bound.

*Argument for the CEL call.* `CallInv` says where in `Compile`'s closure a call is and what it must have done by then:
projectors were called one after the other (`ProgressInv`), what is left of the budget and what was traversed make up
the limits, for every kind of charge (`BudgetInv`), the names in the program are those of its compiler (`NamesInv`), and
a callback that returned to an ended context is followed by no other (`LateInv`). An answer is given only after the last
projection, so it is whole. A charge that is refused is part of the value under traversal, so the whole value passes
the limit.

*Argument for the comparison.* `ComparisonInv` says of the recursion that each frame asks the first question of the one
below it (`StackFits`). What a remembered pair may be used for is the difficulty: it stands for a derivation that was
visited once, and its own derivation may use others. So a pair is not said to be alike at a level of the walk but at a
height, the visits spent less the frames still open (`Height`): whatever has answered has its derivation at that height,
each pair remembered and each place already compared (`AlikeIn`), and a call that answers has spent the visit that its
own level needs. The height never decreases and never passes the visits there are. A difference needs no memory: that of
a frame is one of the objects, as many levels deeper as the frame (`DifferIn`).

`LimitInv` gives each frame an allowance, what the frame below it had less what that one will still need (`Allows`). What
is spent and what the call at the top has still to spend stay within its allowance, and the first allowance is the
whole of the left value. A call that answers early, or from the memory, leaves some of its allowance unused. A refused
visit or charge therefore lies in the whole, and a whole that is too deep has by definition too many visits. What a map
costs is a sum over its keys in any order: that `SumFunctionOnSet` gives one, and that a key can be taken out of it
(`SumTakes`), follows by the least size of a set for which it would not.

*Argument for lookups.* A key is converted to the map's kind and must come out as the same number, so only the number
itself can be found; and it is found, since what is in the map survives the conversion: the platform's integers are
CEL's (`IntegersFit`), as powers of two grow with their exponents (`PowersGrow`), and truncation changes no integer
(`IntegersEven`). Maps of one size, the one's keys all found in the other, have the same keys: they are finite; a map
with keys of another kind is then larger than what was found in it.

*Only model-checked.* Liveness under fairness (`EveryCallReturns`) is out of the prover's reach.
`ConversionIsTrue` is a property of the recursive operators of `CelConversion`, which the provers
cannot unfold: it is checked on every small literal and argument. `Exclusion` is the reverse: it is
proved and no run checks it; what the mutex is for is said by `RevisionCounts` and `ImplementsLog`.

## Findings

Three places where a comment or the documentation says more than the code does.

1. `trace.go:121-122` and `docs/architecture.md:130` say that a callback which changes its operator's outcome remains
   an opaque leaf. Under `RecoverPanics`, a callback that panics after its operator has answered is shown as that
   operator, with outcome error (`condition_trace_panic`): an `Any` without children that failed.
2. `docs/dynamic-rules.md:131` gives depth 16 as an enforced limit of parameter schemas. A type met a second time is
   not followed again (`dynamic/params.go:29`), so a schema can nest deeper through it; with its fields in the
   other order the same schema is refused (`param_schema_depth`). Nothing depends on the bound for termination: recursive
   schemas are refused by another test, as `AcceptedIsSound` shows.
3. `execution_internal.go:58` says that a nested `Fire` must not write into the enclosing condition's recording. The
   lines below hide the recording from its conditions only. Its actions are given the context that `Fire` was given
   (line 135), so an action that evaluates an `All`, `Any` or `Not` with its context claims the recording of the
   condition that fired (`nested_fire`); the tree then shows that operator, or is opaque. `NestedConditionsStayOut`
   holds. What the tree says is still governed by `OneOperator` and `TreeFollows`: an action is one more callback that
   reuses a context.

## What is not modelled

- Wording: error text, explanations, formatting, attribute names, metadata normalization. They are functions of
  values that are modelled.
- Durations in traces, and allocation.
- JSON decoding, regular expressions, CEL parsing, checking, planning, cost accounting and evaluation, and the
  OpenTelemetry SDK: libraries, of which the outcomes are there. A JSON source decodes or is refused (`source`); cel-go's
  registry, `NewEnv` and check of a bound name refuse the registrations that a host says they do (`refuses`), and its
  planner the sources. Left out are the errors of `types.NewNativeType` and the conversions to explicit widths such as
  `int32`. What a map that is not an integer map finds is cel-go's: the entry under the same number.
- Mutual exclusion by the mutex of the registry, and the storage that slices share: `Register`, `Freeze` and `snapshot`
  are one step each, and TLA+ sequences are values. `NoWriteWhileRead` is about the map read after the unlock,
  `ParamsAreIsolated` about values modelled as cells; that `slices.Clone` keeps a failed registration out of the builder
  is assumed.
- A change of `Enabled` of an OpenTelemetry counter during a call: it is asked at every event, and answers the same.
- `NewCompiler` and `NewEngine`, which are `NewBuilder`, `Bind` and `Build`, and `Compile` and
  `NewEngineFromRuleSet`, in a row.
- Access to native fields and their presence (`Get`, `IsSet`): functions of one value.
- The tree of a nested `Fire`'s own condition: it is frozen by the same code as the outer one.
- A bound on the depth of a native schema: it is measured, as in the code, along the first path that meets a type, so
  that `SchemaIsSound` promises none (`docs/cel.md:152` bounds the traversal), and `RefusalHasReason` says
  only that some path is as deep as a refusal says.
- The examples and the benchmark script.

Abstractions worth knowing: an identity is a model value and its syntax a set of accepted ones; a definition's or
a type's own faults are a tag; a panic value is not distinguished from another; callbacks do not touch the input in
any way the engine could see, since the engine never reads it.

## Plan

1. *Models.* Explanations as functions of the views; presence and access of native fields; the token counts of the
   JSON transport.
2. *Composition.* One module in which an engine compiles and fires: `OrderDeclared` already proves what
   `LayoutsAssumption` assumes, of each compiled set apart.
3. *Proofs.* `ConversionIsTrue`, for which the conversions have to be recursive functions of a level, as the walks of
   `CelBuilder` are.
