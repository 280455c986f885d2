----------------------------- MODULE CelBuilder -----------------------------
(***************************************************************************)
(* cel.Builder: options, registration of bindings and functions, the       *)
(* schema that every registration builds anew as a candidate, Build and    *)
(* Compile (cel/binding.go:18-199, cel/schema.go:17-204, cel/function.go,  *)
(* cel/compiler.go:58-126).  The caller synchronizes these calls.          *)
(*                                                                         *)
(* A host is a program that uses a builder.  Of its Go types it has what   *)
(* the walk sees: a fault found at the type itself, and what the type      *)
(* leads to.  Pointers, slices and maps pass through to their elements.    *)
(* A field without a JSON name has the empty one.                          *)
(***************************************************************************)
EXTENDS Integers, Sequences, FiniteSets, SequencesExt

CONSTANTS
    Hosts,
    Illegal,      \* names that are no ASCII identifiers
    Prefixed,     \* identifiers that begin with "__"
    Reserved,     \* identifiers that CEL keeps for itself
    Dynamic,      \* protobuf messages of open content: Any, Struct, Value, ListValue
    MaxBindings,  \* limits, in the code 64 each of bindings and functions,
    MaxNatives,   \* 256 struct types
    MaxFields,    \* of 128 fields,
    MaxFiles,     \* 256 protobuf files
    MaxNesting    \* and 32 levels

ASSUME LimitsAssumption ==
    {MaxBindings, MaxNatives, MaxFields, MaxFiles, MaxNesting} \subseteq Nat

(* Hosts are finite, what they name is there, a file names a message once, *)
(* a cost limit is unsigned, and cel-go builds an environment of nothing.  *)
OptionSpace == [hasCostLimit : BOOLEAN, costLimit : Int, jsonNames : BOOLEAN]
FieldSpace(types) ==
    [embedded : BOOLEAN, exported : BOOLEAN, go : STRING, json : STRING, type : DOMAIN types]

TypeWellFormed(types, t) ==
    /\ types[t].fault \in {"none", "fault"}
    /\ IF types[t].kind = "struct"
       THEN types[t].name \in STRING /\ types[t].fields \in Seq(FieldSpace(types))
       ELSE types[t].elements \in Seq(DOMAIN types)

FileWellFormed(files, f) ==
    /\ files[f].messages \in Seq(STRING) /\ files[f].imports \in Seq(DOMAIN files)
    /\ \A i, j \in DOMAIN files[f].messages :
          files[f].messages[i] = files[f].messages[j] => i = j

EntryWellFormed(h, entry) ==
    /\ entry.kind \in {"native", "proto", "function"}
    /\ entry.of \in IF entry.kind = "proto" THEN DOMAIN h.files ELSE DOMAIN h.types

ASSUME HostsAssumption ==
    \A h \in Hosts :
        /\ IsFiniteSet(DOMAIN h.types) /\ IsFiniteSet(DOMAIN h.files)
        /\ \A t \in DOMAIN h.types : TypeWellFormed(h.types, t)
        /\ \A f \in DOMAIN h.files : FileWellFormed(h.files, f)
        /\ \A entry \in h.entries : EntryWellFormed(h, entry)
        /\ {} \notin h.refuses
        /\ \A options \in h.options :
              /\ options \in Seq(OptionSpace)
              /\ \A i \in DOMAIN options : options[i].hasCostLimit => options[i].costLimit >= 0

VARIABLES
    host,      \* its types, files, options, registrations and sources
    builder,   \* its settings, once NewBuilder has accepted the options
    bindings,
    functions,
    compiler,  \* the last one built
    condition  \* the last one compiled

builderVars == <<host, builder, bindings, functions, compiler, condition>>

-----------------------------------------------------------------------------
(* A schema under construction, with the error that ended it.              *)
SchemaErrors ==
    {"nil", "depth", "fault", "limit", "conflict", "field", "dynamic", "files", "celgo"}
SchemaSpace == [natives : SUBSET DOMAIN host.types, files : SUBSET DOMAIN host.files,
                protoNames : SUBSET STRING, err : SchemaErrors]
EmptySchema == [natives |-> {}, files |-> {}, protoNames |-> {}, err |-> "nil"]
Refuse(s, err) == [s EXCEPT !.err = err]

(* Steps of a walk that ends with the first error. *)
Each(step, s, todo) ==
    LET After[i \in 0 .. Len(todo)] ==
            IF i = 0 THEN s
            ELSE IF After[i - 1].err = "nil" THEN step[After[i - 1]][todo[i]]
            ELSE After[i - 1]
    IN  After[Len(todo)]

Type(t) == host.types[t]

(* schema.fieldName *)
FieldName(f) == IF builder.jsonNames /\ f.json # "" THEN f.json ELSE f.go
Exposed(f) == f.exported /\ FieldName(f) # "-"

Conflict_OwnKind(s, name, kind) ==
    IF kind = "native" THEN name \in {Type(t).name : t \in s.natives} ELSE name \in s.protoNames
Conflict(s, name, kind) == name \in {Type(t).name : t \in s.natives} \cup s.protoNames

BadField(fields, i) ==
    \/ FieldName(fields[i]) \in Illegal
    \/ \E j \in 1 .. i - 1 : Exposed(fields[j]) /\ FieldName(fields[j]) = FieldName(fields[i])

(* schema.native, with the levels that are left: a struct is entered in    *)
(* the schema before its fields are walked, so that a recursive type ends  *)
(* the walk.                                                               *)
native[left \in 0 .. MaxNesting + 1] ==
    [s \in SchemaSpace |-> [t \in DOMAIN host.types |->
        LET fields == Type(t).fields
            field == [acc \in SchemaSpace |-> [i \in DOMAIN fields |->
                IF fields[i].embedded THEN Refuse(acc, "field")
                ELSE IF ~Exposed(fields[i]) THEN acc
                ELSE IF BadField(fields, i) THEN Refuse(acc, "field")
                ELSE native[left - 1][acc][fields[i].type]]]
        IN  IF left = 0 THEN Refuse(s, "depth")
            ELSE IF Type(t).fault # "none" THEN Refuse(s, "fault")
            ELSE IF Type(t).kind # "struct" THEN Each(native[left - 1], s, Type(t).elements)
            ELSE IF t \in s.natives THEN s
            ELSE IF Cardinality(s.natives) >= MaxNatives \/ Len(fields) > MaxFields
                 THEN Refuse(s, "limit")
            ELSE IF Conflict(s, Type(t).name, "native") THEN Refuse(s, "conflict")
            ELSE Each(field, [s EXCEPT !.natives = @ \cup {t}], [i \in DOMAIN fields |-> i])]]

(* schema.addFile: the messages of a file and those nested in them, then   *)
(* its imports.                                                            *)
Met_Path(s, f) == FALSE
Met(s, f) == f \in s.files

Message(s, name) ==
    IF name \in Dynamic THEN Refuse(s, "dynamic")
    ELSE IF Conflict(s, name, "proto") THEN Refuse(s, "conflict")
    ELSE [s EXCEPT !.protoNames = @ \cup {name}]
message == [s \in SchemaSpace |-> [name \in STRING |-> Message(s, name)]]

(* No import is deeper than there may be files, so that left ends no walk  *)
(* that the limit does not end.                                            *)
addFile[left \in 0 .. MaxFiles] ==
    [s \in SchemaSpace |-> [f \in DOMAIN host.files |->
        LET file == host.files[f]
        IN  IF Met(s, f) THEN s
            ELSE IF \E g \in s.files : host.files[g].path = file.path THEN Refuse(s, "files")
            ELSE IF left = 0 \/ Cardinality(s.files) >= MaxFiles THEN Refuse(s, "limit")
            ELSE Each(addFile[left - 1],
                      Each(message, [s EXCEPT !.files = @ \cup {f}], file.messages),
                      file.imports)]]

(* buildEnvironment.  After the schema, cel-go's registry and environment  *)
(* may fail, and so may its check of a name: host.refuses holds the        *)
(* registrations with which one of the three does.                         *)
bound == [s \in SchemaSpace |-> [entry \in host.entries |->
    IF entry.kind = "proto" THEN addFile[MaxFiles][s][entry.of]
    ELSE native[MaxNesting + 1][s][entry.of]]]
Environment(entries, named) ==
    LET s == Each(bound, EmptySchema, entries)
    IN  IF s.err = "nil" /\ Range(entries \o named) \in host.refuses
        THEN Refuse(s, "celgo") ELSE s

-----------------------------------------------------------------------------
(* The zero values of Builder and Compiler refuse every call. *)
Zero == [valid |-> FALSE]

BuilderInit ==
    /\ host \in Hosts
    /\ builder = Zero /\ bindings = <<>> /\ functions = <<>>
    /\ compiler = Zero /\ condition = Zero

(* NewBuilder reads its options from left to right; the last cost limit    *)
(* counts, names stay JSON's, and a limit of zero is not repaired.         *)
DefaultCost == 10000
Option(config, option) ==
    IF option.hasCostLimit /\ option.costLimit = 0 THEN Refuse(config, "cost limit")
    ELSE [config EXCEPT !.costLimit = IF option.hasCostLimit THEN option.costLimit ELSE @,
                        !.jsonNames = @ \/ option.jsonNames]
ConfigSpace == [valid : {TRUE}, costLimit : Int, jsonNames : BOOLEAN, err : {"nil", "cost limit"}]
Configured(options) ==
    Each([config \in ConfigSpace |-> [option \in OptionSpace |-> Option(config, option)]],
         [valid |-> TRUE, costLimit |-> DefaultCost, jsonNames |-> FALSE, err |-> "nil"],
         options)

NewBuilder(options) ==
    /\ ~builder.valid
    /\ builder' = IF Configured(options).err = "nil" THEN Configured(options) ELSE Zero
    /\ UNCHANGED <<host, bindings, functions, compiler, condition>>

Names(entries) == {entries[i].name : i \in DOMAIN entries}

(* checkName *)
NameRefused(name) ==
    name \in Illegal \cup Prefixed \cup Reserved \cup Names(bindings) \cup Names(functions)

(* Bind, BindProto and add. *)
BindError(entry) ==
    IF ~entry.given THEN "nil argument"
    ELSE IF Len(bindings) >= MaxBindings THEN "count"
    ELSE IF NameRefused(entry.name) THEN "name"
    ELSE Environment(Append(bindings, entry), functions).err

Kept(entries, entry, err) == IF err = "nil" THEN Append(entries, entry) ELSE entries

Bind(entry) ==
    /\ builder.valid /\ entry.kind \in {"native", "proto"}
    /\ bindings' = Kept(bindings, entry, BindError(entry))
    /\ UNCHANGED <<host, builder, functions, compiler, condition>>

(* Builder.Function; its argument and result must be native scalars.       *)
FunctionError(entry) ==
    IF ~entry.given THEN "nil argument"
    ELSE IF Len(functions) >= MaxBindings THEN "count"
    ELSE IF NameRefused(entry.name) THEN "name"
    ELSE IF Type(entry.of).kind # "scalar" \/ Type(entry.of).fault # "none" THEN "scalar"
    ELSE Environment(bindings, Append(functions, entry)).err

Function(entry) ==
    /\ builder.valid /\ entry.kind = "function"
    /\ functions' = Kept(functions, entry, FunctionError(entry))
    /\ UNCHANGED <<host, builder, bindings, compiler, condition>>

Build ==
    /\ builder.valid
    /\ compiler' = IF Environment(bindings, functions).err # "nil" THEN compiler
                   ELSE [valid |-> TRUE, costLimit |-> builder.costLimit,
                         bindings |-> bindings, functions |-> functions]
    /\ UNCHANGED <<host, builder, bindings, functions, condition>>

(* Compiler.Compile with compileProgram: a source is too long or malformed,*)
(* or uses names and has an output type, and cel-go plans it or refuses to.*)
Known == Names(compiler.bindings) \cup Names(compiler.functions)

CompileError(source) ==
    IF ~source.parses THEN "parse"
    ELSE IF ~(source.uses \subseteq Known) THEN "check"
    ELSE IF source.output # "bool" THEN "output"
    ELSE IF ~source.planned THEN "program"
    ELSE "nil"

Compile(source) ==
    /\ compiler.valid
    /\ condition' = IF CompileError(source) # "nil" THEN condition
                    ELSE [valid |-> TRUE, source |-> source, by |-> compiler]
    /\ UNCHANGED <<host, builder, bindings, functions, compiler>>

BuilderNext ==
    \/ \E options \in host.options : NewBuilder(options)
    \/ \E entry \in host.entries : Bind(entry) \/ Function(entry)
    \/ Build
    \/ \E source \in host.sources : Compile(source)

-----------------------------------------------------------------------------
(* What a schema must be, told from the graph of types without a walk.     *)
Leads(t) ==
    IF Type(t).fault # "none" THEN {}
    ELSE IF Type(t).kind = "struct"
    THEN {Type(t).fields[i].type : i \in {j \in DOMAIN Type(t).fields : Exposed(Type(t).fields[j])}}
    ELSE Range(Type(t).elements)

Roots(entries, kind) == {entries[i].of : i \in {j \in DOMAIN entries : entries[j].kind = kind}}

Closed(from, next) ==
    LET Grow[n \in 0 .. Cardinality(DOMAIN next)] ==
            IF n = 0 THEN from ELSE Grow[n - 1] \cup UNION {next[x] : x \in Grow[n - 1]}
    IN  Grow[Cardinality(DOMAIN next)]

TypesOf(entries) == Closed(Roots(entries, "native"), [t \in DOMAIN host.types |-> Leads(t)])
Structs(entries) == {t \in TypesOf(entries) : Type(t).kind = "struct"}
Imports(f) == Range(host.files[f].imports)
FilesOf(entries) == Closed(Roots(entries, "proto"), [f \in DOMAIN host.files |-> Imports(f)])
Messages(entries) == UNION {Range(host.files[f].messages) : f \in FilesOf(entries)}

FieldsAreBad(t) ==
    \E i \in DOMAIN Type(t).fields :
        LET fields == Type(t).fields
        IN  \/ fields[i].embedded
            \/ Exposed(fields[i]) /\ BadField(fields, i)

Ambiguous(entries) ==
    \/ \E t, u \in Structs(entries) : t # u /\ Type(t).name = Type(u).name
    \/ \E t \in Structs(entries) : Type(t).name \in Messages(entries)
    \/ \E f, g \in FilesOf(entries) :
          f # g /\ Range(host.files[f].messages) \cap Range(host.files[g].messages) # {}

TooLarge(entries) ==
    \/ Cardinality(Structs(entries)) > MaxNatives
    \/ Cardinality(FilesOf(entries)) > MaxFiles
    \/ \E t \in Structs(entries) : Len(Type(t).fields) > MaxFields

PathsClash(entries) ==
    \E f, g \in FilesOf(entries) : f # g /\ host.files[f].path = host.files[g].path

(* The bindings of a builder make, all together and in whatever order they *)
(* were registered, a schema without a fault in anything they reach: every *)
(* CEL type name stands for one native struct or one message, fields have  *)
(* distinct names, and files are those of one descriptor set, within the   *)
(* limits on types, fields and files (cel/schema.go:110-144, 169-189).  No *)
(* depth of types is promised: schema.native counts levels along the path  *)
(* on which it first meets a type, and docs/cel.md:152 bounds traversal.   *)
SchemaIsSound ==
    /\ \A t \in TypesOf(bindings) : Type(t).fault = "none"
    /\ \A t \in Structs(bindings) : ~FieldsAreBad(t)
    /\ ~Ambiguous(bindings) /\ ~PathsClash(bindings) /\ ~TooLarge(bindings)
    /\ Messages(bindings) \cap Dynamic = {}

(* A registration is refused for a reason that the candidate has, although *)
(* a shared type or file is met more than once, and what was accepted can  *)
(* always be built, with a cost limit, and names one thing by one name.    *)
Nested[n \in 0 .. MaxNesting + 1] ==
    IF n = 0 THEN DOMAIN host.types
    ELSE {t \in DOMAIN host.types : Leads(t) \cap Nested[n - 1] # {}}

Reason(candidate, err) ==
    CASE err = "conflict" -> Ambiguous(candidate)
      [] err = "files" -> PathsClash(candidate)
      [] err = "limit" -> TooLarge(candidate)
      [] err = "dynamic" -> Messages(candidate) \cap Dynamic # {}
      [] err = "field" -> \E t \in Structs(candidate) : FieldsAreBad(t)
      [] err = "depth" -> Roots(candidate, "native") \cap Nested[MaxNesting + 1] # {}
      [] err = "fault" -> \E t \in TypesOf(candidate) : Type(t).fault = "fault"
      [] err = "celgo" -> Range(candidate \o functions) \in host.refuses
      [] OTHER -> TRUE

RefusalHasReason ==
    LET named == bindings \o functions
    IN  builder.valid =>
        /\ \A entry \in host.entries :
              entry.kind # "function" => Reason(Append(bindings, entry), BindError(entry))
        /\ Environment(bindings, functions).err = "nil" /\ builder.costLimit > 0
        /\ \A i, j \in DOMAIN named : named[i].name = named[j].name => i = j
=============================================================================
