-------------------------------- MODULE Engine --------------------------------
(***************************************************************************)
(* An engine made from a compiled RuleSet, and the calls of Fire on it up  *)
(* to the point where execution starts: the checks, and the configuration  *)
(* that the engine's defaults and the call's options add up to             *)
(* (engine.go:30-120, policy.go:70-140).                                   *)
(***************************************************************************)
EXTENDS Compile

CONSTANTS
    Uses,      \* what callers do: [definitions, set, options, fires]
    Valid,     \* StopOnFirstFire, ContinueOnError twice: the last valid modes
    LastPanic  \* PropagatePanics

(* Modes are uint8 values. *)
Modes == 0 .. 255
OptionSpace ==
    [kind : {"none", "trace"}, value : {0}]
    \cup [kind : {"policy"}, value : Modes \X Modes \X Modes]
    \cup [kind : {"panic"}, value : Modes]
    \cup [kind : {"observer"}, value : STRING]

ASSUME UsesAssumption ==
    \A u \in Uses :
        /\ u.options \in Seq(OptionSpace)
        /\ u.fires \in Seq([context : STRING, input : STRING, options : Seq(OptionSpace)])

VARIABLES
    use,
    engine,   \* [err, defaults]; err tells why there is no engine
    started   \* for each Fire so far [err, config]

engineVars == <<use, engine, started>>
allVars == <<vars, engineVars>>

(* The zero configuration is the documented one. *)
ZeroConfig == [policy |-> <<0, 0, 0>>, panic |-> 0, trace |-> FALSE, observer |-> "none"]
Configured(config) == [err |-> "nil", config |-> config]
Rejected(err) == [err |-> err, config |-> ZeroConfig]

OptionError(option) ==
    IF option.kind = "policy" /\ \E i \in 1 .. 3 : option.value[i] > Valid[i]
    THEN "invalid-policy"
    ELSE IF option.kind = "panic" /\ option.value > LastPanic THEN "invalid-panic-mode"
    ELSE "nil"

Set(config, option) ==
    CASE option.kind = "none" -> config
      [] option.kind = "trace" -> [config EXCEPT !.trace = TRUE]
      [] OTHER -> [config EXCEPT ![option.kind] = option.value]

Ended_Repairable(acc, option) == acc.err # "nil" /\ option.kind # "policy"
Ended(acc, option) == acc.err # "nil"

configureExecution(config, options) ==
    LET Apply(acc, option) ==
            IF Ended(acc, option) THEN acc
            ELSE IF OptionError(option) # "nil" THEN Rejected(OptionError(option))
            ELSE Configured(Set(acc.config, option))
        After[i \in 0 .. Len(options)] ==
            IF i = 0 THEN Configured(config) ELSE Apply(After[i - 1], options[i])
    IN  After[Len(options)]

-----------------------------------------------------------------------------
EngineInit ==
    /\ use \in Uses
    /\ defs = use.definitions /\ Init
    /\ engine = [err |-> "unmade", defaults |-> ZeroConfig]
    /\ started = <<>>

(* A RuleSet that Compile refused is nil. *)
NewEngineFromRuleSet ==
    LET c == IF pc = "refused" \/ use.set = "zero" THEN Rejected("invalid-rule-set")
             ELSE configureExecution(ZeroConfig, use.options)
    IN  /\ pc \in {"compiled", "refused"} /\ engine.err = "unmade"
        /\ engine' = [err |-> c.err, defaults |-> c.config]
        /\ UNCHANGED <<vars, use, started>>

Fire ==
    LET call == use.fires[Len(started) + 1]
        c == IF call.context = "nil" THEN Rejected("nil-context")
             ELSE IF call.input = "nil" THEN Rejected("nil-input")
             ELSE IF engine.err # "nil" THEN Rejected("invalid-engine")
             ELSE configureExecution(engine.defaults, call.options)
    IN  /\ engine.err # "unmade" /\ Len(started) < Len(use.fires)
        /\ started' = Append(started, c)
        /\ UNCHANGED <<vars, use, engine>>

Finished ==
    /\ engine.err # "unmade" /\ Len(started) = Len(use.fires)
    /\ UNCHANGED allVars

EngineNext ==
    \/ Next /\ UNCHANGED engineVars
    \/ NewEngineFromRuleSet \/ Fire \/ Finished

EngineSpec == EngineInit /\ [][EngineNext]_allVars
-----------------------------------------------------------------------------
(* The first thing wrong in a list of options, and the last setting of a   *)
(* kind in it.                                                             *)
Wrong(options) == {i \in DOMAIN options : OptionError(options[i]) # "nil"}
FirstWrong(options) ==
    OptionError(options[CHOOSE i \in Wrong(options) : \A j \in Wrong(options) : i <= j])
Settings(options, kind) == {i \in DOMAIN options : options[i].kind = kind}
Setting(options, kind) ==
    IF Settings(options, kind) = {} THEN ZeroConfig[kind]
    ELSE options[CHOOSE i \in Settings(options, kind) :
                    \A j \in Settings(options, kind) : j <= i].value

(* An engine exists only with a valid set and options, all of them.  A     *)
(* Fire that starts runs with the last setting of every kind among the     *)
(* engine's options and its own, whatever earlier calls were given; one    *)
(* that does not start names the first thing wrong: the context, the       *)
(* input, the engine, then the options from left to right                  *)
(* (policy.go:75-78, engine.go:42-49, 74-80).                              *)
OptionsApplyInOrder ==
    /\ engine.err # "unmade" =>
         engine.err = IF Expected # {} \/ use.set = "zero" THEN "invalid-rule-set"
                      ELSE IF Wrong(use.options) # {} THEN FirstWrong(use.options) ELSE "nil"
    /\ \A k \in DOMAIN started :
         LET call == use.fires[k]
             all == use.options \o call.options
         IN  /\ started[k].err =
                  CASE call.context = "nil" -> "nil-context"
                    [] call.context # "nil" /\ call.input = "nil" -> "nil-input"
                    [] OTHER -> IF engine.err # "nil" THEN "invalid-engine"
                                ELSE IF Wrong(all) # {} THEN FirstWrong(all) ELSE "nil"
             /\ started[k].err = "nil" =>
                  /\ \A kind \in {"policy", "panic", "observer"} :
                       started[k].config[kind] = Setting(all, kind)
                  /\ started[k].config.trace = (Settings(all, "trace") # {})
=============================================================================
