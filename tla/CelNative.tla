------------------------------ MODULE CelNative ------------------------------
(***************************************************************************)
(* One native operation inside a CEL expression: a comparison of objects,  *)
(* the conversion of values, or a lookup in an integer map.  Each has a    *)
(* budget of its own, independent of the compiler and of the other         *)
(* operations (cel/native_budget.go:24-34).                                *)
(***************************************************************************)
EXTENDS CelEquality, CelConversion, CelLookup

vars == <<equalityVars, conversionVars, lookupVars>>

NativeInit ==
    \/ ComparisonInit /\ ConversionIdle /\ LookupIdle
    \/ ComparisonIdle /\ ConversionInit /\ LookupIdle
    \/ ComparisonIdle /\ ConversionIdle /\ LookupInit

Finished ==
    /\ result # "none" \/ outcome # <<>> \/ found # <<>>
    /\ UNCHANGED vars

NativeNext ==
    \/ ComparisonNext /\ UNCHANGED <<conversionVars, lookupVars>>
    \/ ConversionNext /\ UNCHANGED <<equalityVars, lookupVars>>
    \/ LookupNext /\ UNCHANGED <<equalityVars, conversionVars>>
    \/ Finished

Spec == NativeInit /\ [][NativeNext]_vars
=============================================================================
