------------------------------ MODULE CelLookup ------------------------------
(***************************************************************************)
(* Integer maps of the host, asked by a CEL expression: a key looked up    *)
(* through int, uint or double, and two maps compared (nativeIntegerMap in *)
(* cel/native_conversion.go:182-247).                                      *)
(*                                                                         *)
(* A map is [kind, entries, others]: from numbers to values that are       *)
(* compared as atoms, NaN being not itself, and the number of its entries  *)
(* under other keys.  A key is [kind, n].                                  *)
(***************************************************************************)
EXTENDS CelIntegers, FiniteSets

CONSTANT Lookups  \* keys to look up in maps, and pairs of maps to compare

NumberKinds == {"int", "uint", "double"}

IsIntegerMap(m) ==
    /\ m.kind \in {"int", "uint"} /\ IsFiniteSet(DOMAIN m.entries) /\ m.others = 0
    /\ DOMAIN m.entries \subseteq IntegersOf(m.kind, Platform)

(* A map of CEL's own, or of the host with keys of another kind: cel-go    *)
(* finds its entries, by their numbers.                                    *)
IsOtherMap(m) ==
    m.kind = "other" /\ IsFiniteSet(DOMAIN m.entries) /\ m.others \in Nat

ASSUME LookupsAssumption ==
    \A asked \in Lookups :
        CASE asked.op = "lookup" -> IsIntegerMap(asked.map) /\ asked.key.n \in Int
          [] asked.op = "equal" -> /\ IsIntegerMap(asked.left)
                                   /\ IsIntegerMap(asked.right) \/ IsOtherMap(asked.right)
          [] OTHER -> FALSE

VARIABLES lookup, found

lookupVars == <<lookup, found>>

-----------------------------------------------------------------------------
(* Find: the key in the map's integer kind, if that is the same number and *)
(* an integer of the platform.  An unknown or an error as key is handed    *)
(* back with "not found".                                                  *)
Truncated(n) == IF n < 0 THEN n + (n % 2) ELSE n - (n % 2)
ToInteger(key) == IF key.kind = "double" THEN Truncated(key.n) ELSE key.n

Equals_Truncating(key) == TRUE
Equals(key) == ToInteger(key) = key.n

Hit(value) == [found |-> TRUE, value |-> value]
Miss(value) == [found |-> FALSE, value |-> value]
NoSuchKey == "no such key"

Finds(m, key) ==
    IF m.kind = "other" THEN key.n \in DOMAIN m.entries
    ELSE /\ ToInteger(key) \in IntegersOf(m.kind, Width) /\ Equals(key)
         /\ ToInteger(key) \in IntegersOf(m.kind, Platform)
         /\ ToInteger(key) \in DOMAIN m.entries

find(m, key) ==
    IF key.kind \in {"unknown", "error"} THEN Miss(key.kind)
    ELSE IF key.kind \in NumberKinds /\ Finds(m, key) THEN Hit(m.entries[ToInteger(key)])
    ELSE Miss(NoSuchKey)

(* Equal: of two maps of one size, each key of this one is looked up in    *)
(* both.                                                                   *)
MapSize(m) == Cardinality(DOMAIN m.entries) + m.others
Key(m, n) == [kind |-> m.kind, n |-> n]
MapsEqual(m, other) ==
    /\ MapSize(m) = MapSize(other)
    /\ \A n \in DOMAIN m.entries :
          LET there == find(other, Key(m, n))
          IN  there.found /\ find(m, Key(m, n)).value = there.value /\ there.value # "NaN"

-----------------------------------------------------------------------------
NoLookup == [op |-> "none"]
LookupIdle == lookup = NoLookup /\ found = <<>>
LookupInit == lookup \in Lookups /\ found = <<>>

Looks(op) == lookup.op = op /\ found = <<>> /\ UNCHANGED lookup

(* Contains, and Get. *)
Lookup == Looks("lookup") /\ found' = <<find(lookup.map, lookup.key)>>
CompareMaps == Looks("equal") /\ found' = <<MapsEqual(lookup.left, lookup.right)>>

LookupNext == Lookup \/ CompareMaps

LookupSpec == LookupInit /\ [][LookupNext]_lookupVars

-----------------------------------------------------------------------------
(* An integer map answers a key with the entry of the very same number,    *)
(* through int, uint and double alike, and no other; what is no key stays  *)
(* what it is; an integer map equals another map when they have the same   *)
(* keys and equal values (docs/cel.md:91).                                 *)
LookupIsExact ==
    /\ lookup.op = "lookup" /\ found # <<>> =>
          LET m == lookup.map
              key == lookup.key
          IN  found = << IF key.kind \in NumberKinds /\ key.n \in DOMAIN m.entries
                         THEN Hit(m.entries[key.n])
                         ELSE Miss(IF key.kind \in {"unknown", "error"} THEN key.kind
                                   ELSE NoSuchKey) >>
    /\ lookup.op = "equal" /\ found # <<>> =>
          LET l == lookup.left.entries
              r == lookup.right.entries
          IN  found = << /\ lookup.right.others = 0 /\ DOMAIN l = DOMAIN r
                         /\ \A n \in DOMAIN l : l[n] = r[n] /\ l[n] # "NaN" >>
=============================================================================
