----------------------------- MODULE CelIntegers -----------------------------
(***************************************************************************)
(* The integers of CEL and of the host.  A number is written as twice what *)
(* it is, so that doubles can lie halfway between two integers.            *)
(***************************************************************************)
EXTENDS Integers

CONSTANTS
    Width,     \* of CEL's integers in bits, 64
    Platform   \* of the host's int and uint

ASSUME WidthAssumption == Width \in Nat \ {0} /\ Platform \in 1 .. Width

Powers[i \in 0 .. Width] == IF i = 0 THEN 1 ELSE 2 * Powers[i - 1]

IntegersOf(kind, width) ==
    {2 * i : i \in IF kind = "int" THEN -Powers[width - 1] .. Powers[width - 1] - 1
                   ELSE 0 .. Powers[width] - 1}
=============================================================================
