---------------------------- MODULE MCCelNative -------------------------------
(***************************************************************************)
(* Small instances of CelNative for TLC.  Comparisons: every heap of two   *)
(* or three structs of one type, and every two of them compared.           *)
(* Conversions: every literal of two fields, and of three at the edges of  *)
(* the limits; every key looked up in every small integer map.             *)
(***************************************************************************)
EXTENDS CelNative

Header(kind, nil, size, kids) ==
    [kind |-> kind, nil |-> nil, size |-> size, kids |-> kids, atom |-> "none"]
Leaf(kind, nil, size, atom) ==
    [kind |-> kind, nil |-> nil, size |-> size, kids |-> <<>>, atom |-> atom]

At(part, s) == <<part, s>>
PartOf(at) == at[1]
Nowhere == "nil"
PointerTo(s) == IF s = Nowhere THEN Header("pointer", TRUE, 0, <<>>)
                ELSE Header("pointer", FALSE, 0, <<At("struct", s)>>)

(* Values a type needs besides its structs: a pointer to each struct, and  *)
(* the keys of maps.                                                       *)
Pointers(S) == [v \in {At("pointer", s) : s \in S \cup {Nowhere}} |-> PointerTo(v[2])]
Keys == [v \in {At("key", k) : k \in {"x", "y"}} |-> Leaf("string", FALSE, 1, v[2])]

(* Heaps whose structs have the two fields made of f[s].                   *)
Heaps(S, Fields, First(_), Second(_)) ==
    {[v \in {At("struct", s) : s \in S} |->
          Header("struct", FALSE, 0, <<At("first", v[2]), At("second", v[2])>>)]
     @@ [v \in {At("first", s) : s \in S} |-> First(f[v[2]])]
     @@ [v \in {At("second", s) : s \in S} |-> Second(f[v[2]])]
     @@ Pointers(S) @@ Keys : f \in [S -> Fields]}

Two == {"a", "b"}
Three == {"a", "b", "c"}

(* type T struct { Peer *T; Weight float64 } *)
Weight(c) == Leaf("scalar", FALSE, 0, c[2])
Chains ==
    LET Peer(c) == PointerTo(c[1])
    IN  Heaps(Three, (Three \cup {Nowhere}) \X {"one", NaN}, Peer, Weight)

(* A nil collection, and one with the given contents. *)
Absent == [nil |-> TRUE, of |-> <<>>]
Holding(contents) == [nil |-> FALSE, of |-> contents]

(* type T struct { Items []*T; Data []byte } *)
Lists ==
    LET Items(c) == Header("slice", c[1].nil, Len(c[1].of),
                           [i \in DOMAIN c[1].of |-> At("pointer", c[1].of[i])])
        Data(c) == Leaf("bytes", c[2] = Nowhere, IF c[2] = "two" THEN 2 ELSE 0,
                        IF c[2] = "two" THEN "two" ELSE "empty")
    IN  Heaps(Two, {Absent, Holding(<<>>), Holding(<<Nowhere>>), Holding(<<"a">>),
                    Holding(<<"b">>), Holding(<<"a", "b">>)}
                   \X {Nowhere, "empty", "two"}, Items, Data)

(* type T struct { Rows [][]byte; Next *T } *)
Bytes == At("bytes", "nil") :> Leaf("bytes", TRUE, 0, "empty")
         @@ At("bytes", "empty") :> Leaf("bytes", FALSE, 0, "empty")
         @@ At("bytes", "two") :> Leaf("bytes", FALSE, 2, "two")
Rows ==
    LET Table(c) == Header("slice", c[1].nil, Len(c[1].of),
                           [i \in DOMAIN c[1].of |-> At("bytes", c[1].of[i])])
        Link(c) == PointerTo(c[2])
    IN  {h @@ Bytes : h \in
            Heaps(Two, {Absent, Holding(<<>>), Holding(<<"nil">>), Holding(<<"empty">>),
                        Holding(<<"two", "empty">>)} \X {Nowhere, "a", "b"}, Table, Link)}

(* type T struct { Table map[string]*T; Weight float64 } *)
Tables ==
    LET Table(c) == Header("map", c[1].nil, Cardinality(DOMAIN c[1].of),
                           [k \in {At("key", x) : x \in DOMAIN c[1].of} |->
                               At("pointer", c[1].of[k[2]])])
        Maps == UNION {[D -> {"a", "b"}] : D \in SUBSET {"x", "y"}}
    IN  Heaps(Two, ({Absent} \cup {Holding(m) : m \in Maps}) \X {"one", NaN}, Table, Weight)

SmallComparisons ==
    {[values |-> h, left |-> At("struct", s), right |-> At("struct", t)] :
        h \in Chains, s \in Three, t \in Three}
    \cup {[values |-> h, left |-> At("struct", s), right |-> At("struct", t)] :
        h \in Lists \cup Rows \cup Tables, s \in Two, t \in Two}

-----------------------------------------------------------------------------
Given(kind, n) == [kind |-> kind, n |-> n, storage |-> "", keys |-> <<>>, of |-> <<>>]
Of(kind, storage, keys, of) ==
    [kind |-> kind, n |-> 0, storage |-> storage, keys |-> keys, of |-> of]
Signed(i) == Given("int", 2 * i)
Unsigned(i) == Given("uint", 2 * i)
Text(n) == Given("string", n)
NullValue == Given("null", 0)
Maybe(v) == Of("optional", "", <<>>, <<v>>)
List(storage, of) == Of("list", storage, <<>>, of)

Type(kind, name, size, from, key, elem) ==
    [kind |-> kind, name |-> name, size |-> size, from |-> from, key |-> key, elem |-> elem]
IntType == Type("int", "int", 1, {}, <<>>, <<>>)
UintType == Type("uint", "uint", 1, {}, <<>>, <<>>)
StringType == Type("string", "string", 2, {"string"}, <<>>, <<>>)
StructType == Type("struct", "T", 3, {"struct"}, <<>>, <<>>)
PointerType(t) == Type("pointer", "*", 1, {"struct"} \cap t.from, <<>>, <<t>>)
SliceType(name, t) == Type("slice", name, 2, {}, <<>>, <<t>>)
MapType == Type("map", "map[int]string", 1, {}, <<IntType>>, <<StringType>>)
Ints == SliceType("[]int", IntType)
Table == SliceType("[][]int", Ints)

Numbers == {<<Signed(i), t>> : i \in {-5, -4, 3, 4}, t \in {IntType, PointerType(IntType)}}
           \cup {<<Unsigned(i), UintType>> : i \in {0, 7, 8}} \cup {<<Unsigned(1), IntType>>}
Scalars == {<<Text(n), t>> : n \in {0, 2, 4}, t \in {StringType, PointerType(StringType)}}
           \cup {<<NullValue, t>> : t \in {IntType, PointerType(IntType), PointerType(StructType)}}
           \cup {<<Given("struct", 0), t>> : t \in {StructType, PointerType(StructType)}}
Collections ==
    {<<List("", of), Ints>> : of \in {<<>>, <<Signed(1), Signed(4)>>, <<Signed(1), Signed(2)>>}}
    \cup {<<List("[]int", <<Signed(1), Signed(2), Signed(3)>>), Ints>>,
          <<List("", <<Signed(1), Signed(1), Signed(1), Signed(1)>>), Ints>>,
          <<List("", <<NullValue, Signed(2)>>), SliceType("[]*int", PointerType(IntType))>>,
          <<List("", <<List("", <<Signed(1)>>), List("[]int", <<Signed(2)>>)>>), Table>>,
          <<Of("map", "", <<Signed(1), Signed(4)>>, <<Text(1), Text(1)>>), MapType>>,
          <<Of("map", "", <<Signed(1), Signed(-4)>>, <<Text(1), Text(2)>>), MapType>>,
          <<Of("map", "map[int]string", <<Signed(2)>>, <<Text(2)>>), MapType>>,
          <<List("", <<Signed(1)>>), StructType>>, <<Of("map", "", <<>>, <<>>), StructType>>}
Payloads == {<<Maybe(pair[1]), pair[2]>> : pair \in Collections \cup {<<Signed(3), IntType>>}}
            \cup {<<Maybe(Maybe(List("", <<Signed(1)>>))), Ints>>, <<Maybe(Given("error", 0)), IntType>>}

Field(pair) == [known |-> TRUE, value |-> pair[1], type |-> pair[2]]
Fields == {Field(pair) : pair \in Numbers \cup Scalars \cup Collections \cup Payloads}
          \cup {[Field(<<Signed(1), IntType>>) EXCEPT !.known = FALSE]}
Edges == {Field(pair) : pair \in {<<Text(2), StringType>>, <<Signed(4), IntType>>, <<Signed(1), PointerType(IntType)>>}
                                 \cup Collections}

Literals ==
    {[op |-> "literal", size |-> 3, fields |-> f] :
        f \in [{"a", "b"} -> Fields] \cup [{"a", "b", "c"} -> Edges]}
Arguments ==
    {[op |-> "argument", value |-> pair[1], type |-> pair[2]] :
        pair \in {p \in Numbers \cup Scalars : p[2].kind \in ScalarKinds}
                  \cup {<<Text(5), StringType>>}}

(* Maps of up to three keys, to the edge of the platform's integers, and   *)
(* others with keys beyond it, and with a string among them.               *)
MapsOf(kind, D, others) ==
    {[kind |-> kind, entries |-> m, others |-> others] : m \in [D -> {"one", NaN}]}
IntegerMaps == UNION {MapsOf(kind, D, 0) : kind \in {"int", "uint"}, D \in SUBSET {0, 2, 6}}
OtherMaps == UNION {MapsOf("other", D, n) : D \in SUBSET {0, 6, 8}, n \in 0 .. 1}
Doubles == {Given("double", n) : n \in -5 .. 18}
Keyed == {Signed(i) : i \in -8 .. 7} \cup {Unsigned(i) : i \in 0 .. 15} \cup Doubles
         \cup {Text(2), Given("unknown", 0), Given("error", 0)}
Searches == {[op |-> "lookup", map |-> m, key |-> k] : m \in IntegerMaps, k \in Keyed}
Equalities == {[op |-> "equal", left |-> l, right |-> r] : l \in IntegerMaps, r \in IntegerMaps \cup OtherMaps}

SmallOperations == Literals \cup Arguments
SmallLookups == Searches \cup Equalities
SmallLimits == [visits |-> 10, items |-> 4, bytes |-> 4, storage |-> 15]
SmallSizes == [visits |-> 11, items |-> 4, bytes |-> 3]
=============================================================================
