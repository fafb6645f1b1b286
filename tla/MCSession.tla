------------------------------ MODULE MCSession ------------------------------
(* Instances of Session for TLC. *)
EXTENDS Session

CONSTANTS c1, c2

\* Names are single bytes.
A == <<1>>
B == <<2>>
P == <<3>>
String(n) == [kind |-> "StringType", capacity |-> n]
UInt8     == [kind |-> "UInt8Type"]
UInt16    == [kind |-> "UInt16Type"]
SchemaOf(n)  == [kind |-> "aggregate", name |-> n]
F(name, type) == [name |-> <<name>>, type |-> type]
Named(do, name) == [do |-> do, name |-> name]

\* A string of capacity 1, given as one that exceeds a uint32, is the key of A,
\* and a uint16 with a byte of padding before it the rest.
\* B nests A and ends in the key, a byte.
SchemaA == [do |-> "schema", name |-> A, key |-> <<4>>,
            fields |-> <<F(4, String(Limit + 1)), F(5, UInt16)>>]
SchemaB == [do |-> "schema", name |-> B, key |-> <<6>>,
            fields |-> <<F(7, SchemaOf(A)), F(6, UInt8)>>]
Coll(name, schema) == [do |-> "collection", name |-> name, schema |-> schema]

\* c1 registers A and keeps documents of it in P.  c2 registers B and may make
\* P anew under it, or under A.
TwoUsers == [c \in Client |->
    IF c = c1
    THEN <<{SchemaA}, {Coll(P, A)}, {Named("colschema", P)}, {Named("put", P)},
           {Named("get", P), Named("delete", P)}>>
    ELSE <<{Named("getschema", A)}, {SchemaB}, {Coll(P, B), Coll(P, A)},
           {Named("colschema", P)}, {Named("put", P)}, {Named("get", P), Named("delete", P)}>>]

\* What is typed: nothing, and more than the capacity; a number that
\* exceeds the two bytes of a uint16.  12 is also what a byte keeps of the number.
TwoTexts == {<<>>, <<12, 3>>}
OneNumber == {<<12, 2, 1, 0, 0, 0, 0, 0>>}
=============================================================================
