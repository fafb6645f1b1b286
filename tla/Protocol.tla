------------------------------ MODULE Protocol -------------------------------
(***************************************************************************)
(* The binary protocol (src/protocol/binary_protocol.cpp over              *)
(* src/core/serialize.cpp): write and read of commands and responses, as   *)
(* functions on sequences of bytes.                                        *)
(*                                                                         *)
(* A uint8 takes one byte, a uint32 takes 4 in little-endian order.  Only  *)
(* the base of a byte is smaller than the 256 of the code, so that the     *)
(* limit of a uint32 can be reached; a name is a sequence of bytes.        *)
(*                                                                         *)
(* A reader returns what it made of the cursor c: res and, when it was     *)
(* there, the value v and the cursor after it.                             *)
(***************************************************************************)
EXTENDS Integers, SequencesExt

CONSTANTS
    Base,          \* values of a byte, 256 in the code
    MaxNesting     \* how deep aggregates nest: a bound, the code has none

ASSUME BaseAssumption == Base \in Nat /\ Base > 12
ASSUME NestingAssumption == MaxNesting \in Nat \ {0}

-----------------------------------------------------------------------------
(* serialize.cpp *)

Width == 4                               \* sizeof(std::uint32_t)
Limit == Base * Base * Base * Base       \* what a uint32 counts to
Byte  == 0..(Base - 1)
Bytes == Seq(Byte)

\* write(uint32): the value is narrowed to its width.
U32(n) ==
    LET rest(m) == m \div Base
    IN <<n % Base, rest(n) % Base, rest(rest(n)) % Base, rest(rest(rest(n))) % Base>>
ValueOf(c) == c[1] + Base * (c[2] + Base * (c[3] + Base * c[4]))

WriteString(s) == U32(Len(s)) \o s

Drop(c, n) == SubSeq(c, n + 1, Len(c))

\* ReadResult, with what was read and the cursor after it
Got(v, c)  == [res |-> "SUCCESS", v |-> v, c |-> c]
Incomplete == [res |-> "INCOMPLETE"]
Illegal    == [res |-> "INVALID"]
Ok(r)      == r.res = "SUCCESS"

\* What is read next, with what r gave; without it the reader returns.
Then(r, next(_, _)) == IF Ok(r) THEN next(r.v, r.c) ELSE r

ReadU8(c)  == IF c = <<>> THEN Incomplete ELSE Got(c[1], Drop(c, 1))
ReadU32(c) == IF Len(c) < Width THEN Incomplete ELSE Got(ValueOf(c), Drop(c, Width))

\* Slip: the length is not compared with what is there.
ReadShort(c) ==
    Then(ReadU32(c), LAMBDA n, d :
        Got(SubSeq(d, 1, IF n < Len(d) THEN n ELSE Len(d)), Drop(d, n)))

ReadString(c) ==
    Then(ReadU32(c), LAMBDA n, d :
        IF Len(d) < n THEN Incomplete ELSE Got(SubSeq(d, 1, n), Drop(d, n)))

-----------------------------------------------------------------------------
(* Schemas.  A type is [kind], with the capacity of a string and the fields *)
(* of an aggregate; a schema is [fields, key], the key counted from 0.      *)

\* std::variant's indices, from 0
FieldTypes == <<"BoolType", "UInt8Type", "UInt16Type", "UInt32Type", "UInt64Type",
                "Int8Type", "Int16Type", "Int32Type", "Int64Type",
                "Float32Type", "Float64Type", "StringType", "AggregateType">>
IndexIn(alternatives, name) == CHOOSE j \in 1..Len(alternatives) : alternatives[j] = name

\* The types whose aggregates are nested d deep, and lists of fields of them;
\* what is written with its length is no longer than that can say.
Names        == {s \in Bytes : Len(s) < Limit}
FieldList(T) == {fs \in Seq([name : Names, type : T]) : Len(fs) \in 1..(Limit - 1)}
TypesTo[d \in 0..MaxNesting] ==
    [kind : {FieldTypes[j] : j \in 1..11}] \cup [kind : {"StringType"}, capacity : Nat]
    \cup IF d = 0 THEN {} ELSE [kind : {"AggregateType"}, fields : FieldList(TypesTo[d - 1])]
Types  == TypesTo[MaxNesting]
Fields == FieldList(TypesTo[MaxNesting - 1])

\* The fields of a schema, as a type.
Whole(schema) == [kind |-> "AggregateType", fields |-> schema.fields]

WriteFieldsBy(write, fs) ==
    U32(Len(fs)) \o FlattenSeq([j \in 1..Len(fs) |-> WriteString(fs[j].name) \o write[fs[j].type]])
WriteType[t \in Types] ==
    LET fields == WriteFieldsBy(WriteType, t.fields)
    IN <<IndexIn(FieldTypes, t.kind) - 1>>
       \o (CASE t.kind = "StringType"    -> U32(t.capacity)
             [] t.kind = "AggregateType" -> fields
             [] OTHER                    -> <<>>)

WriteSchema(s) == WriteFieldsBy(WriteType, s.fields) \o U32(s.key)

\* The type behind its index, and n fields one after the other.
ReadFieldsBy(counted, c) == Then(ReadU32(c), LAMBDA n, d : counted[d][n])
ReadTypeBy(counted, i, c) ==
    CASE i + 1 \notin DOMAIN FieldTypes -> Illegal
      [] i + 1 = IndexIn(FieldTypes, "StringType") ->
            Then(ReadU32(c), LAMBDA n, d : Got([kind |-> "StringType", capacity |-> n], d))
      [] i + 1 = IndexIn(FieldTypes, "AggregateType") ->
            Then(ReadFieldsBy(counted, c), LAMBDA fs, d :
                Got([kind |-> "AggregateType", fields |-> fs], d))
      [] OTHER -> Got([kind |-> FieldTypes[i + 1]], c)
ReadCounted[c \in Bytes] == [n \in Nat |->
    IF n = 0 THEN Got(<<>>, c)
    ELSE Then(ReadString(c), LAMBDA name, d :
         Then(ReadU8(d), LAMBDA index, e :
         Then(ReadTypeBy(ReadCounted, index, e), LAMBDA type, f :
         Then(ReadCounted[f][n - 1], LAMBDA rest, g :
             Got(<<[name |-> name, type |-> type]>> \o rest, g)))))]

ReadSchema(c) ==
    Then(ReadFieldsBy(ReadCounted, c), LAMBDA fs, d :
    Then(ReadU32(d), LAMBDA key, e :
        IF key >= Len(fs) THEN Illegal ELSE Got([fields |-> fs, key |-> key], e)))

-----------------------------------------------------------------------------
(* Commands and responses.  The first byte is the index of the alternative; *)
(* 0 is std::monostate, which is never written.  Each alternative lists the *)
(* fields that follow.                                                      *)

Commands == <<
    [op |-> "RegisterSchema",      body |-> <<"name", "schema">>],
    [op |-> "CreateCollection",    body |-> <<"name", "schema_name">>],
    [op |-> "GetSchema",           body |-> <<"name">>],
    [op |-> "GetCollectionSchema", body |-> <<"name">>],
    [op |-> "Get",                 body |-> <<"coll_name", "key">>],
    [op |-> "Put",                 body |-> <<"coll_name", "value">>],
    [op |-> "Delete",              body |-> <<"coll_name", "key">>]>>

Responses == <<
    [op |-> "Success",        body |-> <<>>],
    [op |-> "Failed",         body |-> <<>>],
    [op |-> "InvalidCommand", body |-> <<>>],
    [op |-> "NotFound",       body |-> <<>>],
    [op |-> "Found",          body |-> <<"value">>],
    [op |-> "String",         body |-> <<"value">>],
    [op |-> "Schema",         body |-> <<"schema">>]>>

Write(alternatives, m) ==
    LET i == CHOOSE j \in 1..Len(alternatives) : alternatives[j].op = m.op
        part(name) == IF name = "schema" THEN WriteSchema(m[name]) ELSE WriteString(m[name])
    IN <<i>> \o FlattenSeq([j \in 1..Len(alternatives[i].body) |-> part(alternatives[i].body[j])])

\* The fields of the body, and the whole.  The cursor moves on only when all of
\* the message was there.
ReadBody(c, body) ==
    LET read[j \in 0..Len(body)] ==
          IF j = 0 THEN Got([x \in {} |-> 0], c)
          ELSE Then(read[j - 1], LAMBDA m, d :
               Then(IF body[j] = "schema" THEN ReadSchema(d) ELSE ReadString(d), LAMBDA part, e :
                   Got([x \in {body[j]} \cup DOMAIN m |-> IF x = body[j] THEN part ELSE m[x]], e)))
    IN read[Len(body)]

Read(alternatives, c) ==
    Then(ReadU8(c), LAMBDA i, d :
    Then(IF i \notin DOMAIN alternatives THEN Illegal ELSE ReadBody(d, alternatives[i].body), LAMBDA m, e :
        Got([x \in {"op"} \cup DOMAIN m |-> IF x = "op" THEN alternatives[i].op ELSE m[x]], e)))

\* What the width of a uint32 leaves of a schema.
NarrowFieldsBy(narrow, fs) == [j \in 1..Len(fs) |-> [fs[j] EXCEPT !.type = narrow[@]]]
NarrowType[t \in Types] ==
    LET fields == NarrowFieldsBy(NarrowType, t.fields)
    IN CASE t.kind = "StringType"    -> [t EXCEPT !.capacity = @ % Limit]
         [] t.kind = "AggregateType" -> [t EXCEPT !.fields = fields]
         [] OTHER                    -> t
Narrow(schema) == [schema EXCEPT !.fields = NarrowFieldsBy(NarrowType, @)]

\* What is left of a message on the wire: capacities of 4 bytes.
OnWire(m) == IF "schema" \in DOMAIN m THEN [m EXCEPT !.schema = Narrow(@)] ELSE m
=============================================================================
