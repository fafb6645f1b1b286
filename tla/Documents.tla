----------------------------- MODULE Documents ------------------------------
(***************************************************************************)
(* The bytes of a document: the CLI writes what its user typed at the      *)
(* offsets of the fields (read_aggregate, src/cli/main.cpp) and prints     *)
(* from them (print_aggregate); the collection takes the key from its      *)
(* offset (Collection's constructor, src/db/collection.cpp).               *)
(*                                                                         *)
(* What a user types for a string is a sequence of bytes, for any other    *)
(* primitive type the bytes it is stored in, and for an aggregate one      *)
(* value for each field.                                                   *)
(***************************************************************************)
EXTENDS Protocol, Schema

CONSTANTS
    Texts,     \* what a user types for a string
    Nums       \* and for a number: the bytes it has in the widest type

ASSUME TypedAssumption == Texts \subseteq Bytes /\ Nums \subseteq [1..8 -> Byte]

\* sizeof(ImplType<T>::Type), which is its alignment too
PrimitiveSize == [BoolType |-> 1, UInt8Type |-> 1, UInt16Type |-> 2, UInt32Type |-> 4,
                  UInt64Type |-> 8, Int8Type |-> 1, Int16Type |-> 2, Int32Type |-> 4,
                  Int64Type |-> 8, Float32Type |-> 4, Float64Type |-> 8]

\* A string is its length and as many bytes as its capacity.
LayoutsBy(layout, fs) == [j \in 1..Len(fs) |-> layout[fs[j].type]]
LayoutOf[t \in Types] ==
    LET fields == LayoutsBy(LayoutOf, t.fields)
    IN CASE t.kind = "StringType"    -> Leaf(Width + t.capacity, Width)
         [] t.kind = "AggregateType" -> Aggregate(fields)
         [] OTHER                    -> Leaf(PrimitiveSize[t.kind], PrimitiveSize[t.kind])
Layouts(fs) == LayoutsBy(LayoutOf, fs)

FieldOffset(fs, n) == Offset(Layouts(fs), n)
DocSize(schema)    == Size(Layouts(schema.fields))

KeyIndex(schema) == schema.key + 1
KeyType(schema)  == schema.fields[KeyIndex(schema)].type

-----------------------------------------------------------------------------
(* What read_field makes of what the user types: a string trimmed to its   *)
(* capacity, a number narrowed to its type.                                *)

Trimmed(t) == {SubSeq(s, 1, IF Len(s) < t.capacity THEN Len(s) ELSE t.capacity) : s \in Texts}

ValuesBy(values, fs) ==
    {v \in [1..Len(fs) -> UNION {values[fs[j].type] : j \in 1..Len(fs)}] :
        \A j \in 1..Len(fs) : v[j] \in values[fs[j].type]}
Values[t \in Types] ==
    LET fields == ValuesBy(Values, t.fields)
    IN CASE t.kind = "StringType"    -> Trimmed(t)
         [] t.kind = "AggregateType" -> fields
         [] t.kind = "BoolType"      -> {<<0>>, <<1>>}
         [] OTHER                    -> {SubSeq(n, 1, PrimitiveSize[t.kind]) : n \in Nums}

-----------------------------------------------------------------------------
(* read_aggregate: v into buf, where the field begins after off bytes. *)

Overwrite(buf, off, bytes) ==
    [j \in 1..Len(buf) |-> IF j - off \in 1..Len(bytes) THEN bytes[j - off] ELSE buf[j]]

FillFieldsBy(fill, fs, v, off, buf) ==
    LET step == [j \in 1..Len(fs) |-> fill[fs[j].type][v[j]][off + FieldOffset(fs, j)]]
        filled[j \in 0..Len(fs)] == IF j = 0 THEN buf ELSE step[j][filled[j - 1]]
    IN filled[Len(fs)]
FillField[t \in Types] == [v \in Values[t] |-> [off \in Nat |-> [buf \in Bytes |->
    LET fields == FillFieldsBy(FillField, t.fields, v, off, buf)
    IN CASE t.kind = "StringType"    -> Overwrite(buf, off, WriteString(v))
         [] t.kind = "AggregateType" -> fields
         [] OTHER                    -> Overwrite(buf, off, v)]]]

\* vector::resize: a buffer of zeros
Zeros(n) == [j \in 1..n |-> 0]

\* Slip: the buffer has no room for the padding.
Unpadded(schema, v) ==
    FillField[Whole(schema)][v][0][Zeros(SizeUnpadded(Layouts(schema.fields)))]
Document(schema, v) == FillField[Whole(schema)][v][0][Zeros(DocSize(schema))]
Field(t, v)         == FillField[t][v][0][Zeros(LayoutOf[t].size)]

-----------------------------------------------------------------------------
(* print_aggregate and the key of a document. *)

StringLength(buf, off) == ValueOf(SubSeq(buf, off + 1, off + Width))

\* The buffer has the bytes of the field that printing it reads.
InBufferBy(inside, fs, off, buf) ==
    \A j \in 1..Len(fs) : inside[fs[j].type][off + FieldOffset(fs, j)][buf]
InBuffer[t \in Types] == [off \in Nat |-> [buf \in Bytes |->
    LET fields == InBufferBy(InBuffer, t.fields, off, buf)
    IN CASE t.kind = "StringType"    -> /\ off + Width <= Len(buf)
                                        /\ off + Width + StringLength(buf, off) <= Len(buf)
         [] t.kind = "AggregateType" -> fields
         [] OTHER                    -> off + PrimitiveSize[t.kind] <= Len(buf)]]

PrintFieldsBy(print, fs, off, buf) ==
    [j \in 1..Len(fs) |-> print[fs[j].type][off + FieldOffset(fs, j)][buf]]
PrintField[t \in Types] == [off \in Nat |-> [buf \in Bytes |->
    LET fields == PrintFieldsBy(PrintField, t.fields, off, buf)
    IN CASE t.kind = "StringType"    ->
               SubSeq(buf, off + Width + 1, off + Width + StringLength(buf, off))
         [] t.kind = "AggregateType" -> fields
         [] OTHER                    -> SubSeq(buf, off + 1, off + PrimitiveSize[t.kind])]]

\* A whole document.
Inside(schema, doc)   == InBuffer[Whole(schema)][0][doc]
FieldsOf(schema, doc) == PrintField[Whole(schema)][0][doc]

\* Slip: the key is taken from the beginning of the document.
NoOffset(schema) == 0
\* m_key_offset
KeyOffset(schema) == FieldOffset(schema.fields, KeyIndex(schema))

\* m_key_buffer_fn: of a string its characters, without the length
KeyBuffer(schema, doc) == PrintField[KeyType(schema)][KeyOffset(schema)][doc]
KeyInside(schema, doc) == InBuffer[KeyType(schema)][KeyOffset(schema)][doc]
=============================================================================
