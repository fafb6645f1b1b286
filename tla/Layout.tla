------------------------------- MODULE Layout --------------------------------
(***************************************************************************)
(* The layout of documents (Schema) for the schemas a user composes in the *)
(* "schema" command of the CLI (src/cli/main.cpp): fields one by one, the  *)
(* fields of schemas fetched before as aggregates, then the key field.     *)
(***************************************************************************)
EXTENDS Schema, FiniteSets

CONSTANTS
    Primitive,  \* the non-aggregate types: Leaf(size, alignment)
    MaxFields,  \* bound: fields of a schema
    MaxSchemas  \* bound: schemas composed in a session

\* alignof is a power of two and divides sizeof; the types of schema.hpp need no
\* more than 8.  A string is its header followed by capacity bytes.
ASSUME PrimitiveAssumption ==
    \A t \in Primitive : /\ t = Leaf(t.size, t.align)
                         /\ t.align \in {1, 2, 4, 8} /\ t.size \in Nat /\ t.align <= t.size
ASSUME BoundAssumption == MaxFields \in Nat \ {0} /\ MaxSchemas \in Nat

VARIABLES
    fields,     \* the schema being composed
    phase,      \* "fields" or "key": what the CLI asks for
    schemas     \* those registered and fetched: fields and key_field_index
vars == <<fields, phase, schemas>>

-----------------------------------------------------------------------------
(* The "schema" command. *)

Init == fields = <<>> /\ phase = "fields" /\ schemas = {}

\* A primitive type, or the fields of a schema that was fetched.
AddField ==
    /\ phase = "fields" /\ Len(fields) < MaxFields
    /\ \E t \in Primitive \cup {Aggregate(s.fields) : s \in schemas} :
         fields' = Append(fields, t)
    /\ UNCHANGED <<phase, schemas>>

EndFields ==
    /\ phase = "fields" /\ fields # <<>>
    /\ phase' = "key"
    /\ UNCHANGED <<fields, schemas>>

\* The key field is not an aggregate; the CLI asks again, for ever if there is
\* no other field.  The schema is registered, and fetched for later use.
ChooseKey ==
    /\ phase = "key" /\ Cardinality(schemas) < MaxSchemas
    /\ \E n \in 1..Len(fields) :
         /\ ~fields[n].agg
         /\ schemas' = schemas \cup {[fields |-> fields, key_field_index |-> n]}
    /\ fields' = <<>> /\ phase' = "fields"

Next == AddField \/ EndFields \/ ChooseKey

Spec == Init /\ [][Next]_vars

-----------------------------------------------------------------------------
(* Properties. *)

\* Types.  The aggregates that layouts are composed of are such fields again.
TypeOK ==
    /\ fields \in Seq(FieldType)
    /\ phase \in {"fields", "key"} /\ (phase = "key" => fields # <<>>)
    /\ \A s \in schemas : /\ s.fields \in Seq(FieldType)
                          /\ s.key_field_index \in DOMAIN s.fields
                          /\ ~s.fields[s.key_field_index].agg

\* Every primitive member of a document, however deeply nested, lies at a
\* multiple of its alignment from the document's start: the server reads keys
\* and the CLI reads values through pointers of the member's type
\* (collection.cpp:52, cli/main.cpp:105).
MembersAligned == \A m \in Members(fields) : m.off % m.align = 0

\* No member reaches past the size of the document, although the padding can
\* move a field back over its predecessor: filling a buffer of size(schema)
\* field by field (cli/main.cpp:392-394) never writes outside it.
MembersInBounds == \A m \in Members(fields) : m.off + m.size <= Size(fields)

\* Where the padding rule is right: a field follows its predecessor as it would
\* in a C struct whenever the bytes before it are aligned or past the middle of
\* an alignment unit, as in the struct of db/test_main.cpp:10-15.
PadsLikeC ==
    \A n \in 2..Len(fields) :
        LET o == Offset(fields, n - 1) + fields[n - 1].size
            a == fields[n].align
        IN o % a = 0 \/ 2 * (o % a) >= a => Offset(fields, n) = NextAligned(o, a)

\* "Pad such that the field is appropriately aligned" (schema.cpp:58): a field
\* starts at or after the end of the one before it.
PaddingOnly ==
    \A n \in 2..Len(fields) :
        Offset(fields, n) >= Offset(fields, n - 1) + fields[n - 1].size
=============================================================================
