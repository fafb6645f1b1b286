---------------------------- MODULE LayoutProofs -----------------------------
(***************************************************************************)
(* Theorems about Layout: for every set of primitive types, every number   *)
(* of fields and any depth of aggregates, documents are laid out so that   *)
(* their members are aligned and within bounds.  They rest on what         *)
(* DataLemmas shows of offsets and padding.                                *)
(***************************************************************************)
EXTENDS Layout, DataLemmas

LEMMA PrimitiveIsField == Primitive \subseteq FieldType
  <1> SUFFICES ASSUME NEW t \in Primitive PROVE t \in FieldType
    OBVIOUS
  <1>1. t = Leaf(t.size, t.align) /\ t.align \in Alignments /\ t.size \in Nat /\ t.align <= t.size
    BY PrimitiveAssumption DEF Alignments
  <1>2. Leaf(t.size, t.align) \in FieldType
    BY <1>1, LeafIsField
  <1> QED
    BY <1>1, <1>2

-----------------------------------------------------------------------------
(* The schemas that a user composes. *)

\* Whatever is composed, of primitive types and of schemas composed before, has
\* a layout that is well-formed at every depth.
THEOREM TypeCorrect == Spec => []TypeOK
  <1>1. Init => TypeOK
    BY DEF Init, TypeOK
  <1>2. TypeOK /\ [Next]_vars => TypeOK'
    <2> SUFFICES ASSUME TypeOK, [Next]_vars PROVE TypeOK'
      OBVIOUS
    <2>1. CASE AddField
      <3>1. PICK t \in Primitive \cup {Aggregate(s.fields) : s \in schemas} :
                fields' = Append(fields, t)
        BY <2>1 DEF AddField
      <3>2. t \in FieldType
        <4>1. CASE t \in Primitive
          BY <4>1, PrimitiveIsField
        <4>2. CASE \E s \in schemas : t = Aggregate(s.fields)
          <5>1. PICK s \in schemas : t = Aggregate(s.fields)
            BY <4>2
          <5>2. s.fields \in Seq(FieldType) /\ s.fields # <<>>
            BY DEF TypeOK
          <5> QED
            BY <5>1, <5>2, AggregateIsField
        <4> QED
          BY <3>1, <4>1, <4>2
      <3> QED
        BY <2>1, <3>1, <3>2 DEF AddField, TypeOK
    <2>2. CASE EndFields
      BY <2>2 DEF EndFields, TypeOK
    <2>3. CASE ChooseKey
      <3>1. PICK n \in 1..Len(fields) :
              /\ ~fields[n].agg
              /\ schemas' = schemas \cup {[fields |-> fields, key_field_index |-> n]}
        BY <2>3 DEF ChooseKey
      <3>2. n \in DOMAIN fields
        BY DEF TypeOK
      <3> QED
        BY <2>3, <3>1, <3>2 DEF ChooseKey, TypeOK
    <2>4. CASE UNCHANGED vars
      BY <2>4 DEF vars, TypeOK
    <2> QED
      BY <2>1, <2>2, <2>3, <2>4 DEF Next
  <1> QED
    BY <1>1, <1>2, PTL DEF Spec

\* The members of a document can be read through pointers of their types, at
\* any depth of aggregates.
THEOREM AllMembersAligned == Spec => []MembersAligned
  <1>1. TypeOK => MembersAligned
    <2> SUFFICES ASSUME TypeOK, NEW m \in Members(fields)
                 PROVE  m.off % m.align = 0
      BY DEF MembersAligned
    <2>1. fields \in Seq(FieldType) /\ fields # <<>>
      BY DEF TypeOK, Members
    <2> QED
      BY <2>1, MembersFit
  <1> QED
    BY <1>1, TypeCorrect, PTL

\* Filling a document field by field stays inside its size.
THEOREM AllMembersInBounds == Spec => []MembersInBounds
  <1>1. TypeOK => MembersInBounds
    <2> SUFFICES ASSUME TypeOK, NEW m \in Members(fields)
                 PROVE  m.off + m.size <= Size(fields)
      BY DEF MembersInBounds
    <2>1. fields \in Seq(FieldType) /\ fields # <<>>
      BY DEF TypeOK, Members
    <2> QED
      BY <2>1, MembersFit
  <1> QED
    BY <1>1, TypeCorrect, PTL

\* Where what precedes a field is aligned or past the middle of an alignment
\* unit, the field lies where the compiler would put it.
THEOREM PaddingLikeC == Spec => []PadsLikeC
  <1>1. TypeOK => PadsLikeC
    <2> SUFFICES ASSUME TypeOK, NEW n \in 2..Len(fields)
                 PROVE  LET o == Offset(fields, n - 1) + fields[n - 1].size
                            a == fields[n].align
                        IN o % a = 0 \/ 2 * (o % a) >= a => Offset(fields, n) = NextAligned(o, a)
      BY DEF PadsLikeC
    <2>1. fields \in Seq(FieldType)
      BY DEF TypeOK
    <2>2. /\ n \in 1..Len(fields) /\ n - 1 \in 1..Len(fields)
          /\ n - 1 \in Nat \ {0} /\ (n - 1) + 1 = n
      BY <2>1
    <2>3. Offset(fields, n - 1) + fields[n - 1].size \in Nat /\ fields[n].align \in Alignments
      BY <2>1, <2>2, FieldsAligned, FieldShape
    <2>4. Offset(fields, n) = Pad(Offset(fields, n - 1) + fields[n - 1].size, fields[n].align)
      BY <2>2, OffsetNext
    <2> QED
      BY <2>3, <2>4, PadAligns
  <1> QED
    BY <1>1, TypeCorrect, PTL
=============================================================================
