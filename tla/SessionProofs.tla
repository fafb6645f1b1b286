---------------------------- MODULE SessionProofs -----------------------------
(***************************************************************************)
(* Theorems about Session: for any number of users, any menus of entries,  *)
(* schemas nested to any depth, any texts and numbers, and any sizes of    *)
(* receives.                                                               *)
(*                                                                         *)
(* First of documents: one that was filled by a schema has its size and    *)
(* all of its fields, although padding may move a field back over one      *)
(* before it (TypesFilled): what is then overwritten are characters, never *)
(* the length of a string.  Then of commands: what a user can enter is a   *)
(* message that the server may rely on (WhatIsMeant).  At last of the      *)
(* state: between a command and its response nothing else is on the way,   *)
(* and unless a client laid a command out by another schema than the       *)
(* collection's, every stored document is one of its schema (IInv).        *)
(***************************************************************************)
EXTENDS Session, ProtocolProofs

-----------------------------------------------------------------------------
(* Documents: the functions on types as equations.                         *)

\* What holds of the leaves, and of an aggregate when it holds of the types of
\* its fields, holds of every type.
LEMMA EveryType ==
    ASSUME NEW S, Leaves \subseteq S,
           \A T \in SUBSET Types :
               T \subseteq S /\ Aggregates(T) \subseteq Types => Aggregates(T) \subseteq S
    PROVE  Types \subseteq S
  <1> DEFINE Fails == {d \in Depths : ~(TypesTo[d] \subseteq S)}
  <1>1. ASSUME Fails # {} PROVE FALSE
    <2>1. PICK d \in Fails : \A k \in Fails : d <= k
      <3>1. Fails \subseteq Nat
        BY DepthsNat
      <3> HIDE DEF Fails
      <3> QED
        BY <1>1, <3>1, LeastOf
    <2>2. d \in Depths /\ d \in Nat
      BY DepthsNat
    <2>3. PICK t \in TypesTo[d] : t \notin S
      BY <2>1
    <2>4. d # 0 /\ t \in Aggregates(TypesTo[d - 1])
      BY <2>2, <2>3, TypeShape
    <2>5. d - 1 \in Depths /\ ~(d <= d - 1)
      BY <2>2, <2>4, DepthsNat
    <2>6. TypesTo[d - 1] \subseteq S /\ TypesTo[d - 1] \subseteq Types
      BY <2>1, <2>5, SomeTypes
    <2>7. Aggregates(TypesTo[d - 1]) \subseteq Types
      BY <2>2, <2>4, SomeTypes
    <2> QED
      BY <2>3, <2>4, <2>6, <2>7
  <1> QED
    BY <1>1, DepthsNat, TypesSmall

LEMMA LeavesAreTypes == Leaves \subseteq Types
  BY DepthsNat, SomeTypes

\* The types of the fields of an aggregate are types.
LEMMA AnAggregate ==
    ASSUME NEW t \in Types, t.kind = "AggregateType"
    PROVE  t \in Aggregates(Types) /\ t.fields \in FieldList(Types)
  <1>1. PICK d \in Depths : t \in Aggregates(TypesTo[d - 1]) /\ d # 0
    BY DepthsNat, TypesSmall, TypeShape, LeafShape
  <1>2. TypesTo[d - 1] \subseteq Types
    BY <1>1, DepthsNat, SomeTypes
  <1> DEFINE A == [name : Names, type : TypesTo[d - 1]]
             B == [name : Names, type : Types]
  <1>3. A \subseteq B
    BY <1>2
  <1>4. FieldList(TypesTo[d - 1]) = {fs \in Seq(A) : Len(fs) \in 1..(Limit - 1)}
        /\ FieldList(Types) = {fs \in Seq(B) : Len(fs) \in 1..(Limit - 1)}
    BY DEF FieldList
  <1> HIDE DEF A, B
  <1>5. t.fields \in FieldList(Types)
    <2>1. t.fields \in FieldList(TypesTo[d - 1])
      BY <1>1, AggregateShape
    <2> QED
      BY <1>3, <1>4, <2>1
  <1> QED
    BY <1>1, <1>5, AggregateShape DEF Aggregates

LayoutBy(layout, t) ==
    CASE t.kind = "StringType"    -> Leaf(Width + t.capacity, Width)
      [] t.kind = "AggregateType" -> Aggregate(LayoutsBy(layout, t.fields))
      [] OTHER                    -> Leaf(PrimitiveSize[t.kind], PrimitiveSize[t.kind])

LEMMA LayoutLocal ==
    ASSUME NEW d \in Depths, NEW f, NEW g, AgreeOn(f, g, Below(d)), NEW t \in TypesTo[d]
    PROVE  LayoutBy(f, t) = LayoutBy(g, t)
  <1>1. CASE t.kind = "AggregateType"
    <2>1. t.fields \in FieldList(Below(d))
      BY <1>1, TypeCases, KindsDiffer, LeafShape
    <2>2. \A j \in 1..Len(t.fields) : f[t.fields[j].type] = g[t.fields[j].type]
      BY <2>1, FieldListShape DEF AgreeOn
    <2>3. LayoutsBy(f, t.fields) = LayoutsBy(g, t.fields)
      BY <2>2 DEF LayoutsBy
    <2> QED
      BY <2>3 DEF LayoutBy
  <1>2. CASE t.kind # "AggregateType"
    BY <1>2 DEF LayoutBy
  <1> QED
    BY <1>1, <1>2

LEMMA LayoutOfDef == LayoutOf = [t \in Types |-> LayoutBy(LayoutOf, t)]
  <1> DEFINE Fails == {d \in Depths : ~\E f : f = [t \in TypesTo[d] |-> LayoutBy(f, t)]}
  <1>1. ASSUME Fails # {} PROVE FALSE
    <2>1. PICK d \in Fails : \A k \in Fails : d <= k
      <3>1. Fails \subseteq Nat
        BY DepthsNat
      <3> HIDE DEF Fails
      <3> QED
        BY <1>1, <3>1, LeastOf
    <2>2. d \in Nat /\ d \in Depths
      BY DepthsNat
    <2>3. PICK g : d # 0 => g = [t \in TypesTo[d - 1] |-> LayoutBy(g, t)]
      <3>1. CASE d # 0
        <4>1. d - 1 \in Depths /\ d - 1 \notin Fails
          BY <2>1, <2>2, <3>1, DepthsNat
        <4> QED
          BY <4>1
      <3> QED
        BY <3>1
    <2> DEFINE f == [t \in TypesTo[d] |-> LayoutBy(g, t)]
               h == [t \in TypesTo[d] |-> LayoutBy(f, t)]
    <2>4. AgreeOn(f, g, Below(d))
      <3>1. CASE d # 0
        <4>1. d - 1 \in Depths /\ d - 1 <= d
          BY <2>2, <3>1, DepthsNat
        <4>2. TypesTo[d - 1] \subseteq TypesTo[d]
          BY <2>2, <4>1, DeeperTypes
        <4>3. \A t \in TypesTo[d - 1] : f[t] = LayoutBy(g, t) /\ g[t] = LayoutBy(g, t)
          BY <2>3, <3>1, <4>2
        <4> QED
          BY <3>1, <4>3 DEF AgreeOn, Below
      <3> QED
        BY <3>1 DEF AgreeOn, Below
    <2>5. \A t \in TypesTo[d] : h[t] = f[t]
      <3> HIDE DEF f
      <3>1. \A t \in TypesTo[d] : LayoutBy(f, t) = LayoutBy(g, t)
        BY <2>2, <2>4, LayoutLocal
      <3> QED
        BY <3>1 DEF f
    <2>6. f = h
      BY <2>5
    <2> QED
      BY <2>1, <2>2, <2>6
  <1>2. PICK w : w = [t \in Types |-> LayoutBy(w, t)]
    <2>1. MaxNesting \notin Fails /\ MaxNesting \in Depths
      BY <1>1, DepthsNat
    <2> QED
      BY <2>1 DEF Types
  <1>3. LayoutOf = CHOOSE f : f = [t \in Types |-> LayoutBy(f, t)]
    BY DEF LayoutOf, LayoutBy
  <1> QED
    BY <1>2, <1>3

ValueBy(values, t) ==
    CASE t.kind = "StringType"    -> Trimmed(t)
      [] t.kind = "AggregateType" -> ValuesBy(values, t.fields)
      [] t.kind = "BoolType"      -> {<<0>>, <<1>>}
      [] OTHER                    -> {SubSeq(n, 1, PrimitiveSize[t.kind]) : n \in Nums}

LEMMA ValueLocal ==
    ASSUME NEW d \in Depths, NEW f, NEW g, AgreeOn(f, g, Below(d)), NEW t \in TypesTo[d]
    PROVE  ValueBy(f, t) = ValueBy(g, t)
  <1>1. CASE t.kind = "AggregateType"
    <2>1. t.fields \in FieldList(Below(d))
      BY <1>1, TypeCases, KindsDiffer, LeafShape
    <2> DEFINE fs == t.fields
    <2>2. \A j \in 1..Len(fs) : f[fs[j].type] = g[fs[j].type]
      BY <2>1, FieldListShape DEF AgreeOn
    <2> HIDE DEF fs
    <2>3. {f[fs[j].type] : j \in 1..Len(fs)} = {g[fs[j].type] : j \in 1..Len(fs)}
      BY <2>2
    <2>4. \A v : (\A j \in 1..Len(fs) : v[j] \in f[fs[j].type]) <=> (\A j \in 1..Len(fs) : v[j] \in g[fs[j].type])
      BY <2>2
    <2>5. ValuesBy(f, fs) = ValuesBy(g, fs)
      BY <2>3, <2>4 DEF ValuesBy
    <2> QED
      BY <2>5 DEF ValueBy, fs
  <1>2. CASE t.kind # "AggregateType"
    BY <1>2 DEF ValueBy
  <1> QED
    BY <1>1, <1>2

LEMMA ValuesDef == Values = [t \in Types |-> ValueBy(Values, t)]
  <1> DEFINE Fails == {d \in Depths : ~\E f : f = [t \in TypesTo[d] |-> ValueBy(f, t)]}
  <1>1. ASSUME Fails # {} PROVE FALSE
    <2>1. PICK d \in Fails : \A k \in Fails : d <= k
      <3>1. Fails \subseteq Nat
        BY DepthsNat
      <3> HIDE DEF Fails
      <3> QED
        BY <1>1, <3>1, LeastOf
    <2>2. d \in Nat /\ d \in Depths
      BY DepthsNat
    <2>3. PICK g : d # 0 => g = [t \in TypesTo[d - 1] |-> ValueBy(g, t)]
      <3>1. CASE d # 0
        <4>1. d - 1 \in Depths /\ d - 1 \notin Fails
          BY <2>1, <2>2, <3>1, DepthsNat
        <4> QED
          BY <4>1
      <3> QED
        BY <3>1
    <2> DEFINE f == [t \in TypesTo[d] |-> ValueBy(g, t)]
               h == [t \in TypesTo[d] |-> ValueBy(f, t)]
    <2>4. AgreeOn(f, g, Below(d))
      <3>1. CASE d # 0
        <4>1. d - 1 \in Depths /\ d - 1 <= d
          BY <2>2, <3>1, DepthsNat
        <4>2. TypesTo[d - 1] \subseteq TypesTo[d]
          BY <2>2, <4>1, DeeperTypes
        <4>3. \A t \in TypesTo[d - 1] : f[t] = ValueBy(g, t) /\ g[t] = ValueBy(g, t)
          BY <2>3, <3>1, <4>2
        <4> QED
          BY <3>1, <4>3 DEF AgreeOn, Below
      <3> QED
        BY <3>1 DEF AgreeOn, Below
    <2>5. \A t \in TypesTo[d] : h[t] = f[t]
      <3> HIDE DEF f
      <3>1. \A t \in TypesTo[d] : ValueBy(f, t) = ValueBy(g, t)
        BY <2>2, <2>4, ValueLocal
      <3> QED
        BY <3>1 DEF f
    <2>6. f = h
      BY <2>5
    <2> QED
      BY <2>1, <2>2, <2>6
  <1>2. PICK w : w = [t \in Types |-> ValueBy(w, t)]
    <2>1. MaxNesting \notin Fails /\ MaxNesting \in Depths
      BY <1>1, DepthsNat
    <2> QED
      BY <2>1 DEF Types
  <1>3. Values = CHOOSE f : f = [t \in Types |-> ValueBy(f, t)]
    BY DEF Values, ValueBy
  <1> QED
    BY <1>2, <1>3

FillCase(fill, t, v, off, buf) ==
    CASE t.kind = "StringType"    -> Overwrite(buf, off, WriteString(v))
      [] t.kind = "AggregateType" -> FillFieldsBy(fill, t.fields, v, off, buf)
      [] OTHER                    -> Overwrite(buf, off, v)
FillBy(fill, t) ==
    [v \in Values[t] |-> [off \in Nat |-> [buf \in Bytes |-> FillCase(fill, t, v, off, buf)]]]
FillSteps(fill, fs, v, off) ==
    [j \in 1..Len(fs) |-> fill[fs[j].type][v[j]][off + FieldOffset(fs, j)]]

LEMMA FillLocal ==
    ASSUME NEW d \in Depths, NEW f, NEW g, AgreeOn(f, g, Below(d)), NEW t \in TypesTo[d]
    PROVE  FillBy(f, t) = FillBy(g, t)
  <1>1. CASE t.kind = "AggregateType"
    <2>1. t.fields \in FieldList(Below(d))
      BY <1>1, TypeCases, KindsDiffer, LeafShape
    <2> DEFINE fs == t.fields
    <2>2. \A j \in 1..Len(fs) : f[fs[j].type] = g[fs[j].type]
      BY <2>1, FieldListShape DEF AgreeOn
    <2> HIDE DEF fs
    <2>3. \A v, off : FillSteps(f, fs, v, off) = FillSteps(g, fs, v, off)
      BY <2>2 DEF FillSteps
    <2>4. \A v, off, buf : FillFieldsBy(f, fs, v, off, buf) = FillFieldsBy(g, fs, v, off, buf)
      <3> DEFINE Run(each, buf) == (CHOOSE filled : filled = [j \in 0..Len(fs) |->
                                      IF j = 0 THEN buf ELSE each[j][filled[j - 1]]])[Len(fs)]
      <3>1. \A h, v, off, buf : FillFieldsBy(h, fs, v, off, buf) = Run(FillSteps(h, fs, v, off), buf)
        BY DEF FillFieldsBy, FillSteps
      <3> HIDE DEF Run
      <3> QED
        BY <2>3, <3>1
    <2> QED
      BY <1>1, <2>4 DEF FillBy, FillCase, fs
  <1>2. CASE t.kind # "AggregateType"
    BY <1>2 DEF FillBy, FillCase
  <1> QED
    BY <1>1, <1>2

LEMMA FillFieldDef == FillField = [t \in Types |-> FillBy(FillField, t)]
  <1> DEFINE Fails == {d \in Depths : ~\E f : f = [t \in TypesTo[d] |-> FillBy(f, t)]}
  <1>1. ASSUME Fails # {} PROVE FALSE
    <2>1. PICK d \in Fails : \A k \in Fails : d <= k
      <3>1. Fails \subseteq Nat
        BY DepthsNat
      <3> HIDE DEF Fails
      <3> QED
        BY <1>1, <3>1, LeastOf
    <2>2. d \in Nat /\ d \in Depths
      BY DepthsNat
    <2>3. PICK g : d # 0 => g = [t \in TypesTo[d - 1] |-> FillBy(g, t)]
      <3>1. CASE d # 0
        <4>1. d - 1 \in Depths /\ d - 1 \notin Fails
          BY <2>1, <2>2, <3>1, DepthsNat
        <4> QED
          BY <4>1
      <3> QED
        BY <3>1
    <2> DEFINE f == [t \in TypesTo[d] |-> FillBy(g, t)]
               h == [t \in TypesTo[d] |-> FillBy(f, t)]
    <2>4. AgreeOn(f, g, Below(d))
      <3>1. CASE d # 0
        <4>1. d - 1 \in Depths /\ d - 1 <= d
          BY <2>2, <3>1, DepthsNat
        <4>2. TypesTo[d - 1] \subseteq TypesTo[d]
          BY <2>2, <4>1, DeeperTypes
        <4>3. \A t \in TypesTo[d - 1] : f[t] = FillBy(g, t) /\ g[t] = FillBy(g, t)
          BY <2>3, <3>1, <4>2
        <4> QED
          BY <3>1, <4>3 DEF AgreeOn, Below
      <3> QED
        BY <3>1 DEF AgreeOn, Below
    <2>5. \A t \in TypesTo[d] : h[t] = f[t]
      <3> HIDE DEF f
      <3>1. \A t \in TypesTo[d] : FillBy(f, t) = FillBy(g, t)
        BY <2>2, <2>4, FillLocal
      <3> QED
        BY <3>1 DEF f
    <2>6. f = h
      BY <2>5
    <2> QED
      BY <2>1, <2>2, <2>6
  <1>2. PICK w : w = [t \in Types |-> FillBy(w, t)]
    <2>1. MaxNesting \notin Fails /\ MaxNesting \in Depths
      BY <1>1, DepthsNat
    <2> QED
      BY <2>1 DEF Types
  <1>3. FillField = CHOOSE f : f = [t \in Types |-> FillBy(f, t)]
    BY DEF FillField, FillBy, FillCase
  <1> QED
    BY <1>2, <1>3

InsideCase(inside, t, off, buf) ==
    CASE t.kind = "StringType"    -> /\ off + Width <= Len(buf)
                                     /\ off + Width + StringLength(buf, off) <= Len(buf)
      [] t.kind = "AggregateType" -> InBufferBy(inside, t.fields, off, buf)
      [] OTHER                    -> off + PrimitiveSize[t.kind] <= Len(buf)
InsideBy(inside, t) == [off \in Nat |-> [buf \in Bytes |-> InsideCase(inside, t, off, buf)]]

LEMMA InsideLocal ==
    ASSUME NEW d \in Depths, NEW f, NEW g, AgreeOn(f, g, Below(d)), NEW t \in TypesTo[d]
    PROVE  InsideBy(f, t) = InsideBy(g, t)
  <1>1. CASE t.kind = "AggregateType"
    <2>1. t.fields \in FieldList(Below(d))
      BY <1>1, TypeCases, KindsDiffer, LeafShape
    <2> DEFINE fs == t.fields
    <2>2. \A j \in 1..Len(fs) : f[fs[j].type] = g[fs[j].type]
      BY <2>1, FieldListShape DEF AgreeOn
    <2> HIDE DEF fs
    <2>3. \A off, buf : InBufferBy(f, fs, off, buf) = InBufferBy(g, fs, off, buf)
      BY <2>2 DEF InBufferBy
    <2> QED
      BY <1>1, <2>3 DEF InsideBy, InsideCase, fs
  <1>2. CASE t.kind # "AggregateType"
    BY <1>2 DEF InsideBy, InsideCase
  <1> QED
    BY <1>1, <1>2

LEMMA InBufferDef == InBuffer = [t \in Types |-> InsideBy(InBuffer, t)]
  <1> DEFINE Fails == {d \in Depths : ~\E f : f = [t \in TypesTo[d] |-> InsideBy(f, t)]}
  <1>1. ASSUME Fails # {} PROVE FALSE
    <2>1. PICK d \in Fails : \A k \in Fails : d <= k
      <3>1. Fails \subseteq Nat
        BY DepthsNat
      <3> HIDE DEF Fails
      <3> QED
        BY <1>1, <3>1, LeastOf
    <2>2. d \in Nat /\ d \in Depths
      BY DepthsNat
    <2>3. PICK g : d # 0 => g = [t \in TypesTo[d - 1] |-> InsideBy(g, t)]
      <3>1. CASE d # 0
        <4>1. d - 1 \in Depths /\ d - 1 \notin Fails
          BY <2>1, <2>2, <3>1, DepthsNat
        <4> QED
          BY <4>1
      <3> QED
        BY <3>1
    <2> DEFINE f == [t \in TypesTo[d] |-> InsideBy(g, t)]
               h == [t \in TypesTo[d] |-> InsideBy(f, t)]
    <2>4. AgreeOn(f, g, Below(d))
      <3>1. CASE d # 0
        <4>1. d - 1 \in Depths /\ d - 1 <= d
          BY <2>2, <3>1, DepthsNat
        <4>2. TypesTo[d - 1] \subseteq TypesTo[d]
          BY <2>2, <4>1, DeeperTypes
        <4>3. \A t \in TypesTo[d - 1] : f[t] = InsideBy(g, t) /\ g[t] = InsideBy(g, t)
          BY <2>3, <3>1, <4>2
        <4> QED
          BY <3>1, <4>3 DEF AgreeOn, Below
      <3> QED
        BY <3>1 DEF AgreeOn, Below
    <2>5. \A t \in TypesTo[d] : h[t] = f[t]
      <3> HIDE DEF f
      <3>1. \A t \in TypesTo[d] : InsideBy(f, t) = InsideBy(g, t)
        BY <2>2, <2>4, InsideLocal
      <3> QED
        BY <3>1 DEF f
    <2>6. f = h
      BY <2>5
    <2> QED
      BY <2>1, <2>2, <2>6
  <1>2. PICK w : w = [t \in Types |-> InsideBy(w, t)]
    <2>1. MaxNesting \notin Fails /\ MaxNesting \in Depths
      BY <1>1, DepthsNat
    <2> QED
      BY <2>1 DEF Types
  <1>3. InBuffer = CHOOSE f : f = [t \in Types |-> InsideBy(f, t)]
    BY DEF InBuffer, InsideBy, InsideCase
  <1> QED
    BY <1>2, <1>3

-----------------------------------------------------------------------------
(* The sizes of types and of what is typed for them.                       *)

LEMMA LayoutIs ==
    ASSUME NEW t \in Types
    PROVE  /\ t.kind = "StringType" => LayoutOf[t] = Leaf(Width + t.capacity, Width)
           /\ t.kind = "AggregateType" => LayoutOf[t] = Aggregate(Layouts(t.fields))
           /\ t.kind \in Primitives => LayoutOf[t] = Leaf(PrimitiveSize[t.kind], PrimitiveSize[t.kind])
  BY LayoutOfDef, KindsDiffer DEF LayoutBy, Layouts

LEMMA ValuesIs ==
    ASSUME NEW t \in Types
    PROVE  /\ t.kind = "StringType" => Values[t] = Trimmed(t)
           /\ t.kind = "AggregateType" => Values[t] = ValuesBy(Values, t.fields)
           /\ t.kind \in Primitives =>
                Values[t] \subseteq {<<0>>, <<1>>} \cup {SubSeq(n, 1, PrimitiveSize[t.kind]) : n \in Nums}
           /\ t.kind \in Primitives /\ t.kind # "BoolType" =>
                Values[t] = {SubSeq(n, 1, PrimitiveSize[t.kind]) : n \in Nums}
           /\ t.kind = "BoolType" => Values[t] = {<<0>>, <<1>>}
  BY ValuesDef, KindsDiffer DEF ValueBy

LEMMA PrimitiveSizes ==
    /\ \A k \in Primitives : PrimitiveSize[k] \in {1, 2, 4, 8}
    /\ PrimitiveSize["BoolType"] = 1
  <1>1. /\ PrimitiveSize["BoolType"] = 1 /\ PrimitiveSize["UInt8Type"] = 1
        /\ PrimitiveSize["UInt16Type"] = 2 /\ PrimitiveSize["UInt32Type"] = 4
        /\ PrimitiveSize["UInt64Type"] = 8 /\ PrimitiveSize["Int8Type"] = 1
        /\ PrimitiveSize["Int16Type"] = 2 /\ PrimitiveSize["Int32Type"] = 4
        /\ PrimitiveSize["Int64Type"] = 8 /\ PrimitiveSize["Float32Type"] = 4
        /\ PrimitiveSize["Float64Type"] = 8
    BY DEF PrimitiveSize
  <1>2. ASSUME NEW j \in 1..11 PROVE PrimitiveSize[FieldTypes[j]] \in {1, 2, 4, 8}
    <2>1. \/ FieldTypes[j] = "BoolType" \/ FieldTypes[j] = "UInt8Type" \/ FieldTypes[j] = "UInt16Type"
          \/ FieldTypes[j] = "UInt32Type" \/ FieldTypes[j] = "UInt64Type" \/ FieldTypes[j] = "Int8Type"
          \/ FieldTypes[j] = "Int16Type" \/ FieldTypes[j] = "Int32Type" \/ FieldTypes[j] = "Int64Type"
          \/ FieldTypes[j] = "Float32Type" \/ FieldTypes[j] = "Float64Type"
      BY DEF FieldTypes
    <2> QED
      BY <1>1, <2>1
  <1> QED
    BY <1>1, <1>2 DEF Primitives

\* A type is a field of Schema, and a list of fields one of Schema's.
LEMMA LayoutsAre ==
    ASSUME NEW T, NEW fs \in FieldList(T), \A t \in T : LayoutOf[t] \in FieldType
    PROVE  /\ Layouts(fs) \in Seq(FieldType) /\ Len(Layouts(fs)) = Len(fs) /\ Layouts(fs) # <<>>
           /\ \A j \in 1..Len(fs) : Layouts(fs)[j] = LayoutOf[fs[j].type]
  <1>1. Len(fs) \in Nat \ {0} /\ \A j \in 1..Len(fs) : fs[j].type \in T
    BY FieldListShape
  <1>2. Layouts(fs) = [j \in 1..Len(fs) |-> LayoutOf[fs[j].type]]
    BY DEF Layouts, LayoutsBy
  <1> DEFINE ls == Layouts(fs)
             n  == Len(fs)
  <1>3. \A j \in 1..n : ls[j] = LayoutOf[fs[j].type] /\ LayoutOf[fs[j].type] \in FieldType
    BY <1>1, <1>2
  <1>4. ls \in [1..n -> FieldType]
    BY <1>2, <1>3
  <1> HIDE DEF ls, n
  <1>5. ls \in Seq(FieldType) /\ Len(ls) = n
    BY <1>1, <1>4, FunctionIsSeq DEF n
  <1>6. ls # <<>>
    BY <1>1, <1>5 DEF n
  <1> QED
    BY <1>3, <1>5, <1>6 DEF ls, n

LEMMA TypesAreFields == \A t \in Types : LayoutOf[t] \in FieldType
  <1> DEFINE S == {t \in Types : LayoutOf[t] \in FieldType}
  <1>1. Leaves \subseteq S
    <2> SUFFICES ASSUME NEW t \in Leaves PROVE LayoutOf[t] \in FieldType /\ t \in Types
      OBVIOUS
    <2>1. t \in Types
      BY LeavesAreTypes
    <2>2. CASE t.kind = "StringType"
      <3>1. Width + t.capacity \in Nat /\ Width \in Alignments /\ Width <= Width + t.capacity
        BY <2>2, LeafShape DEF Width, Alignments
      <3> QED
        BY <2>1, <2>2, <3>1, LayoutIs, LeafIsField
    <2>3. CASE t.kind # "StringType"
      <3>1. t.kind \in Primitives
        BY <2>3, LeafShape
      <3>2. PrimitiveSize[t.kind] \in Nat /\ PrimitiveSize[t.kind] \in Alignments
            /\ PrimitiveSize[t.kind] <= PrimitiveSize[t.kind]
        BY <3>1, PrimitiveSizes DEF Alignments
      <3> QED
        BY <2>1, <3>1, <3>2, LayoutIs, LeafIsField
    <2> QED
      BY <2>1, <2>2, <2>3
  <1>2. ASSUME NEW T \in SUBSET Types, T \subseteq S, Aggregates(T) \subseteq Types
        PROVE  Aggregates(T) \subseteq S
    <2> SUFFICES ASSUME NEW t \in Aggregates(T) PROVE LayoutOf[t] \in FieldType
      BY <1>2
    <2>1. t.kind = "AggregateType" /\ t.fields \in FieldList(T) /\ t \in Types
      BY <1>2, AggregateShape
    <2>2. Layouts(t.fields) \in Seq(FieldType) /\ Layouts(t.fields) # <<>>
      BY <1>2, <2>1, LayoutsAre
    <2> QED
      BY <2>1, <2>2, LayoutIs, AggregateIsField
  <1> HIDE DEF S
  <1>3. Types \subseteq S
    BY <1>1, <1>2, EveryType
  <1> QED
    BY <1>3 DEF S

\* Where the fields of an aggregate lie in it.
LEMMA FieldPlaces ==
    ASSUME NEW fs \in FieldList(Types)
    PROVE  /\ Size(Layouts(fs)) \in Nat /\ Alignment(Layouts(fs)) \in Alignments
           /\ \A j \in 1..Len(fs) :
                /\ fs[j].type \in Types
                /\ FieldOffset(fs, j) \in Nat /\ LayoutOf[fs[j].type].size \in Nat
                /\ LayoutOf[fs[j].type].align \in Alignments
                /\ LayoutOf[fs[j].type].align <= Alignment(Layouts(fs))
                /\ FieldOffset(fs, j) % LayoutOf[fs[j].type].align = 0
                /\ FieldOffset(fs, j) + LayoutOf[fs[j].type].size <= Size(Layouts(fs))
  <1> DEFINE ls == Layouts(fs)
             n  == Len(fs)
  <1>1. ls \in Seq(FieldType) /\ Len(ls) = n /\ ls # <<>> /\ \A j \in 1..n : ls[j] = LayoutOf[fs[j].type]
    BY TypesAreFields, LayoutsAre
  <1>2. n \in Nat \ {0} /\ \A j \in 1..n : fs[j].type \in Types
    BY FieldListShape
  <1>3. \A j \in 1..n : FieldOffset(fs, j) = Offset(ls, j)
    BY DEF FieldOffset
  <1> HIDE DEF ls, n
  <1>4. \A j \in 1..n : Offset(ls, j) \in Nat /\ Offset(ls, j) % ls[j].align = 0
    BY <1>1, FieldsAligned
  <1>5. \A j \in 1..n : ls[j].size \in Nat /\ ls[j].align \in Alignments
    BY <1>1, FieldShape
  <1>6. \A j \in 1..n : Offset(ls, j) + ls[j].size <= Size(ls)
    <2> SUFFICES ASSUME NEW j \in 1..n PROVE Offset(ls, j) + ls[j].size <= Size(ls)
      OBVIOUS
    <2>1. n \in j..n /\ j \in 1..Len(ls) /\ n = Len(ls)
      BY <1>1, <1>2
    <2>2. Offset(ls, j) + ls[j].size <= Offset(ls, n) + ls[n].size
      BY <1>1, <2>1, FieldsEndInOrder
    <2> QED
      BY <2>1, <2>2 DEF Size
  <1>7. Size(ls) \in Nat
    <2>1. n \in 1..n
      BY <1>2
    <2> QED
      BY <1>1, <1>4, <1>5, <2>1 DEF Size
  <1>8. \A j \in 1..n : ls[j].align <= Alignment(ls)
    BY <1>1, AlignmentIsMax
  <1>9. Alignment(ls) \in Alignments
    BY <1>1, <1>5, AlignmentIsMax
  <1> QED
    BY <1>1, <1>2, <1>3, <1>4, <1>5, <1>6, <1>7, <1>8, <1>9 DEF ls, n

-----------------------------------------------------------------------------
(* Filling a buffer.                                                       *)
(*                                                                         *)
(* The padding rule may move a field back over its predecessor, but never  *)
(* over the length of a string: what follows lies at or after every        *)
(* multiple of 4 that the predecessor reaches.                             *)

LEMMA FillIs ==
    ASSUME NEW t \in Types, NEW v \in Values[t], NEW off \in Nat
    PROVE  /\ FillField[t][v][off] = [buf \in Bytes |-> FillField[t][v][off][buf]]
           /\ \A buf \in Bytes :
                /\ t.kind = "StringType" => FillField[t][v][off][buf] = Overwrite(buf, off, WriteString(v))
                /\ t.kind = "AggregateType" =>
                     FillField[t][v][off][buf] = FillFieldsBy(FillField, t.fields, v, off, buf)
                /\ t.kind \in Primitives => FillField[t][v][off][buf] = Overwrite(buf, off, v)
  <1>1. FillField[t][v][off] = [buf \in Bytes |-> FillCase(FillField, t, v, off, buf)]
    BY FillFieldDef DEF FillBy
  <1>2. \A buf \in Bytes : FillField[t][v][off][buf] = FillCase(FillField, t, v, off, buf)
    BY <1>1
  <1>3. FillField[t][v][off] = [buf \in Bytes |-> FillField[t][v][off][buf]]
    BY <1>1
  <1>4. /\ t.kind = "StringType" => \A buf : FillCase(FillField, t, v, off, buf) = Overwrite(buf, off, WriteString(v))
        /\ t.kind = "AggregateType" =>
             \A buf : FillCase(FillField, t, v, off, buf) = FillFieldsBy(FillField, t.fields, v, off, buf)
        /\ t.kind \in Primitives => \A buf : FillCase(FillField, t, v, off, buf) = Overwrite(buf, off, v)
    BY KindsDiffer DEF FillCase
  <1> QED
    BY <1>2, <1>3, <1>4

LEMMA InsideIs ==
    ASSUME NEW t \in Types, NEW off \in Nat, NEW buf \in Bytes
    PROVE  /\ t.kind = "StringType" =>
                (InBuffer[t][off][buf] <=> /\ off + Width <= Len(buf)
                                           /\ off + Width + StringLength(buf, off) <= Len(buf))
           /\ t.kind = "AggregateType" =>
                (InBuffer[t][off][buf] <=>
                   \A j \in 1..Len(t.fields) :
                       InBuffer[t.fields[j].type][off + FieldOffset(t.fields, j)][buf])
           /\ t.kind \in Primitives =>
                (InBuffer[t][off][buf] <=> off + PrimitiveSize[t.kind] <= Len(buf))
  <1>1. InBuffer[t][off][buf] = InsideCase(InBuffer, t, off, buf)
    <2>1. InBuffer[t] = InsideBy(InBuffer, t)
      BY InBufferDef
    <2>2. InsideBy(InBuffer, t)[off][buf] = InsideCase(InBuffer, t, off, buf)
      BY ZenonT(60) DEF InsideBy
    <2> QED
      BY <2>1, <2>2
  <1>2. t.kind = "StringType" =>
          InsideCase(InBuffer, t, off, buf) = (/\ off + Width <= Len(buf)
                                               /\ off + Width + StringLength(buf, off) <= Len(buf))
    BY DEF InsideCase
  <1>3. t.kind = "AggregateType" => InsideCase(InBuffer, t, off, buf) = InBufferBy(InBuffer, t.fields, off, buf)
    BY DEF InsideCase
  <1>4. t.kind \in Primitives => InsideCase(InBuffer, t, off, buf) = (off + PrimitiveSize[t.kind] <= Len(buf))
    BY KindsDiffer DEF InsideCase
  <1> QED
    BY <1>1, <1>2, <1>3, <1>4 DEF InBufferBy

\* What is typed for a field that is no aggregate.
LEMMA LeafValues ==
    ASSUME NEW t \in Leaves, NEW v \in Values[t]
    PROVE  /\ v \in Bytes /\ Len(v) \in Nat
           /\ t.kind = "StringType" => Len(v) <= t.capacity
           /\ t.kind # "StringType" => Len(v) = PrimitiveSize[t.kind]
  <1>1. t \in Types
    BY LeavesAreTypes
  <1>2. CASE t.kind = "StringType"
    <2>1. t.capacity \in Nat
      BY <1>2, LeafShape
    <2>2. PICK s \in Texts : v = SubSeq(s, 1, IF Len(s) < t.capacity THEN Len(s) ELSE t.capacity)
      BY <1>1, <1>2, ValuesIs DEF Trimmed
    <2>3. s \in Bytes /\ Len(s) \in Nat
      BY TypedAssumption, ByteSeqs
    <2> DEFINE n == IF Len(s) < t.capacity THEN Len(s) ELSE t.capacity
    <2>4. n \in 0..Len(s) /\ n <= t.capacity /\ n \in Nat
      BY <2>1, <2>3
    <2> HIDE DEF n
    <2>5. v \in Bytes /\ Len(v) = n
      BY <2>2, <2>3, <2>4, DropBytes DEF n
    <2> QED
      BY <1>2, <2>4, <2>5
  <1>3. CASE t.kind # "StringType"
    <2> DEFINE k == PrimitiveSize[t.kind]
    <2>1. t.kind \in Primitives /\ k \in {1, 2, 4, 8}
      BY <1>3, LeafShape, PrimitiveSizes
    <2>2. CASE \E n \in Nums : v = SubSeq(n, 1, k)
      <3>1. PICK n \in Nums : v = SubSeq(n, 1, k)
        BY <2>2
      <3>2. n \in Seq(Byte) /\ Len(n) = 8
        <4>1. n \in [1..8 -> Byte]
          BY TypedAssumption
        <4> QED
          BY <4>1, FunctionIsSeq
      <3>3. n \in Bytes /\ k \in 0..Len(n)
        BY <2>1, <3>2 DEF Bytes
      <3>4. v \in Bytes /\ Len(v) = k
        BY <3>1, <3>3, DropBytes
      <3> QED
        BY <1>3, <2>1, <3>4
    <2>3. CASE t.kind = "BoolType" /\ v \in {<<0>>, <<1>>}
      <3>1. 0 \in Byte /\ 1 \in Byte
        BY BaseAssumption DEF Byte
      <3>2. v \in Bytes /\ Len(v) = 1
        BY <2>3, <3>1, ByteSeqs
      <3> QED
        BY <1>3, <2>3, <3>2, PrimitiveSizes
    <2> QED
      BY <1>1, <2>1, <2>2, <2>3, ValuesIs
  <1> QED
    BY <1>2, <1>3

LEMMA Overwritten ==
    ASSUME NEW buf \in Bytes, NEW off \in Nat, NEW bytes \in Bytes
    PROVE  /\ Overwrite(buf, off, bytes) \in Bytes /\ Len(Overwrite(buf, off, bytes)) = Len(buf)
           /\ \A j \in 1..Len(buf) : j <= off => Overwrite(buf, off, bytes)[j] = buf[j]
           /\ \A j \in 1..Len(bytes) : off + j <= Len(buf) => Overwrite(buf, off, bytes)[off + j] = bytes[j]
  <1> DEFINE n == Len(buf)
             m == Len(bytes)
             out == Overwrite(buf, off, bytes)
  <1>1. /\ n \in Nat /\ m \in Nat
        /\ \A j \in 1..n : buf[j] \in Byte
        /\ \A j \in 1..m : bytes[j] \in Byte
    BY DEF Bytes
  <1>2. out = [j \in 1..n |-> IF j - off \in 1..m THEN bytes[j - off] ELSE buf[j]]
    BY DEF Overwrite
  <1> HIDE DEF out, n, m
  <1>3. out \in [1..n -> Byte]
    BY <1>1, <1>2
  <1>4. out \in Bytes /\ Len(out) = n
    BY <1>1, <1>3, FunctionIsSeq DEF Bytes
  <1>5. \A j \in 1..n : j <= off => out[j] = buf[j]
    BY <1>1, <1>2
  <1>6. \A j \in 1..m : off + j <= n => off + j \in 1..n /\ (off + j) - off = j
    BY <1>1
  <1>7. \A j \in 1..m : off + j <= n => out[off + j] = bytes[j]
    BY <1>2, <1>6
  <1> QED
    BY <1>4, <1>5, <1>7 DEF out, n, m

Heads(e, p)              == \A h \in Nat : h % 4 = 0 /\ h <= e => h <= p
SameUpTo(buf, other, p)  == \A j \in 1..Len(buf) : j <= p => other[j] = buf[j]

\* The length of a string is in the 4 bytes at its offset.
LEMMA LengthIsThere ==
    ASSUME NEW buf \in Bytes, NEW off \in Nat, off + Width <= Len(buf)
    PROVE  /\ StringLength(buf, off) \in Nat /\ StringLength(buf, off) \in 0..(Limit - 1)
           /\ StringLength(buf, off) =
                buf[off + 1] + Base * (buf[off + 2] + Base * (buf[off + 3] + Base * buf[off + 4]))
  <1> DEFINE c == SubSeq(buf, off + 1, off + Width)
  <1>1. c \in Bytes /\ Len(c) = 4
    BY DEF Bytes, Width
  <1>2. c[1] = buf[off + 1] /\ c[2] = buf[off + 2] /\ c[3] = buf[off + 3] /\ c[4] = buf[off + 4]
    BY DEF Bytes, Width
  <1>3. StringLength(buf, off) = ValueOf(c)
    BY DEF StringLength
  <1> HIDE DEF c
  <1>4. ValueOf(c) \in Nat /\ ValueOf(c) \in 0..(Limit - 1)
    <2>1. Len(c) >= Width
      BY <1>1 DEF Width
    <2>2. ValueOf(c) \in 0..(Limit - 1)
      BY <1>1, <2>1, ValueBound
    <2> QED
      BY <2>2
  <1>5. ValueOf(c) = c[1] + Base * (c[2] + Base * (c[3] + Base * c[4]))
    BY DEF ValueOf
  <1> QED
    BY <1>2, <1>3, <1>4, <1>5

LEMMA SameLength ==
    ASSUME NEW buf \in Bytes, NEW other \in Bytes, NEW off \in Nat, Len(other) = Len(buf),
           off + Width <= Len(buf), SameUpTo(buf, other, off + 4)
    PROVE  StringLength(other, off) = StringLength(buf, off)
  <1>1. /\ off + 1 \in 1..Len(buf) /\ off + 2 \in 1..Len(buf)
        /\ off + 3 \in 1..Len(buf) /\ off + 4 \in 1..Len(buf)
    <2>1. Len(buf) \in Nat
      BY ByteSeqs
    <2> QED
      BY <2>1 DEF Width
  <1>2. /\ other[off + 1] = buf[off + 1] /\ other[off + 2] = buf[off + 2]
        /\ other[off + 3] = buf[off + 3] /\ other[off + 4] = buf[off + 4]
    BY <1>1 DEF SameUpTo
  <1>3. off + Width <= Len(other)
    OBVIOUS
  <1> QED
    BY <1>2, <1>3, LengthIsThere

LEMMA StringWritten ==
    ASSUME NEW v \in Bytes, NEW off \in Nat, NEW buf \in Bytes, off + Width + Len(v) <= Len(buf)
    PROVE  StringLength(Overwrite(buf, off, WriteString(v)), off) <= Len(v)
  <1> DEFINE w == WriteString(v)
             out == Overwrite(buf, off, w)
             u == U32(Len(v))
  <1>1. Len(v) \in Nat /\ Len(buf) \in Nat /\ off + Width <= Len(buf)
    BY ByteSeqs DEF Width
  <1>2. u \in Bytes /\ Len(u) = 4 /\ ValueOf(u) = Len(v) % Limit
    BY <1>1, U32Value DEF Width
  <1> HIDE DEF u
  <1>3. w \in Bytes /\ Len(w) = 4 + Len(v) /\ w[1] = u[1] /\ w[2] = u[2] /\ w[3] = u[3] /\ w[4] = u[4]
    <2>1. w = u \o v
      BY DEF WriteString, u
    <2>2. \A i \in 1..4 : (u \o v)[i] = u[i]
      BY <1>2, DropConcat
    <2>3. u \o v \in Bytes /\ Len(u \o v) = Len(u) + Len(v)
      BY <1>2, ByteSeqs
    <2> HIDE DEF w
    <2> QED
      BY <1>2, <2>1, <2>2, <2>3
  <1> HIDE DEF w
  <1>4. out \in Bytes /\ Len(out) = Len(buf) /\ \A j \in 1..Len(w) : off + j <= Len(buf) => out[off + j] = w[j]
    BY <1>3, Overwritten
  <1> HIDE DEF out
  <1>5. /\ out[off + 1] = w[1] /\ out[off + 2] = w[2] /\ out[off + 3] = w[3] /\ out[off + 4] = w[4]
    <2>1. /\ 1 \in 1..Len(w) /\ 2 \in 1..Len(w) /\ 3 \in 1..Len(w) /\ 4 \in 1..Len(w)
          /\ off + 1 <= Len(buf) /\ off + 2 <= Len(buf) /\ off + 3 <= Len(buf) /\ off + 4 <= Len(buf)
      BY <1>1, <1>3 DEF Width
    <2> QED
      BY <1>4, <2>1
  <1>6. StringLength(out, off) = ValueOf(u)
    <2>1. StringLength(out, off) =
            out[off + 1] + Base * (out[off + 2] + Base * (out[off + 3] + Base * out[off + 4]))
      BY <1>1, <1>4, LengthIsThere
    <2> QED
      BY <1>3, <1>5, <2>1 DEF ValueOf
  <1>7. Len(v) % Limit <= Len(v)
    <2>1. \A n \in Nat, L \in Nat \ {0} : n % L <= n
      BY SMTT(30)
    <2> QED
      BY <1>1, <2>1, LimitNat, BaseAssumption
  <1> QED
    BY <1>2, <1>6, <1>7 DEF out, w

\* What follows a field lies behind the lengths of the strings in it.
LEMMA FieldsKeepHeads ==
    ASSUME NEW fs \in FieldList(Types), NEW off \in Nat, off % Alignment(Layouts(fs)) = 0,
           NEW k \in 1..Len(fs), NEW i \in 1..Len(fs), i < k
    PROVE  Heads(off + FieldOffset(fs, i) + LayoutOf[fs[i].type].size, off + FieldOffset(fs, k))
  <1> DEFINE ls == Layouts(fs)
             n  == Len(fs)
             o  == Offset(ls, k - 1) + ls[k - 1].size
             a  == ls[k].align
             e  == Offset(ls, i) + ls[i].size
  <1>1. ls \in Seq(FieldType) /\ Len(ls) = n /\ ls # <<>> /\ \A j \in 1..n : ls[j] = LayoutOf[fs[j].type]
    BY TypesAreFields, LayoutsAre
  <1>2. n \in Nat
    BY FieldListShape
  <1>3. k - 1 \in 1..n /\ k - 1 \in i..n /\ k - 1 \in Nat \ {0} /\ (k - 1) + 1 = k /\ k \in 1..n /\ i \in 1..n
    BY <1>2
  <1>4. off % Alignment(ls) = 0
    OBVIOUS
  <1>5. FieldOffset(fs, k) = Offset(ls, k) /\ FieldOffset(fs, i) = Offset(ls, i)
    BY DEF FieldOffset
  <1> HIDE DEF ls, n
  <1>6. Offset(ls, k) = Pad(o, a)
    BY <1>3, OffsetNext
  <1>7. e <= o
    BY <1>1, <1>3, FieldsEndInOrder
  <1>8. o \in Nat /\ a \in Alignments /\ e \in Nat /\ a <= Alignment(ls)
    <2>1. Offset(ls, k - 1) \in Nat /\ Offset(ls, i) \in Nat
      BY <1>1, <1>3, FieldsAligned
    <2>2. ls[k - 1].size \in Nat /\ ls[i].size \in Nat /\ ls[k].align \in Alignments
      BY <1>1, <1>3, FieldShape
    <2>3. a <= Alignment(ls)
      BY <1>1, <1>3, AlignmentIsMax
    <2> QED
      BY <2>1, <2>2, <2>3
  <1>9. off % a = 0
    <2>1. Alignment(ls) \in Alignments
      <3>1. \A j \in 1..n : ls[j].align \in Alignments
        BY <1>1, FieldShape
      <3> QED
        BY <1>1, <3>1, AlignmentIsMax
    <2>2. 0 % a = 0 /\ 0 + off = off
      BY <1>8 DEF Alignments
    <2> HIDE DEF a
    <2> QED
      BY <1>4, <1>8, <2>1, <2>2, SumAligned
  <1>10. ls[i].size = LayoutOf[fs[i].type].size
    BY <1>1, <1>3
  <1> HIDE DEF o, a
  <1>11. ASSUME NEW h \in Nat, h % 4 = 0, h <= off + e PROVE h <= off + Pad(o, a)
    <2>1. h <= off + o
      BY <1>7, <1>8, <1>11
    <2> QED
      BY <1>8, <1>9, <1>11, <2>1, PadKeepsFours
  <1>12. off + FieldOffset(fs, i) + LayoutOf[fs[i].type].size = off + e
    <2>1. FieldOffset(fs, i) \in Nat /\ LayoutOf[fs[i].type].size \in Nat
      BY FieldPlaces
    <2> QED
      BY <1>5, <1>10, <2>1
  <1>13. off + FieldOffset(fs, k) = off + Pad(o, a)
    BY <1>5, <1>6
  <1> QED
    BY <1>11, <1>12, <1>13 DEF Heads

\* A field stays in its buffer when all is kept up to what follows it.
Held(t) ==
    \A off \in Nat : \A buf, other \in Bytes : \A p \in Nat :
        /\ off % LayoutOf[t].align = 0 /\ Len(other) = Len(buf)
        /\ Heads(off + LayoutOf[t].size, p) /\ SameUpTo(buf, other, p)
        /\ InBuffer[t][off][buf]
        => InBuffer[t][off][other]

\* A field that fits is in the buffer it was filled into, and what was before
\* it is as it was.
Filled(t) ==
    \A v \in Values[t] : \A off \in Nat : \A buf \in Bytes :
        /\ FillField[t][v][off][buf] \in Bytes /\ Len(FillField[t][v][off][buf]) = Len(buf)
        /\ SameUpTo(buf, FillField[t][v][off][buf], off)
        /\ off % LayoutOf[t].align = 0 /\ off + LayoutOf[t].size <= Len(buf)
           => InBuffer[t][off][FillField[t][v][off][buf]]

LEMMA LeafSizes ==
    ASSUME NEW t \in Leaves
    PROVE  /\ t.kind = "StringType" => LayoutOf[t].size = Width + t.capacity /\ LayoutOf[t].align = Width
           /\ t.kind # "StringType" => /\ LayoutOf[t].size = PrimitiveSize[t.kind]
                                       /\ LayoutOf[t].align = PrimitiveSize[t.kind]
  <1>1. \A s, a : Leaf(s, a).size = s /\ Leaf(s, a).align = a
    BY DEF Leaf
  <1>2. t.kind = "StringType" => LayoutOf[t] = Leaf(Width + t.capacity, Width)
    BY LeavesAreTypes, LayoutIs
  <1>3. t.kind # "StringType" => LayoutOf[t] = Leaf(PrimitiveSize[t.kind], PrimitiveSize[t.kind])
    BY LeavesAreTypes, LeafShape, LayoutIs
  <1> QED
    BY <1>1, <1>2, <1>3

LEMMA LeavesHeld == \A t \in Leaves : Held(t)
  <1> SUFFICES ASSUME NEW t \in Leaves, NEW off \in Nat, NEW buf \in Bytes, NEW other \in Bytes, NEW p \in Nat,
                      off % LayoutOf[t].align = 0, Len(other) = Len(buf),
                      Heads(off + LayoutOf[t].size, p), SameUpTo(buf, other, p),
                      InBuffer[t][off][buf]
               PROVE  InBuffer[t][off][other]
    BY DEF Held
  <1>1. t \in Types /\ Len(buf) \in Nat
    BY LeavesAreTypes, ByteSeqs
  <1>2. CASE t.kind = "StringType"
    <2>1. t.capacity \in Nat
      BY <1>2, LeafShape
    <2>2. LayoutOf[t].size = Width + t.capacity /\ LayoutOf[t].align = 4
      BY <1>2, LeafSizes DEF Width
    <2>3. off + Width <= Len(buf) /\ off + Width + StringLength(buf, off) <= Len(buf)
      BY <1>1, <1>2, InsideIs
    <2>4. (off + 4) % 4 = 0 /\ off + 4 <= off + LayoutOf[t].size
      BY <2>1, <2>2 DEF Width
    <2>5. off + 4 <= p
      BY <2>4 DEF Heads
    <2>6. SameUpTo(buf, other, off + 4)
      BY <1>1, <2>5 DEF SameUpTo
    <2>7. StringLength(other, off) = StringLength(buf, off)
      BY <2>3, <2>6, SameLength
    <2> QED
      BY <1>1, <1>2, <2>3, <2>7, InsideIs
  <1>3. CASE t.kind # "StringType"
    <2>1. t.kind \in Primitives
      BY <1>3, LeafShape
    <2> QED
      BY <1>1, <2>1, InsideIs
  <1> QED
    BY <1>2, <1>3

LEMMA LeavesFilled == \A t \in Leaves : Filled(t)
  <1> SUFFICES ASSUME NEW t \in Leaves, NEW v \in Values[t], NEW off \in Nat, NEW buf \in Bytes
               PROVE  LET out == FillField[t][v][off][buf]
                      IN /\ out \in Bytes /\ Len(out) = Len(buf) /\ SameUpTo(buf, out, off)
                         /\ off % LayoutOf[t].align = 0 /\ off + LayoutOf[t].size <= Len(buf)
                            => InBuffer[t][off][out]
    BY DEF Filled
  <1> DEFINE out == FillField[t][v][off][buf]
  <1>1. t \in Types /\ Len(buf) \in Nat /\ v \in Bytes /\ Len(v) \in Nat
    BY LeavesAreTypes, ByteSeqs, LeafValues
  <1>2. CASE t.kind = "StringType"
    <2>1. t.capacity \in Nat /\ Len(v) <= t.capacity
      BY <1>2, LeafShape, LeafValues
    <2>2. out = Overwrite(buf, off, WriteString(v))
      BY <1>1, <1>2, FillIs
    <2>3. WriteString(v) \in Bytes
      BY <1>1, U32Value, ByteSeqs DEF WriteString
    <2>4. out \in Bytes /\ Len(out) = Len(buf) /\ \A j \in 1..Len(buf) : j <= off => out[j] = buf[j]
      BY <2>2, <2>3, Overwritten
    <2>5. LayoutOf[t].size = Width + t.capacity
      BY <1>2, LeafSizes
    <2>6. ASSUME off + LayoutOf[t].size <= Len(buf) PROVE InBuffer[t][off][out]
      <3>1. off + Width + Len(v) <= Len(buf) /\ off + Width <= Len(buf)
        BY <1>1, <2>1, <2>5, <2>6 DEF Width
      <3>2. StringLength(out, off) <= Len(v)
        BY <1>1, <2>2, <3>1, StringWritten
      <3>3. StringLength(out, off) \in Nat
        BY <2>4, <3>1, LengthIsThere
      <3> HIDE DEF out
      <3>4. off + Width + StringLength(out, off) <= Len(out) /\ off + Width <= Len(out)
        BY <1>1, <2>4, <3>1, <3>2, <3>3 DEF Width
      <3> QED
        BY <1>1, <1>2, <2>4, <3>4, InsideIs
    <2> QED
      BY <2>4, <2>6 DEF SameUpTo
  <1>3. CASE t.kind # "StringType"
    <2>1. t.kind \in Primitives
      BY <1>3, LeafShape
    <2>2. out = Overwrite(buf, off, v)
      BY <1>1, <2>1, FillIs
    <2> HIDE DEF out
    <2>3. out \in Bytes /\ Len(out) = Len(buf) /\ \A j \in 1..Len(buf) : j <= off => out[j] = buf[j]
      BY <1>1, <2>2, Overwritten
    <2>4. LayoutOf[t].size = PrimitiveSize[t.kind]
      BY <1>3, LeafSizes
    <2>5. ASSUME off + LayoutOf[t].size <= Len(buf) PROVE InBuffer[t][off][out]
      BY <1>1, <2>1, <2>3, <2>4, <2>5, InsideIs
    <2> QED
      BY <2>3, <2>5 DEF SameUpTo, out
  <1> QED
    BY <1>2, <1>3

LEMMA AggregateParts ==
    ASSUME NEW T \in SUBSET Types, NEW t \in Aggregates(T), t \in Types
    PROVE  /\ t.kind = "AggregateType" /\ t.fields \in FieldList(T) /\ t.fields \in FieldList(Types)
           /\ LayoutOf[t].size = Size(Layouts(t.fields)) /\ LayoutOf[t].align = Alignment(Layouts(t.fields))
           /\ Len(t.fields) \in Nat \ {0} /\ \A j \in 1..Len(t.fields) : t.fields[j].type \in T
  <1>1. t.kind = "AggregateType" /\ t.fields \in FieldList(T)
    BY AggregateShape
  <1>2. t.fields \in FieldList(Types)
    BY <1>1, AnAggregate
  <1>3. LayoutOf[t] = Aggregate(Layouts(t.fields))
    BY <1>1, LayoutIs
  <1>4. \A ls : Aggregate(ls).size = Size(ls) /\ Aggregate(ls).align = Alignment(ls)
    BY DEF Aggregate
  <1> QED
    BY <1>1, <1>2, <1>3, <1>4, FieldListShape

\* The offset of a field of an aggregate that lies at off.
LEMMA FieldAt ==
    ASSUME NEW fs \in FieldList(Types), NEW off \in Nat, off % Alignment(Layouts(fs)) = 0, NEW j \in 1..Len(fs)
    PROVE  (off + FieldOffset(fs, j)) % LayoutOf[fs[j].type].align = 0
  <1> DEFINE a == LayoutOf[fs[j].type].align
             b == Alignment(Layouts(fs))
             o == FieldOffset(fs, j)
  <1>1. a \in Alignments /\ b \in Alignments /\ a <= b /\ o \in Nat /\ o % a = 0 /\ off % b = 0
    BY FieldPlaces
  <1> HIDE DEF a, b, o
  <1>2. (o + off) % a = 0
    BY <1>1, SumAligned
  <1>3. o + off = off + o
    BY <1>1
  <1> QED
    BY <1>2, <1>3 DEF a, o

LEMMA AggregateHeld ==
    ASSUME NEW T \in SUBSET Types, \A u \in T : Held(u), NEW t \in Aggregates(T), t \in Types
    PROVE  Held(t)
  <1> DEFINE fs == t.fields
  <1>1. /\ t.kind = "AggregateType" /\ fs \in FieldList(Types)
        /\ LayoutOf[t].size = Size(Layouts(fs)) /\ LayoutOf[t].align = Alignment(Layouts(fs))
        /\ \A j \in 1..Len(fs) : fs[j].type \in T
    BY AggregateParts
  <1> SUFFICES ASSUME NEW off \in Nat, NEW buf \in Bytes, NEW other \in Bytes, NEW p \in Nat,
                      off % LayoutOf[t].align = 0, Len(other) = Len(buf),
                      Heads(off + LayoutOf[t].size, p), SameUpTo(buf, other, p),
                      InBuffer[t][off][buf]
               PROVE  InBuffer[t][off][other]
    BY DEF Held
  <1>2. \A j \in 1..Len(fs) : InBuffer[fs[j].type][off + FieldOffset(fs, j)][buf]
    BY <1>1, InsideIs
  <1> HIDE DEF fs
  <1>3. ASSUME NEW j \in 1..Len(fs) PROVE InBuffer[fs[j].type][off + FieldOffset(fs, j)][other]
    <2> DEFINE u == fs[j].type
               o == FieldOffset(fs, j)
    <2>1. /\ o \in Nat /\ LayoutOf[u].size \in Nat
          /\ o + LayoutOf[u].size <= Size(Layouts(fs)) /\ Size(Layouts(fs)) \in Nat
      BY <1>1, FieldPlaces
    <2>2. (off + o) % LayoutOf[u].align = 0
      BY <1>1, FieldAt
    <2>3. InBuffer[u][off + o][buf] /\ Held(u)
      BY <1>1, <1>2
    <2> HIDE DEF u, o
    <2>4. Heads(off + o + LayoutOf[u].size, p) /\ off + o \in Nat
      <3>1. off + o + LayoutOf[u].size <= off + LayoutOf[t].size
        BY <1>1, <2>1
      <3>2. off + o + LayoutOf[u].size \in Nat /\ off + LayoutOf[t].size \in Nat /\ off + o \in Nat
        BY <1>1, <2>1
      <3>3. \A h \in Nat : h <= off + o + LayoutOf[u].size => h <= off + LayoutOf[t].size
        BY <3>1, <3>2
      <3> QED
        BY <3>2, <3>3 DEF Heads
    <2> QED
      BY <2>2, <2>3, <2>4 DEF Held, u, o
  <1> QED
    BY <1>1, <1>3, InsideIs DEF fs

\* The buffer after each field.
Progress(T, fs, v, off, buf, filled) ==
    /\ filled \in [0..Len(fs) -> Bytes] /\ filled[0] = buf
    /\ \A j \in 1..Len(fs) :
          filled[j] = FillField[fs[j].type][v[j]][off + FieldOffset(fs, j)][filled[j - 1]]

LEMMA FieldsFilled ==
    ASSUME NEW T \in SUBSET Types, \A u \in T : Filled(u), NEW fs \in FieldList(T), fs \in FieldList(Types),
           NEW v \in ValuesBy(Values, fs), NEW off \in Nat, NEW buf \in Bytes
    PROVE  \E filled : /\ Progress(T, fs, v, off, buf, filled)
                       /\ FillFieldsBy(FillField, fs, v, off, buf) = filled[Len(fs)]
  <1> DEFINE n    == Len(fs)
             each == FillSteps(FillField, fs, v, off)
  <1>1. n \in Nat /\ \A j \in 1..n : fs[j].type \in T /\ fs[j].type \in Types
    BY FieldListShape
  <1>2. \A j \in 1..n : v[j] \in Values[fs[j].type]
    BY DEF ValuesBy
  <1>3. \A j \in 1..n : FieldOffset(fs, j) \in Nat
    BY FieldPlaces
  <1>4. ASSUME NEW j \in 1..n
        PROVE  FillField[fs[j].type][v[j]][off + FieldOffset(fs, j)] \in [Bytes -> Bytes]
    <2> DEFINE u == fs[j].type
               o == off + FieldOffset(fs, j)
               w == v[j]
    <2>1. u \in Types /\ w \in Values[u] /\ o \in Nat /\ Filled(u)
      BY <1>1, <1>2, <1>3
    <2> HIDE DEF u, o, w
    <2>2. FillField[u][w][o] = [b \in Bytes |-> FillField[u][w][o][b]]
      BY <2>1, FillIs
    <2>3. \A b \in Bytes : FillField[u][w][o][b] \in Bytes
      BY <2>1 DEF Filled
    <2> QED
      BY <2>2, <2>3 DEF u, o, w
  <1>5. each = [j \in 1..n |-> FillField[fs[j].type][v[j]][off + FieldOffset(fs, j)]]
    BY DEF FillSteps
  <1>6. FillFieldsBy(FillField, fs, v, off, buf) =
          (CHOOSE filled : filled = [j \in 0..n |-> IF j = 0 THEN buf ELSE each[j][filled[j - 1]]])[n]
    BY DEF FillFieldsBy, FillSteps
  <1> HIDE DEF each
  <1>7. each \in [1..n -> [Bytes -> Bytes]]
    BY <1>4, <1>5
  <1> HIDE DEF n
  <1>8. PICK f \in [0..n -> Bytes] : StepBy(f, n, each, buf)
    BY <1>1, <1>7, StepsExist
  <1>9. f = [j \in 0..n |-> IF j = 0 THEN buf ELSE each[j][f[j - 1]]]
    <2> DEFINE g == [j \in 0..n |-> IF j = 0 THEN buf ELSE each[j][f[j - 1]]]
    <2>1. \A j \in 0..n : f[j] = g[j]
      <3>1. \A j \in 0..n : j = 0 \/ j \in 1..n
        BY <1>1
      <3> QED
        BY <1>8, <3>1 DEF StepBy
    <2> HIDE DEF g
    <2>2. f = [j \in 0..n |-> f[j]]
      BY <1>8
    <2>3. g = [j \in 0..n |-> g[j]]
      BY DEF g
    <2>4. f = g
      BY <2>1, <2>2, <2>3
    <2> QED
      BY <2>4 DEF g
  <1>10. PICK filled : /\ filled = [j \in 0..n |-> IF j = 0 THEN buf ELSE each[j][filled[j - 1]]]
                       /\ FillFieldsBy(FillField, fs, v, off, buf) = filled[n]
    BY <1>6, <1>9
  <1>11. /\ filled[0] = buf
         /\ \A j \in 1..n : filled[j] = FillField[fs[j].type][v[j]][off + FieldOffset(fs, j)][filled[j - 1]]
    <2>1. 0 \in 0..n /\ \A j \in 1..n : j \in 0..n /\ j # 0
      BY <1>1
    <2>2. filled[0] = buf /\ \A j \in 1..n : filled[j] = each[j][filled[j - 1]]
      BY <1>10, <2>1
    <2> QED
      BY <1>5, <2>2
  <1>12. \A j \in 0..n : filled[j] \in Bytes
    <2> DEFINE Fails == {j \in 0..n : filled[j] \notin Bytes}
    <2>1. ASSUME Fails # {} PROVE FALSE
      <3>1. PICK j \in Fails : \A e \in Fails : ~(e < j)
        <4>1. Fails \subseteq Nat
          BY <1>1
        <4> HIDE DEF Fails
        <4> QED
          BY <2>1, <4>1, NoneBefore
      <3>2. j # 0
        BY <1>11, <3>1
      <3>3. j \in 1..n /\ j - 1 \in 0..n /\ j - 1 < j
        BY <1>1, <3>1, <3>2
      <3>4. filled[j - 1] \in Bytes
        BY <3>1, <3>3
      <3>5. filled[j] \in Bytes
        BY <1>4, <1>11, <3>3, <3>4 DEF n
      <3> QED
        BY <3>1, <3>5
    <2> QED
      BY <2>1
  <1>13. filled \in [0..n -> Bytes]
    BY <1>10, <1>12
  <1> QED
    BY <1>10, <1>11, <1>13 DEF Progress, n

\* After k fields: nothing before the aggregate has changed, and the fields
\* that were filled are in the buffer.
FilledTo(fs, off, buf, size, b, k) ==
    /\ b \in Bytes /\ Len(b) = Len(buf) /\ SameUpTo(buf, b, off)
    /\ off % Alignment(Layouts(fs)) = 0 /\ off + size <= Len(buf) =>
          \A i \in 1..k : InBuffer[fs[i].type][off + FieldOffset(fs, i)][b]

LEMMA OneMoreField ==
    ASSUME NEW T \in SUBSET Types, \A u \in T : Filled(u) /\ Held(u),
           NEW fs \in FieldList(T), fs \in FieldList(Types),
           NEW off \in Nat, NEW buf \in Bytes, NEW k \in 1..Len(fs), NEW b,
           FilledTo(fs, off, buf, Size(Layouts(fs)), b, k - 1), NEW w \in Values[fs[k].type]
    PROVE  FilledTo(fs, off, buf, Size(Layouts(fs)), FillField[fs[k].type][w][off + FieldOffset(fs, k)][b], k)
  <1> DEFINE u == fs[k].type
             o == FieldOffset(fs, k)
             at0 == off + o
             c == FillField[u][w][at0][b]
             n == Len(fs)
             size == Size(Layouts(fs))
  <1>1. n \in Nat /\ k \in Nat /\ \A j \in 1..n : fs[j].type \in T /\ fs[j].type \in Types
    <2>1. n \in Nat /\ \A j \in 1..n : fs[j].type \in T
      BY FieldListShape
    <2>2. k \in Nat
      BY <2>1
    <2> QED
      BY <2>1, <2>2
  <1>2. /\ \A j \in 1..n : FieldOffset(fs, j) \in Nat /\ LayoutOf[fs[j].type].size \in Nat
        /\ o + LayoutOf[u].size <= size /\ size \in Nat /\ at0 \in Nat
    BY FieldPlaces
  <1>3. b \in Bytes /\ Len(b) = Len(buf) /\ SameUpTo(buf, b, off)
    BY DEF FilledTo
  <1>4. Filled(u) /\ w \in Values[u]
    BY <1>1
  <1>5. /\ c \in Bytes /\ Len(c) = Len(b) /\ SameUpTo(b, c, at0)
        /\ at0 % LayoutOf[u].align = 0 /\ at0 + LayoutOf[u].size <= Len(b) => InBuffer[u][at0][c]
    <2> HIDE DEF u, at0
    <2> QED
      BY <1>2, <1>3, <1>4 DEF Filled
  <1> HIDE DEF c
  <1>6. SameUpTo(buf, c, off)
    <2>1. off <= at0 /\ Len(buf) \in Nat
      BY <1>2, ByteSeqs
    <2>2. ASSUME NEW j \in 1..Len(buf), j <= off PROVE c[j] = buf[j]
      <3>1. b[j] = buf[j]
        BY <1>3, <2>2 DEF SameUpTo
      <3>2. j \in 1..Len(b) /\ j <= at0
        BY <1>2, <1>3, <2>1, <2>2
      <3>3. c[j] = b[j]
        BY <1>5, <3>2 DEF SameUpTo
      <3> QED
        BY <3>1, <3>3
    <2> QED
      BY <2>2 DEF SameUpTo
  <1>7. ASSUME off % Alignment(Layouts(fs)) = 0, off + size <= Len(buf), NEW i \in 1..k
        PROVE  InBuffer[fs[i].type][off + FieldOffset(fs, i)][c]
    <2>1. CASE i = k
      <3>1. at0 % LayoutOf[u].align = 0
        BY <1>7, FieldAt
      <3>2. at0 + LayoutOf[u].size <= Len(b)
        <4>1. Len(buf) \in Nat /\ LayoutOf[u].size \in Nat /\ o \in Nat
          BY <1>2, ByteSeqs
        <4> HIDE DEF u, o, size
        <4> QED
          BY <1>2, <1>3, <1>7, <4>1
      <3> QED
        BY <1>5, <2>1, <3>1, <3>2
    <2>2. CASE i # k
      <3>1. i \in 1..(k - 1) /\ i \in 1..n /\ i < k
        BY <1>1, <2>2
      <3> DEFINE x == fs[i].type
                 p == off + FieldOffset(fs, i)
      <3>2. InBuffer[x][p][b]
        BY <1>7, <3>1 DEF FilledTo
      <3>3. Held(x) /\ p \in Nat
        BY <1>1, <1>2, <3>1
      <3>4. p % LayoutOf[x].align = 0
        BY <1>7, <3>1, FieldAt
      <3>5. Heads(p + LayoutOf[x].size, at0)
        BY <1>7, <3>1, FieldsKeepHeads
      <3> HIDE DEF x, p, at0
      <3>6. InBuffer[x][p][c]
        BY <1>2, <1>3, <1>5, <3>2, <3>3, <3>4, <3>5 DEF Held
      <3> QED
        BY <3>6 DEF x, p
    <2> QED
      BY <2>1, <2>2
  <1> QED
    BY <1>3, <1>5, <1>6, <1>7 DEF FilledTo, c

LEMMA AggregateFilled ==
    ASSUME NEW T \in SUBSET Types, \A u \in T : Filled(u) /\ Held(u), NEW t \in Aggregates(T), t \in Types
    PROVE  Filled(t)
  <1> DEFINE fs == t.fields
             n  == Len(fs)
             size == Size(Layouts(fs))
  <1>1. /\ t.kind = "AggregateType" /\ fs \in FieldList(T) /\ fs \in FieldList(Types)
        /\ LayoutOf[t].size = size /\ LayoutOf[t].align = Alignment(Layouts(fs))
        /\ n \in Nat \ {0}
    BY AggregateParts
  <1> SUFFICES ASSUME NEW v \in Values[t], NEW off \in Nat, NEW buf \in Bytes
               PROVE  LET out == FillField[t][v][off][buf]
                      IN /\ out \in Bytes /\ Len(out) = Len(buf) /\ SameUpTo(buf, out, off)
                         /\ off % LayoutOf[t].align = 0 /\ off + LayoutOf[t].size <= Len(buf)
                            => InBuffer[t][off][out]
    BY DEF Filled
  <1>2. v \in ValuesBy(Values, fs)
    BY <1>1, ValuesIs
  <1>3. FillField[t][v][off][buf] = FillFieldsBy(FillField, fs, v, off, buf)
    BY <1>1, FillIs
  <1> HIDE DEF fs
  <1>4. PICK filled : /\ Progress(T, fs, v, off, buf, filled)
                      /\ FillFieldsBy(FillField, fs, v, off, buf) = filled[n]
    BY <1>1, <1>2, FieldsFilled
  <1> DEFINE P(k) == FilledTo(fs, off, buf, size, filled[k], k)
  <1>5. P(0)
    <2>1. filled[0] = buf /\ SameUpTo(buf, buf, off) /\ 1..0 = {}
      BY <1>4 DEF Progress, SameUpTo
    <2> QED
      BY <2>1 DEF FilledTo
  <1>6. ASSUME NEW k \in 1..n, P(k - 1) PROVE P(k)
    <2>1. filled[k] = FillField[fs[k].type][v[k]][off + FieldOffset(fs, k)][filled[k - 1]]
      BY <1>4 DEF Progress
    <2>2. v[k] \in Values[fs[k].type]
      BY <1>2 DEF ValuesBy
    <2> QED
      BY <1>1, <1>6, <2>1, <2>2, OneMoreField
  <1>7. \A k \in 0..n : P(k)
    <2> DEFINE Fails == {k \in 0..n : ~P(k)}
    <2>1. ASSUME Fails # {} PROVE FALSE
      <3>1. PICK k \in Fails : \A e \in Fails : ~(e < k)
        <4>1. Fails \subseteq Nat
          BY <1>1
        <4> HIDE DEF Fails
        <4> QED
          BY <2>1, <4>1, NoneBefore
      <3> HIDE DEF P
      <3>2. k # 0
        BY <1>5, <3>1
      <3>3. k \in 1..n /\ k - 1 \in 0..n /\ k - 1 < k
        BY <1>1, <3>1, <3>2
      <3>4. P(k - 1)
        BY <3>1, <3>3
      <3> QED
        BY <1>6, <3>1, <3>3, <3>4
    <2> QED
      BY <2>1
  <1>8. n \in 0..n
    BY <1>1
  <1>9. FilledTo(fs, off, buf, size, filled[n], n)
    BY <1>7, <1>8
  <1> DEFINE out == FillField[t][v][off][buf]
  <1>10. out = filled[n]
    BY <1>3, <1>4
  <1> HIDE DEF out, n, size
  <1>11. /\ out \in Bytes /\ Len(out) = Len(buf) /\ SameUpTo(buf, out, off)
         /\ off % LayoutOf[t].align = 0 /\ off + LayoutOf[t].size <= Len(buf) =>
              \A i \in 1..n : InBuffer[fs[i].type][off + FieldOffset(fs, i)][out]
    BY <1>1, <1>9, <1>10 DEF FilledTo
  <1>12. InBuffer[t][off][out] <=> \A i \in 1..n : InBuffer[fs[i].type][off + FieldOffset(fs, i)][out]
    BY <1>1, <1>11, InsideIs DEF fs, n
  <1> QED
    BY <1>11, <1>12 DEF out

\* Whatever is typed, at whatever depth of aggregates, is in the buffer
\* where printing looks for it.
LEMMA TypesFilled == \A t \in Types : Filled(t) /\ Held(t)
  <1> DEFINE S == {t \in Types : Filled(t) /\ Held(t)}
  <1>1. Leaves \subseteq S
    BY LeavesAreTypes, LeavesFilled, LeavesHeld
  <1>2. ASSUME NEW T \in SUBSET Types, T \subseteq S, Aggregates(T) \subseteq Types
        PROVE  Aggregates(T) \subseteq S
    <2>1. \A u \in T : Filled(u) /\ Held(u)
      BY <1>2
    <2> HIDE DEF S
    <2>2. ASSUME NEW t \in Aggregates(T) PROVE t \in Types /\ Filled(t) /\ Held(t)
      <3>1. t \in Types
        BY <1>2
      <3> QED
        BY <2>1, <3>1, AggregateFilled, AggregateHeld
    <2> QED
      BY <2>2 DEF S
  <1> HIDE DEF S
  <1>3. Types \subseteq S
    BY <1>1, <1>2, EveryType
  <1> QED
    BY <1>3 DEF S

-----------------------------------------------------------------------------
(* Documents and keys.                                                     *)

PrintCase(print, t, off, buf) ==
    CASE t.kind = "StringType"    ->
           SubSeq(buf, off + Width + 1, off + Width + StringLength(buf, off))
      [] t.kind = "AggregateType" -> PrintFieldsBy(print, t.fields, off, buf)
      [] OTHER                    -> SubSeq(buf, off + 1, off + PrimitiveSize[t.kind])
PrintBy(print, t) == [off \in Nat |-> [buf \in Bytes |-> PrintCase(print, t, off, buf)]]

LEMMA PrintLocal ==
    ASSUME NEW d \in Depths, NEW f, NEW g, AgreeOn(f, g, Below(d)), NEW t \in TypesTo[d]
    PROVE  PrintBy(f, t) = PrintBy(g, t)
  <1>1. CASE t.kind = "AggregateType"
    <2>1. t.fields \in FieldList(Below(d))
      BY <1>1, TypeCases, KindsDiffer, LeafShape
    <2> DEFINE fs == t.fields
    <2>2. \A j \in 1..Len(fs) : f[fs[j].type] = g[fs[j].type]
      BY <2>1, FieldListShape DEF AgreeOn
    <2> HIDE DEF fs
    <2>3. \A off, buf : PrintFieldsBy(f, fs, off, buf) = PrintFieldsBy(g, fs, off, buf)
      BY <2>2 DEF PrintFieldsBy
    <2> QED
      BY <1>1, <2>3 DEF PrintBy, PrintCase, fs
  <1>2. CASE t.kind # "AggregateType"
    BY <1>2 DEF PrintBy, PrintCase
  <1> QED
    BY <1>1, <1>2

LEMMA PrintFieldDef == PrintField = [t \in Types |-> PrintBy(PrintField, t)]
  <1> DEFINE Fails == {d \in Depths : ~\E f : f = [t \in TypesTo[d] |-> PrintBy(f, t)]}
  <1>1. ASSUME Fails # {} PROVE FALSE
    <2>1. PICK d \in Fails : \A k \in Fails : d <= k
      <3>1. Fails \subseteq Nat
        BY DepthsNat
      <3> HIDE DEF Fails
      <3> QED
        BY <1>1, <3>1, LeastOf
    <2>2. d \in Nat /\ d \in Depths
      BY DepthsNat
    <2>3. PICK g : d # 0 => g = [t \in TypesTo[d - 1] |-> PrintBy(g, t)]
      <3>1. CASE d # 0
        <4>1. d - 1 \in Depths /\ d - 1 \notin Fails
          BY <2>1, <2>2, <3>1, DepthsNat
        <4> QED
          BY <4>1
      <3> QED
        BY <3>1
    <2> DEFINE f == [t \in TypesTo[d] |-> PrintBy(g, t)]
               h == [t \in TypesTo[d] |-> PrintBy(f, t)]
    <2>4. AgreeOn(f, g, Below(d))
      <3>1. CASE d # 0
        <4>1. d - 1 \in Depths /\ d - 1 <= d
          BY <2>2, <3>1, DepthsNat
        <4>2. TypesTo[d - 1] \subseteq TypesTo[d]
          BY <2>2, <4>1, DeeperTypes
        <4>3. \A t \in TypesTo[d - 1] : f[t] = PrintBy(g, t) /\ g[t] = PrintBy(g, t)
          BY <2>3, <3>1, <4>2
        <4> QED
          BY <3>1, <4>3 DEF AgreeOn, Below
      <3> QED
        BY <3>1 DEF AgreeOn, Below
    <2>5. \A t \in TypesTo[d] : h[t] = f[t]
      <3> HIDE DEF f
      <3>1. \A t \in TypesTo[d] : PrintBy(f, t) = PrintBy(g, t)
        BY <2>2, <2>4, PrintLocal
      <3> QED
        BY <3>1 DEF f
    <2>6. f = h
      BY <2>5
    <2> QED
      BY <2>1, <2>2, <2>6
  <1>2. PICK w : w = [t \in Types |-> PrintBy(w, t)]
    <2>1. MaxNesting \notin Fails /\ MaxNesting \in Depths
      BY <1>1, DepthsNat
    <2> QED
      BY <2>1 DEF Types
  <1>3. PrintField = CHOOSE f : f = [t \in Types |-> PrintBy(f, t)]
    BY DEF PrintField, PrintBy, PrintCase
  <1> QED
    BY <1>2, <1>3

LEMMA PrintIs ==
    ASSUME NEW t \in Types, NEW off \in Nat, NEW buf \in Bytes
    PROVE  /\ t.kind = "StringType" =>
                PrintField[t][off][buf] = SubSeq(buf, off + Width + 1, off + Width + StringLength(buf, off))
           /\ t.kind \in Primitives =>
                PrintField[t][off][buf] = SubSeq(buf, off + 1, off + PrimitiveSize[t.kind])
  <1>1. PrintField[t] = PrintBy(PrintField, t)
    BY PrintFieldDef
  <1>2. PrintBy(PrintField, t)[off][buf] = PrintCase(PrintField, t, off, buf)
    BY DEF PrintBy
  <1>3. t.kind = "StringType" =>
          PrintCase(PrintField, t, off, buf) = SubSeq(buf, off + Width + 1, off + Width + StringLength(buf, off))
    BY DEF PrintCase
  <1>4. t.kind \in Primitives =>
          PrintCase(PrintField, t, off, buf) = SubSeq(buf, off + 1, off + PrimitiveSize[t.kind])
    BY KindsDiffer DEF PrintCase
  <1> QED
    BY <1>1, <1>2, <1>3, <1>4

LEMMA ZeroBytes == \A n \in Nat : Zeros(n) \in Bytes /\ Len(Zeros(n)) = n
  <1> SUFFICES ASSUME NEW n \in Nat PROVE Zeros(n) \in Bytes /\ Len(Zeros(n)) = n
    OBVIOUS
  <1>1. Zeros(n) \in [1..n -> Byte]
    BY BaseAssumption DEF Zeros, Byte
  <1> QED
    BY <1>1, FunctionIsSeq DEF Bytes

LEMMA WholeIs ==
    ASSUME NEW s, IsSchema(s)
    PROVE  /\ Whole(s) \in Types /\ Whole(s).kind = "AggregateType" /\ Whole(s).fields = s.fields
           /\ s.fields \in FieldList(Types) /\ Len(s.fields) \in Nat \ {0}
           /\ LayoutOf[Whole(s)].size = DocSize(s) /\ DocSize(s) \in Nat
           /\ LayoutOf[Whole(s)].align \in Alignments
           /\ KeyIndex(s) \in 1..Len(s.fields) /\ KeyType(s) \in Types
  <1> DEFINE T == TypesTo[MaxNesting - 1]
             t == Whole(s)
  <1>1. s.fields \in FieldList(T) /\ s.key \in 0..(Len(s.fields) - 1)
    BY TypesSmall DEF IsSchema
  <1>2. t.kind = "AggregateType" /\ t.fields = s.fields
    BY DEF Whole
  <1>3. t \in Aggregates(T)
    BY <1>1 DEF Whole, Aggregates
  <1>4. t \in Types /\ T \in SUBSET Types
    BY <1>3, DepthsNat, SomeTypes, TypesSmall
  <1> HIDE DEF T, t
  <1>5. /\ t.fields \in FieldList(Types) /\ Len(t.fields) \in Nat \ {0}
        /\ LayoutOf[t].size = Size(Layouts(t.fields))
        /\ LayoutOf[t].align = Alignment(Layouts(t.fields))
    BY <1>3, <1>4, AggregateParts
  <1>6. /\ Size(Layouts(t.fields)) \in Nat /\ Alignment(Layouts(t.fields)) \in Alignments
        /\ \A j \in 1..Len(t.fields) : t.fields[j].type \in Types
    BY <1>5, FieldPlaces
  <1>7. KeyIndex(s) \in 1..Len(s.fields)
    <2>1. s.key + 1 \in 1..Len(s.fields)
      BY <1>1, <1>2, <1>5
    <2> QED
      BY <2>1 DEF KeyIndex
  <1> QED
    BY <1>2, <1>4, <1>5, <1>6, <1>7 DEF DocSize, KeyType, t

\* A document has its size and its fields, its key among them.
LEMMA DocumentIs ==
    ASSUME NEW s, IsSchema(s), NEW v \in Values[Whole(s)]
    PROVE  /\ Document(s, v) \in Bytes /\ Len(Document(s, v)) = DocSize(s)
           /\ Inside(s, Document(s, v))
  <1> DEFINE t == Whole(s)
             z == Zeros(DocSize(s))
  <1>1. t \in Types /\ LayoutOf[t].size = DocSize(s) /\ DocSize(s) \in Nat /\ LayoutOf[t].align \in Alignments
    BY WholeIs
  <1>2. z \in Bytes /\ Len(z) = DocSize(s)
    BY <1>1, ZeroBytes
  <1>3. Filled(t)
    BY <1>1, TypesFilled
  <1>4. 0 \in Nat /\ 0 % LayoutOf[t].align = 0 /\ 0 + LayoutOf[t].size <= Len(z)
    BY <1>1, <1>2 DEF Alignments
  <1> HIDE DEF t, z
  <1>5. /\ FillField[t][v][0][z] \in Bytes /\ Len(FillField[t][v][0][z]) = Len(z)
        /\ InBuffer[t][0][FillField[t][v][0][z]]
    BY <1>2, <1>3, <1>4 DEF Filled, t
  <1> QED
    BY <1>2, <1>5 DEF Document, Inside, t, z

LEMMA KeyIsInside ==
    ASSUME NEW s, IsSchema(s), NEW doc \in Bytes, Inside(s, doc)
    PROVE  KeyInside(s, doc)
  <1> DEFINE t == Whole(s)
             fs == s.fields
             k == KeyIndex(s)
  <1>1. t \in Types /\ t.kind = "AggregateType" /\ t.fields = fs /\ k \in 1..Len(fs) /\ fs \in FieldList(Types)
    BY WholeIs
  <1>2. InBuffer[t][0][doc]
    BY DEF Inside
  <1> HIDE DEF t, fs, k
  <1>3. InBuffer[fs[k].type][0 + FieldOffset(fs, k)][doc]
    BY <1>1, <1>2, InsideIs
  <1>4. 0 + FieldOffset(fs, k) = FieldOffset(fs, k)
    BY <1>1, FieldPlaces
  <1> QED
    BY <1>3, <1>4 DEF KeyInside, KeyType, KeyOffset, fs, k

LEMMA KeysAreLeaves ==
    ASSUME NEW s, IsSchema(s), KeyType(s).kind # "AggregateType"
    PROVE  KeyType(s) \in Leaves
  <1>1. KeyType(s) \in TypesTo[MaxNesting] /\ MaxNesting \in Depths
    BY WholeIs, DepthsNat, TypesSmall
  <1> QED
    BY <1>1, TypeShape, AggregateShape

\* The buffer of a key that was typed.
LEMMA TypedKey ==
    ASSUME NEW t \in Leaves, NEW v \in Values[t]
    PROVE  /\ PrintField[t][0][Field(t, v)] \in Names
           /\ t.kind # "StringType" => Len(PrintField[t][0][Field(t, v)]) = PrimitiveSize[t.kind]
  <1> DEFINE n == LayoutOf[t].size
             b == Field(t, v)
             q == PrintField[t][0][b]
  <1>1. t \in Types /\ Filled(t)
    BY LeavesAreTypes, TypesFilled
  <1>2. n \in Nat /\ LayoutOf[t].align \in Alignments
    BY <1>1, TypesAreFields DEF FieldType
  <1>3. Zeros(n) \in Bytes /\ Len(Zeros(n)) = n
    BY <1>2, ZeroBytes
  <1>4. b = FillField[t][v][0][Zeros(n)]
    BY DEF Field
  <1>5. 0 \in Nat /\ 0 % LayoutOf[t].align = 0 /\ 0 + n <= Len(Zeros(n))
    BY <1>2, <1>3 DEF Alignments
  <1> HIDE DEF b
  <1>6. b \in Bytes /\ Len(b) = n /\ InBuffer[t][0][b]
    BY <1>1, <1>3, <1>4, <1>5 DEF Filled
  <1>7. CASE t.kind = "StringType"
    <2>1. q = SubSeq(b, 0 + Width + 1, 0 + Width + StringLength(b, 0))
      BY <1>1, <1>6, <1>7, PrintIs
    <2>2. 0 + Width <= Len(b) /\ 0 + Width + StringLength(b, 0) <= Len(b)
      BY <1>1, <1>6, <1>7, InsideIs
    <2>3. StringLength(b, 0) \in 0..(Limit - 1)
      BY <1>6, <2>2, LengthIsThere
    <2> DEFINE m == StringLength(b, 0)
    <2>4. q = SubSeq(b, Width + 1, Width + m) /\ Width + m <= Len(b) /\ m \in Nat /\ m < Limit
      BY <2>1, <2>2, <2>3, LimitNat DEF Width
    <2> HIDE DEF m, q, n
    <2>5. q \in Bytes /\ Len(q) = m
      <3>1. SubSeq(b, Width + 1, Width + m) \in Bytes /\ Len(SubSeq(b, Width + 1, Width + m)) = m
        BY <1>6, <2>4 DEF Bytes, Width
      <3> QED
        BY <2>4, <3>1
    <2>6. q \in Names
      BY <2>4, <2>5 DEF Names
    <2> QED
      BY <1>7, <2>6 DEF q, b
  <1>8. CASE t.kind # "StringType"
    <2> DEFINE m == PrimitiveSize[t.kind]
    <2>1. t.kind \in Primitives /\ m \in {1, 2, 4, 8}
      BY <1>8, LeafShape, PrimitiveSizes
    <2>2. q = SubSeq(b, 0 + 1, 0 + m)
      BY <1>1, <1>6, <2>1, PrintIs
    <2>3. n = m
      BY <1>8, LeafSizes
    <2> HIDE DEF m, q, n
    <2>4. SubSeq(b, 1, m) \in Bytes /\ Len(SubSeq(b, 1, m)) = m
      <3>1. m \in 0..Len(b)
        BY <1>6, <2>1, <2>3
      <3> QED
        BY <1>6, <3>1, DropBytes
    <2>5. q \in Bytes /\ Len(q) = m
      <3>1. 0 + 1 = 1 /\ 0 + m = m
        BY <2>1
      <3> QED
        BY <2>2, <2>4, <3>1
    <2>6. m < Limit
      BY <2>1, LimitNat, BaseAssumption
    <2>7. q \in Names /\ Len(q) = PrimitiveSize[t.kind]
      BY <2>5, <2>6 DEF Names, m
    <2> QED
      BY <2>7 DEF q, b
  <1> QED
    BY <1>7, <1>8

-----------------------------------------------------------------------------
(* What may be in the caches, in the database and on the wire.             *)

\* A schema as it is read from the wire: capacities of 4 bytes, and a key that
\* the CLI could take a value of.
SchemaOK(s) == IsSchema(s) /\ Narrow(s) = s /\ KeyType(s).kind # "AggregateType"
MapOK(f)    == \A n \in DOMAIN f : SchemaOK(f[n])

ResOK(res) ==
    /\ \E i \in DOMAIN Responses : IsMessage(Responses, i, res)
    /\ OnWire(res) = res /\ (res.op = "Schema" => SchemaOK(res.schema))

\* A command by the schemas cs of its client.
CommandIs(cs, m) ==
    CASE m.op = "Put" ->
            [op |-> "Put", coll_name |-> m.coll_name, value |-> Document(cs[m.coll_name], m.value)]
      [] m.op \in {"Get", "Delete"} ->
            LET t == KeyType(cs[m.coll_name])
            IN [m EXCEPT !.key = PrintField[t][0][Field(t, @)]]
      [] OTHER -> m

Ops == {"RegisterSchema", "CreateCollection", "GetSchema", "GetCollectionSchema", "Get", "Put", "Delete"}
OnDocuments(op) == op \in {"Get", "Put", "Delete"}

\* What the server may rely on of a command that it read.
ServedOK(cs, m, cmd) ==
    /\ cmd.op \in Ops
    /\ cmd.op = "RegisterSchema" => SchemaOK(cmd.schema)
    /\ OnDocuments(cmd.op) => cmd.coll_name = m.coll_name /\ cmd.coll_name \in DOMAIN cs
    /\ cmd.op = "Put" => /\ cmd.value \in Names /\ Len(cmd.value) = DocSize(cs[cmd.coll_name])
                         /\ Inside(cs[cmd.coll_name], cmd.value)
    /\ cmd.op \in {"Get", "Delete"} /\ KeyType(cs[cmd.coll_name]).kind # "StringType" =>
         Len(cmd.key) = PrimitiveSize[KeyType(cs[cmd.coll_name]).kind]

CommandOK(cs, m) ==
    /\ \E i \in DOMAIN Commands : IsMessage(Commands, i, CommandIs(cs, m))
    /\ ServedOK(cs, m, OnWire(CommandIs(cs, m)))

\* A message of one or two fields.
LEMMA Message0 ==
    ASSUME NEW as, NEW i \in DOMAIN as, NEW op, as[i].op = op, as[i].body = <<>>
    PROVE  IsMessage(as, i, [op |-> op]) /\ OnWire([op |-> op]) = [op |-> op]
  <1> DEFINE m == [op |-> op]
  <1>1. Range(as[i].body) = {} /\ DOMAIN m = {"op"} /\ m = [x \in {"op"} |-> m[x]] /\ m.op = op
    BY DEF Range
  <1> HIDE DEF m
  <1> QED
    BY <1>1 DEF IsMessage, OnWire, m

LEMMA Message1 ==
    ASSUME NEW as, NEW i \in DOMAIN as, NEW m, NEW x, as[i].op = m.op, as[i].body = <<x>>,
           m = [z \in {"op", x} |-> m[z]], IsPart(x, m[x])
    PROVE  IsMessage(as, i, m)
  <1>1. Range(as[i].body) = {x}
    <2>1. DOMAIN <<x>> = {1} /\ <<x>>[1] = x
      OBVIOUS
    <2> QED
      BY <2>1 DEF Range
  <1>2. {"op"} \cup {x} = {"op", x}
    OBVIOUS
  <1> QED
    BY <1>1, <1>2 DEF IsMessage

LEMMA Message2 ==
    ASSUME NEW as, NEW i \in DOMAIN as, NEW m, NEW x, NEW y, as[i].op = m.op, as[i].body = <<x, y>>,
           m = [z \in {"op", x, y} |-> m[z]], IsPart(x, m[x]), IsPart(y, m[y])
    PROVE  IsMessage(as, i, m)
  <1>1. Range(as[i].body) = {x, y}
    <2>1. DOMAIN <<x, y>> = {1, 2} /\ <<x, y>>[1] = x /\ <<x, y>>[2] = y
      OBVIOUS
    <2> QED
      BY <2>1 DEF Range
  <1>2. {"op"} \cup {x, y} = {"op", x, y}
    OBVIOUS
  <1> QED
    BY <1>1, <1>2 DEF IsMessage

LEMMA Answers ==
    /\ ResOK(Success) /\ ResOK(NotFound)
    /\ \A v \in Names : ResOK(Found(v))
    /\ \A s : SchemaOK(s) => ResOK(SchemaIs(s))
  <1>1. /\ DOMAIN Responses = 1..7
        /\ Responses[1].op = "Success" /\ Responses[1].body = <<>>
        /\ Responses[4].op = "NotFound" /\ Responses[4].body = <<>>
        /\ Responses[5].op = "Found" /\ Responses[5].body = <<"value">>
        /\ Responses[7].op = "Schema" /\ Responses[7].body = <<"schema">>
    BY DEF Responses
  <1>2. ResOK(Success)
    <2>1. 1 \in DOMAIN Responses /\ Success.op = "Success"
      BY <1>1 DEF Success
    <2>2. IsMessage(Responses, 1, Success) /\ OnWire(Success) = Success
      BY <1>1, <2>1, Message0 DEF Success
    <2> QED
      BY <2>1, <2>2 DEF ResOK
  <1>3. ResOK(NotFound)
    <2>1. 4 \in DOMAIN Responses /\ NotFound.op = "NotFound"
      BY <1>1 DEF NotFound
    <2>2. IsMessage(Responses, 4, NotFound) /\ OnWire(NotFound) = NotFound
      BY <1>1, <2>1, Message0 DEF NotFound
    <2> QED
      BY <2>1, <2>2 DEF ResOK
  <1>4. ASSUME NEW v \in Names PROVE ResOK(Found(v))
    <2> DEFINE m == Found(v)
    <2>1. /\ 5 \in DOMAIN Responses /\ m.op = "Found" /\ m["value"] = v
          /\ m = [z \in {"op", "value"} |-> m[z]] /\ "schema" \notin DOMAIN m
      BY <1>1 DEF Found
    <2> HIDE DEF m
    <2>2. IsMessage(Responses, 5, m)
      <3>1. IsPart("value", m["value"])
        BY <2>1 DEF IsPart
      <3> QED
        BY <1>1, <2>1, <3>1, Message1
    <2>3. OnWire(m) = m
      BY <2>1 DEF OnWire
    <2> QED
      BY <2>1, <2>2, <2>3 DEF ResOK, m
  <1>5. ASSUME NEW s, SchemaOK(s) PROVE ResOK(SchemaIs(s))
    <2> DEFINE m == SchemaIs(s)
    <2>1. /\ 7 \in DOMAIN Responses /\ m.op = "Schema" /\ m["schema"] = s /\ m.schema = s
          /\ m = [z \in {"op", "schema"} |-> m[z]] /\ "schema" \in DOMAIN m
          /\ \A x : x = s => [m EXCEPT !.schema = x] = m
      BY <1>1 DEF SchemaIs
    <2> HIDE DEF m
    <2>2. IsMessage(Responses, 7, m)
      <3>1. IsPart("schema", m["schema"])
        BY <1>5, <2>1 DEF IsPart, SchemaOK
      <3> QED
        BY <1>1, <2>1, <3>1, Message1
    <2>3. OnWire(m) = m
      BY <1>5, <2>1 DEF OnWire, SchemaOK
    <2> QED
      BY <1>5, <2>1, <2>2, <2>3 DEF ResOK, m
  <1> QED
    BY <1>2, <1>3, <1>4, <1>5

\* Narrowing leaves the kinds of the fields alone.
LEMMA NarrowKinds ==
    ASSUME NEW t \in Types
    PROVE  NarrowType[t].kind = t.kind
  <1>1. NarrowType[t] = NarrowBy(NarrowType, t)
    BY NarrowTypeDef
  <1>2. PICK d \in Depths : t \in TypesTo[d]
    BY DepthsNat, TypesSmall
  <1>3. t \in Leaves \/ t \in Aggregates(Below(d))
    BY <1>2, TypeCases
  <1>4. CASE t \in Leaves /\ t.kind = "StringType"
    <2>1. t = [kind |-> "StringType", capacity |-> t.capacity]
      BY <1>4, LeafShape
    <2>2. \A x, y : [[kind |-> "StringType", capacity |-> x] EXCEPT !.capacity = y].kind = "StringType"
      OBVIOUS
    <2>3. NarrowBy(NarrowType, t) = [t EXCEPT !.capacity = t.capacity % Limit]
      BY <1>4 DEF NarrowBy
    <2> QED
      BY <1>1, <1>4, <2>1, <2>2, <2>3
  <1>5. CASE t \in Leaves /\ t.kind # "StringType"
    BY <1>1, <1>5, LeafShape DEF NarrowBy
  <1>6. CASE t \in Aggregates(Below(d))
    <2>1. t.kind = "AggregateType" /\ t = [kind |-> "AggregateType", fields |-> t.fields]
      BY <1>6, AggregateShape
    <2>2. \A x, y : [[kind |-> "AggregateType", fields |-> x] EXCEPT !.fields = y].kind = "AggregateType"
      OBVIOUS
    <2>3. NarrowBy(NarrowType, t) = [t EXCEPT !.fields = NarrowFieldsBy(NarrowType, t.fields)]
      BY <2>1 DEF NarrowBy
    <2> QED
      BY <1>1, <2>1, <2>2, <2>3
  <1> QED
    BY <1>3, <1>4, <1>5, <1>6

LEMMA NarrowedOK ==
    ASSUME NEW s, IsSchema(s), KeyType(s).kind # "AggregateType"
    PROVE  SchemaOK(Narrow(s))
  <1> DEFINE n == Narrow(s)
             ns == NarrowFieldsBy(NarrowType, s.fields)
  <1>1. /\ n = [fields |-> ns, key |-> s.key] /\ IsSchema(n) /\ Narrow(n) = n
    BY NarrowSchema
  <1>2. s.fields \in FieldList(Types) /\ KeyIndex(s) \in 1..Len(s.fields) /\ KeyType(s) \in Types
    BY WholeIs
  <1>3. \A j \in 1..Len(s.fields) : ns[j] = [name |-> s.fields[j].name, type |-> NarrowType[s.fields[j].type]]
    BY <1>2, NarrowFieldsShape
  <1> HIDE DEF ns, n
  <1>4. n.fields = ns /\ n.key = s.key
    BY <1>1
  <1>5. KeyIndex(n) = KeyIndex(s)
    BY <1>4 DEF KeyIndex
  <1>6. KeyType(n) = NarrowType[KeyType(s)]
    <2> DEFINE k == KeyIndex(s)
    <2>1. ns[k] = [name |-> s.fields[k].name, type |-> NarrowType[s.fields[k].type]]
      BY <1>2, <1>3
    <2>2. ns[k].type = NarrowType[s.fields[k].type]
      BY <2>1
    <2> QED
      BY <1>4, <1>5, <2>2 DEF KeyType
  <1> QED
    BY <1>1, <1>2, <1>6, NarrowKinds DEF SchemaOK, n

-----------------------------------------------------------------------------
(* A session: between a command and its response nothing else is on the way. *)

IsStream(st) ==
    /\ st = [m_buf |-> st.m_buf, m_size |-> st.m_size, m_used |-> st.m_used]
    /\ st.m_buf \in Bytes /\ st.m_size = Len(st.m_buf) /\ st.m_used \in 0..st.m_size
    /\ st.m_used = st.m_size => st.m_size = 0

Quiet(toS, toC, st) == toS = <<>> /\ toC = <<>> /\ Empty(st)
Asked(srv, cs, m, toS, toC, st) ==
    /\ srv = "up" /\ CommandOK(cs, m) /\ toS = Write(Commands, CommandIs(cs, m))
    /\ toC = <<>> /\ Empty(st)

\* What has been received and what is on its way is the response, or its
\* beginning when the server has ended.
Coming(srv, res, toC, st) ==
    \E rest \in Bytes : /\ (Data(st) \o toC) \o rest = Write(Responses, res)
                        /\ srv = "up" => rest = <<>>
Answered(srv, drf, cs, m, toS, toC, st) ==
    /\ toS = <<>>
    /\ \E res : /\ ResOK(res) /\ Coming(srv, res, toC, st)
                /\ ~drf /\ res.op = "Found" => Inside(cs[m.coll_name], res.value)

LocalOK(a, srv, drf, cs, m, toS, toC, st) ==
    /\ a \in {"prompt", "waiting", "ended", "undefined"}
    /\ toS \in Bytes /\ toC \in Bytes /\ IsStream(st) /\ MapOK(cs)
    /\ srv # "up" => toS = <<>>
    /\ a \in {"prompt", "undefined"} => Quiet(toS, toC, st)
    /\ a = "undefined" => drf
    /\ a = "ended" => srv # "up"
    /\ a = "waiting" => \/ Asked(srv, cs, m, toS, toC, st)
                        \/ Answered(srv, drf, cs, m, toS, toC, st)
                        \/ Quiet(toS, toC, st) /\ srv # "up"

\* Drift makes fewer promises.
LEMMA LocalDrifts ==
    ASSUME NEW a, NEW srv, NEW drf, NEW cs, NEW m, NEW toS, NEW toC, NEW st,
           LocalOK(a, srv, drf, cs, m, toS, toC, st), NEW drf2, drf => drf2
    PROVE  LocalOK(a, srv, drf2, cs, m, toS, toC, st)
  <1>1. Answered(srv, drf, cs, m, toS, toC, st) => Answered(srv, drf2, cs, m, toS, toC, st)
    BY DEF Answered
  <1> QED
    BY <1>1 DEF LocalOK

\* The server stops: its commands are gone, and any part of a response.
LEMMA LocalStops ==
    ASSUME NEW a, NEW srv, NEW drf, NEW cs, NEW m, NEW toS, NEW toC, NEW st,
           LocalOK(a, srv, drf, cs, m, toS, toC, st), NEW k \in 0..Len(toC), NEW srv2, srv2 # "up"
    PROVE  LocalOK(a, srv2, drf, cs, m, <<>>, SubSeq(toC, 1, k), st)
  <1> DEFINE p == SubSeq(toC, 1, k)
             q == Drop(toC, k)
  <1>1. toC \in Bytes /\ IsStream(st)
    BY DEF LocalOK
  <1>2. p \in Bytes /\ q \in Bytes /\ p \o q = toC /\ <<>> \in Bytes /\ Len(p) = k
    BY <1>1, DropBytes, ByteSeqs
  <1> HIDE DEF p, q
  <1>3. toC = <<>> => p = <<>>
    <2>1. Len(<<>>) = 0
      OBVIOUS
    <2> QED
      BY <1>2, <2>1, ByteSeqs
  <1>4. Data(st) \in Bytes
    BY <1>1 DEF IsStream, Data, Bytes
  <1>5. ASSUME NEW res, Coming(srv, res, toC, st) PROVE Coming(srv2, res, p, st)
    <2>1. PICK rest \in Bytes : (Data(st) \o toC) \o rest = Write(Responses, res)
      BY <1>5 DEF Coming
    <2>2. Data(st) \o toC = (Data(st) \o p) \o q
      BY <1>2, <1>4, Assoc
    <2>3. ((Data(st) \o p) \o q) \o rest = (Data(st) \o p) \o (q \o rest) /\ q \o rest \in Bytes
      <3> DEFINE d == Data(st) \o p
      <3>1. d \in Bytes /\ q \o rest \in Bytes
        BY <1>2, <1>4, Closed
      <3> HIDE DEF d
      <3>2. (d \o q) \o rest = d \o (q \o rest)
        BY <1>2, <3>1, Assoc
      <3> QED
        BY <3>1, <3>2 DEF d
    <2> QED
      BY <2>1, <2>2, <2>3 DEF Coming
  <1>6. Answered(srv, drf, cs, m, toS, toC, st) => Answered(srv2, drf, cs, m, <<>>, p, st)
    BY <1>5 DEF Answered
  <1>7. Quiet(toS, toC, st) => Quiet(<<>>, p, st)
    BY <1>3 DEF Quiet
  <1>8. Asked(srv, cs, m, toS, toC, st) => Quiet(<<>>, p, st)
    BY <1>3 DEF Quiet, Asked
  <1> QED
    BY <1>2, <1>6, <1>7, <1>8 DEF LocalOK, p

LEMMA StreamFields ==
    ASSUME NEW x, NEW y, NEW z, NEW n, NEW i, NEW r, r = [m_buf |-> x, m_size |-> y, m_used |-> z]
    PROVE  [[r EXCEPT !.m_buf = n] EXCEPT !.m_size = i] = [m_buf |-> n, m_size |-> i, m_used |-> z]
  <1>1. [r EXCEPT !.m_buf = n] = [m_buf |-> n, m_size |-> y, m_used |-> z]
    OBVIOUS
  <1> DEFINE h == [r EXCEPT !.m_buf = n]
  <1> HIDE DEF h
  <1>2. h = [m_buf |-> n, m_size |-> y, m_used |-> z]
    BY <1>1 DEF h
  <1>3. [h EXCEPT !.m_size = i] = [m_buf |-> n, m_size |-> i, m_used |-> z]
    BY <1>2
  <1> QED
    BY <1>3 DEF h

\* What StreamBuf holds once more bytes have come.
LEMMA StreamGrows ==
    ASSUME NEW st, IsStream(st), NEW p \in Bytes, p # <<>>
    PROVE  LET s == AppendTo(st, p)
           IN /\ IsStream(s) /\ ~Empty(s) /\ Data(s) = Data(st) \o p /\ Data(st) \in Bytes
              /\ StreamSize(s) = Len(Data(s)) /\ Consumed(s, StreamSize(s) - 0) = NoStream
  <1> DEFINE s == AppendTo(st, p)
             b == st.m_buf
             u == st.m_used
             l == Len(b)
  <1>1. /\ st = [m_buf |-> b, m_size |-> l, m_used |-> u]
        /\ b \in Bytes /\ l \in Nat /\ u \in 0..l /\ (u = l => l = 0)
    BY DEF IsStream, Bytes
  <1>2. Len(p) \in Nat \ {0}
    BY ByteSeqs DEF Bytes
  <1>4. s = [m_buf |-> b \o p, m_size |-> l + Len(p), m_used |-> u]
    <2>1. st.m_size = l
      BY DEF IsStream
    <2>2. s = [[st EXCEPT !.m_buf = b \o p] EXCEPT !.m_size = l + Len(p)]
      <3> HIDE DEF b, l
      <3> QED
        BY <2>1 DEF AppendTo, b
    <2> HIDE DEF b, l, u, s
    <2> QED
      BY <1>1, <2>2, StreamFields
  <1>5. b \o p \in Bytes /\ Len(b \o p) = l + Len(p)
    BY <1>1, ByteSeqs
  <1> HIDE DEF b, u, l, s
  <1>6. s.m_buf = b \o p /\ s.m_size = l + Len(p) /\ s.m_used = u
    BY <1>4
  <1>7. IsStream(s) /\ ~Empty(s)
    BY <1>1, <1>2, <1>4, <1>5, <1>6 DEF IsStream, Empty
  <1>8. st.m_buf = b /\ st.m_used = u /\ st.m_size = l
    BY <1>1
  <1>9. Data(s) = SubSeq(b \o p, u + 1, l + Len(p)) /\ Data(st) = SubSeq(b, u + 1, l)
    BY <1>6, <1>8 DEF Data
  <1>10. /\ SubSeq(b, u + 1, l) \in Bytes /\ SubSeq(b \o p, u + 1, l + Len(p)) = SubSeq(b, u + 1, l) \o p
         /\ Len(SubSeq(b \o p, u + 1, l + Len(p))) = (l + Len(p)) - u
    <2>1. SubSeq(b, u + 1, l) = Drop(b, u) /\ SubSeq(b \o p, u + 1, l + Len(p)) = Drop(b \o p, u)
      BY <1>5 DEF Drop, l
    <2>2. u \in 0..Len(b) /\ u \in 0..Len(b \o p)
      BY <1>1, <1>2, <1>5 DEF l
    <2> DEFINE h == SubSeq(b, 1, u)
               r == Drop(b, u)
    <2>3. h \in Bytes /\ r \in Bytes /\ Len(h) = u /\ h \o r = b
      BY <1>1, <2>2, DropBytes
    <2>4. Len(Drop(b \o p, u)) = (l + Len(p)) - u
      BY <1>5, <2>2, DropBytes
    <2> HIDE DEF h, r
    <2>5. b \o p = h \o (r \o p) /\ r \o p \in Bytes
      BY <2>3, Assoc, Closed
    <2>6. Drop(h \o (r \o p), u) = r \o p
      BY <2>3, <2>5, DropConcat
    <2> QED
      BY <2>1, <2>3, <2>4, <2>5, <2>6 DEF r
  <1>11. StreamSize(s) = (l + Len(p)) - u
    BY <1>6 DEF StreamSize
  <1>12. Consumed(s, StreamSize(s) - 0) = NoStream
    <2>1. s.m_used + (StreamSize(s) - 0) = s.m_size
      BY <1>1, <1>2, <1>6, <1>11
    <2> QED
      BY <2>1 DEF Consumed
  <1> QED
    BY <1>7, <1>9, <1>10, <1>11, <1>12 DEF s

\* What the buffer holds at first.
LEMMA NoStreamIs == IsStream(NoStream) /\ Empty(NoStream) /\ Data(NoStream) = <<>>
  <1>1. /\ NoStream.m_buf = <<>> /\ NoStream.m_size = 0 /\ NoStream.m_used = 0 /\ Len(<<>>) = 0
        /\ NoStream = [m_buf |-> <<>>, m_size |-> 0, m_used |-> 0] /\ 0 \in 0..0
    BY DEF NoStream
  <1>2. SubSeq(<<>>, 0 + 1, 0) = <<>>
    OBVIOUS
  <1> QED
    BY <1>1, <1>2, ByteSeqs DEF IsStream, Empty, Data

LEMMA EmptyHolds ==
    ASSUME NEW st, IsStream(st), Empty(st)
    PROVE  Data(st) = <<>>
  <1>1. st.m_buf \in Bytes /\ Len(st.m_buf) = 0 /\ st.m_used = 0 /\ st.m_size = 0
    BY DEF IsStream, Empty
  <1>2. st.m_buf = <<>>
    BY <1>1, ByteSeqs
  <1>3. SubSeq(<<>>, 0 + 1, 0) = <<>>
    OBVIOUS
  <1> QED
    BY <1>1, <1>2, <1>3 DEF Data

-----------------------------------------------------------------------------
(* Messages are read whole or not at all. *)

LEMMA MessageIs ==
    ASSUME NEW as, Alternatives(as), NEW i, NEW m, IsMessage(as, i, m)
    PROVE  LET w == Write(as, m)
           IN /\ w \in Bytes /\ w # <<>> /\ Read(as, w) = Got(OnWire(m), <<>>)
              /\ \A c \in Bytes : Read(as, w \o c) = Got(OnWire(m), c)
              /\ \A p \in Bytes : StrictPrefix(p, w) => Read(as, p) = Incomplete
              /\ \A c \in Bytes : Delimited(as, w, c)
  <1> DEFINE w == Write(as, m)
             v == OnWire(m)
             R == [c \in Bytes |-> Read(as, c)]
  <1>1. w \in Bytes /\ w # <<>> /\ Reads(R, w, v)
    BY MessagesTravel
  <1> HIDE DEF w, v
  <1>2. /\ \A c \in Bytes : R[w \o c] = Got(v, c) /\ w \o c \in Bytes
        /\ \A p \in Bytes : StrictPrefix(p, w) => R[p] = Incomplete
    <2> HIDE DEF R
    <2> QED
      BY <1>1, Closed DEF Reads
  <1>3. \A c \in Bytes : Read(as, w \o c) = Got(v, c)
    BY <1>2
  <1>4. \A p \in Bytes : StrictPrefix(p, w) => Read(as, p) = Incomplete
    BY <1>2
  <1>5. Read(as, w) = Got(v, <<>>)
    <2>1. w \o <<>> = w /\ <<>> \in Bytes
      BY <1>1, ByteSeqs
    <2> QED
      BY <1>3, <2>1
  <1>6. ASSUME NEW c \in Bytes PROVE Delimited(as, w, c)
    <2>1. ASSUME NEW n \in 0..(Len(w) - 1) PROVE Read(as, SubSeq(w, 1, n)).res = "INCOMPLETE"
      <3> DEFINE p == SubSeq(w, 1, n)
                 q == Drop(w, n)
      <3>1. Len(w) \in Nat /\ n \in 0..Len(w) /\ Len(w) - n > 0
        BY <1>1 DEF Bytes
      <3>2. p \in Bytes /\ q \in Bytes /\ p \o q = w /\ Len(q) > 0
        BY <1>1, <3>1, DropBytes
      <3>3. q # <<>>
        <4>1. Len(<<>>) = 0
          OBVIOUS
        <4> HIDE DEF q
        <4> QED
          BY <3>2, <4>1
      <3> HIDE DEF p, q
      <3>4. StrictPrefix(p, w)
        BY <3>2, <3>3 DEF StrictPrefix
      <3> QED
        BY <1>4, <3>2, <3>4, Results DEF p
    <2>2. Ok(Read(as, w \o c)) /\ Read(as, w \o c).c = c
      <3>1. Read(as, w \o c) = Got(v, c)
        BY <1>3
      <3>2. Ok(Got(v, c)) /\ Got(v, c).c = c
        BY Results
      <3> QED
        BY <3>1, <3>2
    <2> QED
      BY <2>1, <2>2 DEF Delimited
  <1> QED
    BY <1>1, <1>3, <1>4, <1>5, <1>6 DEF w, v

LEMMA NothingRead == ~Ok(Read(Commands, <<>>))
  <1>1. ReadU8(<<>>) = Incomplete
    BY DEF ReadU8
  <1> QED
    BY <1>1, Results DEF Read, Then

\* A receive: the response is there, or the session goes on waiting for it.
LEMMA ResponseComes ==
    ASSUME NEW srv, NEW res, NEW toC \in Bytes, NEW st, IsStream(st), ResOK(res),
           Coming(srv, res, toC, st), NEW k \in 1..Len(toC)
    PROVE  LET s == AppendTo(st, SubSeq(toC, 1, k))
               r == Read(Responses, Data(s))
               q == Drop(toC, k)
           IN /\ IsStream(s) /\ ~Empty(s) /\ q \in Bytes
              /\ \/ /\ r = Got(res, <<>>) /\ q = <<>>
                    /\ Consumed(s, StreamSize(s) - Len(r.c)) = NoStream
                 \/ r = Incomplete /\ Coming(srv, res, q, s)
  <1> DEFINE p == SubSeq(toC, 1, k)
             q == Drop(toC, k)
             s == AppendTo(st, p)
             d == Data(st)
             w == Write(Responses, res)
             r == Read(Responses, Data(s))
  <1>1. p \in Bytes /\ q \in Bytes /\ p \o q = toC /\ Len(p) = k /\ k \in Nat \ {0}
    <2>1. k \in 0..Len(toC) /\ Len(toC) \in Nat
      BY DEF Bytes
    <2> QED
      BY <2>1, DropBytes
  <1>2. p # <<>>
    <2>1. Len(<<>>) = 0
      OBVIOUS
    <2> HIDE DEF p
    <2> QED
      BY <1>1, <2>1
  <1> HIDE DEF p, q
  <1>3. /\ IsStream(s) /\ ~Empty(s) /\ Data(s) = d \o p /\ d \in Bytes
        /\ StreamSize(s) = Len(Data(s)) /\ Consumed(s, StreamSize(s) - 0) = NoStream
    BY <1>1, <1>2, StreamGrows
  <1>4. PICK rest \in Bytes : (d \o toC) \o rest = w /\ (srv = "up" => rest = <<>>)
    BY DEF Coming
  <1>5. PICK i : IsMessage(Responses, i, res) /\ OnWire(res) = res
    BY DEF ResOK
  <1>6. /\ w \in Bytes /\ Read(Responses, w) = Got(res, <<>>)
        /\ \A b \in Bytes : StrictPrefix(b, w) => Read(Responses, b) = Incomplete
    BY <1>5, TheLists, MessageIs
  <1> HIDE DEF d, w, s
  <1>7. (Data(s) \o q) \o rest = w /\ Data(s) \in Bytes
    <2>1. d \o toC = (d \o p) \o q
      BY <1>1, <1>3, Assoc
    <2>2. d \o p \in Bytes
      BY <1>1, <1>3, Closed
    <2> QED
      BY <1>3, <1>4, <2>1, <2>2
  <1>8. Data(s) \o (q \o rest) = w /\ q \o rest \in Bytes
    <2>1. q \o rest \in Bytes
      BY <1>1, Closed
    <2>2. (Data(s) \o q) \o rest = Data(s) \o (q \o rest)
      BY <1>1, <1>7, Assoc
    <2> QED
      BY <1>7, <2>1, <2>2
  <1>9. CASE q \o rest = <<>>
    <2>1. q = <<>>
      <3>1. Len(q \o rest) = Len(q) + Len(rest) /\ Len(q) \in Nat /\ Len(rest) \in Nat /\ Len(<<>>) = 0
        BY <1>1, ByteSeqs
      <3>2. Len(q) = 0
        BY <1>9, <3>1
      <3> QED
        BY <1>1, <3>2, ByteSeqs
    <2>2. Data(s) = w
      <3>1. Data(s) \o <<>> = Data(s)
        BY <1>7, ByteSeqs
      <3> QED
        BY <1>8, <1>9, <3>1
    <2>3. r = Got(res, <<>>) /\ Len(r.c) = 0
      <3>1. r = Got(res, <<>>) /\ Len(<<>>) = 0
        BY <1>6, <2>2
      <3> HIDE DEF r
      <3>2. r.c = <<>>
        BY <3>1, Results
      <3> QED
        BY <3>1, <3>2
    <2> HIDE DEF r
    <2>4. Consumed(s, StreamSize(s) - Len(r.c)) = NoStream
      BY <1>3, <2>3
    <2> QED
      BY <1>1, <1>3, <2>1, <2>3, <2>4 DEF r, s, p, q
  <1>10. CASE q \o rest # <<>>
    <2>1. StrictPrefix(Data(s), w)
      BY <1>8, <1>10 DEF StrictPrefix
    <2>2. r = Incomplete
      BY <1>6, <1>7, <2>1
    <2>3. Coming(srv, res, q, s)
      BY <1>4, <1>7 DEF Coming, w
    <2> QED
      BY <1>1, <1>3, <2>2, <2>3 DEF s, p, q
  <1> QED
    BY <1>9, <1>10

-----------------------------------------------------------------------------
(* The database. *)

\* A collection; unless a client laid a command out by another schema, its
\* documents are documents of its schema.
CollOK(coll, drf) ==
    /\ coll = [schema |-> coll.schema, docs |-> coll.docs] /\ SchemaOK(coll.schema)
    /\ \A k \in DOMAIN coll.docs : coll.docs[k] \in Names /\ (~drf => Inside(coll.schema, coll.docs[k]))
DbOK(d, drf) ==
    /\ d = [schemas |-> d.schemas, colls |-> d.colls] /\ MapOK(d.schemas)
    /\ \A n \in DOMAIN d.colls : CollOK(d.colls[n], drf)

\* What a command needs to leave the database so.
Storable(d, drf, cmd) ==
    /\ cmd.op \in Ops
    /\ cmd.op = "RegisterSchema" => SchemaOK(cmd.schema)
    /\ cmd.op = "Put" /\ cmd.coll_name \in DOMAIN d.colls =>
         cmd.value \in Names /\ (~drf => Inside(d.colls[cmd.coll_name].schema, cmd.value))

LEMMA DbDrifts ==
    ASSUME NEW d, NEW drf, NEW drf2, DbOK(d, drf), drf => drf2
    PROVE  DbOK(d, drf2)
  BY DEF DbOK, CollOK

LEMMA EmptyDbOK == \A drf : DbOK(EmptyDb, drf)
  <1>1. /\ EmptyDb.schemas = EmptyMap /\ EmptyDb.colls = EmptyMap /\ DOMAIN EmptyMap = {}
        /\ EmptyDb = [schemas |-> EmptyDb.schemas, colls |-> EmptyDb.colls]
    BY DEF EmptyDb, EmptyMap
  <1> QED
    BY <1>1 DEF DbOK, MapOK

LEMMA Assigned ==
    \A f, x, y : \A z \in DOMAIN Assign(f, x, y) :
        \/ z = x /\ Assign(f, x, y)[z] = y
        \/ z \in DOMAIN f /\ Assign(f, x, y)[z] = f[z]
  BY DEF Assign

LEMMA MapGrows ==
    ASSUME NEW f, MapOK(f), NEW x, NEW s, SchemaOK(s)
    PROVE  MapOK(Assign(f, x, s))
  BY Assigned DEF MapOK

LEMMA SchemasGrow ==
    ASSUME NEW d, NEW drf, DbOK(d, drf), NEW x, NEW s, SchemaOK(s)
    PROVE  DbOK([d EXCEPT !.schemas = Assign(d.schemas, x, s)], drf)
  <1> DEFINE a == d.schemas
             b == d.colls
             f == Assign(a, x, s)
             e == [d EXCEPT !.schemas = f]
  <1>1. d = [schemas |-> a, colls |-> b] /\ MapOK(a) /\ \A n \in DOMAIN b : CollOK(b[n], drf)
    BY DEF DbOK
  <1>2. MapOK(f)
    BY <1>1, MapGrows
  <1> HIDE DEF a, b, f
  <1>3. e = [schemas |-> f, colls |-> b]
    BY <1>1
  <1> HIDE DEF e
  <1>4. e.schemas = f /\ e.colls = b
    BY <1>3
  <1>5. DbOK(e, drf)
    BY <1>1, <1>2, <1>3, <1>4 DEF DbOK
  <1> QED
    BY <1>5 DEF e, f, a

LEMMA CollsGrow ==
    ASSUME NEW d, NEW drf, DbOK(d, drf), NEW x, NEW coll, CollOK(coll, drf)
    PROVE  DbOK([d EXCEPT !.colls = Assign(d.colls, x, coll)], drf)
  <1> DEFINE a == d.schemas
             b == d.colls
             f == Assign(b, x, coll)
             e == [d EXCEPT !.colls = f]
  <1>1. d = [schemas |-> a, colls |-> b] /\ MapOK(a) /\ \A n \in DOMAIN b : CollOK(b[n], drf)
    BY DEF DbOK
  <1>2. \A n \in DOMAIN f : CollOK(f[n], drf)
    BY <1>1, Assigned
  <1> HIDE DEF a, b, f
  <1>3. e = [schemas |-> a, colls |-> f]
    BY <1>1
  <1> HIDE DEF e
  <1>4. e.schemas = a /\ e.colls = f
    BY <1>3
  <1>5. DbOK(e, drf)
    BY <1>1, <1>2, <1>3, <1>4 DEF DbOK
  <1> QED
    BY <1>5 DEF e, f, b

LEMMA CollIs ==
    ASSUME NEW s, NEW docs, NEW drf, SchemaOK(s),
           \A k \in DOMAIN docs : docs[k] \in Names /\ (~drf => Inside(s, docs[k]))
    PROVE  CollOK([schema |-> s, docs |-> docs], drf)
  <1> DEFINE coll == [schema |-> s, docs |-> docs]
  <1>1. coll.schema = s /\ coll.docs = docs
    OBVIOUS
  <1> HIDE DEF coll
  <1>2. coll = [schema |-> coll.schema, docs |-> coll.docs]
    BY <1>1 DEF coll
  <1>3. CollOK(coll, drf)
    BY <1>1, <1>2 DEF CollOK
  <1> QED
    BY <1>3 DEF coll

LEMMA DocsChange ==
    ASSUME NEW d, NEW drf, DbOK(d, drf), NEW n \in DOMAIN d.colls, NEW docs,
           \A k \in DOMAIN docs : docs[k] \in Names /\ (~drf => Inside(d.colls[n].schema, docs[k]))
    PROVE  DbOK(WithDocs(d, n, docs), drf)
  <1> DEFINE coll == d.colls[n]
             s == coll.schema
             e == [coll EXCEPT !.docs = docs]
  <1>1. coll = [schema |-> s, docs |-> coll.docs] /\ SchemaOK(s)
    BY DEF DbOK, CollOK
  <1>2. e = [schema |-> s, docs |-> docs]
    <2> HIDE DEF s
    <2> DEFINE o == coll.docs
    <2>1. coll = [schema |-> s, docs |-> o]
      BY <1>1
    <2> HIDE DEF coll, o
    <2> QED
      BY <2>1
  <1>3. CollOK(e, drf)
    BY <1>1, <1>2, CollIs
  <1>4. WithDocs(d, n, docs) = [d EXCEPT !.colls = Assign(d.colls, n, e)]
    BY DEF WithDocs
  <1> HIDE DEF e
  <1> QED
    BY <1>3, <1>4, CollsGrow

\* What a command makes of the database, and the response.
LEMMA Executed ==
    ASSUME NEW d, NEW drf, DbOK(d, drf), NEW cmd, Storable(d, drf, cmd)
    PROVE  LET out == Execute(d, cmd)
           IN /\ DbOK(out.db, drf) /\ ResOK(out.res)
              /\ out.res.op = "Found" =>
                   /\ cmd.op = "Get" /\ cmd.coll_name \in DOMAIN d.colls
                   /\ ~drf => Inside(d.colls[cmd.coll_name].schema, out.res.value)
  <1> DEFINE Goal(out) == /\ DbOK(out.db, drf) /\ ResOK(out.res)
                          /\ out.res.op = "Found" =>
                               /\ cmd.op = "Get" /\ cmd.coll_name \in DOMAIN d.colls
                               /\ ~drf => Inside(d.colls[cmd.coll_name].schema, out.res.value)
  <1>1. \A e, r : Outcome(e, r).db = e /\ Outcome(e, r).res = r
    BY DEF Outcome
  <1>2. /\ Success.op # "Found" /\ NotFound.op # "Found" /\ \A s : SchemaIs(s).op # "Found"
        /\ \A v : Found(v).value = v /\ Found(v).op = "Found"
    BY DEF Success, NotFound, SchemaIs, Found
  <1>3. /\ \A e : DbOK(e, drf) => Goal(Outcome(e, Success)) /\ Goal(Outcome(e, NotFound))
        /\ \A s : SchemaOK(s) => Goal(Outcome(d, SchemaIs(s)))
    BY <1>1, <1>2, Answers
  <1>4. /\ \A n \in DOMAIN d.schemas : SchemaOK(d.schemas[n])
        /\ \A n \in DOMAIN d.colls : CollOK(d.colls[n], drf)
    BY DEF DbOK, MapOK
  <1>5. ASSUME cmd.op = "RegisterSchema" PROVE Goal(RegisterSchema(d, cmd))
    <2>1. SchemaOK(cmd.schema)
      BY <1>5 DEF Storable
    <2>2. DbOK([d EXCEPT !.schemas = Assign(d.schemas, cmd.name, cmd.schema)], drf)
      BY <2>1, SchemasGrow
    <2> HIDE DEF Goal
    <2> QED
      BY <1>3, <2>2 DEF RegisterSchema
  <1>6. Goal(CreateCollection(d, cmd))
    <2> HIDE DEF Goal
    <2>1. CASE cmd.schema_name \notin DOMAIN d.schemas
      BY <1>3, <2>1 DEF CreateCollection
    <2>2. CASE cmd.schema_name \in DOMAIN d.schemas
      <3> DEFINE s == d.schemas[cmd.schema_name]
                 coll == [schema |-> s, docs |-> EmptyMap]
      <3>1. SchemaOK(s) /\ DOMAIN EmptyMap = {}
        BY <1>4, <2>2 DEF EmptyMap
      <3> HIDE DEF s
      <3>2. CollOK(coll, drf)
        BY <3>1, CollIs
      <3> HIDE DEF coll
      <3>3. DbOK([d EXCEPT !.colls = Assign(d.colls, cmd.name, coll)], drf)
        BY <3>2, CollsGrow
      <3> QED
        BY <1>3, <2>2, <3>3 DEF CreateCollection, coll, s
    <2> QED
      BY <2>1, <2>2
  <1>7. Goal(GetSchema(d, cmd))
    <2> HIDE DEF Goal
    <2> QED
      BY <1>3, <1>4 DEF GetSchema
  <1>8. Goal(GetCollectionSchema(d, cmd))
    <2>1. \A n \in DOMAIN d.colls : SchemaOK(d.colls[n].schema)
      BY <1>4 DEF CollOK
    <2> HIDE DEF Goal
    <2> QED
      BY <1>3, <2>1 DEF GetCollectionSchema
  <1>9. ASSUME cmd.op = "Get" PROVE Goal(Get(d, cmd))
    <2> DEFINE n == cmd.coll_name
               docs == d.colls[n].docs
               v == docs[cmd.key]
    <2>1. CASE n \in DOMAIN d.colls /\ cmd.key \in DOMAIN docs
      <3>1. v \in Names /\ (~drf => Inside(d.colls[n].schema, v))
        BY <1>4, <2>1 DEF CollOK
      <3>2. Get(d, cmd) = Outcome(d, Found(v))
        BY <2>1 DEF Get
      <3> HIDE DEF v, n
      <3>3. Goal(Outcome(d, Found(v)))
        BY <1>1, <1>2, <1>9, <2>1, <3>1, Answers DEF n
      <3> HIDE DEF Goal
      <3> QED
        BY <3>2, <3>3
    <2>2. CASE ~(n \in DOMAIN d.colls /\ cmd.key \in DOMAIN docs)
      <3> HIDE DEF Goal
      <3> QED
        BY <1>3, <2>2 DEF Get
    <2> QED
      BY <2>1, <2>2
  <1>10. ASSUME cmd.op = "Put" PROVE Goal(Put(d, cmd))
    <2> DEFINE n == cmd.coll_name
               docs == d.colls[n].docs
               new == Assign(docs, cmd.key, cmd.value)
    <2>1. CASE n \in DOMAIN d.colls
      <3>1. cmd.value \in Names /\ (~drf => Inside(d.colls[n].schema, cmd.value))
        BY <1>10, <2>1 DEF Storable
      <3>2. \A k \in DOMAIN docs : docs[k] \in Names /\ (~drf => Inside(d.colls[n].schema, docs[k]))
        BY <1>4, <2>1 DEF CollOK
      <3> HIDE DEF docs, n
      <3>3. \A k \in DOMAIN new : new[k] \in Names /\ (~drf => Inside(d.colls[n].schema, new[k]))
        BY <3>1, <3>2, Assigned
      <3> HIDE DEF new
      <3>4. DbOK(WithDocs(d, n, new), drf)
        BY <2>1, <3>3, DocsChange
      <3> HIDE DEF Goal
      <3> QED
        BY <1>3, <2>1, <3>4 DEF Put, new, docs, n
    <2>2. CASE n \notin DOMAIN d.colls
      <3> HIDE DEF Goal
      <3> QED
        BY <1>3, <2>2 DEF Put
    <2> QED
      BY <2>1, <2>2
  <1>11. Goal(Delete(d, cmd))
    <2> DEFINE n == cmd.coll_name
               docs == d.colls[n].docs
               new == Erase(docs, cmd.key)
    <2>1. CASE n \in DOMAIN d.colls
      <3>1. \A k \in DOMAIN docs : docs[k] \in Names /\ (~drf => Inside(d.colls[n].schema, docs[k]))
        BY <1>4, <2>1 DEF CollOK
      <3> HIDE DEF docs, n
      <3>2. \A k \in DOMAIN new : new[k] \in Names /\ (~drf => Inside(d.colls[n].schema, new[k]))
        BY <3>1 DEF Erase
      <3> HIDE DEF new
      <3>3. DbOK(WithDocs(d, n, new), drf)
        BY <2>1, <3>2, DocsChange
      <3> HIDE DEF Goal
      <3> QED
        BY <1>3, <2>1, <3>3 DEF Delete, new, docs, n
    <2>2. CASE n \notin DOMAIN d.colls
      <3> HIDE DEF Goal
      <3> QED
        BY <1>3, <2>2 DEF Delete
    <2> QED
      BY <2>1, <2>2
  <1>12. cmd.op \in Ops
    BY DEF Storable
  <1> HIDE DEF Goal
  <1>13. Goal(Execute(d, cmd))
    BY <1>5, <1>6, <1>7, <1>8, <1>9, <1>10, <1>11, <1>12 DEF Execute, Ops
  <1> QED
    BY <1>13 DEF Goal

-----------------------------------------------------------------------------
(* What a user enters. *)

LEMMA AnEntry ==
    ASSUME NEW e \in Entry
    PROVE  /\ e.name \in Names /\ (e.do = "collection" => e.schema \in Names)
           /\ e.do \in {"schema", "collection", "getschema", "colschema", "put", "get", "delete"}
  BY DEF Entry

\* A command without a schema in it, that is about no document.
LEMMA PlainServed ==
    ASSUME NEW cs, NEW m, NEW i \in DOMAIN Commands, IsMessage(Commands, i, m), "schema" \notin DOMAIN m,
           m.op \in {"CreateCollection", "GetSchema", "GetCollectionSchema"}
    PROVE  CommandOK(cs, m)
  <1>1. CommandIs(cs, m) = m
    BY DEF CommandIs
  <1>2. OnWire(m) = m
    BY DEF OnWire
  <1>3. ServedOK(cs, m, m)
    BY DEF ServedOK, OnDocuments, Ops
  <1> QED
    BY <1>1, <1>2, <1>3 DEF CommandOK

LEMMA CommandList ==
    /\ DOMAIN Commands = 1..7
    /\ Commands[1].op = "RegisterSchema" /\ Commands[1].body = <<"name", "schema">>
    /\ Commands[2].op = "CreateCollection" /\ Commands[2].body = <<"name", "schema_name">>
    /\ Commands[3].op = "GetSchema" /\ Commands[3].body = <<"name">>
    /\ Commands[4].op = "GetCollectionSchema" /\ Commands[4].body = <<"name">>
    /\ Commands[5].op = "Get" /\ Commands[5].body = <<"coll_name", "key">>
    /\ Commands[6].op = "Put" /\ Commands[6].body = <<"coll_name", "value">>
    /\ Commands[7].op = "Delete" /\ Commands[7].body = <<"coll_name", "key">>
  BY DEF Commands

LEMMA RegisterOK ==
    ASSUME NEW cs, NEW n \in Names, NEW s, IsSchema(s), KeyType(s).kind # "AggregateType"
    PROVE  CommandOK(cs, [op |-> "RegisterSchema", name |-> n, schema |-> s])
  <1> DEFINE m == [op |-> "RegisterSchema", name |-> n, schema |-> s]
             w == [op |-> "RegisterSchema", name |-> n, schema |-> Narrow(s)]
  <1>1. /\ m.op = "RegisterSchema" /\ m["name"] = n /\ m["schema"] = s /\ "schema" \in DOMAIN m
        /\ m = [z \in {"op", "name", "schema"} |-> m[z]]
        /\ [m EXCEPT !.schema = Narrow(m.schema)] = w
    OBVIOUS
  <1>2. w.op = "RegisterSchema" /\ w.schema = Narrow(s)
    OBVIOUS
  <1> HIDE DEF m, w
  <1>3. IsMessage(Commands, 1, m)
    <2>1. IsPart("name", m["name"]) /\ IsPart("schema", m["schema"])
      BY <1>1 DEF IsPart
    <2> QED
      BY <1>1, <2>1, CommandList, Message2
  <1>4. CommandIs(cs, m) = m
    BY <1>1 DEF CommandIs
  <1>5. OnWire(m) = w
    BY <1>1 DEF OnWire
  <1>6. ServedOK(cs, m, w)
    BY <1>2, NarrowedOK DEF ServedOK, OnDocuments, Ops
  <1> QED
    BY <1>3, <1>4, <1>5, <1>6, CommandList DEF CommandOK, m

LEMMA PutOK ==
    ASSUME NEW cs, NEW n \in DOMAIN cs, n \in Names, SchemaOK(cs[n]), DocSize(cs[n]) < Limit,
           NEW v \in Values[Whole(cs[n])], NEW k
    PROVE  CommandOK(cs, [op |-> "Put", coll_name |-> n, value |-> v, key |-> k])
  <1> DEFINE m == [op |-> "Put", coll_name |-> n, value |-> v, key |-> k]
             doc == Document(cs[n], v)
             w == [op |-> "Put", coll_name |-> n, value |-> doc]
  <1>1. doc \in Names /\ Len(doc) = DocSize(cs[n]) /\ Inside(cs[n], doc)
    BY DocumentIs DEF SchemaOK, Names
  <1>2. m.op = "Put" /\ m.coll_name = n /\ m.value = v
    OBVIOUS
  <1> HIDE DEF m
  <1>3. CommandIs(cs, m) = w
    BY <1>2 DEF CommandIs
  <1> HIDE DEF doc
  <1>4. /\ w.op = "Put" /\ w.coll_name = n /\ w["coll_name"] = n /\ w["value"] = doc /\ w.value = doc
        /\ w = [z \in {"op", "coll_name", "value"} |-> w[z]] /\ "schema" \notin DOMAIN w
    OBVIOUS
  <1> HIDE DEF w
  <1>5. IsMessage(Commands, 6, w)
    <2>1. IsPart("coll_name", w["coll_name"]) /\ IsPart("value", w["value"])
      BY <1>1, <1>4 DEF IsPart
    <2> QED
      BY <1>4, <2>1, CommandList, Message2
  <1>6. OnWire(w) = w
    BY <1>4 DEF OnWire
  <1>7. ServedOK(cs, m, w)
    BY <1>1, <1>2, <1>4 DEF ServedOK, OnDocuments, Ops
  <1> QED
    BY <1>3, <1>5, <1>6, <1>7, CommandList DEF CommandOK, m

LEMMA KeyOK ==
    ASSUME NEW cs, NEW n \in DOMAIN cs, n \in Names, SchemaOK(cs[n]),
           NEW k \in Values[KeyType(cs[n])], NEW op \in {"Get", "Delete"}
    PROVE  CommandOK(cs, [op |-> op, coll_name |-> n, key |-> k])
  <1> DEFINE m == [op |-> op, coll_name |-> n, key |-> k]
             t == KeyType(cs[n])
             b == PrintField[t][0][Field(t, k)]
             w == [op |-> op, coll_name |-> n, key |-> b]
  <1>1. b \in Names /\ (t.kind # "StringType" => Len(b) = PrimitiveSize[t.kind])
    <2>1. t \in Leaves
      BY KeysAreLeaves DEF SchemaOK
    <2> HIDE DEF t
    <2> QED
      BY <2>1, TypedKey DEF t
  <1>2. m.op = op /\ m.coll_name = n /\ m.key = k
    OBVIOUS
  <1>3. CommandIs(cs, m) = w
    <2>1. CommandIs(cs, m) = [m EXCEPT !.key = PrintField[t][0][Field(t, m.key)]]
      <3> HIDE DEF m
      <3> QED
        BY <1>2 DEF CommandIs
    <2> HIDE DEF t
    <2>2. PrintField[t][0][Field(t, m.key)] = b
      BY <1>2
    <2> HIDE DEF b
    <2>3. [m EXCEPT !.key = b] = w
      OBVIOUS
    <2> QED
      BY <2>1, <2>2, <2>3
  <1> HIDE DEF b, m
  <1>4. /\ w.op = op /\ w.coll_name = n /\ w["coll_name"] = n /\ w["key"] = b /\ w.key = b
        /\ w = [z \in {"op", "coll_name", "key"} |-> w[z]] /\ "schema" \notin DOMAIN w
    OBVIOUS
  <1> HIDE DEF w
  <1>5. \E i \in DOMAIN Commands : IsMessage(Commands, i, w)
    <2>1. IsPart("coll_name", w["coll_name"]) /\ IsPart("key", w["key"])
      BY <1>1, <1>4 DEF IsPart
    <2>2. CASE op = "Get"
      <3>1. IsMessage(Commands, 5, w)
        BY <1>4, <2>1, <2>2, CommandList, Message2
      <3> QED
        BY <3>1, CommandList
    <2>3. CASE op = "Delete"
      <3>1. IsMessage(Commands, 7, w)
        BY <1>4, <2>1, <2>3, CommandList, Message2
      <3> QED
        BY <3>1, CommandList
    <2> QED
      BY <2>2, <2>3
  <1>6. OnWire(w) = w
    BY <1>4 DEF OnWire
  <1>7. ServedOK(cs, m, w)
    BY <1>1, <1>2, <1>4 DEF ServedOK, OnDocuments, Ops
  <1> QED
    BY <1>3, <1>5, <1>6, <1>7 DEF CommandOK, m

\* A document's length fits into the 4 bytes it is written with.  The code does
\* not check it: a longer one would be cut, and its rest read as commands.
Countable(cs) == \A n \in DOMAIN cs : DocSize(cs[n]) < Limit
Counted == \A c \in Client : Countable(colschemas[c])

\* Every command that an entry can end in is one that the server may rely on.
LEMMA WhatIsMeant ==
    ASSUME NEW c \in Client, NEW e \in Entry, NeedsSchema(e) => e.name \in DOMAIN colschemas[c],
           NEW m \in Meant(c, e), MapOK(colschemas[c]), Countable(colschemas[c])
    PROVE  CommandOK(colschemas[c], m)
  <1> DEFINE cs == colschemas[c]
  <1>1. /\ e.name \in Names /\ (e.do = "collection" => e.schema \in Names)
        /\ e.do \in {"schema", "collection", "getschema", "colschema", "put", "get", "delete"}
    BY AnEntry
  <1>2. CASE e.do = "schema"
    <2> DEFINE fs == Composed(c, e.fields)
               ks == KeyFields(fs, e.key)
               s == [fields |-> fs, key |-> Min(ks) - 1]
    <2>1. /\ ks # {} /\ fs[Min(ks)].type.kind # "AggregateType" /\ fs \in Fields
          /\ m = [op |-> "RegisterSchema", name |-> e.name, schema |-> s]
      <3> HIDE DEF s
      <3>1. m \in IF ks = {} \/ fs[Min(ks)].type.kind = "AggregateType" \/ fs \notin Fields THEN {}
                  ELSE {[op |-> "RegisterSchema", name |-> e.name, schema |-> s]}
        BY <1>2 DEF Meant, s
      <3> QED
        BY <3>1
    <2>2. ks \subseteq 1..Len(fs) /\ Len(fs) \in Nat
      BY <2>1, TypesSmall, FieldListShape DEF KeyFields
    <2> HIDE DEF fs, ks
    <2>3. Min(ks) \in ks
      <3>1. \E d \in ks : \A x \in ks : d <= x
        <4>1. ks \subseteq Nat
          BY <2>2
        <4> QED
          BY <2>1, <4>1, LeastOf
      <3> QED
        BY <3>1 DEF Min
    <2>4. s.fields = fs /\ s.key = Min(ks) - 1 /\ Min(ks) \in 1..Len(fs)
      BY <2>2, <2>3
    <2>5. s.key \in 0..(Len(fs) - 1) /\ s.key + 1 = Min(ks) /\ s = [fields |-> s.fields, key |-> s.key]
      BY <2>2, <2>4
    <2> HIDE DEF s
    <2>6. IsSchema(s)
      BY <2>1, <2>4, <2>5 DEF IsSchema
    <2>7. KeyType(s) = fs[Min(ks)].type
      BY <2>4, <2>5 DEF KeyType, KeyIndex
    <2> QED
      BY <1>1, <2>1, <2>6, <2>7, RegisterOK
  <1>3. CASE e.do = "collection"
    <2>1. m = [op |-> "CreateCollection", name |-> e.name, schema_name |-> e.schema]
      BY <1>3 DEF Meant
    <2>2. /\ m.op = "CreateCollection" /\ m["name"] = e.name /\ m["schema_name"] = e.schema
          /\ m = [z \in {"op", "name", "schema_name"} |-> m[z]] /\ "schema" \notin DOMAIN m
      BY <2>1
    <2>3. IsMessage(Commands, 2, m)
      <3>1. IsPart("name", m["name"]) /\ IsPart("schema_name", m["schema_name"])
        BY <1>1, <1>3, <2>2 DEF IsPart
      <3> QED
        BY <2>2, <3>1, CommandList, Message2
    <2> QED
      BY <2>2, <2>3, CommandList, PlainServed
  <1>4. CASE e.do = "getschema"
    <2>1. m = [op |-> "GetSchema", name |-> e.name]
      BY <1>4 DEF Meant
    <2>2. /\ m.op = "GetSchema" /\ m["name"] = e.name
          /\ m = [z \in {"op", "name"} |-> m[z]] /\ "schema" \notin DOMAIN m
      BY <2>1
    <2>3. IsMessage(Commands, 3, m)
      <3>1. IsPart("name", m["name"])
        BY <1>1, <2>2 DEF IsPart
      <3> QED
        BY <2>2, <3>1, CommandList, Message1
    <2> QED
      BY <2>2, <2>3, CommandList, PlainServed
  <1>5. CASE e.do = "colschema"
    <2>1. m = [op |-> "GetCollectionSchema", name |-> e.name]
      BY <1>5 DEF Meant
    <2>2. /\ m.op = "GetCollectionSchema" /\ m["name"] = e.name
          /\ m = [z \in {"op", "name"} |-> m[z]] /\ "schema" \notin DOMAIN m
      BY <2>1
    <2>3. IsMessage(Commands, 4, m)
      <3>1. IsPart("name", m["name"])
        BY <1>1, <2>2 DEF IsPart
      <3> QED
        BY <2>2, <3>1, CommandList, Message1
    <2> QED
      BY <2>2, <2>3, CommandList, PlainServed
  <1>6. CASE e.do = "put"
    <2>1. e.name \in DOMAIN cs /\ SchemaOK(cs[e.name]) /\ DocSize(cs[e.name]) < Limit
      BY <1>6 DEF NeedsSchema, MapOK, Countable
    <2>2. PICK v \in Values[Whole(cs[e.name])] :
             m = [op |-> "Put", coll_name |-> e.name, value |-> v, key |-> v[KeyIndex(cs[e.name])]]
      BY <1>6 DEF Meant
    <2> QED
      BY <1>1, <2>1, <2>2, PutOK
  <1>7. CASE e.do \in {"get", "delete"}
    <2>1. e.name \in DOMAIN cs /\ SchemaOK(cs[e.name])
      BY <1>7 DEF NeedsSchema, MapOK
    <2>2. PICK k \in Values[KeyType(cs[e.name])] :
             m = [op |-> IF e.do = "get" THEN "Get" ELSE "Delete", coll_name |-> e.name, key |-> k]
      BY <1>7 DEF Meant
    <2> DEFINE o == IF e.do = "get" THEN "Get" ELSE "Delete"
    <2>3. o \in {"Get", "Delete"} /\ m = [op |-> o, coll_name |-> e.name, key |-> k]
      BY <2>2
    <2> HIDE DEF o
    <2> QED
      BY <1>1, <2>1, <2>3, KeyOK
  <1> QED
    BY <1>1, <1>2, <1>3, <1>4, <1>5, <1>6, <1>7

-----------------------------------------------------------------------------
(* The inductive invariant, and one lemma for each action. *)

Domains ==
    /\ DOMAIN at = Client /\ DOMAIN step = Client /\ DOMAIN typed = Client
    /\ DOMAIN schemas = Client /\ DOMAIN colschemas = Client /\ DOMAIN stream = Client
    /\ DOMAIN to_server = Client /\ DOMAIN to_client = Client

SessionOK(c) ==
    /\ step[c] \in 0..Len(Menu[c]) /\ MapOK(schemas[c])
    /\ LocalOK(at[c], server, drift, colschemas[c], typed[c], to_server[c], to_client[c], stream[c])

ServerOK ==
    /\ server \in {"up", "down", "aborted", "undefined"} /\ drift \in BOOLEAN
    /\ server \in {"aborted", "undefined"} => drift
    /\ DbOK(db, drift)

IInv == Domains /\ ServerOK /\ \A c \in Client : SessionOK(c)

LEMMA InitOK == Init => IInv
  <1> SUFFICES ASSUME Init PROVE IInv
    OBVIOUS
  <1>1. Domains
    BY DEF Init, Domains
  <1>2. ServerOK
    BY EmptyDbOK DEF Init, ServerOK
  <1>3. MapOK(EmptyMap)
    BY DEF MapOK, EmptyMap
  <1>4. ASSUME NEW c \in Client PROVE SessionOK(c)
    <2>1. /\ at[c] = "prompt" /\ step[c] = 0 /\ schemas[c] = EmptyMap /\ colschemas[c] = EmptyMap
          /\ stream[c] = NoStream /\ server = "up" /\ to_server[c] = <<>> /\ to_client[c] = <<>>
          /\ drift = FALSE
      BY DEF Init
    <2>2. Len(Menu[c]) \in Nat
      BY MenuAssumption
    <2>3. <<>> \in Bytes
      BY ByteSeqs
    <2>4. LocalOK("prompt", "up", FALSE, EmptyMap, typed[c], <<>>, <<>>, NoStream)
      BY <1>3, <2>3, NoStreamIs DEF LocalOK, Quiet
    <2>5. 0 \in 0..Len(Menu[c])
      BY <2>2
    <2> QED
      BY <1>3, <2>1, <2>4, <2>5 DEF SessionOK
  <1> QED
    BY <1>1, <1>2, <1>4 DEF IInv

LEMMA EnterOK ==
    ASSUME IInv, Counted, NEW c \in Client, Enter(c)
    PROVE  IInv'
  <1>1. /\ at[c] = "prompt" /\ step[c] < Len(Menu[c])
        /\ step' = [step EXCEPT ![c] = step[c] + 1] /\ at' = [at EXCEPT ![c] = "waiting"]
        /\ UNCHANGED <<schemas, colschemas, stream, server, db, to_client, drift>>
    BY DEF Enter
  <1>2. PICK e \in Menu[c][step[c] + 1] :
          /\ NeedsSchema(e) => e.name \in DOMAIN colschemas[c]
          /\ \E m \in Meant(c, e) :
               /\ typed' = [typed EXCEPT ![c] = m]
               /\ to_server' = IF server = "up"
                               THEN [to_server EXCEPT ![c] = Write(Commands, Command(c, m))]
                               ELSE to_server
    BY DEF Enter
  <1>3. PICK m \in Meant(c, e) :
          /\ typed' = [typed EXCEPT ![c] = m]
          /\ to_server' = IF server = "up"
                          THEN [to_server EXCEPT ![c] = Write(Commands, Command(c, m))]
                          ELSE to_server
    BY <1>2
  <1>4. Domains /\ ServerOK /\ SessionOK(c) /\ \A d \in Client : SessionOK(d)
    BY DEF IInv
  <1>5. /\ step[c] \in 0..Len(Menu[c]) /\ Len(Menu[c]) \in Nat /\ MapOK(schemas[c])
        /\ LocalOK(at[c], server, drift, colschemas[c], typed[c], to_server[c], to_client[c], stream[c])
    BY <1>4, MenuAssumption DEF SessionOK
  <1>6. e \in Entry
    <2>1. Menu[c] \in Seq(SUBSET Entry) /\ step[c] + 1 \in 1..Len(Menu[c])
      BY <1>1, <1>5, MenuAssumption
    <2>2. Menu[c][step[c] + 1] \in SUBSET Entry
      BY <2>1, ElementOfSeq
    <2> QED
      BY <2>2
  <1>7. MapOK(colschemas[c]) /\ Countable(colschemas[c])
    BY <1>5 DEF LocalOK, Counted
  <1>8. CommandOK(colschemas[c], m)
    BY <1>2, <1>6, <1>7, WhatIsMeant
  <1>9. Command(c, m) = CommandIs(colschemas[c], m)
    BY DEF Command, CommandIs
  <1> DEFINE w == Write(Commands, CommandIs(colschemas[c], m))
  <1>10. w \in Bytes
    <2>1. PICK i : IsMessage(Commands, i, CommandIs(colschemas[c], m))
      BY <1>8 DEF CommandOK
    <2> QED
      BY <2>1, TheLists, MessageIs
  <1>11. Quiet(to_server[c], to_client[c], stream[c])
    BY <1>1, <1>5 DEF LocalOK
  <1>12. LocalOK("waiting", server, drift, colschemas[c], m, to_server'[c], to_client[c], stream[c])
    <2>1. CASE server = "up"
      <3>1. to_server'[c] = w
        BY <1>3, <1>4, <1>9, <2>1 DEF Domains
      <3>2. Asked(server, colschemas[c], m, w, to_client[c], stream[c])
        BY <1>8, <1>11, <2>1 DEF Asked, Quiet
      <3> HIDE DEF w
      <3> QED
        BY <1>5, <1>10, <2>1, <3>1, <3>2 DEF LocalOK
    <2>2. CASE server # "up"
      <3>1. to_server'[c] = to_server[c]
        BY <1>3, <2>2
      <3> QED
        BY <1>5, <1>11, <2>2, <3>1 DEF LocalOK
    <2> QED
      BY <2>1, <2>2
  <1>13. Domains'
    BY <1>1, <1>3, <1>4 DEF Domains
  <1>14. ServerOK'
    BY <1>1, <1>4 DEF ServerOK
  <1>15. ASSUME NEW d \in Client PROVE SessionOK(d)'
    <2>1. CASE d = c
      <3>1. at'[c] = "waiting" /\ typed'[c] = m /\ step'[c] = step[c] + 1
        BY <1>1, <1>3, <1>4 DEF Domains
      <3>2. step[c] + 1 \in 0..Len(Menu[c])
        BY <1>1, <1>5
      <3> QED
        BY <1>1, <1>5, <1>12, <2>1, <3>1, <3>2 DEF SessionOK
    <2>2. CASE d # c
      <3>1. at'[d] = at[d] /\ typed'[d] = typed[d] /\ step'[d] = step[d] /\ to_server'[d] = to_server[d]
        BY <1>1, <1>3, <1>4, <2>2 DEF Domains
      <3> QED
        BY <1>1, <1>4, <3>1 DEF SessionOK
    <2> QED
      BY <2>1, <2>2
  <1> QED
    BY <1>13, <1>14, <1>15 DEF IInv

LEMMA EnterUncachedOK ==
    ASSUME IInv, NEW c \in Client, EnterUncached(c)
    PROVE  IInv'
  <1>1. /\ step[c] < Len(Menu[c]) /\ step' = [step EXCEPT ![c] = step[c] + 1]
        /\ UNCHANGED <<at, typed, schemas, colschemas, stream, server, db, to_server, to_client, drift>>
    BY DEF EnterUncached
  <1>2. Domains /\ ServerOK /\ \A d \in Client : SessionOK(d)
    BY DEF IInv
  <1>3. Domains' /\ ServerOK'
    BY <1>1, <1>2 DEF Domains, ServerOK
  <1>4. ASSUME NEW d \in Client PROVE SessionOK(d)'
    <2>1. step'[d] \in 0..Len(Menu[d])
      <3>1. step[d] \in 0..Len(Menu[d]) /\ Len(Menu[d]) \in Nat
        BY <1>2, MenuAssumption DEF SessionOK
      <3>2. step'[d] = IF d = c THEN step[d] + 1 ELSE step[d]
        BY <1>1, <1>2 DEF Domains
      <3> QED
        BY <1>1, <3>1, <3>2
    <2> QED
      BY <1>1, <1>2, <2>1 DEF SessionOK
  <1> QED
    BY <1>3, <1>4 DEF IInv

LEMMA RecvEndOK ==
    ASSUME IInv, NEW c \in Client, RecvEnd(c)
    PROVE  IInv'
  <1>1. /\ at[c] = "waiting" /\ server # "up" /\ to_client[c] = <<>> /\ Empty(stream[c])
        /\ at' = [at EXCEPT ![c] = "prompt"]
        /\ UNCHANGED <<step, typed, schemas, colschemas, stream, server, db, to_server, to_client, drift>>
    BY DEF RecvEnd
  <1>2. Domains /\ ServerOK /\ \A d \in Client : SessionOK(d)
    BY DEF IInv
  <1>3. Domains' /\ ServerOK'
    BY <1>1, <1>2 DEF Domains, ServerOK
  <1>4. ASSUME NEW d \in Client PROVE SessionOK(d)'
    <2>1. at'[d] = IF d = c THEN "prompt" ELSE at[d]
      BY <1>1, <1>2 DEF Domains
    <2>2. CASE d = c
      <3>1. LocalOK("prompt", server, drift, colschemas[c], typed[c], to_server[c], to_client[c], stream[c])
        BY <1>1, <1>2 DEF SessionOK, LocalOK, Quiet
      <3> QED
        BY <1>1, <1>2, <2>1, <2>2, <3>1 DEF SessionOK
    <2>3. CASE d # c
      BY <1>1, <1>2, <2>1, <2>3 DEF SessionOK
    <2> QED
      BY <2>2, <2>3
  <1> QED
    BY <1>3, <1>4 DEF IInv

LEMMA ResetOK ==
    ASSUME IInv, NEW c \in Client, Reset(c)
    PROVE  IInv'
  <1>1. /\ at[c] = "waiting" /\ server # "up" /\ at' = [at EXCEPT ![c] = "ended"]
        /\ UNCHANGED <<step, typed, schemas, colschemas, stream, server, db, to_server, to_client, drift>>
    BY DEF Reset
  <1>2. Domains /\ ServerOK /\ \A d \in Client : SessionOK(d)
    BY DEF IInv
  <1>3. Domains' /\ ServerOK'
    BY <1>1, <1>2 DEF Domains, ServerOK
  <1>4. ASSUME NEW d \in Client PROVE SessionOK(d)'
    <2>1. at'[d] = IF d = c THEN "ended" ELSE at[d]
      BY <1>1, <1>2 DEF Domains
    <2>2. CASE d = c
      <3>1. LocalOK("ended", server, drift, colschemas[c], typed[c], to_server[c], to_client[c], stream[c])
        BY <1>1, <1>2 DEF SessionOK, LocalOK
      <3> QED
        BY <1>1, <1>2, <2>1, <2>2, <3>1 DEF SessionOK
    <2>3. CASE d # c
      BY <1>1, <1>2, <2>1, <2>3 DEF SessionOK
    <2> QED
      BY <2>2, <2>3
  <1> QED
    BY <1>3, <1>4 DEF IInv

LEMMA MinOfTwo ==
    ASSUME NEW x \in Nat, NEW y \in Nat
    PROVE  Min({x, y}) \in {x, y} /\ Min({x, y}) <= x /\ Min({x, y}) <= y
  <1>1. PICK d \in {x, y} : \A z \in {x, y} : d <= z
    BY LeastOf
  <1>2. Min({x, y}) \in {x, y} /\ \A z \in {x, y} : Min({x, y}) <= z
    BY <1>1 DEF Min
  <1> QED
    BY <1>2

LEMMA EndOK ==
    ASSUME IInv, End
    PROVE  IInv'
  <1>1. /\ server' = "down" /\ to_server' = [c \in Client |-> <<>>]
        /\ UNCHANGED <<at, step, typed, schemas, colschemas, stream, db, drift>>
    BY DEF End, cli_vars
  <1>2. PICK n \in [Client -> Chunks \cup {0}] :
          to_client' = [c \in Client |-> SubSeq(to_client[c], 1, Min({n[c], Len(to_client[c])}))]
    BY DEF End
  <1>3. Domains /\ ServerOK /\ \A d \in Client : SessionOK(d)
    BY DEF IInv
  <1>4. Domains' /\ ServerOK'
    BY <1>1, <1>2, <1>3 DEF Domains, ServerOK
  <1>5. ASSUME NEW d \in Client PROVE SessionOK(d)'
    <2> DEFINE k == Min({n[d], Len(to_client[d])})
    <2>1. LocalOK(at[d], server, drift, colschemas[d], typed[d], to_server[d], to_client[d], stream[d])
      BY <1>3 DEF SessionOK
    <2>2. k \in 0..Len(to_client[d])
      <3>1. to_client[d] \in Bytes
        BY <2>1 DEF LocalOK
      <3>2. n[d] \in Nat /\ Len(to_client[d]) \in Nat
        BY <3>1, ChunksAssumption, ByteSeqs
      <3> HIDE DEF k
      <3>3. k \in {n[d], Len(to_client[d])} /\ k <= Len(to_client[d])
        BY <3>2, MinOfTwo DEF k
      <3> QED
        BY <3>2, <3>3
    <2> HIDE DEF k
    <2>3. LocalOK(at[d], "down", drift, colschemas[d], typed[d], <<>>, SubSeq(to_client[d], 1, k), stream[d])
      BY <2>1, <2>2, LocalStops
    <2>4. to_server'[d] = <<>> /\ to_client'[d] = SubSeq(to_client[d], 1, k)
      BY <1>1, <1>2 DEF k
    <2> QED
      BY <1>1, <1>3, <2>3, <2>4 DEF SessionOK
  <1> QED
    BY <1>4, <1>5 DEF IInv

LEMMA RecvOK ==
    ASSUME IInv, NEW c \in Client, Recv(c)
    PROVE  IInv'
  <1>1. /\ at[c] = "waiting" /\ to_client[c] # <<>>
        /\ UNCHANGED <<step, typed, server, db, to_server, drift>>
    BY DEF Recv
  <1>2. PICK n \in Chunks :
          LET k == Min({n, Len(to_client[c])})
              s == AppendTo(stream[c], SubSeq(to_client[c], 1, k))
              r == Read(Responses, Data(s))
              t == CASE r.res = "SUCCESS"    -> Consumed(s, StreamSize(s) - Len(r.c))
                     [] r.res = "INVALID"    -> Consumed(s, StreamSize(s))
                     [] r.res = "INCOMPLETE" -> s
          IN /\ to_client' = [to_client EXCEPT ![c] = Drop(to_client[c], k)]
             /\ stream' = [stream EXCEPT ![c] = t]
             /\ at' = [at EXCEPT ![c] = IF Ok(r) /\ ~Printable(c, r.v) THEN "undefined"
                                        ELSE AfterRecv(t)]
             /\ IF Ok(r) /\ r.v.op = "Schema" THEN Cache(c, r.v) ELSE UNCHANGED <<schemas, colschemas>>
    BY DEF Recv
  <1> DEFINE k == Min({n, Len(to_client[c])})
             s == AppendTo(stream[c], SubSeq(to_client[c], 1, k))
             r == Read(Responses, Data(s))
             t == CASE r.res = "SUCCESS"    -> Consumed(s, StreamSize(s) - Len(r.c))
                    [] r.res = "INVALID"    -> Consumed(s, StreamSize(s))
                    [] r.res = "INCOMPLETE" -> s
             q == Drop(to_client[c], k)
  <1>3. Domains /\ ServerOK /\ \A d \in Client : SessionOK(d)
    BY DEF IInv
  <1>4. /\ MapOK(schemas[c]) /\ MapOK(colschemas[c])
        /\ LocalOK(at[c], server, drift, colschemas[c], typed[c], to_server[c], to_client[c], stream[c])
    BY <1>3 DEF SessionOK, LocalOK
  <1>5. /\ to_client[c] \in Bytes /\ IsStream(stream[c]) /\ to_server[c] = <<>>
        /\ Answered(server, drift, colschemas[c], typed[c], to_server[c], to_client[c], stream[c])
    BY <1>1, <1>4 DEF LocalOK, Asked, Quiet, Answered
  <1>6. PICK res : /\ ResOK(res) /\ Coming(server, res, to_client[c], stream[c])
                   /\ ~drift /\ res.op = "Found" => Inside(colschemas[c][typed[c].coll_name], res.value)
    BY <1>5 DEF Answered
  <1>7. k \in 1..Len(to_client[c])
    <2>1. Len(to_client[c]) \in Nat \ {0}
      BY <1>1, <1>5, ByteSeqs
    <2>2. n \in Nat \ {0}
      BY ChunksAssumption
    <2> HIDE DEF k
    <2>3. k \in {n, Len(to_client[c])} /\ k <= Len(to_client[c])
      BY <2>1, <2>2, MinOfTwo DEF k
    <2> QED
      BY <2>1, <2>2, <2>3
  <1> HIDE DEF k
  <1>8. /\ IsStream(s) /\ ~Empty(s) /\ q \in Bytes
        /\ \/ /\ r = Got(res, <<>>) /\ q = <<>>
              /\ Consumed(s, StreamSize(s) - Len(r.c)) = NoStream
           \/ r = Incomplete /\ Coming(server, res, q, s)
    BY <1>5, <1>6, <1>7, ResponseComes
  <1>9. /\ to_client' = [to_client EXCEPT ![c] = q] /\ stream' = [stream EXCEPT ![c] = t]
        /\ at' = [at EXCEPT ![c] = IF Ok(r) /\ ~Printable(c, r.v) THEN "undefined" ELSE AfterRecv(t)]
        /\ IF Ok(r) /\ r.v.op = "Schema" THEN Cache(c, r.v) ELSE UNCHANGED <<schemas, colschemas>>
    BY <1>2 DEF k
  <1> DEFINE a == IF Ok(r) /\ ~Printable(c, r.v) THEN "undefined" ELSE AfterRecv(t)
  <1> HIDE DEF q, s, r, t
  <1>10. t = CASE r.res = "SUCCESS"    -> Consumed(s, StreamSize(s) - Len(r.c))
               [] r.res = "INVALID"    -> Consumed(s, StreamSize(s))
               [] r.res = "INCOMPLETE" -> s
    BY DEF t
  \* the schemas after it
  <1>11. /\ MapOK(schemas'[c]) /\ MapOK(colschemas'[c])
         /\ \A d \in Client : d # c => schemas'[d] = schemas[d] /\ colschemas'[d] = colschemas[d]
         /\ DOMAIN schemas' = Client /\ DOMAIN colschemas' = Client
         /\ ~Ok(r) => colschemas' = colschemas
    <2>1. CASE Ok(r) /\ r.v.op = "Schema"
      <3>1. r = Got(res, <<>>)
        BY <1>8, <2>1, Results
      <3>2. r.v = res
        BY <3>1, Results
      <3>3. SchemaOK(res.schema)
        BY <1>6, <2>1, <3>2 DEF ResOK
      <3> DEFINE x == Assign(schemas[c], typed[c].name, res.schema)
                 y == Assign(colschemas[c], typed[c].name, res.schema)
      <3>4. MapOK(x) /\ MapOK(y)
        BY <1>4, <3>3, MapGrows
      <3>5. /\ schemas' = IF typed[c].op = "GetSchema" THEN [schemas EXCEPT ![c] = x] ELSE schemas
            /\ colschemas' = IF typed[c].op = "GetCollectionSchema"
                             THEN [colschemas EXCEPT ![c] = y] ELSE colschemas
        BY <1>9, <2>1, <3>2 DEF Cache
      <3> HIDE DEF x, y
      <3> QED
        BY <1>3, <1>4, <2>1, <3>4, <3>5 DEF Domains
    <2>2. CASE ~(Ok(r) /\ r.v.op = "Schema")
      BY <1>3, <1>4, <1>9, <2>2 DEF Domains
    <2> QED
      BY <2>1, <2>2
  <1>12. LocalOK(a, server, drift, colschemas'[c], typed[c], to_server[c], q, t)
    <2>1. CASE r = Got(res, <<>>) /\ q = <<>> /\ Consumed(s, StreamSize(s) - Len(r.c)) = NoStream
      <3>1. Ok(r) /\ r.v = res /\ r.res = "SUCCESS"
        BY <2>1, Results
      <3>2. t = NoStream
        BY <1>10, <2>1, <3>1
      <3>3. a \in {"prompt", "undefined"} /\ (a = "undefined" => ~Printable(c, res))
        BY <3>1, <3>2, NoStreamIs DEF AfterRecv
      <3>4. ~Printable(c, res) => drift
        BY <1>3, <1>6 DEF Printable, ServerOK
      <3>5. Quiet(to_server[c], q, t)
        BY <1>5, <2>1, <3>2, NoStreamIs DEF Quiet
      <3> HIDE DEF a
      <3> QED
        BY <1>4, <1>8, <1>11, <3>2, <3>3, <3>4, <3>5, NoStreamIs DEF LocalOK
    <2>2. CASE r = Incomplete /\ Coming(server, res, q, s)
      <3>1. ~Ok(r) /\ r.res = "INCOMPLETE"
        BY <2>2, Results
      <3>2. t = s
        BY <1>10, <3>1
      <3>3. a = "waiting"
        BY <1>8, <3>1, <3>2 DEF AfterRecv
      <3>4. colschemas'[c] = colschemas[c]
        BY <1>11, <3>1
      <3>5. Answered(server, drift, colschemas[c], typed[c], to_server[c], q, s)
        BY <1>5, <1>6, <2>2 DEF Answered
      <3> HIDE DEF a
      <3> QED
        BY <1>4, <1>8, <3>2, <3>3, <3>4, <3>5 DEF LocalOK
    <2> QED
      BY <1>8, <2>1, <2>2
  <1> HIDE DEF a
  <1>13. at' = [at EXCEPT ![c] = a]
    BY <1>9 DEF a
  <1>14. Domains' /\ ServerOK'
    BY <1>1, <1>3, <1>9, <1>11, <1>13 DEF Domains, ServerOK
  <1>15. ASSUME NEW d \in Client PROVE SessionOK(d)'
    <2>1. CASE d = c
      <3>1. at'[c] = a /\ to_client'[c] = q /\ stream'[c] = t
        BY <1>3, <1>9, <1>13 DEF Domains
      <3>2. step[c] \in 0..Len(Menu[c])
        BY <1>3 DEF SessionOK
      <3> QED
        BY <1>1, <1>11, <1>12, <2>1, <3>1, <3>2 DEF SessionOK
    <2>2. CASE d # c
      <3>1. at'[d] = at[d] /\ to_client'[d] = to_client[d] /\ stream'[d] = stream[d]
        BY <1>3, <1>9, <1>13, <2>2 DEF Domains
      <3> QED
        BY <1>1, <1>3, <1>11, <2>2, <3>1 DEF SessionOK
    <2> QED
      BY <2>1, <2>2
  <1> QED
    BY <1>14, <1>15 DEF IInv

\* What the collection makes of the command is within the document, unless the
\* client laid it out by another schema.
LEMMA FreshCommand ==
    ASSUME NEW c \in Client, NEW m, NEW cmd, ServedOK(colschemas[c], m, cmd), DbOK(db, drift),
           MapOK(colschemas[c]), ~Stale(c, cmd), NEW schema \in Target(cmd)
    PROVE  ~ReadsOutside(schema, cmd) /\ ~KeyRefused(schema, cmd)
  <1> DEFINE n == cmd.coll_name
  <1>1. OnDocuments(cmd.op) /\ n \in DOMAIN db.colls /\ schema = db.colls[n].schema
    <2>1. OnDocuments(cmd.op)
      BY DEF Target, OnDocuments
    <2>2. Target(cmd) = {db.colls[x].schema : x \in {n} \cap DOMAIN db.colls}
      BY <2>1 DEF Target, OnDocuments
    <2> QED
      BY <2>1, <2>2
  <1>2. colschemas[c][n] = schema /\ n \in DOMAIN colschemas[c] /\ SchemaOK(schema)
    BY <1>1 DEF Stale, OnDocuments, ServedOK, MapOK
  <1>3. ~ReadsOutside(schema, cmd)
    <2>1. CASE cmd.op = "Put"
      <3>1. cmd.value \in Names /\ Len(cmd.value) = DocSize(schema) /\ Inside(schema, cmd.value)
        BY <1>2, <2>1 DEF ServedOK
      <3>2. IsSchema(schema) /\ cmd.value \in Bytes
        BY <1>2, <3>1 DEF SchemaOK, Names
      <3>3. KeyInside(schema, cmd.value)
        BY <3>1, <3>2, KeyIsInside
      <3>4. DocSize(schema) \in Nat
        BY <3>2, WholeIs
      <3>5. ~(Len(cmd.value) < DocSize(schema))
        BY <3>1, <3>4
      <3> QED
        BY <3>3, <3>5 DEF ReadsOutside
    <2>2. CASE cmd.op # "Put"
      BY <2>2 DEF ReadsOutside
    <2> QED
      BY <2>1, <2>2
  <1>4. ~KeyRefused(schema, cmd)
    BY <1>2 DEF KeyRefused, ServedOK
  <1> QED
    BY <1>3, <1>4

\* What is stored of a command is a document, of the schema of its collection
\* unless the client laid it out by another.
LEMMA StoredCommand ==
    ASSUME NEW c \in Client, NEW m, NEW cmd, ServedOK(colschemas[c], m, cmd), DbOK(db, drift),
           NEW drf, drf = (drift \/ Stale(c, cmd)),
           \A schema \in Target(cmd) : ~ReadsOutside(schema, cmd)
    PROVE  /\ Storable(db, drf, Stored(cmd))
           /\ Stored(cmd).op = cmd.op /\ (cmd.op # "Put" => Stored(cmd) = cmd)
  <1> DEFINE n == cmd.coll_name
             schema == db.colls[n].schema
             new == [op |-> "Put", coll_name |-> n, key |-> KeyBuffer(schema, cmd.value),
                     value |-> SubSeq(cmd.value, 1, DocSize(schema))]
  <1>1. CASE cmd.op = "Put" /\ n \in DOMAIN db.colls
    <2>1. Stored(cmd) = new
      BY <1>1 DEF Stored
    <2>2. schema \in Target(cmd)
      BY <1>1 DEF Target
    <2>3. ~ReadsOutside(schema, cmd)
      BY <2>2
    <2>4. SchemaOK(schema)
      BY <1>1 DEF DbOK, CollOK
    <2>5. DocSize(schema) \in Nat
      BY <2>4, WholeIs DEF SchemaOK
    <2>6. cmd.value \in Bytes /\ Len(cmd.value) < Limit /\ Len(cmd.value) \in Nat
      BY <1>1, ByteSeqs DEF ServedOK, Names
    <2> DEFINE l == DocSize(schema)
               v == SubSeq(cmd.value, 1, l)
    <2>7. l \in 0..Len(cmd.value)
      BY <1>1, <2>3, <2>5, <2>6 DEF ReadsOutside
    <2>8. new.op = "Put" /\ new.coll_name = n /\ new.value = v
      OBVIOUS
    <2> HIDE DEF new, l
    <2>9. v \in Names /\ (l = Len(cmd.value) => v = cmd.value)
      <3>1. v \in Bytes /\ Len(v) = l
        BY <2>6, <2>7, DropBytes
      <3>2. l < Limit
        BY <2>6, <2>7, LimitNat
      <3>3. l = Len(cmd.value) => v = cmd.value
        BY <2>6 DEF Bytes
      <3> HIDE DEF v
      <3> QED
        BY <3>1, <3>2, <3>3 DEF Names
    <2> HIDE DEF v
    <2>10. ~drf => Inside(schema, v)
      <3> SUFFICES ASSUME ~drf PROVE Inside(schema, v)
        OBVIOUS
      <3>1. colschemas[c][n] = schema
        BY <1>1 DEF Stale
      <3>2. Len(cmd.value) = l /\ Inside(schema, cmd.value)
        BY <1>1, <3>1 DEF ServedOK, l
      <3> QED
        BY <2>9, <3>2
    <2>11. Storable(db, drf, new)
      BY <2>8, <2>9, <2>10 DEF Storable, Ops
    <2> QED
      BY <1>1, <2>1, <2>8, <2>11
  <1>2. CASE ~(cmd.op = "Put" /\ n \in DOMAIN db.colls)
    <2>1. Stored(cmd) = cmd
      BY <1>2 DEF Stored
    <2>2. Storable(db, drf, cmd)
      BY <1>2 DEF Storable, ServedOK
    <2> QED
      BY <2>1, <2>2
  <1> QED
    BY <1>1, <1>2

LEMMA ServeOK ==
    ASSUME IInv, NEW c \in Client, Serve(c)
    PROVE  IInv'
  <1> DEFINE cmd == Read(Commands, to_server[c]).v
             cs == colschemas[c]
             m == typed[c]
             w == CommandIs(cs, m)
             bad == \E schema \in Target(cmd) : ReadsOutside(schema, cmd) \/ KeyRefused(schema, cmd)
             out == Execute(db, Stored(cmd))
  <1>1. /\ server = "up" /\ Ok(Read(Commands, to_server[c])) /\ drift' = (drift \/ Stale(c, cmd))
        /\ UNCHANGED <<at, step, typed, schemas, colschemas, stream>>
    BY DEF Serve, cli_vars
  <1>2. /\ bad => /\ server' \in {"aborted", "undefined"} /\ to_server' = [d \in Client |-> <<>>]
                  /\ UNCHANGED <<db, to_client>>
        /\ ~bad => /\ db' = out.db /\ server' = server
                   /\ to_client' = [to_client EXCEPT ![c] = to_client[c] \o Write(Responses, out.res)]
                   /\ to_server' = [to_server EXCEPT ![c] = Read(Commands, to_server[c]).c]
    <2> HIDE DEF out
    <2> QED
      BY DEF Serve, out
  <1>3. Domains /\ ServerOK /\ \A d \in Client : SessionOK(d)
    BY DEF IInv
  <1>4. LocalOK(at[c], server, drift, cs, m, to_server[c], to_client[c], stream[c])
    BY <1>3 DEF SessionOK
  <1>5. at[c] = "waiting" /\ Asked(server, cs, m, to_server[c], to_client[c], stream[c])
    <2>1. to_server[c] # <<>>
      BY <1>1, NothingRead
    <2> QED
      BY <1>1, <1>4, <2>1 DEF LocalOK, Quiet, Answered
  <1>6. CommandOK(cs, m) /\ to_server[c] = Write(Commands, w) /\ to_client[c] = <<>> /\ Empty(stream[c])
    BY <1>5 DEF Asked
  <1>7. Read(Commands, to_server[c]) = Got(OnWire(w), <<>>)
    <2>1. PICK i : IsMessage(Commands, i, w)
      BY <1>6 DEF CommandOK
    <2> HIDE DEF w
    <2> QED
      BY <1>6, <2>1, TheLists, MessageIs
  <1>8. cmd = OnWire(w) /\ Read(Commands, to_server[c]).c = <<>>
    BY <1>7, Results
  <1>9. ServedOK(cs, m, cmd)
    BY <1>6, <1>8 DEF CommandOK
  <1> DEFINE drf == drift \/ Stale(c, cmd)
  <1> HIDE DEF cmd, w
  <1>10. DbOK(db, drf) /\ DbOK(db, drift) /\ MapOK(cs) /\ drf \in BOOLEAN /\ (drift => drf) /\ drift' = drf
         /\ drf = (drift \/ Stale(c, cmd))
    <2>1. DbOK(db, drift) /\ MapOK(cs)
      BY <1>3, <1>4 DEF ServerOK, LocalOK
    <2>2. drf \in BOOLEAN /\ (drift => drf) /\ drift' = drf /\ drf = (drift \/ Stale(c, cmd))
      BY <1>1, <1>3 DEF Stale
    <2> HIDE DEF drf
    <2> QED
      BY <2>1, <2>2, DbDrifts
  <1> HIDE DEF drf
  <1>11. ASSUME NEW d \in Client
         PROVE  LocalOK(at[d], server, drf, colschemas[d], typed[d], to_server[d], to_client[d], stream[d])
    <2>1. LocalOK(at[d], server, drift, colschemas[d], typed[d], to_server[d], to_client[d], stream[d])
      BY <1>3 DEF SessionOK
    <2> QED
      BY <1>10, <2>1, LocalDrifts
  <1>12. CASE bad
    <2>1. drf
      BY <1>9, <1>10, <1>12, FreshCommand
    <2>2. /\ server' \in {"aborted", "undefined"} /\ to_server' = [d \in Client |-> <<>>]
          /\ UNCHANGED <<db, to_client>>
      BY <1>2, <1>12
    <2> HIDE DEF bad
    <2>3. Domains'
      BY <1>1, <1>3, <2>2 DEF Domains
    <2>4. ServerOK'
      BY <1>10, <2>1, <2>2 DEF ServerOK
    <2>5. ASSUME NEW d \in Client PROVE SessionOK(d)'
      <3> DEFINE k == Len(to_client[d])
      <3>1. to_client[d] \in Bytes
        BY <1>11 DEF LocalOK
      <3>2. k \in 0..Len(to_client[d]) /\ SubSeq(to_client[d], 1, k) = to_client[d]
        BY <3>1 DEF Bytes
      <3> HIDE DEF k
      <3>3. server' # "up"
        BY <2>2
      <3>4. LocalOK(at[d], server', drf, colschemas[d], typed[d], <<>>, SubSeq(to_client[d], 1, k), stream[d])
        BY <1>11, <3>2, <3>3, LocalStops
      <3>5. to_server'[d] = <<>> /\ to_client'[d] = to_client[d]
        BY <2>2
      <3> QED
        BY <1>1, <1>3, <1>10, <3>2, <3>4, <3>5 DEF SessionOK
    <2> QED
      BY <2>3, <2>4, <2>5 DEF IInv
  <1>13. CASE ~bad
    <2>1. /\ db' = out.db /\ server' = server
          /\ to_client' = [to_client EXCEPT ![c] = to_client[c] \o Write(Responses, out.res)]
          /\ to_server' = [to_server EXCEPT ![c] = <<>>]
      BY <1>2, <1>8, <1>13
    <2>2. \A schema \in Target(cmd) : ~ReadsOutside(schema, cmd)
      BY <1>13
    <2> HIDE DEF bad
    <2>3. Storable(db, drf, Stored(cmd)) /\ Stored(cmd).op = cmd.op /\ (cmd.op # "Put" => Stored(cmd) = cmd)
      BY <1>9, <1>10, <2>2, StoredCommand
    <2>4. /\ DbOK(out.db, drf) /\ ResOK(out.res)
          /\ out.res.op = "Found" =>
               /\ Stored(cmd).op = "Get" /\ Stored(cmd).coll_name \in DOMAIN db.colls
               /\ ~drf => Inside(db.colls[Stored(cmd).coll_name].schema, out.res.value)
      BY <1>10, <2>3, Executed
    <2> HIDE DEF out
    <2>5. ~drf /\ out.res.op = "Found" => Inside(cs[m.coll_name], out.res.value)
      <3> SUFFICES ASSUME ~drf, out.res.op = "Found" PROVE Inside(cs[m.coll_name], out.res.value)
        OBVIOUS
      <3>1. cmd.op = "Get" /\ Stored(cmd) = cmd
        BY <2>3, <2>4
      <3>2. cmd.coll_name \in DOMAIN db.colls /\ Inside(db.colls[cmd.coll_name].schema, out.res.value)
        BY <2>4, <3>1
      <3>3. cs[cmd.coll_name] = db.colls[cmd.coll_name].schema
        BY <1>10, <3>1, <3>2 DEF Stale
      <3>4. cmd.coll_name = m.coll_name
        BY <1>9, <3>1 DEF ServedOK, OnDocuments
      <3> QED
        BY <3>2, <3>3, <3>4
    <2> DEFINE x == Write(Responses, out.res)
    <2>6. x \in Bytes
      <3>1. PICK i : IsMessage(Responses, i, out.res)
        BY <2>4 DEF ResOK
      <3> QED
        BY <3>1, TheLists, MessageIs
    <2>7. to_client'[c] = x /\ to_server'[c] = <<>>
      <3>1. <<>> \o x = x
        BY <2>6, ByteSeqs
      <3> HIDE DEF x
      <3> QED
        BY <1>3, <1>6, <2>1, <3>1 DEF Domains, x
    <2>8. Coming(server, out.res, x, stream[c])
      <3>1. Data(stream[c]) = <<>>
        BY <1>4, <1>6, EmptyHolds DEF LocalOK
      <3>2. (<<>> \o x) \o <<>> = x /\ <<>> \in Bytes
        BY <2>6, ByteSeqs
      <3> QED
        BY <3>1, <3>2 DEF Coming
    <2> HIDE DEF x
    <2>9. Answered(server, drf, cs, m, <<>>, x, stream[c])
      BY <2>4, <2>5, <2>8 DEF Answered
    <2>10. LocalOK(at[c], server, drf, cs, m, <<>>, x, stream[c])
      <3>1. <<>> \in Bytes
        BY ByteSeqs
      <3> QED
        BY <1>1, <1>4, <1>5, <2>6, <2>9, <3>1 DEF LocalOK
    <2>11. Domains'
      BY <1>1, <1>3, <2>1 DEF Domains
    <2>12. ServerOK'
      BY <1>3, <1>10, <1>1, <2>1, <2>4 DEF ServerOK
    <2>13. ASSUME NEW d \in Client PROVE SessionOK(d)'
      <3>1. CASE d = c
        BY <1>1, <1>3, <1>10, <2>1, <2>7, <2>10, <3>1 DEF SessionOK
      <3>2. CASE d # c
        <4>1. to_client'[d] = to_client[d] /\ to_server'[d] = to_server[d]
          BY <1>3, <2>1, <3>2 DEF Domains
        <4> QED
          BY <1>1, <1>3, <1>10, <1>11, <2>1, <4>1 DEF SessionOK
      <3> QED
        BY <3>1, <3>2
    <2> QED
      BY <2>11, <2>12, <2>13 DEF IInv
  <1> QED
    BY <1>12, <1>13

\* Every step preserves the invariant, as long as lengths can be counted.
LEMMA NextOK == IInv /\ Counted /\ [Next]_vars => IInv'
  <1> SUFFICES ASSUME IInv, Counted, [Next]_vars PROVE IInv'
    OBVIOUS
  <1>1. CASE \E c \in Client : Enter(c)
    BY <1>1, EnterOK
  <1>2. CASE \E c \in Client : EnterUncached(c)
    BY <1>2, EnterUncachedOK
  <1>3. CASE \E c \in Client : Recv(c)
    BY <1>3, RecvOK
  <1>4. CASE \E c \in Client : RecvEnd(c)
    BY <1>4, RecvEndOK
  <1>5. CASE \E c \in Client : Reset(c)
    BY <1>5, ResetOK
  <1>6. CASE \E c \in Client : Serve(c)
    BY <1>6, ServeOK
  <1>7. CASE End
    BY <1>7, EndOK
  <1>8. CASE UNCHANGED vars
    BY <1>8 DEF vars, cli_vars, IInv, Domains, ServerOK, SessionOK
  <1> QED
    BY <1>1, <1>2, <1>3, <1>4, <1>5, <1>6, <1>7, <1>8 DEF Next

LEMMA Invariant == Spec /\ []Counted => []IInv
  BY InitOK, NextOK, PTL DEF Spec

-----------------------------------------------------------------------------
(* What follows from it. *)

\* StreamBuf's books agree with its bytes whatever is received in whatever parts:
\* consume never takes more than there is, and a used up buffer is forgotten.
THEOREM SessionTypes == Spec /\ []Counted => []TypeOK
  <1>1. IInv => TypeOK
    BY DEF IInv, ServerOK, SessionOK, LocalOK, IsStream, TypeOK
  <1> QED
    BY <1>1, Invariant, PTL

\* No response, and no part of one, is left over when the CLI asks for a command
\* (assert(stream.empty()) in main.cpp), so the next response is the next command's.
THEOREM PromptIsClean == Spec /\ []Counted => []PromptClean
  <1>1. IInv => PromptClean
    BY DEF IInv, SessionOK, LocalOK, Quiet, PromptClean
  <1> QED
    BY <1>1, Invariant, PTL

\* Unless a client used a collection by another schema than the collection's, the
\* server copies and searches only inside what it was sent, its assertion about the
\* length of a key holds, and a CLI prints only from inside a document.
THEOREM DocumentsStayInside == Spec /\ []Counted => []DocumentsFit
  <1>1. IInv => DocumentsFit
    BY DEF IInv, ServerOK, SessionOK, LocalOK, DocumentsFit
  <1> QED
    BY <1>1, Invariant, PTL

\* While the server is up, every command and response on the wire is read exactly
\* as it was meant, ends where it ends, and no part of it is taken for a message.
THEOREM WireIsFaithful == Spec /\ []Counted => []WireFaithful
  <1>1. IInv => WireFaithful
    <2> SUFFICES ASSUME IInv, server = "up", NEW c \in Client, NEW d \in Client
                 PROVE  /\ to_server[c] # <<>> =>
                             /\ Delimited(Commands, to_server[c], to_server[d])
                             /\ Read(Commands, to_server[c]).v = OnWire(Command(c, typed[c]))
                        /\ to_client[c] # <<>> /\ Empty(stream[c]) =>
                             Delimited(Responses, to_client[c], to_client[d])
      BY DEF WireFaithful
    <2>1. /\ LocalOK(at[c], server, drift, colschemas[c], typed[c], to_server[c], to_client[c], stream[c])
          /\ to_server[d] \in Bytes /\ to_client[d] \in Bytes /\ to_client[c] \in Bytes /\ IsStream(stream[c])
      BY DEF IInv, SessionOK, LocalOK
    <2>2. ASSUME to_server[c] # <<>>
          PROVE  /\ Delimited(Commands, to_server[c], to_server[d])
                 /\ Read(Commands, to_server[c]).v = OnWire(Command(c, typed[c]))
      <3> DEFINE w == CommandIs(colschemas[c], typed[c])
      <3>1. Asked(server, colschemas[c], typed[c], to_server[c], to_client[c], stream[c])
        BY <2>1, <2>2 DEF LocalOK, Quiet, Answered
      <3>2. to_server[c] = Write(Commands, w) /\ CommandOK(colschemas[c], typed[c])
        BY <3>1 DEF Asked
      <3>3. PICK i : IsMessage(Commands, i, w)
        BY <3>2 DEF CommandOK
      <3>4. Command(c, typed[c]) = w
        BY DEF Command, CommandIs
      <3> HIDE DEF w
      <3>5. Delimited(Commands, to_server[c], to_server[d])
        BY <2>1, <3>2, <3>3, TheLists, MessageIs
      <3>6. Read(Commands, to_server[c]) = Got(OnWire(w), <<>>)
        BY <3>2, <3>3, TheLists, MessageIs
      <3> QED
        BY <3>4, <3>5, <3>6, Results
    <2>3. ASSUME to_client[c] # <<>>, Empty(stream[c])
          PROVE  Delimited(Responses, to_client[c], to_client[d])
      <3>1. Answered(server, drift, colschemas[c], typed[c], to_server[c], to_client[c], stream[c])
        BY <2>1, <2>3 DEF LocalOK, Quiet, Asked
      <3>2. PICK res : ResOK(res) /\ Coming(server, res, to_client[c], stream[c])
        BY <3>1 DEF Answered
      <3>3. Data(stream[c]) = <<>>
        BY <2>1, <2>3, EmptyHolds
      <3>4. (<<>> \o to_client[c]) \o <<>> = to_client[c]
        BY <2>1, ByteSeqs
      <3>5. to_client[c] = Write(Responses, res)
        BY <3>2, <3>3, <3>4 DEF Coming
      <3>6. PICK i : IsMessage(Responses, i, res)
        BY <3>2 DEF ResOK
      <3> QED
        BY <2>1, <3>5, <3>6, TheLists, MessageIs
    <2> QED
      BY <2>2, <2>3
  <1> QED
    BY <1>1, Invariant, PTL
====
