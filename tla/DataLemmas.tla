----------------------------- MODULE DataLemmas ------------------------------
(***************************************************************************)
(* What the data the modules are made of obeys: natural numbers, sequences *)
(* (of any elements, whose set need not be known), and the fields of a     *)
(* document (Schema).                                                      *)
(*                                                                         *)
(* Offset is defined by recursion over the fields.  That its equations     *)
(* have a solution and only one, and what is proved of every offset, is    *)
(* argued by the least field for which it would not be so.                 *)
(***************************************************************************)
EXTENDS Schema, SequencesExt, SequenceTheorems, WellFoundedInduction, TLAPS

-----------------------------------------------------------------------------
(* Of natural numbers, and of the elements of a set S. *)

\* A set of natural numbers has a least element.
LEMMA LeastOf ==
    ASSUME NEW T, T \subseteq Nat, T # {}
    PROVE  \E d \in T : \A e \in T : d <= e
  <1>1. PICK d \in T : \A e \in T : ~(<<e, d>> \in OpToRel(<, Nat))
    BY NatLessThanWellFounded, WFMin
  <1>2. \A e \in T : <<e, d>> \in Nat \X Nat
    OBVIOUS
  <1>3. ASSUME NEW e \in T PROVE d <= e
    <2>1. <<e, d>> \notin OpToRel(<, Nat)
      BY <1>1
    <2> QED
      BY <1>2, <2>1 DEF OpToRel
  <1> QED
    BY <1>3

\* No element of it is less.
LEMMA NoneBefore ==
    ASSUME NEW T, T \subseteq Nat, T # {}
    PROVE  \E d \in T : \A e \in T : ~(e < d)
  <1>1. PICK d \in T : \A e \in T : d <= e
    BY LeastOf
  <1>2. \A e \in T : ~(e < d)
    BY <1>1
  <1> QED
    BY <1>2

\* A function on 1..n is a sequence of length n.
LEMMA FunctionIsSeq ==
    ASSUME NEW S, NEW n \in Nat, NEW f \in [1..n -> S]
    PROVE  f \in Seq(S) /\ Len(f) = n
  <1>1. f \in Seq(S)
    BY SeqDef
  <1>2. 1..Len(f) = 1..n /\ Len(f) \in Nat
    BY <1>1, LenProperties
  <1> QED
    BY <1>1, <1>2

\* What RemoveAt leaves, and where.
LEMMA RemoveAtProperties ==
    ASSUME NEW S, NEW s \in Seq(S), NEW j \in 1..Len(s)
    PROVE  /\ RemoveAt(s, j) \in Seq(S)
           /\ Len(RemoveAt(s, j)) = Len(s) - 1
           /\ \A k \in 1..(Len(s) - 1) :
                RemoveAt(s, j)[k] = IF k < j THEN s[k] ELSE s[k + 1]
  <1> DEFINE a == SubSeq(s, 1, j - 1)
             b == SubSeq(s, j + 1, Len(s))
  <1>1. Len(s) \in Nat /\ \A i \in 1..Len(s) : s[i] \in S
    BY LenProperties, ElementOfSeq
  <1>2. /\ a \in Seq(S) /\ Len(a) = j - 1
        /\ \A i \in 1..(j - 1) : a[i] = s[i]
    <2>1. \A i \in 1..(j - 1) : s[i] \in S
      BY <1>1
    <2>2. /\ SubSeq(s, 1, j - 1) \in Seq(S)
          /\ Len(SubSeq(s, 1, j - 1)) = IF 1 <= j - 1 THEN (j - 1) - 1 + 1 ELSE 0
          /\ \A i \in 1..((j - 1) - 1 + 1) : SubSeq(s, 1, j - 1)[i] = s[1 + i - 1]
      BY <1>1, <2>1, SubSeqProperties
    <2>3. (j - 1) - 1 + 1 = j - 1 /\ \A i \in 1..(j - 1) : 1 + i - 1 = i
      BY <1>1
    <2> QED
      BY <1>1, <2>2, <2>3
  <1>3. /\ b \in Seq(S) /\ Len(b) = Len(s) - j
        /\ \A i \in 1..(Len(s) - j) : b[i] = s[j + i]
    <2>1. \A i \in (j + 1)..Len(s) : s[i] \in S
      BY <1>1
    <2>2. /\ SubSeq(s, j + 1, Len(s)) \in Seq(S)
          /\ Len(SubSeq(s, j + 1, Len(s))) =
               IF j + 1 <= Len(s) THEN Len(s) - (j + 1) + 1 ELSE 0
          /\ \A i \in 1..(Len(s) - (j + 1) + 1) :
               SubSeq(s, j + 1, Len(s))[i] = s[(j + 1) + i - 1]
      BY <1>1, <2>1, SubSeqProperties
    <2>3. Len(s) - (j + 1) + 1 = Len(s) - j
      BY <1>1
    <2>4. Len(b) = Len(s) - j
      BY <1>1, <2>2
    <2>5. ASSUME NEW i \in 1..(Len(s) - j) PROVE b[i] = s[j + i]
      <3>1. (j + 1) + i - 1 = j + i
        BY <1>1
      <3> QED
        BY <2>2, <2>3, <3>1
    <2> QED
      BY <2>2, <2>4, <2>5
  <1> HIDE DEF a, b
  <1>4. /\ a \o b \in Seq(S) /\ Len(a \o b) = Len(a) + Len(b)
        /\ \A i \in 1..(Len(a) + Len(b)) :
             (a \o b)[i] = IF i <= Len(a) THEN a[i] ELSE b[i - Len(a)]
    BY <1>2, <1>3, ConcatProperties
  <1>5. Len(a \o b) = Len(s) - 1
    BY <1>1, <1>2, <1>3, <1>4
  <1>6. ASSUME NEW k \in 1..(Len(s) - 1)
        PROVE  (a \o b)[k] = IF k < j THEN s[k] ELSE s[k + 1]
    <2>1. (a \o b)[k] = IF k <= j - 1 THEN a[k] ELSE b[k - (j - 1)]
      BY <1>1, <1>2, <1>3, <1>4
    <2>2. CASE k < j
      BY <1>1, <1>2, <2>1, <2>2
    <2>3. CASE ~(k < j)
      <3>1. k - (j - 1) \in 1..(Len(s) - j) /\ j + (k - (j - 1)) = k + 1
        BY <1>1, <2>3
      <3> QED
        BY <1>1, <1>3, <2>1, <2>3, <3>1
    <2> QED
      BY <2>2, <2>3
  <1> QED
    BY <1>4, <1>5, <1>6 DEF RemoveAt, a, b

-----------------------------------------------------------------------------
(* Sequences of whatever it is. *)

IsSeq(s) == s \in Seq(Range(s))

LEMMA SeqIsSeq ==
    ASSUME NEW S, NEW s \in Seq(S)
    PROVE  IsSeq(s)
  BY SeqOfRange DEF IsSeq

LEMMA SeqShape ==
    ASSUME NEW s, IsSeq(s)
    PROVE  /\ Len(s) \in Nat /\ DOMAIN s = 1..Len(s)
           /\ \A i \in 1..Len(s) : s[i] \in Range(s)
           /\ \A x \in Range(s) : \E i \in 1..Len(s) : x = s[i]
           /\ s = <<>> <=> Len(s) = 0
  <1>1. /\ Len(s) \in Nat /\ DOMAIN s = 1..Len(s)
        /\ s = <<>> <=> Len(s) = 0
    BY LenProperties, EmptySeq DEF IsSeq
  <1> QED
    BY <1>1 DEF Range

LEMMA SeqOver ==
    ASSUME NEW s, IsSeq(s), NEW S, \A i \in 1..Len(s) : s[i] \in S
    PROVE  s \in Seq(S)
  <1>1. Range(s) \subseteq S
    BY SeqShape
  <1>2. s \in Seq(Range(s))
    BY DEF IsSeq
  <1> QED
    BY <1>1, <1>2, SeqMonotonic

LEMMA FunctionSeq ==
    ASSUME NEW n \in Nat, NEW f, f = [i \in 1..n |-> f[i]]
    PROVE  IsSeq(f) /\ Len(f) = n
  <1>1. f \in [1..n -> Range(f)]
    BY DEF Range
  <1> QED
    BY <1>1, FunctionIsSeq DEF IsSeq

LEMMA EmptyShape == IsSeq(<<>>) /\ Len(<<>>) = 0 /\ Range(<<>>) = {} /\ IsInjective(<<>>)
  BY EmptySeq DEF IsSeq, Range, IsInjective

LEMMA SameSeq ==
    ASSUME NEW s, NEW t, IsSeq(s), IsSeq(t), Len(s) = Len(t),
           \A i \in 1..Len(s) : s[i] = t[i]
    PROVE  s = t
  <1>1. s \in Seq(Range(s)) /\ t \in Seq(Range(s))
    <2>1. \A i \in 1..Len(t) : t[i] \in Range(s)
      BY SeqShape
    <2>2. t \in Seq(Range(s))
      BY <2>1, SeqOver
    <2> QED
      BY <2>2 DEF IsSeq
  <1> QED
    BY <1>1, SeqEqual

LEMMA ConcatSeq ==
    ASSUME NEW s, NEW t, IsSeq(s), IsSeq(t)
    PROVE  /\ IsSeq(s \o t) /\ Len(s \o t) = Len(s) + Len(t)
           /\ \A i \in 1..(Len(s) + Len(t)) :
                (s \o t)[i] = IF i <= Len(s) THEN s[i] ELSE t[i - Len(s)]
           /\ \A i \in 1..Len(s) : (s \o t)[i] = s[i]
           /\ \A i \in 1..Len(t) : (s \o t)[Len(s) + i] = t[i]
           /\ Range(s \o t) = Range(s) \cup Range(t)
  <1> DEFINE S == Range(s) \cup Range(t)
  <1>1. s \in Seq(S) /\ t \in Seq(S)
    BY SeqMonotonic DEF IsSeq
  <1>2. Len(s) \in Nat /\ Len(t) \in Nat
    BY SeqShape
  <1> HIDE DEF S
  <1>3. /\ s \o t \in Seq(S) /\ Len(s \o t) = Len(s) + Len(t)
        /\ \A i \in 1..(Len(s) + Len(t)) :
             (s \o t)[i] = IF i <= Len(s) THEN s[i] ELSE t[i - Len(s)]
    BY <1>1, ConcatProperties
  <1>4. \A i \in 1..Len(s) : i \in 1..(Len(s) + Len(t)) /\ i <= Len(s)
    BY <1>2
  <1>5. \A i \in 1..Len(t) : /\ Len(s) + i \in 1..(Len(s) + Len(t)) /\ ~(Len(s) + i <= Len(s))
                             /\ (Len(s) + i) - Len(s) = i
    BY <1>2
  <1>6. Range(s \o t) = Range(s) \cup Range(t)
    BY <1>1, RangeConcatenation
  <1> QED
    BY <1>3, <1>4, <1>5, <1>6, SeqIsSeq

LEMMA ConcatEmpty ==
    ASSUME NEW s, IsSeq(s)
    PROVE  s \o <<>> = s /\ <<>> \o s = s
  BY ConcatEmptySeq DEF IsSeq

LEMMA ConcatTwice ==
    ASSUME NEW s, NEW t, NEW u, IsSeq(s), IsSeq(t), IsSeq(u)
    PROVE  (s \o t) \o u = s \o (t \o u)
  <1> DEFINE S == Range(s) \cup Range(t) \cup Range(u)
  <1>1. s \in Seq(S) /\ t \in Seq(S) /\ u \in Seq(S)
    BY SeqMonotonic DEF IsSeq
  <1> QED
    BY <1>1, ConcatAssociative

LEMMA AppendSeq ==
    ASSUME NEW s, NEW x, IsSeq(s)
    PROVE  /\ IsSeq(Append(s, x)) /\ Len(Append(s, x)) = Len(s) + 1
           /\ \A i \in 1..Len(s) : Append(s, x)[i] = s[i]
           /\ Append(s, x)[Len(s) + 1] = x
           /\ Range(Append(s, x)) = Range(s) \cup {x}
           /\ Append(s, x) = s \o <<x>>
  <1> DEFINE S == Range(s) \cup {x}
  <1>1. s \in Seq(S) /\ x \in S
    BY SeqMonotonic DEF IsSeq
  <1>2. Len(s) \in Nat
    BY SeqShape
  <1> HIDE DEF S
  <1>3. /\ Append(s, x) \in Seq(S) /\ Len(Append(s, x)) = Len(s) + 1
        /\ \A i \in 1..Len(s) : Append(s, x)[i] = s[i]
        /\ Append(s, x)[Len(s) + 1] = x
        /\ Append(s, x) = s \o <<x>>
    BY <1>1, AppendProperties, AppendIsConcat
  <1>4. IsSeq(Append(s, x))
    BY <1>3, SeqIsSeq
  <1>5. 1..(Len(s) + 1) = 1..Len(s) \cup {Len(s) + 1}
    BY <1>2
  <1>6. Range(Append(s, x)) = Range(s) \cup {x}
    <2>1. DOMAIN Append(s, x) = 1..(Len(s) + 1) /\ DOMAIN s = 1..Len(s)
      BY <1>3, <1>4, SeqShape
    <2> QED
      BY <1>3, <1>5, <2>1 DEF Range
  <1> QED
    BY <1>3, <1>4, <1>6

\* r is s with x appended.
Appended(r, s, x) ==
    /\ IsSeq(r) /\ Len(s) \in Nat /\ Len(r) = Len(s) + 1
    /\ \A i \in 1..Len(s) : r[i] = s[i]
    /\ r[Len(s) + 1] = x /\ Range(r) = Range(s) \cup {x}
LEMMA AppendIs ==
    ASSUME NEW s, NEW x, NEW r, IsSeq(s), r = Append(s, x)
    PROVE  Appended(r, s, x)
  <1>1. /\ IsSeq(Append(s, x)) /\ Len(Append(s, x)) = Len(s) + 1
        /\ \A i \in 1..Len(s) : Append(s, x)[i] = s[i]
        /\ Append(s, x)[Len(s) + 1] = x
        /\ Range(Append(s, x)) = Range(s) \cup {x}
    BY AppendSeq
  <1>2. Len(s) \in Nat
    BY SeqShape
  <1> QED
    BY <1>1, <1>2 DEF Appended

LEMMA OneSeq ==
    ASSUME NEW x
    PROVE  IsSeq(<<x>>) /\ Len(<<x>>) = 1 /\ <<x>>[1] = x /\ Range(<<x>>) = {x}
  <1>1. <<x>> = Append(<<>>, x)
    OBVIOUS
  <1>2. /\ IsSeq(Append(<<>>, x)) /\ Len(Append(<<>>, x)) = Len(<<>>) + 1
        /\ Range(Append(<<>>, x)) = Range(<<>>) \cup {x}
    BY EmptyShape, AppendSeq
  <1> QED
    BY <1>1, <1>2, EmptyShape

LEMMA SubSeqSeq ==
    ASSUME NEW s, IsSeq(s), NEW m \in 1..(Len(s) + 1), NEW n \in 0..Len(s)
    PROVE  /\ IsSeq(SubSeq(s, m, n))
           /\ Len(SubSeq(s, m, n)) = IF m <= n THEN n - m + 1 ELSE 0
           /\ \A i \in 1..(n - m + 1) : SubSeq(s, m, n)[i] = s[m + i - 1]
  <1>1. Len(s) \in Nat /\ \A i \in m..n : s[i] \in Range(s)
    BY SeqShape
  <1>2. /\ SubSeq(s, m, n) \in Seq(Range(s))
        /\ Len(SubSeq(s, m, n)) = IF m <= n THEN n - m + 1 ELSE 0
        /\ \A i \in 1..(n - m + 1) : SubSeq(s, m, n)[i] = s[m + i - 1]
    <2>1. m \in Int /\ n \in Int
      BY <1>1
    <2> QED
      BY <1>1, <2>1, SubSeqProperties
  <1> QED
    BY <1>2, SeqIsSeq

LEMMA HeadTail ==
    ASSUME NEW s, IsSeq(s), s # <<>>
    PROVE  /\ IsSeq(Tail(s)) /\ Len(Tail(s)) = Len(s) - 1 /\ Len(s) > 0
           /\ Head(s) = s[1]
           /\ \A i \in 1..(Len(s) - 1) : Tail(s)[i] = s[i + 1]
           /\ Head(s) \in Range(s) /\ Range(s) = {Head(s)} \cup Range(Tail(s))
  <1>1. Len(s) \in Nat /\ Len(s) # 0
    BY SeqShape
  <1>2. /\ IsSeq(Tail(s)) /\ Len(Tail(s)) = Len(s) - 1 /\ Head(s) \in Range(s)
        /\ \A i \in 1..(Len(s) - 1) : Tail(s)[i] = s[i + 1]
    BY <1>1, HeadTailProperties, SeqIsSeq DEF IsSeq
  <1>3. Head(s) = s[1]
    BY DEF Head
  <1>4. DOMAIN s = 1..Len(s) /\ DOMAIN Tail(s) = 1..(Len(s) - 1)
    BY <1>2, SeqShape
  <1>5. \A i \in 1..(Len(s) - 1) : i + 1 \in 1..Len(s)
    BY <1>1
  <1>6. Range(s) = {Head(s)} \cup Range(Tail(s))
    <2>1. ASSUME NEW i \in 1..Len(s) PROVE s[i] \in {Head(s)} \cup Range(Tail(s))
      <3>1. i = 1 \/ (i - 1 \in 1..(Len(s) - 1) /\ (i - 1) + 1 = i)
        BY <1>1
      <3> QED
        BY <1>2, <1>3, <1>4, <3>1 DEF Range
    <2>2. ASSUME NEW i \in 1..(Len(s) - 1) PROVE Tail(s)[i] \in Range(s)
      BY <1>2, <1>4, <1>5 DEF Range
    <2> QED
      BY <1>2, <1>4, <2>1, <2>2 DEF Range
  <1> QED
    BY <1>1, <1>2, <1>3, <1>6

LEMMA RemoveSeq ==
    ASSUME NEW s, IsSeq(s), NEW j \in 1..Len(s)
    PROVE  /\ IsSeq(RemoveAt(s, j)) /\ Len(RemoveAt(s, j)) = Len(s) - 1
           /\ \A i \in 1..(Len(s) - 1) :
                RemoveAt(s, j)[i] = IF i < j THEN s[i] ELSE s[i + 1]
           /\ Range(s) = Range(RemoveAt(s, j)) \cup {s[j]}
           /\ IsInjective(s) => IsInjective(RemoveAt(s, j)) /\ s[j] \notin Range(RemoveAt(s, j))
  <1> DEFINE r == RemoveAt(s, j)
             at(k) == IF k < j THEN k ELSE k + 1
  <1>1. Len(s) \in Nat /\ DOMAIN s = 1..Len(s) /\ Range(s) = {s[i] : i \in 1..Len(s)}
    BY SeqShape DEF Range
  <1>2. /\ IsSeq(r) /\ Len(r) = Len(s) - 1
        /\ \A i \in 1..(Len(s) - 1) : r[i] = IF i < j THEN s[i] ELSE s[i + 1]
    BY RemoveAtProperties, SeqIsSeq DEF IsSeq
  <1> HIDE DEF r
  <1>3. DOMAIN r = 1..(Len(s) - 1) /\ Range(r) = {r[i] : i \in 1..(Len(s) - 1)}
    BY <1>2, SeqShape DEF Range
  <1>4. \A k \in 1..(Len(s) - 1) : at(k) \in 1..Len(s) /\ at(k) # j /\ r[k] = s[at(k)]
    BY <1>1, <1>2
  <1>5. \A k, l \in 1..(Len(s) - 1) : at(k) = at(l) => k = l
    BY <1>1
  <1>6. \A l \in 1..Len(s) : l # j => \E k \in 1..(Len(s) - 1) : at(k) = l
    <2> SUFFICES ASSUME NEW l \in 1..Len(s), l # j
                 PROVE  \E k \in 1..(Len(s) - 1) : at(k) = l
      OBVIOUS
    <2>1. CASE l < j
      <3>1. l \in 1..(Len(s) - 1) /\ at(l) = l
        BY <1>1, <2>1
      <3> QED
        BY <3>1
    <2>2. CASE ~(l < j)
      <3>1. l - 1 \in 1..(Len(s) - 1) /\ at(l - 1) = l
        BY <1>1, <2>2
      <3> QED
        BY <3>1
    <2> QED
      BY <2>1, <2>2
  <1> HIDE DEF at
  <1>7. Range(s) = Range(r) \cup {s[j]}
    <2>1. ASSUME NEW x \in Range(s), x # s[j] PROVE x \in Range(r)
      <3>1. PICK l \in 1..Len(s) : x = s[l]
        BY <1>1
      <3>2. PICK k \in 1..(Len(s) - 1) : at(k) = l
        BY <1>6, <2>1, <3>1
      <3> QED
        BY <1>3, <1>4, <3>1, <3>2
    <2>2. Range(r) \subseteq Range(s)
      BY <1>1, <1>3, <1>4
    <2> QED
      BY <1>1, <2>1, <2>2
  <1>8. ASSUME IsInjective(s)
        PROVE  IsInjective(r) /\ s[j] \notin Range(r)
    <2>1. \A k, l \in 1..Len(s) : s[k] = s[l] => k = l
      BY <1>1, <1>8 DEF IsInjective
    <2>2. \A k, l \in 1..(Len(s) - 1) : r[k] = r[l] => k = l
      BY <1>4, <1>5, <2>1
    <2> QED
      BY <1>3, <1>4, <2>1, <2>2 DEF IsInjective
  <1> QED
    BY <1>2, <1>7, <1>8 DEF r

\* To take out of the first of two sequences is to take out of both.
LEMMA RemoveConcat ==
    ASSUME NEW s, NEW t, IsSeq(s), IsSeq(t), NEW j \in 1..Len(s)
    PROVE  RemoveAt(s, j) \o t = RemoveAt(s \o t, j)
  <1> DEFINE u == s \o t
             a == RemoveAt(s, j) \o t
             b == RemoveAt(u, j)
  <1>1. Len(s) \in Nat /\ Len(t) \in Nat
    BY SeqShape
  <1>2. /\ IsSeq(u) /\ Len(u) = Len(s) + Len(t)
        /\ \A i \in 1..(Len(s) + Len(t)) : u[i] = IF i <= Len(s) THEN s[i] ELSE t[i - Len(s)]
    BY ConcatSeq
  <1> HIDE DEF u
  <1>3. /\ IsSeq(RemoveAt(s, j)) /\ Len(RemoveAt(s, j)) = Len(s) - 1
        /\ \A i \in 1..(Len(s) - 1) : RemoveAt(s, j)[i] = IF i < j THEN s[i] ELSE s[i + 1]
    BY RemoveSeq
  <1>4. j \in 1..Len(u)
    BY <1>1, <1>2
  <1>5. /\ IsSeq(b) /\ Len(b) = Len(u) - 1
        /\ \A i \in 1..(Len(u) - 1) : b[i] = IF i < j THEN u[i] ELSE u[i + 1]
    <2>1. IsSeq(u)
      BY <1>2
    <2> QED
      BY <1>4, <2>1, RemoveSeq
  <1>6. /\ IsSeq(a) /\ Len(a) = Len(s) - 1 + Len(t)
        /\ \A i \in 1..(Len(s) - 1 + Len(t)) :
             a[i] = IF i <= Len(s) - 1 THEN RemoveAt(s, j)[i] ELSE t[i - (Len(s) - 1)]
    <2> DEFINE r == RemoveAt(s, j)
    <2>1. IsSeq(r) /\ Len(r) = Len(s) - 1
      BY <1>3
    <2> HIDE DEF r
    <2>2. /\ IsSeq(r \o t) /\ Len(r \o t) = Len(r) + Len(t)
          /\ \A i \in 1..(Len(r) + Len(t)) : (r \o t)[i] = IF i <= Len(r) THEN r[i] ELSE t[i - Len(r)]
      BY <2>1, ConcatSeq
    <2> QED
      BY <2>1, <2>2 DEF r
  <1> HIDE DEF a, b
  <1>7. ASSUME NEW i \in 1..Len(a) PROVE a[i] = b[i]
    <2>1. i \in 1..(Len(s) - 1 + Len(t)) /\ i \in 1..(Len(u) - 1) /\ i \in Int
      BY <1>1, <1>2, <1>6
    <2>2. CASE i <= Len(s) - 1
      <3>1. i \in 1..(Len(s) - 1) /\ i \in 1..(Len(s) + Len(t)) /\ i + 1 \in 1..(Len(s) + Len(t))
            /\ i <= Len(s) /\ i + 1 <= Len(s)
        BY <1>1, <2>1, <2>2
      <3>2. u[i] = s[i] /\ u[i + 1] = s[i + 1]
        BY <1>2, <3>1
      <3> QED
        BY <1>3, <1>5, <1>6, <2>1, <2>2, <3>1, <3>2
    <2>3. CASE ~(i <= Len(s) - 1)
      <3>1. i + 1 \in 1..(Len(s) + Len(t)) /\ ~(i + 1 <= Len(s)) /\ ~(i < j)
            /\ (i + 1) - Len(s) = i - (Len(s) - 1)
        BY <1>1, <2>1, <2>3
      <3>2. u[i + 1] = t[i - (Len(s) - 1)]
        BY <1>2, <3>1
      <3> QED
        BY <1>5, <1>6, <2>1, <2>3, <3>1, <3>2
    <2> QED
      BY <2>2, <2>3
  <1>8. Len(a) = Len(b)
    BY <1>1, <1>2, <1>5, <1>6
  <1>9. a = b
    BY <1>5, <1>6, <1>7, <1>8, SameSeq
  <1> QED
    BY <1>9 DEF a, b, u

LEMMA AppendInjectiveSeq ==
    ASSUME NEW s, IsSeq(s), IsInjective(s), NEW x, x \notin Range(s)
    PROVE  IsInjective(Append(s, x))
  <1>1. Len(s) \in Nat /\ DOMAIN s = 1..Len(s) /\ \A i \in 1..Len(s) : s[i] # x
    BY SeqShape
  <1>2. /\ \A i \in 1..Len(s) : Append(s, x)[i] = s[i]
        /\ Append(s, x)[Len(s) + 1] = x
        /\ DOMAIN Append(s, x) = 1..(Len(s) + 1)
    BY AppendSeq, SeqShape
  <1>3. 1..(Len(s) + 1) = 1..Len(s) \cup {Len(s) + 1}
    BY <1>1
  <1> QED
    BY <1>1, <1>2, <1>3 DEF IsInjective

\* The results of the other operators, with all that is known of them.
Joined(r, s, u) ==
    /\ IsSeq(r) /\ Len(s) \in Nat /\ Len(u) \in Nat /\ Len(r) = Len(s) + Len(u)
    /\ \A i \in 1..Len(s) : r[i] = s[i]
    /\ \A i \in 1..Len(u) : r[Len(s) + i] = u[i]
    /\ Range(r) = Range(s) \cup Range(u)
LEMMA ConcatIs ==
    ASSUME NEW s, NEW u, NEW r, IsSeq(s), IsSeq(u), r = s \o u
    PROVE  Joined(r, s, u)
  <1>1. /\ IsSeq(s \o u) /\ Len(s \o u) = Len(s) + Len(u)
        /\ \A i \in 1..Len(s) : (s \o u)[i] = s[i]
        /\ \A i \in 1..Len(u) : (s \o u)[Len(s) + i] = u[i]
        /\ Range(s \o u) = Range(s) \cup Range(u)
    BY ConcatSeq
  <1>2. Len(s) \in Nat /\ Len(u) \in Nat
    BY SeqShape
  <1> QED
    BY <1>1, <1>2 DEF Joined

Without(r, s, j) ==
    /\ IsSeq(r) /\ Len(s) \in Nat /\ Len(r) = Len(s) - 1
    /\ \A i \in 1..(Len(s) - 1) : r[i] = IF i < j THEN s[i] ELSE s[i + 1]
    /\ Range(s) = Range(r) \cup {s[j]}
    /\ IsInjective(s) => IsInjective(r) /\ s[j] \notin Range(r)
LEMMA RemoveIs ==
    ASSUME NEW s, NEW r, IsSeq(s), NEW j \in 1..Len(s), r = RemoveAt(s, j)
    PROVE  Without(r, s, j)
  <1>1. /\ IsSeq(RemoveAt(s, j)) /\ Len(RemoveAt(s, j)) = Len(s) - 1
        /\ \A i \in 1..(Len(s) - 1) :
             RemoveAt(s, j)[i] = IF i < j THEN s[i] ELSE s[i + 1]
        /\ Range(s) = Range(RemoveAt(s, j)) \cup {s[j]}
        /\ IsInjective(s) => IsInjective(RemoveAt(s, j)) /\ s[j] \notin Range(RemoveAt(s, j))
    BY RemoveSeq
  <1>2. Len(s) \in Nat
    BY SeqShape
  <1> QED
    BY <1>1, <1>2 DEF Without

Part(r, s, m, n) ==
    /\ IsSeq(r) /\ Len(s) \in Nat /\ Len(r) = n - m + 1
    /\ \A i \in 1..(n - m + 1) : r[i] = s[m + i - 1]
LEMMA SubSeqIs ==
    ASSUME NEW s, NEW r, IsSeq(s), NEW m \in 1..(Len(s) + 1), NEW n \in (m - 1)..Len(s),
           r = SubSeq(s, m, n)
    PROVE  Part(r, s, m, n)
  <1>1. Len(s) \in Nat
    BY SeqShape
  <1>2. n \in 0..Len(s)
    BY <1>1
  <1>3. /\ IsSeq(SubSeq(s, m, n))
        /\ Len(SubSeq(s, m, n)) = IF m <= n THEN n - m + 1 ELSE 0
        /\ \A i \in 1..(n - m + 1) : SubSeq(s, m, n)[i] = s[m + i - 1]
    BY <1>2, SubSeqSeq
  <1>4. Len(SubSeq(s, m, n)) = n - m + 1
    BY <1>1, <1>3
  <1> QED
    BY <1>1, <1>3, <1>4 DEF Part

Rest(r, s) ==
    /\ IsSeq(r) /\ Len(s) \in Nat \ {0} /\ Len(r) = Len(s) - 1
    /\ \A i \in 1..(Len(s) - 1) : r[i] = s[i + 1]
    /\ Range(s) = {s[1]} \cup Range(r) /\ Head(s) = s[1]
LEMMA TailIs ==
    ASSUME NEW s, NEW r, IsSeq(s), s # <<>>, r = Tail(s)
    PROVE  Rest(r, s)
  <1>1. /\ IsSeq(Tail(s)) /\ Len(Tail(s)) = Len(s) - 1 /\ Len(s) > 0
        /\ Head(s) = s[1]
        /\ \A i \in 1..(Len(s) - 1) : Tail(s)[i] = s[i + 1]
        /\ Range(s) = {Head(s)} \cup Range(Tail(s))
    BY HeadTail
  <1>2. Len(s) \in Nat
    BY SeqShape
  <1> QED
    BY <1>1, <1>2 DEF Rest

-----------------------------------------------------------------------------
(* The offsets of fields. *)

\* What the offsets off of the first n fields satisfy: the equation of Offset.
IsOffsets(off, fs, n) ==
    off = [j \in 1..n |->
             IF j = 1 THEN 0 ELSE Pad(off[j - 1] + fs[j - 1].size, fs[j].align)]

LEMMA OffsetsExist ==
    ASSUME NEW fs, NEW n \in Nat \ {0}
    PROVE  \E off : IsOffsets(off, fs, n)
  <1> DEFINE T == {k \in Nat \ {0} : ~\E off : IsOffsets(off, fs, k)}
  <1>1. SUFFICES ASSUME T # {} PROVE FALSE
    OBVIOUS
  <1>2. PICK k \in T : \A e \in T : ~(e < k)
    BY <1>1, NoneBefore
  <1>3. CASE k = 1
    <2> DEFINE f == [j \in 1..1 |-> 0]
    <2>1. f = [j \in 1..1 |->
                 IF j = 1 THEN 0 ELSE Pad(f[j - 1] + fs[j - 1].size, fs[j].align)]
      OBVIOUS
    <2>2. IsOffsets(f, fs, k)
      BY <1>3, <2>1 DEF IsOffsets
    <2> QED
      BY <2>2
  <1>4. CASE k # 1
    <2>1. k - 1 \in Nat \ {0} /\ k - 1 < k
      BY <1>4
    <2>2. PICK g : IsOffsets(g, fs, k - 1)
      BY <1>2, <2>1
    <2> DEFINE f == [j \in 1..k |-> IF j = k THEN Pad(g[k - 1] + fs[k - 1].size, fs[k].align)
                                            ELSE g[j]]
               F == [j \in 1..k |->
                 IF j = 1 THEN 0 ELSE Pad(f[j - 1] + fs[j - 1].size, fs[j].align)]
    <2>3. ASSUME NEW j \in 1..k PROVE f[j] = F[j]
      <3>1. CASE j = k
        <4>1. j - 1 \in 1..k /\ j - 1 # k
          BY <3>1, <1>4
        <4>2. f[j - 1] = g[k - 1]
          BY <3>1, <4>1
        <4> QED
          BY <3>1, <4>2, <1>4
      <3>2. CASE j # k
        <4>1. j \in 1..(k - 1)
          BY <3>2
        <4>2. g[j] = IF j = 1 THEN 0 ELSE Pad(g[j - 1] + fs[j - 1].size, fs[j].align)
          BY <2>2, <4>1 DEF IsOffsets
        <4>3. j # 1 => j - 1 \in 1..k /\ j - 1 # k
          BY <4>1
        <4>4. j # 1 => f[j - 1] = g[j - 1]
          BY <4>3
        <4> QED
          BY <3>2, <4>2, <4>4
      <3> QED
        BY <3>1, <3>2
    <2>4. f = F
      BY <2>3
    <2>5. IsOffsets(f, fs, k)
      BY <2>4 DEF IsOffsets
    <2> QED
      BY <2>5
  <1> QED
    BY <1>3, <1>4

LEMMA OffsetsAgree ==
    ASSUME NEW fs, NEW n \in Nat, NEW m \in n..(n + 1), NEW f, NEW g,
           IsOffsets(f, fs, n), IsOffsets(g, fs, m)
    PROVE  \A j \in 1..n : f[j] = g[j]
  <1> DEFINE T == {j \in 1..n : f[j] # g[j]}
  <1>1. SUFFICES ASSUME T # {} PROVE FALSE
    OBVIOUS
  <1>2. PICK j \in T : \A e \in T : ~(e < j)
    <2>1. T \subseteq Nat
      OBVIOUS
    <2> QED
      BY <1>1, <2>1, NoneBefore
  <1>3. /\ f[j] = IF j = 1 THEN 0 ELSE Pad(f[j - 1] + fs[j - 1].size, fs[j].align)
        /\ g[j] = IF j = 1 THEN 0 ELSE Pad(g[j - 1] + fs[j - 1].size, fs[j].align)
    <2>1. j \in 1..n /\ j \in 1..m
      OBVIOUS
    <2> QED
      BY <2>1 DEF IsOffsets
  <1>4. j # 1 => j - 1 \in 1..n /\ j - 1 < j
    OBVIOUS
  <1>5. j # 1 => f[j - 1] = g[j - 1]
    BY <1>2, <1>4
  <1> QED
    BY <1>3, <1>5

LEMMA OffsetSolves ==
    ASSUME NEW fs, NEW n \in Nat \ {0}
    PROVE  \E off : IsOffsets(off, fs, n) /\ Offset(fs, n) = off[n]
  <1> DEFINE off == CHOOSE off : off = [j \in 1..n |->
             IF j = 1 THEN 0 ELSE Pad(off[j - 1] + fs[j - 1].size, fs[j].align)]
  <1>1. Offset(fs, n) = off[n]
    BY DEF Offset
  <1>2. \E f : f = [j \in 1..n |->
             IF j = 1 THEN 0 ELSE Pad(f[j - 1] + fs[j - 1].size, fs[j].align)]
    BY OffsetsExist DEF IsOffsets
  <1>3. IsOffsets(off, fs, n)
    BY <1>2 DEF IsOffsets
  <1> QED
    BY <1>1, <1>3

\* The loop of offset(), as a recursion over the fields.
LEMMA OffsetFirst ==
    ASSUME NEW fs
    PROVE  Offset(fs, 1) = 0
  <1>1. PICK off : IsOffsets(off, fs, 1) /\ Offset(fs, 1) = off[1]
    BY OffsetSolves
  <1> QED
    BY <1>1 DEF IsOffsets

LEMMA OffsetNext ==
    ASSUME NEW fs, NEW n \in Nat \ {0}
    PROVE  Offset(fs, n + 1) = Pad(Offset(fs, n) + fs[n].size, fs[n + 1].align)
  <1>1. PICK f : IsOffsets(f, fs, n) /\ Offset(fs, n) = f[n]
    BY OffsetSolves
  <1>2. PICK g : IsOffsets(g, fs, n + 1) /\ Offset(fs, n + 1) = g[n + 1]
    BY OffsetSolves
  <1>3. f[n] = g[n]
    BY <1>1, <1>2, OffsetsAgree
  <1>4. g[n + 1] = Pad(g[n] + fs[n].size, fs[n + 1].align)
    BY <1>2 DEF IsOffsets
  <1> QED
    BY <1>1, <1>2, <1>3, <1>4

-----------------------------------------------------------------------------
(* Padding. *)

\* The next offset is aligned, although it may lie before the end of the field
\* it follows, by less than the alignment; where it is that of C.
LEMMA PadAligns ==
    ASSUME NEW o \in Nat, NEW a \in Alignments
    PROVE  /\ Pad(o, a) \in Nat
           /\ Pad(o, a) % a = 0
           /\ o < Pad(o, a) + a
           /\ o % a = 0 \/ 2 * (o % a) >= a => Pad(o, a) = NextAligned(o, a)
  <1>1. CASE a = 1
    BY <1>1 DEF Pad, NextAligned
  <1>2. CASE a = 2
    BY <1>2 DEF Pad, NextAligned
  <1>3. CASE a = 4
    BY <1>3 DEF Pad, NextAligned
  <1>4. CASE a = 8
    BY <1>4 DEF Pad, NextAligned
  <1> QED
    BY <1>1, <1>2, <1>3, <1>4 DEF Alignments

\* It is not before any multiple of 4 that was reached.
LEMMA PadKeepsFours ==
    ASSUME NEW o \in Nat, NEW a \in Alignments, NEW base \in Nat, base % a = 0,
           NEW h \in Nat, h % 4 = 0, h <= base + o
    PROVE  h <= base + Pad(o, a)
  <1>1. CASE a = 1
    BY <1>1 DEF Pad
  <1>2. CASE a = 2
    BY <1>2 DEF Pad
  <1>3. CASE a = 4
    BY <1>3 DEF Pad
  <1>4. CASE a = 8
    BY <1>4 DEF Pad
  <1> QED
    BY <1>1, <1>2, <1>3, <1>4 DEF Alignments

\* A multiple of an alignment is one of every weaker alignment, and the sum of
\* aligned offsets is aligned.
LEMMA SumAligned ==
    ASSUME NEW a \in Alignments, NEW b \in Alignments, a <= b,
           NEW o \in Nat, NEW p \in Nat, o % a = 0, p % b = 0
    PROVE  (o + p) % a = 0
  <1>1. CASE b = 1
    BY <1>1 DEF Alignments
  <1>2. CASE b = 2
    BY <1>2 DEF Alignments
  <1>3. CASE b = 4
    BY <1>3 DEF Alignments
  <1>4. CASE b = 8
    BY <1>4 DEF Alignments
  <1> QED
    BY <1>1, <1>2, <1>3, <1>4 DEF Alignments

\* What is known of a field.
LEMMA FieldShape ==
    ASSUME NEW fs \in Seq(FieldType), NEW j \in 1..Len(fs)
    PROVE  /\ fs[j].size \in Nat /\ fs[j].align \in Alignments /\ fs[j].align \in Nat
           /\ fs[j].align <= fs[j].size
  <1>1. fs[j] \in FieldType
    OBVIOUS
  <1> QED
    BY <1>1 DEF FieldType, Alignments

\* The alignment of an aggregate is that of one of its fields and no weaker
\* than that of any.
LEMMA AlignmentIsMax ==
    ASSUME NEW fs \in Seq(FieldType), fs # <<>>
    PROVE  /\ \E j \in 1..Len(fs) : Alignment(fs) = fs[j].align
           /\ \A j \in 1..Len(fs) : fs[j].align <= Alignment(fs)
  <1> DEFINE S == {fs[j].align : j \in 1..Len(fs)}
  <1>1. S \subseteq Alignments
    BY DEF FieldType
  <1>2. S # {}
    <2>1. fs[1].align \in S
      OBVIOUS
    <2> QED
      BY <2>1
  <1>3. \E x \in S : \A y \in S : x >= y
    <2> HIDE DEF S
    <2>1. CASE 8 \in S
      BY <1>1, <2>1 DEF Alignments
    <2>2. CASE 8 \notin S /\ 4 \in S
      BY <1>1, <2>2 DEF Alignments
    <2>3. CASE 8 \notin S /\ 4 \notin S /\ 2 \in S
      BY <1>1, <2>3 DEF Alignments
    <2>4. CASE 8 \notin S /\ 4 \notin S /\ 2 \notin S
      <3>1. PICK x \in S : TRUE
        BY <1>2
      <3>2. \A y \in S : y = 1
        BY <1>1, <2>4 DEF Alignments
      <3>3. \A y \in S : x >= y
        BY <3>1, <3>2
      <3> QED
        BY <3>3
    <2> QED
      BY <2>1, <2>2, <2>3, <2>4
  <1>4. Alignment(fs) \in S /\ \A y \in S : Alignment(fs) >= y
    BY <1>3 DEF Alignment, Max
  <1>5. Alignment(fs) \in Alignments
    BY <1>1, <1>4
  <1> QED
    BY <1>1, <1>4, <1>5 DEF Alignments

\* Every field lies at a multiple of its alignment.
LEMMA FieldsAligned ==
    ASSUME NEW fs \in Seq(FieldType)
    PROVE  \A j \in 1..Len(fs) : Offset(fs, j) \in Nat /\ Offset(fs, j) % fs[j].align = 0
  <1> DEFINE T == {j \in 1..Len(fs) :
                     ~(Offset(fs, j) \in Nat /\ Offset(fs, j) % fs[j].align = 0)}
  <1>1. SUFFICES ASSUME T # {} PROVE FALSE
    OBVIOUS
  <1>2. PICK j \in T : \A e \in T : ~(e < j)
    <2>1. T \subseteq Nat
      OBVIOUS
    <2> QED
      BY <1>1, <2>1, NoneBefore
  <1>3. fs[j].align \in Alignments
    BY DEF FieldType
  <1>4. CASE j = 1
    <2>1. Offset(fs, j) = 0
      BY <1>4, OffsetFirst
    <2> QED
      BY <1>3, <2>1 DEF Alignments
  <1>5. CASE j # 1
    <2>1. j - 1 \in 1..Len(fs) /\ j - 1 < j /\ j - 1 \in Nat \ {0} /\ (j - 1) + 1 = j
      BY <1>5
    <2>2. Offset(fs, j - 1) \in Nat
      BY <1>2, <2>1
    <2>3. fs[j - 1].size \in Nat
      BY <2>1 DEF FieldType
    <2>4. Offset(fs, j) = Pad(Offset(fs, j - 1) + fs[j - 1].size, fs[j].align)
      BY <2>1, OffsetNext
    <2>5. Offset(fs, j - 1) + fs[j - 1].size \in Nat
      BY <2>2, <2>3
    <2> QED
      BY <1>3, <2>4, <2>5, PadAligns
  <1> QED
    BY <1>4, <1>5

\* No field ends before its predecessors: what padding takes back is less than
\* the alignment, which is no more than the size of the field.
LEMMA FieldsEndInOrder ==
    ASSUME NEW fs \in Seq(FieldType), NEW i \in 1..Len(fs)
    PROVE  \A j \in i..Len(fs) : Offset(fs, i) + fs[i].size <= Offset(fs, j) + fs[j].size
  <1> DEFINE End(j) == Offset(fs, j) + fs[j].size
             T == {j \in i..Len(fs) : ~(End(i) <= End(j))}
  <1>1. SUFFICES ASSUME T # {} PROVE FALSE
    OBVIOUS
  <1>2. PICK j \in T : \A e \in T : ~(e < j)
    <2>1. T \subseteq Nat
      OBVIOUS
    <2> QED
      BY <1>1, <2>1, NoneBefore
  <1>3. \A k \in 1..Len(fs) : /\ Offset(fs, k) \in Nat /\ fs[k].size \in Nat /\ End(k) \in Nat
                              /\ fs[k].align \in Alignments /\ fs[k].align \in Nat
                              /\ fs[k].align <= fs[k].size
    BY FieldsAligned, FieldShape
  <1>4. j # i
    BY <1>3
  <1>5. j - 1 \in i..Len(fs) /\ j - 1 < j /\ j - 1 \in Nat \ {0} /\ (j - 1) + 1 = j
    BY <1>4
  <1>6. End(i) <= End(j - 1)
    BY <1>2, <1>5
  <1>7. Offset(fs, j) = Pad(End(j - 1), fs[j].align)
    BY <1>5, OffsetNext
  <1>8. j \in 1..Len(fs) /\ j - 1 \in 1..Len(fs)
    BY <1>5
  <1>9. End(j - 1) < Offset(fs, j) + fs[j].align
    BY <1>3, <1>7, <1>8, PadAligns
  <1>10. End(j - 1) <= End(j)
    <2> DEFINE e == End(j - 1)
               o == Offset(fs, j)
               s == fs[j].size
               a == fs[j].align
    <2>1. e \in Nat /\ o \in Nat /\ s \in Nat /\ a \in Nat /\ a <= s /\ e < o + a
      BY <1>3, <1>8, <1>9
    <2> HIDE DEF e, o, s, a
    <2>2. e <= o + s
      BY <2>1
    <2> QED
      BY <2>2 DEF e, o, s
  <1>11. End(i) <= End(j)
    <2>1. End(i) \in Nat /\ End(j - 1) \in Nat /\ End(j) \in Nat
      BY <1>3, <1>8
    <2> HIDE DEF End
    <2> QED
      BY <1>6, <1>10, <2>1
  <1> QED
    BY <1>11

-----------------------------------------------------------------------------
(* Members. *)

\* A member of the fields is one of a field, moved by its offset.
LEMMA MemberOfField ==
    ASSUME NEW fs \in Seq(FieldType), NEW m \in Members(fs)
    PROVE  \E j \in 1..Len(fs), k \in [off : Nat, size : Nat, align : Alignments] :
              /\ k \in fs[j].members
              /\ m = [off |-> k.off + Offset(fs, j), size |-> k.size, align |-> k.align]
  <1>1. PICK j \in 1..Len(fs) :
            m \in {[k EXCEPT !.off = @ + Offset(fs, j)] : k \in fs[j].members}
    BY DEF Members
  <1>2. PICK k \in fs[j].members : m = [k EXCEPT !.off = @ + Offset(fs, j)]
    BY <1>1
  <1>3. k \in [off : Nat, size : Nat, align : Alignments]
    BY DEF FieldType
  <1> QED
    BY <1>2, <1>3

\* Aligned and within bounds in its field, a member is so in the document.
LEMMA MembersFit ==
    ASSUME NEW fs \in Seq(FieldType), fs # <<>>, NEW m \in Members(fs)
    PROVE  /\ m \in [off : Nat, size : Nat, align : Alignments]
           /\ m.align <= Alignment(fs)
           /\ m.off % m.align = 0
           /\ m.off + m.size <= Size(fs)
  <1>1. PICK j \in 1..Len(fs), k \in [off : Nat, size : Nat, align : Alignments] :
            /\ k \in fs[j].members
            /\ m = [off |-> k.off + Offset(fs, j), size |-> k.size, align |-> k.align]
    BY MemberOfField
  <1>2. /\ fs[j].align \in Alignments /\ fs[j].size \in Nat
        /\ k.align <= fs[j].align /\ k.off % k.align = 0 /\ k.off + k.size <= fs[j].size
    BY <1>1 DEF FieldType
  <1>3. Offset(fs, j) \in Nat /\ Offset(fs, j) % fs[j].align = 0
    BY FieldsAligned
  <1>4. fs[j].align <= Alignment(fs) /\ Alignment(fs) \in Alignments
    <2>1. \A i \in 1..Len(fs) : fs[i].align \in Alignments
      BY DEF FieldType
    <2> QED
      BY <2>1, AlignmentIsMax
  <1>5. (k.off + Offset(fs, j)) % k.align = 0
    BY <1>2, <1>3, SumAligned
  <1>6. /\ Len(fs) \in 1..Len(fs) /\ Len(fs) \in j..Len(fs)
        /\ Offset(fs, Len(fs)) \in Nat /\ fs[Len(fs)].size \in Nat
    <2>1. Len(fs) \in 1..Len(fs) /\ Len(fs) \in j..Len(fs)
      OBVIOUS
    <2> QED
      BY <2>1, FieldsAligned, FieldShape
  <1>7. Offset(fs, j) + fs[j].size <= Size(fs) /\ Size(fs) \in Nat
    BY <1>6, FieldsEndInOrder DEF Size
  <1>8. k.align <= Alignment(fs)
    BY <1>2, <1>4 DEF Alignments
  <1>9. k.off + Offset(fs, j) + k.size <= Size(fs)
    BY <1>2, <1>3, <1>7
  <1> QED
    BY <1>1, <1>3, <1>5, <1>8, <1>9

\* Finished fields, taken as an aggregate, are a field again.
LEMMA AggregateIsField ==
    ASSUME NEW fs \in Seq(FieldType), fs # <<>>
    PROVE  Aggregate(fs) \in FieldType
  <1>1. PICK j \in 1..Len(fs) : Alignment(fs) = fs[j].align
    BY AlignmentIsMax
  <1>2. /\ Offset(fs, j) \in Nat /\ fs[j].size \in Nat
        /\ fs[j].align \in Alignments /\ fs[j].align <= fs[j].size
    BY FieldsAligned, FieldShape
  <1>3. /\ Len(fs) \in j..Len(fs)
        /\ Offset(fs, Len(fs)) \in Nat /\ fs[Len(fs)].size \in Nat
    <2>1. Len(fs) \in 1..Len(fs) /\ Len(fs) \in j..Len(fs)
      OBVIOUS
    <2> QED
      BY <2>1, FieldsAligned, FieldShape
  <1>4. Offset(fs, j) + fs[j].size <= Size(fs) /\ Size(fs) \in Nat
    BY <1>3, FieldsEndInOrder DEF Size
  <1>5. Alignment(fs) <= Size(fs) /\ Alignment(fs) \in Alignments
    BY <1>1, <1>2, <1>4 DEF Alignments
  <1>6. Members(fs) \in SUBSET [off : Nat, size : Nat, align : Alignments]
    BY MembersFit
  <1>7. \A m \in Members(fs) : /\ m.align <= Alignment(fs) /\ m.off % m.align = 0
                               /\ m.off + m.size <= Size(fs)
    BY MembersFit
  <1> QED
    BY <1>4, <1>5, <1>6, <1>7 DEF Aggregate, FieldType

\* So is a primitive type.
LEMMA LeafIsField ==
    ASSUME NEW s \in Nat, NEW a \in Alignments, a <= s
    PROVE  Leaf(s, a) \in FieldType
  <1> DEFINE m == [off |-> 0, size |-> s, align |-> a]
  <1>1. m \in [off : Nat, size : Nat, align : Alignments]
    OBVIOUS
  <1>2. 0 % a = 0 /\ 0 + s <= s
    BY DEF Alignments
  <1> DEFINE r == [size |-> s, align |-> a, agg |-> FALSE, members |-> {m}]
  <1>3. /\ r \in [size : Nat, align : Alignments, agg : BOOLEAN,
                 members : SUBSET [off : Nat, size : Nat, align : Alignments]]
        /\ r.size = s /\ r.align = a /\ r.members = {m}
        /\ m.off = 0 /\ m.size = s /\ m.align = a
    BY <1>1
  <1>4. a <= a
    BY DEF Alignments
  <1> HIDE DEF r, m
  <1>5. r \in FieldType
    BY <1>2, <1>3, <1>4 DEF FieldType
  <1> QED
    BY <1>5 DEF r, m, Leaf
=============================================================================
