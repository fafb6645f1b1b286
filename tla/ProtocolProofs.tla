---------------------------- MODULE ProtocolProofs ----------------------------
(***************************************************************************)
(* Theorems about Protocol: whatever is written is read back, for schemas  *)
(* nested to any depth, any names and values, and whatever follows on the  *)
(* wire; of a part of it nothing is made.                                  *)
(*                                                                         *)
(* A number is four digits (U32Value).  A reader that finds a value at the *)
(* beginning of any bytes that begin with it, and nothing in less, can be  *)
(* followed by another (ReadsInTurn): so do strings, fields, types and     *)
(* messages.  The readers and writers of types are recursive functions;    *)
(* that their equations have one solution, and what it does with every     *)
(* type, is argued by the least depth at which it would not be so.         *)
(***************************************************************************)
EXTENDS Protocol, DataLemmas
-----------------------------------------------------------------------------
(* The four bytes of a uint32. *)

LEMMA Digit ==
    ASSUME NEW m \in Nat
    PROVE  /\ m \div Base \in Nat /\ m % Base \in Byte
           /\ m = Base * (m \div Base) + (m % Base)
  BY BaseAssumption DEF Byte

LEMMA LimitNat == Limit \in Nat /\ Limit > Base
  <1>1. Base \in Nat /\ Base > 12
    BY BaseAssumption
  <1>2. \A x, y \in Nat : x > 12 /\ y > 12 => x * y \in Nat /\ x * y > 12 /\ x * y > x
    <2>1. ASSUME NEW x \in Nat, NEW y \in Nat, x > 12, y > 12 PROVE x * y >= x * 2
      <3>1. x * y = x * 2 + x * (y - 2)
        OBVIOUS
      <3>2. x * (y - 2) >= 0
        BY <2>1
      <3> QED
        BY <3>1, <3>2
    <2> QED
      BY <2>1
  <1>3. Base * Base \in Nat /\ Base * Base > 12 /\ Base * Base > Base
    BY <1>1, <1>2
  <1>4. (Base * Base) * Base \in Nat /\ (Base * Base) * Base > 12 /\ (Base * Base) * Base > Base
    BY <1>1, <1>2, <1>3
  <1>5. ((Base * Base) * Base) * Base \in Nat /\ ((Base * Base) * Base) * Base > Base
    BY <1>1, <1>2, <1>4
  <1> QED
    BY <1>5 DEF Limit

\* What is left of n when v is less than L and the rest a multiple of L.
Splits(n, v, L, q) == n = v + L * q
LEMMA Carried ==
    ASSUME NEW L \in Nat \ {0}, NEW v \in 0..(L - 1), NEW q \in Nat, NEW n \in Nat, Splits(n, v, L, q)
    PROVE  n % L = v
  <1>0. n = v + L * q
    BY DEF Splits
  <1>1. n % L \in 0..(L - 1) /\ n \div L \in Nat /\ n = L * (n \div L) + (n % L)
    OBVIOUS
  <1> DEFINE d == n \div L
             r == n % L
  <1>2. L * (d - q) = v - r
    <2>1. L * (d - q) = L * d - L * q
      BY <1>1
    <2> QED
      BY <1>0, <1>1, <2>1
  <1>3. ASSUME d - q >= 1 PROVE FALSE
    <2>1. L * (d - q) >= L
      BY <1>1, <1>3
    <2> QED
      BY <1>1, <1>2, <2>1
  <1>4. ASSUME q - d >= 1 PROVE FALSE
    <2>1. L * (q - d) >= L
      BY <1>1, <1>4
    <2>2. L * (q - d) = r - v
      BY <1>1, <1>2
    <2> QED
      BY <1>1, <2>1, <2>2
  <1>5. d = q
    BY <1>1, <1>3, <1>4
  <1> QED
    BY <1>1, <1>2, <1>5

\* Four digits are below the limit, and ValueOf is their value.
LEMMA FourDigits ==
    ASSUME NEW a \in Byte, NEW b \in Byte,
           NEW c \in Byte, NEW d \in Byte
    PROVE  a + Base * (b + Base * (c + Base * d)) \in 0..(Limit - 1)
  <1>1. \A x \in Nat, y \in Nat \ {0}, z \in Byte :
           x <= y - 1 => z + Base * x \in Nat /\ z + Base * x <= Base * y - 1
    <2>1. ASSUME NEW x \in Nat, NEW y \in Nat \ {0}, NEW z \in Byte, x <= y - 1
          PROVE  z + Base * x \in Nat /\ z + Base * x <= Base * y - 1
      <3>1. Base * x <= Base * (y - 1)
        <4>1. Base * (y - 1) = Base * x + Base * (y - 1 - x)
          BY BaseAssumption
        <4>2. Base * (y - 1 - x) >= 0
          BY BaseAssumption, <2>1
        <4> QED
          BY BaseAssumption, <4>1, <4>2
      <3>2. Base * (y - 1) = Base * y - Base
        BY BaseAssumption
      <3>3. Base * x \in Nat
        BY BaseAssumption
      <3> QED
        BY BaseAssumption, <3>1, <3>2, <3>3 DEF Byte
    <2> QED
      BY <2>1
  <1>2. /\ c + Base * d \in Nat /\ c + Base * d <= Base * Base - 1
        /\ Base \in Nat \ {0}
    BY <1>1, BaseAssumption DEF Byte
  <1>3. Base * Base \in Nat \ {0} /\ Base * (Base * Base) \in Nat \ {0}
    BY BaseAssumption
  <1>4. b + Base * (c + Base * d) \in Nat /\ b + Base * (c + Base * d) <= Base * (Base * Base) - 1
    BY <1>1, <1>2, <1>3
  <1>5. /\ a + Base * (b + Base * (c + Base * d)) \in Nat
        /\ a + Base * (b + Base * (c + Base * d)) <= Base * (Base * (Base * Base)) - 1
    BY <1>1, <1>3, <1>4
  <1>6. Base * (Base * (Base * Base)) = Limit
    BY BaseAssumption DEF Limit
  <1> QED
    BY <1>5, <1>6, LimitNat

LEMMA ValueBound ==
    ASSUME NEW c \in Bytes, Len(c) >= Width
    PROVE  ValueOf(c) \in 0..(Limit - 1)
  <1>1. c[1] \in Byte /\ c[2] \in Byte /\ c[3] \in Byte /\ c[4] \in Byte
    <2>1. Len(c) \in Nat /\ \A i \in 1..Len(c) : c[i] \in Byte
      BY DEF Bytes
    <2>2. 1 \in 1..Len(c) /\ 2 \in 1..Len(c) /\ 3 \in 1..Len(c) /\ 4 \in 1..Len(c)
      BY <2>1 DEF Width
    <2> QED
      BY <2>1, <2>2
  <1> QED
    BY <1>1, FourDigits DEF ValueOf

LEMMA FourBytes ==
    ASSUME NEW S, NEW r \in S, NEW s \in S, NEW t \in S, NEW u \in S
    PROVE  <<r, s, t, u>> \in Seq(S) /\ Len(<<r, s, t, u>>) = 4
  OBVIOUS

\* What is read is what was written, narrowed to 4 bytes.
LEMMA U32Value ==
    ASSUME NEW n \in Nat
    PROVE  /\ U32(n) \in Bytes /\ Len(U32(n)) = Width
           /\ ValueOf(U32(n)) = n % Limit
           /\ n < Limit => ValueOf(U32(n)) = n
  <1> DEFINE a == n \div Base
             b == a \div Base
             d == b \div Base
             q == d \div Base
             r == n % Base
             s == a % Base
             t == b % Base
             u == d % Base
             v == r + Base * (s + Base * (t + Base * u))
  <1>1. /\ a \in Nat /\ r \in Byte /\ n = Base * a + r
        /\ b \in Nat /\ s \in Byte /\ a = Base * b + s
        /\ d \in Nat /\ t \in Byte /\ b = Base * d + t
        /\ q \in Nat /\ u \in Byte /\ d = Base * q + u
    BY Digit
  <1>2. U32(n) = <<r, s, t, u>>
    BY DEF U32
  <1> HIDE DEF a, b, d, q, r, s, t, u
  <1>3. ValueOf(U32(n)) = v
    BY <1>2 DEF ValueOf
  <1>4. v \in 0..(Limit - 1)
    BY <1>1, FourDigits
  <1>5. n = v + Limit * q
    <2>1. /\ r \in Nat /\ s \in Nat /\ t \in Nat /\ u \in Nat
          /\ n = Base * a + r /\ a = Base * b + s /\ b = Base * d + t /\ d = Base * q + u
      BY <1>1 DEF Byte
    <2>2. b = (t + Base * u) + Base * (Base * q)
      BY <1>1, <2>1, BaseAssumption
    <2>3. a = (s + Base * (t + Base * u)) + Base * (Base * (Base * q))
      BY <1>1, <2>1, <2>2, BaseAssumption
    <2>4. n = v + Base * (Base * (Base * (Base * q)))
      BY <1>1, <2>1, <2>3, BaseAssumption
    <2>5. Base * (Base * (Base * (Base * q))) = Limit * q
      BY <1>1, BaseAssumption DEF Limit
    <2> QED
      BY <2>4, <2>5
  <1>6. n % Limit = v
    <2> HIDE DEF v
    <2>1. Limit \in Nat \ {0}
      BY LimitNat, BaseAssumption
    <2>2. Splits(n, v, Limit, q)
      BY <1>5 DEF Splits
    <2> QED
      BY <1>1, <1>4, <2>1, <2>2, Carried
  <1>7. U32(n) \in Bytes /\ Len(U32(n)) = Width
    BY <1>1, <1>2, FourBytes DEF Bytes, Width
  <1>8. n < Limit => n % Limit = n
    BY LimitNat
  <1> QED
    BY <1>3, <1>6, <1>7, <1>8

-----------------------------------------------------------------------------
(* Bytes, and what a reader makes of them. *)

LEMMA ByteSeqs ==
    /\ <<>> \in Bytes /\ Len(<<>>) = 0
    /\ \A i \in Byte : <<i>> \in Bytes /\ Len(<<i>>) = 1 /\ <<i>>[1] = i
    /\ \A s \in Bytes : Len(s) \in Nat /\ (Len(s) = 0 => s = <<>>)
    /\ \A s, t \in Bytes : s \o t \in Bytes /\ Len(s \o t) = Len(s) + Len(t)
    /\ \A s \in Bytes : s \o <<>> = s /\ <<>> \o s = s
    /\ \A s, t, u \in Bytes : (s \o t) \o u = s \o (t \o u)
  BY DEF Bytes

LEMMA Assoc ==
    ASSUME NEW s \in Bytes, NEW t \in Bytes, NEW u \in Bytes
    PROVE  (s \o t) \o u = s \o (t \o u)
  BY DEF Bytes

LEMMA Closed == \A s, t \in Bytes : s \o t \in Bytes
  BY DEF Bytes

LEMMA DropBytes ==
    ASSUME NEW c \in Bytes, NEW n \in 0..Len(c)
    PROVE  /\ Drop(c, n) \in Bytes /\ Len(Drop(c, n)) = Len(c) - n
           /\ SubSeq(c, 1, n) \in Bytes /\ Len(SubSeq(c, 1, n)) = n
           /\ SubSeq(c, 1, n) \o Drop(c, n) = c
  <1>1. Drop(c, n) \in Bytes /\ Len(Drop(c, n)) = Len(c) - n
    BY DEF Bytes, Drop
  <1>2. SubSeq(c, 1, n) \in Bytes /\ Len(SubSeq(c, 1, n)) = n
    BY DEF Bytes
  <1>3. SubSeq(c, 1, n) \o Drop(c, n) = c
    <2> DEFINE a == SubSeq(c, 1, n)
               b == Drop(c, n)
    <2>1. a \o b \in Bytes /\ Len(a \o b) = Len(c)
      BY <1>1, <1>2, ByteSeqs
    <2>2. ASSUME NEW i \in 1..Len(c) PROVE (a \o b)[i] = c[i]
      <3>0. Len(c) \in Nat /\ i \in Nat /\ n \in Nat
        BY DEF Bytes
      <3>1. (a \o b)[i] = IF i <= n THEN a[i] ELSE b[i - n]
        BY <1>1, <1>2 DEF Bytes
      <3>2. i <= n => a[i] = c[i]
        BY DEF Bytes
      <3>3. ASSUME i > n PROVE b[i - n] = c[i]
        <4>1. i - n \in 1..(Len(c) - n)
          BY <3>0, <3>3
        <4>2. \A k \in 1..(Len(c) - n) : SubSeq(c, n + 1, Len(c))[k] = c[n + k]
          BY DEF Bytes
        <4>3. n + (i - n) = i
          BY <3>0
        <4> QED
          BY <4>1, <4>2, <4>3 DEF Drop
      <3>4. CASE i <= n
        BY <3>1, <3>2, <3>4
      <3>5. CASE i > n
        <4>1. ~(i <= n)
          BY <3>0, <3>5
        <4> QED
          BY <3>1, <3>3, <3>5, <4>1
      <3>6. i <= n \/ i > n
        BY <3>0
      <3> QED
        BY <3>4, <3>5, <3>6
    <2> HIDE DEF a, b
    <2>3. IsSeq(a \o b) /\ IsSeq(c)
      BY <2>1, SeqIsSeq DEF Bytes
    <2>4. a \o b = c
      BY <2>1, <2>2, <2>3, SameSeq
    <2> QED
      BY <2>4 DEF a, b
  <1> QED
    BY <1>1, <1>2, <1>3

LEMMA DropConcat ==
    ASSUME NEW s \in Bytes, NEW t \in Bytes
    PROVE  /\ Drop(s \o t, Len(s)) = t /\ SubSeq(s \o t, 1, Len(s)) = s
           /\ \A i \in 1..Len(s) : (s \o t)[i] = s[i]
  BY DEF Bytes, Drop

\* p is the beginning of w, but not all of it.
StrictPrefix(p, w) == \E q \in Bytes : q # <<>> /\ p \o q = w

LEMMA PrefixShorter ==
    ASSUME NEW p \in Bytes, NEW w \in Bytes, StrictPrefix(p, w)
    PROVE  Len(p) < Len(w) /\ Len(p) \in Nat /\ Len(w) \in Nat
  <1>1. PICK q \in Bytes : q # <<>> /\ p \o q = w
    BY DEF StrictPrefix
  <1> QED
    BY <1>1 DEF Bytes

\* p is all of s and some of t, of which q is left.
Beyond(p, q, s, t) == \E r \in Bytes : p = s \o r /\ t = r \o q

\* Two ways to cut a sequence: one cut is not after the other.
LEMMA TwoCuts ==
    ASSUME NEW p \in Bytes, NEW q \in Bytes, NEW s \in Bytes, NEW t \in Bytes, p \o q = s \o t
    PROVE  (q # <<>> /\ StrictPrefix(p, s)) \/ Beyond(p, q, s, t)
  <1>1. /\ Len(p) + Len(q) = Len(s) + Len(t)
        /\ Len(p) \in Nat /\ Len(q) \in Nat /\ Len(s) \in Nat /\ Len(t) \in Nat
    BY DEF Bytes
  <1>2. CASE Len(p) < Len(s)
    <2> DEFINE r == Drop(s, Len(p))
    <2>1. /\ r \in Bytes /\ Len(r) = Len(s) - Len(p)
          /\ SubSeq(s, 1, Len(p)) \o r = s
      <3>1. Len(p) \in 0..Len(s)
        BY <1>1, <1>2
      <3> QED
        BY <3>1, DropBytes
    <2>2. SubSeq(s, 1, Len(p)) = p
      BY <1>2, DropConcat, ByteSeqs DEF Bytes
    <2>3. StrictPrefix(p, s)
      <3>1. r # <<>>
        BY <1>1, <1>2, <2>1, EmptyShape
      <3> HIDE DEF r
      <3> QED
        BY <2>1, <2>2, <3>1 DEF StrictPrefix
    <2>4. q # <<>>
      BY <1>1, <1>2, EmptyShape
    <2> QED
      BY <2>3, <2>4
  <1>3. CASE Len(p) >= Len(s)
    <2> DEFINE r == Drop(p, Len(s))
    <2>1. /\ r \in Bytes /\ Len(r) = Len(p) - Len(s)
          /\ SubSeq(p, 1, Len(s)) \o r = p
      <3>1. Len(s) \in 0..Len(p)
        BY <1>1, <1>3
      <3> QED
        BY <3>1, DropBytes
    <2>2. SubSeq(p, 1, Len(s)) = s
      BY <1>3, DropConcat, ByteSeqs DEF Bytes
    <2>3. p = s \o r
      BY <2>1, <2>2
    <2> HIDE DEF r
    <2>4. s \o (r \o q) = s \o t /\ r \o q \in Bytes
      <3>1. (s \o r) \o q = s \o (r \o q) /\ r \o q \in Bytes
        BY <2>1 DEF Bytes
      <3> QED
        BY <2>3, <3>1
    <2>5. Drop(s \o (r \o q), Len(s)) = r \o q /\ Drop(s \o t, Len(s)) = t
      BY <2>4, DropConcat
    <2> QED
      BY <2>1, <2>3, <2>4, <2>5 DEF Beyond
  <1> QED
    BY <1>1, <1>2, <1>3

\* The bytes w stand for v: a reader finds v at their beginning and goes on behind
\* them, and of less than w it makes nothing.
Reads(reader, w, v) ==
    /\ \A c \in Bytes : reader[w \o c] = Got(v, c)
    /\ \A p \in Bytes : StrictPrefix(p, w) => reader[p] = Incomplete

\* One reader after the other.
LEMMA ReadsInTurn ==
    ASSUME NEW a, NEW b, NEW s \in Bytes, NEW t \in Bytes, NEW v, NEW w,
           Reads(a, s, v), Reads(b, t, w)
    PROVE  /\ \A c \in Bytes : t \o c \in Bytes /\ a[(s \o t) \o c] = Got(v, t \o c) /\ b[t \o c] = Got(w, c)
           /\ \A p \in Bytes : StrictPrefix(p, s \o t) =>
                 \/ a[p] = Incomplete
                 \/ \E c \in Bytes : a[p] = Got(v, c) /\ b[c] = Incomplete
  <1>1. ASSUME NEW c \in Bytes
        PROVE  t \o c \in Bytes /\ a[(s \o t) \o c] = Got(v, t \o c) /\ b[t \o c] = Got(w, c)
    <2>1. t \o c \in Bytes /\ (s \o t) \o c = s \o (t \o c)
      BY DEF Bytes
    <2> QED
      BY <2>1 DEF Reads
  <1>2. ASSUME NEW p \in Bytes, StrictPrefix(p, s \o t)
        PROVE  \/ a[p] = Incomplete
               \/ \E c \in Bytes : a[p] = Got(v, c) /\ b[c] = Incomplete
    <2>1. PICK q \in Bytes : q # <<>> /\ p \o q = s \o t
      BY <1>2 DEF StrictPrefix
    <2>2. CASE StrictPrefix(p, s)
      BY <2>2 DEF Reads
    <2>3. CASE Beyond(p, q, s, t)
      <3>1. PICK r \in Bytes : p = s \o r /\ t = r \o q
        BY <2>3 DEF Beyond
      <3>2. StrictPrefix(r, t)
        BY <2>1, <3>1 DEF StrictPrefix
      <3>3. a[p] = Got(v, r) /\ b[r] = Incomplete
        BY <3>1, <3>2 DEF Reads
      <3> QED
        BY <3>3
    <2>4. StrictPrefix(p, s) \/ Beyond(p, q, s, t)
      BY <2>1, TwoCuts
    <2> QED
      BY <2>2, <2>3, <2>4
  <1> QED
    BY <1>1, <1>2

-----------------------------------------------------------------------------
(* The readers of serialize.cpp. *)

\* What a reader may return: the cursor after it is a later part of its cursor.
Sound(r, c) ==
    \/ r = Incomplete \/ r = Illegal
    \/ r = Got(r.v, r.c) /\ r.c \in Bytes /\ Len(r.c) <= Len(c)

LEMMA Results ==
    /\ ~Ok(Incomplete) /\ ~Ok(Illegal)
    /\ \A v, c : Ok(Got(v, c)) /\ Got(v, c).v = v /\ Got(v, c).c = c /\ Got(v, c).res = "SUCCESS"
    /\ Incomplete.res = "INCOMPLETE" /\ Illegal.res = "INVALID"
  BY DEF Ok, Incomplete, Illegal, Got

LEMMA U8Sound ==
    ASSUME NEW c \in Bytes
    PROVE  /\ Sound(ReadU8(c), c)
           /\ Ok(ReadU8(c)) => ReadU8(c).v \in Byte /\ Len(ReadU8(c).c) < Len(c)
  <1>1. CASE c = <<>>
    BY <1>1, Results DEF ReadU8, Sound
  <1>2. CASE c # <<>>
    <2>1. Len(c) \in Nat /\ Len(c) > 0 /\ c[1] \in Byte
      BY <1>2 DEF Bytes
    <2>2. Drop(c, 1) \in Bytes /\ Len(Drop(c, 1)) = Len(c) - 1
      BY <2>1, DropBytes
    <2>3. ReadU8(c) = Got(c[1], Drop(c, 1))
      BY <1>2 DEF ReadU8
    <2> QED
      BY <2>1, <2>2, <2>3, Results DEF Sound
  <1> QED
    BY <1>1, <1>2

LEMMA U32Sound ==
    ASSUME NEW c \in Bytes
    PROVE  /\ Sound(ReadU32(c), c)
           /\ Ok(ReadU32(c)) => ReadU32(c).v \in Nat /\ ReadU32(c).v < Limit /\ Len(ReadU32(c).c) < Len(c)
  <1>0. Len(c) \in Nat
    BY DEF Bytes
  <1>1. CASE Len(c) < Width
    BY <1>1, Results DEF ReadU32, Sound
  <1>2. CASE Len(c) >= Width
    <2>1. ValueOf(c) \in Nat /\ ValueOf(c) < Limit
      BY <1>2, ValueBound, LimitNat
    <2>2. Drop(c, Width) \in Bytes /\ Len(Drop(c, Width)) = Len(c) - Width
      BY <1>0, <1>2, DropBytes DEF Width
    <2>3. ReadU32(c) = Got(ValueOf(c), Drop(c, Width))
      BY <1>0, <1>2 DEF ReadU32, Width
    <2> QED
      BY <1>0, <2>1, <2>2, <2>3, Results DEF Sound, Width
  <1> QED
    BY <1>0, <1>1, <1>2 DEF Width

LEMMA StringSound ==
    ASSUME NEW c \in Bytes
    PROVE  /\ Sound(ReadString(c), c)
           /\ Ok(ReadString(c)) => ReadString(c).v \in Names /\ Len(ReadString(c).c) < Len(c)
  <1> DEFINE n == ReadU32(c)
  <1>1. Sound(n, c) /\ (Ok(n) => n.v \in Nat /\ n.v < Limit /\ Len(n.c) < Len(c))
    BY U32Sound
  <1>2. ReadString(c) = IF Ok(n) THEN IF Len(n.c) < n.v THEN Incomplete
                                      ELSE Got(SubSeq(n.c, 1, n.v), Drop(n.c, n.v))
                        ELSE n
    BY DEF ReadString, Then
  <1> HIDE DEF n
  <1>3. CASE ~Ok(n)
    BY <1>1, <1>2, <1>3
  <1>4. CASE Ok(n)
    <2>1. n.c \in Bytes /\ Len(n.c) < Len(c) /\ Len(n.c) \in Nat /\ Len(c) \in Nat
      BY <1>1, <1>4, Results DEF Sound, Bytes
    <2>2. CASE Len(n.c) < n.v
      BY <1>2, <1>4, <2>2, Results DEF Sound
    <2>3. CASE ~(Len(n.c) < n.v)
      <3>1. n.v \in 0..Len(n.c)
        BY <1>1, <1>4, <2>1, <2>3
      <3>2. /\ Drop(n.c, n.v) \in Bytes /\ Len(Drop(n.c, n.v)) = Len(n.c) - n.v
            /\ SubSeq(n.c, 1, n.v) \in Bytes /\ Len(SubSeq(n.c, 1, n.v)) = n.v
        BY <2>1, <3>1, DropBytes
      <3>3. ReadString(c) = Got(SubSeq(n.c, 1, n.v), Drop(n.c, n.v))
        BY <1>2, <1>4, <2>3
      <3>4. Len(Drop(n.c, n.v)) < Len(c)
        BY <2>1, <3>1, <3>2
      <3>5. SubSeq(n.c, 1, n.v) \in Names
        BY <3>2, <1>1, <1>4 DEF Names
      <3> QED
        BY <2>1, <3>2, <3>3, <3>4, <3>5, Results DEF Sound
    <2> QED
      BY <2>2, <2>3
  <1> QED
    BY <1>3, <1>4

LEMMA U8Reads ==
    ASSUME NEW i \in Byte
    PROVE  Reads([c \in Bytes |-> ReadU8(c)], <<i>>, i)
  <1>1. ASSUME NEW c \in Bytes PROVE <<i>> \o c \in Bytes /\ ReadU8(<<i>> \o c) = Got(i, c)
    <2>1. <<i>> \in Bytes /\ Len(<<i>>) = 1 /\ <<i>>[1] = i
      BY ByteSeqs
    <2>2. <<i>> \o c \in Bytes /\ Len(<<i>> \o c) = 1 + Len(c) /\ Len(c) \in Nat
      BY <2>1, ByteSeqs
    <2>3. Drop(<<i>> \o c, 1) = c /\ (<<i>> \o c)[1] = i
      <3> DEFINE s == <<i>>
      <3>1. s \in Bytes /\ Len(s) = 1 /\ s[1] = i /\ 1 \in 1..Len(s)
        BY <2>1
      <3> HIDE DEF s
      <3>2. Drop(s \o c, 1) = c /\ (s \o c)[1] = i
        BY <3>1, DropConcat
      <3> QED
        BY <3>2 DEF s
    <2>4. <<i>> \o c # <<>>
      BY <2>2, ByteSeqs
    <2> QED
      BY <2>2, <2>3, <2>4 DEF ReadU8
  <1>2. ASSUME NEW p \in Bytes, StrictPrefix(p, <<i>>) PROVE ReadU8(p) = Incomplete
    <2>1. Len(p) < 1
      BY <1>2, ByteSeqs, PrefixShorter
    <2>3. p = <<>>
      BY <2>1 DEF Bytes
    <2> QED
      BY <2>3 DEF ReadU8
  <1> QED
    BY <1>1, <1>2 DEF Reads

LEMMA U32Reads ==
    ASSUME NEW n \in Nat
    PROVE  Reads([c \in Bytes |-> ReadU32(c)], U32(n), n % Limit)
  <1>0. U32(n) \in Bytes /\ Len(U32(n)) = Width /\ ValueOf(U32(n)) = n % Limit
    BY U32Value
  <1>1. ASSUME NEW c \in Bytes PROVE U32(n) \o c \in Bytes /\ ReadU32(U32(n) \o c) = Got(n % Limit, c)
    <2>1. U32(n) \o c \in Bytes /\ Len(U32(n) \o c) = Width + Len(c) /\ Len(c) \in Nat
      BY <1>0 DEF Bytes
    <2>2. Drop(U32(n) \o c, Width) = c /\ \A i \in 1..Width : (U32(n) \o c)[i] = U32(n)[i]
      BY <1>0, DropConcat
    <2>3. ValueOf(U32(n) \o c) = ValueOf(U32(n))
      <3>1. /\ (U32(n) \o c)[1] = U32(n)[1] /\ (U32(n) \o c)[2] = U32(n)[2]
            /\ (U32(n) \o c)[3] = U32(n)[3] /\ (U32(n) \o c)[4] = U32(n)[4]
        <4>1. 1 \in 1..Width /\ 2 \in 1..Width /\ 3 \in 1..Width /\ 4 \in 1..Width
          BY DEF Width
        <4> DEFINE w == U32(n) \o c
        <4>2. \A i \in 1..Width : w[i] = U32(n)[i]
          BY <2>2
        <4> HIDE DEF w
        <4> QED
          BY <4>1, <4>2 DEF w
      <3> QED
        BY <3>1 DEF ValueOf
    <2>4. ~(Len(U32(n) \o c) < Width)
      BY <2>1 DEF Width
    <2> QED
      BY <1>0, <2>1, <2>2, <2>3, <2>4 DEF ReadU32
  <1>2. ASSUME NEW p \in Bytes, StrictPrefix(p, U32(n)) PROVE ReadU32(p) = Incomplete
    <2>1. Len(p) < Width
      BY <1>0, <1>2, PrefixShorter
    <2> QED
      BY <2>1 DEF ReadU32
  <1> QED
    BY <1>1, <1>2 DEF Reads

LEMMA StringReads ==
    ASSUME NEW s \in Names
    PROVE  /\ WriteString(s) \in Bytes /\ Len(WriteString(s)) = Width + Len(s)
           /\ Reads([c \in Bytes |-> ReadString(c)], WriteString(s), s)
  <1>0. s \in Bytes /\ Len(s) \in Nat /\ Len(s) < Limit
    BY DEF Names, Bytes
  <1> DEFINE u == U32(Len(s))
             a == [c \in Bytes |-> ReadU32(c)]
             r(n) == IF Ok(n) THEN IF Len(n.c) < n.v THEN Incomplete
                                   ELSE Got(SubSeq(n.c, 1, n.v), Drop(n.c, n.v))
                     ELSE n
  <1>1. u \in Bytes /\ Len(u) = Width /\ Len(s) % Limit = Len(s)
    BY <1>0, U32Value
  <1>2. Reads(a, u, Len(s))
    BY <1>0, <1>1, U32Reads
  <1>3. WriteString(s) = u \o s /\ u \o s \in Bytes /\ Len(u \o s) = Width + Len(s)
    BY <1>0, <1>1, ByteSeqs DEF WriteString
  <1>4. \A c \in Bytes : ReadString(c) = r(ReadU32(c))
    BY DEF ReadString, Then
  <1>5. ASSUME NEW c \in Bytes PROVE (u \o s) \o c \in Bytes /\ ReadString((u \o s) \o c) = Got(s, c)
    <2>1. (u \o s) \o c = u \o (s \o c) /\ (u \o s) \o c \in Bytes /\ s \o c \in Bytes
      BY <1>0, <1>1 DEF Bytes
    <2>2. ReadU32(u \o (s \o c)) = Got(Len(s), s \o c)
      BY <1>2, <2>1 DEF Reads
    <2>3. /\ SubSeq(s \o c, 1, Len(s)) = s /\ Drop(s \o c, Len(s)) = c
          /\ ~(Len(s \o c) < Len(s))
      BY <1>0, DropConcat, ByteSeqs
    <2>4. r(Got(Len(s), s \o c)) = Got(s, c)
      <3> DEFINE g == Got(Len(s), s \o c)
      <3>1. Ok(g) /\ g.v = Len(s) /\ g.c = s \o c
        BY Results
      <3> HIDE DEF g
      <3>2. r(g) = Got(s, c)
        BY <2>3, <3>1
      <3> QED
        BY <3>2 DEF g
    <2> QED
      BY <1>4, <2>1, <2>2, <2>4
  <1>6. ASSUME NEW p \in Bytes, StrictPrefix(p, u \o s) PROVE ReadString(p) = Incomplete
    <2>1. PICK q \in Bytes : q # <<>> /\ p \o q = u \o s
      BY <1>6 DEF StrictPrefix
    <2>2. StrictPrefix(p, u) \/ Beyond(p, q, u, s)
      BY <1>0, <1>1, <2>1, TwoCuts
    <2>3. CASE StrictPrefix(p, u)
      <3>1. ReadU32(p) = Incomplete
        BY <1>2, <2>3 DEF Reads
      <3> QED
        BY <1>4, <3>1, Results
    <2>4. CASE Beyond(p, q, u, s)
      <3>1. PICK t \in Bytes : p = u \o t /\ s = t \o q
        BY <2>4 DEF Beyond
      <3>2. ReadU32(p) = Got(Len(s), t)
        BY <1>2, <3>1 DEF Reads
      <3>3. Len(t) < Len(s)
        BY <2>1, <3>1 DEF Bytes
      <3>4. r(Got(Len(s), t)) = Incomplete
        BY <3>3, Results
      <3> QED
        BY <1>4, <3>2, <3>4
    <2> QED
      BY <2>2, <2>3, <2>4
  <1> HIDE DEF u
  <1> QED
    BY <1>3, <1>5, <1>6 DEF Reads

-----------------------------------------------------------------------------
(* The readers of a schema.  They are recursive along a cursor that gets    *)
(* shorter, and so are a function.                                          *)

\* n fields at c, when the fields further on are read by counted.
CountedBy(counted, c) == [n \in Nat |->
    IF n = 0 THEN Got(<<>>, c)
    ELSE Then(ReadString(c), LAMBDA name, d :
         Then(ReadU8(d), LAMBDA index, e :
         Then(ReadTypeBy(counted, index, e), LAMBDA type, f :
         Then(counted[f][n - 1], LAMBDA rest, g :
             Got(<<[name |-> name, type |-> type]>> \o rest, g)))))]

LEMMA ReadCountedIs == ReadCounted = CHOOSE f : f = [c \in Bytes |-> CountedBy(f, c)]
  BY DEF ReadCounted, CountedBy

\* What comes after r; without it r.
After(r, q) == IF Ok(r) THEN q ELSE r

\* One field and the others, read one after the other.
InTurn(g, c, n) ==
    LET name  == ReadString(c)
        index == After(name, ReadU8(name.c))
        type  == After(index, ReadTypeBy(g, index.v, index.c))
        rest  == After(type, g[type.c][n - 1])
    IN After(rest, Got(<<[name |-> name.v, type |-> type.v]>> \o rest.v, rest.c))

LEMMA CountedInTurn ==
    ASSUME NEW g, NEW c, NEW n \in Nat, n # 0
    PROVE  CountedBy(g, c)[n] = InTurn(g, c, n)
  <1> DEFINE a   == ReadString(c)
             b   == ReadU8(a.c)
             t   == ReadTypeBy(g, b.v, b.c)
             r   == g[t.c][n - 1]
             all == Got(<<[name |-> a.v, type |-> t.v]>> \o r.v, r.c)
             index == After(a, ReadU8(a.c))
             type  == After(index, ReadTypeBy(g, index.v, index.c))
             rest  == After(type, g[type.c][n - 1])
  <1>1. CountedBy(g, c)[n] =
          IF Ok(a) THEN IF Ok(b) THEN IF Ok(t) THEN IF Ok(r) THEN all ELSE r ELSE t ELSE b ELSE a
    BY DEF CountedBy, Then
  <1>2. /\ Ok(a)  => index = b
        /\ ~Ok(a) => index = a
    BY DEF After
  <1>3. /\ index = b => (Ok(b) => type = t) /\ (~Ok(b) => type = b)
        /\ ~Ok(index) => type = index
    BY DEF After
  <1>4. /\ type = t => (Ok(t) => rest = r) /\ (~Ok(t) => rest = t)
        /\ ~Ok(type) => rest = type
    BY DEF After
  <1>5. /\ Ok(rest) /\ type = t /\ rest = r => After(rest, Got(<<[name |-> a.v, type |-> type.v]>> \o rest.v, rest.c)) = all
        /\ ~Ok(rest) => After(rest, Got(<<[name |-> a.v, type |-> type.v]>> \o rest.v, rest.c)) = rest
    BY DEF After
  <1> DEFINE lhs == CountedBy(g, c)[n]
             rhs == After(rest, Got(<<[name |-> a.v, type |-> type.v]>> \o rest.v, rest.c))
  <1> HIDE DEF index, type, rest, all, r, t, b, rhs, lhs
  <1>6. lhs = rhs
    <2>1. CASE Ok(a) /\ Ok(b) /\ Ok(t) /\ Ok(r)
      BY <1>1, <1>2, <1>3, <1>4, <1>5, <2>1 DEF lhs, rhs
    <2>2. CASE Ok(a) /\ Ok(b) /\ Ok(t) /\ ~Ok(r)
      BY <1>1, <1>2, <1>3, <1>4, <1>5, <2>2 DEF lhs, rhs
    <2>3. CASE Ok(a) /\ Ok(b) /\ ~Ok(t)
      BY <1>1, <1>2, <1>3, <1>4, <1>5, <2>3 DEF lhs, rhs
    <2>4. CASE Ok(a) /\ ~Ok(b)
      BY <1>1, <1>2, <1>3, <1>4, <1>5, <2>4 DEF lhs, rhs
    <2>5. CASE ~Ok(a)
      BY <1>1, <1>2, <1>3, <1>4, <1>5, <2>5 DEF lhs, rhs
    <2> QED
      BY <2>1, <2>2, <2>3, <2>4, <2>5
  <1> QED
    BY <1>6 DEF InTurn, lhs, rhs, rest, type, index

Agree(g, h, m)  == \A d \in Bytes : Len(d) < m => g[d] = h[d]
SoundTo(g, m) == \A d \in Bytes : Len(d) < m => \A n \in Nat : Sound(g[d][n], d)

LEMMA SoundAfter ==
    ASSUME NEW c \in Bytes, NEW d \in Bytes, Len(d) <= Len(c), NEW r, Sound(r, d)
    PROVE  Sound(r, c)
  <1>1. Len(c) \in Nat /\ Len(d) \in Nat /\ \A b \in Bytes : Len(b) \in Nat
    BY DEF Bytes
  <1>2. CASE r = Got(r.v, r.c) /\ r.c \in Bytes /\ Len(r.c) <= Len(d)
    <2>1. Len(r.c) <= Len(c)
      BY <1>1, <1>2
    <2> QED
      BY <1>2, <2>1 DEF Sound
  <1> QED
    BY <1>2 DEF Sound

LEMMA NotOkSound ==
    ASSUME NEW c, NEW r, Sound(r, c)
    PROVE  /\ Ok(r) => r = Got(r.v, r.c) /\ r.c \in Bytes /\ Len(r.c) <= Len(c)
           /\ ~Ok(r) => r = Incomplete \/ r = Illegal
  BY Results DEF Sound

LEMMA FieldsLocal ==
    ASSUME NEW g, NEW h, NEW c \in Bytes, Agree(g, h, Len(c)), SoundTo(g, Len(c))
    PROVE  /\ ReadFieldsBy(g, c) = ReadFieldsBy(h, c)
           /\ Sound(ReadFieldsBy(g, c), c)
  <1> DEFINE n == ReadU32(c)
  <1>1. /\ ReadFieldsBy(g, c) = IF Ok(n) THEN g[n.c][n.v] ELSE n
        /\ ReadFieldsBy(h, c) = IF Ok(n) THEN h[n.c][n.v] ELSE n
    BY DEF ReadFieldsBy, Then
  <1>2. Sound(n, c) /\ (Ok(n) => n.v \in Nat /\ Len(n.c) < Len(c))
    BY U32Sound
  <1> HIDE DEF n
  <1>3. CASE ~Ok(n)
    BY <1>1, <1>2, <1>3
  <1>4. CASE Ok(n)
    <2>1. n.c \in Bytes /\ Len(n.c) < Len(c) /\ n.v \in Nat
      BY <1>2, <1>4, NotOkSound
    <2>2. g[n.c] = h[n.c] /\ Sound(g[n.c][n.v], n.c)
      BY <2>1 DEF Agree, SoundTo
    <2>3. Len(n.c) \in Nat /\ Len(c) \in Nat
      BY <2>1 DEF Bytes
    <2>4. Sound(g[n.c][n.v], c)
      BY <2>1, <2>2, <2>3, SoundAfter
    <2> QED
      BY <1>1, <1>4, <2>2, <2>4
  <1> QED
    BY <1>3, <1>4

LEMMA TypeLocal ==
    ASSUME NEW g, NEW h, NEW c \in Bytes, NEW i, Agree(g, h, Len(c)), SoundTo(g, Len(c))
    PROVE  /\ ReadTypeBy(g, i, c) = ReadTypeBy(h, i, c)
           /\ Sound(ReadTypeBy(g, i, c), c)
  <1> DEFINE n  == ReadU32(c)
             fs == ReadFieldsBy(g, c)
             hs == ReadFieldsBy(h, c)
             st == IndexIn(FieldTypes, "StringType")
             ag == IndexIn(FieldTypes, "AggregateType")
  <1>0. Sound(n, c) /\ fs = hs /\ Sound(fs, c)
    BY U32Sound, FieldsLocal
  <1>1. Len(c) \in Nat
    BY DEF Bytes
  <1> HIDE DEF fs, hs, st, ag, n
  <1>2. ReadTypeBy(g, i, c) =
           CASE i + 1 \notin DOMAIN FieldTypes -> Illegal
             [] i + 1 = st -> IF Ok(n) THEN Got([kind |-> "StringType", capacity |-> n.v], n.c) ELSE n
             [] i + 1 = ag -> IF Ok(fs) THEN Got([kind |-> "AggregateType", fields |-> fs.v], fs.c) ELSE fs
             [] OTHER -> Got([kind |-> FieldTypes[i + 1]], c)
    BY DEF ReadTypeBy, Then, fs, st, ag, n
  <1>3. ReadTypeBy(h, i, c) =
           CASE i + 1 \notin DOMAIN FieldTypes -> Illegal
             [] i + 1 = st -> IF Ok(n) THEN Got([kind |-> "StringType", capacity |-> n.v], n.c) ELSE n
             [] i + 1 = ag -> IF Ok(hs) THEN Got([kind |-> "AggregateType", fields |-> hs.v], hs.c) ELSE hs
             [] OTHER -> Got([kind |-> FieldTypes[i + 1]], c)
    BY DEF ReadTypeBy, Then, hs, st, ag, n
  <1>4. ReadTypeBy(g, i, c) = ReadTypeBy(h, i, c)
    BY <1>0, <1>2, <1>3
  <1>5. \A v, w : w \in Bytes /\ Len(w) <= Len(c) => Sound(Got(v, w), c)
    BY Results DEF Sound
  <1>6. Sound(Illegal, c)
    BY DEF Sound
  <1>7. Sound(IF Ok(n) THEN Got([kind |-> "StringType", capacity |-> n.v], n.c) ELSE n, c)
    BY <1>0, <1>5, NotOkSound
  <1>8. Sound(IF Ok(fs) THEN Got([kind |-> "AggregateType", fields |-> fs.v], fs.c) ELSE fs, c)
    BY <1>0, <1>5, NotOkSound
  <1>9. Sound(Got([kind |-> FieldTypes[i + 1]], c), c)
    BY <1>1, <1>5
  <1>10. Sound(ReadTypeBy(g, i, c), c)
    BY <1>2, <1>6, <1>7, <1>8, <1>9
  <1> QED
    BY <1>4, <1>10

LEMMA CountedLocal ==
    ASSUME NEW g, NEW h, NEW c \in Bytes, NEW k \in Nat, Agree(g, h, Len(c)), SoundTo(g, Len(c))
    PROVE  /\ CountedBy(g, c)[k] = CountedBy(h, c)[k]
           /\ Sound(CountedBy(g, c)[k], c)
  <1> DEFINE name  == ReadString(c)
             index == After(name, ReadU8(name.c))
             type  == After(index, ReadTypeBy(g, index.v, index.c))
             typeh == After(index, ReadTypeBy(h, index.v, index.c))
             rest  == After(type, g[type.c][k - 1])
             resth == After(typeh, h[typeh.c][k - 1])
             got(t, r) == After(r, Got(<<[name |-> name.v, type |-> t.v]>> \o r.v, r.c))
  <1>1. /\ CountedBy(g, c)[k] = IF k = 0 THEN Got(<<>>, c) ELSE got(type, rest)
        /\ CountedBy(h, c)[k] = IF k = 0 THEN Got(<<>>, c) ELSE got(typeh, resth)
    <2>1. CASE k = 0
      BY <2>1 DEF CountedBy
    <2>2. InTurn(g, c, k) = got(type, rest) /\ InTurn(h, c, k) = got(typeh, resth)
      BY DEF InTurn
    <2> HIDE DEF got, type, rest, typeh, resth
    <2>3. CASE k # 0
      BY <2>2, <2>3, CountedInTurn
    <2> QED
      BY <2>1, <2>3
  <1>2. Len(c) \in Nat /\ \A d \in Bytes : Len(d) \in Nat
    BY DEF Bytes
  <1>3. Sound(name, c) /\ (Ok(name) => Len(name.c) < Len(c))
    BY StringSound
  <1>4. index = IF Ok(name) THEN ReadU8(name.c) ELSE name
    BY DEF After
  <1>5. type = (IF Ok(index) THEN ReadTypeBy(g, index.v, index.c) ELSE index)
        /\ typeh = IF Ok(index) THEN ReadTypeBy(h, index.v, index.c) ELSE index
    BY DEF After
  <1>6. rest = (IF Ok(type) THEN g[type.c][k - 1] ELSE type)
        /\ resth = IF Ok(typeh) THEN h[typeh.c][k - 1] ELSE typeh
    BY DEF After
  <1>7. \A t, r : got(t, r) = IF Ok(r) THEN Got(<<[name |-> name.v, type |-> t.v]>> \o r.v, r.c) ELSE r
    BY DEF After
  <1> HIDE DEF name, index, type, typeh, rest, resth, got
  <1>8. Sound(index, c) /\ (Ok(index) => Len(index.c) < Len(c))
    <2>1. CASE Ok(name)
      <3>1. name.c \in Bytes /\ Len(name.c) < Len(c)
        BY <1>3, <2>1, NotOkSound
      <3>2. Sound(index, name.c) /\ (Ok(index) => Len(index.c) < Len(name.c))
        BY <1>4, <2>1, <3>1, U8Sound
      <3>3. Sound(index, c)
        BY <1>2, <3>1, <3>2, SoundAfter
      <3>4. Ok(index) => Len(index.c) < Len(c)
        BY <1>2, <3>1, <3>2, NotOkSound
      <3> QED
        BY <3>3, <3>4
    <2> QED
      BY <1>3, <1>4, <2>1
  <1>9. type = typeh /\ Sound(type, c) /\ (Ok(type) => Len(type.c) < Len(c))
    <2>1. CASE Ok(index)
      <3>1. index.c \in Bytes /\ Len(index.c) < Len(c)
        BY <1>8, <2>1, NotOkSound
      <3>2. Agree(g, h, Len(index.c)) /\ SoundTo(g, Len(index.c))
        <4>1. ASSUME NEW d \in Bytes, Len(d) < Len(index.c) PROVE Len(d) < Len(c)
          BY <1>2, <3>1, <4>1
        <4> QED
          BY <4>1 DEF Agree, SoundTo
      <3>3. type = typeh /\ Sound(type, index.c)
        BY <1>5, <2>1, <3>1, <3>2, TypeLocal
      <3>4. Sound(type, c)
        BY <1>2, <3>1, <3>3, SoundAfter
      <3>5. Ok(type) => Len(type.c) < Len(c)
        BY <1>2, <3>1, <3>3, NotOkSound
      <3> QED
        BY <3>3, <3>4, <3>5
    <2> QED
      BY <1>5, <1>8, <2>1
  <1>10. ASSUME k # 0 PROVE rest = resth /\ Sound(rest, c)
    <2>1. CASE Ok(type)
      <3>1. type.c \in Bytes /\ Len(type.c) < Len(c) /\ k - 1 \in Nat
        BY <1>9, <1>10, <2>1, NotOkSound
      <3>2. g[type.c] = h[type.c] /\ Sound(g[type.c][k - 1], type.c)
        BY <3>1 DEF Agree, SoundTo
      <3>3. Sound(rest, type.c) /\ rest = resth
        BY <1>6, <1>9, <2>1, <3>2
      <3> QED
        BY <1>2, <3>1, <3>3, SoundAfter
    <2> QED
      BY <1>6, <1>9, <2>1
  <1>11. \A v, w : w \in Bytes /\ Len(w) <= Len(c) => Sound(Got(v, w), c)
    BY Results DEF Sound
  <1>12. CASE k = 0
    BY <1>1, <1>2, <1>11, <1>12
  <1>13. CASE k # 0
    <2>1. got(type, rest) = got(typeh, resth)
      BY <1>9, <1>10, <1>13
    <2>2. Sound(got(type, rest), c)
      BY <1>7, <1>10, <1>11, <1>13, NotOkSound
    <2> QED
      BY <1>1, <1>13, <2>1, <2>2
  <1> QED
    BY <1>12, <1>13

\* As far as cursors shorter than m.
Shorter(m) == {c \in Bytes : Len(c) < m}
IsReader(f, m) ==
    /\ f = [c \in Shorter(m) |-> CountedBy(f, c)]
    /\ SoundTo(f, m)

LEMMA ReadersTo == \A m \in Nat : \E f : IsReader(f, m)
  <1> DEFINE Fails == {m \in Nat : ~\E f : IsReader(f, m)}
  <1>1. ASSUME Fails # {} PROVE FALSE
    <2>1. PICK m \in Fails : \A k \in Fails : m <= k
      <3>1. Fails \subseteq Nat
        OBVIOUS
      <3> HIDE DEF Fails
      <3> QED
        BY <1>1, <3>1, LeastOf
    <2>2. CASE m = 0
      <3> DEFINE f == [c \in Shorter(m) |-> 0]
      <3>1. Shorter(m) = {}
        <4>1. ASSUME NEW c \in Shorter(m) PROVE FALSE
          BY <2>2, <4>1 DEF Shorter, Bytes
        <4> QED
          BY <4>1
      <3>2. f = [c \in Shorter(m) |-> CountedBy(f, c)]
        BY <3>1
      <3>3. SoundTo(f, m)
        BY <3>1 DEF SoundTo, Shorter
      <3> QED
        BY <2>1, <3>2, <3>3 DEF IsReader
    <2>3. CASE m # 0
      <3>1. m - 1 \in Nat /\ m - 1 \notin Fails
        BY <2>1, <2>3
      <3>2. PICK g : IsReader(g, m - 1)
        BY <3>1
      <3> DEFINE f == [c \in Shorter(m) |-> CountedBy(g, c)]
      <3>3. ASSUME NEW c \in Shorter(m)
            PROVE  /\ c \in Bytes /\ Agree(g, f, Len(c)) /\ SoundTo(g, Len(c))
        <4>1. c \in Bytes /\ Len(c) < m /\ Len(c) \in Nat
          BY DEF Shorter, Bytes
        <4>2. ASSUME NEW d \in Bytes, Len(d) < Len(c) PROVE d \in Shorter(m - 1) /\ d \in Shorter(m) /\ Len(d) < m - 1
          <5>1. Len(d) \in Nat
            BY DEF Bytes
          <5>2. Len(d) < m - 1 /\ Len(d) < m
            BY <2>1, <4>1, <4>2, <5>1
          <5> QED
            BY <5>2 DEF Shorter
        <4>3. ASSUME NEW d \in Bytes, Len(d) < Len(c) PROVE g[d] = f[d]
          <5>1. d \in Shorter(m - 1) /\ d \in Shorter(m)
            BY <4>2, <4>3
          <5>2. g[d] = CountedBy(g, d)
            BY <3>2, <5>1 DEF IsReader
          <5> QED
            BY <5>1, <5>2
        <4>4. SoundTo(g, Len(c))
          <5>1. SoundTo(g, m - 1)
            BY <3>2 DEF IsReader
          <5> QED
            BY <4>2, <5>1 DEF SoundTo
        <4> QED
          BY <4>1, <4>3, <4>4 DEF Agree
      <3>4. ASSUME NEW c \in Shorter(m)
            PROVE  CountedBy(g, c) = CountedBy(f, c) /\ \A k \in Nat : Sound(CountedBy(g, c)[k], c)
        <4> HIDE DEF f
        <4>1. \A k \in Nat : CountedBy(g, c)[k] = CountedBy(f, c)[k] /\ Sound(CountedBy(g, c)[k], c)
          BY <3>3, CountedLocal
        <4>2. /\ CountedBy(g, c) = [k \in Nat |-> CountedBy(g, c)[k]]
              /\ CountedBy(f, c) = [k \in Nat |-> CountedBy(f, c)[k]]
          BY DEF CountedBy
        <4> QED
          BY <4>1, <4>2
      <3>5. f = [c \in Shorter(m) |-> CountedBy(f, c)]
        <4> DEFINE e == [c \in Shorter(m) |-> CountedBy(f, c)]
        <4>1. \A c \in Shorter(m) : f[c] = e[c]
          BY <3>4
        <4>2. e = f
          BY <4>1
        <4> QED
          BY <4>2
      <3>6. SoundTo(f, m)
        BY <3>4 DEF SoundTo, Shorter
      <3> QED
        BY <2>1, <3>5, <3>6 DEF IsReader
    <2> QED
      BY <2>2, <2>3
  <1> QED
    BY <1>1

\* Two readers agree as far as both go.
LEMMA ReadersAgree ==
    ASSUME NEW f, NEW g, NEW m \in Nat, NEW n \in Nat, IsReader(f, m), IsReader(g, n),
           NEW c \in Bytes, Len(c) < m, Len(c) < n
    PROVE  f[c] = g[c]
  <1> DEFINE Fails == {k \in Nat : \E d \in Bytes : Len(d) = k /\ k < m /\ k < n /\ f[d] # g[d]}
  <1>1. ASSUME Fails # {} PROVE FALSE
    <2>1. PICK k \in Fails : \A j \in Fails : k <= j
      <3>1. Fails \subseteq Nat
        OBVIOUS
      <3> HIDE DEF Fails
      <3> QED
        BY <1>1, <3>1, LeastOf
    <2>2. PICK d \in Bytes : Len(d) = k /\ k < m /\ k < n /\ f[d] # g[d]
      BY <2>1
    <2>3. Agree(f, g, Len(d))
      <3>1. ASSUME NEW e \in Bytes, Len(e) < Len(d), f[e] # g[e] PROVE FALSE
        <4>1. Len(e) \in Nat /\ Len(e) < k /\ k \in Nat
          BY <2>1, <2>2, <3>1 DEF Bytes
        <4>2. Len(e) < m /\ Len(e) < n
          BY <4>1, <2>2
        <4>3. Len(e) \in Fails
          BY <3>1, <4>1, <4>2
        <4>4. k <= Len(e)
          BY <2>1, <4>3
        <4> QED
          BY <4>1, <4>4
      <3> QED
        BY <3>1 DEF Agree
    <2>4. SoundTo(f, Len(d))
      <3>1. ASSUME NEW e \in Bytes, Len(e) < Len(d) PROVE Len(e) < m
        <4>1. Len(e) \in Nat /\ Len(d) \in Nat
          BY DEF Bytes
        <4> QED
          BY <4>1, <2>2, <3>1
      <3>2. SoundTo(f, m)
        BY DEF IsReader
      <3> QED
        BY <3>1, <3>2 DEF SoundTo
    <2>5. \A k0 \in Nat : CountedBy(f, d)[k0] = CountedBy(g, d)[k0]
      BY <2>3, <2>4, CountedLocal
    <2>6. /\ CountedBy(f, d) = [k0 \in Nat |-> CountedBy(f, d)[k0]]
          /\ CountedBy(g, d) = [k0 \in Nat |-> CountedBy(g, d)[k0]]
      BY DEF CountedBy
    <2>7. CountedBy(f, d) = CountedBy(g, d)
      BY <2>5, <2>6
    <2>8. d \in Shorter(m) /\ d \in Shorter(n)
      BY <2>2 DEF Shorter
    <2>9. f[d] = CountedBy(f, d) /\ g[d] = CountedBy(g, d)
      BY <2>8 DEF IsReader
    <2> QED
      BY <2>2, <2>7, <2>9
  <1>2. ASSUME f[c] # g[c] PROVE FALSE
    <2>1. Len(c) \in Nat
      BY DEF Bytes
    <2>2. Len(c) \in Fails
      BY <1>2, <2>1
    <2> QED
      BY <1>1, <2>2
  <1> QED
    BY <1>2

\* The reader of every cursor.
LEMMA ReadCountedDef ==
    /\ ReadCounted = [c \in Bytes |-> CountedBy(ReadCounted, c)]
    /\ \A c \in Bytes, n \in Nat : Sound(ReadCounted[c][n], c)
  <1> DEFINE F(m) == CHOOSE f : IsReader(f, m)
             R    == [c \in Bytes |-> F(Len(c) + 1)[c]]
  <1>1. \A m \in Nat : IsReader(F(m), m)
    BY ReadersTo
  <1> HIDE DEF F
  <1>2. ASSUME NEW c \in Bytes
        PROVE  /\ Len(c) + 1 \in Nat /\ IsReader(F(Len(c) + 1), Len(c) + 1) /\ Len(c) < Len(c) + 1
               /\ c \in Shorter(Len(c) + 1)
               /\ Agree(F(Len(c) + 1), R, Len(c)) /\ SoundTo(F(Len(c) + 1), Len(c) + 1)
               /\ SoundTo(F(Len(c) + 1), Len(c))
    <2>1. Len(c) \in Nat
      BY DEF Bytes
    <2>2. Len(c) + 1 \in Nat /\ IsReader(F(Len(c) + 1), Len(c) + 1) /\ Len(c) < Len(c) + 1
      BY <1>1, <2>1
    <2>3. SoundTo(F(Len(c) + 1), Len(c) + 1)
      BY <2>2 DEF IsReader
    <2>4. SoundTo(F(Len(c) + 1), Len(c))
      <3>1. ASSUME NEW d \in Bytes, Len(d) < Len(c) PROVE Len(d) < Len(c) + 1
        <4>1. Len(d) \in Nat
          BY DEF Bytes
        <4> QED
          BY <2>1, <3>1, <4>1
      <3> QED
        BY <2>3, <3>1 DEF SoundTo
    <2>5. ASSUME NEW d \in Bytes, Len(d) < Len(c) PROVE F(Len(c) + 1)[d] = R[d]
      <3>1. Len(d) \in Nat
        BY DEF Bytes
      <3>2. Len(d) < Len(c) + 1 /\ Len(d) < Len(d) + 1 /\ Len(d) + 1 \in Nat
        BY <2>1, <2>5, <3>1
      <3>3. IsReader(F(Len(d) + 1), Len(d) + 1)
        BY <1>1, <3>2
      <3>4. F(Len(c) + 1)[d] = F(Len(d) + 1)[d]
        BY <2>2, <3>2, <3>3, ReadersAgree
      <3> QED
        BY <3>4
    <2> QED
      BY <2>2, <2>3, <2>4, <2>5 DEF Agree, Shorter
  <1>3. ASSUME NEW c \in Bytes
        PROVE  R[c] = CountedBy(R, c) /\ \A n \in Nat : Sound(R[c][n], c)
    <2> DEFINE f == F(Len(c) + 1)
    <2>0. R[c] = f[c]
      OBVIOUS
    <2> HIDE DEF f, R
    <2>1. \A k \in Nat : CountedBy(f, c)[k] = CountedBy(R, c)[k]
      BY <1>2, CountedLocal DEF f
    <2>2. CountedBy(f, c) = CountedBy(R, c)
      <3>1. /\ CountedBy(f, c) = [k \in Nat |-> CountedBy(f, c)[k]]
            /\ CountedBy(R, c) = [k \in Nat |-> CountedBy(R, c)[k]]
        BY DEF CountedBy
      <3> QED
        BY <2>1, <3>1
    <2>3. f[c] = CountedBy(f, c)
      <3>1. IsReader(f, Len(c) + 1) /\ c \in Shorter(Len(c) + 1)
        BY <1>2 DEF f
      <3> QED
        BY <3>1 DEF IsReader
    <2>4. \A n \in Nat : Sound(f[c][n], c)
      BY <1>2 DEF f, SoundTo
    <2> QED
      BY <2>0, <2>2, <2>3, <2>4
  <1>4. R = [c \in Bytes |-> CountedBy(R, c)]
    <2> DEFINE e == [c \in Bytes |-> CountedBy(R, c)]
    <2>1. \A c \in Bytes : e[c] = R[c]
      BY <1>3
    <2>2. R = e
      BY <2>1
    <2> QED
      BY <2>2
  <1>5. ReadCounted = [c \in Bytes |-> CountedBy(ReadCounted, c)]
    <2> HIDE DEF R
    <2> QED
      BY <1>4, ReadCountedIs
  <1> DEFINE Q == ReadCounted
             Fails == {k \in Nat : \E d \in Bytes, n \in Nat : Len(d) = k /\ ~Sound(Q[d][n], d)}
  <1> HIDE DEF R, Q
  <1>6. ASSUME Fails # {} PROVE FALSE
    <2>1. PICK k \in Fails : \A j \in Fails : k <= j
      <3>1. Fails \subseteq Nat
        OBVIOUS
      <3> HIDE DEF Fails
      <3> QED
        BY <1>6, <3>1, LeastOf
    <2>2. PICK d \in Bytes, n \in Nat : Len(d) = k /\ ~Sound(Q[d][n], d)
      BY <2>1
    <2>3. SoundTo(Q, Len(d))
      <3>1. ASSUME NEW e \in Bytes, Len(e) < Len(d), NEW i \in Nat, ~Sound(Q[e][i], e) PROVE FALSE
        <4>1. Len(e) \in Nat /\ k \in Nat /\ Len(e) < k
          BY <2>1, <2>2, <3>1 DEF Bytes
        <4>2. Len(e) \in Fails
          BY <3>1, <4>1
        <4>3. k <= Len(e)
          BY <2>1, <4>2
        <4> QED
          BY <4>1, <4>3
      <3> QED
        BY <3>1 DEF SoundTo
    <2>4. Sound(CountedBy(Q, d)[n], d)
      BY <2>3, CountedLocal DEF Agree
    <2>5. Q[d] = CountedBy(Q, d)
      BY <1>5 DEF Q
    <2> QED
      BY <2>2, <2>4, <2>5
  <1>7. ASSUME NEW c \in Bytes, NEW n \in Nat PROVE Sound(ReadCounted[c][n], c)
    <2>1. ASSUME ~Sound(Q[c][n], c) PROVE FALSE
      <3>1. Len(c) \in Nat
        BY DEF Bytes
      <3>2. Len(c) \in Fails
        BY <2>1, <3>1
      <3> QED
        BY <1>6, <3>2
    <2> QED
      BY <2>1 DEF Q
  <1> QED
    BY <1>5, <1>7

-----------------------------------------------------------------------------
(* Recursion over the elements of a list: what comes of a by n steps. *)

StepBy(f, n, step, a) == f[0] = a /\ \A j \in 1..n : f[j] = step[j][f[j - 1]]

LEMMA StepsExist ==
    ASSUME NEW S, NEW n \in Nat, NEW step \in [1..n -> [S -> S]], NEW a \in S
    PROVE  \E f \in [0..n -> S] : StepBy(f, n, step, a)
  <1> DEFINE Fails == {m \in 0..n : ~\E f \in [0..m -> S] : StepBy(f, m, step, a)}
  <1>1. ASSUME Fails # {} PROVE FALSE
    <2>1. PICK m \in Fails : \A k \in Fails : m <= k
      <3>1. Fails \subseteq Nat
        OBVIOUS
      <3> HIDE DEF Fails
      <3> QED
        BY <1>1, <3>1, LeastOf
    <2>2. CASE m = 0
      <3> DEFINE f == [j \in 0..m |-> a]
      <3>1. f \in [0..m -> S] /\ StepBy(f, m, step, a)
        BY <2>2 DEF StepBy
      <3> QED
        BY <2>1, <3>1
    <2>3. CASE m # 0
      <3>1. m - 1 \in 0..n /\ m - 1 \notin Fails /\ m \in 1..n
        BY <2>1, <2>3
      <3>2. PICK g \in [0..(m - 1) -> S] : StepBy(g, m - 1, step, a)
        BY <3>1
      <3> DEFINE f == [j \in 0..m |-> IF j = m THEN step[m][g[m - 1]] ELSE g[j]]
      <3>3. step[m][g[m - 1]] \in S
        <4>1. m - 1 \in 0..(m - 1) /\ step[m] \in [S -> S]
          BY <3>1
        <4> QED
          BY <4>1
      <3>4. f \in [0..m -> S]
        <4>1. \A j \in 0..m : j # m => j \in 0..(m - 1)
          BY <3>1
        <4> QED
          BY <3>3, <4>1
      <3>5. StepBy(f, m, step, a)
        <4>1. f[0] = a
          BY <2>3, <3>1, <3>2 DEF StepBy
        <4>2. ASSUME NEW j \in 1..m PROVE f[j] = step[j][f[j - 1]]
          <5>1. j - 1 \in 0..m /\ j - 1 # m /\ f[j - 1] = g[j - 1]
            BY <3>1
          <5>2. CASE j = m
            BY <5>1, <5>2
          <5>3. CASE j # m
            <6>1. j \in 1..(m - 1) /\ f[j] = g[j]
              BY <3>1, <5>3
            <6> QED
              BY <3>2, <5>1, <6>1 DEF StepBy
          <5> QED
            BY <5>2, <5>3
        <4> QED
          BY <4>1, <4>2 DEF StepBy
      <3> HIDE DEF f
      <3> QED
        BY <2>1, <3>4, <3>5
    <2> QED
      BY <2>2, <2>3
  <1>2. n \notin Fails
    BY <1>1
  <1>3. n \in 0..n
    OBVIOUS
  <1> QED
    BY <1>2, <1>3

\* Flattened parts are the first part and the flattened others: rest[j] is what
\* follows the j-th part.
Unfolds(rest, ss, n) ==
    /\ rest \in [0..n -> Bytes] /\ rest[n] = <<>>
    /\ \A j \in 1..n : rest[j - 1] = ss[j] \o rest[j]

\* x and y make z.
Make(x, y, z) == x \in Bytes /\ x \o y = z

LEMMA MakeMore ==
    ASSUME NEW x, NEW y \in Bytes, NEW r \in Bytes, NEW z, Make(x, y \o r, z)
    PROVE  Make(x \o y, r, z)
  <1>1. x \in Bytes /\ x \o (y \o r) = z
    BY DEF Make
  <1>2. x \o y \in Bytes
    BY <1>1, Closed
  <1>3. (x \o y) \o r = x \o (y \o r)
    BY <1>1, Assoc
  <1> QED
    BY <1>1, <1>2, <1>3 DEF Make

LEMMA MakeAll ==
    ASSUME NEW x, NEW z, Make(x, <<>>, z)
    PROVE  x = z
  BY ByteSeqs DEF Make

LEMMA FlattenUnfolds ==
    ASSUME NEW n \in Nat, NEW ss \in [1..n -> Bytes]
    PROVE  \E rest : Unfolds(rest, ss, n) /\ FlattenSeq(ss) = rest[0]
  <1>0. Len(ss) = n /\ ss \in Seq(Bytes)
    BY FunctionIsSeq
  <1>1. PICK rest : Unfolds(rest, ss, n)
    <2> DEFINE step == [j \in 1..n |-> [x \in Bytes |-> ss[n + 1 - j] \o x]]
    <2>1. \A j \in 1..n : n + 1 - j \in 1..n /\ ss[n + 1 - j] \in Bytes
      OBVIOUS
    <2>2. step \in [1..n -> [Bytes -> Bytes]]
      BY <2>1, ByteSeqs
    <2>3. PICK f \in [0..n -> Bytes] : StepBy(f, n, step, <<>>)
      <3> HIDE DEF step
      <3> QED
        BY <2>2, ByteSeqs, StepsExist
    <2> DEFINE rest == [j \in 0..n |-> f[n - j]]
    <2>4. rest \in [0..n -> Bytes]
      <3>1. \A j \in 0..n : n - j \in 0..n
        OBVIOUS
      <3> QED
        BY <3>1
    <2>5. rest[n] = <<>>
      <3>1. n \in 0..n /\ n - n = 0
        OBVIOUS
      <3> QED
        BY <2>3, <3>1 DEF StepBy
    <2>6. ASSUME NEW j \in 1..n PROVE rest[j - 1] = ss[j] \o rest[j]
      <3>1. /\ j - 1 \in 0..n /\ j \in 0..n /\ n - (j - 1) \in 1..n /\ (n - (j - 1)) - 1 = n - j
            /\ n + 1 - (n - (j - 1)) = j /\ n - j \in 0..n
        OBVIOUS
      <3>2. f[n - (j - 1)] = step[n - (j - 1)][f[n - j]]
        BY <2>3, <3>1 DEF StepBy
      <3>3. f[n - j] \in Bytes
        BY <3>1
      <3>4. step[n - (j - 1)] = [x \in Bytes |-> ss[n + 1 - (n - (j - 1))] \o x]
        BY <3>1
      <3>5. f[n - (j - 1)] = ss[j] \o f[n - j]
        BY <3>1, <3>2, <3>3, <3>4
      <3> QED
        BY <3>1, <3>5
    <2> HIDE DEF rest
    <2> QED
      BY <2>4, <2>5, <2>6 DEF Unfolds
  <1>2. rest \in [0..n -> Bytes] /\ rest[n] = <<>> /\ \A j \in 1..n : rest[j - 1] = ss[j] \o rest[j]
    BY <1>1 DEF Unfolds
  <1>3. CASE n = 0
    <2>1. ss = <<>> /\ rest[0] = <<>>
      BY <1>0, <1>2, <1>3
    <2> QED
      BY <1>0, <1>1, <1>3, <2>1 DEF FlattenSeq
  <1>4. CASE n # 0
    <2> DEFINE A(g) == [i \in 1..n |-> IF i = 1 THEN ss[i] ELSE g[i - 1] \o ss[i]]
               chosen == CHOOSE g : g = A(g)
    <2>1. FlattenSeq(ss) = chosen[n]
      BY <1>0, <1>4 DEF FlattenSeq
    <2>2. PICK g : g = A(g)
      <3> DEFINE step == [j \in 1..n |-> [x \in Bytes |-> x \o ss[j]]]
      <3>1. step \in [1..n -> [Bytes -> Bytes]]
        BY ByteSeqs
      <3>2. PICK f \in [0..n -> Bytes] : StepBy(f, n, step, <<>>)
        <4> HIDE DEF step
        <4> QED
          BY <3>1, ByteSeqs, StepsExist
      <3> DEFINE g == [j \in 1..n |-> f[j]]
      <3>3. ASSUME NEW i \in 1..n PROVE g[i] = IF i = 1 THEN ss[i] ELSE g[i - 1] \o ss[i]
        <4>1. i - 1 \in 0..n /\ f[i - 1] \in Bytes /\ f[i] = step[i][f[i - 1]]
          <5>1. i - 1 \in 0..n /\ f[i - 1] \in Bytes
            OBVIOUS
          <5>2. f[i] = step[i][f[i - 1]]
            BY <3>2 DEF StepBy
          <5> QED
            BY <5>1, <5>2
        <4>2. f[i] = f[i - 1] \o ss[i]
          BY <4>1
        <4>3. CASE i = 1
          <5>1. f[i - 1] = <<>>
            BY <3>2, <4>3 DEF StepBy
          <5>2. ss[i] \in Bytes
            OBVIOUS
          <5> QED
            BY <4>2, <4>3, <5>1, <5>2, ByteSeqs
        <4>4. CASE i # 1
          <5>1. i - 1 \in 1..n
            BY <4>4
          <5> QED
            BY <4>2, <4>4, <5>1
        <4> QED
          BY <4>3, <4>4
      <3>4. g = A(g)
        <4> DEFINE h == A(g)
        <4>1. \A i \in 1..n : h[i] = g[i]
          BY <3>3
        <4>2. g = h
          BY <4>1
        <4> QED
          BY <4>2
      <3> QED
        BY <3>4
    <2>3. PICK flat : flat = A(flat) /\ FlattenSeq(ss) = flat[n]
      <3> HIDE DEF A
      <3> QED
        BY <2>1, <2>2
    <2>4. \A i \in 1..n : flat[i] = IF i = 1 THEN ss[i] ELSE flat[i - 1] \o ss[i]
      BY <2>3
    <2>5. \A i \in 1..n : Make(flat[i], rest[i], rest[0])
      <3> DEFINE Fails == {i \in 1..n : ~Make(flat[i], rest[i], rest[0])}
      <3>1. ASSUME Fails # {} PROVE FALSE
        <4>1. PICK i \in Fails : \A k \in Fails : i <= k
          <5>1. Fails \subseteq Nat
            OBVIOUS
          <5> HIDE DEF Fails
          <5> QED
            BY <3>1, <5>1, LeastOf
        <4>2. CASE i = 1
          <5>1. flat[1] = ss[1] /\ ss[1] \in Bytes /\ rest[1 - 1] = ss[1] \o rest[1]
            BY <2>4, <1>2, <4>2
          <5>2. Make(flat[i], rest[i], rest[0])
            BY <4>2, <5>1 DEF Make
          <5> QED
            BY <4>1, <5>2
        <4>3. CASE i # 1
          <5>1. i - 1 \in 1..n /\ i - 1 \notin Fails
            BY <4>1, <4>3
          <5>2. Make(flat[i - 1], rest[i - 1], rest[0])
            BY <5>1
          <5>3. flat[i] = flat[i - 1] \o ss[i] /\ rest[i - 1] = ss[i] \o rest[i]
            BY <2>4, <1>2, <4>3
          <5>4. ss[i] \in Bytes /\ rest[i] \in Bytes
            BY <1>2
          <5>5. Make(flat[i - 1] \o ss[i], rest[i], rest[0])
            BY <5>2, <5>3, <5>4, MakeMore
          <5> QED
            BY <4>1, <5>3, <5>5
        <4> QED
          BY <4>2, <4>3
      <3> QED
        BY <3>1
    <2>6. n \in 1..n
      BY <1>4
    <2>7. flat[n] = rest[0]
      BY <1>2, <2>5, <2>6, MakeAll
    <2>8. FlattenSeq(ss) = rest[0]
      BY <2>3, <2>7
    <2> QED
      BY <1>1, <2>8
  <1> QED
    BY <1>3, <1>4

-----------------------------------------------------------------------------
(* Types, by the depth of their aggregates. *)

Primitives == {FieldTypes[j] : j \in 1..11}
Leaves     == [kind : Primitives] \cup [kind : {"StringType"}, capacity : Nat]
Aggregates(T) == [kind : {"AggregateType"}, fields : FieldList(T)]

Depths == 0..MaxNesting

LEMMA DepthsNat ==
    /\ MaxNesting \in Nat /\ MaxNesting # 0 /\ Depths \subseteq Nat
    /\ 0 \in Depths /\ MaxNesting \in Depths /\ MaxNesting - 1 \in Depths
    /\ \A d \in Depths : d # 0 => d - 1 \in Depths
  BY NestingAssumption DEF Depths

TypesBy(f, d) == Leaves \cup IF d = 0 THEN {} ELSE Aggregates(f[d - 1])

LEMMA TypesToDef == TypesTo = [d \in Depths |-> TypesBy(TypesTo, d)]
  <1> DEFINE Fails == {n \in Depths : ~\E f : f = [d \in 0..n |-> TypesBy(f, d)]}
  <1>1. ASSUME Fails # {} PROVE FALSE
    <2>1. PICK n \in Fails : \A k \in Fails : n <= k
      <3>1. Fails \subseteq Nat
        BY DepthsNat
      <3> HIDE DEF Fails
      <3> QED
        BY <1>1, <3>1, LeastOf
    <2>2. n \in Nat /\ n \in Depths
      BY DepthsNat
    <2>3. CASE n = 0
      <3> DEFINE f == [d \in 0..n |-> Leaves]
                 g == [d \in 0..n |-> TypesBy(f, d)]
      <3>1. \A d \in 0..n : f[d] = g[d]
        BY <2>3 DEF TypesBy
      <3>2. f = g
        BY <3>1
      <3> QED
        BY <2>1, <3>2
    <2>4. CASE n # 0
      <3>1. n - 1 \in Depths /\ n - 1 \notin Fails
        BY <2>1, <2>2, <2>4, DepthsNat
      <3>2. PICK f : f = [d \in 0..(n - 1) |-> TypesBy(f, d)]
        BY <3>1
      <3> DEFINE h == [d \in 0..n |-> IF d = n THEN TypesBy(f, d) ELSE f[d]]
                 g == [d \in 0..n |-> TypesBy(h, d)]
      <3>3. ASSUME NEW d \in 0..n PROVE h[d] = g[d]
        <4>1. d # 0 => d - 1 \in 0..n /\ d - 1 # n /\ h[d - 1] = f[d - 1]
          BY <2>2
        <4>2. TypesBy(h, d) = TypesBy(f, d)
          BY <4>1 DEF TypesBy
        <4>3. d # n => d \in 0..(n - 1) /\ f[d] = TypesBy(f, d)
          BY <2>2, <3>2
        <4> QED
          BY <4>2, <4>3
      <3>4. h = g
        BY <3>3
      <3> QED
        BY <2>1, <3>4
    <2> QED
      BY <2>3, <2>4
  <1>2. PICK f : f = [d \in Depths |-> TypesBy(f, d)]
    <2>1. MaxNesting \notin Fails /\ MaxNesting \in Depths
      BY <1>1, DepthsNat
    <2> QED
      BY <2>1 DEF Depths
  <1>3. TypesTo = CHOOSE g : g = [d \in Depths |-> TypesBy(g, d)]
    BY DEF TypesTo, TypesBy, Depths, Leaves, Primitives, Aggregates
  <1> QED
    BY <1>2, <1>3

\* What a type of depth d is.
LEMMA TypeShape ==
    ASSUME NEW d \in Depths, NEW t
    PROVE  t \in TypesTo[d] <=> \/ t \in Leaves
                                \/ d # 0 /\ t \in Aggregates(TypesTo[d - 1])
  BY TypesToDef DEF TypesBy

LEMMA KindsDiffer ==
    /\ \A k \in Primitives : k # "StringType" /\ k # "AggregateType"
    /\ \A j \in 1..11 : FieldTypes[j] \in Primitives
  BY DEF Primitives, FieldTypes

LEMMA LeafShape ==
    ASSUME NEW t \in Leaves
    PROVE  /\ t.kind # "AggregateType"
           /\ t.kind = "StringType" => t = [kind |-> "StringType", capacity |-> t.capacity] /\ t.capacity \in Nat
           /\ t.kind # "StringType" => t = [kind |-> t.kind] /\ t.kind \in Primitives
  BY KindsDiffer DEF Leaves

LEMMA AggregateShape ==
    ASSUME NEW T, NEW t \in Aggregates(T)
    PROVE  /\ t.kind = "AggregateType" /\ t.fields \in FieldList(T)
           /\ t = [kind |-> "AggregateType", fields |-> t.fields]
  BY DEF Aggregates

LEMMA FieldListShape ==
    ASSUME NEW T, NEW fs \in FieldList(T)
    PROVE  /\ Len(fs) \in Nat \ {0} /\ Len(fs) < Limit /\ DOMAIN fs = 1..Len(fs)
           /\ \A j \in 1..Len(fs) : /\ fs[j].name \in Names /\ fs[j].type \in T
                                    /\ fs[j] = [name |-> fs[j].name, type |-> fs[j].type]
  <1>1. fs \in Seq([name : Names, type : T]) /\ Len(fs) \in 1..(Limit - 1)
    BY DEF FieldList
  <1>2. \A j \in 1..Len(fs) : fs[j] \in [name : Names, type : T]
    BY <1>1, ElementOfSeq
  <1> QED
    BY <1>1, <1>2, LimitNat

LEMMA DeeperTypes ==
    ASSUME NEW d \in Depths, NEW e \in Depths, d <= e
    PROVE  TypesTo[d] \subseteq TypesTo[e]
  <1> DEFINE Fails == {n \in Depths : \E k \in Depths : n <= k /\ ~(TypesTo[n] \subseteq TypesTo[k])}
  <1>1. ASSUME Fails # {} PROVE FALSE
    <2>1. PICK n \in Fails : \A k \in Fails : n <= k
      <3>1. Fails \subseteq Nat
        BY DepthsNat
      <3> HIDE DEF Fails
      <3> QED
        BY <1>1, <3>1, LeastOf
    <2>2. PICK k \in Depths : n <= k /\ ~(TypesTo[n] \subseteq TypesTo[k])
      BY <2>1
    <2>3. n \in Nat /\ k \in Nat /\ n \in Depths
      BY DepthsNat
    <2>4. PICK t \in TypesTo[n] : t \notin TypesTo[k]
      BY <2>2
    <2>5. t \notin Leaves
      BY <2>4, TypeShape
    <2>6. n # 0 /\ t \in Aggregates(TypesTo[n - 1])
      BY <2>3, <2>4, <2>5, TypeShape
    <2>7. n - 1 \in Depths /\ k - 1 \in Depths /\ n - 1 <= k - 1 /\ ~(n <= n - 1) /\ k # 0
      BY <2>2, <2>3, <2>6, DepthsNat
    <2>8. TypesTo[n - 1] \subseteq TypesTo[k - 1]
      BY <2>1, <2>7
    <2>9. Aggregates(TypesTo[n - 1]) \subseteq Aggregates(TypesTo[k - 1])
      <3>1. FieldList(TypesTo[n - 1]) \subseteq FieldList(TypesTo[k - 1])
        <4>1. ASSUME NEW fs \in FieldList(TypesTo[n - 1]) PROVE fs \in FieldList(TypesTo[k - 1])
          <5>1. \A j \in 1..Len(fs) : fs[j] \in [name : Names, type : TypesTo[k - 1]]
            <6>1. ASSUME NEW j \in 1..Len(fs) PROVE fs[j] \in [name : Names, type : TypesTo[k - 1]]
              <7>1. /\ fs[j].name \in Names /\ fs[j].type \in TypesTo[n - 1]
                    /\ fs[j] = [name |-> fs[j].name, type |-> fs[j].type]
                BY FieldListShape
              <7>2. fs[j].type \in TypesTo[k - 1]
                BY <2>8, <7>1
              <7> QED
                BY <7>1, <7>2
            <6> QED
              BY <6>1
          <5>2. fs \in Seq([name : Names, type : TypesTo[n - 1]]) /\ Len(fs) \in 1..(Limit - 1)
            BY DEF FieldList
          <5>3. IsSeq(fs)
            BY <5>2, SeqIsSeq
          <5>4. fs \in Seq([name : Names, type : TypesTo[k - 1]])
            BY <5>1, <5>3, SeqOver
          <5> QED
            BY <5>2, <5>4 DEF FieldList
        <4> QED
          BY <4>1
      <3> QED
        BY <3>1 DEF Aggregates
    <2> QED
      BY <2>4, <2>6, <2>7, <2>9, TypeShape
  <1> QED
    BY <1>1

\* Functions on types, defined by recursion over their fields: what they are of
\* a type depends on what they are of the types one level below.
Below(d) == IF d = 0 THEN {} ELSE TypesTo[d - 1]
AgreeOn(f, g, T) == \A t \in T : f[t] = g[t]

LEMMA TypeCases ==
    ASSUME NEW d \in Depths, NEW t \in TypesTo[d]
    PROVE  \/ t.kind = "StringType" /\ t \in Leaves
           \/ t.kind = "AggregateType" /\ t \in Aggregates(Below(d)) /\ t.fields \in FieldList(Below(d))
           \/ t.kind \in Primitives /\ t \in Leaves
  BY TypeShape, LeafShape, AggregateShape DEF Below

LEMMA TypesSmall == Types = TypesTo[MaxNesting] /\ Fields = FieldList(TypesTo[MaxNesting - 1])
  BY DEF Types, Fields

WriteBy(write, t) ==
    <<IndexIn(FieldTypes, t.kind) - 1>>
    \o (CASE t.kind = "StringType"    -> U32(t.capacity)
          [] t.kind = "AggregateType" -> WriteFieldsBy(write, t.fields)
          [] OTHER                    -> <<>>)

LEMMA WriteFieldsLocal ==
    ASSUME NEW f, NEW g, NEW T, AgreeOn(f, g, T), NEW fs \in FieldList(T)
    PROVE  WriteFieldsBy(f, fs) = WriteFieldsBy(g, fs)
  <1>1. \A j \in 1..Len(fs) : f[fs[j].type] = g[fs[j].type]
    BY FieldListShape DEF AgreeOn
  <1>2. [j \in 1..Len(fs) |-> WriteString(fs[j].name) \o f[fs[j].type]]
        = [j \in 1..Len(fs) |-> WriteString(fs[j].name) \o g[fs[j].type]]
    BY <1>1
  <1> QED
    BY <1>2 DEF WriteFieldsBy

LEMMA WriteLocal ==
    ASSUME NEW d \in Depths, NEW f, NEW g, AgreeOn(f, g, Below(d)), NEW t \in TypesTo[d]
    PROVE  WriteBy(f, t) = WriteBy(g, t)
  <1>1. CASE t.kind = "AggregateType"
    <2>1. WriteFieldsBy(f, t.fields) = WriteFieldsBy(g, t.fields)
      BY <1>1, TypeCases, KindsDiffer, LeafShape, WriteFieldsLocal
    <2> QED
      BY <2>1 DEF WriteBy
  <1>2. CASE t.kind # "AggregateType"
    BY <1>2 DEF WriteBy
  <1> QED
    BY <1>1, <1>2

LEMMA WriteTypeDef == WriteType = [t \in Types |-> WriteBy(WriteType, t)]
  <1> DEFINE Fails == {d \in Depths : ~\E f : f = [t \in TypesTo[d] |-> WriteBy(f, t)]}
  <1>1. ASSUME Fails # {} PROVE FALSE
    <2>1. PICK d \in Fails : \A k \in Fails : d <= k
      <3>1. Fails \subseteq Nat
        BY DepthsNat
      <3> HIDE DEF Fails
      <3> QED
        BY <1>1, <3>1, LeastOf
    <2>2. d \in Nat /\ d \in Depths
      BY DepthsNat
    <2>3. PICK g : d # 0 => g = [t \in TypesTo[d - 1] |-> WriteBy(g, t)]
      <3>1. CASE d # 0
        <4>1. d - 1 \in Depths /\ d - 1 \notin Fails
          BY <2>1, <2>2, <3>1, DepthsNat
        <4> QED
          BY <4>1
      <3> QED
        BY <3>1
    <2> DEFINE f == [t \in TypesTo[d] |-> WriteBy(g, t)]
               h == [t \in TypesTo[d] |-> WriteBy(f, t)]
    <2>4. AgreeOn(f, g, Below(d))
      <3>1. CASE d # 0
        <4>1. d - 1 \in Depths /\ d - 1 <= d
          BY <2>2, <3>1, DepthsNat
        <4>2. TypesTo[d - 1] \subseteq TypesTo[d]
          BY <2>2, <4>1, DeeperTypes
        <4>3. \A t \in TypesTo[d - 1] : f[t] = WriteBy(g, t) /\ g[t] = WriteBy(g, t)
          BY <2>3, <3>1, <4>2
        <4> QED
          BY <3>1, <4>3 DEF AgreeOn, Below
      <3> QED
        BY <3>1 DEF AgreeOn, Below
    <2>5. \A t \in TypesTo[d] : h[t] = f[t]
      <3> HIDE DEF f
      <3>1. \A t \in TypesTo[d] : WriteBy(f, t) = WriteBy(g, t)
        BY <2>2, <2>4, WriteLocal
      <3> QED
        BY <3>1 DEF f
    <2>6. f = h
      BY <2>5
    <2> QED
      BY <2>1, <2>2, <2>6
  <1>2. PICK w : w = [t \in Types |-> WriteBy(w, t)]
    <2>1. MaxNesting \notin Fails /\ MaxNesting \in Depths
      BY <1>1, DepthsNat
    <2> QED
      BY <2>1 DEF Types
  <1>3. WriteType = CHOOSE f : f = [t \in Types |-> WriteBy(f, t)]
    BY DEF WriteType, WriteBy
  <1> QED
    BY <1>2, <1>3

NarrowBy(narrow, t) ==
    CASE t.kind = "StringType"    -> [t EXCEPT !.capacity = @ % Limit]
      [] t.kind = "AggregateType" -> [t EXCEPT !.fields = NarrowFieldsBy(narrow, @)]
      [] OTHER                    -> t

LEMMA NarrowFieldsLocal ==
    ASSUME NEW f, NEW g, NEW T, AgreeOn(f, g, T), NEW fs \in FieldList(T)
    PROVE  NarrowFieldsBy(f, fs) = NarrowFieldsBy(g, fs)
  <1>1. \A j \in 1..Len(fs) : f[fs[j].type] = g[fs[j].type]
    BY FieldListShape DEF AgreeOn
  <1> QED
    BY <1>1 DEF NarrowFieldsBy

LEMMA NarrowLocal ==
    ASSUME NEW d \in Depths, NEW f, NEW g, AgreeOn(f, g, Below(d)), NEW t \in TypesTo[d]
    PROVE  NarrowBy(f, t) = NarrowBy(g, t)
  <1>1. CASE t.kind = "AggregateType"
    <2>1. NarrowFieldsBy(f, t.fields) = NarrowFieldsBy(g, t.fields)
      BY <1>1, TypeCases, KindsDiffer, LeafShape, NarrowFieldsLocal
    <2> QED
      BY <2>1 DEF NarrowBy
  <1>2. CASE t.kind # "AggregateType"
    BY <1>2 DEF NarrowBy
  <1> QED
    BY <1>1, <1>2

LEMMA NarrowTypeDef == NarrowType = [t \in Types |-> NarrowBy(NarrowType, t)]
  <1> DEFINE Fails == {d \in Depths : ~\E f : f = [t \in TypesTo[d] |-> NarrowBy(f, t)]}
  <1>1. ASSUME Fails # {} PROVE FALSE
    <2>1. PICK d \in Fails : \A k \in Fails : d <= k
      <3>1. Fails \subseteq Nat
        BY DepthsNat
      <3> HIDE DEF Fails
      <3> QED
        BY <1>1, <3>1, LeastOf
    <2>2. d \in Nat /\ d \in Depths
      BY DepthsNat
    <2>3. PICK g : d # 0 => g = [t \in TypesTo[d - 1] |-> NarrowBy(g, t)]
      <3>1. CASE d # 0
        <4>1. d - 1 \in Depths /\ d - 1 \notin Fails
          BY <2>1, <2>2, <3>1, DepthsNat
        <4> QED
          BY <4>1
      <3> QED
        BY <3>1
    <2> DEFINE f == [t \in TypesTo[d] |-> NarrowBy(g, t)]
               h == [t \in TypesTo[d] |-> NarrowBy(f, t)]
    <2>4. AgreeOn(f, g, Below(d))
      <3>1. CASE d # 0
        <4>1. d - 1 \in Depths /\ d - 1 <= d
          BY <2>2, <3>1, DepthsNat
        <4>2. TypesTo[d - 1] \subseteq TypesTo[d]
          BY <2>2, <4>1, DeeperTypes
        <4>3. \A t \in TypesTo[d - 1] : f[t] = NarrowBy(g, t) /\ g[t] = NarrowBy(g, t)
          BY <2>3, <3>1, <4>2
        <4> QED
          BY <3>1, <4>3 DEF AgreeOn, Below
      <3> QED
        BY <3>1 DEF AgreeOn, Below
    <2>5. \A t \in TypesTo[d] : h[t] = f[t]
      <3> HIDE DEF f
      <3>1. \A t \in TypesTo[d] : NarrowBy(f, t) = NarrowBy(g, t)
        BY <2>2, <2>4, NarrowLocal
      <3> QED
        BY <3>1 DEF f
    <2>6. f = h
      BY <2>5
    <2> QED
      BY <2>1, <2>2, <2>6
  <1>2. PICK w : w = [t \in Types |-> NarrowBy(w, t)]
    <2>1. MaxNesting \notin Fails /\ MaxNesting \in Depths
      BY <1>1, DepthsNat
    <2> QED
      BY <2>1 DEF Types
  <1>3. NarrowType = CHOOSE f : f = [t \in Types |-> NarrowBy(f, t)]
    BY DEF NarrowType, NarrowBy
  <1> QED
    BY <1>2, <1>3

-----------------------------------------------------------------------------
(* What is written of a schema is read again, narrowed. *)

LEMMA FieldTypesShape == Len(FieldTypes) = 13 /\ DOMAIN FieldTypes = 1..13
  BY DEF FieldTypes

LEMMA IndexOfKind ==
    ASSUME NEW j \in 1..13
    PROVE  IndexIn(FieldTypes, FieldTypes[j]) = j
  <1>1. \A i \in 1..13 : FieldTypes[i] = FieldTypes[j] => i = j
    BY DEF FieldTypes
  <1>2. \E i \in 1..13 : FieldTypes[i] = FieldTypes[j]
    OBVIOUS
  <1> QED
    BY <1>1, <1>2, FieldTypesShape DEF IndexIn

LEMMA LastKinds == FieldTypes[12] = "StringType" /\ FieldTypes[13] = "AggregateType"
  BY DEF FieldTypes

IndexOf(t) == IndexIn(FieldTypes, t.kind) - 1
Encoding(t) ==
    CASE t.kind = "StringType"    -> U32(t.capacity)
      [] t.kind = "AggregateType" -> WriteFieldsBy(WriteType, t.fields)
      [] OTHER                    -> <<>>
TypeReader(i)  == [c \in Bytes |-> ReadTypeBy(ReadCounted, i, c)]
FieldsReader   == [c \in Bytes |-> ReadFieldsBy(ReadCounted, c)]
CountReader(n) == [c \in Bytes |-> ReadCounted[c][n]]

\* Type t is written in bytes from which its narrowed form is read.
Travels(t) ==
    /\ IndexOf(t) \in Byte /\ Encoding(t) \in Bytes
    /\ WriteType[t] = <<IndexOf(t)>> \o Encoding(t)
    /\ Reads(TypeReader(IndexOf(t)), Encoding(t), NarrowType[t])

\* p goes on behind s with a part of t.
Into(p, s, t) == \E r \in Bytes : p = s \o r /\ StrictPrefix(r, t)

LEMMA PrefixOfTwo ==
    ASSUME NEW p \in Bytes, NEW s \in Bytes, NEW t \in Bytes, StrictPrefix(p, s \o t)
    PROVE  StrictPrefix(p, s) \/ Into(p, s, t)
  <1>1. PICK q \in Bytes : q # <<>> /\ p \o q = s \o t
    BY DEF StrictPrefix
  <1>2. CASE Beyond(p, q, s, t)
    <2>1. PICK r \in Bytes : p = s \o r /\ t = r \o q
      BY <1>2 DEF Beyond
    <2>2. StrictPrefix(r, t)
      BY <1>1, <2>1 DEF StrictPrefix
    <2> QED
      BY <2>1, <2>2 DEF Into
  <1> QED
    BY <1>1, <1>2, TwoCuts

LEMMA FourAndMore ==
    ASSUME NEW s \in Bytes, NEW u \in Bytes, NEW b \in Bytes, NEW m \in Bytes, NEW c \in Bytes
    PROVE  /\ (s \o (u \o (b \o m))) \o c = s \o (u \o (b \o (m \o c)))
           /\ s \o (u \o (b \o (m \o c))) \in Bytes
           /\ u \o (b \o (m \o c)) \in Bytes /\ b \o (m \o c) \in Bytes /\ m \o c \in Bytes
  <1>1. (b \o m) \o c = b \o (m \o c)
    BY Assoc
  <1>2. PICK x \in Bytes : x = b \o m
    BY Closed
  <1>3. (u \o x) \o c = u \o (x \o c)
    BY Assoc
  <1>4. PICK y \in Bytes : y = u \o x
    BY Closed
  <1>5. m \o c \in Bytes /\ b \o (m \o c) \in Bytes
    BY Closed
  <1>6. (s \o y) \o c = s \o (y \o c)
    BY Assoc
  <1>7. u \o (b \o (m \o c)) \in Bytes
    BY <1>5, Closed
  <1>8. s \o (u \o (b \o (m \o c))) \in Bytes
    BY <1>7, Closed
  <1>9. (s \o (u \o (b \o m))) \o c = s \o (u \o (b \o (m \o c)))
    BY <1>1, <1>2, <1>3, <1>4, <1>6
  <1> QED
    BY <1>5, <1>7, <1>8, <1>9

LEMMA FieldReads ==
    ASSUME NEW name \in Names, NEW i \in Byte, NEW body \in Bytes, NEW more \in Bytes,
           NEW t, NEW v, NEW n \in Nat \ {0},
           Reads(TypeReader(i), body, t), Reads(CountReader(n - 1), more, v)
    PROVE  Reads(CountReader(n), (WriteString(name) \o (<<i>> \o body)) \o more,
                 <<[name |-> name, type |-> t]>> \o v)
  <1> DEFINE s == WriteString(name)
             u == <<i>>
             w == <<[name |-> name, type |-> t]>> \o v
  <1>0. s \in Bytes /\ u \in Bytes /\ n - 1 \in Nat /\ n \in Nat
    <2>1. s \in Bytes
      BY StringReads
    <2>2. u \in Bytes
      BY ByteSeqs
    <2> QED
      BY <2>1, <2>2
  <1>1. Reads([c \in Bytes |-> ReadString(c)], s, name) /\ Reads([c \in Bytes |-> ReadU8(c)], u, i)
    BY StringReads, U8Reads
  <1> HIDE DEF s, u
  <1>2. /\ (s \o (u \o body)) \o more = s \o (u \o (body \o more))
        /\ (s \o (u \o body)) \o more \in Bytes
        /\ body \o more \in Bytes /\ u \o (body \o more) \in Bytes
    BY <1>0 DEF Bytes
  <1>3. \A c \in Bytes : CountReader(n)[c] = CountedBy(ReadCounted, c)[n]
    BY ReadCountedDef DEF CountReader
  <1> DEFINE index(na) == After(na, ReadU8(na.c))
             type(ix)  == After(ix, ReadTypeBy(ReadCounted, ix.v, ix.c))
             rest(ty)  == After(ty, ReadCounted[ty.c][n - 1])
             got(na, ty, re) == After(re, Got(<<[name |-> na.v, type |-> ty.v]>> \o re.v, re.c))
             all(na, ix, ty) == got(na, ty, rest(ty))
  <1>4. \A c \in Bytes :
           CountedBy(ReadCounted, c)[n] =
             LET na == ReadString(c)
                 ix == index(na)
                 ty == type(ix)
             IN got(na, ty, rest(ty))
    <2>1. ASSUME NEW c \in Bytes
          PROVE  InTurn(ReadCounted, c, n) =
                   LET na == ReadString(c)
                       ix == index(na)
                       ty == type(ix)
                   IN got(na, ty, rest(ty))
      BY DEF InTurn
    <2> HIDE DEF index, type, rest, got
    <2> QED
      BY <1>0, <2>1, CountedInTurn
  <1>5. /\ \A d \in Bytes : index(Got(name, d)) = ReadU8(d)
        /\ index(Incomplete) = Incomplete
        /\ \A d \in Bytes : type(Got(i, d)) = ReadTypeBy(ReadCounted, i, d)
        /\ type(Incomplete) = Incomplete
        /\ \A d \in Bytes : rest(Got(t, d)) = ReadCounted[d][n - 1]
        /\ rest(Incomplete) = Incomplete
        /\ \A d, e, f \in Bytes : got(Got(name, d), Got(t, e), Got(v, f)) = Got(w, f)
        /\ \A na, ty : got(na, ty, Incomplete) = Incomplete
    BY Results DEF After
  <1> HIDE DEF index, type, rest, got, w
  <1>6. ASSUME NEW c \in Bytes
        PROVE  CountReader(n)[(s \o (u \o (body \o more))) \o c] = Got(w, c)
    <2>1. /\ (s \o (u \o (body \o more))) \o c = s \o (u \o (body \o (more \o c)))
          /\ s \o (u \o (body \o (more \o c))) \in Bytes
          /\ u \o (body \o (more \o c)) \in Bytes /\ body \o (more \o c) \in Bytes /\ more \o c \in Bytes
      BY <1>0, FourAndMore
    <2>2. ReadString(s \o (u \o (body \o (more \o c)))) = Got(name, u \o (body \o (more \o c)))
      BY <1>1, <2>1 DEF Reads
    <2>3. ReadU8(u \o (body \o (more \o c))) = Got(i, body \o (more \o c))
      BY <1>1, <2>1 DEF Reads
    <2>4. ReadTypeBy(ReadCounted, i, body \o (more \o c)) = Got(t, more \o c)
      BY <2>1 DEF Reads, TypeReader
    <2>5. ReadCounted[more \o c][n - 1] = Got(v, c)
      BY <2>1 DEF Reads, CountReader
    <2> QED
      BY <1>3, <1>4, <1>5, <2>1, <2>2, <2>3, <2>4, <2>5
  <1>7. ASSUME NEW p \in Bytes, StrictPrefix(p, s \o (u \o (body \o more)))
        PROVE  CountReader(n)[p] = Incomplete
    <2>1. CASE StrictPrefix(p, s)
      <3>1. ReadString(p) = Incomplete
        BY <1>1, <2>1 DEF Reads
      <3> QED
        BY <1>3, <1>4, <1>5, <3>1
    <2>2. CASE Into(p, s, u \o (body \o more))
      <3>1. PICK q \in Bytes : p = s \o q /\ StrictPrefix(q, u \o (body \o more))
        BY <2>2 DEF Into
      <3>2. ReadString(p) = Got(name, q)
        BY <1>1, <3>1 DEF Reads
      <3>3. CASE StrictPrefix(q, u)
        <4>1. ReadU8(q) = Incomplete
          BY <1>1, <3>3 DEF Reads
        <4> QED
          BY <1>3, <1>4, <1>5, <3>2, <4>1
      <3>4. CASE Into(q, u, body \o more)
        <4>1. PICK r \in Bytes : q = u \o r /\ StrictPrefix(r, body \o more)
          BY <3>4 DEF Into
        <4>2. ReadU8(q) = Got(i, r)
          BY <1>1, <4>1 DEF Reads
        <4>3. CASE StrictPrefix(r, body)
          <5>1. ReadTypeBy(ReadCounted, i, r) = Incomplete
            BY <4>3 DEF Reads, TypeReader
          <5> QED
            BY <1>3, <1>4, <1>5, <3>2, <4>2, <5>1
        <4>4. CASE Into(r, body, more)
          <5>1. PICK z \in Bytes : r = body \o z /\ StrictPrefix(z, more)
            BY <4>4 DEF Into
          <5>2. ReadTypeBy(ReadCounted, i, r) = Got(t, z)
            BY <5>1 DEF Reads, TypeReader
          <5>3. ReadCounted[z][n - 1] = Incomplete
            BY <5>1 DEF Reads, CountReader
          <5> QED
            BY <1>3, <1>4, <1>5, <3>2, <4>2, <5>2, <5>3
        <4> QED
          BY <4>1, <4>3, <4>4, PrefixOfTwo
      <3> QED
        BY <1>0, <1>2, <3>1, <3>3, <3>4, PrefixOfTwo
    <2> QED
      BY <1>0, <1>2, <1>7, <2>1, <2>2, PrefixOfTwo
  <1> QED
    BY <1>2, <1>6, <1>7 DEF Reads, s, u, w

LEMMA DropElements ==
    ASSUME NEW s, IsSeq(s)
    PROVE  /\ Drop(s, Len(s)) = <<>> /\ Drop(s, 0) = s
           /\ \A j \in 1..Len(s) : Drop(s, j - 1) = <<s[j]>> \o Drop(s, j)
  <1> DEFINE S == Range(s)
  <1>0. s \in Seq(S) /\ Len(s) \in Nat /\ \A j \in 1..Len(s) : s[j] \in S
    BY SeqShape DEF IsSeq
  <1> HIDE DEF S
  <1>1. Drop(s, Len(s)) = <<>> /\ Drop(s, 0) = s
    <2>1. Drop(s, Len(s)) = <<>>
      BY <1>0 DEF Drop
    <2>2. Drop(s, 0) = s
      BY <1>0 DEF Drop
    <2> QED
      BY <2>1, <2>2
  <1>2. ASSUME NEW j \in 1..Len(s) PROVE Drop(s, j - 1) = <<s[j]>> \o Drop(s, j)
    <2> DEFINE a == Drop(s, j - 1)
               b == Drop(s, j)
    <2>1. a \in Seq(S) /\ Len(a) = Len(s) - j + 1 /\ \A i \in 1..Len(a) : a[i] = s[j + i - 1]
      BY <1>0 DEF Drop
    <2>2. b \in Seq(S) /\ Len(b) = Len(s) - j /\ \A i \in 1..Len(b) : b[i] = s[j + i]
      BY <1>0 DEF Drop
    <2>3. <<s[j]>> \in Seq(S) /\ Len(<<s[j]>>) = 1 /\ <<s[j]>>[1] = s[j]
      BY <1>0
    <2> DEFINE o == <<s[j]>>
    <2> HIDE DEF a, b, o
    <2>4. /\ o \o b \in Seq(S) /\ Len(o \o b) = Len(s) - j + 1
          /\ \A i \in 1..Len(o \o b) : (o \o b)[i] = IF i <= 1 THEN o[i] ELSE b[i - 1]
      BY <1>0, <2>2, <2>3 DEF o
    <2>5. ASSUME NEW i \in 1..Len(a) PROVE a[i] = (o \o b)[i]
      <3>0. Len(s) \in Nat /\ j \in Nat /\ i \in Nat
        BY <1>0, <2>1
      <3>1. a[i] = s[j + i - 1] /\ i \in 1..Len(o \o b) /\ i <= Len(s) - j + 1
        BY <1>0, <2>1, <2>4
      <3>2. CASE i = 1
        <4>1. j + i - 1 = j /\ i <= 1
          BY <3>0, <3>2
        <4> QED
          BY <2>3, <2>4, <3>1, <3>2, <4>1 DEF o
      <3>3. CASE i # 1
        <4>1. ~(i <= 1) /\ i - 1 \in 1..Len(b) /\ j + (i - 1) = j + i - 1
          BY <3>0, <3>1, <3>3, <2>2
        <4> QED
          BY <2>2, <2>4, <3>1, <4>1
      <3> QED
        BY <3>2, <3>3
    <2>6. IsSeq(a) /\ IsSeq(o \o b) /\ Len(a) = Len(o \o b)
      BY <2>1, <2>4, SeqIsSeq
    <2>7. a = o \o b
      BY <2>5, <2>6, SameSeq
    <2> QED
      BY <2>7 DEF a, b, o
  <1> QED
    BY <1>1, <1>2

LEMMA NarrowFieldsShape ==
    ASSUME NEW T, NEW fs \in FieldList(T), NEW f
    PROVE  LET ns == NarrowFieldsBy(f, fs)
           IN /\ IsSeq(ns) /\ Len(ns) = Len(fs)
              /\ \A j \in 1..Len(fs) : ns[j] = [name |-> fs[j].name, type |-> f[fs[j].type]]
  <1> DEFINE ns == NarrowFieldsBy(f, fs)
  <1>1. ns = [j \in 1..Len(fs) |-> [fs[j] EXCEPT !.type = f[fs[j].type]]] /\ Len(fs) \in Nat
    BY FieldListShape DEF NarrowFieldsBy
  <1>2. ns = [j \in 1..Len(fs) |-> ns[j]]
    BY <1>1
  <1>3. \A j \in 1..Len(fs) : ns[j] = [name |-> fs[j].name, type |-> f[fs[j].type]]
    <2>1. ASSUME NEW j \in 1..Len(fs) PROVE ns[j] = [name |-> fs[j].name, type |-> f[fs[j].type]]
      <3>1. fs[j] = [name |-> fs[j].name, type |-> fs[j].type]
        BY FieldListShape
      <3>2. \A n, x, y : [[name |-> n, type |-> x] EXCEPT !.type = y] = [name |-> n, type |-> y]
        OBVIOUS
      <3>3. ns[j] = [fs[j] EXCEPT !.type = f[fs[j].type]]
        BY <1>1
      <3>4. [fs[j] EXCEPT !.type = f[fs[j].type]] = [name |-> fs[j].name, type |-> f[fs[j].type]]
        BY <3>1, <3>2
      <3> QED
        BY <3>3, <3>4
    <2> QED
      BY <2>1
  <1> HIDE DEF ns
  <1>4. IsSeq(ns) /\ Len(ns) = Len(fs)
    BY <1>1, <1>2, FunctionSeq
  <1> QED
    BY <1>3, <1>4 DEF ns

LEMMA NoStrictPrefix == \A p \in Bytes : ~StrictPrefix(p, <<>>)
  <1>1. ASSUME NEW p \in Bytes, StrictPrefix(p, <<>>) PROVE FALSE
    <2>1. <<>> \in Bytes /\ Len(<<>>) = 0
      BY ByteSeqs
    <2> QED
      BY <1>1, <2>1, PrefixShorter
  <1> QED
    BY <1>1

LEMMA NoFieldsRead == Reads(CountReader(0), <<>>, <<>>)
  <1>1. ASSUME NEW c \in Bytes PROVE CountReader(0)[<<>> \o c] = Got(<<>>, c)
    <2>1. <<>> \o c = c
      BY ByteSeqs
    <2>2. CountReader(0)[c] = CountedBy(ReadCounted, c)[0]
      BY ReadCountedDef DEF CountReader
    <2> QED
      BY <2>1, <2>2 DEF CountedBy
  <1> QED
    BY <1>1, NoStrictPrefix DEF Reads

LEMMA SmallRemainder ==
    ASSUME NEW l \in Nat, NEW m \in Nat, m < l
    PROVE  m % l = m
  OBVIOUS

LEMMA FieldsTravel ==
    ASSUME NEW T, NEW fs \in FieldList(T), \A t \in T : Travels(t)
    PROVE  /\ WriteFieldsBy(WriteType, fs) \in Bytes
           /\ Reads(FieldsReader, WriteFieldsBy(WriteType, fs), NarrowFieldsBy(NarrowType, fs))
  <1> DEFINE n  == Len(fs)
             ss == [j \in 1..n |-> WriteString(fs[j].name) \o WriteType[fs[j].type]]
             ns == NarrowFieldsBy(NarrowType, fs)
  <1>0. n \in Nat /\ n < Limit /\ WriteFieldsBy(WriteType, fs) = U32(n) \o FlattenSeq(ss)
    BY FieldListShape DEF WriteFieldsBy
  <1>1. ASSUME NEW j \in 1..n
        PROVE  /\ fs[j].name \in Names /\ IndexOf(fs[j].type) \in Byte /\ Encoding(fs[j].type) \in Bytes
               /\ ss[j] = WriteString(fs[j].name) \o (<<IndexOf(fs[j].type)>> \o Encoding(fs[j].type))
               /\ Reads(TypeReader(IndexOf(fs[j].type)), Encoding(fs[j].type), NarrowType[fs[j].type])
               /\ ss[j] \in Bytes
    <2>1. fs[j].name \in Names /\ Travels(fs[j].type)
      BY FieldListShape
    <2>2. /\ IndexOf(fs[j].type) \in Byte /\ Encoding(fs[j].type) \in Bytes
          /\ WriteType[fs[j].type] = <<IndexOf(fs[j].type)>> \o Encoding(fs[j].type)
          /\ Reads(TypeReader(IndexOf(fs[j].type)), Encoding(fs[j].type), NarrowType[fs[j].type])
      BY <2>1 DEF Travels
    <2>3. WriteString(fs[j].name) \in Bytes
      BY <2>1, StringReads
    <2>4. <<IndexOf(fs[j].type)>> \in Bytes
      BY <2>2, ByteSeqs
    <2>5. <<IndexOf(fs[j].type)>> \o Encoding(fs[j].type) \in Bytes
      BY <2>2, <2>4, Closed
    <2>6. WriteString(fs[j].name) \o (<<IndexOf(fs[j].type)>> \o Encoding(fs[j].type)) \in Bytes
      BY <2>3, <2>5, Closed
    <2> QED
      BY <2>1, <2>2, <2>6
  <1>2. ss \in [1..n -> Bytes]
    BY <1>1
  <1>3. /\ IsSeq(ns) /\ Len(ns) = n
        /\ \A j \in 1..n : ns[j] = [name |-> fs[j].name, type |-> NarrowType[fs[j].type]]
    BY NarrowFieldsShape
  <1> HIDE DEF ss, ns, n
  <1>4. PICK rest : Unfolds(rest, ss, n) /\ FlattenSeq(ss) = rest[0]
    BY <1>0, <1>2, FlattenUnfolds
  <1>5. rest \in [0..n -> Bytes] /\ rest[n] = <<>> /\ \A j \in 1..n : rest[j - 1] = ss[j] \o rest[j]
    BY <1>4 DEF Unfolds
  <1> DEFINE Fails == {k \in 0..n : ~Reads(CountReader(k), rest[n - k], Drop(ns, n - k))}
  <1>6. ASSUME Fails # {} PROVE FALSE
    <2>1. PICK k \in Fails : \A i \in Fails : k <= i
      <3>1. Fails \subseteq Nat
        OBVIOUS
      <3> HIDE DEF Fails
      <3> QED
        BY <1>6, <3>1, LeastOf
    <2>2. k \in 0..n /\ ~Reads(CountReader(k), rest[n - k], Drop(ns, n - k))
      BY <2>1
    <2>3. CASE k = 0
      <3>1. n - k = n /\ Drop(ns, n) = <<>>
        BY <1>0, <1>3, <2>3, DropElements
      <3> QED
        BY <1>5, <2>2, <2>3, <3>1, NoFieldsRead
    <2>4. CASE k # 0
      <3> DEFINE j == n - k + 1
      <3>1. j \in 1..n /\ n - (k - 1) = j /\ n - k = j - 1 /\ k \in Nat \ {0} /\ k - 1 \in 0..n /\ j \in 0..n
        BY <1>0, <2>2, <2>4
      <3> HIDE DEF j
      <3>2. k - 1 \notin Fails
        BY <2>1, <3>1
      <3>3. Reads(CountReader(k - 1), rest[j], Drop(ns, j))
        BY <3>1, <3>2
      <3>4. Drop(ns, n - k) = <<ns[j]>> \o Drop(ns, j)
        BY <1>3, <3>1, DropElements
      <3>5. rest[n - k] = ss[j] \o rest[j]
        BY <1>5, <3>1
      <3>6. rest[j] \in Bytes
        BY <1>5, <3>1
      <3>7. Reads(CountReader(k), ss[j] \o rest[j],
                  <<[name |-> fs[j].name, type |-> NarrowType[fs[j].type]]>> \o Drop(ns, j))
        <4> DEFINE na == fs[j].name
                   i  == IndexOf(fs[j].type)
                   b  == Encoding(fs[j].type)
                   t  == NarrowType[fs[j].type]
                   m  == rest[j]
                   v  == Drop(ns, j)
        <4>1. /\ na \in Names /\ i \in Byte /\ b \in Bytes /\ Reads(TypeReader(i), b, t)
              /\ ss[j] = WriteString(na) \o (<<i>> \o b)
          BY <1>1, <3>1
        <4>2. m \in Bytes /\ k \in Nat \ {0} /\ Reads(CountReader(k - 1), m, v)
          BY <3>1, <3>3, <3>6
        <4> HIDE DEF na, i, b, t, m, v
        <4>3. Reads(CountReader(k), (WriteString(na) \o (<<i>> \o b)) \o m, <<[name |-> na, type |-> t]>> \o v)
          BY <4>1, <4>2, FieldReads
        <4> QED
          BY <4>1, <4>3 DEF na, t, m, v
      <3> QED
        BY <1>3, <2>2, <3>1, <3>4, <3>5, <3>7
    <2> QED
      BY <2>3, <2>4
  <1>7. Reads(CountReader(n), rest[0], ns)
    <2>1. n \in 0..n /\ n - n = 0 /\ n \notin Fails
      BY <1>0, <1>6
    <2>2. Drop(ns, 0) = ns
      BY <1>3, DropElements
    <2> QED
      BY <2>1, <2>2
  <1>8. rest[0] \in Bytes /\ U32(n) \in Bytes /\ U32(n) \o rest[0] \in Bytes
    <2>1. rest[0] \in Bytes
      BY <1>0, <1>5
    <2>2. U32(n) \in Bytes
      BY <1>0, U32Value
    <2> QED
      BY <2>1, <2>2, Closed
  <1> DEFINE a == [c \in Bytes |-> ReadU32(c)]
             w == U32(n)
             r == rest[0]
  <1>9. n % Limit = n
    BY <1>0, LimitNat, SmallRemainder
  <1>10. Reads(a, w, n)
    BY <1>0, <1>9, U32Reads
  <1>11. \A c \in Bytes : /\ FieldsReader[c] = ReadFieldsBy(ReadCounted, c)
                          /\ a[c] = Incomplete => ReadFieldsBy(ReadCounted, c) = Incomplete
                          /\ \A d \in Bytes : a[c] = Got(n, d) => ReadFieldsBy(ReadCounted, c) = ReadCounted[d][n]
    BY Results DEF FieldsReader, ReadFieldsBy, Then
  <1> HIDE DEF a, w, r
  <1>12. w \in Bytes /\ r \in Bytes /\ w \o r \in Bytes /\ Reads(CountReader(n), r, ns)
    BY <1>7, <1>8 DEF w, r
  <1>13. ASSUME NEW c \in Bytes PROVE FieldsReader[(w \o r) \o c] = Got(ns, c)
    <2>1. r \o c \in Bytes /\ a[(w \o r) \o c] = Got(n, r \o c) /\ CountReader(n)[r \o c] = Got(ns, c)
      BY <1>10, <1>12, ReadsInTurn
    <2>2. (w \o r) \o c \in Bytes
      BY <1>12, Closed
    <2>3. CountReader(n)[r \o c] = ReadCounted[r \o c][n]
      BY <2>1 DEF CountReader
    <2> QED
      BY <1>11, <2>1, <2>2, <2>3
  <1>14. ASSUME NEW p \in Bytes, StrictPrefix(p, w \o r) PROVE FieldsReader[p] = Incomplete
    <2>1. \/ a[p] = Incomplete
          \/ \E c \in Bytes : a[p] = Got(n, c) /\ CountReader(n)[c] = Incomplete
      BY <1>10, <1>12, <1>14, ReadsInTurn
    <2>2. CASE a[p] = Incomplete
      BY <1>11, <2>2
    <2>3. CASE \E c \in Bytes : a[p] = Got(n, c) /\ CountReader(n)[c] = Incomplete
      <3>1. PICK c \in Bytes : a[p] = Got(n, c) /\ CountReader(n)[c] = Incomplete
        BY <2>3
      <3>2. CountReader(n)[c] = ReadCounted[c][n]
        BY DEF CountReader
      <3> QED
        BY <1>11, <3>1, <3>2
    <2> QED
      BY <2>1, <2>2, <2>3
  <1>15. Reads(FieldsReader, w \o r, ns)
    BY <1>13, <1>14 DEF Reads
  <1> QED
    BY <1>0, <1>4, <1>12, <1>15 DEF w, r, ns, ss, n

LEMMA SomeTypes ==
    /\ \A d \in Depths : TypesTo[d] \subseteq Types /\ Leaves \subseteq TypesTo[d]
    /\ \A d \in Depths : d # 0 => Aggregates(TypesTo[d - 1]) \subseteq TypesTo[d]
  <1>1. ASSUME NEW d \in Depths PROVE TypesTo[d] \subseteq Types /\ Leaves \subseteq TypesTo[d]
    <2>1. MaxNesting \in Depths /\ d <= MaxNesting
      BY DepthsNat DEF Depths
    <2>2. TypesTo[d] \subseteq TypesTo[MaxNesting]
      BY <2>1, DeeperTypes
    <2> QED
      BY <2>2, TypeShape, TypesSmall
  <1>2. ASSUME NEW d \in Depths, d # 0 PROVE Aggregates(TypesTo[d - 1]) \subseteq TypesTo[d]
    BY <1>2, TypeShape
  <1> QED
    BY <1>1, <1>2

\* Under the index of its kind the reader reads a type.
LEMMA ReadTypeByIndex ==
    ASSUME NEW c, NEW counted
    PROVE  /\ \A j \in 1..11 : ReadTypeBy(counted, j - 1, c) = Got([kind |-> FieldTypes[j]], c)
           /\ ReadTypeBy(counted, 12 - 1, c) =
                After(ReadU32(c), Got([kind |-> "StringType", capacity |-> ReadU32(c).v], ReadU32(c).c))
           /\ ReadTypeBy(counted, 13 - 1, c) =
                After(ReadFieldsBy(counted, c),
                      Got([kind |-> "AggregateType", fields |-> ReadFieldsBy(counted, c).v],
                          ReadFieldsBy(counted, c).c))
  <1>1. IndexIn(FieldTypes, "StringType") = 12 /\ IndexIn(FieldTypes, "AggregateType") = 13
    BY IndexOfKind, LastKinds
  <1>2. DOMAIN FieldTypes = 1..13
    BY FieldTypesShape
  <1>3. ASSUME NEW j \in 1..11 PROVE ReadTypeBy(counted, j - 1, c) = Got([kind |-> FieldTypes[j]], c)
    <2>1. j - 1 + 1 = j /\ j \in 1..13 /\ j # 12 /\ j # 13
      OBVIOUS
    <2> QED
      BY <1>1, <1>2, <2>1 DEF ReadTypeBy
  <1>4. 12 - 1 + 1 = 12 /\ 12 \in 1..13 /\ 13 - 1 + 1 = 13 /\ 13 \in 1..13 /\ 13 # 12
    OBVIOUS
  <1>5. ReadTypeBy(counted, 12 - 1, c) =
                After(ReadU32(c), Got([kind |-> "StringType", capacity |-> ReadU32(c).v], ReadU32(c).c))
    BY <1>1, <1>2, <1>4 DEF ReadTypeBy, Then, After
  <1>6. ReadTypeBy(counted, 13 - 1, c) =
                After(ReadFieldsBy(counted, c),
                      Got([kind |-> "AggregateType", fields |-> ReadFieldsBy(counted, c).v],
                          ReadFieldsBy(counted, c).c))
    BY <1>1, <1>2, <1>4 DEF ReadTypeBy, Then, After
  <1> QED
    BY <1>3, <1>5, <1>6

LEMMA BaseHoldsKinds == \A j \in 1..13 : j - 1 \in Byte
  BY BaseAssumption DEF Byte

LEMMA LeafTravels ==
    ASSUME NEW t \in Leaves, t.kind # "StringType"
    PROVE  Travels(t) /\ NarrowType[t] = t
  <1>1. t = [kind |-> t.kind] /\ t.kind \in Primitives /\ t.kind # "AggregateType" /\ t \in Types
    BY LeafShape, SomeTypes, DepthsNat
  <1>2. PICK j \in 1..11 : t.kind = FieldTypes[j]
    BY <1>1 DEF Primitives
  <1>3. IndexOf(t) = j - 1 /\ IndexOf(t) \in Byte /\ j \in 1..13
    BY <1>2, IndexOfKind, BaseHoldsKinds DEF IndexOf
  <1>4. Encoding(t) = <<>> /\ <<>> \in Bytes
    BY <1>1, ByteSeqs DEF Encoding
  <1>5. WriteType[t] = <<IndexOf(t)>> \o Encoding(t)
    BY <1>1, <1>4, WriteTypeDef DEF WriteBy, IndexOf
  <1>6. NarrowType[t] = t
    BY <1>1, NarrowTypeDef DEF NarrowBy
  <1>7. ASSUME NEW c \in Bytes PROVE TypeReader(IndexOf(t))[<<>> \o c] = Got(t, c)
    <2>1. <<>> \o c = c
      BY ByteSeqs
    <2>2. ReadTypeBy(ReadCounted, j - 1, c) = Got([kind |-> FieldTypes[j]], c)
      BY ReadTypeByIndex
    <2> QED
      BY <1>1, <1>2, <1>3, <2>1, <2>2 DEF TypeReader
  <1>8. Reads(TypeReader(IndexOf(t)), <<>>, t)
    BY <1>7, NoStrictPrefix DEF Reads
  <1> QED
    BY <1>3, <1>4, <1>5, <1>6, <1>8 DEF Travels

LEMMA StringTravels ==
    ASSUME NEW t \in Leaves, t.kind = "StringType"
    PROVE  Travels(t) /\ NarrowType[t] = [kind |-> "StringType", capacity |-> t.capacity % Limit]
  <1>1. t = [kind |-> "StringType", capacity |-> t.capacity] /\ t.capacity \in Nat /\ t \in Types
    BY LeafShape, SomeTypes, DepthsNat
  <1>2. IndexOf(t) = 12 - 1 /\ IndexOf(t) \in Byte
    <2>1. IndexIn(FieldTypes, FieldTypes[12]) = 12 /\ 12 - 1 \in Byte
      BY IndexOfKind, BaseHoldsKinds
    <2> QED
      BY <2>1, LastKinds DEF IndexOf
  <1>3. Encoding(t) = U32(t.capacity) /\ Encoding(t) \in Bytes
    BY <1>1, U32Value DEF Encoding
  <1>4. WriteType[t] = <<IndexOf(t)>> \o Encoding(t)
    BY <1>1, <1>3, WriteTypeDef DEF WriteBy, IndexOf
  <1> DEFINE v == t.capacity % Limit
             u == U32(t.capacity)
             a == [c \in Bytes |-> ReadU32(c)]
             w == [kind |-> "StringType", capacity |-> v]
  <1>5. NarrowType[t] = w
    <2>1. NarrowType[t] = [t EXCEPT !.capacity = t.capacity % Limit]
      BY <1>1, NarrowTypeDef DEF NarrowBy
    <2>2. \A x, y, z : [[kind |-> x, capacity |-> y] EXCEPT !.capacity = z] = [kind |-> x, capacity |-> z]
      OBVIOUS
    <2> QED
      BY <1>1, <2>1, <2>2
  <1>6. Reads(a, u, v) /\ u \in Bytes
    BY <1>1, U32Reads, U32Value
  <1>7. ASSUME NEW c \in Bytes
        PROVE  /\ a[c] = Incomplete => TypeReader(12 - 1)[c] = Incomplete
               /\ \A d : a[c] = Got(v, d) => TypeReader(12 - 1)[c] = Got(w, d)
    <2> DEFINE r == ReadU32(c)
               g == Got([kind |-> "StringType", capacity |-> r.v], r.c)
    <2>1. TypeReader(12 - 1)[c] = (IF Ok(r) THEN g ELSE r) /\ a[c] = r
      BY ReadTypeByIndex DEF TypeReader, After
    <2>2. \A d : r = Got(v, d) => g = Got(w, d) /\ Ok(r)
      BY Results
    <2> HIDE DEF r, g
    <2> QED
      BY <2>1, <2>2, Results
  <1> HIDE DEF a, u, v, w
  <1>8. Reads(TypeReader(12 - 1), u, w)
    <2>1. \A c \in Bytes : u \o c \in Bytes
      BY <1>6, Closed
    <2> QED
      BY <1>6, <1>7, <2>1 DEF Reads
  <1> QED
    BY <1>2, <1>3, <1>4, <1>5, <1>8 DEF Travels, w, v, u

LEMMA AggregateTravels ==
    ASSUME NEW T, NEW t \in Aggregates(T), t \in Types, \A u \in T : Travels(u)
    PROVE  /\ Travels(t)
           /\ NarrowType[t] = [kind |-> "AggregateType", fields |-> NarrowFieldsBy(NarrowType, t.fields)]
  <1>1. t = [kind |-> "AggregateType", fields |-> t.fields] /\ t.fields \in FieldList(T)
    BY AggregateShape
  <1>2. IndexOf(t) = 13 - 1 /\ IndexOf(t) \in Byte
    <2>1. IndexIn(FieldTypes, FieldTypes[13]) = 13 /\ 13 - 1 \in Byte
      BY IndexOfKind, BaseHoldsKinds
    <2> QED
      BY <1>1, <2>1, LastKinds DEF IndexOf
  <1> DEFINE v == NarrowFieldsBy(NarrowType, t.fields)
             u == WriteFieldsBy(WriteType, t.fields)
             w == [kind |-> "AggregateType", fields |-> v]
  <1>3. Encoding(t) = u /\ u \in Bytes /\ Reads(FieldsReader, u, v)
    BY <1>1, FieldsTravel DEF Encoding
  <1>4. WriteType[t] = <<IndexOf(t)>> \o Encoding(t)
    BY <1>1, <1>3, WriteTypeDef DEF WriteBy, IndexOf
  <1>5. NarrowType[t] = w
    <2>1. NarrowType[t] = [t EXCEPT !.fields = v]
      BY <1>1, NarrowTypeDef DEF NarrowBy
    <2>2. \A x, y, z : [[kind |-> x, fields |-> y] EXCEPT !.fields = z] = [kind |-> x, fields |-> z]
      OBVIOUS
    <2> QED
      BY <1>1, <2>1, <2>2
  <1>7. ASSUME NEW c \in Bytes
        PROVE  /\ FieldsReader[c] = Incomplete => TypeReader(13 - 1)[c] = Incomplete
               /\ \A d : FieldsReader[c] = Got(v, d) => TypeReader(13 - 1)[c] = Got(w, d)
    <2> DEFINE r == ReadFieldsBy(ReadCounted, c)
               g == Got([kind |-> "AggregateType", fields |-> r.v], r.c)
    <2>1. TypeReader(13 - 1)[c] = (IF Ok(r) THEN g ELSE r) /\ FieldsReader[c] = r
      BY ReadTypeByIndex DEF TypeReader, After, FieldsReader
    <2>2. \A d : r = Got(v, d) => g = Got(w, d) /\ Ok(r)
      BY Results
    <2> HIDE DEF r, g
    <2> QED
      BY <2>1, <2>2, Results
  <1> HIDE DEF u, v, w
  <1>8. Reads(TypeReader(13 - 1), u, w)
    <2>1. \A c \in Bytes : u \o c \in Bytes
      BY <1>3, Closed
    <2> QED
      BY <1>3, <1>7, <2>1 DEF Reads
  <1> QED
    BY <1>2, <1>3, <1>4, <1>5, <1>8 DEF Travels, w, v, u

LEMMA TypesTravel == \A d \in Depths : \A t \in TypesTo[d] : Travels(t)
  <1> DEFINE Fails == {d \in Depths : ~\A t \in TypesTo[d] : Travels(t)}
  <1>1. ASSUME Fails # {} PROVE FALSE
    <2>1. PICK d \in Fails : \A k \in Fails : d <= k
      <3>1. Fails \subseteq Nat
        BY DepthsNat
      <3> HIDE DEF Fails
      <3> QED
        BY <1>1, <3>1, LeastOf
    <2>2. d \in Depths /\ d \in Nat
      BY DepthsNat
    <2>3. PICK t \in TypesTo[d] : ~Travels(t)
      BY <2>1
    <2>4. t \notin Leaves
      BY <2>3, LeafTravels, StringTravels
    <2>5. d # 0 /\ t \in Aggregates(TypesTo[d - 1])
      BY <2>2, <2>3, <2>4, TypeShape
    <2>6. d - 1 \in Depths /\ ~(d <= d - 1)
      BY <2>2, <2>5, DepthsNat
    <2>7. \A u \in TypesTo[d - 1] : Travels(u)
      BY <2>1, <2>6
    <2>8. t \in Types
      BY <2>2, SomeTypes
    <2> QED
      BY <2>3, <2>5, <2>7, <2>8, AggregateTravels
  <1> QED
    BY <1>1

\* A narrowed type is a type, and narrowing it again changes nothing.
LEMMA NarrowedFields ==
    ASSUME NEW T, NEW fs \in FieldList(T),
           \A t \in T : NarrowType[t] \in T /\ NarrowType[NarrowType[t]] = NarrowType[t]
    PROVE  /\ NarrowFieldsBy(NarrowType, fs) \in FieldList(T)
           /\ NarrowFieldsBy(NarrowType, NarrowFieldsBy(NarrowType, fs)) = NarrowFieldsBy(NarrowType, fs)
  <1> DEFINE ns == NarrowFieldsBy(NarrowType, fs)
             ms == NarrowFieldsBy(NarrowType, ns)
  <1>1. /\ IsSeq(ns) /\ Len(ns) = Len(fs) /\ Len(fs) \in 1..(Limit - 1)
        /\ \A j \in 1..Len(fs) : ns[j] = [name |-> fs[j].name, type |-> NarrowType[fs[j].type]]
    <2>1. Len(fs) \in 1..(Limit - 1)
      BY DEF FieldList
    <2> QED
      BY <2>1, NarrowFieldsShape
  <1>2. \A j \in 1..Len(fs) : fs[j].name \in Names /\ fs[j].type \in T
    BY FieldListShape
  <1> HIDE DEF ns
  <1>3. ASSUME NEW j \in 1..Len(ns)
        PROVE  /\ ns[j] \in [name : Names, type : T]
               /\ ns[j].name = fs[j].name /\ ns[j].type = NarrowType[fs[j].type]
               /\ NarrowType[ns[j].type] = NarrowType[fs[j].type]
    <2>1. ns[j] = [name |-> fs[j].name, type |-> NarrowType[fs[j].type]]
      BY <1>1
    <2>2. fs[j].name \in Names /\ NarrowType[fs[j].type] \in T
      BY <1>1, <1>2
    <2>3. ns[j].name = fs[j].name /\ ns[j].type = NarrowType[fs[j].type]
      BY <2>1
    <2> QED
      BY <1>1, <1>2, <2>1, <2>2, <2>3
  <1>4. ns \in Seq([name : Names, type : T])
    BY <1>1, <1>3, SeqOver
  <1>5. ns \in FieldList(T)
    BY <1>1, <1>4 DEF FieldList
  <1>6. /\ IsSeq(ms) /\ Len(ms) = Len(ns)
        /\ \A j \in 1..Len(ns) : ms[j] = [name |-> ns[j].name, type |-> NarrowType[ns[j].type]]
    BY <1>5, NarrowFieldsShape
  <1> HIDE DEF ms
  <1>7. \A j \in 1..Len(ms) : ms[j] = ns[j]
    BY <1>1, <1>3, <1>6
  <1>8. ms = ns
    BY <1>1, <1>6, <1>7, SameSeq
  <1> QED
    BY <1>5, <1>8 DEF ns, ms

LEMMA NarrowedTypes ==
    \A d \in Depths : \A t \in TypesTo[d] :
        NarrowType[t] \in TypesTo[d] /\ NarrowType[NarrowType[t]] = NarrowType[t]
  <1> DEFINE Fails == {d \in Depths : ~\A t \in TypesTo[d] :
                         NarrowType[t] \in TypesTo[d] /\ NarrowType[NarrowType[t]] = NarrowType[t]}
  <1>1. ASSUME Fails # {} PROVE FALSE
    <2>1. PICK d \in Fails : \A k \in Fails : d <= k
      <3>1. Fails \subseteq Nat
        BY DepthsNat
      <3> HIDE DEF Fails
      <3> QED
        BY <1>1, <3>1, LeastOf
    <2>2. d \in Depths /\ d \in Nat
      BY DepthsNat
    <2>3. PICK t \in TypesTo[d] : ~(NarrowType[t] \in TypesTo[d] /\ NarrowType[NarrowType[t]] = NarrowType[t])
      BY <2>1
    <2>4. CASE t \in Leaves /\ t.kind = "StringType"
      <3> DEFINE n == [kind |-> "StringType", capacity |-> t.capacity % Limit]
      <3>1. NarrowType[t] = n
        BY <2>4, StringTravels
      <3>2. t.capacity \in Nat /\ t.capacity % Limit \in Nat /\ (t.capacity % Limit) < Limit
        BY <2>4, LeafShape, LimitNat, BaseAssumption
      <3>3. (t.capacity % Limit) % Limit = t.capacity % Limit
        BY <3>2, LimitNat, SmallRemainder
      <3>4. n \in Leaves /\ n.kind = "StringType" /\ n.capacity = t.capacity % Limit
        BY <3>2 DEF Leaves
      <3>5. NarrowType[n] = [kind |-> "StringType", capacity |-> n.capacity % Limit]
        BY <3>4, StringTravels
      <3>6. NarrowType[n] = n
        BY <3>3, <3>4, <3>5
      <3>7. n \in TypesTo[d]
        BY <2>2, <3>4, SomeTypes
      <3> QED
        BY <2>3, <3>1, <3>6, <3>7
    <2>5. CASE t \in Leaves /\ t.kind # "StringType"
      BY <2>2, <2>3, <2>5, LeafTravels
    <2>6. CASE d # 0 /\ t \in Aggregates(TypesTo[d - 1])
      <3>1. d - 1 \in Depths /\ ~(d <= d - 1)
        BY <2>2, <2>6, DepthsNat
      <3>2. \A u \in TypesTo[d - 1] : NarrowType[u] \in TypesTo[d - 1] /\ NarrowType[NarrowType[u]] = NarrowType[u]
        BY <2>1, <3>1
      <3> DEFINE ns == NarrowFieldsBy(NarrowType, t.fields)
                 n  == [kind |-> "AggregateType", fields |-> ns]
      <3>3. t.fields \in FieldList(TypesTo[d - 1]) /\ t \in Types
        BY <2>2, <2>6, AggregateShape, SomeTypes
      <3>4. ns \in FieldList(TypesTo[d - 1]) /\ NarrowFieldsBy(NarrowType, ns) = ns
        BY <3>2, <3>3, NarrowedFields
      <3>5. \A u \in TypesTo[d - 1] : Travels(u)
        BY <3>1, TypesTravel
      <3>6. NarrowType[t] = n
        BY <2>6, <3>3, <3>5, AggregateTravels
      <3> HIDE DEF ns
      <3>7. n \in Aggregates(TypesTo[d - 1]) /\ n.fields = ns
        BY <3>4 DEF Aggregates
      <3>8. n \in TypesTo[d] /\ n \in Types
        BY <2>2, <2>6, <3>7, SomeTypes
      <3>9. NarrowType[n] = [kind |-> "AggregateType", fields |-> NarrowFieldsBy(NarrowType, n.fields)]
        BY <3>5, <3>7, <3>8, AggregateTravels
      <3>10. NarrowType[n] = n
        BY <3>4, <3>7, <3>9
      <3> QED
        BY <2>3, <3>6, <3>8, <3>10
    <2> QED
      BY <2>2, <2>4, <2>5, <2>6, TypeShape
  <1> QED
    BY <1>1

IsSchema(s) ==
    /\ s = [fields |-> s.fields, key |-> s.key]
    /\ s.fields \in Fields /\ s.key \in 0..(Len(s.fields) - 1)

SchemaReader == [c \in Bytes |-> ReadSchema(c)]

LEMMA NarrowSchema ==
    ASSUME NEW s, IsSchema(s)
    PROVE  /\ Narrow(s) = [fields |-> NarrowFieldsBy(NarrowType, s.fields), key |-> s.key]
           /\ IsSchema(Narrow(s)) /\ Narrow(Narrow(s)) = Narrow(s)
           /\ Len(Narrow(s).fields) = Len(s.fields)
  <1> DEFINE ns == NarrowFieldsBy(NarrowType, s.fields)
             n  == [fields |-> ns, key |-> s.key]
             T  == TypesTo[MaxNesting - 1]
  <1>1. s = [fields |-> s.fields, key |-> s.key] /\ s.fields \in FieldList(T) /\ s.key \in 0..(Len(s.fields) - 1)
    BY TypesSmall DEF IsSchema
  <1>2. \A x, y, z : [[fields |-> x, key |-> y] EXCEPT !.fields = z] = [fields |-> z, key |-> y]
    OBVIOUS
  <1>3. Narrow(s) = n
    BY <1>1, <1>2 DEF Narrow
  <1>4. \A t \in T : NarrowType[t] \in T /\ NarrowType[NarrowType[t]] = NarrowType[t]
    BY DepthsNat, NarrowedTypes
  <1>5. ns \in FieldList(T) /\ NarrowFieldsBy(NarrowType, ns) = ns /\ Len(ns) = Len(s.fields)
    BY <1>1, <1>4, NarrowedFields, NarrowFieldsShape
  <1> HIDE DEF ns, T
  <1>6. n.fields = ns /\ n.key = s.key
    OBVIOUS
  <1>7. IsSchema(n)
    BY <1>1, <1>5, <1>6, TypesSmall DEF IsSchema, T
  <1>8. Narrow(n) = [fields |-> NarrowFieldsBy(NarrowType, ns), key |-> s.key]
    BY <1>2 DEF Narrow
  <1> QED
    BY <1>3, <1>5, <1>6, <1>7, <1>8 DEF ns

LEMMA SchemaTravels ==
    ASSUME NEW s, IsSchema(s)
    PROVE  /\ WriteSchema(s) \in Bytes
           /\ Reads(SchemaReader, WriteSchema(s), Narrow(s))
  <1> DEFINE T  == TypesTo[MaxNesting - 1]
             w  == WriteFieldsBy(WriteType, s.fields)
             ns == NarrowFieldsBy(NarrowType, s.fields)
             k  == U32(s.key)
             n  == [fields |-> ns, key |-> s.key]
             a  == [c \in Bytes |-> ReadU32(c)]
  <1>1. s.fields \in FieldList(T) /\ s.key \in 0..(Len(s.fields) - 1) /\ Len(s.fields) \in Nat
        /\ Len(s.fields) < Limit
    BY TypesSmall, FieldListShape DEF IsSchema
  <1>2. \A t \in T : Travels(t)
    BY DepthsNat, TypesTravel
  <1>3. w \in Bytes /\ Reads(FieldsReader, w, ns)
    BY <1>1, <1>2, FieldsTravel
  <1>4. s.key \in Nat /\ s.key < Limit /\ s.key < Len(s.fields) /\ s.key % Limit = s.key
    BY <1>1, LimitNat, SmallRemainder
  <1>5. k \in Bytes /\ Reads(a, k, s.key)
    BY <1>4, U32Reads, U32Value
  <1>6. Narrow(s) = n /\ Len(ns) = Len(s.fields) /\ WriteSchema(s) = w \o k
    BY NarrowSchema DEF WriteSchema
  <1>7. ~(s.key >= Len(ns))
    BY <1>1, <1>4, <1>6
  <1> DEFINE r(fs) == After(fs, ReadU32(fs.c))
             g(fs, key) == After(key, IF key.v >= Len(fs.v) THEN Illegal
                                      ELSE Got([fields |-> fs.v, key |-> key.v], key.c))
  <1>8. \A c \in Bytes : SchemaReader[c] = g(FieldsReader[c], r(FieldsReader[c]))
    <2>1. ASSUME NEW c \in Bytes PROVE SchemaReader[c] = g(FieldsReader[c], r(FieldsReader[c]))
      <3> DEFINE fs  == FieldsReader[c]
                 key == ReadU32(fs.c)
                 all == IF key.v >= Len(fs.v) THEN Illegal ELSE Got([fields |-> fs.v, key |-> key.v], key.c)
      <3>1. SchemaReader[c] = IF Ok(fs) THEN IF Ok(key) THEN all ELSE key ELSE fs
        BY DEF SchemaReader, FieldsReader, ReadSchema, Then
      <3>2. /\ Ok(fs) => r(fs) = key
            /\ ~Ok(fs) => r(fs) = fs
        BY DEF After
      <3>3. /\ Ok(key) => g(fs, key) = all
            /\ \A x : ~Ok(x) => g(fs, x) = x
        BY DEF After
      <3> HIDE DEF fs, key, all, r, g
      <3> QED
        BY <3>1, <3>2, <3>3 DEF fs
    <2> QED
      BY <2>1
  <1>9. /\ r(Incomplete) = Incomplete /\ \A d \in Bytes : r(Got(ns, d)) = a[d]
        /\ \A fs : g(fs, Incomplete) = Incomplete
        /\ \A d, e : g(Got(ns, d), Got(s.key, e)) = Got(n, e)
    <2>1. r(Incomplete) = Incomplete /\ \A d \in Bytes : r(Got(ns, d)) = a[d]
      BY Results DEF After
    <2>2. \A fs : g(fs, Incomplete) = Incomplete
      BY Results DEF After
    <2>3. ASSUME NEW d, NEW e PROVE g(Got(ns, d), Got(s.key, e)) = Got(n, e)
      <3> HIDE DEF ns
      <3>1. /\ Got(ns, d).v = ns /\ Got(s.key, e).v = s.key /\ Got(s.key, e).c = e
            /\ Ok(Got(s.key, e))
        BY Results
      <3> QED
        BY <1>7, <3>1 DEF After
    <2> QED
      BY <2>1, <2>2, <2>3
  <1> HIDE DEF T, w, ns, k, n, a, r, g
  <1>10. ASSUME NEW c \in Bytes PROVE SchemaReader[(w \o k) \o c] = Got(n, c)
    <2>1. k \o c \in Bytes /\ FieldsReader[(w \o k) \o c] = Got(ns, k \o c) /\ a[k \o c] = Got(s.key, c)
      BY <1>3, <1>5, ReadsInTurn
    <2>2. (w \o k) \o c \in Bytes
      BY <1>3, <1>5, Closed
    <2> QED
      BY <1>8, <1>9, <2>1, <2>2
  <1>11. ASSUME NEW p \in Bytes, StrictPrefix(p, w \o k) PROVE SchemaReader[p] = Incomplete
    <2>1. \/ FieldsReader[p] = Incomplete
          \/ \E c \in Bytes : FieldsReader[p] = Got(ns, c) /\ a[c] = Incomplete
      BY <1>3, <1>5, <1>11, ReadsInTurn
    <2>2. CASE FieldsReader[p] = Incomplete
      BY <1>8, <1>9, <2>2
    <2>3. CASE \E c \in Bytes : FieldsReader[p] = Got(ns, c) /\ a[c] = Incomplete
      <3>1. PICK c \in Bytes : FieldsReader[p] = Got(ns, c) /\ a[c] = Incomplete
        BY <2>3
      <3> QED
        BY <1>8, <1>9, <3>1
    <2> QED
      BY <2>1, <2>2, <2>3
  <1>12. Reads(SchemaReader, w \o k, n) /\ w \o k \in Bytes
    BY <1>3, <1>5, <1>10, <1>11, Closed DEF Reads
  <1> QED
    BY <1>6, <1>12

-----------------------------------------------------------------------------
(* Messages. *)

\* Lists of messages: an index fits a byte, an op has one, and a body has at
\* most two fields.
Alternatives(as) ==
    /\ DOMAIN as = 1..Len(as) /\ Len(as) \in 1..12
    /\ \A i, j \in DOMAIN as : as[i].op = as[j].op => i = j
    /\ \A i \in DOMAIN as : \/ as[i].body = <<>>
                            \/ \E x : x # "op" /\ as[i].body = <<x>>
                            \/ \E x, y : x # y /\ x # "op" /\ y # "op" /\ as[i].body = <<x, y>>

LEMMA TheLists == Alternatives(Commands) /\ Alternatives(Responses)
  <1>1. Alternatives(Commands)
    <2>1. DOMAIN Commands = 1..Len(Commands) /\ Len(Commands) = 7
      BY DEF Commands
    <2>2. /\ Commands[1].op = "RegisterSchema" /\ Commands[2].op = "CreateCollection"
          /\ Commands[3].op = "GetSchema" /\ Commands[4].op = "GetCollectionSchema"
          /\ Commands[5].op = "Get" /\ Commands[6].op = "Put" /\ Commands[7].op = "Delete"
      BY DEF Commands
    <2>3. /\ Commands[1].body = <<"name", "schema">> /\ Commands[2].body = <<"name", "schema_name">>
          /\ Commands[3].body = <<"name">> /\ Commands[4].body = <<"name">>
          /\ Commands[5].body = <<"coll_name", "key">> /\ Commands[6].body = <<"coll_name", "value">>
          /\ Commands[7].body = <<"coll_name", "key">>
      BY DEF Commands
    <2> QED
      BY <2>1, <2>2, <2>3 DEF Alternatives
  <1>2. Alternatives(Responses)
    <2>1. DOMAIN Responses = 1..Len(Responses) /\ Len(Responses) = 7
      BY DEF Responses
    <2>2. /\ Responses[1].op = "Success" /\ Responses[2].op = "Failed"
          /\ Responses[3].op = "InvalidCommand" /\ Responses[4].op = "NotFound"
          /\ Responses[5].op = "Found" /\ Responses[6].op = "String" /\ Responses[7].op = "Schema"
      BY DEF Responses
    <2>3. /\ \A i \in 1..4 : Responses[i].body = <<>>
          /\ Responses[5].body = <<"value">> /\ Responses[6].body = <<"value">>
          /\ Responses[7].body = <<"schema">>
      BY DEF Responses
    <2> QED
      BY <2>1, <2>2, <2>3 DEF Alternatives
  <1> QED
    BY <1>1, <1>2

\* The reader of the field x, what is written of y as that field, and what is
\* read of it.
PartReader(x)   == [c \in Bytes |-> IF x = "schema" THEN ReadSchema(c) ELSE ReadString(c)]
PartBytes(x, y) == IF x = "schema" THEN WriteSchema(y) ELSE WriteString(y)
PartRead(x, y)  == IF x = "schema" THEN Narrow(y) ELSE y
IsPart(x, y)    == IF x = "schema" THEN IsSchema(y) ELSE y \in Names

LEMMA PartTravels ==
    ASSUME NEW x, NEW y, IsPart(x, y)
    PROVE  PartBytes(x, y) \in Bytes /\ Reads(PartReader(x), PartBytes(x, y), PartRead(x, y))
  <1>1. CASE x = "schema"
    <2>1. PartReader(x) = SchemaReader
      BY <1>1 DEF PartReader, SchemaReader
    <2> QED
      BY <1>1, <2>1, SchemaTravels DEF IsPart, PartBytes, PartRead
  <1>2. CASE x # "schema"
    <2>1. PartReader(x) = [c \in Bytes |-> ReadString(c)]
      BY <1>2 DEF PartReader
    <2> QED
      BY <1>2, <2>1, StringReads DEF IsPart, PartBytes, PartRead
  <1> QED
    BY <1>1, <1>2

\* One more field of the body.
NoField        == [x \in {} |-> 0]
With(v, x, w)  == [z \in {x} \cup DOMAIN v |-> IF z = x THEN w ELSE v[z]]
NextPart(r, x) ==
    Then(r, LAMBDA m, d :
    Then(IF x = "schema" THEN ReadSchema(d) ELSE ReadString(d), LAMBDA part, e :
        Got([z \in {x} \cup DOMAIN m |-> IF z = x THEN part ELSE m[z]], e)))

LEMMA BodyRead ==
    ASSUME NEW c
    PROVE  /\ ReadBody(c, <<>>) = Got(NoField, c)
           /\ \A x : ReadBody(c, <<x>>) = NextPart(Got(NoField, c), x)
           /\ \A x, y : ReadBody(c, <<x, y>>) = NextPart(NextPart(Got(NoField, c), x), y)
  <1> DEFINE R(body, f) == [j \in 0..Len(body) |-> IF j = 0 THEN Got(NoField, c) ELSE NextPart(f[j - 1], body[j])]
  <1>1. \A body : ReadBody(c, body) = (CHOOSE f : f = R(body, f))[Len(body)]
    BY DEF ReadBody, NextPart, NoField
  <1>2. ReadBody(c, <<>>) = Got(NoField, c)
    <2> DEFINE b == <<>>
    <2>0. Len(b) = 0 /\ 0..Len(b) = {0}
      OBVIOUS
    <2> HIDE DEF b
    <2>1. \E f : f = R(b, f)
      <3> DEFINE f == [j \in 0..Len(b) |-> Got(NoField, c)]
                 g == R(b, f)
      <3>1. \A j \in 0..Len(b) : g[j] = f[j]
        BY <2>0
      <3>2. f = g
        BY <3>1
      <3> QED
        BY <3>2
    <2>2. PICK f : f = R(b, f) /\ ReadBody(c, b) = f[Len(b)]
      <3> HIDE DEF R
      <3> QED
        BY <1>1, <2>1
    <2>3. ReadBody(c, b) = Got(NoField, c)
      BY <2>0, <2>2
    <2> QED
      BY <2>3 DEF b
  <1>3. ASSUME NEW x PROVE ReadBody(c, <<x>>) = NextPart(Got(NoField, c), x)
    <2> DEFINE b == <<x>>
    <2>0. Len(b) = 1 /\ 0..Len(b) = {0, 1} /\ b[1] = x
      OBVIOUS
    <2> HIDE DEF b
    <2>1. \E f : f = R(b, f)
      <3> DEFINE f == [j \in 0..Len(b) |-> IF j = 0 THEN Got(NoField, c) ELSE NextPart(Got(NoField, c), x)]
                 g == R(b, f)
      <3>1. \A j \in 0..Len(b) : g[j] = f[j]
        BY <2>0
      <3>2. f = g
        BY <3>1
      <3> QED
        BY <3>2
    <2>2. PICK f : f = R(b, f) /\ ReadBody(c, b) = f[Len(b)]
      <3> HIDE DEF R
      <3> QED
        BY <1>1, <2>1
    <2>3. f[0] = Got(NoField, c) /\ f[1] = NextPart(f[0], x)
      BY <2>0, <2>2
    <2> QED
      BY <2>0, <2>2, <2>3 DEF b
  <1>4. ASSUME NEW x, NEW y PROVE ReadBody(c, <<x, y>>) = NextPart(NextPart(Got(NoField, c), x), y)
    <2> DEFINE b == <<x, y>>
    <2>0. Len(b) = 2 /\ 0..Len(b) = {0, 1, 2} /\ b[1] = x /\ b[2] = y
      OBVIOUS
    <2> HIDE DEF b
    <2>1. \E f : f = R(b, f)
      <3> DEFINE f == [j \in 0..Len(b) |-> IF j = 0 THEN Got(NoField, c)
                                           ELSE IF j = 1 THEN NextPart(Got(NoField, c), x)
                                           ELSE NextPart(NextPart(Got(NoField, c), x), y)]
                 g == R(b, f)
      <3>1. \A j \in 0..Len(b) : g[j] = f[j]
        BY <2>0
      <3>2. f = g
        BY <3>1
      <3> QED
        BY <3>2
    <2>2. PICK f : f = R(b, f) /\ ReadBody(c, b) = f[Len(b)]
      <3> HIDE DEF R
      <3> QED
        BY <1>1, <2>1
    <2>3. f[0] = Got(NoField, c) /\ f[1] = NextPart(f[0], x) /\ f[2] = NextPart(f[1], y)
      BY <2>0, <2>2
    <2> QED
      BY <2>0, <2>2, <2>3 DEF b
  <1> QED
    BY <1>2, <1>3, <1>4

LEMMA NextPartIs ==
    ASSUME NEW x
    PROVE  /\ NextPart(Incomplete, x) = Incomplete
           /\ \A v : \A c \in Bytes :
                /\ PartReader(x)[c] = Incomplete => NextPart(Got(v, c), x) = Incomplete
                /\ \A w, d : PartReader(x)[c] = Got(w, d) => NextPart(Got(v, c), x) = Got(With(v, x, w), d)
  <1>1. NextPart(Incomplete, x) = Incomplete
    BY Results DEF NextPart, Then
  <1>2. ASSUME NEW v, NEW c \in Bytes
        PROVE  /\ PartReader(x)[c] = Incomplete => NextPart(Got(v, c), x) = Incomplete
               /\ \A w, d : PartReader(x)[c] = Got(w, d) => NextPart(Got(v, c), x) = Got(With(v, x, w), d)
    <2> DEFINE r == IF x = "schema" THEN ReadSchema(c) ELSE ReadString(c)
    <2>1. PartReader(x)[c] = r
      BY DEF PartReader
    <2> DEFINE m == Got(v, c)
               q == IF x = "schema" THEN ReadSchema(m.c) ELSE ReadString(m.c)
    <2>2. Ok(m) /\ m.v = v /\ m.c = c
      BY Results
    <2>3. q = r
      BY <2>2
    <2>4. NextPart(m, x) = IF Ok(m)
                           THEN IF Ok(q) THEN Got([z \in {x} \cup DOMAIN m.v |-> IF z = x THEN q.v ELSE m.v[z]], q.c)
                                ELSE q
                           ELSE m
      BY DEF NextPart, Then
    <2> HIDE DEF q, r, m
    <2>5. NextPart(m, x) = IF Ok(r) THEN Got(With(v, x, r.v), r.c) ELSE r
      BY <2>2, <2>3, <2>4 DEF With
    <2>6. r = Incomplete => NextPart(m, x) = Incomplete
      BY <2>5, Results
    <2>7. \A w, d : r = Got(w, d) => NextPart(m, x) = Got(With(v, x, w), d)
      BY <2>5, Results
    <2> QED
      BY <2>1, <2>6, <2>7 DEF m
  <1> QED
    BY <1>1, <1>2

LEMMA FlattenFew ==
    /\ FlattenSeq([j \in 1..0 |-> <<>>]) = <<>>
    /\ \A s \in [1..1 -> Bytes] : FlattenSeq(s) = s[1]
    /\ \A s \in [1..2 -> Bytes] : FlattenSeq(s) = s[1] \o s[2]
  <1>1. FlattenSeq([j \in 1..0 |-> <<>>]) = <<>>
    <2> DEFINE s == [j \in 1..0 |-> <<>>]
    <2>1. s \in [1..0 -> Bytes]
      OBVIOUS
    <2> HIDE DEF s
    <2>2. PICK rest : Unfolds(rest, s, 0) /\ FlattenSeq(s) = rest[0]
      BY <2>1, FlattenUnfolds
    <2>3. FlattenSeq(s) = <<>>
      BY <2>2 DEF Unfolds
    <2> QED
      BY <2>3 DEF s
  <1>2. ASSUME NEW s \in [1..1 -> Bytes] PROVE FlattenSeq(s) = s[1]
    <2>1. PICK rest : Unfolds(rest, s, 1) /\ FlattenSeq(s) = rest[0]
      BY FlattenUnfolds
    <2>2. 1 \in 1..1 /\ s[1] \in Bytes
      OBVIOUS
    <2>3. rest[1 - 1] = s[1] \o rest[1] /\ rest[1] = <<>>
      BY <2>1, <2>2 DEF Unfolds
    <2>4. rest[0] = s[1] \o <<>> /\ s[1] \o <<>> = s[1]
      BY <2>2, <2>3, ByteSeqs
    <2> QED
      BY <2>1, <2>4
  <1>3. ASSUME NEW s \in [1..2 -> Bytes] PROVE FlattenSeq(s) = s[1] \o s[2]
    <2>1. PICK rest : Unfolds(rest, s, 2) /\ FlattenSeq(s) = rest[0]
      BY FlattenUnfolds
    <2>2. 1 \in 1..2 /\ 2 \in 1..2 /\ s[2] \in Bytes
      OBVIOUS
    <2>3. rest[1 - 1] = s[1] \o rest[1] /\ rest[2 - 1] = s[2] \o rest[2] /\ rest[2] = <<>>
      BY <2>1, <2>2 DEF Unfolds
    <2>4. rest[0] = s[1] \o rest[1] /\ rest[1] = s[2] \o <<>> /\ s[2] \o <<>> = s[2]
      BY <2>2, <2>3, ByteSeqs
    <2> QED
      BY <2>1, <2>4
  <1> QED
    BY <1>1, <1>2, <1>3

BodyBytes(body, m) == FlattenSeq([j \in 1..Len(body) |-> PartBytes(body[j], m[body[j]])])
BodyReader(body)   == [c \in Bytes |-> ReadBody(c, body)]
BodyValue(body, m) == [x \in Range(body) |-> PartRead(x, m[x])]

LEMMA BodyTravels ==
    ASSUME NEW body, NEW m,
           \/ body = <<>>
           \/ \E x : body = <<x>>
           \/ \E x, y : x # y /\ body = <<x, y>>,
           \A x \in Range(body) : IsPart(x, m[x])
    PROVE  BodyBytes(body, m) \in Bytes /\ Reads(BodyReader(body), BodyBytes(body, m), BodyValue(body, m))
  <1>1. CASE body = <<>>
    <2>1. BodyBytes(body, m) = <<>> /\ <<>> \in Bytes
      <3>1. [j \in 1..Len(body) |-> PartBytes(body[j], m[body[j]])] = [j \in 1..0 |-> <<>>]
        BY <1>1
      <3> QED
        BY <3>1, FlattenFew, ByteSeqs DEF BodyBytes
    <2>2. BodyValue(body, m) = NoField
      BY <1>1 DEF BodyValue, NoField, Range
    <2>3. \A c \in Bytes : <<>> \o c = c
      BY ByteSeqs
    <2>4. \A c \in Bytes : BodyReader(body)[c] = Got(NoField, c)
      BY <1>1, BodyRead DEF BodyReader
    <2> QED
      BY <2>1, <2>2, <2>3, <2>4, NoStrictPrefix DEF Reads
  <1>2. CASE \E x : body = <<x>>
    <2>1. PICK x : body = <<x>>
      BY <1>2
    <2>2. Len(body) = 1 /\ body[1] = x /\ Range(body) = {x} /\ IsPart(x, m[x])
      BY <2>1 DEF Range
    <2> DEFINE s == PartBytes(x, m[x])
               v == PartRead(x, m[x])
    <2>3. s \in Bytes /\ Reads(PartReader(x), s, v)
      BY <2>2, PartTravels
    <2>4. BodyBytes(body, m) = s
      <3> DEFINE ss == [j \in 1..Len(body) |-> PartBytes(body[j], m[body[j]])]
      <3>1. ss \in [1..1 -> Bytes] /\ ss[1] = s
        BY <2>2, <2>3
      <3> HIDE DEF ss
      <3>2. FlattenSeq(ss) = s
        BY <3>1, FlattenFew
      <3> QED
        BY <3>2 DEF BodyBytes, ss
    <2>5. BodyValue(body, m) = With(NoField, x, v)
      BY <2>2 DEF BodyValue, With, NoField
    <2>6. \A c \in Bytes : BodyReader(body)[c] = NextPart(Got(NoField, c), x)
      BY <2>1, BodyRead DEF BodyReader
    <2> HIDE DEF s, v
    <2>7. Reads(BodyReader(body), s, With(NoField, x, v))
      <3>1. \A c \in Bytes : s \o c \in Bytes
        BY <2>3, Closed
      <3> QED
        BY <2>3, <2>6, <3>1, NextPartIs DEF Reads
    <2> QED
      BY <2>3, <2>4, <2>5, <2>7
  <1>3. CASE \E x, y : x # y /\ body = <<x, y>>
    <2>1. PICK x, y : x # y /\ body = <<x, y>>
      BY <1>3
    <2>2. /\ Len(body) = 2 /\ body[1] = x /\ body[2] = y /\ Range(body) = {x, y}
          /\ IsPart(x, m[x]) /\ IsPart(y, m[y])
      <3>1. Len(body) = 2 /\ body[1] = x /\ body[2] = y /\ DOMAIN body = {1, 2}
        BY <2>1
      <3>2. Range(body) = {x, y}
        BY <3>1 DEF Range
      <3> QED
        BY <3>1, <3>2
    <2> DEFINE s == PartBytes(x, m[x])
               v == PartRead(x, m[x])
               t == PartBytes(y, m[y])
               w == PartRead(y, m[y])
    <2>3. s \in Bytes /\ Reads(PartReader(x), s, v) /\ t \in Bytes /\ Reads(PartReader(y), t, w)
      BY <2>2, PartTravels
    <2>4. BodyBytes(body, m) = s \o t
      <3> DEFINE ss == [j \in 1..Len(body) |-> PartBytes(body[j], m[body[j]])]
      <3>1. ss \in [1..2 -> Bytes] /\ ss[1] = s /\ ss[2] = t
        BY <2>2, <2>3
      <3> HIDE DEF ss
      <3>2. FlattenSeq(ss) = s \o t
        BY <3>1, FlattenFew
      <3> QED
        BY <3>2 DEF BodyBytes, ss
    <2>5. BodyValue(body, m) = With(With(NoField, x, v), y, w)
      <3>1. DOMAIN With(NoField, x, v) = {x} /\ With(NoField, x, v)[x] = v
        BY DEF With, NoField
      <3> HIDE DEF v, w
      <3>2. With(With(NoField, x, v), y, w) = [z \in {x, y} |-> IF z = y THEN w ELSE v]
        BY <3>1 DEF With
      <3>3. BodyValue(body, m) = [z \in {x, y} |-> IF z = y THEN w ELSE v]
        BY <2>1, <2>2 DEF BodyValue, v, w
      <3> QED
        BY <3>2, <3>3
    <2>6. \A c \in Bytes : BodyReader(body)[c] = NextPart(NextPart(Got(NoField, c), x), y)
      BY <2>1, BodyRead DEF BodyReader
    <2> HIDE DEF s, v, t, w
    <2>7. ASSUME NEW c \in Bytes PROVE BodyReader(body)[(s \o t) \o c] = Got(With(With(NoField, x, v), y, w), c)
      <3>1. t \o c \in Bytes /\ PartReader(x)[(s \o t) \o c] = Got(v, t \o c) /\ PartReader(y)[t \o c] = Got(w, c)
        BY <2>3, ReadsInTurn
      <3>2. s \o t \in Bytes /\ (s \o t) \o c \in Bytes
        BY <2>3, Closed
      <3>3. NextPart(Got(NoField, (s \o t) \o c), x) = Got(With(NoField, x, v), t \o c)
        BY <3>1, <3>2, NextPartIs
      <3>4. NextPart(Got(With(NoField, x, v), t \o c), y) = Got(With(With(NoField, x, v), y, w), c)
        BY <3>1, NextPartIs
      <3> QED
        BY <2>6, <3>2, <3>3, <3>4
    <2>8. ASSUME NEW p \in Bytes, StrictPrefix(p, s \o t) PROVE BodyReader(body)[p] = Incomplete
      <3>1. \/ PartReader(x)[p] = Incomplete
            \/ \E c \in Bytes : PartReader(x)[p] = Got(v, c) /\ PartReader(y)[c] = Incomplete
        BY <2>3, <2>8, ReadsInTurn
      <3>2. CASE PartReader(x)[p] = Incomplete
        <4>1. NextPart(Got(NoField, p), x) = Incomplete /\ NextPart(Incomplete, y) = Incomplete
          BY <3>2, NextPartIs
        <4> QED
          BY <2>6, <4>1
      <3>3. CASE \E c \in Bytes : PartReader(x)[p] = Got(v, c) /\ PartReader(y)[c] = Incomplete
        <4>1. PICK c \in Bytes : PartReader(x)[p] = Got(v, c) /\ PartReader(y)[c] = Incomplete
          BY <3>3
        <4>2. NextPart(Got(NoField, p), x) = Got(With(NoField, x, v), c)
          BY <4>1, NextPartIs
        <4>3. NextPart(Got(With(NoField, x, v), c), y) = Incomplete
          BY <4>1, NextPartIs
        <4> QED
          BY <2>6, <4>2, <4>3
      <3> QED
        BY <3>1, <3>2, <3>3
    <2>9. s \o t \in Bytes
      BY <2>3, Closed
    <2> QED
      BY <2>4, <2>5, <2>7, <2>8, <2>9 DEF Reads
  <1> QED
    BY <1>1, <1>2, <1>3

\* m is the i-th alternative, with values for the fields of its body.
IsMessage(as, i, m) ==
    /\ i \in DOMAIN as /\ m.op = as[i].op
    /\ m = [x \in {"op"} \cup Range(as[i].body) |-> m[x]]
    /\ \A x \in Range(as[i].body) : IsPart(x, m[x])

\* The cursor behind a message is where the next one begins, and of a part of a
\* message nothing is made: read and write of binary_protocol.cpp agree on every
\* command and response, up to the width of a capacity.
THEOREM MessagesTravel ==
    ASSUME NEW as, Alternatives(as), NEW i, NEW m, IsMessage(as, i, m)
    PROVE  /\ Write(as, m) \in Bytes /\ Write(as, m) # <<>>
           /\ Reads([c \in Bytes |-> Read(as, c)], Write(as, m), OnWire(m))
  <1> DEFINE body == as[i].body
             b == BodyBytes(body, m)
             v == BodyValue(body, m)
             u == <<i>>
             R == [c \in Bytes |-> Read(as, c)]
  <1>1. i \in 1..Len(as) /\ i \in DOMAIN as /\ i \in Byte /\ u \in Bytes /\ Len(u) = 1
    <2>1. i \in 1..Len(as) /\ Len(as) \in 1..12
      BY DEF IsMessage, Alternatives
    <2>2. i \in Byte
      <3>1. \A n \in 1..12 : \A j \in 1..n : j \in Byte
        BY BaseAssumption DEF Byte
      <3> QED
        BY <2>1, <3>1
    <2> QED
      BY <2>1, <2>2, ByteSeqs DEF IsMessage
  <1>2. b \in Bytes /\ Reads(BodyReader(body), b, v)
    <2>1. \/ body = <<>> \/ (\E x : body = <<x>>) \/ (\E x, y : x # y /\ body = <<x, y>>)
      BY <1>1 DEF Alternatives
    <2>2. \A x \in Range(body) : IsPart(x, m[x])
      BY DEF IsMessage
    <2> QED
      BY <2>1, <2>2, BodyTravels
  <1>3. Write(as, m) = u \o b
    <2>1. (CHOOSE j \in 1..Len(as) : as[j].op = m.op) = i
      <3>1. as[i].op = m.op /\ \A j \in 1..Len(as) : as[j].op = m.op => j = i
        BY <1>1 DEF Alternatives, IsMessage
      <3> QED
        BY <1>1, <3>1
    <2> DEFINE k == CHOOSE j \in 1..Len(as) : as[j].op = m.op
    <2>2. Write(as, m) = <<k>> \o BodyBytes(as[k].body, m)
      BY DEF Write, BodyBytes, PartBytes
    <2>3. k = i
      BY <2>1
    <2> HIDE DEF k
    <2> QED
      BY <2>2, <2>3
  <1>4. Reads([c \in Bytes |-> ReadU8(c)], u, i)
    BY <1>1, U8Reads
  <1> DEFINE g(w) == [x \in {"op"} \cup DOMAIN w |-> IF x = "op" THEN as[i].op ELSE w[x]]
  <1>5. g(v) = OnWire(m)
    <2>1. DOMAIN v = Range(body) /\ DOMAIN m = {"op"} \cup Range(body) /\ "op" \notin Range(body)
      <3>1. "op" \notin Range(body)
        <4>1. \/ body = <<>>
              \/ \E x : x # "op" /\ body = <<x>>
              \/ \E x, y : x # y /\ x # "op" /\ y # "op" /\ body = <<x, y>>
          BY <1>1 DEF Alternatives
        <4> HIDE DEF body
        <4>2. CASE body = <<>>
          BY <4>2 DEF Range
        <4>3. CASE \E x : x # "op" /\ body = <<x>>
          <5>1. PICK x : x # "op" /\ body = <<x>>
            BY <4>3
          <5>2. DOMAIN body = {1} /\ body[1] = x
            BY <5>1
          <5> QED
            BY <5>1, <5>2 DEF Range
        <4>4. CASE \E x, y : x # y /\ x # "op" /\ y # "op" /\ body = <<x, y>>
          <5>1. PICK x, y : x # "op" /\ y # "op" /\ body = <<x, y>>
            BY <4>4
          <5>2. DOMAIN body = {1, 2} /\ body[1] = x /\ body[2] = y
            BY <5>1
          <5> QED
            BY <5>1, <5>2 DEF Range
        <4> QED
          BY <4>1, <4>2, <4>3, <4>4
      <3>2. DOMAIN m = {"op"} \cup Range(body)
        BY DEF IsMessage
      <3> QED
        BY <3>1, <3>2 DEF BodyValue
    <2> DEFINE e == [x \in {"op"} \cup Range(body) |-> IF x = "schema" THEN Narrow(m[x]) ELSE m[x]]
    <2>2. g(v) = e
      <3>1. \A x \in Range(body) : v[x] = IF x = "schema" THEN Narrow(m[x]) ELSE m[x]
        BY DEF BodyValue, PartRead
      <3>2. m["op"] = as[i].op
        BY DEF IsMessage
      <3> HIDE DEF v, body
      <3> QED
        BY <2>1, <3>1, <3>2
    <2>3. OnWire(m) = e
      <3>1. m = [x \in {"op"} \cup Range(body) |-> m[x]]
        BY DEF IsMessage
      <3> HIDE DEF body
      <3>2. CASE "schema" \in DOMAIN m
        <4>1. OnWire(m) = [m EXCEPT !["schema"] = Narrow(m["schema"])]
          BY <3>2 DEF OnWire
        <4> QED
          BY <2>1, <3>1, <4>1
      <3>3. CASE "schema" \notin DOMAIN m
        BY <2>1, <3>1, <3>3 DEF OnWire
      <3> QED
        BY <3>2, <3>3
    <2> QED
      BY <2>2, <2>3
  <1>6. \A c \in Bytes : Read(as, c) =
          LET h == ReadU8(c)
              n == IF h.v \notin DOMAIN as THEN Illegal ELSE ReadBody(h.c, as[h.v].body)
          IN IF Ok(h) THEN IF Ok(n) THEN Got([x \in {"op"} \cup DOMAIN n.v |-> IF x = "op" THEN as[h.v].op ELSE n.v[x]], n.c)
                           ELSE n
             ELSE h
    BY DEF Read, Then
  <1>7. \A c \in Bytes : ReadU8(c) = Incomplete => Read(as, c) = Incomplete
    BY <1>6, Results
  <1>8. ASSUME NEW c \in Bytes, NEW d \in Bytes, ReadU8(c) = Got(i, d)
        PROVE  /\ BodyReader(body)[d] = Incomplete => Read(as, c) = Incomplete
               /\ \A e : BodyReader(body)[d] = Got(v, e) => Read(as, c) = Got(OnWire(m), e)
    <2> DEFINE n == ReadBody(d, body)
    <2>1. Ok(ReadU8(c)) /\ ReadU8(c).v = i /\ ReadU8(c).c = d
      BY <1>8, Results
    <2>2. BodyReader(body)[d] = n
      BY DEF BodyReader
    <2>3. Read(as, c) = IF Ok(n) THEN Got(g(n.v), n.c) ELSE n
      BY <1>1, <1>6, <2>1
    <2> HIDE DEF n, v, body, g
    <2> QED
      BY <1>5, <2>2, <2>3, Results
  <1> HIDE DEF u, b, v, body
  <1>9. ASSUME NEW c \in Bytes PROVE Read(as, (u \o b) \o c) = Got(OnWire(m), c)
    <2>1. b \o c \in Bytes /\ ReadU8((u \o b) \o c) = Got(i, b \o c) /\ BodyReader(body)[b \o c] = Got(v, c)
      <3>1. /\ b \o c \in Bytes /\ [d \in Bytes |-> ReadU8(d)][(u \o b) \o c] = Got(i, b \o c)
            /\ BodyReader(body)[b \o c] = Got(v, c)
        BY <1>1, <1>2, <1>4, ReadsInTurn
      <3>2. (u \o b) \o c \in Bytes
        BY <1>1, <1>2, Closed
      <3> QED
        BY <3>1, <3>2
    <2>2. (u \o b) \o c \in Bytes
      BY <1>1, <1>2, Closed
    <2> QED
      BY <1>8, <2>1, <2>2
  <1>10. ASSUME NEW p \in Bytes, StrictPrefix(p, u \o b) PROVE Read(as, p) = Incomplete
    <2>1. \/ [d \in Bytes |-> ReadU8(d)][p] = Incomplete
          \/ \E c \in Bytes : [d \in Bytes |-> ReadU8(d)][p] = Got(i, c) /\ BodyReader(body)[c] = Incomplete
      BY <1>1, <1>2, <1>4, <1>10, ReadsInTurn
    <2>2. CASE ReadU8(p) = Incomplete
      BY <1>7, <2>2
    <2>3. CASE \E c \in Bytes : ReadU8(p) = Got(i, c) /\ BodyReader(body)[c] = Incomplete
      <3>1. PICK c \in Bytes : ReadU8(p) = Got(i, c) /\ BodyReader(body)[c] = Incomplete
        BY <2>3
      <3> QED
        BY <1>8, <3>1
    <2> QED
      BY <2>1, <2>2, <2>3
  <1>11. u \o b \in Bytes /\ Len(u \o b) = 1 + Len(b) /\ Len(b) \in Nat
    <2>1. \A s, t \in Bytes : Len(s \o t) = Len(s) + Len(t) /\ Len(t) \in Nat
      BY DEF Bytes
    <2> QED
      BY <1>1, <1>2, <2>1, Closed
  <1>12. u \o b # <<>>
    <2>1. Len(<<>>) = 0
      OBVIOUS
    <2> QED
      BY <1>11, <2>1
  <1> DEFINE w == u \o b
             Reader == [c \in Bytes |-> Read(as, c)]
  <1>13. Reads(Reader, w, OnWire(m))
    <2>1. \A c \in Bytes : w \o c \in Bytes
      BY <1>11, Closed
    <2>2. \A c \in Bytes : Reader[w \o c] = Got(OnWire(m), c)
      BY <1>9, <2>1
    <2>3. \A p \in Bytes : StrictPrefix(p, w) => Reader[p] = Incomplete
      BY <1>10
    <2> HIDE DEF w, Reader
    <2> QED
      BY <2>2, <2>3 DEF Reads
  <1> QED
    BY <1>3, <1>11, <1>12, <1>13
====
