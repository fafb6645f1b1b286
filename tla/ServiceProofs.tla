---------------------------- MODULE ServiceProofs ----------------------------
(***************************************************************************)
(* Orderly clients are served as Service says: Server implements Service   *)
(* for any number of clients, nodes and commands, valid or not, any sizes  *)
(* of receives and socket buffers, and any database.  What one receive     *)
(* brought is served in one step; the steps that carry operations and      *)
(* answers from one place to the next change nothing a client can see.     *)
(***************************************************************************)
EXTENDS ServerProofs

-----------------------------------------------------------------------------
(* Picks is OpsOf for any contents H of the nodes, which stand for those    *)
(* before or after a step.                                                  *)

Entry(op) == [n |-> op.n, res |-> op.res]
IsPick(f, q, H, c) ==
    f = [j \in 0..Len(q) |-> IF j = 0 THEN <<>>
                             ELSE IF H[q[j].addr].fd # c THEN f[j - 1]
                             ELSE Append(f[j - 1], [n |-> q[j].n, res |-> q[j].res])]
Picks(q, H, c) == (CHOOSE f : IsPick(f, q, H, c))[Len(q)]

LEMMA AnswersArePicks ==
    ASSUME NEW c
    PROVE  /\ Answers(c) = got[c] \o to_client[c] \o Picks(send_copy, handler, c)
                             \o Picks(m_send, handler, c)
           /\ Answers(c)' = got'[c] \o to_client'[c] \o Picks(send_copy', handler', c)
                              \o Picks(m_send', handler', c)
  BY DEF Answers, OpsOf, Fd, Picks, IsPick

\* What holds at 0 and carries over holds up to m.
LEMMA UpTo ==
    ASSUME NEW m \in Nat, NEW T, 0 \in T, \A n \in 0..(m - 1) : n \in T => n + 1 \in T
    PROVE  \A n \in 0..m : n \in T
  <1> DEFINE R == {n \in 0..m : n \notin T}
  <1>1. SUFFICES ASSUME R # {} PROVE FALSE
    OBVIOUS
  <1>2. PICK n \in R : \A e \in R : n <= e
    <2>1. R \subseteq Nat
      OBVIOUS
    <2> QED
      BY <1>1, <2>1, LeastOf
  <1>3. n # 0 /\ n - 1 \in 0..(m - 1)
    OBVIOUS
  <1>4. n - 1 \in T
    BY <1>2, <1>3
  <1> QED
    BY <1>3, <1>4

LEMMA PickExists ==
    ASSUME NEW q, Len(q) \in Nat, NEW H, NEW c
    PROVE  \E f : IsPick(f, q, H, c)
  <1> DEFINE Step(x, j) == IF H[q[j].addr].fd # c THEN x
                           ELSE Append(x, [n |-> q[j].n, res |-> q[j].res])
             Upto(f, k) == f = [j \in 0..k |-> IF j = 0 THEN <<>> ELSE Step(f[j - 1], j)]
             T == {k \in Nat : \E f : Upto(f, k)}
  <1>1. 0 \in T
    <2> DEFINE f == [j \in 0..0 |-> <<>>]
    <2>1. f = [j \in 0..0 |-> IF j = 0 THEN <<>> ELSE Step(f[j - 1], j)]
      OBVIOUS
    <2> QED
      BY <2>1
  <1>2. ASSUME NEW k \in 0..(Len(q) - 1), k \in T PROVE k + 1 \in T
    <2>1. PICK g : Upto(g, k)
      BY <1>2
    <2> DEFINE f == [j \in 0..(k + 1) |-> IF j = k + 1 THEN Step(g[k], k + 1) ELSE g[j]]
               F == [j \in 0..(k + 1) |-> IF j = 0 THEN <<>> ELSE Step(f[j - 1], j)]
    <2>2. ASSUME NEW j \in 0..(k + 1) PROVE f[j] = F[j]
      <3>1. CASE j = k + 1
        <4>1. j # 0 /\ j - 1 = k /\ k \in 0..(k + 1) /\ k # k + 1
          BY <3>1
        <4>2. f[j - 1] = g[k] /\ f[j] = Step(g[k], k + 1)
          BY <3>1, <4>1
        <4> QED
          BY <3>1, <4>1, <4>2
      <3>2. CASE j # k + 1
        <4>1. j \in 0..k
          BY <3>2
        <4>2. g[j] = IF j = 0 THEN <<>> ELSE Step(g[j - 1], j)
          BY <2>1, <4>1
        <4>3. j # 0 => j - 1 \in 0..(k + 1) /\ j - 1 # k + 1
          BY <4>1
        <4>4. j # 0 => f[j - 1] = g[j - 1]
          BY <4>3
        <4> QED
          BY <3>2, <4>2, <4>4
      <3> QED
        BY <3>1, <3>2
    <2>3. f = F
      BY <2>2
    <2>4. Upto(f, k + 1)
      BY <2>3
    <2>5. \E h : Upto(h, k + 1)
      <3> HIDE DEF f, Upto
      <3> QED
        BY <2>4
    <2> HIDE DEF Upto
    <2> QED
      BY <2>5
  <1>3. Len(q) \in T
    <2> HIDE DEF T
    <2>1. \A n \in 0..Len(q) : n \in T
      BY <1>1, <1>2, UpTo
    <2> QED
      BY <2>1
  <1> QED
    BY <1>3 DEF IsPick

\* What one operation after the other adds.
Picking(f, q, H, c) ==
    /\ f[0] = <<>>
    /\ \A j \in 0..(Len(q) - 1) :
         f[j + 1] = IF H[q[j + 1].addr].fd = c THEN Append(f[j], Entry(q[j + 1])) ELSE f[j]

LEMMA PickIs ==
    ASSUME NEW q, Len(q) \in Nat, NEW H, NEW c
    PROVE  \E f : Picking(f, q, H, c) /\ Picks(q, H, c) = f[Len(q)]
  <1>1. PICK f : f = (CHOOSE g : IsPick(g, q, H, c))
    OBVIOUS
  <1>2. IsPick(f, q, H, c)
    BY <1>1, PickExists
  <1>3. f[0] = <<>>
    BY <1>2 DEF IsPick
  <1>4. ASSUME NEW j \in 0..(Len(q) - 1)
        PROVE  f[j + 1] = IF H[q[j + 1].addr].fd = c THEN Append(f[j], Entry(q[j + 1])) ELSE f[j]
    <2>1. j + 1 \in 0..Len(q) /\ j + 1 # 0 /\ (j + 1) - 1 = j
      OBVIOUS
    <2> QED
      BY <1>2, <2>1 DEF IsPick, Entry
  <1>5. Picks(q, H, c) = f[Len(q)]
    BY <1>1 DEF Picks
  <1>6. Picking(f, q, H, c)
    BY <1>3, <1>4 DEF Picking
  <1> QED
    BY <1>5, <1>6

LEMMA PickSeq ==
    ASSUME NEW q, IsSeq(q), NEW H, NEW c
    PROVE  IsSeq(Picks(q, H, c))
  <1>1. Len(q) \in Nat
    BY SeqShape
  <1>2. PICK f : Picking(f, q, H, c) /\ Picks(q, H, c) = f[Len(q)]
    BY <1>1, PickIs
  <1> DEFINE T == {n \in Nat : IsSeq(f[n])}
  <1>3. 0 \in T
    BY <1>2, EmptyShape DEF Picking
  <1>4. ASSUME NEW n \in 0..(Len(q) - 1), n \in T PROVE n + 1 \in T
    <2>1. IsSeq(Append(f[n], Entry(q[n + 1])))
      BY <1>4, AppendSeq
    <2> QED
      BY <1>2, <1>4, <2>1 DEF Picking
  <1>5. \A n \in 0..Len(q) : n \in T
    <2> HIDE DEF T
    <2> QED
      BY <1>1, <1>3, <1>4, UpTo
  <1> QED
    BY <1>1, <1>2, <1>5

\* Operations of others give nothing,
LEMMA PickNone ==
    ASSUME NEW q, IsSeq(q), NEW H, NEW c, \A i \in 1..Len(q) : H[q[i].addr].fd # c
    PROVE  Picks(q, H, c) = <<>>
  <1>1. Len(q) \in Nat
    BY SeqShape
  <1>2. PICK f : Picking(f, q, H, c) /\ Picks(q, H, c) = f[Len(q)]
    BY <1>1, PickIs
  <1> DEFINE T == {n \in Nat : f[n] = <<>>}
  <1>3. 0 \in T
    BY <1>2 DEF Picking
  <1>4. ASSUME NEW n \in 0..(Len(q) - 1), n \in T PROVE n + 1 \in T
    <2>1. n + 1 \in 1..Len(q)
      BY <1>1
    <2> QED
      BY <1>2, <1>4, <2>1 DEF Picking
  <1>5. \A n \in 0..Len(q) : n \in T
    <2> HIDE DEF T
    <2> QED
      BY <1>1, <1>3, <1>4, UpTo
  <1> QED
    BY <1>1, <1>2, <1>5

\* those of the client each give an answer,
LEMMA PickAll ==
    ASSUME NEW q, IsSeq(q), NEW H, NEW c, \A i \in 1..Len(q) : H[q[i].addr].fd = c
    PROVE  /\ Len(Picks(q, H, c)) = Len(q)
           /\ \A i \in 1..Len(q) : Picks(q, H, c)[i] = Entry(q[i])
  <1>1. Len(q) \in Nat
    BY SeqShape
  <1>2. PICK f : Picking(f, q, H, c) /\ Picks(q, H, c) = f[Len(q)]
    BY <1>1, PickIs
  <1> DEFINE T == {n \in Nat : /\ IsSeq(f[n]) /\ Len(f[n]) = n
                               /\ \A i \in 1..n : f[n][i] = Entry(q[i])}
  <1>3. 0 \in T
    BY <1>2, EmptyShape DEF Picking
  <1>4. ASSUME NEW n \in 0..(Len(q) - 1), n \in T PROVE n + 1 \in T
    <2>1. n + 1 \in 1..Len(q) /\ n \in Nat
      BY <1>1
    <2>2. f[n + 1] = Append(f[n], Entry(q[n + 1]))
      BY <1>2, <2>1 DEF Picking
    <2>3. Appended(f[n + 1], f[n], Entry(q[n + 1]))
      BY <1>4, <2>2, AppendIs
    <2>4. \A i \in 1..(n + 1) : f[n + 1][i] = Entry(q[i])
      BY <1>4, <2>1, <2>3 DEF Appended
    <2> QED
      BY <1>4, <2>1, <2>3, <2>4 DEF Appended
  <1>5. \A n \in 0..Len(q) : n \in T
    <2> HIDE DEF T
    <2> QED
      BY <1>1, <1>3, <1>4, UpTo
  <1> QED
    BY <1>1, <1>2, <1>5

\* and only whose they are counts of what the nodes contain.
LEMMA PickSame ==
    ASSUME NEW q, IsSeq(q), NEW H, NEW K, NEW c,
           \A i \in 1..Len(q) : H[q[i].addr].fd = c <=> K[q[i].addr].fd = c
    PROVE  Picks(q, H, c) = Picks(q, K, c)
  <1>1. Len(q) \in Nat
    BY SeqShape
  <1>2. PICK f : Picking(f, q, H, c) /\ Picks(q, H, c) = f[Len(q)]
    BY <1>1, PickIs
  <1>3. PICK g : Picking(g, q, K, c) /\ Picks(q, K, c) = g[Len(q)]
    BY <1>1, PickIs
  <1> DEFINE T == {n \in Nat : f[n] = g[n]}
  <1>4. 0 \in T
    BY <1>2, <1>3 DEF Picking
  <1>5. ASSUME NEW n \in 0..(Len(q) - 1), n \in T PROVE n + 1 \in T
    <2>1. n + 1 \in 1..Len(q)
      BY <1>1
    <2> QED
      BY <1>2, <1>3, <1>5, <2>1 DEF Picking
  <1>6. \A n \in 0..Len(q) : n \in T
    <2> HIDE DEF T
    <2> QED
      BY <1>1, <1>4, <1>5, UpTo
  <1> QED
    BY <1>1, <1>2, <1>3, <1>6

LEMMA AppendConcat ==
    ASSUME NEW s, NEW t, IsSeq(s), IsSeq(t), NEW x
    PROVE  IsSeq(Append(t, x)) /\ Append(s \o t, x) = s \o Append(t, x)
  <1>1. PICK z : z = <<x>>
    OBVIOUS
  <1>2. IsSeq(z) /\ IsSeq(s \o t)
    BY <1>1, ConcatSeq, OneSeq
  <1>3. /\ IsSeq(Append(t, x)) /\ Append(t, x) = t \o z
        /\ Append(s \o t, x) = (s \o t) \o z
    BY <1>1, <1>2, AppendSeq
  <1>4. (s \o t) \o z = s \o (t \o z)
    BY <1>2, ConcatTwice
  <1> QED
    BY <1>3, <1>4

\* Two queues give the answers of one, then those of the other.
LEMMA PickConcat ==
    ASSUME NEW q, NEW r, IsSeq(q), IsSeq(r), NEW H, NEW c
    PROVE  Picks(q \o r, H, c) = Picks(q, H, c) \o Picks(r, H, c)
  <1>1. Len(q) \in Nat /\ Len(r) \in Nat /\ IsSeq(q \o r) /\ Len(q \o r) = Len(q) + Len(r)
    BY SeqShape, ConcatSeq
  <1>2. PICK w : w = q \o r
    OBVIOUS
  <1>3. /\ IsSeq(w) /\ Len(w) = Len(q) + Len(r) /\ Len(w) \in Nat
        /\ \A i \in 1..Len(q) : w[i] = q[i]
        /\ \A i \in 1..Len(r) : w[Len(q) + i] = r[i]
    BY <1>1, <1>2, ConcatSeq
  <1>4. PICK f : Picking(f, q, H, c) /\ Picks(q, H, c) = f[Len(q)]
    BY <1>1, PickIs
  <1>5. PICK g : Picking(g, r, H, c) /\ Picks(r, H, c) = g[Len(r)]
    BY <1>1, PickIs
  <1>6. PICK h : Picking(h, w, H, c) /\ Picks(w, H, c) = h[Len(w)]
    BY <1>3, PickIs
  <1>7. h[Len(q)] = f[Len(q)]
    <2> DEFINE T == {n \in Nat : h[n] = f[n]}
    <2>1. 0 \in T
      BY <1>4, <1>6 DEF Picking
    <2>2. ASSUME NEW n \in 0..(Len(q) - 1), n \in T PROVE n + 1 \in T
      <3>1. n \in 0..(Len(w) - 1) /\ n + 1 \in 1..Len(q)
        BY <1>1, <1>3
      <3>2. w[n + 1] = q[n + 1]
        BY <1>3, <3>1
      <3> QED
        BY <1>4, <1>6, <2>2, <3>1, <3>2 DEF Picking
    <2>3. \A n \in 0..Len(q) : n \in T
      <3> HIDE DEF T
      <3> QED
        BY <1>1, <2>1, <2>2, UpTo
    <2> QED
      BY <1>1, <2>3
  <1>8. PICK k, p : k = Len(q) /\ p = Picks(q, H, c) /\ h[k] = p /\ IsSeq(p) /\ k \in Nat
    BY <1>1, <1>4, <1>7, PickSeq
  <1> DEFINE T == {n \in Nat : IsSeq(g[n]) /\ h[k + n] = p \o g[n]}
  <1>9. 0 \in T
    <2>1. g[0] = <<>> /\ k + 0 = k
      BY <1>5, <1>8 DEF Picking
    <2> QED
      BY <1>8, <2>1, EmptyShape, ConcatEmpty
  <1>10. ASSUME NEW n \in 0..(Len(r) - 1), n \in T PROVE n + 1 \in T
    <2>1. /\ k + n \in 0..(Len(w) - 1) /\ n + 1 \in 1..Len(r)
          /\ (k + n) + 1 = k + (n + 1)
      BY <1>1, <1>3, <1>8
    <2>2. w[(k + n) + 1] = r[n + 1]
      BY <1>3, <1>8, <2>1
    <2>3. h[k + (n + 1)] = IF H[r[n + 1].addr].fd = c
                           THEN Append(h[k + n], Entry(r[n + 1])) ELSE h[k + n]
      <3>1. h[(k + n) + 1] = IF H[w[(k + n) + 1].addr].fd = c
                             THEN Append(h[k + n], Entry(w[(k + n) + 1])) ELSE h[k + n]
        BY <1>6, <2>1 DEF Picking
      <3> QED
        BY <2>1, <2>2, <3>1
    <2>4. g[n + 1] = IF H[r[n + 1].addr].fd = c THEN Append(g[n], Entry(r[n + 1])) ELSE g[n]
      BY <1>5 DEF Picking
    <2>5. IsSeq(g[n]) /\ h[k + n] = p \o g[n]
      BY <1>10
    <2>6. /\ IsSeq(Append(g[n], Entry(r[n + 1])))
          /\ Append(p \o g[n], Entry(r[n + 1])) = p \o Append(g[n], Entry(r[n + 1]))
      <3>1. PICK x, y : x = g[n] /\ y = Entry(r[n + 1])
        OBVIOUS
      <3>2. IsSeq(p) /\ IsSeq(x)
        BY <1>8, <2>5, <3>1
      <3>3. IsSeq(Append(x, y)) /\ Append(p \o x, y) = p \o Append(x, y)
        BY <3>2, AppendConcat
      <3> QED
        BY <3>1, <3>3
    <2>7. IsSeq(g[n + 1])
      BY <2>4, <2>5, <2>6
    <2>8. h[k + (n + 1)] = p \o g[n + 1]
      BY <2>3, <2>4, <2>5, <2>6
    <2> QED
      BY <1>1, <2>1, <2>7, <2>8
  <1>11. \A n \in 0..Len(r) : n \in T
    <2> HIDE DEF T
    <2> QED
      BY <1>1, <1>9, <1>10, UpTo
  <1>12. Len(r) \in 0..Len(r)
    BY <1>1
  <1>13. h[k + Len(r)] = p \o g[Len(r)]
    BY <1>11, <1>12
  <1> QED
    BY <1>2, <1>3, <1>5, <1>6, <1>8, <1>13

LEMMA PickOne ==
    ASSUME NEW x, NEW H, NEW c
    PROVE  Picks(<<x>>, H, c) = IF H[x.addr].fd = c THEN <<Entry(x)>> ELSE <<>>
  <1>1. IsSeq(<<x>>) /\ Len(<<x>>) = 1 /\ <<x>>[1] = x
    BY OneSeq
  <1>2. PICK q : q = <<x>>
    OBVIOUS
  <1>3. PICK f : Picking(f, q, H, c) /\ Picks(q, H, c) = f[Len(q)]
    BY <1>1, <1>2, PickIs
  <1>4. f[0] = <<>> /\ f[1] = IF H[x.addr].fd = c THEN Append(f[0], Entry(x)) ELSE f[0]
    <2>1. 0 \in 0..(Len(q) - 1) /\ 0 + 1 = 1 /\ q[1] = x
      BY <1>1, <1>2
    <2>2. f[0 + 1] = IF H[q[0 + 1].addr].fd = c THEN Append(f[0], Entry(q[0 + 1])) ELSE f[0]
      BY <1>3, <2>1 DEF Picking
    <2> QED
      BY <1>3, <2>1, <2>2 DEF Picking
  <1>5. Append(<<>>, Entry(x)) = <<Entry(x)>>
    OBVIOUS
  <1> QED
    BY <1>1, <1>2, <1>3, <1>4, <1>5

\* The same, with the concatenations named.
Both(w, q, r) == w = q \o r
LEMMA PickBoth ==
    ASSUME NEW q, NEW r, NEW w, IsSeq(q), IsSeq(r), Both(w, q, r), NEW H, NEW c
    PROVE  Both(Picks(w, H, c), Picks(q, H, c), Picks(r, H, c))
  <1>1. Picks(q \o r, H, c) = Picks(q, H, c) \o Picks(r, H, c)
    BY PickConcat
  <1> QED
    BY <1>1 DEF Both

\* An operation taken out,
Parts(p, x, y, t, q, j, r) ==
    /\ IsSeq(p) /\ IsSeq(x) /\ IsSeq(y) /\ IsSeq(t)
    /\ x = <<q[j]>> /\ y = x \o t /\ q = p \o y /\ r = p \o t
    /\ Len(p) = j - 1 /\ \A i \in 1..(j - 1) : p[i] = q[i]
LEMMA WithoutParts ==
    ASSUME NEW q, IsSeq(q), NEW j \in 1..Len(q), NEW r, Without(r, q, j)
    PROVE  \E p, x, y, t : Parts(p, x, y, t, q, j, r)
  <1>1. Len(q) \in Nat /\ DOMAIN q = 1..Len(q)
    BY SeqShape
  <1>2. PICK p, x, t : p = SubSeq(q, 1, j - 1) /\ x = <<q[j]>> /\ t = SubSeq(q, j + 1, Len(q))
    OBVIOUS
  <1>3. Part(p, q, 1, j - 1) /\ Part(t, q, j + 1, Len(q))
    <2>1. /\ 1 \in 1..(Len(q) + 1) /\ j - 1 \in (1 - 1)..Len(q)
          /\ j + 1 \in 1..(Len(q) + 1) /\ Len(q) \in ((j + 1) - 1)..Len(q)
      BY <1>1
    <2> QED
      BY <1>2, <2>1, SubSeqIs
  <1>4. /\ IsSeq(p) /\ Len(p) = j - 1 /\ \A i \in 1..(j - 1) : p[i] = q[i]
        /\ IsSeq(t) /\ Len(t) = Len(q) - j /\ \A i \in 1..(Len(q) - j) : t[i] = q[j + i]
    BY <1>1, <1>3 DEF Part
  <1>5. IsSeq(x) /\ Len(x) = 1 /\ x[1] = q[j]
    BY <1>2, OneSeq
  <1>6. PICK y : y = x \o t
    OBVIOUS
  <1>7. Joined(y, x, t)
    BY <1>4, <1>5, <1>6, ConcatIs
  <1>8. PICK z : z = p \o y
    OBVIOUS
  <1>9. Joined(z, p, y)
    <2>1. IsSeq(p) /\ IsSeq(y)
      BY <1>4, <1>7 DEF Joined
    <2> QED
      BY <1>8, <2>1, ConcatIs
  <1>10. z = q
    <2>1. IsSeq(z) /\ Len(z) = Len(q)
      BY <1>1, <1>4, <1>5, <1>7, <1>9 DEF Joined
    <2>2. ASSUME NEW i \in 1..Len(q) PROVE z[i] = q[i]
      <3>1. CASE i < j
        BY <1>1, <1>4, <1>9, <3>1 DEF Joined
      <3>2. CASE i = j
        <4>1. z[i] = y[1] /\ y[1] = x[1]
          <5>1. 1 \in 1..Len(y) /\ Len(p) + 1 = i /\ 1 \in 1..Len(x)
            BY <1>1, <1>4, <1>5, <1>7, <3>2 DEF Joined
          <5> QED
            BY <1>7, <1>9, <5>1 DEF Joined
        <4> QED
          BY <1>5, <3>2, <4>1
      <3>3. CASE i > j
        <4>1. /\ i - j \in 1..Len(t) /\ 1 + (i - j) \in 1..Len(y)
              /\ Len(p) + (1 + (i - j)) = i /\ j + (i - j) = i
          BY <1>1, <1>4, <1>5, <1>7, <3>3 DEF Joined
        <4>2. z[i] = y[1 + (i - j)]
          BY <1>9, <4>1 DEF Joined
        <4>3. y[1 + (i - j)] = t[i - j]
          BY <1>5, <1>7, <4>1 DEF Joined
        <4>4. t[i - j] = q[i]
          BY <1>4, <4>1
        <4> QED
          BY <4>2, <4>3, <4>4
      <3> QED
        BY <1>1, <3>1, <3>2, <3>3
    <2> QED
      BY <2>1, <2>2, SameSeq
  <1>11. PICK w : w = p \o t
    OBVIOUS
  <1>12. Joined(w, p, t)
    BY <1>4, <1>11, ConcatIs
  <1>13. w = r
    <2>1. /\ IsSeq(r) /\ IsSeq(w) /\ Len(w) = Len(r) /\ Len(r) = Len(q) - 1
      BY <1>1, <1>4, <1>12 DEF Joined, Without
    <2>2. ASSUME NEW i \in 1..Len(w) PROVE w[i] = r[i]
      <3>1. i \in 1..(Len(q) - 1)
        BY <1>1, <2>1
      <3>2. r[i] = IF i < j THEN q[i] ELSE q[i + 1]
        BY <3>1 DEF Without
      <3>3. CASE i < j
        BY <1>1, <1>4, <1>12, <3>2, <3>3 DEF Joined
      <3>4. CASE ~(i < j)
        <4>1. /\ i - (j - 1) \in 1..Len(t) /\ Len(p) + (i - (j - 1)) = i
              /\ j + (i - (j - 1)) = i + 1
          BY <1>1, <1>4, <3>1, <3>4
        <4>2. w[i] = t[i - (j - 1)]
          BY <1>12, <4>1 DEF Joined
        <4> QED
          BY <1>4, <3>2, <3>4, <4>1, <4>2
      <3> QED
        BY <3>3, <3>4
    <2> QED
      BY <2>1, <2>2, SameSeq
  <1> QED
    <2>1. Parts(p, x, y, t, q, j, r)
      BY <1>2, <1>4, <1>5, <1>6, <1>7, <1>8, <1>10, <1>11, <1>13 DEF Parts, Joined
    <2> QED
      BY <2>1

\* if it is the first of its client, takes the first answer with it.
LEMMA PickWithout ==
    ASSUME NEW q, IsSeq(q), NEW j \in 1..Len(q), NEW r, Without(r, q, j), NEW H, NEW c,
           H[q[j].addr].fd = c => \A i \in 1..(j - 1) : H[q[i].addr].fd # c
    PROVE  Picks(q, H, c) = (IF H[q[j].addr].fd = c THEN <<Entry(q[j])>> ELSE <<>>)
                              \o Picks(r, H, c)
  <1>1. PICK p, x, y, t : Parts(p, x, y, t, q, j, r)
    BY WithoutParts
  <1>2. PICK P, X, Y, Z : /\ P = Picks(p, H, c) /\ X = Picks(x, H, c)
                          /\ Y = Picks(t, H, c) /\ Z = X \o Y
    OBVIOUS
  <1>3. IsSeq(P) /\ IsSeq(X) /\ IsSeq(Y) /\ IsSeq(Z)
    <2>1. IsSeq(P) /\ IsSeq(X) /\ IsSeq(Y)
      BY <1>1, <1>2, PickSeq DEF Parts
    <2>2. Joined(Z, X, Y)
      BY <1>2, <2>1, ConcatIs
    <2> QED
      BY <2>1, <2>2 DEF Joined
  <1>4. Picks(q, H, c) = P \o Z /\ Picks(r, H, c) = P \o Y
    <2>1. /\ IsSeq(p) /\ IsSeq(x) /\ IsSeq(y) /\ IsSeq(t)
          /\ Both(y, x, t) /\ Both(q, p, y) /\ Both(r, p, t)
      BY <1>1 DEF Parts, Both
    <2>2. Both(Picks(y, H, c), Picks(x, H, c), Picks(t, H, c))
      BY <2>1, PickBoth
    <2>3. Both(Picks(q, H, c), Picks(p, H, c), Picks(y, H, c))
      BY <2>1, PickBoth
    <2>4. Both(Picks(r, H, c), Picks(p, H, c), Picks(t, H, c))
      BY <2>1, PickBoth
    <2> QED
      BY <1>2, <2>2, <2>3, <2>4 DEF Both
  <1>5. X = IF H[q[j].addr].fd = c THEN <<Entry(q[j])>> ELSE <<>>
    BY <1>1, <1>2, PickOne DEF Parts
  <1>6. CASE H[q[j].addr].fd = c
    <2>1. \A i \in 1..Len(p) : H[p[i].addr].fd # c
      BY <1>1, <1>6 DEF Parts
    <2>2. P = <<>>
      BY <1>1, <1>2, <2>1, PickNone DEF Parts
    <2>3. P \o Z = Z /\ P \o Y = Y
      BY <1>3, <2>2, ConcatEmpty
    <2> QED
      BY <1>2, <1>4, <1>5, <1>6, <2>3
  <1>7. CASE H[q[j].addr].fd # c
    <2>1. X = <<>>
      BY <1>5, <1>7
    <2>2. Z = Y
      BY <1>2, <1>3, <2>1, ConcatEmpty
    <2>3. IsSeq(P \o Y)
      BY <1>3, ConcatSeq
    <2>4. <<>> \o (P \o Y) = P \o Y
      BY <2>3, ConcatEmpty
    <2> QED
      BY <1>4, <1>7, <2>2, <2>4
  <1> QED
    BY <1>6, <1>7

-----------------------------------------------------------------------------
(* The answers to a client, in one line: those it was sent, then those of   *)
(* the operations.                                                          *)

Heard(c) == got[c] \o to_client[c]

LEMMA Regroup ==
    ASSUME NEW s, NEW t, NEW u, IsSeq(s), IsSeq(t), IsSeq(u), NEW v, v = t \o u
    PROVE  (s \o t) \o u = s \o v
  BY ConcatTwice

InLine(r, g, t, p, q, H, c) == r = g \o t \o Picks(p, H, c) \o Picks(q, H, c)

LEMMA Lined ==
    ASSUME NEW g, NEW t, NEW p, NEW q, IsSeq(g), IsSeq(t), IsSeq(p), IsSeq(q), NEW H, NEW c,
           NEW h, Both(h, g, t), NEW w, Both(w, p, q), NEW r, InLine(r, g, t, p, q, H, c)
    PROVE  IsSeq(h) /\ IsSeq(r) /\ Both(r, h, Picks(w, H, c))
  <1>1. PICK P, Q, R : P = Picks(p, H, c) /\ Q = Picks(q, H, c) /\ R = P \o Q
    OBVIOUS
  <1>2. IsSeq(h) /\ IsSeq(P) /\ IsSeq(Q) /\ IsSeq(R)
    <2>1. IsSeq(P) /\ IsSeq(Q)
      BY <1>1, PickSeq
    <2>2. Joined(h, g, t) /\ Joined(R, P, Q)
      BY <1>1, <2>1, ConcatIs DEF Both
    <2> QED
      BY <2>1, <2>2 DEF Joined
  <1>3. Picks(w, H, c) = R
    <2>1. Both(w, p, q) => Both(Picks(w, H, c), Picks(p, H, c), Picks(q, H, c))
      BY PickBoth
    <2> QED
      BY <1>1, <2>1 DEF Both
  <1>4. r = (h \o P) \o Q
    BY <1>1 DEF InLine, Both
  <1>5. (h \o P) \o Q = h \o R
    BY <1>1, <1>2, Regroup
  <1>6. Joined(r, h, R)
    BY <1>2, <1>4, <1>5, ConcatIs
  <1> QED
    BY <1>2, <1>3, <1>4, <1>5, <1>6 DEF Both, Joined

LEMMA AnswersAre ==
    ASSUME ClientInv, TurnInv, NEW c \in Client
    PROVE  /\ IsSeq(Heard(c)) /\ IsSeq(Answers(c))
           /\ Both(Answers(c), Heard(c), Picks(Sends, handler, c))
  <1>1. IsSeq(got[c]) /\ IsSeq(to_client[c]) /\ IsSeq(send_copy) /\ IsSeq(m_send)
    BY DEF ClientInv, TurnInv
  <1>2. InLine(Answers(c), got[c], to_client[c], send_copy, m_send, handler, c)
    BY AnswersArePicks DEF InLine
  <1>3. Both(Heard(c), got[c], to_client[c]) /\ Both(Sends, send_copy, m_send)
    BY DEF Both, Heard, Sends
  <1> QED
    BY <1>1, <1>2, <1>3, Lined

LEMMA NextAnswersAre ==
    ASSUME ClientInv', TurnInv', NEW c \in Client
    PROVE  /\ IsSeq(Heard(c)') /\ IsSeq(Answers(c)')
           /\ Both(Answers(c)', Heard(c)', Picks(Sends', handler', c))
  <1>1. IsSeq(got'[c]) /\ IsSeq(to_client'[c]) /\ IsSeq(send_copy') /\ IsSeq(m_send')
    BY DEF ClientInv, TurnInv
  <1>2. InLine(Answers(c)', got'[c], to_client'[c], send_copy', m_send', handler', c)
    BY AnswersArePicks DEF InLine
  <1>3. Both(Heard(c)', got'[c], to_client'[c]) /\ Both(Sends', send_copy', m_send')
    BY DEF Both, Heard, Sends
  <1> QED
    BY <1>1, <1>2, <1>3, Lined

\* The operations stay, and so does whose they are.
LEMMA AnswersStay ==
    ASSUME ClientInv, TurnInv, ClientInv', TurnInv', NEW c \in Client,
           Heard(c)' = Heard(c), Sends' = Sends,
           \A op \in Range(Sends) : handler[op.addr].fd = c <=> handler'[op.addr].fd = c
    PROVE  Answers(c)' = Answers(c)
  <1>1. IsSeq(Sends)
    BY QueueShape
  <1>2. \A i \in 1..Len(Sends) :
          handler[Sends[i].addr].fd = c <=> handler'[Sends[i].addr].fd = c
    BY <1>1, SeqShape
  <1>3. Picks(Sends, handler, c) = Picks(Sends, handler', c)
    BY <1>1, <1>2, PickSame
  <1>4. Both(Answers(c), Heard(c), Picks(Sends, handler, c))
    BY AnswersAre
  <1>5. Both(Answers(c)', Heard(c)', Picks(Sends', handler', c))
    BY NextAnswersAre
  <1> QED
    BY <1>3, <1>4, <1>5 DEF Both

\* The first e commands of c were executed, and answered in order; those after
\* the e-th answer refuse an invalid command, the next one.
InOrder(r, c, e) ==
    /\ e \in Nat /\ IsSeq(r) /\ Len(r) \in Nat /\ e <= Len(r)
    /\ \A j \in 1..e : r[j].n = j /\ r[j].res # Invalid
    /\ \A j \in (e + 1)..Len(r) : r[j].n = e + 1 /\ r[j].res = Invalid
    /\ e < Len(r) => e + 1 \in 1..Len(cmds[c]) /\ Cmd(c, e + 1) = Bad
AnswersInv == \A a \in Live : \E e : Base(a) = 2 * e /\ InOrder(Answers(Fd(a)), Fd(a), e)

LEMMA InOrderStays ==
    ASSUME ListInv, AnswersInv, NEW a \in Live, Fd(a)' = Fd(a), Base(a)' = Base(a),
           Answers(Fd(a))' = Answers(Fd(a)), cmds' = cmds
    PROVE  \E e : Base(a)' = 2 * e /\ InOrder(Answers(Fd(a)), Fd(a), e)'
  <1>1. PICK e : Base(a) = 2 * e /\ InOrder(Answers(Fd(a)), Fd(a), e)
    BY DEF AnswersInv
  <1>2. PICK c : c = Fd(a)
    OBVIOUS
  <1>3. InOrder(Answers(c), c, e)'
    BY <1>1, <1>2 DEF InOrder, Cmd
  <1> QED
    BY <1>1, <1>2, <1>3

-----------------------------------------------------------------------------
(* The steps that Service does not see: answers go from the operations to   *)
(* the network and on to the client.                                        *)

LEMMA Unseen ==
    ASSUME UNCHANGED <<cmds, sent, db>>, \A c \in Client : Answers(c)' = Answers(c)
    PROVE  UNCHANGED SV!vars
  BY DEF SV!vars

LEMMA QuietStep ==
    ASSUME ListInv, AnswersInv, UNCHANGED <<cmds, sent, db>>, Live' = Live,
           \A c \in Client : Answers(c)' = Answers(c),
           \A a \in Live : Fd(a)' = Fd(a) /\ Base(a)' = Base(a)
    PROVE  AnswersInv' /\ UNCHANGED SV!vars
  <1>1. \A a \in Live : Fd(a) \in Client
    BY LiveNode
  <1>2. ASSUME NEW a \in Live PROVE \E e : Base(a)' = 2 * e /\ InOrder(Answers(Fd(a)), Fd(a), e)'
    BY <1>1, InOrderStays
  <1>3. AnswersInv'
    BY <1>2 DEF AnswersInv
  <1> QED
    BY <1>3, Unseen

\* Nothing that the answers are made of changes.
LEMMA QuietTurn ==
    ASSUME ServerInv, BaseInv', AnswersInv, UNCHANGED <<cmds, sent, db, got, to_client>>,
           Sends' = Sends, Live' = Live, \A a \in Live : Fd(a)' = Fd(a) /\ Base(a)' = Base(a)
    PROVE  AnswersInv' /\ UNCHANGED SV!vars
  <1>1. ListInv /\ ClientInv /\ TurnInv /\ ClientInv' /\ TurnInv'
    BY DEF ServerInv, BaseInv
  <1>2. ASSUME NEW c \in Client PROVE Answers(c)' = Answers(c)
    <2>1. Heard(c)' = Heard(c)
      BY DEF Heard
    <2>2. \A op \in Range(Sends) : handler[op.addr].fd = c <=> handler'[op.addr].fd = c
      <3>1. \A a \in Live : handler'[a].fd = handler[a].fd
        BY DEF Fd
      <3>2. \A op \in Range(Sends) : op.addr \in Live
        BY DEF ServerInv, SendInv, Due
      <3> QED
        BY <3>1, <3>2
    <2> QED
      BY <1>1, <2>1, <2>2, AnswersStay
  <1> QED
    BY <1>1, <1>2, QuietStep

LEMMA ConnectIsQuiet ==
    ASSUME ServerInv, AnswersInv, NEW c \in Client, Connect(c)
    PROVE  AnswersInv' /\ UNCHANGED SV!vars
  <1>1. UNCHANGED <<cmds, sent, got, to_server, to_client, server_vars, loop_vars>>
    BY DEF Connect
  <1>2. UNCHANGED <<cmds, sent, db, got, to_client, m_clients, handler>>
    BY <1>1 DEF server_vars
  <1>3. BaseInv' /\ ListInv
    BY ConnectBase DEF ServerInv, BaseInv
  <1>4. Live' = Live /\ Sends' = Sends /\ \A a : Fd(a)' = Fd(a)
    BY <1>1, ClientsApart
  <1>5. \A a \in Live : Base(a)' = Base(a)
    BY <1>1, <1>2, <1>3, BaseStays
  <1> QED
    BY <1>2, <1>3, <1>4, <1>5, QuietTurn

LEMMA LeaveIsQuiet ==
    ASSUME ServerInv, AnswersInv, NEW c \in Client, Leave(c)
    PROVE  AnswersInv' /\ UNCHANGED SV!vars
  <1>1. UNCHANGED <<cmds, sent, got, network, server_vars, loop_vars>>
    BY DEF Leave
  <1>2. UNCHANGED <<cmds, sent, db, got, to_server, to_client, m_clients, handler>>
    BY <1>1 DEF server_vars, network
  <1>3. BaseInv' /\ ListInv
    BY LeaveBase DEF ServerInv, BaseInv
  <1>4. Live' = Live /\ Sends' = Sends /\ \A a : Fd(a)' = Fd(a)
    BY <1>1, ClientsApart
  <1>5. \A a \in Live : Base(a)' = Base(a)
    BY <1>2, <1>3, BaseStays
  <1> QED
    BY <1>2, <1>3, <1>4, <1>5, QuietTurn

\* The queues trade places.
LEMMA TurnIsQuiet ==
    ASSUME ServerInv, BaseInv', AnswersInv, UNCHANGED <<client_vars, network, server_vars>>,
           Sends' = Sends
    PROVE  AnswersInv' /\ UNCHANGED SV!vars
  <1>1. UNCHANGED <<cmds, sent, db, got, to_server, to_client, m_clients, handler>>
    BY DEF client_vars, network, server_vars
  <1>2. Live' = Live /\ \A a : Fd(a)' = Fd(a)
    BY <1>1 DEF Live, Fd
  <1>3. \A a \in Live : Base(a)' = Base(a)
    BY <1>1, BaseStays DEF ServerInv, BaseInv
  <1> QED
    BY <1>1, <1>2, <1>3, QuietTurn

LEMMA SelectIsQuiet ==
    ASSUME ServerInv, AnswersInv, Select
    PROVE  AnswersInv' /\ UNCHANGED SV!vars
  <1>1. BaseInv /\ TurnInv /\ OrderInv /\ SendInv
    BY DEF ServerInv, BaseInv
  <1>2. BaseInv'
    BY <1>1, SelectBase
  <1>3. NoDanglingOp
    BY <1>1, OpsLive DEF NoDanglingOp
  <1>4. /\ UNCHANGED <<client_vars, network, server_vars>>
        /\ pc = "select" /\ send_copy' = m_send /\ m_send' = <<>>
    BY <1>3 DEF Select
  <1>5. Sends' = Sends
    <2>1. IsSeq(m_send) /\ send_copy = <<>>
      BY <1>1, <1>4 DEF TurnInv
    <2>2. m_send \o <<>> = m_send /\ <<>> \o m_send = m_send
      BY <2>1, ConcatEmpty
    <2> QED
      BY <1>4, <2>1, <2>2 DEF Sends
  <1> QED
    BY <1>1, <1>2, <1>4, <1>5, TurnIsQuiet

LEMMA MergeIsQuiet ==
    ASSUME ServerInv, AnswersInv, Merge
    PROVE  AnswersInv' /\ UNCHANGED SV!vars
  <1>1. BaseInv' /\ TurnInv
    BY MergeBase DEF ServerInv, BaseInv
  <1>2. /\ UNCHANGED <<client_vars, network, server_vars>>
        /\ m_send' = send_copy \o m_send /\ send_copy' = <<>>
    BY DEF Merge, OldFirst
  <1>3. Sends' = Sends
    <2>1. PICK w : w = send_copy \o m_send
      OBVIOUS
    <2>2. Joined(w, send_copy, m_send)
      BY <1>1, <2>1, ConcatIs DEF TurnInv
    <2>3. <<>> \o w = w
      BY <2>2, ConcatEmpty DEF Joined
    <2> QED
      BY <1>2, <2>1, <2>3 DEF Sends
  <1> QED
    BY <1>1, <1>2, <1>3, TurnIsQuiet

LEMMA CloseIsQuiet ==
    ASSUME ServerInv, AnswersInv, RecvStep, NEW a, a = recv_copy[First(ReadyRecvs)],
           to_server[Fd(a)] = <<>>
    PROVE  AnswersInv' /\ UNCHANGED SV!vars
  <1>1. BaseInv /\ ListInv /\ TurnInv
    BY DEF ServerInv, BaseInv
  <1>2. /\ a \in Live /\ Close(a)
        /\ UNCHANGED <<cmds, sent, got, to_client, m_clients, send_copy>>
    BY <1>1, RecvServed
  <1>3. /\ handler' = [handler EXCEPT ![a].m_closed = TRUE]
        /\ UNCHANGED <<to_server, db, m_send>>
    BY <1>2 DEF Close
  <1>4. \A b \in Live : /\ handler'[b].fd = handler[b].fd
                        /\ handler'[b].m_stream = handler[b].m_stream
    BY <1>1, <1>2, <1>3, LiveNode DEF ListInv, Node
  <1>5. Live' = Live /\ Sends' = Sends
    BY <1>2, <1>3 DEF Live, Sends
  <1>6. \A b \in Live : Fd(b)' = Fd(b) /\ Base(b)' = Base(b)
    BY <1>2, <1>3, <1>4 DEF Fd, Base
  <1>7. BaseInv'
    BY <1>1, <1>2, CloseBase
  <1> QED
    BY <1>2, <1>3, <1>5, <1>6, <1>7, QuietTurn

\* A response that is read is the next one to hear.
LEMMA HeadMoves ==
    ASSUME NEW g, NEW t, IsSeq(g), IsSeq(t), t # <<>>,
           NEW h, Both(h, g, t), NEW k, Both(k, Append(g, Head(t)), Tail(t))
    PROVE  k = h
  <1>1. PICK x, p, q : x = Head(t) /\ p = Append(g, x) /\ q = Tail(t)
    OBVIOUS
  <1>2. Appended(p, g, x) /\ Rest(q, t)
    BY <1>1, AppendIs, TailIs
  <1>3. Joined(h, g, t)
    BY ConcatIs DEF Both
  <1>4. Joined(k, p, q)
    BY <1>1, <1>2, ConcatIs DEF Both, Appended, Rest
  <1>5. Len(k) = Len(h) /\ Len(g) \in Nat /\ Len(t) \in Nat
    BY <1>2, <1>3, <1>4 DEF Appended, Rest, Joined
  <1>6. ASSUME NEW i \in 1..Len(k) PROVE k[i] = h[i]
    <2>1. CASE i <= Len(g)
      <3>1. i \in 1..Len(g) /\ i \in 1..Len(p)
        BY <1>2, <1>5, <2>1 DEF Appended
      <3> QED
        BY <1>2, <1>3, <1>4, <3>1 DEF Appended, Joined
    <2>2. CASE i = Len(g) + 1
      <3>1. i \in 1..Len(p) /\ 1 \in 1..Len(t) /\ Len(g) + 1 = i
        BY <1>2, <1>5, <2>2 DEF Appended, Rest
      <3>2. k[i] = p[i] /\ p[i] = x /\ h[i] = t[1] /\ t[1] = x
        BY <1>1, <1>2, <1>3, <1>4, <3>1 DEF Appended, Rest, Joined
      <3> QED
        BY <3>2
    <2>3. CASE i > Len(g) + 1
      <3>1. /\ i - Len(p) \in 1..Len(q) /\ Len(p) + (i - Len(p)) = i
            /\ i - Len(g) \in 1..Len(t) /\ Len(g) + (i - Len(g)) = i
            /\ (i - Len(p)) + 1 = i - Len(g) /\ i - Len(p) \in 1..(Len(t) - 1)
        BY <1>2, <1>4, <1>5, <2>3 DEF Appended, Rest, Joined
      <3>2. k[i] = q[i - Len(p)]
        BY <1>4, <3>1 DEF Joined
      <3>3. h[i] = t[i - Len(g)]
        BY <1>3, <3>1 DEF Joined
      <3>4. q[i - Len(p)] = t[i - Len(g)]
        BY <1>2, <3>1 DEF Rest
      <3> QED
        BY <3>2, <3>3, <3>4
    <2> QED
      BY <1>5, <2>1, <2>2, <2>3
  <1>7. IsSeq(h) /\ IsSeq(k)
    BY <1>3, <1>4 DEF Joined
  <1> QED
    BY <1>5, <1>6, <1>7, SameSeq

LEMMA ReadIsQuiet ==
    ASSUME ServerInv, AnswersInv, NEW c \in Client, Read(c)
    PROVE  AnswersInv' /\ UNCHANGED SV!vars
  <1>1. BaseInv /\ ClientInv /\ ListInv /\ TurnInv /\ SendInv
    BY DEF ServerInv, BaseInv
  <1>2. /\ to_client[c] # <<>>
        /\ got' = [got EXCEPT ![c] = Append(@, Head(to_client[c]))]
        /\ to_client' = [to_client EXCEPT ![c] = Tail(@)]
        /\ UNCHANGED <<cmds, sent, to_server, server_vars, loop_vars>>
    BY DEF Read
  <1>3. /\ Live' = Live /\ Sends' = Sends /\ UNCHANGED <<db, m_clients, handler>>
        /\ \A a : Fd(a)' = Fd(a)
    BY <1>2, ClientsApart DEF server_vars
  <1>4. /\ IsSeq(to_client[c]) /\ IsSeq(got[c])
        /\ DOMAIN to_client = Client /\ DOMAIN got = Client
    BY <1>1 DEF ClientInv
  <1>5. BaseInv' /\ ClientInv' /\ TurnInv'
    BY <1>1, ReadBase DEF BaseInv
  <1>6. Heard(c)' = Heard(c)
    <2>1. Both(Heard(c), got[c], to_client[c]) /\ Both(Heard(c)', got'[c], to_client'[c])
      BY DEF Both, Heard
    <2>2. got'[c] = Append(got[c], Head(to_client[c])) /\ to_client'[c] = Tail(to_client[c])
      BY <1>2, <1>4
    <2> QED
      BY <1>2, <1>4, <2>1, <2>2, HeadMoves
  <1>7. ASSUME NEW d \in Client PROVE Answers(d)' = Answers(d)
    <2>1. Heard(d)' = Heard(d)
      <3>1. CASE d = c
        BY <1>6, <3>1
      <3>2. CASE d # c
        BY <1>2, <1>4, <3>2 DEF Heard
      <3> QED
        BY <3>1, <3>2
    <2> QED
      BY <1>1, <1>3, <1>5, <2>1, AnswersStay
  <1>8. \A a \in Live : Base(a)' = Base(a)
    BY <1>1, <1>2, <1>3, BaseStays
  <1> QED
    BY <1>1, <1>2, <1>3, <1>7, <1>8, QuietStep

\* The first operation of a client goes to the end of what it was sent.
LEMMA AnswerMoves ==
    ASSUME NEW h, NEW p, NEW x, IsSeq(h), IsSeq(p),
           NEW k, k = Append(h, x), NEW q, Both(q, <<x>>, p),
           NEW r, Both(r, h, q), NEW s, Both(s, k, p)
    PROVE  s = r
  <1>1. PICK z : z = <<x>>
    OBVIOUS
  <1>2. IsSeq(z) /\ k = h \o z
    BY <1>1, OneSeq, AppendSeq
  <1>3. q = z \o p
    BY <1>1 DEF Both
  <1>4. (h \o z) \o p = h \o q
    BY <1>2, <1>3, Regroup
  <1> QED
    BY <1>2, <1>4 DEF Both

LEMMA SendStepIsQuiet ==
    ASSUME ServerInv, AnswersInv, SendStep
    PROVE  AnswersInv' /\ UNCHANGED SV!vars
  <1>1. BaseInv /\ ClientInv /\ ListInv /\ TurnInv /\ SendInv
    BY DEF ServerInv, BaseInv
  <1>2. BaseInv' /\ ClientInv' /\ TurnInv'
    BY <1>1, SendStepBase DEF BaseInv
  <1>3. PICK j, op, c : Served(j, op, c)
    BY <1>1, ServedIs
  <1>4. /\ j \in 1..Len(Sends) /\ op = Sends[j] /\ op.addr \in Live
        /\ c = handler[op.addr].fd /\ c \in Client /\ Without(Sends', Sends, j)
        /\ UNCHANGED <<cmds, sent, got, to_server, m_clients, handler>>
    BY <1>3 DEF Served, Fd
  <1>5. /\ to_client'[c] = Append(to_client[c], Entry(op))
        /\ \A d \in Client : d # c => to_client'[d] = to_client[d]
    <2>1. PICK i : i = First(ReadySends)
      OBVIOUS
    <2>2. to_client' = [to_client EXCEPT ![Fd(send_copy[i].addr)] =
                          Append(@, [n |-> send_copy[i].n, res |-> send_copy[i].res])]
      BY <2>1 DEF SendStep
    <2>3. Appended(to_client'[c], to_client[c], Entry(op))
      BY <1>3 DEF Served, Entry
    <2>4. /\ \A d \in Client : d # c => to_client'[d] = to_client[d]
          /\ IsSeq(to_client[c]) /\ IsSeq(to_client'[c])
      BY <1>1, <1>2, <1>3, <1>4 DEF Served, ClientInv
    <2>5. PICK t, u, x : t = to_client[c] /\ u = to_client'[c] /\ x = Entry(op)
      OBVIOUS
    <2>6. Appended(u, t, x) /\ IsSeq(t) /\ IsSeq(u)
      BY <2>3, <2>4, <2>5
    <2>7. u = Append(t, x)
      <3>1. PICK v : v = Append(t, x)
        OBVIOUS
      <3>2. Appended(v, t, x)
        BY <2>6, <3>1, AppendIs
      <3>3. Len(v) = Len(u) /\ IsSeq(v)
        BY <2>6, <3>2 DEF Appended
      <3>4. ASSUME NEW l \in 1..Len(u) PROVE u[l] = v[l]
        BY <2>6, <3>2 DEF Appended
      <3> QED
        BY <2>6, <3>1, <3>3, <3>4, SameSeq
    <2> QED
      BY <2>4, <2>5, <2>7
  <1>6. IsSeq(Sends) /\ IsSeq(Sends') /\ (\A i \in 1..Len(Sends) : Sends[i].addr \in Live)
    <2>1. IsSeq(Sends) /\ IsSeq(Sends')
      BY <1>1, <1>4, QueueShape DEF Without
    <2> QED
      BY <1>1, <2>1, SeqShape DEF SendInv, Due
  <1>7. \A i \in 1..(j - 1) : handler[Sends[i].addr].fd # c
    <2> SUFFICES ASSUME NEW i \in 1..(j - 1) PROVE handler[Sends[i].addr].fd # c
      OBVIOUS
    <2>1. i \in 1..Len(Sends)
      BY <1>1, <1>4, QueueShape
    <2>2. Sends[i].addr \in Live /\ Sends[i].addr # op.addr
      BY <1>3, <1>6, <2>1 DEF Served
    <2> QED
      BY <1>1, <1>4, <2>2 DEF ListInv, Fd
  <1>8. ASSUME NEW d \in Client PROVE Answers(d)' = Answers(d)
    <2>1. /\ IsSeq(Heard(d)) /\ Both(Answers(d), Heard(d), Picks(Sends, handler, d))
          /\ Both(Answers(d)', Heard(d)', Picks(Sends', handler, d))
          /\ IsSeq(Picks(Sends', handler, d))
      BY <1>1, <1>2, <1>4, <1>6, AnswersAre, NextAnswersAre, PickSeq
    <2>2. Picks(Sends, handler, d) = (IF handler[Sends[j].addr].fd = d THEN <<Entry(Sends[j])>> ELSE <<>>)
                                       \o Picks(Sends', handler, d)
      <3>1. handler[Sends[j].addr].fd = d => \A i \in 1..(j - 1) : handler[Sends[i].addr].fd # d
        BY <1>4, <1>7
      <3> QED
        BY <1>4, <1>6, <3>1, PickWithout
    <2>3. CASE d = c
      <3>1. Both(Picks(Sends, handler, d), <<Entry(op)>>, Picks(Sends', handler, d))
        BY <1>4, <2>2, <2>3 DEF Both
      <3>2. Heard(d)' = Append(Heard(d), Entry(op))
        <4>1. got'[c] = got[c] /\ IsSeq(got[c]) /\ IsSeq(to_client[c])
          BY <1>1, <1>4 DEF ClientInv
        <4>2. Append(got[c] \o to_client[c], Entry(op)) = got[c] \o Append(to_client[c], Entry(op))
          <5>1. PICK g, t, x : g = got[c] /\ t = to_client[c] /\ x = Entry(op)
            OBVIOUS
          <5>2. IsSeq(g) /\ IsSeq(t)
            BY <4>1, <5>1
          <5>3. Append(g \o t, x) = g \o Append(t, x)
            BY <5>2, AppendConcat
          <5> QED
            BY <5>1, <5>3
        <4> QED
          BY <1>5, <2>3, <4>1, <4>2 DEF Heard
      <3> QED
        BY <2>1, <3>1, <3>2, AnswerMoves
    <2>4. CASE d # c
      <3>1. Picks(Sends, handler, d) = <<>> \o Picks(Sends', handler, d)
        BY <1>4, <2>2, <2>4
      <3>2. Picks(Sends, handler, d) = Picks(Sends', handler, d)
        BY <2>1, <3>1, ConcatEmpty
      <3>3. Heard(d)' = Heard(d)
        BY <1>4, <1>5, <2>4 DEF Heard
      <3> QED
        BY <2>1, <3>2, <3>3 DEF Both
    <2> QED
      BY <2>3, <2>4
  <1>9. Live' = Live /\ \A a \in Live : Fd(a)' = Fd(a) /\ Base(a)' = Base(a)
    BY <1>4 DEF Live, Fd, Base
  <1>10. UNCHANGED db
    BY DEF SendStep, server_vars
  <1> QED
    BY <1>1, <1>4, <1>8, <1>9, <1>10, QuietStep

\* A client that is accepted has sent what will be received, and was told
\* nothing; the operations of others stay.
LEMMA AcceptIsQuiet ==
    ASSUME ServerInv, AnswersInv, AcceptStep
    PROVE  AnswersInv' /\ UNCHANGED SV!vars
  <1>1. BaseInv /\ ClientInv /\ ListInv /\ StreamInv /\ TurnInv
        /\ OrderInv /\ SendInv /\ AnswerInv /\ Settled
    BY DEF ServerInv, BaseInv, AnswerInv
  <1>2. BaseInv' /\ ClientInv' /\ TurnInv'
    BY <1>1, AcceptBase DEF BaseInv
  <1>3. PICK a, kept : a \in Addr /\ Accepted(kept, a)
    BY <1>1, AcceptIs
  <1>4. PICK h : h = Head(backlog)
    OBVIOUS
  <1>5. /\ h \in Waiting /\ h \in Client
        /\ a \notin Range(kept) /\ Live' = Range(kept) \cup {a}
        /\ handler'[a] = [fd |-> h, m_closed |-> FALSE, m_stream |-> <<>>]
    BY <1>3, <1>4 DEF Accepted
  <1>6. /\ Range(kept) = {b \in Live : ~handler[b].m_closed}
        /\ \A b \in Range(kept) : b \in Addr /\ handler'[b] = handler[b]
    BY <1>1, <1>3, AcceptKeeps
  <1>7. UNCHANGED <<cmds, sent, got, to_server, to_client, db, m_send, send_copy>>
    BY AcceptFrame
  <1>8. ASSUME NEW op \in Range(Sends) PROVE op.addr \in Range(kept)
    <2>1. Due(op)
      BY <1>1 DEF SendInv
    <2>2. op.addr \in Live /\ ~Gone(op.addr)
      BY <1>1, <2>1, GoneIsDone DEF Due
    <2> QED
      BY <1>1, <1>6, <2>2 DEF OrderInv
  <1>9. ASSUME NEW d \in Client PROVE Answers(d)' = Answers(d)
    <2>1. Heard(d)' = Heard(d) /\ Sends' = Sends
      BY <1>7 DEF Heard, Sends
    <2>2. \A op \in Range(Sends) : handler[op.addr].fd = d <=> handler'[op.addr].fd = d
      BY <1>6, <1>8
    <2> QED
      BY <1>1, <1>2, <2>1, <2>2, AnswersStay
  <1>10. Answers(h) = <<>>
    <2>1. got[h] = <<>> /\ to_client[h] = <<>>
      BY <1>1, <1>5 DEF Settled
    <2>2. Heard(h) = <<>>
      BY <2>1, EmptyShape, ConcatEmpty DEF Heard
    <2>3. Picks(Sends, handler, h) = <<>>
      <3>1. IsSeq(Sends) /\ \A i \in 1..Len(Sends) : Sends[i] \in Range(Sends)
        BY <1>1, QueueShape, SeqShape
      <3>2. \A i \in 1..Len(Sends) : handler[Sends[i].addr].fd # h
        <4> SUFFICES ASSUME NEW i \in 1..Len(Sends) PROVE handler[Sends[i].addr].fd # h
          OBVIOUS
        <4>1. Sends[i].addr \in Live
          BY <1>6, <1>8, <3>1
        <4> QED
          BY <1>1, <1>5, <4>1 DEF ListInv, Fd
      <3> QED
        BY <3>1, <3>2, PickNone
    <2>4. Both(Answers(h), Heard(h), Picks(Sends, handler, h))
      BY <1>1, <1>5, AnswersAre
    <2> QED
      BY <2>2, <2>3, <2>4, EmptyShape, ConcatEmpty DEF Both
  <1>11. Fd(a)' = h /\ Base(a)' = 0
    <2>1. Len(to_server[h]) = sent[h] /\ sent[h] \in Nat
      BY <1>1, <1>5, ClientShape DEF StreamInv
    <2>2. Len(handler'[a].m_stream) = 0
      BY <1>5, EmptyShape
    <2>3. Fd(a)' = h
      BY <1>5 DEF Fd
    <2>4. Base(a)' = sent[h] - Len(to_server[h]) - 0
      BY <1>7, <2>2, <2>3 DEF Base
    <2> QED
      BY <2>1, <2>3, <2>4
  <1>12. ASSUME NEW b \in Live' PROVE \E e : Base(b)' = 2 * e /\ InOrder(Answers(Fd(b)), Fd(b), e)'
    <2>1. CASE b = a
      <3>1. Answers(h)' = <<>>
        BY <1>5, <1>9, <1>10
      <3>2. InOrder(Answers(h), h, 0)'
        BY <3>1, EmptyShape DEF InOrder
      <3> QED
        BY <1>11, <2>1, <3>2
    <2>2. CASE b # a
      <3>1. b \in Range(kept) /\ b \in Live /\ handler'[b] = handler[b]
        BY <1>5, <1>6, <2>2
      <3>2. Fd(b)' = Fd(b) /\ Base(b)' = Base(b) /\ Fd(b) \in Client
        BY <1>1, <1>7, <3>1, LiveNode DEF Fd, Base
      <3> QED
        BY <1>1, <1>7, <1>9, <3>1, <3>2, InOrderStays
    <2> QED
      BY <2>1, <2>2
  <1>13. AnswersInv'
    BY <1>12 DEF AnswersInv
  <1> QED
    BY <1>7, <1>9, <1>13, Unseen

-----------------------------------------------------------------------------
(* A client that sends.  Only the beginning and the end of a command count. *)

Bare(s) == [j \in 1..Len(s) |-> s[j].cmd]

LEMMA BareShape ==
    ASSUME NEW s, IsSeq(s)
    PROVE  IsSeq(Bare(s)) /\ Len(Bare(s)) = Len(s) /\ \A j \in 1..Len(s) : Bare(s)[j] = s[j].cmd
  <1>1. Len(s) \in Nat
    BY SeqShape
  <1>2. PICK f : f = Bare(s)
    OBVIOUS
  <1>3. f = [j \in 1..Len(s) |-> f[j]] /\ \A j \in 1..Len(s) : f[j] = s[j].cmd
    BY <1>2 DEF Bare
  <1>4. IsSeq(f) /\ Len(f) = Len(s)
    BY <1>1, <1>3, FunctionSeq
  <1> QED
    BY <1>2, <1>3, <1>4

LEMMA BareAppend ==
    ASSUME NEW s, IsSeq(s), NEW x, NEW r, r = Append(s, x)
    PROVE  Bare(r) = Append(Bare(s), x.cmd)
  <1>1. Appended(r, s, x)
    BY AppendIs
  <1>2. PICK p, q, y, w : p = Bare(s) /\ q = Bare(r) /\ y = x.cmd /\ w = Append(p, y)
    OBVIOUS
  <1>3. IsSeq(r) /\ Len(s) \in Nat /\ Len(r) = Len(s) + 1
    BY <1>1 DEF Appended
  <1>4. /\ IsSeq(p) /\ Len(p) = Len(s) /\ \A j \in 1..Len(s) : p[j] = s[j].cmd
        /\ IsSeq(q) /\ Len(q) = Len(r) /\ \A j \in 1..Len(r) : q[j] = r[j].cmd
    BY <1>2, <1>3, BareShape
  <1>5. Appended(w, p, y)
    BY <1>2, <1>4, AppendIs
  <1>6. ASSUME NEW j \in 1..Len(q) PROVE q[j] = w[j]
    <2>1. CASE j \in 1..Len(s)
      BY <1>1, <1>4, <1>5, <2>1 DEF Appended
    <2>2. CASE j = Len(s) + 1
      BY <1>1, <1>2, <1>4, <1>5, <2>2 DEF Appended
    <2> QED
      BY <1>3, <1>4, <2>1, <2>2
  <1>7. IsSeq(w) /\ Len(w) = Len(q)
    BY <1>3, <1>4, <1>5 DEF Appended
  <1>8. q = w
    BY <1>4, <1>6, <1>7, SameSeq
  <1> QED
    BY <1>2, <1>8

LEMMA SendIsSeen ==
    ASSUME BaseInv, NEW c \in Client, Send(c), \A d \in Client : Answers(d)' = Answers(d)
    PROVE  SV!Begin(c) \/ SV!Finish(c)
  <1>1. ClientInv
    BY DEF BaseInv
  <1>2. /\ sent' = [sent EXCEPT ![c] = @ + 1] /\ (Begin(c) \/ Continue(c))
        /\ UNCHANGED db
    BY DEF Send, server_vars
  <1>3. /\ DOMAIN cmds = Client /\ sent \in [Client -> Nat] /\ IsSeq(cmds[c]) /\ Len(cmds[c]) \in Nat
        /\ sent[c] \in Nat /\ sent[c] <= 2 * Len(cmds[c]) /\ 2 * Len(cmds[c]) <= sent[c] + 1
    BY <1>1, ClientShape DEF ClientInv
  <1>4. sent'[c] = sent[c] + 1 /\ \A d \in Client : d # c => sent'[d] = sent[d]
    BY <1>2, <1>3
  <1> DEFINE Cs == [d \in Client |-> [j \in 1..Len(cmds[d]) |-> cmds[d][j].cmd]]
             Ws == [d \in Client |-> sent[d] \div 2]
             As == [d \in Client |-> Answers(d)]
  <1>5. Cs[c] = Bare(cmds[c]) /\ Ws[c] = sent[c] \div 2
    BY DEF Bare
  <1>6. Len(Cs[c]) = Len(cmds[c])
    BY <1>3, <1>5, BareShape
  <1>7. As' = As
    OBVIOUS
  <1>8. CASE Begin(c)
    <2>1. PICK cmd, x :
            /\ cmd \in Menu[c][Len(cmds[c]) + 1] /\ x.cmd = cmd
            /\ cmds' = [cmds EXCEPT ![c] = Append(@, x)]
      BY <1>8 DEF Begin
    <2>2. sent[c] = 2 * Len(cmds[c]) /\ Len(cmds[c]) < Len(Menu[c])
      BY <1>8 DEF Begin
    <2>3. sent[c] \div 2 = Len(cmds[c]) /\ sent'[c] \div 2 = Len(cmds[c])
      <3>1. PICK l, t : l = Len(cmds[c]) /\ t = sent[c]
        OBVIOUS
      <3>2. l \in Nat /\ t = 2 * l /\ sent'[c] = t + 1
        BY <1>3, <1>4, <2>2, <3>1
      <3>3. t \div 2 = l /\ (t + 1) \div 2 = l
        BY <3>2
      <3> QED
        BY <3>1, <3>2, <3>3
    <2>4. Ws' = Ws
      <3>1. ASSUME NEW d \in Client PROVE sent'[d] \div 2 = sent[d] \div 2
        BY <1>4, <2>3
      <3> QED
        BY <3>1
    <2>5. Cs' = [Cs EXCEPT ![c] = Append(@, cmd)]
      <3>1. cmds'[c] = Append(cmds[c], x) /\ \A d \in Client : d # c => cmds'[d] = cmds[d]
        BY <1>3, <2>1
      <3>2. Bare(cmds'[c]) = Append(Bare(cmds[c]), cmd)
        BY <1>3, <2>1, <3>1, BareAppend
      <3>3. Cs = [d \in Client |-> Bare(cmds[d])] /\ Cs' = [d \in Client |-> Bare(cmds'[d])]
        BY DEF Bare
      <3>4. \A d \in Client : d # c => Bare(cmds'[d]) = Bare(cmds[d])
        BY <3>1
      <3> HIDE DEF Cs
      <3> QED
        BY <3>2, <3>3, <3>4
    <2>6. Ws[c] = Len(Cs[c]) /\ Len(Cs[c]) < Len(Menu[c]) /\ cmd \in Menu[c][Len(Cs[c]) + 1]
      BY <1>5, <1>6, <2>1, <2>2, <2>3
    <2>7. UNCHANGED <<Ws, db, As>>
      BY <1>2, <1>7, <2>4
    <2>8. SV!Begin(c)
      BY <2>5, <2>6, <2>7 DEF SV!Begin
    <2> QED
      BY <2>8
  <1>9. CASE Continue(c)
    <2>1. sent[c] < 2 * Len(cmds[c]) /\ UNCHANGED cmds
      BY <1>9 DEF Continue
    <2>2. sent[c] \div 2 < Len(cmds[c]) /\ sent'[c] \div 2 = (sent[c] \div 2) + 1
      <3>1. PICK l, t : l = Len(cmds[c]) /\ t = sent[c]
        OBVIOUS
      <3>2. l \in Nat /\ t \in Nat /\ t < 2 * l /\ 2 * l <= t + 1 /\ sent'[c] = t + 1
        BY <1>3, <1>4, <2>1, <3>1
      <3>3. t \div 2 = l - 1 /\ (t + 1) \div 2 = l
        BY <3>2
      <3> QED
        BY <3>1, <3>2, <3>3
    <2>3. Ws' = [Ws EXCEPT ![c] = @ + 1]
      <3>1. \A d \in Client : d # c => sent'[d] \div 2 = sent[d] \div 2
        BY <1>4
      <3> QED
        BY <2>2, <3>1
    <2>4. Ws[c] < Len(Cs[c])
      BY <1>5, <1>6, <2>2
    <2>5. UNCHANGED <<Cs, db, As>>
      BY <1>2, <1>7, <2>1
    <2>6. SV!Finish(c)
      BY <2>3, <2>4, <2>5 DEF SV!Finish
    <2> QED
      BY <2>6
  <1> QED
    BY <1>2, <1>8, <1>9

LEMMA SendIsMute ==
    ASSUME ServerInv, NEW c \in Client, Send(c), NEW d \in Client
    PROVE  Answers(d)' = Answers(d)
  <1>1. BaseInv /\ ClientInv /\ ListInv /\ TurnInv
    BY DEF ServerInv, BaseInv
  <1>2. BaseInv' /\ ClientInv' /\ TurnInv'
    BY <1>1, SendBase DEF BaseInv
  <1>3. /\ sent' = [sent EXCEPT ![c] = @ + 1] /\ (Begin(c) \/ Continue(c))
        /\ to_server' = [to_server EXCEPT ![c] = Append(@, (sent[c] \div 2) + 1)]
        /\ UNCHANGED <<got, to_client, server_vars, loop_vars>>
    BY DEF Send
  <1>4. Live' = Live /\ Sends' = Sends /\ (\A a : Fd(a)' = Fd(a)) /\ UNCHANGED <<m_clients, handler>>
    BY <1>3, ClientsApart
  <1>5. Heard(d)' = Heard(d)
    BY <1>3 DEF Heard
  <1> QED
    BY <1>1, <1>2, <1>4, <1>5, AnswersStay

LEMMA SendRefines ==
    ASSUME ServerInv, AnswersInv, NEW c \in Client, Send(c)
    PROVE  AnswersInv' /\ (SV!Begin(c) \/ SV!Finish(c))
  <1>1. BaseInv /\ ClientInv /\ ListInv /\ TurnInv
    BY DEF ServerInv, BaseInv
  <1>2. BaseInv' /\ ClientInv' /\ TurnInv'
    BY <1>1, SendBase DEF BaseInv
  <1>3. /\ sent' = [sent EXCEPT ![c] = @ + 1] /\ (Begin(c) \/ Continue(c))
        /\ to_server' = [to_server EXCEPT ![c] = Append(@, (sent[c] \div 2) + 1)]
        /\ UNCHANGED <<got, to_client, server_vars, loop_vars>>
    BY DEF Send
  <1>4. Live' = Live /\ Sends' = Sends /\ (\A a : Fd(a)' = Fd(a)) /\ UNCHANGED <<m_clients, handler>>
    BY <1>3, ClientsApart
  <1>5. \A d \in Client : Answers(d)' = Answers(d)
    BY SendIsMute
  <1>6. \A a \in Live : Base(a)' = Base(a)
    <2>1. /\ DOMAIN to_server = Client /\ sent \in [Client -> Nat] /\ IsSeq(to_server[c])
      BY <1>1 DEF ClientInv
    <2>2. sent'[c] = sent[c] + 1 /\ Len(to_server'[c]) = Len(to_server[c]) + 1
          /\ Len(to_server[c]) \in Nat /\ sent[c] \in Nat
      BY <1>3, <2>1, AppendSeq, SeqShape
    <2>3. \A d \in Client : d # c => sent'[d] = sent[d] /\ to_server'[d] = to_server[d]
      BY <1>3, <2>1
    <2>4. \A d \in Client : sent'[d] - Len(to_server'[d]) = sent[d] - Len(to_server[d])
      <3>1. PICK m, n, p, q : m = sent[c] /\ n = Len(to_server[c])
                              /\ p = sent'[c] /\ q = Len(to_server'[c])
        OBVIOUS
      <3>2. m \in Nat /\ n \in Nat /\ p = m + 1 /\ q = n + 1
        BY <3>1, <2>2
      <3>3. p - q = m - n
        BY <3>2
      <3>4. sent'[c] - Len(to_server'[c]) = sent[c] - Len(to_server[c])
        BY <3>1, <3>3, Zenon
      <3> TAKE d \in Client
      <3>5. CASE d = c
        BY <3>4, <3>5, Zenon
      <3>6. CASE d # c
        BY <2>3, <3>6, Zenon
      <3> QED
        BY <3>5, <3>6
    <2> QED
      BY <1>1, <1>4, <2>4, BaseStays
  <1>7. \A d \in Client : Len(cmds[d]) \in Nat /\ Len(cmds'[d]) \in Nat /\ Len(cmds[d]) <= Len(cmds'[d])
                          /\ \A j \in 1..Len(cmds[d]) : cmds'[d][j] = cmds[d][j]
    <2> SUFFICES ASSUME NEW d \in Client
                 PROVE  /\ Len(cmds[d]) \in Nat /\ Len(cmds'[d]) \in Nat
                        /\ Len(cmds[d]) <= Len(cmds'[d])
                        /\ \A j \in 1..Len(cmds[d]) : cmds'[d][j] = cmds[d][j]
      OBVIOUS
    <2>1. IsSeq(cmds[d]) /\ Len(cmds[d]) \in Nat /\ DOMAIN cmds = Client
      BY <1>1, ClientShape DEF ClientInv
    <2>2. CASE cmds'[d] = cmds[d]
      BY <2>1, <2>2
    <2>3. CASE cmds'[d] # cmds[d]
      <3>1. Begin(c)
        BY <1>3, <2>3 DEF Continue
      <3>2. PICK x : cmds' = [cmds EXCEPT ![c] = Append(@, x)]
        BY <3>1 DEF Begin
      <3>3. cmds'[d] = Append(cmds[d], x)
        BY <2>1, <2>3, <3>2
      <3>4. Appended(cmds'[d], cmds[d], x)
        BY <2>1, <3>3, AppendIs
      <3> QED
        BY <3>4 DEF Appended
    <2> QED
      BY <2>2, <2>3
  <1>8. ASSUME NEW a \in Live PROVE \E e : Base(a)' = 2 * e /\ InOrder(Answers(Fd(a)), Fd(a), e)'
    <2>1. PICK e : Base(a) = 2 * e /\ InOrder(Answers(Fd(a)), Fd(a), e)
      BY DEF AnswersInv
    <2>2. PICK d, r : d = Fd(a) /\ r = Answers(d)
      OBVIOUS
    <2>3. d \in Client /\ Fd(a)' = d /\ Answers(d)' = r
      BY <1>1, <1>4, <1>5, <2>2, LiveNode
    <2>4. InOrder(r, d, e)
      BY <2>1, <2>2
    <2>5. e < Len(r) => e + 1 \in 1..Len(cmds'[d]) /\ cmds'[d][e + 1].cmd = Bad
      BY <1>7, <2>3, <2>4 DEF InOrder, Cmd
    <2>6. InOrder(r, d, e)'
      BY <2>3, <2>4, <2>5 DEF InOrder, Cmd
    <2> QED
      BY <1>6, <2>1, <2>3, <2>6
  <1>9. AnswersInv'
    BY <1>4, <1>8 DEF AnswersInv
  <1>10. SV!Begin(c) \/ SV!Finish(c)
    BY <1>1, <1>5, SendIsSeen
  <1> QED
    BY <1>9, <1>10

-----------------------------------------------------------------------------
(* What a receive brought is served in one step. *)

Entries(q) == [j \in 1..Len(q) |-> Entry(q[j])]

LEMMA EntriesShape ==
    ASSUME NEW q, IsSeq(q)
    PROVE  /\ IsSeq(Entries(q)) /\ Len(Entries(q)) = Len(q)
           /\ \A j \in 1..Len(q) : Entries(q)[j] = Entry(q[j])
  <1>1. Len(q) \in Nat
    BY SeqShape
  <1>2. PICK f : f = Entries(q)
    OBVIOUS
  <1>3. f = [j \in 1..Len(q) |-> f[j]] /\ \A j \in 1..Len(q) : f[j] = Entry(q[j])
    BY <1>2 DEF Entries
  <1>4. IsSeq(f) /\ Len(f) = Len(q)
    BY <1>1, <1>3, FunctionSeq
  <1> QED
    BY <1>2, <1>3, <1>4

LEMMA EntriesAppend ==
    ASSUME NEW q, IsSeq(q), NEW x, NEW r, r = Append(q, x)
    PROVE  Entries(r) = Append(Entries(q), Entry(x))
  <1>1. Appended(r, q, x)
    BY AppendIs
  <1>2. PICK p, u, y, w : p = Entries(q) /\ u = Entries(r) /\ y = Entry(x) /\ w = Append(p, y)
    OBVIOUS
  <1>3. IsSeq(r) /\ Len(q) \in Nat /\ Len(r) = Len(q) + 1
    BY <1>1 DEF Appended
  <1>4. /\ IsSeq(p) /\ Len(p) = Len(q) /\ \A j \in 1..Len(q) : p[j] = Entry(q[j])
        /\ IsSeq(u) /\ Len(u) = Len(r) /\ \A j \in 1..Len(r) : u[j] = Entry(r[j])
    BY <1>2, <1>3, EntriesShape
  <1>5. Appended(w, p, y)
    BY <1>2, <1>4, AppendIs
  <1>6. ASSUME NEW j \in 1..Len(u) PROVE u[j] = w[j]
    <2>1. CASE j \in 1..Len(q)
      <3>1. r[j] = q[j] /\ w[j] = p[j] /\ j \in 1..Len(r)
        BY <1>1, <1>3, <1>4, <1>5, <2>1 DEF Appended
      <3> QED
        BY <1>4, <2>1, <3>1
    <2>2. CASE j = Len(q) + 1
      <3>1. r[j] = x /\ w[j] = y /\ j \in 1..Len(r)
        BY <1>1, <1>3, <1>4, <1>5, <2>2 DEF Appended
      <3> QED
        BY <1>2, <1>4, <3>1
    <2> QED
      BY <1>3, <1>4, <2>1, <2>2
  <1>7. IsSeq(w) /\ Len(w) = Len(u)
    BY <1>3, <1>4, <1>5 DEF Appended
  <1>8. u = w
    BY <1>4, <1>6, <1>7, SameSeq
  <1> QED
    BY <1>2, <1>8

LEMMA TurnSteps ==
    ASSUME NEW a, NEW c, NEW s, NEW m \in Nat, NEW f, IsTurn(f, a, c, s, m), NEW j \in 0..(m - 1)
    PROVE  f[j + 1] = HandleOne(f[j], a, c, s, j + 1)
  <1>1. j + 1 \in 0..m /\ j + 1 # 0 /\ (j + 1) - 1 = j
    OBVIOUS
  <1> QED
    BY <1>1 DEF IsTurn

\* Each command leaves one operation.
LEMMA OpsRun ==
    ASSUME NEW a, NEW c, NEW s, NEW m \in Nat, NEW f, IsTurn(f, a, c, s, m)
    PROVE  /\ f[0].db = db /\ f[0].ops = <<>>
           /\ \A j \in 0..m : IsSeq(f[j].ops) /\ Len(f[j].ops) = j
  <1>1. f[0].db = db /\ f[0].ops = <<>>
    BY DEF IsTurn
  <1>2. ASSUME NEW j \in 0..(m - 1) PROVE f[j + 1] = HandleOne(f[j], a, c, s, j + 1)
    BY TurnSteps
  <1> DEFINE T == {j \in Nat : IsSeq(f[j].ops) /\ Len(f[j].ops) = j}
  <1>3. 0 \in T
    BY <1>1, EmptyShape
  <1>4. ASSUME NEW j \in 0..(m - 1), j \in T PROVE j + 1 \in T
    <2>1. PICK p, x : f[j + 1].ops = Append(p, x) /\ p = f[j].ops
      <3>1. f[j + 1] = HandleOne(f[j], a, c, s, j + 1)
        BY <1>2
      <3>2. PICK r : r = Execute(f[j].db, Cmd(c, s[2 * (j + 1)])).res
        OBVIOUS
      <3>3. f[j + 1].ops = Append(f[j].ops, SendOp(a, s[2 * (j + 1)], r))
        BY <3>1, <3>2 DEF HandleOne
      <3> QED
        BY <3>3
    <2>2. IsSeq(p) /\ Len(p) = j /\ j \in Nat
      <3>1. j \in T
        BY <1>4
      <3> HIDE DEF T
      <3>2. IsSeq(f[j].ops) /\ Len(f[j].ops) = j /\ j \in Nat
        BY <3>1 DEF T
      <3> QED
        BY <2>1, <3>2
    <2>3. IsSeq(Append(p, x)) /\ Len(Append(p, x)) = j + 1
      BY <2>2, AppendSeq
    <2>4. j + 1 \in Nat
      OBVIOUS
    <2> QED
      BY <2>1, <2>3, <2>4
  <1>5. \A j \in 0..m : j \in T
    <2> HIDE DEF T
    <2> QED
      BY <1>3, <1>4, UpTo
  <1> QED
    BY <1>1, <1>5

\* The equation that Service!After solves, C being the commands of the client.
ServeOne(x, C, n, j) ==
    LET out == Execute(x.db, C[n + j - 1])
    IN [db |-> out.db, seq |-> Append(x.seq, [n |-> n + j - 1, res |-> out.res])]
IsServe(g, C, n, m) ==
    g = [j \in 0..m |-> IF j = 0 THEN [db |-> db, seq |-> <<>>] ELSE ServeOne(g[j - 1], C, n, j)]

\* It has a solution when Handle does, with the same answers.
LEMMA ServeExists ==
    ASSUME ClientInv, NEW a, NEW c \in Client, NEW s, NEW e \in Nat, NEW m, Split(c, s, e, m),
           NEW f, IsTurn(f, a, c, s, m),
           NEW g, g = [j \in 0..m |-> [db |-> f[j].db, seq |-> Entries(f[j].ops)]]
    PROVE  IsServe(g, Bare(cmds[c]), e + 1, m)
  <1> DEFINE C == Bare(cmds[c])
             G == [j \in 0..m |-> IF j = 0 THEN [db |-> db, seq |-> <<>>]
                                  ELSE ServeOne(g[j - 1], C, e + 1, j)]
  <1>1. m \in Nat
    BY DEF Split
  <1>2. /\ f[0].db = db /\ f[0].ops = <<>>
        /\ \A j \in 0..m : IsSeq(f[j].ops) /\ Len(f[j].ops) = j
        /\ \A j \in 0..(m - 1) : f[j + 1] = HandleOne(f[j], a, c, s, j + 1)
    <2>1. \A j \in 0..(m - 1) : f[j + 1] = HandleOne(f[j], a, c, s, j + 1)
      BY <1>1, TurnSteps
    <2>2. /\ f[0].db = db /\ f[0].ops = <<>>
          /\ \A j \in 0..m : IsSeq(f[j].ops) /\ Len(f[j].ops) = j
      BY <1>1, OpsRun
    <2> QED
      BY <2>1, <2>2
  <1>3. Entries(<<>>) = <<>>
    <2>1. Len(Entries(<<>>)) = 0 /\ IsSeq(Entries(<<>>))
      BY EmptyShape, EntriesShape
    <2> QED
      BY <2>1, SeqShape
  <1>4. ASSUME NEW j \in 0..m PROVE g[j] = G[j]
    <2>1. CASE j = 0
      BY <1>2, <1>3, <2>1
    <2>2. CASE j # 0
      <3>1. j - 1 \in 0..(m - 1) /\ (j - 1) + 1 = j /\ j - 1 \in 0..m /\ j \in 1..m
        BY <1>1, <2>2
      <3>2. f[j] = HandleOne(f[j - 1], a, c, s, j)
        BY <1>2, <3>1
      <3>3. s[2 * j] = e + j /\ e + j \in 1..Len(cmds[c])
        BY <3>1 DEF Split
      <3>4. Cmd(c, s[2 * j]) = C[(e + 1) + j - 1] /\ (e + 1) + j - 1 = e + j
        BY <3>3 DEF Cmd, Bare
      <3>5. PICK out : out = Execute(f[j - 1].db, Cmd(c, s[2 * j]))
        OBVIOUS
      <3>6. PICK x, p, q : x = SendOp(a, s[2 * j], out.res) /\ p = f[j - 1].ops /\ q = f[j].ops
        OBVIOUS
      <3>7. f[j].db = out.db /\ q = Append(p, x)
        BY <3>2, <3>5, <3>6 DEF HandleOne
      <3>8. Entries(q) = Append(Entries(p), Entry(x))
        BY <1>2, <3>1, <3>6, <3>7, EntriesAppend
      <3>9. Entry(x) = [n |-> (e + 1) + j - 1, res |-> out.res]
        BY <3>3, <3>4, <3>6 DEF Entry, SendOp
      <3>10. g[j - 1].db = f[j - 1].db /\ g[j - 1].seq = Entries(p)
        BY <3>1, <3>6
      <3>11. G[j] = ServeOne(g[j - 1], C, e + 1, j)
        BY <2>2
      <3>12. out = Execute(g[j - 1].db, C[(e + 1) + j - 1])
        BY <3>4, <3>5, <3>10
      <3>13. G[j] = [db |-> out.db, seq |-> Append(Entries(p), Entry(x))]
        BY <3>9, <3>10, <3>11, <3>12 DEF ServeOne
      <3> QED
        BY <3>6, <3>7, <3>8, <3>13
    <2> QED
      BY <2>1, <2>2
  <1>5. g = G
    BY <1>4
  <1> QED
    BY <1>5 DEF IsServe

LEMMA SameServe ==
    ASSUME NEW m \in Nat, NEW C, NEW n, NEW g, IsServe(g, C, n, m), NEW h, IsServe(h, C, n, m)
    PROVE  g[m] = h[m]
  <1> DEFINE T == {j \in Nat : g[j] = h[j]}
  <1>1. 0 \in T
    BY DEF IsServe
  <1>2. ASSUME NEW j \in 0..(m - 1), j \in T PROVE j + 1 \in T
    <2>1. j + 1 \in 0..m /\ j + 1 # 0 /\ (j + 1) - 1 = j
      OBVIOUS
    <2>2. g[j + 1] = ServeOne(g[j], C, n, j + 1) /\ h[j + 1] = ServeOne(h[j], C, n, j + 1)
      BY <2>1 DEF IsServe
    <2> QED
      BY <1>2, <2>2
  <1>3. \A j \in 0..m : j \in T
    <2> HIDE DEF T
    <2> QED
      BY <1>1, <1>2, UpTo
  <1> QED
    BY <1>3

\* Service runs the same database.
LEMMA SameExecute ==
    ASSUME NEW d, NEW cmd
    PROVE  SV!Execute(d, cmd) = Execute(d, cmd)
  <1>1. /\ SV!Success = Success /\ SV!NotFound = NotFound /\ SV!Invalid = Invalid
        /\ \A v : SV!Found(v) = Found(v) /\ SV!SchemaIs(v) = SchemaIs(v)
        /\ SV!EmptyMap = EmptyMap
    BY DEF SV!Success, Success, SV!NotFound, NotFound, SV!Found, Found, SV!SchemaIs, SchemaIs,
           SV!Invalid, Invalid, SV!EmptyMap, EmptyMap
  <1>2. \A x, r : SV!Outcome(x, r) = Outcome(x, r)
    BY DEF SV!Outcome, Outcome
  <1>3. \A f, x, y : SV!Assign(f, x, y) = Assign(f, x, y)
    BY DEF SV!Assign, Assign
  <1>4. \A f, x : SV!Erase(f, x) = Erase(f, x)
    BY DEF SV!Erase, Erase
  <1>5. \A x, name, docs : SV!WithDocs(x, name, docs) = WithDocs(x, name, docs)
    BY <1>3 DEF SV!WithDocs, WithDocs
  <1>6. SV!RegisterSchema(d, cmd) = RegisterSchema(d, cmd)
    BY <1>1, <1>2, <1>3 DEF SV!RegisterSchema, RegisterSchema
  <1>7. SV!CreateCollection(d, cmd) = CreateCollection(d, cmd)
    BY <1>1, <1>2, <1>3 DEF SV!CreateCollection, CreateCollection
  <1>8. SV!GetSchema(d, cmd) = GetSchema(d, cmd)
    BY <1>1, <1>2 DEF SV!GetSchema, GetSchema
  <1>9. SV!GetCollectionSchema(d, cmd) = GetCollectionSchema(d, cmd)
    BY <1>1, <1>2 DEF SV!GetCollectionSchema, GetCollectionSchema
  <1>10. SV!Get(d, cmd) = Get(d, cmd)
    BY <1>1, <1>2 DEF SV!Get, Get
  <1>11. SV!Put(d, cmd) = Put(d, cmd)
    BY <1>1, <1>2, <1>3, <1>5 DEF SV!Put, Put
  <1>12. SV!Delete(d, cmd) = Delete(d, cmd)
    BY <1>1, <1>2, <1>4, <1>5 DEF SV!Delete, Delete
  <1> QED
    BY <1>6, <1>7, <1>8, <1>9, <1>10, <1>11, <1>12 DEF SV!Execute, Execute

LEMMA AfterIs ==
    ASSUME ClientInv, NEW a, NEW c \in Client, NEW s, NEW e \in Nat, NEW m, Split(c, s, e, m),
           NEW f, IsTurn(f, a, c, s, m)
    PROVE  /\ SV!After(c, e + 1, m).db = f[m].db
           /\ SV!After(c, e + 1, m).seq = Entries(f[m].ops)
  <1> DEFINE C == Bare(cmds[c])
             Cs == [d \in Client |-> [j \in 1..Len(cmds[d]) |-> cmds[d][j].cmd]]
             Eq(h) == h = [j \in 0..m |->
                 IF j = 0 THEN [db |-> db, seq |-> <<>>]
                 ELSE LET out == SV!Execute(h[j - 1].db, Cs[c][(e + 1) + j - 1])
                      IN [db  |-> out.db,
                          seq |-> Append(h[j - 1].seq, SV!Answer((e + 1) + j - 1, out.res))]]
             after == CHOOSE h : Eq(h)
  <1>1. m \in Nat
    BY DEF Split
  <1>2. SV!After(c, e + 1, m) = after[m]
    BY DEF SV!After
  <1>3. Cs[c] = C
    BY DEF Bare
  <1>4. ASSUME NEW h PROVE Eq(h) <=> IsServe(h, C, e + 1, m)
    <2> HIDE DEF Cs, C
    <2> QED
      BY <1>3, SameExecute DEF IsServe, ServeOne, SV!Answer
  <1>5. PICK g : g = [j \in 0..m |-> [db |-> f[j].db, seq |-> Entries(f[j].ops)]]
    OBVIOUS
  <1>6. IsServe(g, C, e + 1, m)
    BY <1>5, ServeExists
  <1>7. Eq(after)
    <2>1. Eq(g)
      BY <1>4, <1>6
    <2> HIDE DEF Eq
    <2> QED
      BY <2>1
  <1>8. IsServe(after, C, e + 1, m)
    BY <1>4, <1>7
  <1>9. after[m] = g[m]
    <2> HIDE DEF after, C
    <2> QED
      BY <1>1, <1>6, <1>8, SameServe
  <1>10. g[m].db = f[m].db /\ g[m].seq = Entries(f[m].ops)
    BY <1>1, <1>5
  <1> QED
    BY <1>2, <1>9, <1>10

LEMMA BothTwice ==
    ASSUME NEW h, NEW p, NEW n, IsSeq(h), IsSeq(p), IsSeq(n),
           NEW r, Both(r, h, p), NEW q, Both(q, p, n), NEW k, Both(k, h, q)
    PROVE  Both(k, r, n)
  <1>1. (h \o p) \o n = h \o q
    BY Regroup DEF Both
  <1> QED
    BY <1>1 DEF Both

\* The receive of a client adds what its operations answer, and leaves the
\* others alone.
LEMMA AnswersGrow ==
    ASSUME BaseInv, SendInv, BaseInv', NEW a \in Live, NEW c, c = Fd(a), NEW new, IsSeq(new),
           \A i \in 1..Len(new) : new[i].addr = a, m_send' = m_send \o new,
           \A b \in Live : handler'[b].fd = handler[b].fd,
           UNCHANGED <<got, to_client, send_copy>>
    PROVE  /\ Both(Answers(c)', Answers(c), Entries(new))
           /\ \A d \in Client : d # c => Answers(d)' = Answers(d)
  <1>1. ClientInv /\ ListInv /\ TurnInv /\ ClientInv' /\ TurnInv'
    BY DEF BaseInv
  <1>2. IsSeq(send_copy) /\ IsSeq(m_send) /\ IsSeq(Sends) /\ IsSeq(Sends')
    <2>1. IsSeq(send_copy') /\ IsSeq(m_send')
      BY <1>1 DEF TurnInv
    <2> QED
      BY <1>1, <2>1, QueueShape, OpsOfNextSends
  <1>3. Both(Sends', Sends, new)
    <2>1. Both(Sends, send_copy, m_send) /\ Both(m_send', m_send, new) /\ Both(Sends', send_copy, m_send')
      BY DEF Both, Sends
    <2> QED
      BY <1>2, <2>1, BothTwice
  <1>4. \A i \in 1..Len(Sends) : Sends[i].addr \in Live
    BY <1>2, SeqShape DEF SendInv, Due
  <1>5. Joined(Sends', Sends, new)
    BY <1>2, <1>3, ConcatIs DEF Both
  <1>6. \A i \in 1..Len(Sends') : handler'[Sends'[i].addr].fd = handler[Sends'[i].addr].fd
    <2> SUFFICES ASSUME NEW i \in 1..Len(Sends') PROVE Sends'[i].addr \in Live
      OBVIOUS
    <2>1. \A op \in Range(Sends') : op.addr \in Live
      <3>1. \A op \in Range(new) : op.addr \in Live
        BY SeqShape
      <3>2. \A op \in Range(Sends) : op.addr \in Live
        BY <1>2, <1>4, SeqShape
      <3> QED
        BY <1>5, <3>1, <3>2 DEF Joined
    <2> QED
      BY <1>2, <2>1, SeqShape
  <1>7. ASSUME NEW d \in Client
        PROVE  Both(Answers(d)', Answers(d), Picks(new, handler, d)) /\ IsSeq(Answers(d))
    <2>1. Heard(d)' = Heard(d)
      BY DEF Heard
    <2>2. Picks(Sends', handler', d) = Picks(Sends', handler, d)
      BY <1>2, <1>6, PickSame
    <2>3. Both(Picks(Sends', handler, d), Picks(Sends, handler, d), Picks(new, handler, d))
      BY <1>2, <1>3, PickBoth
    <2>4. /\ IsSeq(Heard(d)) /\ Both(Answers(d), Heard(d), Picks(Sends, handler, d))
          /\ Both(Answers(d)', Heard(d), Picks(Sends', handler, d)) /\ IsSeq(Answers(d))
      BY <1>1, <2>1, <2>2, AnswersAre, NextAnswersAre
    <2>5. IsSeq(Picks(Sends, handler, d)) /\ IsSeq(Picks(new, handler, d))
      BY <1>2, PickSeq
    <2> QED
      BY <2>3, <2>4, <2>5, BothTwice
  <1>8. c \in Client
    BY <1>1, LiveNode
  <1>9. Picks(new, handler, c) = Entries(new)
    <2>1. PICK p, q : p = Picks(new, handler, c) /\ q = Entries(new)
      OBVIOUS
    <2>2. Len(p) = Len(new) /\ IsSeq(p) /\ \A i \in 1..Len(new) : p[i] = Entry(new[i])
      BY <2>1, PickAll, PickSeq DEF Fd
    <2>3. Len(q) = Len(new) /\ IsSeq(q) /\ \A i \in 1..Len(new) : q[i] = Entry(new[i])
      BY <2>1, EntriesShape
    <2> QED
      BY <2>1, <2>2, <2>3, SameSeq
  <1>10. ASSUME NEW d \in Client, d # c PROVE Answers(d)' = Answers(d)
    <2>1. \A i \in 1..Len(new) : handler[new[i].addr].fd # d
      BY <1>10 DEF Fd
    <2>2. Picks(new, handler, d) = <<>>
      BY <2>1, PickNone
    <2>3. Both(Answers(d)', Answers(d), <<>>) /\ IsSeq(Answers(d))
      BY <1>7, <2>2
    <2> QED
      BY <2>3, ConcatEmpty DEF Both
  <1> QED
    BY <1>7, <1>8, <1>9, <1>10

\* A receive and all that is known of it.
Receipt(a, c, s, e, k, m, new, f) ==
    /\ a \in Live /\ c = Fd(a) /\ c \in Client /\ e \in Nat /\ m \in Nat
    /\ Handled(a, c, s, e, k, m, new) /\ IsTurn(f, a, c, s, m) /\ db' = f[m].db
    /\ new = IF Refused(c, s) THEN Append(f[m].ops, SendOp(a, s[2 * m + 1], Invalid))
             ELSE f[m].ops
    /\ IsSeq(f[m].ops) /\ Len(f[m].ops) = m
    /\ Base(a) = 2 * e /\ Base(a)' = 2 * (e + m)
    /\ \A b \in Live : b # a => Base(b)' = Base(b)
    /\ Live' = Live /\ \A b \in Live : Fd(b)' = Fd(b)
    /\ Both(Answers(c)', Answers(c), Entries(new))
    /\ \A d \in Client : d # c => Answers(d)' = Answers(d)
    /\ UNCHANGED <<cmds, sent>>

LEMMA ReceiptIs ==
    ASSUME ServerInv, RecvStep, NEW a, a = recv_copy[First(ReadyRecvs)], to_server[Fd(a)] # <<>>
    PROVE  \E c, s, e, k, m, new, f : Receipt(a, c, s, e, k, m, new, f)
  <1>1. BaseInv /\ ClientInv /\ ListInv /\ StreamInv /\ TurnInv /\ SendInv
    BY DEF ServerInv, BaseInv
  <1>2. BaseInv'
    BY <1>1, RecvStepBase
  <1>3. /\ a \in Live /\ Received(a)
        /\ UNCHANGED <<cmds, sent, got, to_client, m_clients, send_copy>>
    BY <1>1, RecvServed
  <1>4. PICK c, s, e, k, m, new : c = Fd(a) /\ Handled(a, c, s, e, k, m, new) /\ Ran(a, c, s, m, new)
    BY <1>1, <1>3, ReceivedIs
  <1>5. PICK f : /\ IsTurn(f, a, c, s, m) /\ db' = f[m].db
                 /\ new = IF Refused(c, s) THEN Append(f[m].ops, SendOp(a, s[2 * m + 1], Invalid))
                          ELSE f[m].ops
    BY <1>4 DEF Ran
  <1>6. /\ handler'[a].fd = handler[a].fd
        /\ \A b \in Addr : b # a => handler'[b] = handler[b]
    <2>1. Moves(a, c, s, e, k, m)
      BY <1>1, <1>3, <1>4, HandledMoves
    <2> QED
      BY <2>1 DEF Moves
  <1>7. \A b \in Live : handler'[b].fd = handler[b].fd
    BY <1>1, <1>6, LiveNode
  <1>8. Live' = Live /\ \A b \in Live : Fd(b)' = Fd(b)
    BY <1>3, <1>7 DEF Live, Fd
  <1>9. /\ Base(a)' = 2 * (e + m) /\ Base(a) = 2 * e /\ e \in Nat /\ m \in Nat
        /\ \A b \in Live : b # a => Base(b)' = Base(b)
    BY <1>1, <1>3, <1>4, HandledBase
  <1>10. /\ m_send' = m_send \o new /\ IsSeq(new) /\ \A i \in 1..Len(new) : new[i].addr = a
    <2>1. /\ m_send' = m_send \o new /\ IsSeq(new) /\ Len(new) \in {m, m + 1}
          /\ \A i \in 1..m : new[i].addr = a
          /\ Len(new) = m + 1 => new[m + 1].addr = a
      BY <1>4 DEF Handled
    <2>2. ASSUME NEW i \in 1..Len(new) PROVE new[i].addr = a
      <3>1. i \in 1..m \/ (i = m + 1 /\ Len(new) = m + 1)
        BY <1>9, <2>1
      <3> QED
        BY <2>1, <3>1
    <2> QED
      BY <2>1, <2>2
  <1>11. /\ Both(Answers(c)', Answers(c), Entries(new))
         /\ \A d \in Client : d # c => Answers(d)' = Answers(d)
    BY <1>1, <1>2, <1>3, <1>4, <1>7, <1>10, AnswersGrow
  <1>12. IsSeq(f[m].ops) /\ Len(f[m].ops) = m
    <2>1. \A j \in 0..m : IsSeq(f[j].ops) /\ Len(f[j].ops) = j
      <3>1. m \in Nat /\ IsTurn(f, a, c, s, m)
        BY <1>5, <1>9
      <3> QED
        BY <3>1, OpsRun
    <2>2. m \in 0..m
      BY <1>9
    <2> QED
      BY <2>1, <2>2
  <1>13. c \in Client
    BY <1>1, <1>3, <1>4, LiveNode
  <1>14. Receipt(a, c, s, e, k, m, new, f)
    BY <1>3, <1>4, <1>5, <1>8, <1>9, <1>11, <1>12, <1>13 DEF Receipt
  <1> QED
    BY <1>14

\* What is known of the answers of node a's client before a receipt, and of
\* those that it adds.
Added(a, c, s, e, m, new, r, u, k) ==
    /\ InOrder(r, c, e) /\ m \in Nat /\ r = Answers(c) /\ k = Answers(c)' /\ u = Entries(new)
    /\ IsSeq(u) /\ Joined(k, r, u) /\ Len(u) = IF Refused(c, s) THEN m + 1 ELSE m
    /\ \A j \in 1..m : u[j].n = e + j /\ u[j].res # Invalid
    /\ \A j \in 1..m : e + j \in 1..Len(cmds[c]) /\ Cmd(c, e + j).op \in Commands
    /\ Refused(c, s) => /\ u[m + 1].n = e + m + 1 /\ u[m + 1].res = Invalid
                        /\ e + m + 1 \in 1..Len(cmds[c]) /\ Cmd(c, e + m + 1) = Bad
    /\ m > 0 => Len(r) = e

LEMMA AddedIs ==
    ASSUME ServerInv, AnswersInv,
           NEW a, NEW c, NEW s, NEW e, NEW k, NEW m, NEW new, NEW f, Receipt(a, c, s, e, k, m, new, f)
    PROVE  \E r, u, v : Added(a, c, s, e, m, new, r, u, v)
  <1>1. /\ a \in Live /\ c = Fd(a) /\ c \in Client /\ e \in Nat /\ m \in Nat
        /\ Base(a) = 2 * e /\ Handled(a, c, s, e, k, m, new)
        /\ Both(Answers(c)', Answers(c), Entries(new))
        /\ IsSeq(f[m].ops) /\ Len(f[m].ops) = m
        /\ new = IF Refused(c, s) THEN Append(f[m].ops, SendOp(a, s[2 * m + 1], Invalid))
                 ELSE f[m].ops
    BY DEF Receipt
  <1>2. PICK r, u, v : r = Answers(c) /\ u = Entries(new) /\ v = Answers(c)'
    OBVIOUS
  <1>3. InOrder(r, c, e)
    <2>1. PICK d : Base(a) = 2 * d /\ InOrder(r, c, d)
      BY <1>1, <1>2 DEF AnswersInv
    <2>2. d = e
      <3>1. d \in Nat
        BY <2>1 DEF InOrder
      <3> QED
        BY <1>1, <2>1, <3>1
    <2> QED
      BY <2>1, <2>2
  <1>4. /\ IsSeq(new) /\ \A j \in 1..m : new[j].n = e + j /\ new[j].res # Invalid
        /\ Split(c, s, e, m)
    BY <1>1 DEF Handled
  <1>5. Refused(c, s) => /\ Len(new) = m + 1 /\ new[m + 1].n = e + m + 1 /\ new[m + 1].res = Invalid
                         /\ e + m + 1 \in 1..Len(cmds[c]) /\ Cmd(c, e + m + 1) = Bad
    <2> SUFFICES ASSUME Refused(c, s)
                 PROVE  /\ Len(new) = m + 1 /\ new[m + 1].n = e + m + 1 /\ new[m + 1].res = Invalid
                        /\ e + m + 1 \in 1..Len(cmds[c]) /\ Cmd(c, e + m + 1) = Bad
      OBVIOUS
    <2>1. /\ s[2 * m + 1] = e + m + 1
          /\ e + m + 1 \in 1..Len(cmds[c]) /\ Cmd(c, e + m + 1) = Bad
      BY <1>4 DEF Split
    <2>2. PICK p, op : p = f[m].ops /\ op = SendOp(a, s[2 * m + 1], Invalid)
      OBVIOUS
    <2>3. new = Append(p, op) /\ IsSeq(p) /\ Len(p) = m
      BY <1>1, <2>2
    <2>4. Len(new) = m + 1 /\ new[m + 1] = op
      BY <2>3, AppendSeq
    <2>5. op.n = e + m + 1 /\ op.res = Invalid
      BY <2>1, <2>2 DEF SendOp
    <2> QED
      BY <2>1, <2>4, <2>5
  <1>6. Len(new) = IF Refused(c, s) THEN m + 1 ELSE m
    BY <1>1, <1>5
  <1>7. IsSeq(u) /\ Len(u) = Len(new) /\ \A j \in 1..Len(new) : u[j] = Entry(new[j])
    BY <1>2, <1>4, EntriesShape
  <1>8. \A j \in 1..Len(new) : u[j].n = new[j].n /\ u[j].res = new[j].res
    <2> SUFFICES ASSUME NEW j \in 1..Len(new)
                 PROVE  u[j].n = new[j].n /\ u[j].res = new[j].res
      OBVIOUS
    <2>1. Entry(new[j]).n = new[j].n /\ Entry(new[j]).res = new[j].res
      BY DEF Entry
    <2> QED
      BY <1>7, <2>1
  <1>9. \A j \in 1..m : u[j].n = e + j /\ u[j].res # Invalid
    <2>1. \A j \in 1..m : j \in 1..Len(new)
      BY <1>1, <1>6
    <2> QED
      BY <1>4, <1>8, <2>1
  <1>10. Refused(c, s) => u[m + 1].n = e + m + 1 /\ u[m + 1].res = Invalid
    <2>1. Refused(c, s) => m + 1 \in 1..Len(new)
      BY <1>1, <1>6
    <2> QED
      BY <1>5, <1>8, <2>1
  <1>11. \A j \in 1..m : e + j \in 1..Len(cmds[c]) /\ Cmd(c, e + j).op \in Commands
    BY <1>4 DEF Split
  <1>12. Joined(v, r, u)
    BY <1>1, <1>2, <1>3, <1>7, ConcatIs DEF Both, InOrder
  <1>13. m > 0 => Len(r) = e
    <2> SUFFICES ASSUME m > 0, Len(r) # e PROVE FALSE
      OBVIOUS
    <2>1. e < Len(r)
      BY <1>1, <1>3 DEF InOrder
    <2>2. Cmd(c, e + 1) = Bad
      BY <1>3, <2>1 DEF InOrder
    <2>3. 1 \in 1..m
      BY <1>1
    <2>4. Bad.op \in Commands
      BY <1>11, <2>2, <2>3
    <2> QED
      BY <2>4 DEF Bad, Commands
  <1> HIDE DEF Refused
  <1>14. Added(a, c, s, e, m, new, r, u, v)
    BY <1>1, <1>2, <1>3, <1>5, <1>6, <1>7, <1>9, <1>10, <1>11, <1>12, <1>13 DEF Added
  <1> QED
    BY <1>14

LEMMA AddedInOrder ==
    ASSUME NEW a, NEW c, NEW s, NEW e, NEW m, NEW new, NEW r, NEW u, NEW k,
           Added(a, c, s, e, m, new, r, u, k)
    PROVE  InOrder(k, c, e + m)
  <1>1. /\ e \in Nat /\ m \in Nat /\ IsSeq(r) /\ Len(r) \in Nat /\ e <= Len(r)
        /\ \A j \in 1..e : r[j].n = j /\ r[j].res # Invalid
        /\ \A j \in (e + 1)..Len(r) : r[j].n = e + 1 /\ r[j].res = Invalid
        /\ e < Len(r) => e + 1 \in 1..Len(cmds[c]) /\ Cmd(c, e + 1) = Bad
    BY DEF Added, InOrder
  <1>2. /\ IsSeq(u) /\ Joined(k, r, u) /\ Len(u) \in {m, m + 1}
        /\ Len(u) = m + 1 => /\ u[m + 1].n = e + m + 1 /\ u[m + 1].res = Invalid
                             /\ e + m + 1 \in 1..Len(cmds[c]) /\ Cmd(c, e + m + 1) = Bad
        /\ \A j \in 1..m : u[j].n = e + j /\ u[j].res # Invalid
        /\ m > 0 => Len(r) = e
    BY <1>1 DEF Added
  <1>3. /\ IsSeq(k) /\ Len(k) = Len(r) + Len(u) /\ Len(k) \in Nat
        /\ \A i \in 1..Len(r) : k[i] = r[i]
        /\ \A i \in 1..Len(u) : k[Len(r) + i] = u[i]
    BY <1>1, <1>2 DEF Joined
  <1>4. CASE m = 0
    <2>1. e + m = e /\ Len(u) \in {0, 1} /\ e <= Len(k)
      BY <1>1, <1>2, <1>3, <1>4
    <2>2. \A j \in 1..e : k[j].n = j /\ k[j].res # Invalid
      BY <1>1, <1>3
    <2>3. ASSUME NEW j \in (e + 1)..Len(k) PROVE k[j].n = e + 1 /\ k[j].res = Invalid
      <3>1. CASE j <= Len(r)
        <4>1. j \in 1..Len(r) /\ j \in (e + 1)..Len(r)
          BY <1>1, <3>1
        <4> QED
          BY <1>1, <1>3, <4>1
      <3>2. CASE j > Len(r)
        <4>1. Len(u) = 1 /\ j = Len(r) + 1 /\ 1 \in 1..Len(u)
          BY <1>1, <1>3, <2>1, <3>2
        <4>2. k[j] = u[1] /\ u[1].n = e + 1 /\ u[1].res = Invalid
          BY <1>1, <1>2, <1>3, <1>4, <4>1
        <4> QED
          BY <4>2
      <3> QED
        BY <1>1, <3>1, <3>2
    <2>4. e < Len(k) => e + 1 \in 1..Len(cmds[c]) /\ Cmd(c, e + 1) = Bad
      <3>1. CASE e < Len(r)
        BY <1>1, <3>1
      <3>2. CASE ~(e < Len(r))
        <4>1. e < Len(k) => Len(u) = m + 1 /\ e + m + 1 = e + 1
          BY <1>1, <1>3, <1>4, <2>1, <3>2
        <4> QED
          BY <1>2, <4>1
      <3> QED
        BY <3>1, <3>2
    <2>5. InOrder(k, c, e)
      <3>1. e \in Nat
        BY <1>1
      <3>2. IsSeq(k) /\ Len(k) \in Nat /\ e <= Len(k)
        BY <1>3, <2>1
      <3> QED
        BY <2>2, <2>3, <2>4, <3>1, <3>2 DEF InOrder
    <2> QED
      BY <2>1, <2>5
  <1>5. CASE m # 0
    <2>1. Len(r) = e /\ e + m \in Nat /\ e + m <= Len(k) /\ Len(k) \in {e + m, e + m + 1}
      <3>1. PICK x, y, z : x = Len(r) /\ y = Len(u) /\ z = Len(k)
        OBVIOUS
      <3>2. e \in Nat /\ m \in Nat /\ x = e /\ y \in {m, m + 1} /\ z = x + y
        BY <1>1, <1>2, <1>3, <1>5, <3>1
      <3>3. x = e /\ e + m \in Nat /\ e + m <= z /\ z \in {e + m, e + m + 1}
        BY <3>2
      <3> QED
        BY <3>1, <3>3
    <2>2. ASSUME NEW j \in 1..(e + m) PROVE k[j].n = j /\ k[j].res # Invalid
      <3>1. CASE j <= e
        <4>1. j \in 1..e /\ j \in 1..Len(r)
          BY <1>1, <2>1, <3>1
        <4> QED
          BY <1>1, <1>3, <4>1
      <3>2. CASE j > e
        <4>1. j - e \in 1..m /\ j - e \in 1..Len(u) /\ Len(r) + (j - e) = j /\ e + (j - e) = j
          BY <1>1, <1>2, <2>1, <3>2
        <4>2. k[j] = u[j - e]
          BY <1>3, <4>1
        <4>3. u[j - e].n = e + (j - e) /\ u[j - e].res # Invalid
          BY <1>2, <4>1
        <4> QED
          BY <4>1, <4>2, <4>3
      <3> QED
        BY <1>1, <3>1, <3>2
    <2>3. Len(k) = e + m + 1 => /\ Len(u) = m + 1 /\ k[e + m + 1] = u[m + 1]
      <3>1. Len(k) = e + m + 1 => Len(u) = m + 1 /\ m + 1 \in 1..Len(u) /\ Len(r) + (m + 1) = e + m + 1
        BY <1>1, <1>2, <1>3, <2>1
      <3> QED
        BY <1>3, <3>1
    <2>4. ASSUME NEW j \in (e + m + 1)..Len(k)
          PROVE  k[j].n = e + m + 1 /\ k[j].res = Invalid
      <3>1. j = e + m + 1 /\ Len(k) = e + m + 1
        BY <1>1, <2>1
      <3> QED
        BY <1>2, <2>3, <3>1
    <2>5. e + m < Len(k) => e + m + 1 \in 1..Len(cmds[c]) /\ Cmd(c, e + m + 1) = Bad
      <3>1. e + m < Len(k) => Len(k) = e + m + 1
        BY <1>1, <2>1
      <3> QED
        BY <1>2, <2>3, <3>1
    <2> QED
      BY <1>3, <2>1, <2>2, <2>4, <2>5 DEF InOrder
  <1> QED
    BY <1>4, <1>5

LEMMA NextIs ==
    ASSUME NEW c \in Client, NEW e, InOrder(Answers(c), c, e)
    PROVE  SV!Next1(c) = e + 1
  <1> DEFINE As == [d \in Client |-> Answers(d)]
             r == Answers(c)
  <1>1. /\ e \in Nat /\ Len(r) \in Nat /\ e <= Len(r)
        /\ \A j \in 1..e : r[j].res # Invalid
        /\ \A j \in (e + 1)..Len(r) : r[j].n = e + 1 /\ r[j].res = Invalid
    BY DEF InOrder
  <1>2. As[c] = r
    OBVIOUS
  <1>3. SV!Refused(c) <=> \E j \in 1..Len(r) : r[j].res = Invalid
    <2>1. SV!Invalid = Invalid
      BY DEF SV!Invalid, Invalid
    <2> QED
      BY <2>1 DEF SV!Refused
  <1>4. SV!Next1(c) = IF SV!Refused(c) THEN r[Len(r)].n ELSE Len(r) + 1
    BY DEF SV!Next1
  <1> HIDE DEF As, r
  <1>5. CASE e = Len(r)
    BY <1>1, <1>3, <1>4, <1>5
  <1>6. CASE e # Len(r)
    <2>1. Len(r) \in (e + 1)..Len(r) /\ Len(r) \in 1..Len(r)
      BY <1>1, <1>6
    <2>2. r[Len(r)].n = e + 1 /\ r[Len(r)].res = Invalid
      BY <1>1, <2>1
    <2> QED
      BY <1>3, <1>4, <2>1, <2>2
  <1> QED
    BY <1>5, <1>6

\* What Service asks of the step, in the words of Server.
LEMMA ServeIs ==
    ASSUME NEW c \in Client, NEW m \in 0..MaxCmds, NEW n, n = SV!Next1(c),
           n + m - 1 <= sent[c] \div 2,
           \A j \in n..(n + m - 1) : Bare(cmds[c])[j] # Bad,
           db' = SV!After(c, n, m).db,
           LET As == [d \in Client |-> Answers(d)]
           IN \/ m > 0 /\ As' = [As EXCEPT ![c] = @ \o SV!After(c, n, m).seq]
              \/ /\ n + m <= Len(Bare(cmds[c])) /\ Bare(cmds[c])[n + m] = Bad
                 /\ As' = [As EXCEPT ![c] = @ \o SV!After(c, n, m).seq
                                              \o <<[n |-> n + m, res |-> Invalid]>>],
           UNCHANGED <<cmds, sent>>
    PROVE  SV!Serve(c)
  <1> DEFINE Cs == [d \in Client |-> [j \in 1..Len(cmds[d]) |-> cmds[d][j].cmd]]
             Ws == [d \in Client |-> sent[d] \div 2]
             As == [d \in Client |-> Answers(d)]
             after == SV!After(c, n, m)
  <1>1. Cs[c] = Bare(cmds[c]) /\ Ws[c] = sent[c] \div 2
    BY DEF Bare
  <1>2. SV!Bad = Bad /\ SV!Answer(n + m, SV!Invalid) = [n |-> n + m, res |-> Invalid]
    BY DEF SV!Bad, Bad, SV!Answer, SV!Invalid, Invalid
  <1>3. n + m - 1 <= Ws[c] /\ \A j \in n..(n + m - 1) : Cs[c][j] # SV!Bad
    BY <1>1, <1>2
  <1>4. \/ m > 0 /\ As' = [As EXCEPT ![c] = @ \o after.seq]
        \/ /\ n + m <= Len(Cs[c]) /\ Cs[c][n + m] = SV!Bad
           /\ As' = [As EXCEPT ![c] = @ \o after.seq \o <<SV!Answer(n + m, SV!Invalid)>>]
    <2> HIDE DEF after
    <2>1. \/ m > 0 /\ As' = [As EXCEPT ![c] = @ \o after.seq]
          \/ /\ n + m <= Len(Bare(cmds[c])) /\ Bare(cmds[c])[n + m] = Bad
             /\ As' = [As EXCEPT ![c] = @ \o after.seq \o <<[n |-> n + m, res |-> Invalid]>>]
      BY DEF after
    <2> HIDE DEF As, Cs
    <2> QED
      BY <1>1, <1>2, <2>1
  <1>5. UNCHANGED <<Cs, Ws>>
    OBVIOUS
  <1> QED
    BY <1>3, <1>4, <1>5 DEF SV!Serve

\* The step of Service for a receipt that brought something to answer.
LEMMA ReceiptServes ==
    ASSUME ClientInv,
           NEW a, NEW c, NEW s, NEW e, NEW k, NEW m, NEW new, NEW f, Receipt(a, c, s, e, k, m, new, f),
           NEW r, NEW u, NEW v, Added(a, c, s, e, m, new, r, u, v), m > 0 \/ Refused(c, s)
    PROVE  SV!Serve(c)
  <1> DEFINE As == [d \in Client |-> Answers(d)]
             after == SV!After(c, e + 1, m)
             n == e + 1
             last == [n |-> n + m, res |-> Invalid]
  <1> HIDE DEF Refused
  <1>1. /\ a \in Live /\ c \in Client /\ e \in Nat /\ m \in Nat
        /\ Handled(a, c, s, e, k, m, new) /\ IsTurn(f, a, c, s, m) /\ db' = f[m].db
        /\ new = IF Refused(c, s) THEN Append(f[m].ops, SendOp(a, s[2 * m + 1], Invalid))
                 ELSE f[m].ops
        /\ IsSeq(f[m].ops) /\ Len(f[m].ops) = m
        /\ Both(Answers(c)', Answers(c), Entries(new))
        /\ \A d \in Client : d # c => Answers(d)' = Answers(d)
        /\ UNCHANGED <<cmds, sent>>
    BY DEF Receipt
  <1>2. Taken(a, c, s, e, k) /\ Split(c, s, e, m)
    BY <1>1 DEF Handled
  <1>3. after.db = f[m].db /\ after.seq = Entries(f[m].ops)
    BY <1>1, <1>2, AfterIs
  <1>4. InOrder(Answers(c), c, e) /\ IsSeq(Answers(c))
    BY DEF Added, InOrder
  <1>5. n = SV!Next1(c)
    BY <1>1, <1>4, NextIs
  <1>6. /\ IsSeq(cmds[c]) /\ Len(cmds[c]) \in Nat /\ Len(cmds[c]) <= MaxCmds /\ MaxCmds \in Nat
        /\ sent[c] \in Nat
    <2>1. Len(Menu[c]) \in Nat /\ Len(Menu[c]) <= MaxCmds /\ Len(cmds[c]) <= Len(Menu[c])
      BY <1>1, MenuShape DEF ClientInv
    <2> QED
      BY <1>1, <2>1, ClientShape, BoundAssumption
  <1>7. m \in 0..MaxCmds
    <2>1. CASE m = 0
      BY <1>6, <2>1
    <2>2. CASE m # 0
      <3>1. m \in 1..m
        BY <1>1, <2>2
      <3>2. e + m \in 1..Len(cmds[c])
        BY <3>1 DEF Added
      <3> QED
        BY <1>1, <1>6, <3>2
    <2> QED
      BY <2>1, <2>2
  <1>8. n + m - 1 <= sent[c] \div 2
    <2>1. PICK x, y, z : x = Len(s) /\ y = sent[c] /\ z = Len(to_server[c])
      OBVIOUS
    <2>2. /\ x \in Nat /\ z \in Nat /\ y \in Nat /\ 2 * m <= x /\ k \in 0..z
          /\ 2 * e + x = y - (z - k)
      BY <1>1, <1>2, <1>6, <2>1, ClientShape DEF Taken, Split
    <2>3. 2 * (e + m) <= y
      BY <1>1, <2>2
    <2>4. e + m <= y \div 2
      BY <1>1, <2>2, <2>3
    <2> QED
      BY <1>1, <2>1, <2>4
  <1>9. /\ IsSeq(Bare(cmds[c])) /\ Len(Bare(cmds[c])) = Len(cmds[c])
        /\ \A j \in 1..Len(cmds[c]) : Bare(cmds[c])[j] = Cmd(c, j)
    BY <1>6, BareShape DEF Cmd
  <1>10. \A j \in n..(n + m - 1) : Bare(cmds[c])[j] # Bad
    <2> SUFFICES ASSUME NEW j \in n..(n + m - 1) PROVE Bare(cmds[c])[j] # Bad
      OBVIOUS
    <2>1. j - e \in 1..m /\ e + (j - e) = j
      BY <1>1
    <2>2. j \in 1..Len(cmds[c]) /\ Cmd(c, j).op \in Commands
      BY <2>1 DEF Added
    <2>3. Cmd(c, j) # Bad
      BY <2>2 DEF Bad, Commands
    <2> QED
      BY <1>9, <2>2, <2>3
  <1>11. ASSUME NEW w, Both(Answers(c)', Answers(c), w)
         PROVE  As' = [As EXCEPT ![c] = @ \o w]
    BY <1>1, <1>11 DEF Both
  <1>12. CASE ~Refused(c, s)
    <2>1. As' = [As EXCEPT ![c] = @ \o after.seq]
      <3>1. Both(Answers(c)', Answers(c), after.seq)
        BY <1>1, <1>3, <1>12
      <3> HIDE DEF As, after
      <3> QED
        BY <1>11, <3>1
    <2>2. m > 0
      BY <1>12
    <2> QED
      BY <1>1, <1>3, <1>5, <1>7, <1>8, <1>10, <2>1, <2>2, ServeIs
  <1>13. CASE Refused(c, s)
    <2>1. n + m <= Len(Bare(cmds[c])) /\ Bare(cmds[c])[n + m] = Bad
      <3>1. e + m + 1 \in 1..Len(cmds[c]) /\ Cmd(c, e + m + 1) = Bad /\ n + m = e + m + 1
        BY <1>1, <1>13 DEF Added
      <3> QED
        BY <1>6, <1>9, <3>1
    <2>2. Both(Entries(new), after.seq, <<last>>)
      <3>1. PICK p, op : p = f[m].ops /\ op = SendOp(a, s[2 * m + 1], Invalid)
        OBVIOUS
      <3>2. new = Append(p, op) /\ IsSeq(p)
        BY <1>1, <1>13, <3>1
      <3>3. Entries(new) = Append(Entries(p), Entry(op)) /\ IsSeq(Entries(p))
        BY <3>2, EntriesAppend, EntriesShape
      <3>4. Append(Entries(p), Entry(op)) = Entries(p) \o <<Entry(op)>>
        BY <3>3, AppendSeq
      <3>5. s[2 * m + 1] = e + m + 1 /\ n + m = e + m + 1
        BY <1>1, <1>2, <1>13 DEF Split
      <3>6. Entry(op) = last
        BY <3>1, <3>5 DEF Entry, SendOp
      <3> HIDE DEF last, after
      <3> QED
        BY <1>3, <3>1, <3>3, <3>4, <3>6 DEF Both
    <2>3. (Answers(c) \o after.seq) \o <<last>> = Answers(c)'
      <3>1. IsSeq(after.seq)
        BY <1>1, <1>3, EntriesShape
      <3>2. PICK z, x, y, w : z = <<last>> /\ x = after.seq /\ y = Answers(c) /\ w = Entries(new)
        OBVIOUS
      <3>3. IsSeq(z)
        BY <3>2, OneSeq
      <3> HIDE DEF last, after
      <3>4. Entries(new) = x \o z
        BY <2>2, <3>2 DEF Both
      <3>5. IsSeq(y) /\ IsSeq(x) /\ w = x \o z
        BY <1>4, <3>1, <3>2, <3>4
      <3>6. (y \o x) \o z = y \o w
        BY <3>3, <3>5, Regroup
      <3>7. (Answers(c) \o x) \o z = Answers(c) \o Entries(new)
        BY <3>2, <3>6
      <3> QED
        BY <1>1, <3>2, <3>7 DEF Both
    <2>4. As' = [As EXCEPT ![c] = @ \o after.seq \o <<last>>]
      <3> HIDE DEF last, after
      <3>1. \A d \in Client : d # c => Answers(d)' = Answers(d)
        BY <1>1
      <3> QED
        BY <1>1, <2>3, <3>1
    <2> QED
      BY <1>1, <1>3, <1>5, <1>7, <1>8, <1>10, <2>1, <2>4, ServeIs
  <1> QED
    BY <1>12, <1>13

LEMMA ReceiveRefines ==
    ASSUME ServerInv, AnswersInv, RecvStep, NEW a, a = recv_copy[First(ReadyRecvs)],
           to_server[Fd(a)] # <<>>
    PROVE  AnswersInv' /\ ((\E c \in Client : SV!Serve(c)) \/ UNCHANGED SV!vars)
  <1>1. BaseInv /\ ClientInv /\ ListInv
    BY DEF ServerInv, BaseInv
  <1>2. PICK c, s, e, k, m, new, f : Receipt(a, c, s, e, k, m, new, f)
    BY ReceiptIs
  <1>3. PICK r, u, v : Added(a, c, s, e, m, new, r, u, v)
    BY <1>2, AddedIs
  <1>4. /\ a \in Live /\ c = Fd(a) /\ c \in Client /\ e \in Nat /\ m \in Nat
        /\ IsTurn(f, a, c, s, m) /\ db' = f[m].db
        /\ Base(a)' = 2 * (e + m) /\ \A b \in Live : b # a => Base(b)' = Base(b)
        /\ Live' = Live /\ \A b \in Live : Fd(b)' = Fd(b)
        /\ \A d \in Client : d # c => Answers(d)' = Answers(d)
        /\ UNCHANGED <<cmds, sent>>
    BY <1>2 DEF Receipt
  <1>5. AnswersInv'
    <2>1. InOrder(v, c, e + m) /\ v = Answers(c)'
      BY <1>3, AddedInOrder DEF Added
    <2>2. InOrder(Answers(c), c, e + m)'
      BY <1>4, <2>1 DEF InOrder, Cmd
    <2>3. ASSUME NEW b \in Live PROVE \E x : Base(b)' = 2 * x /\ InOrder(Answers(Fd(b)), Fd(b), x)'
      <3>1. CASE b = a
        <4>1. Fd(b)' = c
          BY <1>4, <3>1
        <4> QED
          BY <1>4, <2>2, <3>1, <4>1
      <3>2. CASE b # a
        <4>1. Fd(b) \in Client /\ Fd(b) # c
          BY <1>1, <1>4, <3>2, LiveNode DEF ListInv
        <4> QED
          BY <1>1, <1>4, <3>2, <4>1, InOrderStays
      <3> QED
        BY <3>1, <3>2
    <2> QED
      BY <1>4, <2>3 DEF AnswersInv
  <1>6. CASE m > 0 \/ Refused(c, s)
    BY <1>1, <1>2, <1>3, <1>4, <1>5, <1>6, ReceiptServes
  <1>7. CASE ~(m > 0 \/ Refused(c, s))
    <2>1. m = 0 /\ ~Refused(c, s)
      BY <1>4, <1>7
    <2>2. UNCHANGED db
      <3>1. m \in Nat /\ IsTurn(f, a, c, s, m)
        BY <1>4
      <3>2. f[0].db = db
        BY <3>1, OpsRun
      <3> QED
        BY <1>4, <2>1, <3>2
    <2>3. Answers(c)' = Answers(c)
      <3>1. v = Answers(c)' /\ r = Answers(c) /\ Joined(v, r, u) /\ Len(u) = 0 /\ IsSeq(r)
        BY <1>3, <2>1 DEF Added, InOrder
      <3>2. IsSeq(v) /\ Len(v) = Len(r) /\ \A i \in 1..Len(v) : v[i] = r[i]
        BY <3>1 DEF Joined
      <3> QED
        BY <3>1, <3>2, SameSeq
    <2>4. \A d \in Client : Answers(d)' = Answers(d)
      BY <1>4, <2>3
    <2> QED
      BY <1>4, <1>5, <2>2, <2>4, Unseen
  <1> QED
    BY <1>6, <1>7

-----------------------------------------------------------------------------
LEMMA InitRefines ==
    ASSUME Init
    PROVE  AnswersInv /\ SV!Init
  <1>1. BaseInv
    BY InitServer DEF ServerInv
  <1>2. Live = {}
    BY DEF Init, Live, Range
  <1>3. AnswersInv
    BY <1>2 DEF AnswersInv
  <1>4. ASSUME NEW c \in Client PROVE Answers(c) = <<>> /\ Bare(cmds[c]) = <<>> /\ sent[c] \div 2 = 0
    <2>1. /\ got[c] = <<>> /\ to_client[c] = <<>> /\ send_copy = <<>> /\ m_send = <<>>
          /\ cmds[c] = <<>> /\ sent[c] = 0
      BY DEF Init
    <2>2. PICK q, H : q = send_copy /\ H = handler
      OBVIOUS
    <2>3. Picks(<<>>, handler, c) = <<>>
      <3>1. IsSeq(q) /\ \A i \in 1..Len(q) : H[q[i].addr].fd # c
        BY <2>1, <2>2, EmptyShape
      <3>2. Picks(q, H, c) = <<>>
        BY <3>1, PickNone
      <3> QED
        BY <2>1, <2>2, <3>2
    <2>4. <<>> \o <<>> = <<>>
      BY ConcatEmpty, EmptyShape
    <2>5. Answers(c) = <<>>
      BY <2>1, <2>3, <2>4, AnswersArePicks
    <2>6. Bare(cmds[c]) = <<>>
      BY <2>1 DEF Bare
    <2> QED
      BY <2>1, <2>5, <2>6
  <1>5. SV!Init
    <2>1. db = InitDb
      BY DEF Init
    <2>2. [c \in Client |-> Bare(cmds[c])] = [c \in Client |-> <<>>]
      BY <1>4
    <2>3. [c \in Client |-> sent[c] \div 2] = [c \in Client |-> 0]
      BY <1>4
    <2>4. [c \in Client |-> Answers(c)] = [c \in Client |-> <<>>]
      BY <1>4
    <2> QED
      BY <2>1, <2>2, <2>3, <2>4 DEF SV!Init, Bare
  <1> QED
    BY <1>3, <1>5


LEMMA StepRefines ==
    ASSUME ServerInv, AnswersInv, [Next]_vars
    PROVE  AnswersInv' /\ (SV!Next \/ UNCHANGED SV!vars)
  <1>1. CASE \E c \in Client : Connect(c)
    BY <1>1, ConnectIsQuiet
  <1>2. ASSUME NEW c \in Client, Send(c)
        PROVE  AnswersInv' /\ SV!Next
    <2>1. AnswersInv' /\ (SV!Begin(c) \/ SV!Finish(c))
      BY <1>2, SendRefines
    <2> QED
      BY <2>1 DEF SV!Next
  <1>3. CASE \E c \in Client : Read(c)
    BY <1>3, ReadIsQuiet
  <1>4. CASE \E c \in Client : Leave(c)
    BY <1>4, LeaveIsQuiet
  <1>5. CASE Select
    BY <1>5, SelectIsQuiet
  <1>6. CASE RecvStep
    <2>1. PICK a : a = recv_copy[First(ReadyRecvs)]
      OBVIOUS
    <2>2. CASE to_server[Fd(a)] = <<>>
      BY <1>6, <2>1, <2>2, CloseIsQuiet
    <2>3. CASE to_server[Fd(a)] # <<>>
      <3>1. AnswersInv' /\ ((\E c \in Client : SV!Serve(c)) \/ UNCHANGED SV!vars)
        BY <1>6, <2>1, <2>3, ReceiveRefines
      <3> QED
        BY <3>1 DEF SV!Next
    <2> QED
      BY <2>2, <2>3
  <1>7. CASE SendStep
    BY <1>7, SendStepIsQuiet
  <1>8. CASE AcceptStep
    BY <1>8, AcceptIsQuiet
  <1>9. CASE Merge
    BY <1>9, MergeIsQuiet
  <1>10. CASE UNCHANGED vars
    <2>1. BaseInv'
      BY <1>10, BaseStep DEF ServerInv
    <2>2. UNCHANGED <<client_vars, network, server_vars>> /\ Sends' = Sends
      BY <1>10 DEF vars, loop_vars, queued, current, Sends
    <2> QED
      BY <2>1, <2>2, TurnIsQuiet
  <1> QED
    BY <1>1, <1>2, <1>3, <1>4, <1>5, <1>6, <1>7, <1>8, <1>9, <1>10 DEF Next

-----------------------------------------------------------------------------
(* Whatever sockets, buffers and queues do in between, each client's        *)
(* commands are executed in the order they were sent, each exactly once,    *)
(* and answered in that order (client_handler.cpp:48-172, by the loop of    *)
(* context.cpp and the list of server.cpp): the server implements Service,  *)
(* when clients connect and leave as Orderly says.                          *)
THEOREM Serves == Orderly /\ Spec => ImplementsService
  <1>1. Init => AnswersInv /\ SV!Init
    BY InitRefines
  <1> QED
    <2> SUFFICES ASSUME Orderly PROVE Spec => ImplementsService
      OBVIOUS
    <2>1. Spec => []ServerInv
      BY ServerInvariant
    <2>2. ServerInv /\ AnswersInv /\ [Next]_vars => AnswersInv' /\ [SV!Next]_(SV!vars)
      BY StepRefines
    <2> QED
      BY <1>1, <2>1, <2>2, PTL DEF Spec, ImplementsService, SV!Spec

-----------------------------------------------------------------------------
(* What commands do to documents that were put.                             *)

Stored(d, x) ==
    x.coll_name \in DOMAIN d.colls /\ x.key \in DOMAIN d.colls[x.coll_name].docs

\* The document that x names is stored, and is one that clients put.
Holds(d, x) == Stored(d, x) /\ \E put \in Offered : IsPut(put, x)

\* The databases that a command can lead to: d itself, one with other
\* schemas, with another collection or with other documents in one.
Remade(d, e, name, coll) ==
    /\ IsDb(e) /\ DOMAIN e.colls = DOMAIN d.colls \cup {name} /\ e.colls[name] = coll
    /\ \A n \in DOMAIN d.colls : n # name => e.colls[n] = d.colls[n]

LEMMA RemadeIs ==
    ASSUME NEW d, IsDb(d), NEW name, NEW coll, DOMAIN coll = {"schema", "docs"},
           NEW e, e = [d EXCEPT !.colls = Assign(@, name, coll)]
    PROVE  Remade(d, e, name, coll)
  <1>1. PICK g : g = Assign(d.colls, name, coll)
    OBVIOUS
  <1>2. /\ DOMAIN g = DOMAIN d.colls \cup {name} /\ g[name] = coll
        /\ \A z \in DOMAIN d.colls : z # name => g[z] = d.colls[z]
    BY <1>1 DEF Assign
  <1>3. e.colls = g /\ DOMAIN e = {"schemas", "colls"}
    BY <1>1 DEF IsDb
  <1> QED
    BY <1>2, <1>3 DEF Remade, IsDb

LEMMA DocsRemade ==
    ASSUME NEW d, IsDb(d), NEW name \in DOMAIN d.colls, NEW docs, NEW e, e = WithDocs(d, name, docs)
    PROVE  \E coll : Remade(d, e, name, coll) /\ coll.docs = docs
  <1>1. PICK coll : coll = [d.colls[name] EXCEPT !.docs = docs]
    OBVIOUS
  <1>2. DOMAIN coll = {"schema", "docs"} /\ coll.docs = docs
    BY <1>1 DEF IsDb
  <1>3. e = [d EXCEPT !.colls = Assign(@, name, coll)]
    BY <1>1 DEF WithDocs, IsDb
  <1> QED
    BY <1>2, <1>3, RemadeIs

LEMMA PutIs ==
    ASSUME NEW d, IsDb(d), NEW x, x.op = "Put", x.coll_name \in DOMAIN d.colls
    PROVE  \E coll : /\ Remade(d, Execute(d, x).db, x.coll_name, coll)
                     /\ DOMAIN coll.docs = DOMAIN d.colls[x.coll_name].docs \cup {x.key}
  <1>1. PICK docs : docs = Assign(d.colls[x.coll_name].docs, x.key, x.value)
    OBVIOUS
  <1>2. Execute(d, x).db = WithDocs(d, x.coll_name, docs)
    BY <1>1 DEF Execute, Put, Outcome
  <1>3. DOMAIN docs = DOMAIN d.colls[x.coll_name].docs \cup {x.key}
    BY <1>1 DEF Assign
  <1> QED
    BY <1>2, <1>3, DocsRemade

LEMMA DeleteIs ==
    ASSUME NEW d, IsDb(d), NEW x, x.op = "Delete", x.coll_name \in DOMAIN d.colls
    PROVE  \E coll : /\ Remade(d, Execute(d, x).db, x.coll_name, coll)
                     /\ DOMAIN coll.docs = DOMAIN d.colls[x.coll_name].docs \ {x.key}
  <1>1. PICK docs : docs = Erase(d.colls[x.coll_name].docs, x.key)
    OBVIOUS
  <1>2. Execute(d, x).db = WithDocs(d, x.coll_name, docs)
    BY <1>1 DEF Execute, Delete, Outcome
  <1>3. DOMAIN docs = DOMAIN d.colls[x.coll_name].docs \ {x.key}
    BY <1>1 DEF Erase
  <1> QED
    BY <1>2, <1>3, DocsRemade

LEMMA CreateIs ==
    ASSUME NEW d, IsDb(d), NEW x, x.op = "CreateCollection", x.schema_name \in DOMAIN d.schemas
    PROVE  \E coll : Remade(d, Execute(d, x).db, x.name, coll)
  <1>1. PICK coll : coll = [schema |-> d.schemas[x.schema_name], docs |-> EmptyMap]
    OBVIOUS
  <1>2. Execute(d, x).db = [d EXCEPT !.colls = Assign(@, x.name, coll)]
    BY <1>1 DEF Execute, CreateCollection, Outcome
  <1>3. DOMAIN coll = {"schema", "docs"}
    BY <1>1
  <1> QED
    BY <1>2, <1>3, RemadeIs

\* All other commands leave the collections alone.
LEMMA CollsStay ==
    ASSUME NEW d, IsDb(d), NEW x, x.op \in Commands,
           x.op \in {"Put", "Delete"} => x.coll_name \notin DOMAIN d.colls,
           x.op = "CreateCollection" => x.schema_name \notin DOMAIN d.schemas,
           NEW e, e = Execute(d, x).db
    PROVE  IsDb(e) /\ e.colls = d.colls
  <1>1. CASE x.op = "RegisterSchema"
    <2>1. e = [d EXCEPT !.schemas = Assign(@, x.name, x.schema)]
      BY <1>1 DEF Execute, RegisterSchema, Outcome
    <2>2. e.colls = d.colls /\ DOMAIN e = DOMAIN d
      BY <2>1 DEF IsDb
    <2> QED
      BY <2>2 DEF IsDb
  <1>2. CASE x.op # "RegisterSchema"
    <2>1. e = d
      BY <1>2 DEF Execute, CreateCollection, GetSchema, GetCollectionSchema, Get, Put, Delete,
                  Outcome, Commands
    <2> QED
      BY <2>1
  <1> QED
    BY <1>1, <1>2

LEMMA RemadeColls ==
    ASSUME NEW d, NEW e, NEW name, NEW coll, Remade(d, e, name, coll)
    PROVE  IsDb(e) /\ DOMAIN d.colls \subseteq DOMAIN e.colls
  BY DEF Remade

\* No collection ever disappears.
LEMMA CollsGrow ==
    ASSUME NEW d, IsDb(d), NEW x, x.op \in Commands, NEW e, e = Execute(d, x).db
    PROVE  IsDb(e) /\ DOMAIN d.colls \subseteq DOMAIN e.colls
  <1>1. CASE x.op = "Put" /\ x.coll_name \in DOMAIN d.colls
    <2>1. PICK coll : Remade(d, e, x.coll_name, coll)
      BY <1>1, PutIs
    <2> QED
      BY <2>1, RemadeColls
  <1>2. CASE x.op = "Delete" /\ x.coll_name \in DOMAIN d.colls
    <2>1. PICK coll : Remade(d, e, x.coll_name, coll)
      BY <1>2, DeleteIs
    <2> QED
      BY <2>1, RemadeColls
  <1>3. CASE x.op = "CreateCollection" /\ x.schema_name \in DOMAIN d.schemas
    <2>1. PICK coll : Remade(d, e, x.name, coll)
      BY <1>3, CreateIs
    <2> QED
      BY <2>1, RemadeColls
  <1>4. CASE /\ x.op \in {"Put", "Delete"} => x.coll_name \notin DOMAIN d.colls
             /\ x.op = "CreateCollection" => x.schema_name \notin DOMAIN d.schemas
    BY <1>4, CollsStay
  <1> QED
    BY <1>1, <1>2, <1>3, <1>4

\* A put is stored where its collection exists.
LEMMA PutHolds ==
    ASSUME NEW d, IsDb(d), NEW x \in Offered, x.op = "Put", x.coll_name \in DOMAIN d.colls,
           NEW e, e = Execute(d, x).db
    PROVE  Holds(e, x)
  <1>1. PICK coll : /\ Remade(d, e, x.coll_name, coll)
                    /\ DOMAIN coll.docs = DOMAIN d.colls[x.coll_name].docs \cup {x.key}
    BY PutIs
  <1>2. Stored(e, x)
    BY <1>1 DEF Stored, Remade
  <1>3. IsPut(x, x)
    BY DEF IsPut
  <1> QED
    BY <1>2, <1>3 DEF Holds

\* No command undoes a put.
LEMMA PutStays ==
    ASSUME PutsStay, NEW d, IsDb(d), NEW x \in Offered, x.op \in Commands,
           NEW y, Holds(d, y), NEW e, e = Execute(d, x).db
    PROVE  Holds(e, y)
  <1>1. PICK put \in Offered : IsPut(put, y)
    BY DEF Holds
  <1>2. y.coll_name \in DOMAIN d.colls /\ y.key \in DOMAIN d.colls[y.coll_name].docs
    BY DEF Holds, Stored
  <1>3. /\ x.op = "CreateCollection" => x.name # y.coll_name
        /\ x.op = "Delete" => x.coll_name # y.coll_name \/ x.key # y.key
    <2>1. put.op = "Put" /\ put.coll_name = y.coll_name /\ put.key = y.key
      BY <1>1 DEF IsPut
    <2> QED
      BY <1>1, <2>1 DEF PutsStay
  <1>4. Stored(e, y)
    <2>1. CASE x.op = "Put" /\ x.coll_name \in DOMAIN d.colls
      <3>1. PICK coll : /\ Remade(d, e, x.coll_name, coll)
                        /\ DOMAIN coll.docs = DOMAIN d.colls[x.coll_name].docs \cup {x.key}
        BY <2>1, PutIs
      <3> QED
        BY <1>2, <3>1 DEF Stored, Remade
    <2>2. CASE x.op = "Delete" /\ x.coll_name \in DOMAIN d.colls
      <3>1. PICK coll : /\ Remade(d, e, x.coll_name, coll)
                        /\ DOMAIN coll.docs = DOMAIN d.colls[x.coll_name].docs \ {x.key}
        BY <2>2, DeleteIs
      <3> QED
        BY <1>2, <1>3, <2>2, <3>1 DEF Stored, Remade
    <2>3. CASE x.op = "CreateCollection" /\ x.schema_name \in DOMAIN d.schemas
      <3>1. PICK coll : Remade(d, e, x.name, coll)
        BY <2>3, CreateIs
      <3> QED
        BY <1>2, <1>3, <2>3, <3>1 DEF Stored, Remade
    <2>4. CASE /\ x.op \in {"Put", "Delete"} => x.coll_name \notin DOMAIN d.colls
               /\ x.op = "CreateCollection" => x.schema_name \notin DOMAIN d.schemas
      <3>1. e.colls = d.colls
        BY <2>4, CollsStay
      <3> QED
        BY <1>2, <3>1 DEF Stored
    <2> QED
      BY <2>1, <2>2, <2>3, <2>4
  <1> QED
    BY <1>1, <1>4 DEF Holds

LEMMA GetFinds ==
    ASSUME NEW d, NEW x, x.op = "Get", Stored(d, x)
    PROVE  Execute(d, x).res.op = "Found"
  BY DEF Execute, Get, Outcome, Found, Stored

LEMMA SameDocument ==
    ASSUME NEW d, NEW put \in Offered, NEW get, IsPut(put, get), Holds(d, put)
    PROVE  Holds(d, get)
  BY DEF IsPut, Holds, Stored

-----------------------------------------------------------------------------
(* What clients were told of their puts is true of the database.            *)

\* A get that is to find something has its document stored, or a put of it
\* before it on the same connection.
Awaits(c, n, d) ==
    cmds[c][n].after =>
        /\ Cmd(c, n).op = "Get"
        /\ Holds(d, Cmd(c, n)) \/ \E l \in 1..(n - 1) : IsPut(Cmd(c, l), Cmd(c, n))
Told(c, x, d) ==
    /\ x.n \in 1..Len(cmds[c])
    /\ x.res # Invalid /\ Cmd(c, x.n).op = "Put" => Holds(d, Cmd(c, x.n))
    /\ cmds[c][x.n].after => x.res.op = "Found"
PutsInv ==
    /\ IsDb(db) /\ DOMAIN InitDb.colls \subseteq DOMAIN db.colls
    /\ \A c \in Client :
         /\ \A n \in 1..Len(cmds[c]) : Awaits(c, n, db)
         /\ \A j \in 1..Len(Answers(c)) : Told(c, Answers(c)[j], db)

LEMMA OfferedIs ==
    ASSUME ClientInv, NEW c \in Client, NEW n \in 1..Len(cmds[c])
    PROVE  Cmd(c, n) \in Offered
  <1>1. /\ cmds[c][n].cmd \in Menu[c][n]
        /\ IsSeq(cmds[c]) /\ Len(cmds[c]) <= Len(Menu[c])
    BY DEF ClientInv
  <1>2. Menu[c] \in Seq(Range(Menu[c]))
    BY MenuAssumption
  <1>3. n \in 1..Len(Menu[c])
    <2>1. Len(cmds[c]) \in Nat /\ Len(Menu[c]) \in Nat
      BY <1>1, <1>2, SeqShape
    <2> QED
      BY <1>1, <2>1
  <1>4. Menu[c][n] \in Range(Menu[c])
    BY <1>2, <1>3 DEF Range
  <1> QED
    BY <1>1, <1>4 DEF Offered, Cmd

\* The commands of one receive, one after the other: puts stay and are added,
\* and a get sees those before it.
Run(f, c, e, j) ==
    /\ IsDb(f[j].db) /\ DOMAIN InitDb.colls \subseteq DOMAIN f[j].db.colls
    /\ \A y : Holds(db, y) => Holds(f[j].db, y)
    /\ \A l \in 1..(e + j) : Cmd(c, l).op = "Put" => Holds(f[j].db, Cmd(c, l))
    /\ \A i \in 1..j : cmds[c][e + i].after => f[j].ops[i].res.op = "Found"

LEMMA GetSees ==
    ASSUME NEW d, NEW c, NEW n, Awaits(c, n, db), cmds[c][n].after,
           \A y : Holds(db, y) => Holds(d, y),
           \A l \in 1..(n - 1) : Cmd(c, l).op = "Put" => Holds(d, Cmd(c, l)),
           \A l \in 1..(n - 1) : Cmd(c, l) \in Offered
    PROVE  Execute(d, Cmd(c, n)).res.op = "Found"
  <1>1. Cmd(c, n).op = "Get"
    BY DEF Awaits
  <1>2. Holds(d, Cmd(c, n))
    <2>1. CASE Holds(db, Cmd(c, n))
      BY <2>1
    <2>2. CASE \E l \in 1..(n - 1) : IsPut(Cmd(c, l), Cmd(c, n))
      <3>1. PICK l \in 1..(n - 1) : IsPut(Cmd(c, l), Cmd(c, n))
        BY <2>2
      <3>2. Holds(d, Cmd(c, l)) /\ Cmd(c, l) \in Offered
        BY <3>1 DEF IsPut
      <3> QED
        BY <3>1, <3>2, SameDocument
    <2> QED
      BY <2>1, <2>2 DEF Awaits
  <1> QED
    BY <1>1, <1>2, GetFinds DEF Holds

LEMMA RunOne ==
    ASSUME ClientInv, PutsStay, PutsInv, NEW a, NEW c \in Client, NEW s, NEW e \in Nat, NEW m,
           Split(c, s, e, m), NEW f, IsTurn(f, a, c, s, m), NEW j \in 0..(m - 1), Run(f, c, e, j),
           \A l \in 1..e : l \in 1..Len(cmds[c])
    PROVE  Run(f, c, e, j + 1)
  <1>1. PICK n, x, d, o : n = e + (j + 1) /\ x = Cmd(c, n) /\ d = f[j].db /\ o = f[j].ops
    OBVIOUS
  <1>2. m \in Nat /\ j + 1 \in 1..m /\ j \in Nat
    BY DEF Split
  <1>3. s[2 * (j + 1)] = n /\ n \in 1..Len(cmds[c]) /\ x.op \in Commands
    BY <1>1, <1>2 DEF Split
  <1>4. x \in Offered
    BY <1>1, <1>3, OfferedIs
  <1>5. f[j + 1] = HandleOne(f[j], a, c, s, j + 1)
    BY <1>2, TurnSteps
  <1>6. PICK d1, r, op : /\ d1 = Execute(d, x).db /\ r = Execute(d, x).res /\ op = SendOp(a, n, r)
    OBVIOUS
  <1>7. f[j + 1].db = d1 /\ f[j + 1].ops = Append(o, op)
    BY <1>1, <1>3, <1>5, <1>6 DEF HandleOne
  <1>8. /\ IsDb(d) /\ DOMAIN InitDb.colls \subseteq DOMAIN d.colls
        /\ \A y : Holds(db, y) => Holds(d, y)
        /\ \A l \in 1..(e + j) : Cmd(c, l).op = "Put" => Holds(d, Cmd(c, l))
        /\ \A i \in 1..j : cmds[c][e + i].after => o[i].res.op = "Found"
    BY <1>1 DEF Run
  <1>9. IsDb(d1) /\ DOMAIN InitDb.colls \subseteq DOMAIN d1.colls
    BY <1>3, <1>6, <1>8, CollsGrow
  <1>10. \A y : Holds(d, y) => Holds(d1, y)
    BY <1>3, <1>4, <1>6, <1>8, PutStays
  <1>11. ASSUME NEW l \in 1..(e + (j + 1)), Cmd(c, l).op = "Put" PROVE Holds(d1, Cmd(c, l))
    <2>1. CASE l \in 1..(e + j)
      BY <1>8, <1>10, <1>11, <2>1
    <2>2. CASE l \notin 1..(e + j)
      <3>1. l = n
        BY <1>1, <1>2, <2>2
      <3>2. x.op = "Put"
        BY <1>1, <1>11, <3>1
      <3>3. x.coll_name \in DOMAIN d.colls
        BY <1>4, <1>8, <3>2 DEF PutsStay
      <3>4. Holds(d1, x)
        BY <1>4, <1>6, <1>8, <3>2, <3>3, PutHolds
      <3> QED
        BY <1>1, <3>1, <3>4
    <2> QED
      BY <2>1, <2>2
  <1>12. IsSeq(o) /\ Len(o) = j
    <2>1. \A i \in 0..m : IsSeq(f[i].ops) /\ Len(f[i].ops) = i
      BY <1>2, OpsRun
    <2>2. j \in 0..m
      BY <1>2
    <2> QED
      BY <1>1, <2>1, <2>2
  <1>13. \A i \in 1..j : Append(o, op)[i] = o[i]
    BY <1>12, AppendSeq
  <1>14. Append(o, op)[j + 1] = op
    BY <1>12, AppendSeq
  <1>15. cmds[c][n].after => r.op = "Found"
    <2> SUFFICES ASSUME cmds[c][n].after PROVE r.op = "Found"
      OBVIOUS
    <2>1. Awaits(c, n, db)
      BY <1>3 DEF PutsInv
    <2>2. \A l \in 1..(n - 1) : l \in 1..(e + j) /\ l \in 1..Len(cmds[c])
      <3>1. Len(cmds[c]) \in Nat
        BY SeqShape DEF ClientInv
      <3> QED
        BY <1>1, <1>2, <1>3, <3>1
    <2>3. \A l \in 1..(n - 1) : Cmd(c, l).op = "Put" => Holds(d, Cmd(c, l))
      BY <1>8, <2>2
    <2>4. \A l \in 1..(n - 1) : Cmd(c, l) \in Offered
      BY <2>2, OfferedIs
    <2>5. Execute(d, Cmd(c, n)).res.op = "Found"
      BY <1>8, <2>1, <2>3, <2>4, GetSees
    <2> QED
      BY <1>1, <1>6, <2>5
  <1>16. ASSUME NEW i \in 1..(j + 1), cmds[c][e + i].after
         PROVE  Append(o, op)[i].res.op = "Found"
    <2>1. CASE i \in 1..j
      BY <1>8, <1>13, <1>16, <2>1
    <2>2. CASE i \notin 1..j
      <3>1. i = j + 1
        BY <1>2, <2>2
      <3>2. op.res = r
        BY <1>6 DEF SendOp
      <3> QED
        BY <1>1, <1>14, <1>15, <1>16, <3>1, <3>2
    <2> QED
      BY <2>1, <2>2
  <1> QED
    BY <1>7, <1>8, <1>9, <1>10, <1>11, <1>16 DEF Run

LEMMA Runs ==
    ASSUME ClientInv, PutsStay, PutsInv, NEW a, NEW c \in Client, NEW s, NEW e \in Nat, NEW m,
           Split(c, s, e, m), NEW f, IsTurn(f, a, c, s, m),
           \A l \in 1..e : /\ l \in 1..Len(cmds[c])
                           /\ Cmd(c, l).op = "Put" => Holds(db, Cmd(c, l))
    PROVE  Run(f, c, e, m)
  <1> DEFINE T == {j \in Nat : Run(f, c, e, j)}
  <1>1. m \in Nat
    BY DEF Split
  <1>2. 0 \in T
    <2>1. f[0].db = db
      BY <1>1, OpsRun
    <2> QED
      BY <2>1 DEF Run, PutsInv
  <1>3. ASSUME NEW j \in 0..(m - 1), j \in T PROVE j + 1 \in T
    <2>1. Run(f, c, e, j + 1)
      BY <1>3, RunOne
    <2> QED
      BY <2>1
  <1>4. \A j \in 0..m : j \in T
    <2> HIDE DEF T
    <2> QED
      BY <1>1, <1>2, <1>3, UpTo
  <1> QED
    BY <1>1, <1>4

LEMMA PutsQuiet ==
    ASSUME PutsInv, UNCHANGED <<cmds, db>>, \A c \in Client : Answers(c)' = Answers(c)
    PROVE  PutsInv'
  <1>1. IsDb(db)' /\ (DOMAIN InitDb.colls \subseteq DOMAIN db.colls)'
    BY DEF PutsInv, IsDb
  <1>2. ASSUME NEW c \in Client, NEW n \in 1..Len(cmds[c]) PROVE Awaits(c, n, db)'
    BY DEF PutsInv, Awaits, Cmd
  <1>3. ASSUME NEW c \in Client, NEW j \in 1..Len(Answers(c)) PROVE Told(c, Answers(c)[j], db)'
    <2>1. Told(c, Answers(c)[j], db)
      BY DEF PutsInv
    <2> QED
      BY <2>1 DEF Told, Cmd
  <1> QED
    BY <1>1, <1>2, <1>3 DEF PutsInv

\* What a client has read are the first of its answers.
LEMMA GotAnswers ==
    ASSUME ClientInv, TurnInv, NEW c \in Client, NEW j \in 1..Len(got[c])
    PROVE  j \in 1..Len(Answers(c)) /\ Answers(c)[j] = got[c][j]
  <1>1. PICK h, r, p : h = Heard(c) /\ r = Answers(c) /\ p = Picks(Sends, handler, c)
    OBVIOUS
  <1>2. IsSeq(got[c]) /\ IsSeq(to_client[c]) /\ IsSeq(Sends)
    BY QueueShape DEF ClientInv
  <1>3. Joined(h, got[c], to_client[c])
    BY <1>1, <1>2, ConcatIs DEF Heard
  <1>4. IsSeq(p)
    BY <1>1, <1>2, PickSeq
  <1>5. Joined(r, h, p)
    <2>1. IsSeq(h) /\ r = h \o p
      BY <1>1, AnswersAre DEF Both
    <2> QED
      BY <1>4, <2>1, ConcatIs
  <1>6. j \in 1..Len(h) /\ h[j] = got[c][j]
    <2>1. PICK g, l, k : g = got[c] /\ l = Len(g) /\ k = Len(to_client[c])
      OBVIOUS
    <2>2. l \in Nat /\ k \in Nat /\ Len(h) = l + k /\ \A i \in 1..l : h[i] = g[i]
      BY <1>3, <2>1 DEF Joined
    <2>3. j \in 1..l
      BY <2>1
    <2>4. j \in 1..(l + k)
      BY <2>2, <2>3
    <2> QED
      BY <2>1, <2>2, <2>3, <2>4
  <1>7. j \in 1..Len(r) /\ r[j] = h[j]
    BY <1>5, <1>6 DEF Joined
  <1> QED
    BY <1>1, <1>6, <1>7

\* A get that begins after its document was put will find it.
LEMMA AfterHolds ==
    ASSUME ClientInv, TurnInv, PutsInv, NEW get, Acknowledged(get)
    PROVE  Holds(db, get)
  <1>0. PICK c \in Client : \E j \in 1..Len(got[c]) :
          IsPut(cmds[c][got[c][j].n].cmd, get) /\ got[c][j].res = Success
    BY DEF Acknowledged
  <1>1. PICK j \in 1..Len(got[c]) :
          IsPut(cmds[c][got[c][j].n].cmd, get) /\ got[c][j].res = Success
    BY <1>0
  <1>2. PICK x : x = got[c][j]
    OBVIOUS
  <1>3. Told(c, x, db)
    <2>1. j \in 1..Len(Answers(c)) /\ Answers(c)[j] = x
      BY <1>2, GotAnswers
    <2> QED
      BY <2>1 DEF PutsInv
  <1>4. IsPut(Cmd(c, x.n), get)
    BY <1>1, <1>2 DEF Cmd
  <1>5. x.res # Invalid
    BY <1>1, <1>2 DEF Success, Invalid
  <1>6. Cmd(c, x.n) \in Offered /\ Holds(db, Cmd(c, x.n))
    BY <1>3, <1>4, <1>5, OfferedIs DEF Told, IsPut
  <1> QED
    BY <1>4, <1>6, SameDocument

LEMMA SendKeepsPuts ==
    ASSUME ServerInv, PutsInv, NEW c \in Client, Send(c)
    PROVE  PutsInv'
  <1>1. ClientInv /\ TurnInv
    BY DEF ServerInv, BaseInv
  <1>2. (Begin(c) \/ Continue(c)) /\ UNCHANGED db
    BY DEF Send, server_vars
  <1>3. \A d \in Client : Answers(d)' = Answers(d)
    BY SendIsMute
  <1>4. CASE Continue(c)
    BY <1>2, <1>3, <1>4, PutsQuiet DEF Continue
  <1>5. CASE Begin(c)
    <2>1. PICK cmd, x : /\ x = [cmd |-> cmd, after |-> cmd.op = "Get" /\ (Acknowledged(cmd) \/ AskedPut(c, cmd))]
                        /\ cmds' = [cmds EXCEPT ![c] = Append(@, x)]
      BY <1>5 DEF Begin
    <2>2. PICK l : l = Len(cmds[c])
      OBVIOUS
    <2>3. DOMAIN cmds = Client /\ IsSeq(cmds[c])
      BY <1>1 DEF ClientInv
    <2>4. Appended(cmds'[c], cmds[c], x) /\ \A d \in Client : d # c => cmds'[d] = cmds[d]
      <3>1. cmds'[c] = Append(cmds[c], x)
        BY <2>1, <2>3
      <3> QED
        BY <2>1, <2>3, <3>1, AppendIs
    <2>5. /\ l \in Nat /\ Len(cmds'[c]) = l + 1 /\ cmds'[c][l + 1] = x
          /\ \A n \in 1..l : cmds'[c][n] = cmds[c][n]
      BY <2>2, <2>4 DEF Appended
    <2>6. ASSUME NEW d \in Client
          PROVE  /\ \A n \in 1..Len(cmds[d]) : n \in 1..Len(cmds'[d]) /\ cmds'[d][n] = cmds[d][n]
      BY <2>2, <2>4, <2>5
    <2>7. ASSUME NEW d \in Client, NEW n \in 1..Len(cmds[d]) PROVE Awaits(d, n, db)'
      <3>1. Awaits(d, n, db) /\ cmds'[d][n] = cmds[d][n]
        BY <2>6 DEF PutsInv
      <3>2. \A m \in 1..(n - 1) : cmds'[d][m] = cmds[d][m]
        <4>1. Len(cmds[d]) \in Nat
          BY <1>1, SeqShape DEF ClientInv
        <4>2. \A m \in 1..(n - 1) : m \in 1..Len(cmds[d])
          BY <4>1
        <4> QED
          BY <2>6, <4>2
      <3> QED
        BY <1>2, <3>1, <3>2 DEF Awaits, Cmd
    <2>8. Awaits(c, l + 1, db)'
      <3>1. SUFFICES ASSUME x.after
                     PROVE  /\ cmd.op = "Get"
                            /\ Holds(db, cmd) \/ \E n \in 1..l : IsPut(cmds'[c][n].cmd, cmd)
        <4>1. cmds'[c][l + 1] = x /\ x.cmd = cmd /\ (l + 1) - 1 = l
          BY <2>1, <2>5
        <4> QED
          BY <1>2, <4>1 DEF Awaits, Cmd
      <3>2. cmd.op = "Get" /\ (Acknowledged(cmd) \/ AskedPut(c, cmd))
        BY <2>1, <3>1
      <3>3. CASE Acknowledged(cmd)
        BY <1>1, <3>2, <3>3, AfterHolds
      <3>4. CASE AskedPut(c, cmd)
        <4>1. PICK n \in 1..l : IsPut(cmds[c][n].cmd, cmd)
          BY <2>2, <3>4 DEF AskedPut
        <4>2. cmds'[c][n] = cmds[c][n]
          BY <2>5
        <4> QED
          BY <3>2, <4>1, <4>2
      <3> QED
        BY <3>2, <3>3, <3>4
    <2>9. ASSUME NEW d \in Client, NEW n \in 1..Len(cmds'[d]) PROVE Awaits(d, n, db)'
      <3>1. CASE n \in 1..Len(cmds[d])
        BY <2>7, <3>1
      <3>2. CASE n \notin 1..Len(cmds[d])
        <4>1. d = c /\ n = l + 1
          BY <2>2, <2>4, <2>5, <3>2
        <4> QED
          BY <2>8, <4>1
      <3> QED
        BY <3>1, <3>2
    <2>10. ASSUME NEW d \in Client, NEW j \in 1..Len(Answers(d)) PROVE Told(d, Answers(d)[j], db)'
      <3>1. PICK y : y = Answers(d)[j]
        OBVIOUS
      <3>2. Told(d, y, db)
        BY <3>1 DEF PutsInv
      <3>3. y.n \in 1..Len(cmds[d])
        BY <3>2 DEF Told
      <3>4. y.n \in 1..Len(cmds'[d]) /\ cmds'[d][y.n] = cmds[d][y.n]
        BY <2>6, <3>3
      <3>5. Answers(d)'[j] = y
        BY <1>3, <3>1
      <3> QED
        BY <1>2, <3>2, <3>4, <3>5 DEF Told, Cmd
    <2>11. IsDb(db)' /\ (DOMAIN InitDb.colls \subseteq DOMAIN db.colls)'
      BY <1>2 DEF PutsInv, IsDb
    <2> QED
      BY <1>3, <2>9, <2>10, <2>11 DEF PutsInv
  <1> QED
    BY <1>2, <1>4, <1>5

LEMMA ReceiptKeepsPuts ==
    ASSUME ServerInv, AnswersInv, PutsInv, PutsStay, RecvStep,
           NEW a, a = recv_copy[First(ReadyRecvs)], to_server[Fd(a)] # <<>>
    PROVE  PutsInv'
  <1>1. ClientInv
    BY DEF ServerInv, BaseInv
  <1>2. PICK c, s, e, k, m, new, f : Receipt(a, c, s, e, k, m, new, f)
    BY ReceiptIs
  <1>3. PICK r, u, v : Added(a, c, s, e, m, new, r, u, v)
    BY <1>2, AddedIs
  <1>4. /\ c \in Client /\ e \in Nat /\ m \in Nat /\ Handled(a, c, s, e, k, m, new)
        /\ IsTurn(f, a, c, s, m) /\ db' = f[m].db
        /\ new = IF Refused(c, s) THEN Append(f[m].ops, SendOp(a, s[2 * m + 1], Invalid))
                 ELSE f[m].ops
        /\ IsSeq(f[m].ops) /\ Len(f[m].ops) = m
        /\ \A d \in Client : d # c => Answers(d)' = Answers(d)
        /\ UNCHANGED cmds
    BY <1>2 DEF Receipt
  <1>5. /\ InOrder(r, c, e) /\ r = Answers(c) /\ v = Answers(c)' /\ u = Entries(new)
        /\ Joined(v, r, u)
    BY <1>3 DEF Added
  <1>6. Split(c, s, e, m) /\ IsSeq(new)
    BY <1>4 DEF Handled
  <1>7. ASSUME NEW l \in 1..e
        PROVE  /\ l \in 1..Len(cmds[c])
               /\ Cmd(c, l).op = "Put" => Holds(db, Cmd(c, l))
    <2>1. l \in 1..Len(r) /\ r[l].n = l /\ r[l].res # Invalid
      BY <1>4, <1>5 DEF InOrder
    <2>2. Told(c, r[l], db)
      BY <1>4, <1>5, <2>1 DEF PutsInv
    <2> QED
      BY <2>1, <2>2 DEF Told
  <1>8. Run(f, c, e, m)
    BY <1>1, <1>4, <1>6, <1>7, Runs
  <1>9. PICK d : d = f[m].db /\ d = db'
    BY <1>4
  <1>10. /\ IsDb(d) /\ DOMAIN InitDb.colls \subseteq DOMAIN d.colls
         /\ \A y : Holds(db, y) => Holds(d, y)
         /\ \A l \in 1..(e + m) : Cmd(c, l).op = "Put" => Holds(d, Cmd(c, l))
         /\ \A i \in 1..m : cmds[c][e + i].after => f[m].ops[i].res.op = "Found"
    BY <1>8, <1>9 DEF Run
  <1>11. ASSUME NEW b \in Client, NEW n \in 1..Len(cmds[b]) PROVE Awaits(b, n, d)
    BY <1>10 DEF PutsInv, Awaits
  <1>12. ASSUME NEW b \in Client, NEW x, Told(b, x, db) PROVE Told(b, x, d)
    BY <1>10, <1>12 DEF Told
  <1>13. ASSUME NEW j \in 1..m PROVE Told(c, u[j], d)
    <2>1. u[j].n = e + j /\ u[j].res # Invalid /\ e + j \in 1..Len(cmds[c])
      BY <1>3 DEF Added
    <2>2. e + j \in 1..(e + m)
      BY <1>4
    <2>3. u[j].res = f[m].ops[j].res
      <3>1. PICK q : q = f[m].ops
        OBVIOUS
      <3>2. new[j] = q[j] /\ j \in 1..Len(new)
        <4>1. CASE Refused(c, s)
          <5>1. PICK op : op = SendOp(a, s[2 * m + 1], Invalid)
            OBVIOUS
          <5>2. new = Append(q, op) /\ IsSeq(q) /\ Len(q) = m
            BY <1>4, <3>1, <4>1, <5>1
          <5>3. Appended(new, q, op)
            BY <5>2, AppendIs
          <5> QED
            BY <5>2, <5>3 DEF Appended
        <4>2. CASE ~Refused(c, s)
          BY <1>4, <3>1, <4>2
        <4> QED
          BY <4>1, <4>2
      <3>3. Entries(new)[j] = Entry(new[j])
        BY <1>6, <3>2, EntriesShape
      <3> QED
        BY <1>5, <3>1, <3>2, <3>3 DEF Entry
    <2> QED
      BY <1>10, <2>1, <2>2, <2>3 DEF Told
  <1>14. ASSUME NEW j \in 1..Len(u), j \notin 1..m PROVE Told(c, u[j], d)
    <2>1. Len(u) = (IF Refused(c, s) THEN m + 1 ELSE m) /\ m \in Nat
      BY <1>3 DEF Added
    <2>2. Refused(c, s) /\ j = m + 1
      BY <1>14, <2>1
    <2>3. /\ u[j].n = e + m + 1 /\ u[j].res = Invalid
          /\ e + m + 1 \in 1..Len(cmds[c]) /\ Cmd(c, e + m + 1) = Bad
      BY <1>3, <2>2 DEF Added
    <2>4. ~cmds[c][e + m + 1].after
      <3>1. Awaits(c, e + m + 1, d)
        BY <1>4, <1>11, <2>3
      <3> QED
        BY <2>3, <3>1 DEF Awaits, Bad
    <2> QED
      BY <2>3, <2>4 DEF Told
  <1>15. ASSUME NEW j \in 1..Len(v) PROVE Told(c, v[j], d)
    <2>1. /\ Len(r) \in Nat /\ Len(u) \in Nat /\ Len(v) = Len(r) + Len(u)
          /\ \A i \in 1..Len(r) : v[i] = r[i]
          /\ \A i \in 1..Len(u) : v[Len(r) + i] = u[i]
      BY <1>5 DEF Joined
    <2>2. CASE j \in 1..Len(r)
      <3>1. Told(c, r[j], db)
        BY <1>4, <1>5, <2>2 DEF PutsInv
      <3> QED
        BY <1>4, <1>12, <2>1, <2>2, <3>1
    <2>3. CASE j \notin 1..Len(r)
      <3>1. PICK i : i = j - Len(r)
        OBVIOUS
      <3>2. i \in 1..Len(u) /\ j = Len(r) + i
        BY <2>1, <2>3, <3>1
      <3>3. v[j] = u[i]
        BY <2>1, <3>2
      <3>4. Told(c, u[i], d)
        BY <1>13, <1>14, <3>2
      <3> QED
        BY <3>3, <3>4
    <2> QED
      BY <2>2, <2>3
  <1>16. ASSUME NEW b \in Client, NEW j \in 1..Len(Answers(b)') PROVE Told(b, Answers(b)'[j], d)
    <2>1. CASE b = c
      BY <1>5, <1>15, <2>1
    <2>2. CASE b # c
      <3>1. Answers(b)' = Answers(b)
        BY <1>4, <2>2
      <3>2. Told(b, Answers(b)[j], db)
        BY <3>1 DEF PutsInv
      <3> QED
        BY <1>12, <3>1, <3>2
    <2> QED
      BY <2>1, <2>2
  <1>17. \A b, n, x : (Told(b, x, db)' <=> Told(b, x, d)) /\ (Awaits(b, n, db)' <=> Awaits(b, n, d))
    BY <1>4, <1>9 DEF Told, Awaits, Cmd
  <1>18. IsDb(db)' /\ (DOMAIN InitDb.colls \subseteq DOMAIN db.colls)'
    BY <1>9, <1>10 DEF IsDb
  <1>19. ASSUME NEW b \in Client, NEW n \in 1..Len(cmds'[b]) PROVE Awaits(b, n, db)'
    BY <1>4, <1>11, <1>17
  <1>20. ASSUME NEW b \in Client, NEW j \in 1..Len(Answers(b)') PROVE Told(b, Answers(b)[j], db)'
    <2>1. PICK x : x = Answers(b)'[j]
      OBVIOUS
    <2>2. Told(b, x, d)
      BY <1>16, <2>1
    <2>3. Told(b, x, db)'
      BY <1>17, <2>2
    <2> QED
      BY <2>1, <2>3 DEF Told
  <1> QED
    BY <1>18, <1>19, <1>20 DEF PutsInv

\* Only the beginning of a command and what a receive brought matter; a step
\* that Service does not see changes nothing that clients are told.
LEMMA StepKeepsPuts ==
    ASSUME ServerInv, AnswersInv, PutsInv, PutsStay, [Next]_vars
    PROVE  PutsInv'
  <1>1. CASE \E c \in Client : Send(c)
    BY <1>1, SendKeepsPuts
  <1>2. ASSUME UNCHANGED cmds, UNCHANGED SV!vars
        PROVE  PutsInv'
    <2> DEFINE As == [c \in Client |-> Answers(c)]
    <2>1. As' = As /\ UNCHANGED db
      BY <1>2 DEF SV!vars
    <2>2. ASSUME NEW c \in Client PROVE Answers(c)' = Answers(c)
      <3>1. As[c] = Answers(c) /\ As'[c] = Answers(c)'
        OBVIOUS
      <3> QED
        BY <2>1, <3>1
    <2> QED
      BY <1>2, <2>1, <2>2, PutsQuiet
  <1>3. CASE \E c \in Client : Connect(c)
    BY <1>2, <1>3, ConnectIsQuiet DEF Connect
  <1>4. CASE \E c \in Client : Read(c)
    BY <1>2, <1>4, ReadIsQuiet DEF Read
  <1>5. CASE \E c \in Client : Leave(c)
    BY <1>2, <1>5, LeaveIsQuiet DEF Leave
  <1>6. CASE Select
    BY <1>2, <1>6, SelectIsQuiet DEF Select, client_vars
  <1>7. CASE RecvStep
    <2>1. PICK a : a = recv_copy[First(ReadyRecvs)]
      OBVIOUS
    <2>2. CASE to_server[Fd(a)] = <<>>
      <3>1. UNCHANGED SV!vars
        BY <1>7, <2>1, <2>2, CloseIsQuiet
      <3> QED
        BY <1>2, <1>7, <3>1 DEF RecvStep, client_vars
    <2>3. CASE to_server[Fd(a)] # <<>>
      BY <1>7, <2>1, <2>3, ReceiptKeepsPuts
    <2> QED
      BY <2>2, <2>3
  <1>8. CASE SendStep
    BY <1>2, <1>8, SendStepIsQuiet DEF SendStep, client_vars
  <1>9. CASE AcceptStep
    BY <1>2, <1>9, AcceptIsQuiet DEF AcceptStep, client_vars
  <1>10. CASE Merge
    BY <1>2, <1>10, MergeIsQuiet DEF Merge, client_vars
  <1>11. CASE UNCHANGED vars
    <2>1. UNCHANGED SV!vars
      <3>1. BaseInv'
        BY <1>11, BaseStep DEF ServerInv
      <3>2. UNCHANGED <<client_vars, network, server_vars>> /\ Sends' = Sends
        BY <1>11 DEF vars, loop_vars, queued, current, Sends
      <3> QED
        BY <3>1, <3>2, TurnIsQuiet
    <2> QED
      BY <1>2, <1>11, <2>1 DEF vars, client_vars
  <1> QED
    BY <1>1, <1>3, <1>4, <1>5, <1>6, <1>7, <1>8, <1>9, <1>10, <1>11 DEF Next

LEMMA InitPuts ==
    ASSUME Init
    PROVE  PutsInv
  <1>1. IsDb(db) /\ db = InitDb
    BY DbAssumption DEF Init
  <1>2. ASSUME NEW c \in Client PROVE cmds[c] = <<>> /\ Answers(c) = <<>>
    <2> DEFINE As == [d \in Client |-> Answers(d)]
    <2>1. As = [d \in Client |-> <<>>]
      BY InitRefines DEF SV!Init
    <2>2. As[c] = Answers(c)
      OBVIOUS
    <2> QED
      BY <2>1, <2>2 DEF Init
  <1>3. Len(<<>>) = 0
    BY EmptyShape
  <1> QED
    BY <1>1, <1>2, <1>3 DEF PutsInv

\* A get finds what was put before it began, as far as its client can know:
\* by an answer to any client, or by an earlier put of its own
\* (client_handler.cpp:82-169).  Provided that no menu has
\* a command that undoes a put.
THEOREM PutsSeen == Orderly /\ PutsStay /\ Spec => []PutsAreSeen
  <1>1. Init => AnswersInv /\ PutsInv
    BY InitRefines, InitPuts
  <1>2. ServerInv /\ AnswersInv /\ PutsInv => PutsAreSeen
    <2> SUFFICES ASSUME ServerInv, PutsInv, NEW c \in Client, NEW j \in 1..Len(got[c])
                 PROVE  cmds[c][got[c][j].n].after => got[c][j].res.op = "Found"
      BY DEF PutsAreSeen
    <2>1. ClientInv /\ TurnInv
      BY DEF ServerInv, BaseInv
    <2>2. j \in 1..Len(Answers(c)) /\ Answers(c)[j] = got[c][j]
      BY <2>1, GotAnswers
    <2>3. Told(c, got[c][j], db)
      BY <2>2 DEF PutsInv
    <2> QED
      BY <2>3 DEF Told
  <1> QED
    <2> SUFFICES ASSUME Orderly, PutsStay PROVE Spec => []PutsAreSeen
      BY DEF PutsStay
    <2>1. Spec => []ServerInv
      BY ServerInvariant
    <2>2. ServerInv /\ AnswersInv /\ PutsInv /\ [Next]_vars => AnswersInv' /\ PutsInv'
      BY StepRefines, StepKeepsPuts
    <2> QED
      BY <1>1, <1>2, <2>1, <2>2, PTL DEF Spec
=============================================================================
