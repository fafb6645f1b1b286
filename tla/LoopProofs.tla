----------------------------- MODULE LoopProofs ------------------------------
(***************************************************************************)
(* Theorems about IOContext: for every program, any number of descriptors  *)
(* and operations, and any traffic, the loop loses no operation, calls no  *)
(* callback twice, acts only on what select reported, and ends an          *)
(* operation that goes to the end only at its end.                         *)
(*                                                                         *)
(* A callback may issue operations, stop the loop or reset a timer.  The   *)
(* invariants are therefore stated of the operations O, the queues Q and   *)
(* the copies C at any point between a callback and the step it is in.     *)
(***************************************************************************)
EXTENDS IOContext, DataLemmas, FiniteSetTheorems

-----------------------------------------------------------------------------
(* The inductive invariant. *)

PhaseName == {"recv", "send", "accept", "wait"}
KindOf(O, i) == QueueOf(O[i].ask)
Whole(o)     == o.ask.call \in {"async_recv_all", "async_send_all"}
Pending(O, i) == O[i].res = <<>>

\* The operations: what is left of each, and the results delivered.
Op == [ask : Requests, buf : Nat, len : Nat, mem : Seq(Nat), res : Seq(Nat)]
OpsInv(O) ==
    /\ O \in Seq(Op) /\ Len(O) <= Len(Menu)
    /\ \A i \in 1..Len(O) : /\ O[i].ask \in Menu[i]
                            /\ O[i].buf + O[i].len = O[i].ask.len
                            /\ Len(O[i].mem) = O[i].ask.len
                            /\ Len(O[i].res) <= 1

\* A queue holds pending operations of its kind, each once.
QueueInv(O, s, q) ==
    /\ s \in Seq(1..Len(O)) /\ IsInjective(s)
    /\ \A j \in 1..Len(s) : KindOf(O, s[j]) = q /\ Pending(O, s[j])

\* No operation is both in a queue and in its copy.
Placed(O, Q, C) ==
    /\ DOMAIN Q = PhaseName /\ DOMAIN C = PhaseName
    /\ \A q \in PhaseName : /\ QueueInv(O, Q[q], q) /\ QueueInv(O, C[q], q)
                            /\ Range(Q[q]) \cap Range(C[q]) = {}

\* Every pending operation is in one of them.
Kept(O, Q, C) ==
    \A i \in 1..Len(O) :
        Pending(O, i) => i \in Range(Q[KindOf(O, i)]) \cup Range(C[KindOf(O, i)])

\* What is not shared has one operation at a time, of a kind.
Exclusive(O) ==
    \A i, j \in 1..Len(O) :
        /\ Pending(O, i) /\ Pending(O, j) /\ KindOf(O, i) = KindOf(O, j)
        /\ O[i].ask.fd = O[j].ask.fd /\ O[i].ask.fd \notin Shared
        => i = j

\* What an operation that goes to the end has done so far: W is the wire.
DoneOp(h, i, W) ==
    /\ \A k \in 1..h.buf : IF QueueOf(h.ask) = "recv" THEN h.mem[k] # 0
                                                    ELSE <<i, k>> \in Range(W[h.ask.fd])
    /\ h.res # <<>> => h.len = 0 /\ h.res = <<h.ask.len>>
DoneInv(O, W) == \A i \in 1..Len(O) : Whole(O[i]) => DoneOp(O[i], i, W)

AlarmState == {"off", "set", "expired"}

WorldInv ==
    /\ inbox \in [Sock -> Seq(1..MaxBytes)] /\ arrived \in [Sock -> 0..MaxBytes]
    /\ eof \in [Sock -> BOOLEAN]
    /\ wire \in [Sock -> Seq(Nat \X Nat)] /\ drained \in [Sock -> Nat]
    /\ \A s \in Sock : Room(s) \in 0..SndCap
    /\ backlog \in [Listener -> Nat] /\ connected \in [Listener -> Nat]
    /\ alarm \in [Timer -> AlarmState] /\ ticks \in [Timer -> Nat]

\* The ticks of a timer that has expired since it was set are still there.
Unread(t) == ticks[t] > 0 \/ alarm[t] # "expired"

\* What stays true of a descriptor that select reports, for an operation of
\* kind q.
Holds(q, s) ==
    CASE q = "recv"   -> Readable(s)
      [] q = "send"   -> Room(s) > 0
      [] q = "accept" -> backlog[s] > 0
      [] q = "wait"   -> Unread(s)
Reported(q) == IF q = "send" THEN wfds ELSE rfds
Promised ==
    \A q \in PhaseName : \A j \in 1..Len(current[q]) :
        LET s == ops[current[q][j]].ask.fd
        IN s \in Reported(q) /\ s \notin Shared => Holds(q, s)

ControlInv ==
    /\ pc \in {"idle", "top", "serve", "aborted"} /\ m_stop \in BOOLEAN
    /\ pc \in {"idle", "top"} => current = Empty
    /\ rfds \subseteq Sock \cup Listener \cup Timer /\ wfds \subseteq Sock

LoopInv ==
    /\ WorldInv /\ ControlInv
    /\ OpsInv(ops) /\ Placed(ops, queued, current) /\ Exclusive(ops)
    /\ pc # "aborted" => Kept(ops, queued, current)
    /\ DoneInv(ops, wire)
    /\ Promised

-----------------------------------------------------------------------------
(* Queues. *)

LEMMA PhaseNames == Range(Phases) = PhaseName
  BY DEF Range, Phases, PhaseName

\* A queue stays one when an operation is taken out,
LEMMA RemoveKeeps ==
    ASSUME NEW O, NEW s, NEW q, Len(O) \in Nat, QueueInv(O, s, q), NEW j \in 1..Len(s)
    PROVE  /\ QueueInv(O, RemoveAt(s, j), q)
           /\ Range(RemoveAt(s, j)) = Range(s) \ {s[j]}
  <1> DEFINE r == RemoveAt(s, j)
             at(k) == IF k < j THEN k ELSE k + 1
  <1>1. s \in Seq(1..Len(O)) /\ Len(s) \in Nat /\ DOMAIN s = 1..Len(s)
    BY LenProperties DEF QueueInv
  <1>2. /\ r \in Seq(1..Len(O)) /\ Len(r) = Len(s) - 1
        /\ \A k \in 1..(Len(s) - 1) : r[k] = s[at(k)]
    BY <1>1, RemoveAtProperties
  <1>3. DOMAIN r = 1..(Len(s) - 1)
    BY <1>2, LenProperties
  <1>4. \A k \in 1..(Len(s) - 1) : at(k) \in 1..Len(s) /\ at(k) # j
    BY <1>1
  <1>5. \A k, l \in 1..(Len(s) - 1) : at(k) = at(l) => k = l
    BY <1>1
  <1>6. \A l \in 1..Len(s) : l # j => \E k \in 1..(Len(s) - 1) : at(k) = l
    <2> SUFFICES ASSUME NEW l \in 1..Len(s), l # j
                 PROVE  \E k \in 1..(Len(s) - 1) : at(k) = l
      OBVIOUS
    <2>1. CASE l < j
      <3>1. l \in 1..(Len(s) - 1) /\ at(l) = l
        BY <1>1, <2>1
      <3> QED
        BY <3>1
    <2>2. CASE ~(l < j)
      <3>1. l - 1 \in 1..(Len(s) - 1) /\ at(l - 1) = l
        BY <1>1, <2>2
      <3> QED
        BY <3>1
    <2> QED
      BY <2>1, <2>2
  <1> HIDE DEF r, at
  <1>7. \A k, l \in 1..Len(s) : s[k] = s[l] => k = l
    BY <1>1 DEF QueueInv, IsInjective
  <1>8. IsInjective(r)
    <2> SUFFICES ASSUME NEW k \in 1..(Len(s) - 1), NEW l \in 1..(Len(s) - 1), r[k] = r[l]
                 PROVE  k = l
      BY <1>3 DEF IsInjective
    <2>1. s[at(k)] = s[at(l)] /\ at(k) \in 1..Len(s) /\ at(l) \in 1..Len(s)
      BY <1>2, <1>4
    <2>2. at(k) = at(l)
      BY <1>7, <2>1
    <2> QED
      BY <1>5, <2>2
  <1>9. Range(r) = Range(s) \ {s[j]}
    <2>1. ASSUME NEW x \in Range(r) PROVE x \in Range(s) \ {s[j]}
      <3>1. PICK k \in 1..(Len(s) - 1) : x = r[k]
        BY <1>3 DEF Range
      <3>2. x = s[at(k)] /\ at(k) \in 1..Len(s) /\ at(k) # j
        BY <1>2, <1>4, <3>1
      <3> QED
        BY <1>1, <1>7, <3>2 DEF Range
    <2>2. ASSUME NEW x \in Range(s), x # s[j] PROVE x \in Range(r)
      <3>1. PICK l \in 1..Len(s) : x = s[l]
        BY <1>1 DEF Range
      <3>2. PICK k \in 1..(Len(s) - 1) : at(k) = l
        BY <1>6, <2>2, <3>1
      <3>3. r[k] = s[at(k)]
        BY <1>2
      <3> QED
        BY <1>3, <3>1, <3>2, <3>3 DEF Range
    <2> QED
      BY <2>1, <2>2
  <1>10. \A k \in 1..Len(r) : KindOf(O, r[k]) = q /\ Pending(O, r[k])
    BY <1>2, <1>4 DEF QueueInv
  <1> QED
    BY <1>2, <1>8, <1>9, <1>10 DEF QueueInv, r

\* appended,
LEMMA AppendKeeps ==
    ASSUME NEW O, NEW s, NEW q, Len(O) \in Nat, QueueInv(O, s, q), NEW i \in 1..Len(O),
           KindOf(O, i) = q, Pending(O, i), i \notin Range(s)
    PROVE  /\ QueueInv(O, Append(s, i), q)
           /\ Range(Append(s, i)) = Range(s) \cup {i}
  <1> DEFINE r == Append(s, i)
  <1>1. s \in Seq(1..Len(O)) /\ Len(s) \in Nat /\ DOMAIN s = 1..Len(s)
    BY LenProperties DEF QueueInv
  <1>2. /\ r \in Seq(1..Len(O)) /\ Len(r) = Len(s) + 1
        /\ \A k \in 1..Len(s) : r[k] = s[k]
        /\ r[Len(s) + 1] = i
    BY <1>1, AppendProperties
  <1>3. DOMAIN r = 1..(Len(s) + 1)
    BY <1>2, LenProperties
  <1> HIDE DEF r
  <1>4. 1..(Len(s) + 1) = (1..Len(s)) \cup {Len(s) + 1}
    BY <1>1
  <1>5. Range(r) = Range(s) \cup {i}
    BY <1>1, <1>2, <1>3, <1>4 DEF Range
  <1>6. \A k \in 1..Len(s) : s[k] # i
    BY <1>1 DEF Range
  <1>7. \A k, l \in 1..Len(s) : s[k] = s[l] => k = l
    BY <1>1 DEF QueueInv, IsInjective
  <1>8. IsInjective(r)
    BY <1>2, <1>3, <1>4, <1>6, <1>7 DEF IsInjective
  <1>9. ASSUME NEW k \in 1..Len(r) PROVE KindOf(O, r[k]) = q /\ Pending(O, r[k])
    <2>1. k \in 1..Len(s) \/ k = Len(s) + 1
      BY <1>2, <1>4
    <2>2. CASE k \in 1..Len(s)
      <3>1. r[k] = s[k]
        BY <1>2, <2>2
      <3> QED
        BY <2>2, <3>1 DEF QueueInv
    <2>3. CASE k = Len(s) + 1
      BY <1>2, <2>3
    <2> QED
      BY <2>1, <2>2, <2>3
  <1> QED
    BY <1>2, <1>5, <1>8, <1>9 DEF QueueInv, r

\* or another queue is appended.
LEMMA ConcatKeeps ==
    ASSUME NEW O, NEW s, NEW t, NEW q, Len(O) \in Nat,
           QueueInv(O, s, q), QueueInv(O, t, q), Range(s) \cap Range(t) = {}
    PROVE  /\ QueueInv(O, s \o t, q)
           /\ Range(s \o t) = Range(s) \cup Range(t)
  <1> DEFINE r == s \o t
  <1>1. /\ s \in Seq(1..Len(O)) /\ Len(s) \in Nat /\ DOMAIN s = 1..Len(s)
        /\ t \in Seq(1..Len(O)) /\ Len(t) \in Nat /\ DOMAIN t = 1..Len(t)
    BY LenProperties DEF QueueInv
  <1>2. /\ r \in Seq(1..Len(O)) /\ Len(r) = Len(s) + Len(t)
        /\ \A k \in 1..(Len(s) + Len(t)) : r[k] = IF k <= Len(s) THEN s[k] ELSE t[k - Len(s)]
    BY <1>1, ConcatProperties
  <1>3. DOMAIN r = 1..(Len(s) + Len(t))
    BY <1>2, LenProperties
  <1> HIDE DEF r
  <1>4. \A k \in 1..(Len(s) + Len(t)) : k <= Len(s) \/ k - Len(s) \in 1..Len(t)
    BY <1>1
  <1>5. \A k \in 1..(Len(s) + Len(t)) : k <= Len(s) => k \in 1..Len(s)
    BY <1>1
  <1>6. \A k \in 1..Len(s) : k \in 1..(Len(s) + Len(t)) /\ k <= Len(s)
    BY <1>1
  <1>7. \A k \in 1..Len(t) : /\ k + Len(s) \in 1..(Len(s) + Len(t)) /\ ~(k + Len(s) <= Len(s))
                             /\ (k + Len(s)) - Len(s) = k
    BY <1>1
  <1>8. Range(r) = Range(s) \cup Range(t)
    <2>1. ASSUME NEW x \in Range(r) PROVE x \in Range(s) \cup Range(t)
      BY <1>1, <1>2, <1>3, <1>4, <1>5 DEF Range
    <2>2. ASSUME NEW x \in Range(s) PROVE x \in Range(r)
      BY <1>1, <1>2, <1>3, <1>6 DEF Range
    <2>3. ASSUME NEW x \in Range(t) PROVE x \in Range(r)
      <3>1. PICK k \in 1..Len(t) : x = t[k]
        BY <1>1 DEF Range
      <3>2. r[k + Len(s)] = t[k]
        BY <1>2, <1>7
      <3> QED
        BY <1>3, <1>7, <3>1, <3>2 DEF Range
    <2> QED
      BY <2>1, <2>2, <2>3
  <1>9. \A k \in 1..Len(s), l \in 1..Len(t) : s[k] # t[l]
    BY <1>1 DEF Range
  <1>10. /\ \A k, l \in 1..Len(s) : s[k] = s[l] => k = l
         /\ \A k, l \in 1..Len(t) : t[k] = t[l] => k = l
    BY <1>1 DEF QueueInv, IsInjective
  <1>11. ASSUME NEW k \in 1..(Len(s) + Len(t)), NEW l \in 1..(Len(s) + Len(t)), r[k] = r[l]
         PROVE  k = l
    <2>1. CASE k <= Len(s) /\ l <= Len(s)
      BY <1>2, <1>5, <1>10, <1>11, <2>1
    <2>2. CASE k <= Len(s) /\ ~(l <= Len(s))
      BY <1>2, <1>4, <1>5, <1>9, <1>11, <2>2
    <2>3. CASE ~(k <= Len(s)) /\ l <= Len(s)
      BY <1>2, <1>4, <1>5, <1>9, <1>11, <2>3
    <2>4. CASE ~(k <= Len(s)) /\ ~(l <= Len(s))
      <3>1. k - Len(s) = l - Len(s)
        BY <1>2, <1>4, <1>10, <1>11, <2>4
      <3> QED
        BY <1>1, <3>1
    <2> QED
      BY <2>1, <2>2, <2>3, <2>4
  <1>12. IsInjective(r)
    BY <1>3, <1>11 DEF IsInjective
  <1>13. \A k \in 1..Len(r) : KindOf(O, r[k]) = q /\ Pending(O, r[k])
    BY <1>2, <1>4, <1>5 DEF QueueInv
  <1> QED
    BY <1>2, <1>8, <1>12, <1>13 DEF QueueInv, r

\* What happens to other operations does not concern a queue.
LEMMA QueueStays ==
    ASSUME NEW O, NEW P, NEW s, NEW q, Len(O) \in Nat, Len(P) \in Nat, Len(O) <= Len(P),
           QueueInv(O, s, q),
           \A i \in 1..Len(O) : i \in Range(s) => P[i].ask = O[i].ask /\ P[i].res = O[i].res
    PROVE  QueueInv(P, s, q)
  <1>1. s \in Seq(1..Len(O)) /\ Len(s) \in Nat /\ DOMAIN s = 1..Len(s)
    BY LenProperties DEF QueueInv
  <1>2. (1..Len(O)) \subseteq (1..Len(P))
    OBVIOUS
  <1>3. s \in Seq(1..Len(P))
    BY <1>1, <1>2, SeqMonotonic
  <1>4. \A j \in 1..Len(s) : s[j] \in 1..Len(O) /\ s[j] \in Range(s)
    BY <1>1, ElementOfSeq DEF Range
  <1> QED
    BY <1>3, <1>4 DEF QueueInv, KindOf, Pending

LEMMA EmptyQueue ==
    ASSUME NEW O, NEW q
    PROVE  QueueInv(O, <<>>, q) /\ Range(<<>>) = {}
  BY DEF QueueInv, Range, IsInjective

-----------------------------------------------------------------------------
(* Operations. *)

\* What is known of the operation with number i.
LEMMA OpShape ==
    ASSUME NEW O, OpsInv(O), NEW i \in 1..Len(O)
    PROVE  /\ O[i] \in Op /\ O[i].ask \in Requests /\ O[i].ask.len \in Nat
           /\ KindOf(O, i) \in PhaseName
           /\ KindOf(O, i) \in {"recv", "send"} => O[i].ask.fd \in Sock
           /\ KindOf(O, i) = "accept" => O[i].ask.fd \in Listener
           /\ KindOf(O, i) = "wait" => O[i].ask.fd \in Timer
           /\ Whole(O[i]) => KindOf(O, i) \in {"recv", "send"}
  <1>1. O[i] \in Op
    BY ElementOfSeq DEF OpsInv
  <1>2. O[i].ask \in Requests
    BY <1>1 DEF Op
  <1> QED
    BY <1>1, <1>2 DEF Requests, KindOf, QueueOf, PhaseName, Whole

\* O is followed by operations that have just been issued.
Fresh(h) == h.buf = 0 /\ h.res = <<>> /\ \A j \in 1..Len(h.mem) : h.mem[j] = 0
Followed(O, P) ==
    /\ Len(O) <= Len(P)
    /\ \A i \in 1..Len(O) : P[i] = O[i]
    /\ \A i \in 1..Len(P) : i \notin 1..Len(O) => Fresh(P[i])

\* A queue gets no more than the next operation, or one that goes to the end.
Grown(O, Q, R) ==
    \A q \in PhaseName :
        \/ R[q] = Q[q]
        \/ \E x : /\ R[q] = Append(Q[q], x)
                  /\ x = Len(O) + 1 \/ (x \in 1..Len(O) /\ Whole(O[x]))

LEMMA GrownAs ==
    ASSUME NEW O, NEW P, NEW Q, NEW R, Len(P) = Len(O),
           \A k \in 1..Len(O) : P[k].ask = O[k].ask, Grown(P, Q, R)
    PROVE  Grown(O, Q, R)
  <1> SUFFICES ASSUME NEW q \in PhaseName, R[q] # Q[q]
               PROVE  \E x : /\ R[q] = Append(Q[q], x)
                             /\ x = Len(O) + 1 \/ (x \in 1..Len(O) /\ Whole(O[x]))
    BY DEF Grown
  <1>1. PICK x : /\ R[q] = Append(Q[q], x)
                 /\ x = Len(P) + 1 \/ (x \in 1..Len(P) /\ Whole(P[x]))
    BY DEF Grown
  <1>2. x \in 1..Len(P) => (Whole(P[x]) <=> Whole(O[x]))
    BY DEF Whole
  <1> QED
    BY <1>1, <1>2

LEMMA NewOp ==
    ASSUME NEW O, OpsInv(O), Len(O) < Len(Menu), NEW o \in Menu[Len(O) + 1]
    PROVE  /\ o \in Requests /\ New(o) \in Op
           /\ New(o).ask = o /\ New(o).buf = 0 /\ New(o).len = o.len /\ New(o).res = <<>>
           /\ Len(New(o).mem) = o.len /\ Fresh(New(o))
  <1>1. Len(O) \in Nat /\ Len(Menu) \in Nat
    BY MenuAssumption, LenProperties DEF OpsInv
  <1>2. Menu[Len(O) + 1] \in SUBSET Requests
    BY <1>1, MenuAssumption, ElementOfSeq
  <1>3. o \in Requests /\ o.len \in Nat
    BY <1>2 DEF Requests
  <1> DEFINE z == [j \in 1..o.len |-> 0]
  <1>4. z \in Seq(Nat) /\ Len(z) = o.len
    BY <1>3, FunctionIsSeq
  <1>5. New(o) = [ask |-> o, buf |-> 0, len |-> o.len, mem |-> z, res |-> <<>>]
    BY DEF New
  <1>6. <<>> \in Seq(Nat)
    OBVIOUS
  <1>7. \A j \in 1..o.len : z[j] = 0
    OBVIOUS
  <1> HIDE DEF z
  <1>8. Fresh(New(o))
    BY <1>4, <1>5, <1>7 DEF Fresh
  <1> QED
    BY <1>3, <1>4, <1>5, <1>6, <1>8 DEF Op

\* Issuing an operation: it has a place of its own.
LEMMA IssueKeeps ==
    ASSUME NEW O, NEW Q, NEW C, NEW T,
           OpsInv(O), Placed(O, Q, C), Exclusive(O), Issue(O, Q, T)
    PROVE  /\ OpsInv(ops') /\ Placed(ops', queued', C) /\ Exclusive(ops')
           /\ Kept(O, Q, C) => Kept(ops', queued', C)
           /\ Followed(O, ops') /\ Grown(O, Q, queued')
  <1> DEFINE n == Len(O) + 1
  <1>1. PICK o \in Menu[n] : /\ Len(O) < Len(Menu) /\ MayIssue(O, o)
                             /\ ops' = Append(O, New(o))
                             /\ queued' = [Q EXCEPT ![QueueOf(o)] = Append(@, n)]
    BY DEF Issue
  <1> DEFINE P == Append(O, New(o))
             R == [Q EXCEPT ![QueueOf(o)] = Append(@, n)]
             p == QueueOf(o)
  <1>2. O \in Seq(Op) /\ Len(O) \in Nat /\ Len(Menu) \in Nat
    BY MenuAssumption, LenProperties DEF OpsInv
  <1>3. /\ o \in Requests /\ New(o) \in Op
        /\ New(o).ask = o /\ New(o).buf = 0 /\ New(o).len = o.len /\ New(o).res = <<>>
        /\ Len(New(o).mem) = o.len /\ Fresh(New(o))
    BY <1>1, NewOp
  <1>4. /\ P \in Seq(Op) /\ Len(P) = n /\ P[n] = New(o)
        /\ \A i \in 1..Len(O) : P[i] = O[i]
    BY <1>2, <1>3, AppendProperties
  <1>5. n \in Nat /\ 1..n = (1..Len(O)) \cup {n} /\ n \notin 1..Len(O) /\ n \in 1..Len(P)
    BY <1>2, <1>4
  <1>6. p \in PhaseName /\ o.len \in Nat
    BY <1>3 DEF Requests, QueueOf, PhaseName
  <1> HIDE DEF P, R, p
  <1>7. OpsInv(P)
    <2>1. Len(P) <= Len(Menu)
      BY <1>1, <1>2, <1>4
    <2>2. Len(New(o).res) <= 1
      BY <1>3
    <2>3. o \in Menu[n] /\ 0 + o.len = o.len
      BY <1>6
    <2> HIDE DEF n
    <2>4. ASSUME NEW i \in 1..Len(P)
          PROVE  /\ P[i].ask \in Menu[i] /\ P[i].buf + P[i].len = P[i].ask.len
                 /\ Len(P[i].mem) = P[i].ask.len /\ Len(P[i].res) <= 1
      <3>1. CASE i = n
        BY <1>3, <1>4, <2>2, <2>3, <3>1
      <3>2. CASE i \in 1..Len(O)
        BY <1>4, <3>2 DEF OpsInv
      <3> QED
        BY <1>4, <1>5, <3>1, <3>2
    <2> QED
      BY <1>4, <2>1, <2>4 DEF OpsInv
  <1>8. KindOf(P, n) = p /\ Pending(P, n)
    BY <1>3, <1>4 DEF KindOf, Pending, p
  <1>9. \A i \in 1..Len(O) : KindOf(P, i) = KindOf(O, i) /\ (Pending(P, i) <=> Pending(O, i))
    BY <1>4 DEF KindOf, Pending
  <1>10. Len(P) \in Nat /\ Len(O) <= Len(P)
    BY <1>2, <1>4
  <1>11. /\ DOMAIN Q = PhaseName /\ DOMAIN C = PhaseName
         /\ \A q \in PhaseName : /\ QueueInv(O, Q[q], q) /\ QueueInv(O, C[q], q)
                                 /\ Range(Q[q]) \cap Range(C[q]) = {}
    BY DEF Placed
  <1>12. \A q \in PhaseName : QueueInv(P, Q[q], q) /\ QueueInv(P, C[q], q)
    BY <1>2, <1>4, <1>10, <1>11, QueueStays
  <1>13. \A q \in PhaseName : n \notin Range(Q[q]) /\ n \notin Range(C[q])
    <2> SUFFICES ASSUME NEW q \in PhaseName
                 PROVE  n \notin Range(Q[q]) /\ n \notin Range(C[q])
      OBVIOUS
    <2>1. /\ Q[q] \in Seq(1..Len(O)) /\ DOMAIN Q[q] = 1..Len(Q[q])
          /\ C[q] \in Seq(1..Len(O)) /\ DOMAIN C[q] = 1..Len(C[q])
      BY <1>11, LenProperties DEF QueueInv
    <2>2. \A j \in DOMAIN Q[q] : Q[q][j] \in 1..Len(O)
      BY <2>1, ElementOfSeq
    <2>3. \A j \in DOMAIN C[q] : C[q][j] \in 1..Len(O)
      BY <2>1, ElementOfSeq
    <2> QED
      BY <1>5, <2>2, <2>3 DEF Range
  <1>14. /\ DOMAIN R = PhaseName /\ R[p] = Append(Q[p], n)
         /\ \A q \in PhaseName : q # p => R[q] = Q[q]
    BY <1>6, <1>11 DEF R, p
  <1>15. QueueInv(P, R[p], p) /\ Range(R[p]) = Range(Q[p]) \cup {n}
    BY <1>5, <1>6, <1>8, <1>10, <1>12, <1>13, <1>14, AppendKeeps
  <1>21. Grown(O, Q, R)
    BY <1>14 DEF Grown
  <1> HIDE DEF n
  <1>16. Placed(P, R, C)
    BY <1>6, <1>11, <1>12, <1>13, <1>14, <1>15 DEF Placed
  <1>17. Exclusive(P)
    <2> SUFFICES ASSUME NEW i \in 1..Len(P), NEW j \in 1..Len(P),
                        Pending(P, i), Pending(P, j), KindOf(P, i) = KindOf(P, j),
                        P[i].ask.fd = P[j].ask.fd, P[i].ask.fd \notin Shared
                 PROVE  i = j
      BY DEF Exclusive
    <2>1. CASE i \in 1..Len(O) /\ j \in 1..Len(O)
      BY <1>4, <1>9, <2>1 DEF Exclusive
    <2>2. \A k \in 1..Len(O) :
            Pending(O, k) /\ KindOf(O, k) = p => O[k].ask.fd # o.fd \/ o.fd \in Shared
      BY <1>1 DEF MayIssue, InFlight, Pending, KindOf, p
    <2>3. CASE i = n /\ j \in 1..Len(O)
      BY <1>3, <1>4, <1>8, <1>9, <2>2, <2>3
    <2>4. CASE j = n /\ i \in 1..Len(O)
      BY <1>3, <1>4, <1>8, <1>9, <2>2, <2>4
    <2> QED
      BY <1>4, <1>5, <2>1, <2>3, <2>4
  <1>18. ASSUME Kept(O, Q, C) PROVE Kept(P, R, C)
    <2> SUFFICES ASSUME NEW i \in 1..Len(P), Pending(P, i)
                 PROVE  i \in Range(R[KindOf(P, i)]) \cup Range(C[KindOf(P, i)])
      BY DEF Kept
    <2>1. CASE i = n
      BY <1>8, <1>15, <2>1
    <2>2. CASE i \in 1..Len(O)
      <3>1. KindOf(P, i) \in PhaseName
        BY <1>9, <2>2, OpShape
      <3>2. i \in Range(Q[KindOf(P, i)]) \cup Range(C[KindOf(P, i)])
        BY <1>9, <1>18, <2>2 DEF Kept
      <3> QED
        BY <1>14, <1>15, <3>1, <3>2
    <2> QED
      BY <1>4, <1>5, <2>1, <2>2
  <1>19. Followed(O, P)
    BY <1>3, <1>4, <1>5, <1>10 DEF Followed
  <1>20. ops' = P /\ queued' = R
    BY <1>1 DEF P, R, n
  <1> QED
    BY <1>7, <1>16, <1>17, <1>18, <1>19, <1>20, <1>21

\* What a callback may do to what it was given.
Continue(O, Q, T) == Issue(O, Q, T) \/ Stop(O, Q, T) \/ Reset(O, Q, T) \/ Return(O, Q, T)

\* Of the ticks T that the code before it left it takes none but from a timer
\* that it sets anew.
TicksKept(T) == \A t \in Timer : T[t] > 0 \/ alarm[t] # "expired" => Unread(t)'

LEMMA ContinueKeeps ==
    ASSUME NEW O, NEW Q, NEW C, NEW T,
           OpsInv(O), Placed(O, Q, C), Exclusive(O), Continue(O, Q, T),
           T \in [Timer -> Nat], alarm \in [Timer -> AlarmState], m_stop \in BOOLEAN
    PROVE  /\ OpsInv(ops') /\ Placed(ops', queued', C) /\ Exclusive(ops')
           /\ Kept(O, Q, C) => Kept(ops', queued', C)
           /\ Followed(O, ops') /\ Grown(O, Q, queued')
           /\ ticks' \in [Timer -> Nat] /\ TicksKept(T)
           /\ alarm' \in [Timer -> AlarmState] /\ m_stop' \in BOOLEAN
  <1>1. Len(O) \in Nat
    BY LenProperties DEF OpsInv
  <1>2. Followed(O, O) /\ Grown(O, Q, Q)
    BY <1>1 DEF Followed, Grown
  <1>3. CASE Issue(O, Q, T)
    <2>1. ticks' = T /\ alarm' = alarm /\ m_stop' = m_stop
      BY <1>3 DEF Issue
    <2>2. TicksKept(T)
      BY <2>1 DEF TicksKept, Unread
    <2> QED
      BY <1>3, <2>1, <2>2, IssueKeeps
  <1>4. CASE Stop(O, Q, T)
    BY <1>2, <1>4 DEF Stop, TicksKept, Unread
  <1>5. CASE Return(O, Q, T)
    BY <1>2, <1>5 DEF Return, TicksKept, Unread
  <1>6. CASE Reset(O, Q, T)
    <2>1. PICK t \in Timer, a \in Settings :
            /\ alarm' = [alarm EXCEPT ![t] = a]
            /\ ticks' = [T EXCEPT ![t] = 0]
            /\ ops' = O /\ queued' = Q /\ m_stop' = m_stop
      BY <1>6 DEF Reset
    <2>2. a \in AlarmState /\ a # "expired"
      BY DEF Settings, AlarmState
    <2>3. ticks' \in [Timer -> Nat] /\ alarm' \in [Timer -> AlarmState]
      BY <2>1, <2>2
    <2>4. TicksKept(T)
      BY <2>1, <2>2 DEF TicksKept, Unread
    <2> QED
      BY <1>2, <2>1, <2>3, <2>4
  <1> QED
    BY <1>3, <1>4, <1>5, <1>6 DEF Continue

-----------------------------------------------------------------------------
(* Progress of an operation. *)

\* Operation i is in no queue.
TakenOut(O, Q, C, i) == i \notin Range(Q[KindOf(O, i)]) \cup Range(C[KindOf(O, i)])
KeptBut(O, Q, C, i) ==
    \A k \in 1..Len(O) :
        Pending(O, k) /\ k # i => k \in Range(Q[KindOf(O, k)]) \cup Range(C[KindOf(O, k)])

\* h is operation i after some more of it was done.
Advanced(O, i, h) ==
    /\ h \in Op /\ h.ask = O[i].ask /\ h.buf + h.len = h.ask.len
    /\ Len(h.mem) = h.ask.len /\ Len(h.res) <= 1

LEMMA UpdateOp ==
    ASSUME NEW O, NEW i \in 1..Len(O), NEW h, OpsInv(O), Advanced(O, i, h)
    PROVE  /\ OpsInv([O EXCEPT ![i] = h])
           /\ Len([O EXCEPT ![i] = h]) = Len(O)
           /\ \A k \in 1..Len(O) : [O EXCEPT ![i] = h][k] = IF k = i THEN h ELSE O[k]
  <1> DEFINE P == [O EXCEPT ![i] = h]
  <1>1. O \in Seq(Op) /\ h \in Op
    BY DEF OpsInv, Advanced
  <1>2. P \in Seq(Op) /\ Len(P) = Len(O) /\ \A k \in 1..Len(O) : P[k] = IF k = i THEN h ELSE O[k]
    BY <1>1, ExceptSeq
  <1> HIDE DEF P
  <1>3. ASSUME NEW k \in 1..Len(P)
        PROVE  /\ P[k].ask \in Menu[k] /\ P[k].buf + P[k].len = P[k].ask.len
               /\ Len(P[k].mem) = P[k].ask.len /\ Len(P[k].res) <= 1
    BY <1>2 DEF OpsInv, Advanced
  <1>4. OpsInv(P)
    BY <1>2, <1>3 DEF OpsInv
  <1> QED
    BY <1>2, <1>4 DEF P

\* Taken out, it may be changed without regard to the queues; in one or none,
\* as long as it stays pending or not.
LEMMA UpdateKeeps ==
    ASSUME NEW O, NEW Q, NEW C, NEW i \in 1..Len(O), NEW h,
           OpsInv(O), Placed(O, Q, C), Exclusive(O), Advanced(O, i, h),
           Pending(O, i), TakenOut(O, Q, C, i)
    PROVE  /\ Placed([O EXCEPT ![i] = h], Q, C)
           /\ Exclusive([O EXCEPT ![i] = h])
           /\ TakenOut([O EXCEPT ![i] = h], Q, C, i)
           /\ KeptBut(O, Q, C, i) => KeptBut([O EXCEPT ![i] = h], Q, C, i)
  <1> DEFINE P == [O EXCEPT ![i] = h]
  <1>1. Len(O) \in Nat
    BY LenProperties DEF OpsInv
  <1>2. Len(P) = Len(O) /\ \A k \in 1..Len(O) : P[k] = IF k = i THEN h ELSE O[k]
    BY UpdateOp
  <1> HIDE DEF P
  <1>3. \A k \in 1..Len(O) : KindOf(P, k) = KindOf(O, k) /\ P[k].ask = O[k].ask
    BY <1>2 DEF KindOf, Advanced
  <1>4. \A k \in 1..Len(O) : k # i => P[k] = O[k] /\ (Pending(P, k) <=> Pending(O, k))
    BY <1>2 DEF Pending
  <1>5. KindOf(O, i) \in PhaseName
    BY OpShape
  <1>6. \A q \in PhaseName : i \notin Range(Q[q]) /\ i \notin Range(C[q])
    <2> SUFFICES ASSUME NEW q \in PhaseName
                 PROVE  i \notin Range(Q[q]) /\ i \notin Range(C[q])
      OBVIOUS
    <2>1. CASE q = KindOf(O, i)
      BY <2>1 DEF TakenOut
    <2>2. CASE q # KindOf(O, i)
      <3>1. /\ Q[q] \in Seq(1..Len(O)) /\ C[q] \in Seq(1..Len(O))
            /\ \A j \in 1..Len(Q[q]) : KindOf(O, Q[q][j]) = q
            /\ \A j \in 1..Len(C[q]) : KindOf(O, C[q][j]) = q
        BY DEF Placed, QueueInv
      <3>2. DOMAIN Q[q] = 1..Len(Q[q]) /\ DOMAIN C[q] = 1..Len(C[q])
        BY <3>1, LenProperties
      <3> QED
        BY <2>2, <3>1, <3>2 DEF Range
    <2> QED
      BY <2>1, <2>2
  <1>7. \A q \in PhaseName : QueueInv(O, Q[q], q) /\ QueueInv(O, C[q], q)
    BY DEF Placed
  <1>8. \A q \in PhaseName : QueueInv(P, Q[q], q)
    <2> SUFFICES ASSUME NEW q \in PhaseName PROVE QueueInv(P, Q[q], q)
      OBVIOUS
    <2>1. \A k \in 1..Len(O) : k \in Range(Q[q]) => P[k].ask = O[k].ask /\ P[k].res = O[k].res
      BY <1>4, <1>6
    <2> QED
      BY <1>1, <1>2, <1>7, <2>1, QueueStays
  <1>9. \A q \in PhaseName : QueueInv(P, C[q], q)
    <2> SUFFICES ASSUME NEW q \in PhaseName PROVE QueueInv(P, C[q], q)
      OBVIOUS
    <2>1. \A k \in 1..Len(O) : k \in Range(C[q]) => P[k].ask = O[k].ask /\ P[k].res = O[k].res
      BY <1>4, <1>6
    <2> QED
      BY <1>1, <1>2, <1>7, <2>1, QueueStays
  <1>10. Placed(P, Q, C)
    BY <1>8, <1>9 DEF Placed
  <1>11. Exclusive(P)
    BY <1>2, <1>3, <1>4 DEF Exclusive
  <1>12. TakenOut(P, Q, C, i)
    BY <1>3 DEF TakenOut
  <1>13. KeptBut(O, Q, C, i) => KeptBut(P, Q, C, i)
    BY <1>2, <1>3, <1>4 DEF KeptBut
  <1> QED
    BY <1>10, <1>11, <1>12, <1>13 DEF P

\* A served operation has become h.  The others are as they were, or new.
Served(O, i, h, P) ==
    /\ Len(O) <= Len(P) /\ P[i] = h
    /\ \A k \in 1..Len(O) : k # i => P[k] = O[k]
    /\ \A k \in 1..Len(P) : k \notin 1..Len(O) => Fresh(P[k])

\* Calling the callback of an operation that is in no queue.
LEMMA CallbackKeeps ==
    ASSUME NEW O, NEW C, NEW i \in 1..Len(O), NEW r \in Nat, NEW T,
           OpsInv(O), Placed(O, queued, C), Exclusive(O),
           Pending(O, i), TakenOut(O, queued, C, i), Callback(O, i, r, T),
           T \in [Timer -> Nat], alarm \in [Timer -> AlarmState], m_stop \in BOOLEAN
    PROVE  /\ OpsInv(ops') /\ Placed(ops', queued', C) /\ Exclusive(ops')
           /\ KeptBut(O, queued, C, i) => Kept(ops', queued', C)
           /\ Served(O, i, [O[i] EXCEPT !.res = <<r>>], ops') /\ Grown(O, queued, queued')
           /\ ticks' \in [Timer -> Nat] /\ TicksKept(T)
           /\ alarm' \in [Timer -> AlarmState] /\ m_stop' \in BOOLEAN
  <1> DEFINE h == [O[i] EXCEPT !.res = <<r>>]
             P == [O EXCEPT ![i] = h]
  <1>1. O[i] \in Op /\ O[i].res = <<>>
    BY OpShape DEF Pending
  <1>2. Append(O[i].res, r) = <<r>> /\ <<r>> \in Seq(Nat) /\ Len(<<r>>) = 1 /\ <<r>> # <<>>
    BY <1>1
  <1>3. /\ h.ask = O[i].ask /\ h.buf = O[i].buf /\ h.len = O[i].len
        /\ h.mem = O[i].mem /\ h.res = <<r>> /\ h \in Op
    BY <1>1, <1>2 DEF Op
  <1>4. Continue(P, queued, T)
    <2>1. [O EXCEPT ![i].res = Append(@, r)] = P
      BY <1>2
    <2> QED
      BY <2>1 DEF Callback, Continue
  <1> HIDE DEF h
  <1>6. Advanced(O, i, h)
    BY <1>2, <1>3 DEF Advanced, OpsInv
  <1>7. /\ OpsInv(P) /\ Len(P) = Len(O)
        /\ \A k \in 1..Len(O) : P[k] = IF k = i THEN h ELSE O[k]
    BY <1>6, UpdateOp
  <1>8. /\ Placed(P, queued, C) /\ Exclusive(P)
        /\ KeptBut(O, queued, C, i) => KeptBut(P, queued, C, i)
    BY <1>6, UpdateKeeps
  <1> HIDE DEF P
  <1>9. ~Pending(P, i)
    BY <1>2, <1>3, <1>7 DEF Pending
  <1>10. KeptBut(P, queued, C, i) => Kept(P, queued, C)
    BY <1>7, <1>9 DEF KeptBut, Kept
  <1>11. /\ OpsInv(ops') /\ Placed(ops', queued', C) /\ Exclusive(ops')
         /\ Kept(P, queued, C) => Kept(ops', queued', C)
         /\ Followed(P, ops') /\ Grown(P, queued, queued')
         /\ ticks' \in [Timer -> Nat] /\ TicksKept(T)
         /\ alarm' \in [Timer -> AlarmState] /\ m_stop' \in BOOLEAN
    BY <1>4, <1>7, <1>8, ContinueKeeps
  <1>12. Served(O, i, h, ops')
    BY <1>7, <1>11 DEF Followed, Served
  <1>13. Grown(O, queued, queued')
    <2>1. \A k \in 1..Len(O) : P[k].ask = O[k].ask
      BY <1>3, <1>7
    <2> QED
      BY <1>7, <1>11, <2>1, GrownAs
  <1> QED
    BY <1>8, <1>10, <1>11, <1>12, <1>13 DEF h

\* The same, of a handler: at its end it calls back with the whole length, before
\* that the operation goes back into its queue.
Handled(o, r) ==
    IF o.len = r THEN [Advance(o, r) EXCEPT !.res = <<o.ask.len>>] ELSE Advance(o, r)

LEMMA HandlerKeeps ==
    ASSUME NEW O, NEW C, NEW i \in 1..Len(O), NEW r \in 0..O[i].len,
           OpsInv(O), Placed(O, queued, C), Exclusive(O),
           Pending(O, i), TakenOut(O, queued, C, i), Whole(O[i]), Handler(O, i, r),
           ticks \in [Timer -> Nat], alarm \in [Timer -> AlarmState], m_stop \in BOOLEAN
    PROVE  /\ OpsInv(ops') /\ Placed(ops', queued', C) /\ Exclusive(ops')
           /\ KeptBut(O, queued, C, i) => Kept(ops', queued', C)
           /\ Served(O, i, Handled(O[i], r), ops') /\ Grown(O, queued, queued')
           /\ ticks' \in [Timer -> Nat] /\ TicksKept(ticks)
           /\ alarm' \in [Timer -> AlarmState] /\ m_stop' \in BOOLEAN
  <1> DEFINE h == Advance(O[i], r)
             P == [O EXCEPT ![i] = h]
  <1>1. O[i] \in Op /\ O[i].res = <<>> /\ O[i].len \in Nat /\ O[i].buf \in Nat
    BY OpShape DEF Pending, Op
  <1>2. h = [O[i] EXCEPT !.len = O[i].len - r, !.buf = O[i].buf + r]
    BY DEF Advance
  <1>3. /\ h.ask = O[i].ask /\ h.buf = O[i].buf + r /\ h.len = O[i].len - r
        /\ h.mem = O[i].mem /\ h.res = <<>> /\ h \in Op
    <2> DEFINE l == O[i].len - r
               b == O[i].buf + r
    <2>1. l \in Nat /\ b \in Nat
      BY <1>1
    <2>2. h = [O[i] EXCEPT !.len = l, !.buf = b]
      BY <1>2
    <2> HIDE DEF l, b
    <2>3. /\ h.ask = O[i].ask /\ h.buf = b /\ h.len = l
          /\ h.mem = O[i].mem /\ h.res = <<>> /\ h \in Op
      BY <1>1, <2>1, <2>2 DEF Op
    <2> QED
      BY <2>3 DEF l, b
  <1>4. IF h.len = 0
        THEN Callback(P, i, h.ask.len, ticks)
        ELSE Return(P, [queued EXCEPT ![QueueOf(h.ask)] = Append(@, i)], ticks)
    BY DEF Handler, Ends
  <1>5. Handled(O[i], r) = IF h.len = 0 THEN [h EXCEPT !.res = <<h.ask.len>>] ELSE h
    BY <1>1, <1>3 DEF Handled
  <1> HIDE DEF h
  <1>6. Advanced(O, i, h)
    <2>1. O[i].buf + O[i].len = O[i].ask.len /\ Len(O[i].mem) = O[i].ask.len
      BY DEF OpsInv
    <2>2. (O[i].buf + r) + (O[i].len - r) = O[i].ask.len
      BY <1>1, <2>1
    <2> QED
      BY <1>3, <2>1, <2>2 DEF Advanced
  <1>7. /\ OpsInv(P) /\ Len(P) = Len(O)
        /\ \A k \in 1..Len(O) : P[k] = IF k = i THEN h ELSE O[k]
    BY <1>6, UpdateOp
  <1>8. /\ Placed(P, queued, C) /\ Exclusive(P) /\ TakenOut(P, queued, C, i)
        /\ KeptBut(O, queued, C, i) => KeptBut(P, queued, C, i)
    BY <1>6, UpdateKeeps
  <1> HIDE DEF P
  <1>9. Pending(P, i) /\ KindOf(P, i) = QueueOf(h.ask) /\ KindOf(P, i) \in PhaseName
    BY <1>3, <1>7, OpShape DEF Pending, KindOf
  <1>10. \A k \in 1..Len(O) : k # i => KindOf(P, k) = KindOf(O, k) /\ P[k] = O[k]
    BY <1>7 DEF KindOf
  <1>11. CASE h.len = 0
    <2>1. h.ask.len \in Nat
      BY <1>3, OpShape
    <2>2. /\ OpsInv(ops') /\ Placed(ops', queued', C) /\ Exclusive(ops')
          /\ KeptBut(P, queued, C, i) => Kept(ops', queued', C)
          /\ Served(P, i, [P[i] EXCEPT !.res = <<h.ask.len>>], ops')
          /\ Grown(P, queued, queued')
          /\ ticks' \in [Timer -> Nat] /\ TicksKept(ticks)
          /\ alarm' \in [Timer -> AlarmState] /\ m_stop' \in BOOLEAN
      BY <1>4, <1>7, <1>8, <1>9, <1>11, <2>1, CallbackKeeps
    <2>3. Served(O, i, Handled(O[i], r), ops')
      BY <1>5, <1>7, <1>11, <2>2 DEF Served
    <2>4. Grown(O, queued, queued')
      <3>1. \A k \in 1..Len(O) : P[k].ask = O[k].ask
        BY <1>3, <1>7
      <3> QED
        BY <1>7, <2>2, <3>1, GrownAs
    <2> QED
      BY <1>8, <2>2, <2>3, <2>4
  <1>12. CASE h.len # 0
    <2> DEFINE q == QueueOf(h.ask)
               R == [queued EXCEPT ![q] = Append(@, i)]
    <2>1. /\ ops' = P /\ queued' = R /\ ticks' = ticks
          /\ alarm' = alarm /\ m_stop' = m_stop
      BY <1>4, <1>12 DEF Return
    <2>2. /\ DOMAIN R = PhaseName /\ R[q] = Append(queued[q], i)
          /\ \A p \in PhaseName : p # q => R[p] = queued[p]
      BY <1>8, <1>9 DEF Placed
    <2> HIDE DEF R
    <2>3. i \notin Range(queued[q]) /\ i \notin Range(C[q])
      BY <1>8, <1>9 DEF TakenOut
    <2>4. Len(P) \in Nat
      BY <1>7, LenProperties DEF OpsInv
    <2>5. \A p \in PhaseName : /\ QueueInv(P, queued[p], p) /\ QueueInv(P, C[p], p)
                               /\ Range(queued[p]) \cap Range(C[p]) = {}
      BY <1>8 DEF Placed
    <2>6. QueueInv(P, R[q], q) /\ Range(R[q]) = Range(queued[q]) \cup {i}
      <3>1. i \in 1..Len(P)
        BY <1>7
      <3> QED
        BY <1>9, <2>2, <2>3, <2>4, <2>5, <3>1, AppendKeeps
    <2> HIDE DEF q
    <2>7. q \in PhaseName /\ KindOf(P, i) = q
      BY <1>9 DEF q
    <2>8. Placed(P, R, C)
      BY <1>8, <2>2, <2>3, <2>5, <2>6, <2>7 DEF Placed
    <2>9. ASSUME KeptBut(P, queued, C, i) PROVE Kept(P, R, C)
      <3> SUFFICES ASSUME NEW k \in 1..Len(P), Pending(P, k)
                   PROVE  k \in Range(R[KindOf(P, k)]) \cup Range(C[KindOf(P, k)])
        BY DEF Kept
      <3>1. KindOf(P, k) \in PhaseName
        BY <1>7, OpShape
      <3>2. CASE k = i
        BY <2>6, <2>7, <3>2
      <3>3. CASE k # i
        BY <2>2, <2>6, <2>9, <3>1, <3>3 DEF KeptBut
      <3> QED
        BY <3>2, <3>3
    <2>10. Served(O, i, Handled(O[i], r), P)
      BY <1>5, <1>7, <1>12, LenProperties DEF Served, OpsInv
    <2>11. TicksKept(ticks)
      BY <2>1 DEF TicksKept, Unread
    <2>12. Grown(O, queued, R)
      BY <2>2 DEF Grown
    <2> QED
      BY <1>7, <1>8, <2>1, <2>8, <2>9, <2>10, <2>11, <2>12
  <1> QED
    BY <1>11, <1>12

-----------------------------------------------------------------------------
(* The next operation of a turn. *)

\* It is pending, reported by select, and from now on in no queue.
LEMMA ServeTakes ==
    ASSUME NEW q \in PhaseName, NEW i, Serve(q, i),
           OpsInv(ops), Placed(ops, queued, current)
    PROVE  /\ i \in 1..Len(ops) /\ KindOf(ops, i) = q /\ Pending(ops, i)
           /\ pc = "serve" /\ ops[i].ask.fd \in Reported(q)
           /\ Placed(ops, queued, current') /\ TakenOut(ops, queued, current', i)
           /\ \A p \in PhaseName : Range(current'[p]) = Range(current[p]) \ {i}
           /\ Kept(ops, queued, current) => KeptBut(ops, queued, current', i)
           /\ i \in Range(current[q])
           /\ rfds' = rfds /\ wfds' = wfds
  <1> DEFINE j == CHOOSE j \in Ready(q) : \A l \in Ready(q) : j <= l
  <1>1. /\ pc = "serve" /\ Ready(q) # {} /\ i = current[q][j]
        /\ current' = [current EXCEPT ![q] = RemoveAt(@, j)]
        /\ rfds' = rfds /\ wfds' = wfds
    BY DEF Serve
  <1>2. /\ DOMAIN current = PhaseName
        /\ \A p \in PhaseName : /\ QueueInv(ops, queued[p], p) /\ QueueInv(ops, current[p], p)
                                /\ Range(queued[p]) \cap Range(current[p]) = {}
    BY DEF Placed
  <1>3. /\ current[q] \in Seq(1..Len(ops)) /\ Len(current[q]) \in Nat
        /\ DOMAIN current[q] = 1..Len(current[q])
    BY <1>2, LenProperties DEF QueueInv
  <1>4. j \in Ready(q)
    <2>1. Ready(q) \subseteq Nat
      BY DEF Ready
    <2>2. \E k \in Ready(q) : \A l \in Ready(q) : k <= l
      BY <1>1, <2>1, LeastOf
    <2> QED
      BY <2>2
  <1> HIDE DEF j
  <1>5. j \in 1..Len(current[q]) /\ ops[i].ask.fd \in Reported(q)
    BY <1>1, <1>4 DEF Ready, Reported
  <1>6. /\ i \in 1..Len(ops) /\ KindOf(ops, i) = q /\ Pending(ops, i)
        /\ i \in Range(current[q])
    <2>1. current[q][j] \in 1..Len(ops)
      BY <1>3, <1>5, ElementOfSeq
    <2> QED
      BY <1>1, <1>2, <1>3, <1>5, <2>1 DEF QueueInv, Range
  <1>7. Len(ops) \in Nat
    BY LenProperties DEF OpsInv
  <1>8. /\ DOMAIN current' = PhaseName /\ current'[q] = RemoveAt(current[q], j)
        /\ \A p \in PhaseName : p # q => current'[p] = current[p]
    BY <1>1, <1>2
  <1>9. /\ QueueInv(ops, current'[q], q)
        /\ Range(current'[q]) = Range(current[q]) \ {i}
    BY <1>1, <1>2, <1>5, <1>7, <1>8, RemoveKeeps
  <1>10. \A p \in PhaseName : p # q => i \notin Range(current[p]) /\ i \notin Range(queued[p])
    <2> SUFFICES ASSUME NEW p \in PhaseName, p # q
                 PROVE  i \notin Range(current[p]) /\ i \notin Range(queued[p])
      OBVIOUS
    <2>1. /\ current[p] \in Seq(1..Len(ops)) /\ queued[p] \in Seq(1..Len(ops))
          /\ \A k \in 1..Len(current[p]) : KindOf(ops, current[p][k]) = p
          /\ \A k \in 1..Len(queued[p]) : KindOf(ops, queued[p][k]) = p
      BY <1>2 DEF QueueInv
    <2>2. DOMAIN current[p] = 1..Len(current[p]) /\ DOMAIN queued[p] = 1..Len(queued[p])
      BY <2>1, LenProperties
    <2> QED
      BY <1>6, <2>1, <2>2 DEF Range
  <1>11. \A p \in PhaseName : Range(current'[p]) = Range(current[p]) \ {i}
    BY <1>8, <1>9, <1>10
  <1>12. Placed(ops, queued, current')
    BY <1>2, <1>8, <1>9, <1>11 DEF Placed
  <1>13. TakenOut(ops, queued, current', i)
    BY <1>2, <1>6, <1>11 DEF TakenOut
  <1>14. ASSUME Kept(ops, queued, current) PROVE KeptBut(ops, queued, current', i)
    <2> SUFFICES ASSUME NEW k \in 1..Len(ops), Pending(ops, k), k # i
                 PROVE  k \in Range(queued[KindOf(ops, k)]) \cup Range(current'[KindOf(ops, k)])
      BY DEF KeptBut
    <2>1. KindOf(ops, k) \in PhaseName
      BY OpShape
    <2> QED
      BY <1>11, <1>14, <2>1 DEF Kept
  <1> QED
    BY <1>1, <1>5, <1>6, <1>11, <1>12, <1>13, <1>14

\* After it was served with T ticks left, and has become h.
AfterStep(i, h, T) ==
    /\ OpsInv(ops') /\ Placed(ops', queued', current') /\ Exclusive(ops')
    /\ Kept(ops', queued', current')
    /\ Served(ops, i, h, ops') /\ Grown(ops, queued, queued')
    /\ ticks' \in [Timer -> Nat] /\ TicksKept(T)
    /\ alarm' \in [Timer -> AlarmState] /\ m_stop' \in BOOLEAN

\* Before that: operation i has become g, still pending, in no queue.
LEMMA ServeUpdates ==
    ASSUME LoopInv, NEW q \in PhaseName, NEW i, Serve(q, i), NEW g,
           Advanced(ops, i, g), g.res = <<>>
    PROVE  LET O == [ops EXCEPT ![i] = g]
           IN /\ i \in 1..Len(O) /\ O[i] = g
              /\ OpsInv(O) /\ Placed(O, queued, current') /\ Exclusive(O)
              /\ Pending(O, i) /\ TakenOut(O, queued, current', i)
              /\ KeptBut(O, queued, current', i)
              /\ \A h, T : Served(O, i, h, ops') => Served(ops, i, h, ops')
              /\ Grown(O, queued, queued') => Grown(ops, queued, queued')
  <1> DEFINE O == [ops EXCEPT ![i] = g]
  <1>1. OpsInv(ops) /\ Placed(ops, queued, current) /\ Exclusive(ops)
    BY DEF LoopInv
  <1>2. /\ i \in 1..Len(ops) /\ KindOf(ops, i) = q /\ Pending(ops, i)
        /\ pc = "serve"
        /\ Placed(ops, queued, current') /\ TakenOut(ops, queued, current', i)
        /\ Kept(ops, queued, current) => KeptBut(ops, queued, current', i)
    BY <1>1, ServeTakes
  <1>3. KeptBut(ops, queued, current', i)
    BY <1>2 DEF LoopInv
  <1>4. /\ OpsInv(O) /\ Len(O) = Len(ops)
        /\ \A k \in 1..Len(ops) : O[k] = IF k = i THEN g ELSE ops[k]
    BY <1>1, <1>2, UpdateOp
  <1>5. /\ Placed(O, queued, current') /\ Exclusive(O)
        /\ TakenOut(O, queued, current', i) /\ KeptBut(O, queued, current', i)
    BY <1>1, <1>2, <1>3, UpdateKeeps
  <1> HIDE DEF O
  <1>6. i \in 1..Len(O) /\ O[i] = g /\ Pending(O, i)
    BY <1>2, <1>4 DEF Pending
  <1>7. ASSUME NEW h, Served(O, i, h, ops') PROVE Served(ops, i, h, ops')
    BY <1>4, <1>7 DEF Served
  <1>8. ASSUME Grown(O, queued, queued') PROVE Grown(ops, queued, queued')
    <2>1. \A k \in 1..Len(ops) : O[k].ask = ops[k].ask
      BY <1>4 DEF Advanced
    <2> QED
      BY <1>4, <1>8, <2>1, GrownAs
  <1> QED
    BY <1>4, <1>5, <1>6, <1>7, <1>8 DEF O

LEMMA ServeCallback ==
    ASSUME LoopInv, NEW q \in PhaseName, NEW i, Serve(q, i), NEW g,
           Advanced(ops, i, g), g.res = <<>>, NEW r \in Nat, NEW T,
           T \in [Timer -> Nat], Callback([ops EXCEPT ![i] = g], i, r, T)
    PROVE  AfterStep(i, [g EXCEPT !.res = <<r>>], T)
  <1> DEFINE O == [ops EXCEPT ![i] = g]
  <1>1. /\ i \in 1..Len(O) /\ O[i] = g
        /\ OpsInv(O) /\ Placed(O, queued, current') /\ Exclusive(O)
        /\ Pending(O, i) /\ TakenOut(O, queued, current', i)
        /\ KeptBut(O, queued, current', i)
        /\ \A h : Served(O, i, h, ops') => Served(ops, i, h, ops')
        /\ Grown(O, queued, queued') => Grown(ops, queued, queued')
    BY ServeUpdates
  <1>2. Callback(O, i, r, T)
    OBVIOUS
  <1> HIDE DEF O
  <1>3. alarm \in [Timer -> AlarmState] /\ m_stop \in BOOLEAN
    BY DEF LoopInv, WorldInv, ControlInv
  <1>4. /\ OpsInv(ops') /\ Placed(ops', queued', current') /\ Exclusive(ops')
        /\ KeptBut(O, queued, current', i) => Kept(ops', queued', current')
        /\ Served(O, i, [O[i] EXCEPT !.res = <<r>>], ops') /\ Grown(O, queued, queued')
        /\ ticks' \in [Timer -> Nat] /\ TicksKept(T)
        /\ alarm' \in [Timer -> AlarmState] /\ m_stop' \in BOOLEAN
    BY <1>1, <1>2, <1>3, CallbackKeeps
  <1> QED
    BY <1>1, <1>4 DEF AfterStep

LEMMA ServeHandler ==
    ASSUME LoopInv, NEW q \in PhaseName, NEW i, Serve(q, i), NEW g,
           Advanced(ops, i, g), g.res = <<>>, Whole(g), NEW r \in 0..g.len,
           Handler([ops EXCEPT ![i] = g], i, r)
    PROVE  AfterStep(i, Handled(g, r), ticks)
  <1> DEFINE O == [ops EXCEPT ![i] = g]
  <1>1. /\ i \in 1..Len(O) /\ O[i] = g
        /\ OpsInv(O) /\ Placed(O, queued, current') /\ Exclusive(O)
        /\ Pending(O, i) /\ TakenOut(O, queued, current', i)
        /\ KeptBut(O, queued, current', i)
        /\ \A h : Served(O, i, h, ops') => Served(ops, i, h, ops')
        /\ Grown(O, queued, queued') => Grown(ops, queued, queued')
    BY ServeUpdates
  <1>2. Handler(O, i, r)
    OBVIOUS
  <1> HIDE DEF O
  <1>3. ticks \in [Timer -> Nat] /\ alarm \in [Timer -> AlarmState] /\ m_stop \in BOOLEAN
    BY DEF LoopInv, WorldInv, ControlInv
  <1>4. r \in 0..O[i].len
    BY <1>1
  <1>5. /\ OpsInv(ops') /\ Placed(ops', queued', current') /\ Exclusive(ops')
        /\ KeptBut(O, queued, current', i) => Kept(ops', queued', current')
        /\ Served(O, i, Handled(O[i], r), ops') /\ Grown(O, queued, queued')
        /\ ticks' \in [Timer -> Nat] /\ TicksKept(ticks)
        /\ alarm' \in [Timer -> AlarmState] /\ m_stop' \in BOOLEAN
    BY <1>1, <1>2, <1>3, <1>4, HandlerKeeps
  <1> QED
    BY <1>1, <1>5 DEF AfterStep

\* What others have done stays done: they and the wire only grow.
LEMMA DoneKeeps ==
    ASSUME NEW O, NEW P, NEW W, NEW X, NEW i \in 1..Len(O), NEW h,
           OpsInv(O), OpsInv(P), DoneInv(O, W), Served(O, i, h, P),
           \A s \in Sock : Range(W[s]) \subseteq Range(X[s]),
           Whole(h) => DoneOp(h, i, X)
    PROVE  DoneInv(P, X)
  <1> SUFFICES ASSUME NEW k \in 1..Len(P), Whole(P[k])
               PROVE  DoneOp(P[k], k, X)
    BY DEF DoneInv
  <1>1. CASE k = i
    BY <1>1 DEF Served
  <1>2. CASE k # i /\ k \in 1..Len(O)
    <2>1. P[k] = O[k]
      BY <1>2 DEF Served
    <2>2. DoneOp(O[k], k, W)
      BY <1>2, <2>1 DEF DoneInv
    <2>3. QueueOf(O[k].ask) # "recv" => O[k].ask.fd \in Sock
      BY <1>2, <2>1, OpShape DEF KindOf
    <2> QED
      BY <2>1, <2>2, <2>3 DEF DoneOp
  <1>3. CASE k \notin 1..Len(O)
    BY <1>3 DEF Served, Fresh, DoneOp
  <1> QED
    BY <1>1, <1>2, <1>3

LEMMA HoldsStays ==
    ASSUME NEW p \in PhaseName, NEW u, Holds(p, u),
           p = "recv"   => (Readable(u) => Readable(u)'),
           p = "send"   => (Room(u) > 0 => (Room(u) > 0)'),
           p = "accept" => (backlog[u] > 0 => backlog'[u] > 0),
           p = "wait"   => (Unread(u) => Unread(u)')
    PROVE  Holds(p, u)'
  <1>1. CASE p = "recv"
    BY <1>1 DEF Holds
  <1>2. CASE p = "send"
    BY <1>2 DEF Holds
  <1>3. CASE p = "accept"
    BY <1>3 DEF Holds
  <1>4. CASE p = "wait"
    BY <1>4 DEF Holds
  <1> QED
    BY <1>1, <1>2, <1>3, <1>4 DEF PhaseName

\* Serving operation i keeps what select promised the other pending operations.
OthersHold(q, i) ==
    \A k \in 1..Len(ops), p \in PhaseName, s \in Sock \cup Listener \cup Timer :
        /\ k # i /\ Pending(ops, k) /\ KindOf(ops, k) = p /\ ops[k].ask.fd = s
        /\ s \notin Shared /\ ~(p = q /\ s = ops[i].ask.fd)
        /\ Holds(p, s)
        => Holds(p, s)'

LEMMA PromisedKeeps ==
    ASSUME LoopInv, NEW q \in PhaseName, NEW i, Serve(q, i), NEW h, Served(ops, i, h, ops'),
           OthersHold(q, i)
    PROVE  Promised'
  <1>1. OpsInv(ops) /\ Placed(ops, queued, current) /\ Exclusive(ops) /\ Promised
    BY DEF LoopInv
  <1>2. /\ i \in 1..Len(ops) /\ KindOf(ops, i) = q /\ Pending(ops, i)
        /\ Placed(ops, queued, current')
        /\ \A p \in PhaseName : Range(current'[p]) = Range(current[p]) \ {i}
        /\ rfds' = rfds /\ wfds' = wfds
    BY <1>1, ServeTakes
  <1> SUFFICES ASSUME NEW p \in PhaseName, NEW j \in 1..Len(current'[p])
               PROVE  (LET s == ops[current[p][j]].ask.fd
                       IN s \in Reported(p) /\ s \notin Shared => Holds(p, s))'
    BY DEF Promised
  <1>3. QueueInv(ops, current'[p], p) /\ QueueInv(ops, current[p], p)
    BY <1>1, <1>2 DEF Placed
  <1>4. PICK k \in 1..Len(ops) : /\ k = current'[p][j]
                                 /\ KindOf(ops, k) = p /\ Pending(ops, k)
    BY <1>3, ElementOfSeq DEF QueueInv
  <1>5. k \in Range(current'[p])
    BY <1>3, <1>4, LenProperties DEF QueueInv, Range
  <1>6. k # i /\ k \in Range(current[p])
    BY <1>2, <1>5
  <1>7. PICK l \in 1..Len(current[p]) : current[p][l] = k
    BY <1>3, <1>6, LenProperties DEF QueueInv, Range
  <1>8. PICK s \in Sock \cup Listener \cup Timer : s = ops[k].ask.fd
    BY <1>1, <1>4, OpShape DEF PhaseName
  <1>9. ops'[k].ask.fd = s
    BY <1>4, <1>6, <1>8 DEF Served
  <1>10. s \in Reported(p) /\ s \notin Shared => Holds(p, s)
    BY <1>1, <1>7, <1>8 DEF Promised
  <1>11. s \notin Shared => ~(p = q /\ s = ops[i].ask.fd)
    BY <1>1, <1>2, <1>4, <1>6, <1>8 DEF Exclusive
  <1>12. Reported(p)' = Reported(p)
    BY <1>2 DEF Reported
  <1>13. s \in Reported(p) /\ s \notin Shared => Holds(p, s)'
    BY <1>4, <1>6, <1>8, <1>10, <1>11 DEF OthersHold
  <1> QED
    BY <1>4, <1>9, <1>12, <1>13 DEF Holds, Unread, Readable, Room

\* What is left to show of a step that serves operation i.
LEMMA StepKeeps ==
    ASSUME LoopInv, NEW q \in PhaseName, NEW i, Serve(q, i), NEW h, NEW T,
           AfterStep(i, h, T), pc' = pc,
           WorldInv', OthersHold(q, i),
           \A s \in Sock : Range(wire[s]) \subseteq Range(wire'[s]),
           Whole(h) => DoneOp(h, i, wire')
    PROVE  LoopInv'
  <1>1. /\ OpsInv(ops) /\ Placed(ops, queued, current) /\ DoneInv(ops, wire)
        /\ ControlInv
    BY DEF LoopInv
  <1>2. i \in 1..Len(ops) /\ pc = "serve" /\ rfds' = rfds /\ wfds' = wfds
    BY <1>1, ServeTakes
  <1>3. /\ OpsInv(ops') /\ Placed(ops', queued', current') /\ Exclusive(ops')
        /\ Kept(ops', queued', current') /\ Served(ops, i, h, ops') /\ m_stop' \in BOOLEAN
    BY DEF AfterStep
  <1>4. DoneInv(ops', wire')
    BY <1>1, <1>2, <1>3, DoneKeeps
  <1>5. Promised'
    BY <1>3, PromisedKeeps
  <1>6. ControlInv'
    BY <1>1, <1>2, <1>3 DEF ControlInv
  <1> QED
    BY <1>3, <1>4, <1>5, <1>6
       DEF LoopInv, OpsInv, Placed, QueueInv, Exclusive, Kept, DoneInv, DoneOp, KindOf, Pending, Whole

-----------------------------------------------------------------------------
(* The four kinds of operations.  Operation i becomes h. *)

Step(q, i, h) ==
    /\ Serve(q, i) /\ Served(ops, i, h, ops') /\ h.ask = ops[i].ask
    /\ Grown(ops, queued, queued')

\* It has received r bytes,
RecvEffect(i, h, r) ==
    LET s == ops[i].ask.fd
        b == ops[i].buf
    IN /\ Step("recv", i, h)
       /\ r \in Nat /\ r <= Len(inbox[s]) /\ b + r <= ops[i].ask.len
       /\ Len(h.mem) = ops[i].ask.len
       /\ \A j \in 1..ops[i].ask.len :
            h.mem[j] = IF j \in (b + 1)..(b + r) THEN inbox[s][j - b] ELSE ops[i].mem[j]
       /\ h.res = <<>> => h.buf = b + r
       /\ inbox' = [inbox EXCEPT ![s] = SubSeq(inbox[s], r + 1, Len(inbox[s]))]
       /\ UNCHANGED <<arrived, wire>>

\* sent r bytes,
SendEffect(i, h, r) ==
    LET s == ops[i].ask.fd
        b == ops[i].buf
    IN /\ Step("send", i, h)
       /\ r \in Nat
       /\ h.res = <<>> => h.buf = b + r
       /\ wire' = [wire EXCEPT ![s] = wire[s] \o [j \in 1..r |-> <<i, b + j>>]]
       /\ UNCHANGED <<inbox, arrived>>

\* or neither.
OtherEffect(i, h) ==
    /\ \E q \in {"accept", "wait"} : Step(q, i, h)
    /\ UNCHANGED <<inbox, arrived, wire>>

LEMMA RecvStepKeeps == LoopInv /\ RecvStep => LoopInv' /\ \E i, h, r : RecvEffect(i, h, r)
  <1> SUFFICES ASSUME LoopInv, RecvStep PROVE LoopInv' /\ \E i, h, r : RecvEffect(i, h, r)
    OBVIOUS
  <1>1. PICK i \in Ids :
          /\ Serve("recv", i)
          /\ LET s == ops[i].ask.fd
                 b == ops[i].buf
                 r == Min2(ops[i].len, Len(inbox[s]))
                 O == [ops EXCEPT ![i].mem = [j \in DOMAIN @ |->
                          IF j \in (b + 1)..(b + r) THEN inbox[s][j - b] ELSE @[j]]]
             IN /\ s \in NonBlocking \/ Readable(s)
                /\ inbox' = [inbox EXCEPT ![s] = SubSeq(@, r + 1, Len(@))]
                /\ IF ToTheEnd(i) THEN Handler(O, i, r) ELSE Callback(O, i, r, ticks)
          /\ UNCHANGED <<arrived, eof, wire, drained, backlog, connected, pc>>
    BY DEF RecvStep
  <1> DEFINE s == ops[i].ask.fd
             b == ops[i].buf
             r == Min2(ops[i].len, Len(inbox[s]))
             m == [j \in DOMAIN ops[i].mem |->
                     IF j \in (b + 1)..(b + r) THEN inbox[s][j - b] ELSE ops[i].mem[j]]
             g == [ops[i] EXCEPT !.mem = m]
             O == [ops EXCEPT ![i] = g]
  <1>2. OpsInv(ops) /\ Placed(ops, queued, current) /\ WorldInv
    BY DEF LoopInv
  <1>3. /\ i \in 1..Len(ops) /\ KindOf(ops, i) = "recv" /\ Pending(ops, i)
        /\ pc = "serve" /\ "recv" \in PhaseName
    BY <1>1, <1>2, ServeTakes DEF PhaseName
  <1>4. ops[i] \in Op /\ ops[i].ask.len \in Nat /\ s \in Sock
    BY <1>2, <1>3, OpShape
  <1>5. /\ b \in Nat /\ ops[i].len \in Nat /\ ops[i].mem \in Seq(Nat)
        /\ b + ops[i].len = ops[i].ask.len /\ Len(ops[i].mem) = ops[i].ask.len
        /\ DOMAIN ops[i].mem = 1..ops[i].ask.len
        /\ \A j \in 1..ops[i].ask.len : ops[i].mem[j] \in Nat
    BY <1>2, <1>3, <1>4, LenProperties, ElementOfSeq DEF OpsInv, Op
  <1>6. /\ inbox[s] \in Seq(1..MaxBytes) /\ Len(inbox[s]) \in Nat
        /\ \A j \in 1..Len(inbox[s]) : inbox[s][j] \in 1..MaxBytes
    BY <1>2, <1>4, LenProperties, ElementOfSeq DEF WorldInv
  <1>7. r \in Nat /\ r <= ops[i].len /\ r <= Len(inbox[s])
    BY <1>5, <1>6 DEF Min2
  <1> HIDE DEF r, b
  <1>8. \A j \in (b + 1)..(b + r) : j - b \in 1..Len(inbox[s]) /\ inbox[s][j - b] \in 1..MaxBytes
    BY <1>5, <1>6, <1>7
  <1>9. m \in [1..ops[i].ask.len -> Nat]
    <2>1. \A x \in 1..MaxBytes : x \in Nat
      BY BoundAssumption
    <2>2. \A j \in (b + 1)..(b + r) : inbox[s][j - b] \in Nat
      BY <1>8, <2>1
    <2> QED
      BY <1>5, <2>2
  <1>10. m \in Seq(Nat) /\ Len(m) = ops[i].ask.len
    BY <1>4, <1>9, FunctionIsSeq
  <1>11. \A j \in 1..(b + r) : m[j] = IF j \in 1..b THEN ops[i].mem[j] ELSE inbox[s][j - b]
    <2> SUFFICES ASSUME NEW j \in 1..(b + r)
                 PROVE  m[j] = IF j \in 1..b THEN ops[i].mem[j] ELSE inbox[s][j - b]
      OBVIOUS
    <2>1. j \in 1..ops[i].ask.len
      BY <1>5, <1>7
    <2>2. j \in (b + 1)..(b + r) <=> j \notin 1..b
      BY <1>5, <1>7
    <2> QED
      BY <1>5, <2>1, <2>2
  <1>22. \A j \in 1..ops[i].ask.len :
           m[j] = IF j \in (b + 1)..(b + r) THEN inbox[s][j - b] ELSE ops[i].mem[j]
    BY <1>5
  <1> HIDE DEF m
  <1>12. /\ g \in Op /\ g.ask = ops[i].ask /\ g.buf = b /\ g.len = ops[i].len
         /\ g.mem = m /\ g.res = <<>>
    BY <1>3, <1>4, <1>10 DEF Op, Pending, b
  <1>13. O = [ops EXCEPT ![i].mem = m]
    OBVIOUS
  <1> HIDE DEF g
  <1>14. Advanced(ops, i, g)
    BY <1>5, <1>10, <1>12 DEF Advanced
  <1>15. IF ToTheEnd(i) THEN Handler(O, i, r) ELSE Callback(O, i, r, ticks)
    BY <1>1, <1>13 DEF m, r, b
  <1> DEFINE h == IF ToTheEnd(i) THEN Handled(g, r) ELSE [g EXCEPT !.res = <<r>>]
  <1>16. AfterStep(i, h, ticks)
    <2>1. CASE ToTheEnd(i)
      <3>1. r \in 0..g.len /\ Whole(g)
        BY <1>7, <1>12, <2>1 DEF ToTheEnd, Whole
      <3> QED
        BY <1>1, <1>3, <1>12, <1>14, <1>15, <2>1, <3>1, ServeHandler
    <2>2. CASE ~ToTheEnd(i)
      <3>1. ticks \in [Timer -> Nat]
        BY <1>2 DEF WorldInv
      <3> QED
        BY <1>1, <1>3, <1>7, <1>12, <1>14, <1>15, <2>2, <3>1, ServeCallback
    <2> QED
      BY <2>1, <2>2
  <1>17. /\ inbox' = [inbox EXCEPT ![s] = SubSeq(inbox[s], r + 1, Len(inbox[s]))]
         /\ UNCHANGED <<arrived, eof, wire, drained, backlog, connected, pc>>
    BY <1>1 DEF r
  <1>18. WorldInv'
    <2>1. SubSeq(inbox[s], r + 1, Len(inbox[s])) \in Seq(1..MaxBytes)
      <3>1. \A j \in (r + 1)..Len(inbox[s]) : inbox[s][j] \in 1..MaxBytes
        BY <1>6, <1>7
      <3> QED
        BY <1>6, <1>7, <3>1, SubSeqProperties
    <2>2. inbox' \in [Sock -> Seq(1..MaxBytes)]
      BY <1>2, <1>17, <2>1 DEF WorldInv
    <2>3. \A u \in Sock : Room(u)' \in 0..SndCap
      BY <1>2, <1>17 DEF WorldInv, Room
    <2>4. ticks' \in [Timer -> Nat] /\ alarm' \in [Timer -> AlarmState]
      BY <1>16 DEF AfterStep
    <2> QED
      BY <1>2, <1>17, <2>2, <2>3, <2>4 DEF WorldInv
  <1>19. OthersHold("recv", i)
    <2> SUFFICES ASSUME NEW k \in 1..Len(ops), NEW p \in PhaseName,
                        NEW u \in Sock \cup Listener \cup Timer,
                        k # i, Pending(ops, k), KindOf(ops, k) = p, ops[k].ask.fd = u,
                        u \notin Shared, ~(p = "recv" /\ u = s), Holds(p, u)
                 PROVE  Holds(p, u)'
      BY DEF OthersHold
    <2>1. p = "wait" => (Unread(u) => Unread(u)')
      <3>1. p = "wait" => u \in Timer
        BY <1>2, OpShape
      <3> QED
        BY <1>16, <3>1 DEF AfterStep, TicksKept, Unread
    <2>2. p = "recv" => inbox'[u] = inbox[u]
      <3>1. p = "recv" => u \in Sock
        BY <1>2, OpShape
      <3> QED
        BY <1>2, <1>17, <3>1 DEF WorldInv
    <2>3. /\ p = "recv"   => (Readable(u) => Readable(u)')
          /\ p = "send"   => (Room(u) > 0 => (Room(u) > 0)')
          /\ p = "accept" => (backlog[u] > 0 => backlog'[u] > 0)
          /\ p = "wait"   => (Unread(u) => Unread(u)')
      BY <1>17, <2>1, <2>2 DEF Readable, Room
    <2> QED
      BY <2>3, HoldsStays
  <1>20. Whole(h) => DoneOp(h, i, wire')
    <2> SUFFICES ASSUME Whole(h) PROVE DoneOp(h, i, wire')
      OBVIOUS
    <2>1. h.ask = ops[i].ask
      BY <1>12 DEF Handled, Advance, Op
    <2>2. ToTheEnd(i) /\ Whole(ops[i]) /\ QueueOf(h.ask) = "recv"
      BY <1>3, <2>1 DEF ToTheEnd, Whole, KindOf
    <2>3. DoneOp(ops[i], i, wire)
      BY <1>3, <2>2 DEF LoopInv, DoneInv
    <2>4. \A k \in 1..(b + r) : m[k] # 0
      <3> SUFFICES ASSUME NEW k \in 1..(b + r) PROVE m[k] # 0
        OBVIOUS
      <3>1. CASE k \in 1..b
        BY <1>3, <1>11, <2>3, <3>1 DEF DoneOp, KindOf, b
      <3>2. CASE k \notin 1..b
        <4>1. k \in (b + 1)..(b + r)
          BY <1>5, <1>7, <3>2
        <4> QED
          BY <1>8, <1>11, <3>2, <4>1
      <3> QED
        BY <3>1, <3>2
    <2>5. /\ h.buf = b + r /\ h.mem = m
          /\ h.res # <<>> => h.len = 0 /\ h.res = <<h.ask.len>>
      <3>1. CASE g.len = r
        BY <1>5, <1>7, <1>12, <2>2, <3>1 DEF Handled, Advance, Op
      <3>2. CASE g.len # r
        BY <1>12, <2>2, <3>2 DEF Handled, Advance, Op
      <3> QED
        BY <3>1, <3>2
    <2> QED
      BY <2>2, <2>4, <2>5 DEF DoneOp
  <1>23. h.ask = ops[i].ask /\ h.mem = m /\ (h.res = <<>> => h.buf = b + r)
    <2>1. CASE ToTheEnd(i)
      BY <1>5, <1>7, <1>12, <2>1 DEF Handled, Advance, Op
    <2>2. CASE ~ToTheEnd(i)
      BY <1>12, <2>2 DEF Op
    <2> QED
      BY <2>1, <2>2
  <1> HIDE DEF h
  <1>21. \A u \in Sock : Range(wire[u]) \subseteq Range(wire'[u])
    BY <1>17
  <1>24. LoopInv'
    BY <1>1, <1>3, <1>16, <1>17, <1>18, <1>19, <1>20, <1>21, StepKeeps
  <1>25. Step("recv", i, h)
    BY <1>1, <1>16, <1>23 DEF Step, AfterStep
  <1>26. b + r <= ops[i].ask.len
    BY <1>5, <1>7
  <1>27. RecvEffect(i, h, r)
    BY <1>7, <1>10, <1>17, <1>22, <1>23, <1>25, <1>26 DEF RecvEffect, b
  <1> QED
    BY <1>24, <1>27

LEMMA SendStepKeeps == LoopInv /\ SendStep => LoopInv' /\ \E i, h, r : SendEffect(i, h, r)
  <1> SUFFICES ASSUME LoopInv, SendStep PROVE LoopInv' /\ \E i, h, r : SendEffect(i, h, r)
    OBVIOUS
  <1>1. PICK i \in Ids :
          /\ Serve("send", i)
          /\ LET s == ops[i].ask.fd
                 r == Takes(s, ops[i].len)
             IN /\ s \in NonBlocking \/ r <= Room(s)
                /\ wire' = [wire EXCEPT ![s] = @ \o [j \in 1..r |-> <<i, ops[i].buf + j>>]]
                /\ IF ToTheEnd(i) THEN Handler(ops, i, r) ELSE Callback(ops, i, r, ticks)
          /\ UNCHANGED <<inbox, arrived, eof, drained, backlog, connected, pc>>
    BY DEF SendStep
  <1> DEFINE s == ops[i].ask.fd
             g == ops[i]
             b == g.buf
             r == Takes(s, g.len)
             a == [j \in 1..r |-> <<i, b + j>>]
  <1>2. OpsInv(ops) /\ Placed(ops, queued, current) /\ WorldInv
    BY DEF LoopInv
  <1>3. /\ i \in 1..Len(ops) /\ KindOf(ops, i) = "send" /\ Pending(ops, i)
        /\ pc = "serve" /\ "send" \in PhaseName
    BY <1>1, <1>2, ServeTakes DEF PhaseName
  <1>4. g \in Op /\ g.ask.len \in Nat /\ s \in Sock
    BY <1>2, <1>3, OpShape
  <1>5. /\ b \in Nat /\ g.len \in Nat /\ b + g.len = g.ask.len
        /\ g.res = <<>> /\ Len(g.mem) = g.ask.len
    BY <1>2, <1>3, <1>4 DEF OpsInv, Op, Pending
  <1>6. /\ wire[s] \in Seq(Nat \X Nat) /\ Len(wire[s]) \in Nat
        /\ drained[s] \in Nat /\ Room(s) \in 0..SndCap
    BY <1>2, <1>4, LenProperties DEF WorldInv
  <1>7. r \in Nat /\ r <= g.len /\ r <= Room(s)
    <2>1. s \in NonBlocking \/ r <= Room(s)
      BY <1>1
    <2>2. Room(s) \in Nat
      BY <1>6, BoundAssumption
    <2> HIDE DEF s, g
    <2>3. CASE s \in NonBlocking
      BY <1>5, <2>2, <2>3 DEF Takes, Min2
    <2>4. CASE s \notin NonBlocking
      BY <1>5, <2>1, <2>4 DEF Takes
    <2> QED
      BY <2>3, <2>4
  <1>8. [ops EXCEPT ![i] = g] = ops
    BY <1>2, LenProperties DEF OpsInv
  <1>9. Advanced(ops, i, g)
    BY <1>2, <1>3, <1>4, <1>5 DEF Advanced, OpsInv
  <1>10. /\ IF ToTheEnd(i) THEN Handler([ops EXCEPT ![i] = g], i, r)
                           ELSE Callback([ops EXCEPT ![i] = g], i, r, ticks)
         /\ wire' = [wire EXCEPT ![s] = wire[s] \o a]
         /\ UNCHANGED <<inbox, arrived, eof, drained, backlog, connected, pc>>
    BY <1>1, <1>8
  <1> HIDE DEF r
  <1>21. wire' = [wire EXCEPT ![s] = wire[s] \o [j \in 1..r |-> <<i, ops[i].buf + j>>]]
    BY <1>10
  <1> HIDE DEF b
  <1>11. a \in Seq(Nat \X Nat) /\ Len(a) = r
    <2>1. i \in Nat
      BY <1>3
    <2>2. a \in [1..r -> Nat \X Nat]
      BY <1>5, <1>7, <2>1
    <2> QED
      BY <1>7, <2>2, FunctionIsSeq
  <1>12. \A j \in 1..r : a[j] = <<i, b + j>>
    OBVIOUS
  <1> HIDE DEF a
  <1> DEFINE w == wire[s] \o a
  <1>13. /\ w \in Seq(Nat \X Nat) /\ Len(w) = Len(wire[s]) + r
         /\ \A j \in 1..(Len(wire[s]) + r) :
              w[j] = IF j <= Len(wire[s]) THEN wire[s][j] ELSE a[j - Len(wire[s])]
    BY <1>6, <1>11, ConcatProperties
  <1>14. Range(wire[s]) \subseteq Range(w) /\ \A j \in 1..r : <<i, b + j>> \in Range(w)
    <2>1. DOMAIN w = 1..(Len(wire[s]) + r) /\ DOMAIN wire[s] = 1..Len(wire[s])
      BY <1>6, <1>13, LenProperties
    <2>2. ASSUME NEW j \in 1..Len(wire[s]) PROVE wire[s][j] \in Range(w)
      <3>1. j \in DOMAIN w /\ w[j] = wire[s][j]
        BY <1>6, <1>7, <1>13, <2>1
      <3> QED
        BY <3>1 DEF Range
    <2>3. ASSUME NEW j \in 1..r PROVE <<i, b + j>> \in Range(w)
      <3>1. /\ Len(wire[s]) + j \in 1..(Len(wire[s]) + r)
            /\ ~(Len(wire[s]) + j <= Len(wire[s]))
            /\ (Len(wire[s]) + j) - Len(wire[s]) = j
        BY <1>6, <1>7
      <3>2. w[Len(wire[s]) + j] = a[j]
        BY <1>13, <3>1
      <3> QED
        BY <1>12, <2>1, <3>1, <3>2 DEF Range
    <2> QED
      BY <2>1, <2>2, <2>3 DEF Range
  <1> HIDE DEF w
  <1>15. wire' \in [Sock -> Seq(Nat \X Nat)] /\ wire'[s] = w
         /\ \A u \in Sock : u # s => wire'[u] = wire[u]
    BY <1>2, <1>4, <1>10, <1>13 DEF WorldInv, w
  <1> DEFINE h == IF ToTheEnd(i) THEN Handled(g, r) ELSE [g EXCEPT !.res = <<r>>]
  <1>16. AfterStep(i, h, ticks)
    <2>1. CASE ToTheEnd(i)
      <3>1. r \in 0..g.len /\ Whole(g)
        BY <1>5, <1>7, <2>1 DEF ToTheEnd, Whole
      <3> QED
        BY <1>1, <1>3, <1>5, <1>9, <1>10, <2>1, <3>1, ServeHandler
    <2>2. CASE ~ToTheEnd(i)
      <3>1. ticks \in [Timer -> Nat]
        BY <1>2 DEF WorldInv
      <3> QED
        BY <1>1, <1>3, <1>5, <1>7, <1>9, <1>10, <2>2, <3>1, ServeCallback
    <2> QED
      BY <2>1, <2>2
  <1>17. WorldInv'
    <2>1. PICK v \in Sock : v = s
      BY <1>4
    <2>2. Room(v)' \in 0..SndCap
      <3>1. Room(v)' = Room(v) - r
        <4>1. drained'[v] = drained[v] /\ Len(wire'[v]) = Len(wire[v]) + r
          BY <1>10, <1>13, <1>15, <2>1
        <4>2. Len(wire[v]) \in Nat /\ drained[v] \in Nat /\ SndCap \in Nat
          BY <1>6, <2>1, BoundAssumption
        <4>3. Room(v)' = SndCap - (Len(wire'[v]) - drained'[v])
          BY DEF Room
        <4>4. Room(v)' = SndCap - ((Len(wire[v]) + r) - drained[v])
          BY <4>1, <4>3
        <4> QED
          BY <1>7, <4>2, <4>4 DEF Room
      <3>2. Room(v) \in 0..SndCap /\ r <= Room(v)
        BY <1>6, <1>7, <2>1
      <3> QED
        BY <1>7, <3>1, <3>2, BoundAssumption
    <2>3. \A u \in Sock : Room(u)' \in 0..SndCap
      <3> SUFFICES ASSUME NEW u \in Sock PROVE Room(u)' \in 0..SndCap
        OBVIOUS
      <3>1. CASE u = v
        BY <2>2, <3>1
      <3>2. CASE u # v
        BY <1>2, <1>10, <1>15, <2>1, <3>2 DEF WorldInv, Room
      <3> QED
        BY <3>1, <3>2
    <2>4. ticks' \in [Timer -> Nat] /\ alarm' \in [Timer -> AlarmState]
      BY <1>16 DEF AfterStep
    <2> QED
      BY <1>2, <1>10, <1>15, <2>3, <2>4 DEF WorldInv
  <1>18. OthersHold("send", i)
    <2> SUFFICES ASSUME NEW k \in 1..Len(ops), NEW p \in PhaseName,
                        NEW u \in Sock \cup Listener \cup Timer,
                        k # i, Pending(ops, k), KindOf(ops, k) = p, ops[k].ask.fd = u,
                        u \notin Shared, ~(p = "send" /\ u = s), Holds(p, u)
                 PROVE  Holds(p, u)'
      BY DEF OthersHold
    <2>1. p = "wait" => (Unread(u) => Unread(u)')
      <3>1. p = "wait" => u \in Timer
        BY <1>2, OpShape
      <3> QED
        BY <1>16, <3>1 DEF AfterStep, TicksKept, Unread
    <2>2. p = "send" => wire'[u] = wire[u]
      <3>1. p = "send" => u \in Sock
        BY <1>2, OpShape
      <3> QED
        BY <1>15, <3>1
    <2>3. /\ p = "recv"   => (Readable(u) => Readable(u)')
          /\ p = "send"   => (Room(u) > 0 => (Room(u) > 0)')
          /\ p = "accept" => (backlog[u] > 0 => backlog'[u] > 0)
          /\ p = "wait"   => (Unread(u) => Unread(u)')
      BY <1>10, <2>1, <2>2 DEF Readable, Room
    <2> QED
      BY <2>3, HoldsStays
  <1>19. Whole(h) => DoneOp(h, i, wire')
    <2> SUFFICES ASSUME Whole(h) PROVE DoneOp(h, i, wire')
      OBVIOUS
    <2>1. h.ask = g.ask
      BY <1>4 DEF Handled, Advance, Op
    <2>2. ToTheEnd(i) /\ Whole(g) /\ QueueOf(h.ask) = "send"
      BY <1>3, <2>1 DEF ToTheEnd, Whole, KindOf
    <2>3. DoneOp(g, i, wire)
      BY <1>3, <2>2 DEF LoopInv, DoneInv
    <2>4. \A k \in 1..(b + r) : <<i, k>> \in Range(w)
      <3> SUFFICES ASSUME NEW k \in 1..(b + r) PROVE <<i, k>> \in Range(w)
        OBVIOUS
      <3>1. CASE k \in 1..b
        <4>1. QueueOf(g.ask) # "recv"
          BY <2>1, <2>2
        <4> QED
          BY <1>14, <2>3, <3>1, <4>1 DEF DoneOp, b
      <3>2. CASE k \notin 1..b
        <4>1. k - b \in 1..r /\ b + (k - b) = k
          BY <1>5, <1>7, <3>2
        <4> QED
          BY <1>14, <4>1
      <3> QED
        BY <3>1, <3>2
    <2>5. /\ h.buf = b + r
          /\ h.res # <<>> => h.len = 0 /\ h.res = <<h.ask.len>>
      <3>1. CASE g.len = r
        BY <1>4, <1>5, <1>7, <2>2, <3>1 DEF Handled, Advance, Op, b
      <3>2. CASE g.len # r
        BY <1>4, <1>5, <2>2, <3>2 DEF Handled, Advance, Op, b
      <3> QED
        BY <3>1, <3>2
    <2>6. wire'[h.ask.fd] = w
      BY <1>15, <2>1
    <2> QED
      BY <2>2, <2>4, <2>5, <2>6 DEF DoneOp
  <1>22. h.ask = ops[i].ask /\ (h.res = <<>> => h.buf = ops[i].buf + r)
    <2>1. CASE ToTheEnd(i)
      BY <1>4, <1>5, <1>7, <2>1 DEF Handled, Advance, Op, b
    <2>2. CASE ~ToTheEnd(i)
      BY <1>4, <2>2 DEF Op
    <2> QED
      BY <2>1, <2>2
  <1> HIDE DEF h
  <1>20. \A u \in Sock : Range(wire[u]) \subseteq Range(wire'[u])
    BY <1>14, <1>15
  <1>23. LoopInv'
    BY <1>1, <1>3, <1>10, <1>16, <1>17, <1>18, <1>19, <1>20, StepKeeps
  <1>24. Step("send", i, h)
    BY <1>1, <1>16, <1>22 DEF Step, AfterStep
  <1>25. SendEffect(i, h, r)
    BY <1>7, <1>10, <1>21, <1>22, <1>24 DEF SendEffect
  <1> QED
    BY <1>23, <1>25

LEMMA AcceptStepKeeps == LoopInv /\ AcceptStep => LoopInv' /\ \E i, h : OtherEffect(i, h)
  <1> SUFFICES ASSUME LoopInv, AcceptStep PROVE LoopInv' /\ \E i, h : OtherEffect(i, h)
    OBVIOUS
  <1>1. PICK i \in Ids :
          /\ Serve("accept", i)
          /\ LET l == ops[i].ask.fd
             IN IF backlog[l] > 0
                THEN /\ backlog' = [backlog EXCEPT ![l] = @ - 1]
                     /\ Callback(ops, i, 1, ticks) /\ pc' = pc
                ELSE /\ pc' = "aborted"
                     /\ Return(ops, queued, ticks) /\ UNCHANGED backlog
          /\ UNCHANGED <<traffic, connected>>
    BY DEF AcceptStep
  <1> DEFINE l == ops[i].ask.fd
             g == ops[i]
             h == [g EXCEPT !.res = <<1>>]
  <1>2. OpsInv(ops) /\ Placed(ops, queued, current) /\ WorldInv
    BY DEF LoopInv
  <1>3. /\ i \in 1..Len(ops) /\ KindOf(ops, i) = "accept" /\ Pending(ops, i)
        /\ pc = "serve" /\ "accept" \in PhaseName
        /\ Placed(ops, queued, current')
        /\ rfds' = rfds /\ wfds' = wfds
    BY <1>1, <1>2, ServeTakes DEF PhaseName
  <1>4. g \in Op /\ l \in Listener /\ ~Whole(g) /\ backlog[l] \in Nat
    BY <1>2, <1>3, OpShape DEF WorldInv
  <1>5. g.res = <<>>
    BY <1>3 DEF Pending
  <1>6. [ops EXCEPT ![i] = g] = ops
    BY <1>2, LenProperties DEF OpsInv
  <1>7. Advanced(ops, i, g)
    BY <1>2, <1>3, <1>4, <1>5 DEF Advanced, OpsInv
  <1>8. CASE backlog[l] > 0
    <2>1. /\ Callback([ops EXCEPT ![i] = g], i, 1, ticks) /\ pc' = pc
          /\ backlog' = [backlog EXCEPT ![l] = backlog[l] - 1]
          /\ UNCHANGED <<traffic, connected>>
      BY <1>1, <1>6, <1>8
    <2>2. ticks \in [Timer -> Nat]
      BY <1>2 DEF WorldInv
    <2>3. AfterStep(i, h, ticks)
      BY <1>1, <1>3, <1>5, <1>7, <2>1, <2>2, ServeCallback
    <2>4. WorldInv'
      <3>1. backlog[l] - 1 \in Nat
        BY <1>4, <1>8
      <3>2. backlog' \in [Listener -> Nat]
        BY <1>2, <2>1, <3>1 DEF WorldInv
      <3>3. \A u \in Sock : Room(u)' \in 0..SndCap
        BY <1>2, <2>1 DEF WorldInv, Room, traffic
      <3>4. ticks' \in [Timer -> Nat] /\ alarm' \in [Timer -> AlarmState]
        BY <2>3 DEF AfterStep
      <3> QED
        BY <1>2, <2>1, <3>2, <3>3, <3>4 DEF WorldInv, traffic
    <2>5. OthersHold("accept", i)
      <3> SUFFICES ASSUME NEW k \in 1..Len(ops), NEW p \in PhaseName,
                          NEW u \in Sock \cup Listener \cup Timer,
                          k # i, Pending(ops, k), KindOf(ops, k) = p, ops[k].ask.fd = u,
                          u \notin Shared, ~(p = "accept" /\ u = l), Holds(p, u)
                   PROVE  Holds(p, u)'
        BY DEF OthersHold
      <3>1. p = "wait" => (Unread(u) => Unread(u)')
        <4>1. p = "wait" => u \in Timer
          BY <1>2, OpShape
        <4> QED
          BY <2>3, <4>1 DEF AfterStep, TicksKept, Unread
      <3>2. p = "accept" => backlog'[u] = backlog[u]
        <4>1. p = "accept" => u \in Listener
          BY <1>2, OpShape
        <4> QED
          BY <1>2, <2>1, <4>1 DEF WorldInv
      <3>3. /\ p = "recv"   => (Readable(u) => Readable(u)')
            /\ p = "send"   => (Room(u) > 0 => (Room(u) > 0)')
            /\ p = "accept" => (backlog[u] > 0 => backlog'[u] > 0)
            /\ p = "wait"   => (Unread(u) => Unread(u)')
        BY <2>1, <3>1, <3>2 DEF Readable, Room, traffic
      <3> QED
        BY <3>3, HoldsStays
    <2>6. ~Whole(h)
      BY <1>4 DEF Whole, Op
    <2>7. \A u \in Sock : Range(wire[u]) \subseteq Range(wire'[u])
      BY <2>1 DEF traffic
    <2>9. h.ask = ops[i].ask
      BY <1>4 DEF Op
    <2> HIDE DEF h
    <2>10. LoopInv'
      BY <1>1, <1>3, <2>1, <2>3, <2>4, <2>5, <2>6, <2>7, StepKeeps
    <2>11. Step("accept", i, h)
      BY <1>1, <2>3, <2>9 DEF Step, AfterStep
    <2>12. OtherEffect(i, h)
      BY <2>1, <2>11 DEF OtherEffect, traffic
    <2> QED
      BY <2>10, <2>12
  <1>9. CASE ~(backlog[l] > 0)
    <2>1. /\ pc' = "aborted" /\ ops' = ops /\ queued' = queued /\ ticks' = ticks
          /\ alarm' = alarm /\ m_stop' = m_stop /\ backlog' = backlog
          /\ UNCHANGED <<traffic, connected>>
      BY <1>1, <1>9 DEF Return
    <2>2. WorldInv'
      BY <1>2, <2>1 DEF WorldInv, Room, traffic
    <2>3. Served(ops, i, g, ops')
      BY <2>1, <1>2, LenProperties DEF Served, OpsInv
    <2>4. OthersHold("accept", i)
      BY <2>1 DEF OthersHold, Holds, Unread, Readable, Room, traffic
    <2>5. Promised'
      BY <1>1, <1>3, <2>3, <2>4, PromisedKeeps
    <2>6. ControlInv'
      BY <1>3, <2>1 DEF LoopInv, ControlInv
    <2>7. OpsInv(ops)' /\ Exclusive(ops)'
      BY <2>1 DEF LoopInv, OpsInv, Exclusive, KindOf, Pending
    <2>8. Placed(ops, queued, current)'
      BY <1>3, <2>1 DEF Placed, QueueInv, KindOf, Pending
    <2>9. DoneInv(ops, wire)'
      BY <2>1 DEF LoopInv, DoneInv, DoneOp, Whole, traffic
    <2>10. LoopInv'
      BY <2>1, <2>2, <2>5, <2>6, <2>7, <2>8, <2>9 DEF LoopInv
    <2>11. Step("accept", i, g)
      BY <1>1, <2>1, <2>3 DEF Step, Grown
    <2>12. OtherEffect(i, g)
      BY <2>1, <2>11 DEF OtherEffect, traffic
    <2> QED
      BY <2>10, <2>12
  <1> QED
    BY <1>8, <1>9

LEMMA WaitStepKeeps == LoopInv /\ WaitStep => LoopInv' /\ \E i, h : OtherEffect(i, h)
  <1> SUFFICES ASSUME LoopInv, WaitStep PROVE LoopInv' /\ \E i, h : OtherEffect(i, h)
    OBVIOUS
  <1>1. PICK i \in Ids :
          /\ Serve("wait", i)
          /\ LET t == ops[i].ask.fd
             IN /\ t \in NonBlocking \/ ticks[t] > 0
                /\ Callback(ops, i, ticks[t], [ticks EXCEPT ![t] = 0])
          /\ UNCHANGED <<traffic, backlog, connected, pc>>
    BY DEF WaitStep
  <1> DEFINE t == ops[i].ask.fd
             g == ops[i]
             T == [ticks EXCEPT ![t] = 0]
             h == [g EXCEPT !.res = <<ticks[t]>>]
  <1>2. OpsInv(ops) /\ Placed(ops, queued, current) /\ WorldInv
    BY DEF LoopInv
  <1>3. /\ i \in 1..Len(ops) /\ KindOf(ops, i) = "wait" /\ Pending(ops, i)
        /\ pc = "serve" /\ "wait" \in PhaseName
    BY <1>1, <1>2, ServeTakes DEF PhaseName
  <1>4. g \in Op /\ t \in Timer /\ ~Whole(g) /\ ticks[t] \in Nat
    BY <1>2, <1>3, OpShape DEF WorldInv
  <1>5. g.res = <<>>
    BY <1>3 DEF Pending
  <1>6. [ops EXCEPT ![i] = g] = ops
    BY <1>2, LenProperties DEF OpsInv
  <1>7. Advanced(ops, i, g)
    BY <1>2, <1>3, <1>4, <1>5 DEF Advanced, OpsInv
  <1>8. T \in [Timer -> Nat] /\ \A u \in Timer : u # t => T[u] = ticks[u]
    BY <1>2 DEF WorldInv
  <1>9. /\ Callback([ops EXCEPT ![i] = g], i, ticks[t], T)
        /\ UNCHANGED <<traffic, backlog, connected, pc>>
    BY <1>1, <1>6
  <1> HIDE DEF T
  <1>10. AfterStep(i, h, T)
    BY <1>1, <1>3, <1>4, <1>5, <1>7, <1>8, <1>9, ServeCallback
  <1>11. WorldInv'
    <2>1. ticks' \in [Timer -> Nat] /\ alarm' \in [Timer -> AlarmState]
      BY <1>10 DEF AfterStep
    <2> QED
      BY <1>2, <1>9, <2>1 DEF WorldInv, Room, traffic
  <1>12. OthersHold("wait", i)
    <2> SUFFICES ASSUME NEW k \in 1..Len(ops), NEW p \in PhaseName,
                        NEW u \in Sock \cup Listener \cup Timer,
                        k # i, Pending(ops, k), KindOf(ops, k) = p, ops[k].ask.fd = u,
                        u \notin Shared, ~(p = "wait" /\ u = t), Holds(p, u)
                 PROVE  Holds(p, u)'
      BY DEF OthersHold
    <2>1. p = "wait" => (Unread(u) => Unread(u)')
      <3>1. p = "wait" => u \in Timer
        BY <1>2, OpShape
      <3>2. p = "wait" => (T[u] > 0 \/ alarm[u] # "expired" => Unread(u)')
        BY <1>10, <3>1 DEF AfterStep, TicksKept
      <3> QED
        BY <1>8, <3>1, <3>2 DEF Unread
    <2>2. /\ p = "recv"   => (Readable(u) => Readable(u)')
          /\ p = "send"   => (Room(u) > 0 => (Room(u) > 0)')
          /\ p = "accept" => (backlog[u] > 0 => backlog'[u] > 0)
          /\ p = "wait"   => (Unread(u) => Unread(u)')
      BY <1>9, <2>1 DEF Readable, Room, traffic
    <2> QED
      BY <2>2, HoldsStays
  <1>13. ~Whole(h)
    BY <1>4 DEF Whole, Op
  <1>14. \A u \in Sock : Range(wire[u]) \subseteq Range(wire'[u])
    BY <1>9 DEF traffic
  <1>15. h.ask = ops[i].ask
    BY <1>4 DEF Op
  <1> HIDE DEF h
  <1>16. LoopInv'
    BY <1>1, <1>3, <1>9, <1>10, <1>11, <1>12, <1>13, <1>14, StepKeeps
  <1>17. Step("wait", i, h)
    BY <1>1, <1>10, <1>15 DEF Step, AfterStep
  <1>18. OtherEffect(i, h)
    BY <1>9, <1>17 DEF OtherEffect, traffic
  <1> QED
    BY <1>16, <1>18

-----------------------------------------------------------------------------
(* The other steps. *)

LEMMA InitLoop == Init => LoopInv
  <1> SUFFICES ASSUME Init PROVE LoopInv
    OBVIOUS
  <1>1. WorldInv
    <2>1. /\ <<>> \in Seq(1..MaxBytes) /\ <<>> \in Seq(Nat \X Nat)
          /\ Len(<<>>) = 0 /\ 0 \in 0..MaxBytes /\ SndCap \in 0..SndCap
      BY BoundAssumption
    <2>2. /\ inbox \in [Sock -> Seq(1..MaxBytes)] /\ wire \in [Sock -> Seq(Nat \X Nat)]
          /\ arrived \in [Sock -> 0..MaxBytes] /\ eof \in [Sock -> BOOLEAN]
          /\ drained \in [Sock -> Nat]
          /\ backlog \in [Listener -> Nat] /\ connected \in [Listener -> Nat]
          /\ alarm \in [Timer -> AlarmState] /\ ticks \in [Timer -> Nat]
      BY <2>1 DEF Init, Settings, AlarmState
    <2>3. \A s \in Sock : Room(s) \in 0..SndCap
      BY <2>1, BoundAssumption DEF Init, Room
    <2> QED
      BY <2>2, <2>3 DEF WorldInv
  <1>2. ops = <<>> /\ Len(ops) = 0 /\ queued = Empty /\ current = Empty
    BY DEF Init
  <1>3. OpsInv(ops)
    <2>1. Len(Menu) \in Nat /\ <<>> \in Seq(Op)
      BY MenuAssumption, LenProperties
    <2> QED
      BY <1>2, <2>1 DEF OpsInv
  <1>4. DOMAIN Empty = PhaseName /\ \A q \in PhaseName : Empty[q] = <<>>
    BY PhaseNames DEF Empty
  <1>5. Placed(ops, queued, current)
    BY <1>2, <1>4, EmptyQueue DEF Placed
  <1>6. Exclusive(ops) /\ Kept(ops, queued, current) /\ DoneInv(ops, wire)
    BY <1>2 DEF Exclusive, Kept, DoneInv
  <1>7. Promised
    BY <1>2, <1>4 DEF Promised
  <1>8. ControlInv
    BY <1>2 DEF Init, ControlInv
  <1> QED
    BY <1>1, <1>3, <1>5, <1>6, <1>7, <1>8 DEF LoopInv

\* The world changes nothing of the loop, and takes nothing away.
LEMMA WorldKeeps ==
    ASSUME LoopInv, UNCHANGED loop, WorldInv',
           \A s \in Sock : /\ Readable(s) => Readable(s)'
                           /\ Room(s) > 0 => (Room(s) > 0)',
           \A l \in Listener : backlog[l] > 0 => backlog'[l] > 0,
           \A t \in Timer : Unread(t) => Unread(t)',
           \A s \in Sock : Range(wire[s]) \subseteq Range(wire'[s])
    PROVE  LoopInv'
  <1>1. /\ ops' = ops /\ pc' = pc /\ m_stop' = m_stop /\ queued' = queued
        /\ current' = current /\ rfds' = rfds /\ wfds' = wfds
    BY DEF loop
  <1>2. ControlInv' /\ OpsInv(ops)' /\ Exclusive(ops)'
    BY <1>1 DEF LoopInv, ControlInv, OpsInv, Exclusive, KindOf, Pending
  <1>3. Placed(ops, queued, current)' /\ (pc # "aborted" => Kept(ops, queued, current))'
    BY <1>1 DEF LoopInv, Placed, QueueInv, Kept, KindOf, Pending
  <1>4. DoneInv(ops, wire)'
    <2> SUFFICES ASSUME NEW i \in 1..Len(ops), Whole(ops[i]) PROVE DoneOp(ops[i], i, wire')
      BY <1>1 DEF DoneInv, DoneOp, Whole
    <2>1. DoneOp(ops[i], i, wire)
      BY DEF LoopInv, DoneInv
    <2>2. QueueOf(ops[i].ask) # "recv" => ops[i].ask.fd \in Sock
      <3>1. OpsInv(ops)
        BY DEF LoopInv
      <3> QED
        BY <3>1, OpShape DEF KindOf
    <2> QED
      BY <2>1, <2>2 DEF DoneOp
  <1>5. Promised'
    <2> SUFFICES ASSUME NEW q \in PhaseName, NEW j \in 1..Len(current[q])
                 PROVE  (LET s == ops[current[q][j]].ask.fd
                         IN s \in Reported(q) /\ s \notin Shared => Holds(q, s))'
      BY <1>1 DEF Promised
    <2>1. QueueInv(ops, current[q], q) /\ OpsInv(ops)
      BY DEF LoopInv, Placed
    <2>2. current[q][j] \in 1..Len(ops) /\ KindOf(ops, current[q][j]) = q
      BY <2>1, ElementOfSeq DEF QueueInv
    <2>3. PICK s : s = ops[current[q][j]].ask.fd
      OBVIOUS
    <2>4. /\ q = "recv" => s \in Sock
          /\ q = "send" => s \in Sock
          /\ q = "accept" => s \in Listener
          /\ q = "wait" => s \in Timer
      BY <2>1, <2>2, <2>3, OpShape
    <2>5. s \in Reported(q) /\ s \notin Shared => Holds(q, s)
      BY <2>3 DEF LoopInv, Promised
    <2>6. Holds(q, s) => Holds(q, s)'
      BY <2>4, HoldsStays
    <2>7. Reported(q)' = Reported(q)
      BY <1>1 DEF Reported
    <2> QED
      BY <1>1, <2>3, <2>5, <2>6, <2>7 DEF Holds, Unread, Readable, Room
  <1> QED
    BY <1>2, <1>3, <1>4, <1>5 DEF LoopInv

LEMMA ArriveKeeps == ASSUME LoopInv, NEW s \in Sock, Arrive(s) PROVE LoopInv'
  <1>1. WorldInv
    BY DEF LoopInv
  <1>2. /\ arrived[s] < MaxBytes
        /\ arrived' = [arrived EXCEPT ![s] = arrived[s] + 1]
        /\ inbox' = [inbox EXCEPT ![s] = Append(inbox[s], arrived[s] + 1)]
        /\ UNCHANGED <<eof, wire, drained, backlog, connected, alarm, ticks, loop>>
    BY DEF Arrive
  <1>3. arrived[s] + 1 \in 1..MaxBytes /\ arrived[s] + 1 \in 0..MaxBytes
    BY <1>1, <1>2, BoundAssumption DEF WorldInv
  <1>4. /\ Append(inbox[s], arrived[s] + 1) \in Seq(1..MaxBytes)
        /\ Append(inbox[s], arrived[s] + 1) # <<>>
    <2>1. inbox[s] \in Seq(1..MaxBytes)
      BY <1>1 DEF WorldInv
    <2> QED
      BY <1>3, <2>1, AppendProperties
  <1>5. WorldInv'
    <2>1. inbox' \in [Sock -> Seq(1..MaxBytes)] /\ arrived' \in [Sock -> 0..MaxBytes]
      BY <1>1, <1>2, <1>3, <1>4 DEF WorldInv
    <2>2. \A u \in Sock : Room(u)' \in 0..SndCap
      BY <1>1, <1>2 DEF WorldInv, Room
    <2> QED
      BY <1>1, <1>2, <2>1, <2>2 DEF WorldInv
  <1>6. \A u \in Sock : (Readable(u) => Readable(u)') /\ (Room(u) > 0 => (Room(u) > 0)')
    BY <1>1, <1>2, <1>4 DEF Readable, Room, WorldInv
  <1> QED
    BY <1>2, <1>5, <1>6, WorldKeeps DEF Unread

LEMMA EndOfFileKeeps == ASSUME LoopInv, NEW s \in Sock, EndOfFile(s) PROVE LoopInv'
  <1>1. WorldInv
    BY DEF LoopInv
  <1>2. /\ eof' = [eof EXCEPT ![s] = TRUE]
        /\ UNCHANGED <<inbox, arrived, wire, drained, backlog, connected, alarm, ticks, loop>>
    BY DEF EndOfFile
  <1>3. WorldInv'
    BY <1>1, <1>2 DEF WorldInv, Room
  <1>4. \A u \in Sock : (Readable(u) => Readable(u)') /\ (Room(u) > 0 => (Room(u) > 0)')
    BY <1>1, <1>2 DEF Readable, Room, WorldInv
  <1> QED
    BY <1>2, <1>3, <1>4, WorldKeeps DEF Unread

LEMMA DrainKeeps == ASSUME LoopInv, NEW s \in Sock, Drain(s) PROVE LoopInv'
  <1>1. WorldInv
    BY DEF LoopInv
  <1>2. /\ drained[s] < Len(wire[s]) /\ drained' = [drained EXCEPT ![s] = drained[s] + 1]
        /\ UNCHANGED <<inbox, arrived, eof, wire, backlog, connected, alarm, ticks, loop>>
    BY DEF Drain
  <1>3. drained[s] \in Nat /\ Len(wire[s]) \in Nat /\ Room(s) \in 0..SndCap /\ SndCap \in Nat
    BY <1>1, LenProperties, BoundAssumption DEF WorldInv
  <1>4. drained' \in [Sock -> Nat] /\ drained'[s] = drained[s] + 1
    <2>1. drained[s] + 1 \in Nat /\ drained \in [Sock -> Nat]
      BY <1>1, <1>3 DEF WorldInv
    <2> QED
      BY <1>2, <2>1
  <1>5. Room(s)' \in 0..SndCap /\ (Room(s) > 0)'
    <2>1. Room(s)' = SndCap - (Len(wire[s]) - (drained[s] + 1))
      BY <1>2, <1>4 DEF Room
    <2>2. Room(s) = SndCap - (Len(wire[s]) - drained[s])
      BY DEF Room
    <2>3. Room(s)' \in 0..SndCap /\ Room(s)' > 0
      BY <1>2, <1>3, <2>1, <2>2
    <2> QED
      BY <2>3
  <1>6. \A u \in Sock : u # s => Room(u)' = Room(u)
    BY <1>1, <1>2 DEF WorldInv, Room
  <1>7. WorldInv'
    <2>1. \A u \in Sock : Room(u)' \in 0..SndCap
      BY <1>1, <1>5, <1>6 DEF WorldInv
    <2> QED
      BY <1>1, <1>2, <1>4, <2>1 DEF WorldInv
  <1>8. \A u \in Sock : (Readable(u) => Readable(u)') /\ (Room(u) > 0 => (Room(u) > 0)')
    BY <1>2, <1>5, <1>6 DEF Readable
  <1> QED
    BY <1>2, <1>7, <1>8, WorldKeeps DEF Unread

LEMMA ConnectionKeeps == ASSUME LoopInv, NEW l \in Listener, Connection(l) PROVE LoopInv'
  <1>1. WorldInv
    BY DEF LoopInv
  <1>2. /\ connected' = [connected EXCEPT ![l] = connected[l] + 1]
        /\ backlog' = [backlog EXCEPT ![l] = backlog[l] + 1]
        /\ UNCHANGED <<inbox, arrived, eof, wire, drained, alarm, ticks, loop>>
    BY DEF Connection, traffic
  <1>3. WorldInv'
    BY <1>1, <1>2 DEF WorldInv, Room
  <1>4. \A u \in Sock : (Readable(u) => Readable(u)') /\ (Room(u) > 0 => (Room(u) > 0)')
    BY <1>2 DEF Readable, Room
  <1>5. \A k \in Listener : backlog[k] > 0 => backlog'[k] > 0
    BY <1>1, <1>2 DEF WorldInv
  <1> QED
    BY <1>2, <1>3, <1>4, <1>5, WorldKeeps DEF Unread

LEMMA TickKeeps == ASSUME LoopInv, NEW t \in Timer, Tick(t) PROVE LoopInv'
  <1>1. WorldInv
    BY DEF LoopInv
  <1>2. /\ ticks' = [ticks EXCEPT ![t] = ticks[t] + 1]
        /\ alarm' = [alarm EXCEPT ![t] = "expired"]
        /\ UNCHANGED <<inbox, arrived, eof, wire, drained, backlog, connected, loop>>
    BY DEF Tick, traffic
  <1>3. WorldInv'
    <2>1. alarm' \in [Timer -> AlarmState]
      BY <1>1, <1>2 DEF WorldInv, AlarmState
    <2> QED
      BY <1>1, <1>2, <2>1 DEF WorldInv, Room
  <1>4. \A u \in Sock : (Readable(u) => Readable(u)') /\ (Room(u) > 0 => (Room(u) > 0)')
    BY <1>2 DEF Readable, Room
  <1>5. \A k \in Timer : Unread(k) => Unread(k)'
    BY <1>1, <1>2 DEF WorldInv, Unread
  <1> QED
    BY <1>2, <1>3, <1>4, <1>5, WorldKeeps

IdleEffect ==
    /\ Followed(ops, ops') /\ Grown(ops, queued, queued')
    /\ UNCHANGED <<current, inbox, arrived, wire>>

LEMMA IdleKeeps == LoopInv /\ Idle => LoopInv' /\ IdleEffect
  <1> SUFFICES ASSUME LoopInv, Idle PROVE LoopInv' /\ IdleEffect
    OBVIOUS
  <1>1. /\ pc = "idle" /\ Continue(ops, queued, ticks)
        /\ UNCHANGED <<traffic, backlog, connected, pc, current, rfds, wfds>>
    BY DEF Idle, Continue
  <1>2. /\ OpsInv(ops) /\ Placed(ops, queued, current) /\ Exclusive(ops)
        /\ Kept(ops, queued, current) /\ DoneInv(ops, wire) /\ WorldInv /\ ControlInv
    BY <1>1 DEF LoopInv
  <1>3. /\ ticks \in [Timer -> Nat] /\ alarm \in [Timer -> AlarmState] /\ m_stop \in BOOLEAN
    BY <1>2 DEF WorldInv, ControlInv
  <1>4. /\ OpsInv(ops') /\ Placed(ops', queued', current) /\ Exclusive(ops')
        /\ Kept(ops', queued', current)
        /\ Followed(ops, ops') /\ Grown(ops, queued, queued')
        /\ ticks' \in [Timer -> Nat]
        /\ alarm' \in [Timer -> AlarmState] /\ m_stop' \in BOOLEAN
    BY <1>1, <1>2, <1>3, ContinueKeeps
  <1>5. WorldInv'
    BY <1>1, <1>2, <1>4 DEF WorldInv, Room, traffic
  <1>6. ControlInv'
    BY <1>1, <1>2, <1>4 DEF ControlInv
  <1>7. DoneInv(ops', wire)
    <2> SUFFICES ASSUME NEW k \in 1..Len(ops'), Whole(ops'[k])
                 PROVE  DoneOp(ops'[k], k, wire)
      BY DEF DoneInv
    <2>1. CASE k \in 1..Len(ops)
      BY <1>2, <1>4, <2>1 DEF Followed, DoneInv
    <2>2. CASE k \notin 1..Len(ops)
      BY <1>4, <2>2 DEF Followed, Fresh, DoneOp
    <2> QED
      BY <2>1, <2>2
  <1>8. Promised'
    <2>1. \A q \in PhaseName : current[q] = <<>>
      BY <1>1, <1>2, PhaseNames DEF ControlInv, Empty
    <2>2. \A q \in PhaseName : Len(current'[q]) = 0
      BY <1>1, <2>1
    <2> QED
      BY <2>2 DEF Promised
  <1>9. wire' = wire /\ current' = current
    BY <1>1 DEF traffic
  <1>10. OpsInv(ops)' /\ Exclusive(ops)'
    BY <1>4 DEF OpsInv, Exclusive, KindOf, Pending
  <1>11. Placed(ops, queued, current)' /\ Kept(ops, queued, current)'
    BY <1>4, <1>9 DEF Placed, QueueInv, Kept, KindOf, Pending
  <1>12. DoneInv(ops, wire)'
    BY <1>7, <1>9 DEF DoneInv, DoneOp, Whole
  <1>13. IdleEffect
    BY <1>1, <1>4 DEF IdleEffect, traffic
  <1> QED
    BY <1>5, <1>6, <1>8, <1>10, <1>11, <1>12, <1>13 DEF LoopInv

\* Steps of the loop that serve no operation leave these alone.
LEMMA SameOps ==
    ASSUME LoopInv, UNCHANGED <<world, ops>>
    PROVE  WorldInv' /\ OpsInv(ops)' /\ Exclusive(ops)' /\ DoneInv(ops, wire)'
  <1>1. WorldInv'
    BY DEF LoopInv, WorldInv, Room, world, traffic
  <1>2. OpsInv(ops)' /\ Exclusive(ops)'
    BY DEF LoopInv, OpsInv, Exclusive, KindOf, Pending
  <1>3. DoneInv(ops, wire)'
    BY DEF LoopInv, DoneInv, DoneOp, Whole, world, traffic
  <1> QED
    BY <1>1, <1>2, <1>3

LEMMA RunLeaveKeeps == LoopInv /\ (Run \/ Leave) => LoopInv'
  <1> SUFFICES ASSUME LoopInv, Run \/ Leave PROVE LoopInv'
    OBVIOUS
  <1>1. /\ UNCHANGED <<world, ops, queued, current, rfds, wfds>>
        /\ pc \in {"idle", "top"} /\ pc' \in {"idle", "top"} /\ m_stop' \in BOOLEAN
    BY DEF Run, Leave, LoopInv, ControlInv
  <1>2. WorldInv' /\ OpsInv(ops)' /\ Exclusive(ops)' /\ DoneInv(ops, wire)'
    BY <1>1, SameOps
  <1>3. Placed(ops, queued, current)' /\ Kept(ops, queued, current)'
    BY <1>1 DEF LoopInv, Placed, QueueInv, Kept, KindOf, Pending
  <1>4. ControlInv'
    BY <1>1 DEF LoopInv, ControlInv
  <1>5. Promised'
    <2>1. \A q \in PhaseName : current[q] = <<>>
      BY <1>1, PhaseNames DEF LoopInv, ControlInv, Empty
    <2>2. \A q \in PhaseName : Len(current'[q]) = 0
      BY <1>1, <2>1
    <2> QED
      BY <2>2 DEF Promised
  <1> QED
    BY <1>2, <1>3, <1>4, <1>5 DEF LoopInv

\* The kind of an operation is that of its descriptor, so that select is asked
\* about each for the operations it has.
LEMMA AskedOf ==
    ASSUME LoopInv
    PROVE  /\ FdsIn("recv") \subseteq Sock /\ FdsIn("send") \subseteq Sock
           /\ FdsIn("accept") \subseteq Listener /\ FdsIn("wait") \subseteq Timer
  <1>1. \A q \in PhaseName : \A i \in Range(queued[q]) : i \in 1..Len(ops) /\ KindOf(ops, i) = q
    <2> SUFFICES ASSUME NEW q \in PhaseName, NEW i \in Range(queued[q])
                 PROVE  i \in 1..Len(ops) /\ KindOf(ops, i) = q
      OBVIOUS
    <2>1. QueueInv(ops, queued[q], q)
      BY DEF LoopInv, Placed
    <2> QED
      BY <2>1, LenProperties, ElementOfSeq DEF QueueInv, Range
  <1>2. OpsInv(ops)
    BY DEF LoopInv
  <1>3. "recv" \in PhaseName /\ "send" \in PhaseName /\ "accept" \in PhaseName /\ "wait" \in PhaseName
    BY DEF PhaseName
  <1>4. ASSUME NEW q \in PhaseName, NEW s \in FdsIn(q)
        PROVE  /\ q \in {"recv", "send"} => s \in Sock
               /\ q = "accept" => s \in Listener
               /\ q = "wait" => s \in Timer
    <2>1. PICK i \in Range(queued[q]) : s = ops[i].ask.fd
      BY DEF FdsIn
    <2> QED
      BY <1>1, <1>2, <2>1, OpShape
  <1> QED
    BY <1>3, <1>4

LEMMA SelectKeeps == LoopInv /\ Select => LoopInv'
  <1> SUFFICES ASSUME LoopInv, Select PROVE LoopInv'
    OBVIOUS
  <1>1. /\ pc = "top" /\ rfds' = ReadFds /\ wfds' = WriteFds
        /\ current' = queued /\ queued' = Empty /\ pc' = "serve"
        /\ UNCHANGED <<world, ops, m_stop>>
    BY DEF Select, Cleared
  <1>2. WorldInv' /\ OpsInv(ops)' /\ Exclusive(ops)' /\ DoneInv(ops, wire)'
    BY <1>1, SameOps
  <1>3. current = Empty /\ DOMAIN Empty = PhaseName /\ \A q \in PhaseName : Empty[q] = <<>>
    BY <1>1, PhaseNames DEF LoopInv, ControlInv, Empty
  <1>4. Placed(ops, queued, current)
    BY DEF LoopInv
  <1>5. Placed(ops, queued', current')
    <2>1. \A q \in PhaseName : QueueInv(ops, <<>>, q) /\ Range(<<>>) = {}
      BY EmptyQueue
    <2> QED
      BY <1>1, <1>3, <1>4, <2>1 DEF Placed
  <1>6. Kept(ops, queued', current')
    <2>1. Kept(ops, queued, current)
      BY <1>1 DEF LoopInv
    <2>2. OpsInv(ops)
      BY DEF LoopInv
    <2>3. Range(<<>>) = {}
      BY EmptyQueue
    <2> QED
      BY <1>1, <1>3, <2>1, <2>2, <2>3, OpShape DEF Kept
  <1>7. Placed(ops, queued, current)' /\ Kept(ops, queued, current)'
    BY <1>1, <1>5, <1>6 DEF Placed, QueueInv, Kept, KindOf, Pending
  <1>8. ControlInv'
    <2>1. ReadFds \subseteq Sock \cup Listener \cup Timer /\ WriteFds \subseteq Sock
      BY AskedOf DEF ReadFds, WriteFds
    <2> QED
      BY <1>1, <2>1 DEF LoopInv, ControlInv
  <1>9. Promised'
    <2> SUFFICES ASSUME NEW q \in PhaseName, NEW j \in 1..Len(current'[q])
                 PROVE  (LET s == ops[current[q][j]].ask.fd
                         IN s \in Reported(q) /\ s \notin Shared => Holds(q, s))'
      BY DEF Promised
    <2>1. j \in 1..Len(queued[q]) /\ QueueInv(ops, queued[q], q) /\ OpsInv(ops)
      BY <1>1, <1>4 DEF LoopInv, Placed
    <2>2. queued[q][j] \in 1..Len(ops) /\ KindOf(ops, queued[q][j]) = q
      BY <2>1, ElementOfSeq DEF QueueInv
    <2>3. PICK s : s = ops[queued[q][j]].ask.fd
      OBVIOUS
    <2>4. /\ q = "recv" => s \in Sock
          /\ q = "send" => s \in Sock
          /\ q = "accept" => s \in Listener
          /\ q = "wait" => s \in Timer
      BY <2>1, <2>2, <2>3, OpShape
    <2>5. s \in Reported(q)' => Holds(q, s)
      <3>1. CASE q = "recv"
        BY <1>1, <2>4, <3>1, AskedOf, DescriptorAssumption DEF Reported, ReadFds, Holds
      <3>2. CASE q = "send"
        BY <1>1, <3>2 DEF Reported, WriteFds, Holds
      <3>3. CASE q = "accept"
        BY <1>1, <2>4, <3>3, AskedOf, DescriptorAssumption DEF Reported, ReadFds, Holds
      <3>4. CASE q = "wait"
        BY <1>1, <2>4, <3>4, AskedOf, DescriptorAssumption DEF Reported, ReadFds, Holds, Unread
      <3> QED
        BY <3>1, <3>2, <3>3, <3>4 DEF PhaseName
    <2>6. Holds(q, s) => Holds(q, s)'
      BY <1>1 DEF Holds, Unread, Readable, Room, world, traffic
    <2>7. ops'[current'[q][j]].ask.fd = s
      BY <1>1, <2>3
    <2> QED
      BY <2>5, <2>6, <2>7 DEF Holds, Unread, Readable, Room
  <1> QED
    BY <1>2, <1>7, <1>8, <1>9 DEF LoopInv

LEMMA MergeKeeps == LoopInv /\ Merge => LoopInv'
  <1> SUFFICES ASSUME LoopInv, Merge PROVE LoopInv'
    OBVIOUS
  <1>1. /\ pc = "serve" /\ pc' = "top" /\ rfds' = {} /\ wfds' = {} /\ current' = Empty
        /\ queued' = [q \in PhaseName |-> current[q] \o queued[q]]
        /\ UNCHANGED <<world, ops, m_stop>>
    BY PhaseNames DEF Merge, OldFirst
  <1>2. WorldInv' /\ OpsInv(ops)' /\ Exclusive(ops)' /\ DoneInv(ops, wire)'
    BY <1>1, SameOps
  <1>3. DOMAIN Empty = PhaseName /\ \A q \in PhaseName : Empty[q] = <<>>
    BY PhaseNames DEF Empty
  <1>4. Len(ops) \in Nat /\ OpsInv(ops)
    BY LenProperties DEF LoopInv, OpsInv
  <1>5. ASSUME NEW q \in PhaseName
        PROVE  /\ QueueInv(ops, queued'[q], q)
               /\ Range(queued'[q]) = Range(current[q]) \cup Range(queued[q])
    <2>1. /\ QueueInv(ops, queued[q], q) /\ QueueInv(ops, current[q], q)
          /\ Range(current[q]) \cap Range(queued[q]) = {}
      BY DEF LoopInv, Placed
    <2>2. queued'[q] = current[q] \o queued[q]
      BY <1>1
    <2>3. /\ QueueInv(ops, current[q] \o queued[q], q)
          /\ Range(current[q] \o queued[q]) = Range(current[q]) \cup Range(queued[q])
      BY <1>4, <2>1, ConcatKeeps
    <2> QED
      BY <2>2, <2>3
  <1>6. Placed(ops, queued', current')
    <2>1. \A q \in PhaseName : QueueInv(ops, <<>>, q) /\ Range(<<>>) = {}
      BY EmptyQueue
    <2> QED
      BY <1>1, <1>3, <1>5, <2>1 DEF Placed
  <1>7. Kept(ops, queued', current')
    <2>1. Kept(ops, queued, current)
      BY <1>1 DEF LoopInv
    <2> QED
      BY <1>4, <1>5, <2>1, OpShape DEF Kept
  <1>8. Placed(ops, queued, current)' /\ Kept(ops, queued, current)'
    <2>1. ASSUME NEW q \in PhaseName
          PROVE  /\ QueueInv(ops, queued[q], q)' /\ QueueInv(ops, current[q], q)'
                 /\ (Range(queued[q]) \cap Range(current[q]) = {})'
      <3>1. ops' = ops
        BY <1>1
      <3>2. /\ QueueInv(ops, queued'[q], q) /\ QueueInv(ops, current'[q], q)
            /\ Range(queued'[q]) \cap Range(current'[q]) = {}
        BY <1>6 DEF Placed
      <3>3. QueueInv(ops, queued[q], q)'
        BY <3>1, <3>2 DEF QueueInv, KindOf, Pending
      <3>4. QueueInv(ops, current[q], q)'
        BY <3>1, <3>2 DEF QueueInv, KindOf, Pending
      <3> QED
        BY <3>2, <3>3, <3>4
    <2>2. Kept(ops, queued, current)'
      BY <1>1, <1>7 DEF Kept, KindOf, Pending
    <2>3. (DOMAIN queued = PhaseName /\ DOMAIN current = PhaseName)'
      BY <1>6 DEF Placed
    <2> QED
      BY <2>1, <2>2, <2>3 DEF Placed
  <1>9. ControlInv'
    BY <1>1 DEF LoopInv, ControlInv
  <1>10. Promised'
    <2>1. \A q \in PhaseName : Len(current'[q]) = 0
      BY <1>1, <1>3
    <2> QED
      BY <2>1 DEF Promised
  <1> QED
    BY <1>2, <1>8, <1>9, <1>10 DEF LoopInv

LEMMA LoopStutter == LoopInv /\ UNCHANGED vars => LoopInv'
  <1> SUFFICES ASSUME LoopInv, UNCHANGED vars PROVE LoopInv'
    OBVIOUS
  <1>1. UNCHANGED loop /\ UNCHANGED world
    BY DEF vars
  <1>2. WorldInv'
    BY <1>1 DEF LoopInv, WorldInv, Room, world, traffic
  <1>3. /\ \A s \in Sock : (Readable(s) => Readable(s)') /\ (Room(s) > 0 => (Room(s) > 0)')
        /\ \A l \in Listener : backlog[l] > 0 => backlog'[l] > 0
        /\ \A t \in Timer : Unread(t) => Unread(t)'
        /\ \A s \in Sock : Range(wire[s]) \subseteq Range(wire'[s])
    BY <1>1 DEF Readable, Room, Unread, world, traffic
  <1> QED
    BY <1>1, <1>2, <1>3, WorldKeeps

-----------------------------------------------------------------------------
(* The order of bytes.  What follows is inductive relative to LoopInv. *)

\* What a queue holds, in the order of issue: an operation that ends at once is
\* never put back, so that only the others can be out of order.
Ascends(O, s) ==
    \A j, k \in 1..Len(s) :
        j < k /\ ~Whole(O[s[j]]) /\ ~Whole(O[s[k]]) => s[j] < s[k]
Ordered(O, Q, C) ==
    \A q \in PhaseName :
        /\ Ascends(O, Q[q]) /\ Ascends(O, C[q])
        /\ \A i \in Range(C[q]), k \in Range(Q[q]) : ~Whole(O[i]) /\ ~Whole(O[k]) => i < k

\* The operations of kind q on s, and that they keep their order.
On(O, s, q)     == {i \in 1..Len(O) : O[i].ask.fd = s /\ KindOf(O, i) = q}
InTurn(O, s, q) == s \notin Shared \/ \A i \in On(O, s, q) : ~Whole(O[i])

\* The first n bytes of s are in the buffers, in order, and nothing is beyond
\* the offset of a pending operation.
Received(O, s, n) ==
    /\ \A b \in 1..n : \E i \in On(O, s, "recv") : \E j \in 1..Len(O[i].mem) : O[i].mem[j] = b
    /\ \A i \in On(O, s, "recv") : \A j \in 1..Len(O[i].mem) : O[i].mem[j] <= n
    /\ \A i, k \in On(O, s, "recv") : \A j \in 1..Len(O[i].mem), l \in 1..Len(O[k].mem) :
         /\ O[i].mem[j] # 0 /\ O[k].mem[l] # 0 /\ (i < k \/ (i = k /\ j < l))
         => O[i].mem[j] < O[k].mem[l]
    /\ \A i \in On(O, s, "recv") : Pending(O, i) =>
         /\ \A j \in 1..Len(O[i].mem) : j > O[i].buf => O[i].mem[j] = 0
         /\ \A k \in On(O, s, "recv") : i < k => \A j \in 1..Len(O[k].mem) : O[k].mem[j] = 0

\* The buffers are in w in order, up to the offset of the pending operation
\* that was served last.
Sent(O, s, w) ==
    /\ Len(w) > 0 => w[1][2] = 1 /\ w[Len(w)][1] \in 1..Len(O)
    /\ \A k \in 1..(Len(w) - 1) : Follows(w[k], w[k + 1])
    /\ \A i \in On(O, s, "send") : Pending(O, i) =>
         \/ Len(w) > 0 /\ w[Len(w)] = <<i, O[i].buf>>
         \/ O[i].buf = 0 /\ (Len(w) > 0 => w[Len(w)][1] < i)

\* A socket with in in its inbox, after n bytes in all, and with w on the wire.
StreamInv(O, s, in, n, w) ==
    /\ Len(in) <= n /\ \A j \in 1..Len(in) : in[j] = n - Len(in) + j
    /\ InTurn(O, s, "recv") => Received(O, s, n - Len(in))
    /\ InTurn(O, s, "send") => Sent(O, s, w)

OrderInv ==
    /\ Ordered(ops, queued, current)
    /\ \A s \in Sock : StreamInv(ops, s, inbox[s], arrived[s], wire[s])

\* Queues: one operation is taken out,
LEMMA AscendsWithout ==
    ASSUME NEW O, NEW S, NEW s \in Seq(S), NEW j \in 1..Len(s), Ascends(O, s)
    PROVE  Ascends(O, RemoveAt(s, j))
  <1> DEFINE r == RemoveAt(s, j)
             at(k) == IF k < j THEN k ELSE k + 1
  <1>1. Len(s) \in Nat
    BY LenProperties
  <1>2. Len(r) = Len(s) - 1 /\ \A k \in 1..(Len(s) - 1) : r[k] = s[at(k)]
    BY RemoveAtProperties
  <1>3. \A k \in 1..(Len(s) - 1) : at(k) \in 1..Len(s)
    BY <1>1
  <1>4. \A k, l \in 1..(Len(s) - 1) : k < l => at(k) < at(l)
    BY <1>1
  <1> HIDE DEF r, at
  <1>5. ASSUME NEW k \in 1..Len(r), NEW l \in 1..Len(r),
               k < l, ~Whole(O[r[k]]), ~Whole(O[r[l]])
        PROVE  r[k] < r[l]
    <2>1. /\ r[k] = s[at(k)] /\ r[l] = s[at(l)] /\ at(k) < at(l)
          /\ at(k) \in 1..Len(s) /\ at(l) \in 1..Len(s)
      BY <1>2, <1>3, <1>4, <1>5
    <2> QED
      BY <1>5, <2>1 DEF Ascends
  <1> QED
    BY <1>5 DEF Ascends, r

\* one is appended,
LEMMA AscendsAppend ==
    ASSUME NEW O, NEW s, IsSeq(s), NEW x, Ascends(O, s),
           Whole(O[x]) \/ \A k \in 1..Len(s) : s[k] < x
    PROVE  Ascends(O, Append(s, x))
  <1> DEFINE r == Append(s, x)
  <1>1. Len(s) \in Nat
    BY SeqShape
  <1>2. /\ Len(r) = Len(s) + 1 /\ r[Len(s) + 1] = x
        /\ \A k \in 1..Len(s) : r[k] = s[k]
    BY AppendSeq
  <1> HIDE DEF r
  <1>3. ASSUME NEW k \in 1..Len(r), NEW l \in 1..Len(r),
               k < l, ~Whole(O[r[k]]), ~Whole(O[r[l]])
        PROVE  r[k] < r[l]
    <2>1. k \in 1..Len(s) /\ r[k] = s[k]
      BY <1>1, <1>2, <1>3
    <2>2. CASE l \in 1..Len(s)
      <3>1. r[l] = s[l]
        BY <1>2, <2>2
      <3> QED
        BY <1>3, <2>1, <2>2, <3>1 DEF Ascends
    <2>3. CASE l \notin 1..Len(s)
      <3>1. l = Len(s) + 1
        BY <1>1, <1>2, <2>3
      <3>2. r[l] = x
        BY <1>2, <3>1
      <3> QED
        BY <1>3, <2>1, <3>2
    <2> QED
      BY <2>2, <2>3
  <1> QED
    BY <1>3 DEF Ascends, r

\* or another queue is, of later ones.
LEMMA AscendsConcat ==
    ASSUME NEW O, NEW s, NEW u, IsSeq(s), IsSeq(u), Ascends(O, s), Ascends(O, u),
           \A i \in Range(s), k \in Range(u) : ~Whole(O[i]) /\ ~Whole(O[k]) => i < k
    PROVE  Ascends(O, s \o u)
  <1> DEFINE r == s \o u
  <1>1. Len(s) \in Nat /\ Len(u) \in Nat
    BY SeqShape
  <1>2. /\ Len(r) = Len(s) + Len(u)
        /\ \A k \in 1..(Len(s) + Len(u)) : r[k] = IF k <= Len(s) THEN s[k] ELSE u[k - Len(s)]
    BY ConcatSeq
  <1> HIDE DEF r
  <1>3. ASSUME NEW k \in 1..Len(r), NEW l \in 1..Len(r),
               k < l, ~Whole(O[r[k]]), ~Whole(O[r[l]])
        PROVE  r[k] < r[l]
    <2>1. CASE l <= Len(s)
      <3>1. k \in 1..Len(s) /\ l \in 1..Len(s) /\ r[k] = s[k] /\ r[l] = s[l]
        BY <1>1, <1>2, <1>3, <2>1
      <3> QED
        BY <1>3, <3>1 DEF Ascends
    <2>2. CASE k <= Len(s) /\ ~(l <= Len(s))
      <3>1. k \in 1..Len(s) /\ l - Len(s) \in 1..Len(u) /\ r[k] = s[k] /\ r[l] = u[l - Len(s)]
        BY <1>1, <1>2, <1>3, <2>2
      <3>2. r[k] \in Range(s) /\ r[l] \in Range(u)
        BY <3>1, SeqShape
      <3> QED
        BY <1>3, <3>2
    <2>3. CASE ~(k <= Len(s))
      <3>1. PICK a \in 1..Len(u) : a = k - Len(s) /\ r[k] = u[a]
        BY <1>1, <1>2, <2>3
      <3>2. PICK b \in 1..Len(u) : b = l - Len(s) /\ r[l] = u[b]
        BY <1>1, <1>2, <1>3, <2>3
      <3>3. a < b
        BY <1>1, <1>3, <3>1, <3>2
      <3> QED
        BY <1>3, <3>1, <3>2, <3>3 DEF Ascends
    <2> QED
      BY <1>3, <2>1, <2>2, <2>3
  <1> QED
    BY <1>3 DEF Ascends, r

\* The order depends on what was asked for only.
LEMMA AscendsAs ==
    ASSUME NEW O, NEW P, NEW n, NEW s \in Seq(1..n), Ascends(O, s),
           \A k \in 1..n : P[k].ask = O[k].ask
    PROVE  Ascends(P, s)
  <1>1. \A k \in 1..Len(s) : s[k] \in 1..n
    BY ElementOfSeq
  <1>2. \A k \in 1..n : Whole(P[k]) <=> Whole(O[k])
    BY DEF Whole
  <1> QED
    BY <1>1, <1>2 DEF Ascends

\* A step that issues, puts back or takes out operations keeps the order.
LEMMA OrderedKeeps ==
    ASSUME NEW O, NEW P, NEW Q, NEW C, NEW R, NEW D,
           Len(O) \in Nat, Placed(O, Q, C), Ordered(O, Q, C),
           \A k \in 1..Len(O) : P[k].ask = O[k].ask, Grown(O, Q, R),
           \A q \in PhaseName : \/ D[q] = C[q]
                                \/ \E j \in 1..Len(C[q]) : D[q] = RemoveAt(C[q], j)
    PROVE  Ordered(P, R, D)
  <1> SUFFICES ASSUME NEW q \in PhaseName
               PROVE  /\ Ascends(P, R[q]) /\ Ascends(P, D[q])
                      /\ \A i \in Range(D[q]), k \in Range(R[q]) :
                           ~Whole(P[i]) /\ ~Whole(P[k]) => i < k
    BY DEF Ordered
  <1>1. Q[q] \in Seq(1..Len(O)) /\ C[q] \in Seq(1..Len(O))
    BY DEF Placed, QueueInv
  <1>2. IsSeq(Q[q]) /\ IsSeq(C[q])
    BY <1>1, SeqIsSeq
  <1>3. /\ \A k \in 1..Len(Q[q]) : Q[q][k] \in 1..Len(O)
        /\ \A k \in Range(Q[q]) : k \in 1..Len(O)
        /\ \A k \in Range(C[q]) : k \in 1..Len(O)
    <2>1. /\ \A k \in 1..Len(Q[q]) : Q[q][k] \in 1..Len(O)
          /\ \A k \in 1..Len(C[q]) : C[q][k] \in 1..Len(O)
      BY <1>1, ElementOfSeq
    <2>2. /\ \A k \in Range(Q[q]) : \E j \in 1..Len(Q[q]) : k = Q[q][j]
          /\ \A k \in Range(C[q]) : \E j \in 1..Len(C[q]) : k = C[q][j]
      BY <1>2, SeqShape
    <2> QED
      BY <2>1, <2>2
  <1>4. Ascends(P, Q[q]) /\ Ascends(P, C[q])
    BY <1>1, AscendsAs DEF Ordered
  <1>5. \A k \in 1..Len(O) : Whole(P[k]) <=> Whole(O[k])
    BY DEF Whole
  <1>6. Ascends(P, D[q]) /\ Range(D[q]) \subseteq Range(C[q])
    <2>1. CASE D[q] = C[q]
      BY <1>4, <2>1
    <2>2. ASSUME NEW j \in 1..Len(C[q]), D[q] = RemoveAt(C[q], j)
          PROVE  Ascends(P, D[q]) /\ Range(D[q]) \subseteq Range(C[q])
      <3>1. Ascends(P, RemoveAt(C[q], j))
        BY <1>1, <1>4, AscendsWithout
      <3>2. Range(C[q]) = Range(RemoveAt(C[q], j)) \cup {C[q][j]}
        BY <1>2, RemoveSeq
      <3> QED
        BY <2>2, <3>1, <3>2
    <2> QED
      BY <2>1, <2>2
  <1>7. \A i \in Range(C[q]), k \in Range(Q[q]) : ~Whole(O[i]) /\ ~Whole(O[k]) => i < k
    BY DEF Ordered
  <1>8. ASSUME R[q] = Q[q]
        PROVE  /\ Ascends(P, R[q])
               /\ \A i \in Range(C[q]), k \in Range(R[q]) : ~Whole(P[i]) /\ ~Whole(P[k]) => i < k
    BY <1>3, <1>4, <1>5, <1>7, <1>8
  <1>9. ASSUME NEW x, R[q] = Append(Q[q], x),
               x = Len(O) + 1 \/ (x \in 1..Len(O) /\ Whole(O[x]))
        PROVE  /\ Ascends(P, R[q])
               /\ \A i \in Range(C[q]), k \in Range(R[q]) : ~Whole(P[i]) /\ ~Whole(P[k]) => i < k
    <2>1. Whole(P[x]) \/ \A k \in 1..Len(O) : k < x
      BY <1>5, <1>9
    <2>2. Whole(P[x]) \/ \A k \in 1..Len(Q[q]) : Q[q][k] < x
      BY <1>3, <2>1
    <2>3. Ascends(P, Append(Q[q], x))
      BY <1>2, <1>4, <2>2, AscendsAppend
    <2>4. Range(Append(Q[q], x)) = Range(Q[q]) \cup {x}
      BY <1>2, AppendSeq
    <2>5. ASSUME NEW i \in Range(C[q]), NEW k \in Range(R[q]), ~Whole(P[i]), ~Whole(P[k])
          PROVE  i < k
      <3>1. CASE k = x
        BY <1>3, <2>1, <2>5, <3>1
      <3>2. CASE k \in Range(Q[q])
        BY <1>3, <1>5, <1>7, <2>5, <3>2
      <3> QED
        BY <1>9, <2>4, <3>1, <3>2
    <2> QED
      BY <1>9, <2>3, <2>5
  <1>10. /\ Ascends(P, R[q])
         /\ \A i \in Range(C[q]), k \in Range(R[q]) : ~Whole(P[i]) /\ ~Whole(P[k]) => i < k
    <2>1. CASE R[q] = Q[q]
      BY <1>8, <2>1
    <2>2. CASE R[q] # Q[q]
      <3>1. PICK x : /\ R[q] = Append(Q[q], x)
                     /\ x = Len(O) + 1 \/ (x \in 1..Len(O) /\ Whole(O[x]))
        BY <2>2 DEF Grown
      <3> QED
        BY <1>9, <3>1
    <2> QED
      BY <2>1, <2>2
  <1> QED
    BY <1>6, <1>10

\* The next of a phase is the first of its queue that is ready, and the oldest
\* pending operation of its descriptor where operations keep their order.
LEMMA ServeFirst ==
    ASSUME NEW q \in PhaseName, NEW i, Serve(q, i), Placed(ops, queued, current)
    PROVE  \E j \in 1..Len(current[q]) :
             /\ i = current[q][j]
             /\ current'[q] = RemoveAt(current[q], j)
             /\ \A p \in PhaseName : p # q => current'[p] = current[p]
             /\ \A l \in 1..Len(current[q]) : ops[current[q][l]].ask.fd \in Reported(q) => j <= l
  <1> DEFINE j == CHOOSE j \in Ready(q) : \A l \in Ready(q) : j <= l
  <1>1. /\ Ready(q) # {} /\ i = current[q][j]
        /\ current' = [current EXCEPT ![q] = RemoveAt(@, j)]
    BY DEF Serve
  <1>2. j \in Ready(q) /\ \A l \in Ready(q) : j <= l
    <2>1. Ready(q) \subseteq Nat
      BY DEF Ready
    <2>2. \E k \in Ready(q) : \A l \in Ready(q) : k <= l
      BY <1>1, <2>1, LeastOf
    <2> QED
      BY <2>2
  <1> HIDE DEF j
  <1>3. j \in 1..Len(current[q])
    BY <1>2 DEF Ready
  <1>4. \A l \in 1..Len(current[q]) : ops[current[q][l]].ask.fd \in Reported(q) => j <= l
    BY <1>2 DEF Ready, Reported
  <1>5. /\ current'[q] = RemoveAt(current[q], j)
        /\ \A p \in PhaseName : p # q => current'[p] = current[p]
    BY <1>1 DEF Placed
  <1> QED
    BY <1>1, <1>3, <1>4, <1>5

LEMMA ServesOldest ==
    ASSUME LoopInv, Ordered(ops, queued, current), NEW q \in PhaseName, NEW i, Serve(q, i),
           NEW s, s = ops[i].ask.fd, InTurn(ops, s, q),
           NEW k \in On(ops, s, q), Pending(ops, k)
    PROVE  i <= k
  <1>1. /\ OpsInv(ops) /\ Placed(ops, queued, current) /\ Exclusive(ops)
    BY DEF LoopInv
  <1>2. /\ i \in 1..Len(ops) /\ KindOf(ops, i) = q /\ Pending(ops, i) /\ pc = "serve"
        /\ ops[i].ask.fd \in Reported(q) /\ i \in Range(current[q])
    BY <1>1, ServeTakes
  <1>3. k \in 1..Len(ops) /\ ops[k].ask.fd = s /\ KindOf(ops, k) = q /\ i \in On(ops, s, q)
    BY <1>2 DEF On
  <1>4. CASE s \notin Shared
    BY <1>1, <1>2, <1>3, <1>4 DEF Exclusive
  <1>5. CASE s \in Shared
    <2>1. ~Whole(ops[i]) /\ ~Whole(ops[k])
      BY <1>3, <1>5 DEF InTurn
    <2>2. k \in Range(queued[q]) \/ k \in Range(current[q])
      BY <1>2, <1>3 DEF LoopInv, Kept
    <2>3. CASE k \in Range(queued[q])
      <3>1. i < k
        BY <1>2, <2>1, <2>3 DEF Ordered
      <3> QED
        BY <1>2, <1>3, <3>1
    <2>4. CASE k \in Range(current[q])
      <3>1. PICK j \in 1..Len(current[q]) :
              /\ i = current[q][j]
              /\ \A l \in 1..Len(current[q]) : ops[current[q][l]].ask.fd \in Reported(q) => j <= l
        BY <1>1, ServeFirst
      <3>2. IsSeq(current[q])
        BY <1>1, SeqIsSeq DEF Placed, QueueInv
      <3>3. PICK l \in 1..Len(current[q]) : k = current[q][l]
        BY <2>4, <3>2, SeqShape
      <3>4. j <= l
        BY <1>2, <1>3, <3>1, <3>3
      <3>5. CASE j = l
        BY <1>2, <3>1, <3>3, <3>5
      <3>6. CASE j < l
        BY <1>2, <1>3, <2>1, <3>1, <3>3, <3>6 DEF Ordered, Ascends
      <3> QED
        BY <3>4, <3>5, <3>6
    <2> QED
      BY <2>2, <2>3, <2>4
  <1> QED
    BY <1>4, <1>5

\* What happens to the operations of other descriptors and kinds, and those that
\* are new, does not concern a stream.
Alike(O, P, s, q) ==
    /\ Len(O) <= Len(P)
    /\ \A k \in 1..Len(O) : P[k].ask = O[k].ask
    /\ \A k \in On(O, s, q) : P[k] = O[k]
    /\ \A k \in 1..Len(P) : k \notin 1..Len(O) => Fresh(P[k])

LEMMA FollowedAlike ==
    ASSUME NEW O, NEW P, NEW s, NEW q, Followed(O, P)
    PROVE  Alike(O, P, s, q)
  BY DEF Followed, Alike, On

LEMMA ServedAlike ==
    ASSUME NEW O, NEW P, NEW s, NEW q, NEW i \in 1..Len(O), NEW h, Served(O, i, h, P),
           h.ask = O[i].ask, i \notin On(O, s, q)
    PROVE  Alike(O, P, s, q)
  BY DEF Served, Alike, On

\* The asks of all are kept, so that the streams that keep their order did.
KeepsAsks(O, P) ==
    /\ Len(O) \in Nat /\ Len(P) \in Nat /\ Len(O) <= Len(P)
    /\ \A k \in 1..Len(O) : P[k].ask = O[k].ask

LEMMA OnKept ==
    ASSUME NEW O, NEW P, NEW s, NEW q, KeepsAsks(O, P)
    PROVE  /\ \A k \in On(O, s, q) : k \in On(P, s, q)
           /\ \A k \in On(P, s, q) : k \in 1..Len(O) => k \in On(O, s, q)
           /\ InTurn(P, s, q) => InTurn(O, s, q)
  <1>1. \A k \in 1..Len(O) : k \in 1..Len(P) /\ KindOf(P, k) = KindOf(O, k)
    BY DEF KeepsAsks, KindOf
  <1>2. \A k \in On(O, s, q) : k \in On(P, s, q)
    BY <1>1 DEF On, KeepsAsks
  <1>3. \A k \in On(P, s, q) : k \in 1..Len(O) => k \in On(O, s, q)
    BY <1>1 DEF On, KeepsAsks
  <1>4. \A k \in On(O, s, q) : Whole(P[k]) <=> Whole(O[k])
    BY DEF On, KeepsAsks, Whole
  <1> QED
    BY <1>2, <1>3, <1>4 DEF InTurn

LEMMA OnAlike ==
    ASSUME NEW O, NEW P, NEW s, NEW q, KeepsAsks(O, P), Alike(O, P, s, q)
    PROVE  /\ \A k \in On(O, s, q) : k \in On(P, s, q) /\ P[k] = O[k] /\ k \in 1..Len(O)
           /\ \A k \in On(P, s, q) :
                \/ k \in On(O, s, q) /\ P[k] = O[k] /\ k \in 1..Len(O)
                \/ k \notin 1..Len(O) /\ Fresh(P[k]) /\ k \in 1..Len(P)
  <1>1. /\ \A k \in On(O, s, q) : k \in On(P, s, q)
        /\ \A k \in On(P, s, q) : k \in 1..Len(O) => k \in On(O, s, q)
    BY OnKept
  <1>2. /\ \A k \in On(O, s, q) : k \in 1..Len(O)
        /\ \A k \in On(P, s, q) : k \in 1..Len(P)
    BY DEF On
  <1>3. \A k \in On(O, s, q) : P[k] = O[k]
    BY DEF Alike
  <1>4. \A k \in 1..Len(P) : k \notin 1..Len(O) => Fresh(P[k])
    BY DEF Alike
  <1> QED
    BY <1>1, <1>2, <1>3, <1>4

LEMMA ReceivedStays ==
    ASSUME NEW O, NEW P, NEW s, NEW n \in Nat, KeepsAsks(O, P),
           Alike(O, P, s, "recv"), Received(O, s, n)
    PROVE  Received(P, s, n)
  <1>1. /\ \A k \in On(O, s, "recv") : k \in On(P, s, "recv") /\ P[k] = O[k] /\ k \in 1..Len(O)
        /\ \A k \in On(P, s, "recv") :
             \/ k \in On(O, s, "recv") /\ P[k] = O[k] /\ k \in 1..Len(O)
             \/ k \notin 1..Len(O) /\ Fresh(P[k]) /\ k \in 1..Len(P)
    BY OnAlike
  <1>2. \A k \in On(P, s, "recv") : k \notin On(O, s, "recv") =>
          \A j \in 1..Len(P[k].mem) : P[k].mem[j] = 0
    BY <1>1 DEF Fresh
  <1>3. \A b \in 1..n : \E i \in On(P, s, "recv") : \E j \in 1..Len(P[i].mem) : P[i].mem[j] = b
    <2> SUFFICES ASSUME NEW b \in 1..n
                 PROVE  \E i \in On(P, s, "recv") : \E j \in 1..Len(P[i].mem) : P[i].mem[j] = b
      OBVIOUS
    <2>1. PICK i \in On(O, s, "recv") : \E j \in 1..Len(O[i].mem) : O[i].mem[j] = b
      BY DEF Received
    <2> QED
      BY <1>1, <2>1
  <1>4. \A i \in On(P, s, "recv") : \A j \in 1..Len(P[i].mem) : P[i].mem[j] <= n
    BY <1>1, <1>2 DEF Received
  <1>5. ASSUME NEW i \in On(P, s, "recv"), NEW k \in On(P, s, "recv"),
               NEW j \in 1..Len(P[i].mem), NEW l \in 1..Len(P[k].mem),
               P[i].mem[j] # 0, P[k].mem[l] # 0, i < k \/ (i = k /\ j < l)
        PROVE  P[i].mem[j] < P[k].mem[l]
    <2>1. /\ i \in On(O, s, "recv") /\ P[i] = O[i]
          /\ k \in On(O, s, "recv") /\ P[k] = O[k]
      BY <1>1, <1>2, <1>5
    <2> QED
      BY <1>5, <2>1 DEF Received
  <1>6. ASSUME NEW i \in On(P, s, "recv"), Pending(P, i)
        PROVE  /\ \A j \in 1..Len(P[i].mem) : j > P[i].buf => P[i].mem[j] = 0
               /\ \A k \in On(P, s, "recv") : i < k => \A j \in 1..Len(P[k].mem) : P[k].mem[j] = 0
    <2>1. CASE i \in On(O, s, "recv")
      <3>1. Pending(O, i) /\ P[i] = O[i]
        BY <1>1, <1>6, <2>1 DEF Pending
      <3> QED
        BY <1>1, <1>2, <2>1, <3>1 DEF Received
    <2>2. CASE i \notin On(O, s, "recv")
      <3>1. i \in 1..Len(P) /\ i \notin 1..Len(O)
        BY <1>1, <2>2
      <3>2. \A k \in On(P, s, "recv") : i < k => k \notin On(O, s, "recv")
        BY <1>1, <3>1 DEF KeepsAsks
      <3> QED
        BY <1>2, <2>2, <3>2
    <2> QED
      BY <2>1, <2>2
  <1> QED
    BY <1>3, <1>4, <1>5, <1>6 DEF Received

LEMMA SentStays ==
    ASSUME NEW O, NEW P, NEW s, NEW w, KeepsAsks(O, P),
           Alike(O, P, s, "send"), Sent(O, s, w)
    PROVE  Sent(P, s, w)
  <1>1. /\ \A k \in On(P, s, "send") :
             \/ k \in On(O, s, "send") /\ P[k] = O[k]
             \/ k \notin 1..Len(O) /\ Fresh(P[k]) /\ k \in 1..Len(P)
    BY OnAlike
  <1>2. Len(w) > 0 => w[1][2] = 1 /\ w[Len(w)][1] \in 1..Len(O) /\ w[Len(w)][1] \in 1..Len(P)
    BY DEF Sent, KeepsAsks
  <1>3. ASSUME NEW i \in On(P, s, "send"), Pending(P, i)
        PROVE  \/ Len(w) > 0 /\ w[Len(w)] = <<i, P[i].buf>>
               \/ P[i].buf = 0 /\ (Len(w) > 0 => w[Len(w)][1] < i)
    <2>1. CASE i \in On(O, s, "send") /\ P[i] = O[i]
      <3>1. Pending(O, i)
        BY <1>3, <2>1 DEF Pending
      <3> QED
        BY <2>1, <3>1 DEF Sent
    <2>2. CASE i \notin 1..Len(O) /\ Fresh(P[i]) /\ i \in 1..Len(P)
      <3>1. \A m \in 1..Len(O) : m < i
        BY <2>2 DEF KeepsAsks
      <3> QED
        BY <1>2, <2>2, <3>1 DEF Fresh
    <2> QED
      BY <1>1, <2>1, <2>2
  <1> QED
    BY <1>2, <1>3 DEF Sent

LEMMA StreamStays ==
    ASSUME NEW O, NEW P, NEW s, NEW in, NEW n, NEW w, KeepsAsks(O, P),
           Len(in) \in Nat, n \in Nat,
           Alike(O, P, s, "recv"), Alike(O, P, s, "send"), StreamInv(O, s, in, n, w)
    PROVE  StreamInv(P, s, in, n, w)
  <1>1. /\ InTurn(P, s, "recv") => InTurn(O, s, "recv")
        /\ InTurn(P, s, "send") => InTurn(O, s, "send")
    BY OnKept
  <1>2. n - Len(in) \in Nat
    BY DEF StreamInv
  <1>3. InTurn(P, s, "recv") => Received(P, s, n - Len(in))
    BY <1>1, <1>2, ReceivedStays DEF StreamInv
  <1>4. InTurn(P, s, "send") => Sent(P, s, w)
    BY <1>1, SentStays DEF StreamInv
  <1> QED
    BY <1>3, <1>4 DEF StreamInv

LEMMA BelowAdded ==
    ASSUME NEW n \in Nat, NEW b \in Nat, NEW r \in Nat, NEW t \in (b + 1)..(b + r),
           NEW x \in Nat, x <= n
    PROVE  x < n + (t - b)
  OBVIOUS

\* The oldest pending operation receives the next r bytes.
LEMMA ReceivedGrows ==
    ASSUME NEW O, NEW P, NEW s, NEW n \in Nat, NEW r \in Nat, NEW b \in Nat, NEW l \in Nat,
           KeepsAsks(O, P), NEW i \in On(O, s, "recv"), NEW h, Served(O, i, h, P),
           Pending(O, i), \A k \in On(O, s, "recv") : Pending(O, k) => i <= k,
           Received(O, s, n),
           b = O[i].buf, Len(O[i].mem) = l, Len(h.mem) = l, b + r <= l,
           \A j \in 1..l : h.mem[j] = IF j \in (b + 1)..(b + r) THEN n + (j - b) ELSE O[i].mem[j],
           \A k \in On(O, s, "recv") : \A j \in 1..Len(O[k].mem) : O[k].mem[j] \in Nat,
           h.res = <<>> => h.buf = b + r
    PROVE  Received(P, s, n + r)
  <1> DEFINE Old(k, j) == /\ k \in On(O, s, "recv") /\ j \in 1..Len(O[k].mem)
                          /\ P[k].mem[j] = O[k].mem[j] /\ O[k].mem[j] # 0
                          /\ O[k].mem[j] \in Nat /\ O[k].mem[j] <= n
                          /\ k = i => j \in 1..l /\ j <= b
             Added(k, j) == k = i /\ j \in (b + 1)..(b + r) /\ P[k].mem[j] = n + (j - b)
  <1>1. P[i] = h /\ i \in 1..Len(O) /\ i \in Nat
    BY DEF Served, On
  <1>2. /\ \A k \in On(O, s, "recv") : k \in On(P, s, "recv") /\ k \in 1..Len(O)
        /\ \A k \in On(P, s, "recv") : k \in 1..Len(O) => k \in On(O, s, "recv")
    <2>1. \A k \in On(O, s, "recv") : k \in 1..Len(O)
      BY DEF On
    <2> QED
      BY <2>1, OnKept
  <1>3. \A k \in On(O, s, "recv") : k # i => P[k] = O[k]
    BY <1>2 DEF Served
  <1>4. \A k \in On(P, s, "recv") : k \notin 1..Len(O) =>
          k \in 1..Len(P) /\ Pending(P, k) /\ \A j \in 1..Len(P[k].mem) : P[k].mem[j] = 0
    BY DEF On, Served, Fresh, Pending
  <1>5. /\ \A j \in 1..l : j > b => O[i].mem[j] = 0
        /\ \A k \in On(O, s, "recv") : i < k => \A j \in 1..Len(O[k].mem) : O[k].mem[j] = 0
    BY DEF Received
  <1>6. \A k \in On(O, s, "recv") : \A j \in 1..Len(O[k].mem) : O[k].mem[j] <= n
    BY DEF Received
  <1>7. ASSUME NEW k \in On(P, s, "recv"), NEW j \in 1..Len(P[k].mem), P[k].mem[j] # 0
        PROVE  Old(k, j) \/ Added(k, j)
    <2>1. CASE k \notin 1..Len(O)
      BY <1>4, <1>7, <2>1
    <2>2. CASE k \in 1..Len(O) /\ k # i
      <3>1. k \in On(O, s, "recv") /\ P[k] = O[k]
        BY <1>2, <1>3, <2>2
      <3> QED
        BY <1>6, <1>7, <2>2, <3>1
    <2>3. CASE k = i /\ j \in (b + 1)..(b + r)
      BY <1>1, <1>7, <2>3
    <2>4. CASE k = i /\ j \notin (b + 1)..(b + r)
      <3>1. j \in 1..l /\ P[k].mem[j] = O[i].mem[j]
        BY <1>1, <2>4
      <3>2. j <= b
        BY <1>5, <1>7, <3>1
      <3> QED
        BY <1>6, <1>7, <2>4, <3>1, <3>2
    <2> QED
      BY <2>1, <2>2, <2>3, <2>4
  <1>8. ASSUME NEW v \in 1..(n + r)
        PROVE  \E k \in On(P, s, "recv") : \E j \in 1..Len(P[k].mem) : P[k].mem[j] = v
    <2>1. CASE v \in 1..n
      <3>1. PICK k \in On(O, s, "recv") : \E j \in 1..Len(O[k].mem) : O[k].mem[j] = v
        BY <2>1 DEF Received
      <3>2. PICK j \in 1..Len(O[k].mem) : O[k].mem[j] = v
        BY <3>1
      <3>3. k \in On(P, s, "recv")
        BY <1>2
      <3>4. CASE k = i
        <4>1. j \in 1..l /\ j <= b
          BY <1>5, <2>1, <3>2, <3>4
        <4>2. h.mem[j] = v
          BY <3>2, <3>4, <4>1
        <4> QED
          BY <1>1, <3>3, <3>4, <4>1, <4>2
      <3>5. CASE k # i
        BY <1>3, <3>2, <3>3, <3>5
      <3> QED
        BY <3>4, <3>5
    <2>2. CASE v \notin 1..n
      <3>1. b + (v - n) \in 1..l /\ b + (v - n) \in (b + 1)..(b + r) /\ n + ((b + (v - n)) - b) = v
        BY <2>2
      <3>2. PICK j \in 1..l : j = b + (v - n)
        BY <3>1
      <3>3. h.mem[j] = v
        BY <3>1, <3>2
      <3>4. i \in On(P, s, "recv")
        BY <1>2
      <3> QED
        BY <1>1, <3>2, <3>3, <3>4
    <2> QED
      BY <2>1, <2>2
  <1>9. ASSUME NEW k \in On(P, s, "recv"), NEW j \in 1..Len(P[k].mem)
        PROVE  P[k].mem[j] <= n + r
    <2>1. CASE P[k].mem[j] = 0
      BY <2>1
    <2>2. CASE Old(k, j)
      BY <2>2
    <2>3. CASE Added(k, j)
      BY <2>3
    <2> QED
      BY <1>7, <2>1, <2>2, <2>3
  <1>10. ASSUME NEW k \in On(P, s, "recv"), NEW m \in On(P, s, "recv"),
                NEW j \in 1..Len(P[k].mem), NEW t \in 1..Len(P[m].mem),
                P[k].mem[j] # 0, P[m].mem[t] # 0, k < m \/ (k = m /\ j < t)
         PROVE  P[k].mem[j] < P[m].mem[t]
    <2>1. (Old(k, j) \/ Added(k, j)) /\ (Old(m, t) \/ Added(m, t))
      BY <1>7, <1>10
    <2>2. CASE Old(k, j) /\ Old(m, t)
      <3>1. O[k].mem[j] < O[m].mem[t]
        BY <1>10, <2>2 DEF Received
      <3> QED
        BY <2>2, <3>1
    <2>3. CASE Old(k, j) /\ Added(m, t)
      <3>1. t \in (b + 1)..(b + r) /\ P[m].mem[t] = n + (t - b)
        BY <2>3
      <3>2. P[k].mem[j] \in Nat /\ P[k].mem[j] <= n
        BY <2>3
      <3> HIDE DEF Old, Added
      <3>3. P[k].mem[j] < n + (t - b)
        BY <3>1, <3>2, BelowAdded
      <3> QED
        BY <3>1, <3>3
    <2>4. CASE Added(k, j) /\ Old(m, t)
      <3>1. CASE m = i
        <4>1. j \in (b + 1)..(b + r) /\ t \in 1..l /\ t <= b /\ ~(j < t)
          BY <2>4, <3>1
        <4> QED
          BY <1>1, <1>10, <2>4, <3>1, <4>1
      <3>2. CASE m # i
        <4>1. i < m
          BY <1>10, <2>4, <3>2
        <4> QED
          BY <1>5, <2>4, <4>1
      <3> QED
        BY <3>1, <3>2
    <2>5. CASE Added(k, j) /\ Added(m, t)
      <3>1. j < t /\ j \in (b + 1)..(b + r) /\ t \in (b + 1)..(b + r)
        BY <1>1, <1>10, <2>5
      <3>2. n + (j - b) < n + (t - b)
        BY <3>1
      <3> QED
        BY <2>5, <3>2
    <2> QED
      BY <2>1, <2>2, <2>3, <2>4, <2>5
  <1>11. ASSUME NEW k \in On(P, s, "recv"), Pending(P, k)
         PROVE  /\ \A j \in 1..Len(P[k].mem) : j > P[k].buf => P[k].mem[j] = 0
                /\ \A m \in On(P, s, "recv") : k < m => \A j \in 1..Len(P[m].mem) : P[m].mem[j] = 0
    <2>1. k \in 1..Len(P) /\ \A m \in On(P, s, "recv") : m \in 1..Len(P)
      BY DEF On
    <2>2. i <= k
      <3>1. CASE k \notin 1..Len(O)
        BY <1>1, <2>1, <3>1 DEF KeepsAsks
      <3>2. CASE k \in 1..Len(O) /\ k # i
        BY <1>2, <1>3, <1>11, <3>2 DEF Pending
      <3> QED
        BY <1>1, <3>1, <3>2
    <2>3. ASSUME NEW m \in On(P, s, "recv"), i < m, NEW j \in 1..Len(P[m].mem)
          PROVE  P[m].mem[j] = 0
      <3>1. CASE m \notin 1..Len(O)
        BY <1>4, <3>1
      <3>2. CASE m \in 1..Len(O)
        <4>1. m \in On(O, s, "recv") /\ P[m] = O[m]
          BY <1>1, <1>2, <1>3, <2>3, <3>2
        <4> QED
          BY <1>5, <2>3, <4>1
      <3> QED
        BY <3>1, <3>2
    <2>4. ASSUME NEW m \in On(P, s, "recv"), k < m, NEW j \in 1..Len(P[m].mem)
          PROVE  P[m].mem[j] = 0
      <3>1. i < m
        BY <1>1, <2>1, <2>2, <2>4
      <3> QED
        BY <2>3, <3>1
    <2>5. ASSUME NEW j \in 1..Len(P[k].mem), j > P[k].buf
          PROVE  P[k].mem[j] = 0
      <3>1. CASE k = i
        <4>1. h.buf = b + r /\ j \in 1..l /\ j > b + r
          BY <1>1, <1>11, <2>5, <3>1 DEF Pending
        <4>2. h.mem[j] = O[i].mem[j] /\ j > b
          BY <4>1
        <4> QED
          BY <1>1, <1>5, <3>1, <4>1, <4>2
      <3>2. CASE k # i
        <4>1. i < k
          BY <1>1, <2>1, <2>2, <3>2
        <4> QED
          BY <2>3, <4>1
      <3> QED
        BY <3>1, <3>2
    <2> QED
      BY <2>4, <2>5
  <1> HIDE DEF Old, Added
  <1> QED
    BY <1>8, <1>9, <1>10, <1>11 DEF Received

\* The next byte of an operation follows its last, the first of a later one any.
LEMMA FollowsOwn ==
    ASSUME NEW i, NEW j
    PROVE  Follows(<<i, j>>, <<i, j + 1>>)
  BY DEF Follows

LEMMA FollowsNext ==
    ASSUME NEW i, NEW b \in Nat, NEW j \in Nat
    PROVE  Follows(<<i, b + j>>, <<i, b + (j + 1)>>)
  <1>1. b + (j + 1) = (b + j) + 1
    OBVIOUS
  <1> QED
    BY <1>1, FollowsOwn

LEMMA FollowsOlder ==
    ASSUME NEW p, NEW i, p[1] < i
    PROVE  Follows(p, <<i, 1>>)
  BY DEF Follows

\* The oldest pending operation sends its next r bytes.
LEMMA SentGrows ==
    ASSUME NEW O, NEW P, NEW s, NEW r \in Nat, NEW b \in Nat,
           NEW w \in Seq(Nat \X Nat), NEW a \in Seq(Nat \X Nat),
           KeepsAsks(O, P), NEW i \in On(O, s, "send"), NEW h, Served(O, i, h, P),
           Pending(O, i), \A k \in On(O, s, "send") : Pending(O, k) => i <= k,
           Sent(O, s, w), b = O[i].buf, h.res = <<>> => h.buf = b + r,
           Len(a) = r, \A j \in 1..r : a[j] = <<i, b + j>>
    PROVE  Sent(P, s, w \o a)
  <1> DEFINE v == w \o a
  <1>1. P[i] = h /\ i \in 1..Len(O) /\ i \in Nat
    BY DEF Served, On
  <1>2. Len(w) \in Nat /\ \A k \in 1..Len(w) : w[k] \in Nat \X Nat
    BY LenProperties, ElementOfSeq
  <1>5. /\ Len(v) = Len(w) + r
        /\ \A k \in 1..(Len(w) + r) : v[k] = IF k <= Len(w) THEN w[k] ELSE a[k - Len(w)]
    BY ConcatProperties
  <1> SUFFICES Sent(P, s, v)
    OBVIOUS
  <1> HIDE DEF v
  <1>6. /\ \A k \in 1..Len(w) : v[k] = w[k]
        /\ \A j \in 1..r : v[Len(w) + j] = <<i, b + j>>
    <2>1. ASSUME NEW j \in 1..r
          PROVE  v[Len(w) + j] = <<i, b + j>>
      <3>1. /\ Len(w) + j \in 1..(Len(w) + r) /\ ~(Len(w) + j <= Len(w))
            /\ (Len(w) + j) - Len(w) = j
        BY <1>2
      <3> QED
        BY <1>5, <3>1
    <2>2. \A k \in 1..Len(w) : k \in 1..(Len(w) + r) /\ k <= Len(w)
      BY <1>2
    <2> QED
      BY <1>5, <2>1, <2>2
  <1>7. \/ Len(w) > 0 /\ w[Len(w)] = <<i, b>>
        \/ b = 0 /\ (Len(w) > 0 => w[Len(w)][1] < i)
    BY DEF Sent
  <1>8. Len(w) > 0 => w[1][2] = 1 /\ w[Len(w)][1] \in 1..Len(O) /\ Len(w) \in 1..Len(w) /\ 1 \in 1..Len(w)
    BY <1>2 DEF Sent
  <1>9. ASSUME NEW k \in 1..(Len(v) - 1) PROVE Follows(v[k], v[k + 1])
    <2> HIDE DEF Follows
    <2>0. k \in 1..(Len(w) + r - 1)
      BY <1>5
    <2>1. CASE k < Len(w)
      <3>1. k \in 1..(Len(w) - 1) /\ k \in 1..Len(w) /\ k + 1 \in 1..Len(w)
        BY <1>2, <2>0, <2>1
      <3>2. v[k] = w[k] /\ v[k + 1] = w[k + 1]
        BY <1>6, <3>1
      <3>3. Follows(w[k], w[k + 1])
        BY <3>1 DEF Sent
      <3> QED
        BY <3>2, <3>3
    <2>2. CASE k = Len(w)
      <3>1. 1 \in 1..r /\ k \in 1..Len(w) /\ Len(w) > 0
        BY <1>2, <2>0, <2>2
      <3>2. v[k] = w[Len(w)] /\ v[k + 1] = <<i, b + 1>>
        BY <1>6, <2>2, <3>1
      <3>3. CASE w[Len(w)] = <<i, b>>
        BY <3>2, <3>3, FollowsOwn
      <3>4. CASE b = 0 /\ w[Len(w)][1] < i
        <4>1. b + 1 = 1
          BY <3>4
        <4> QED
          BY <3>2, <3>4, <4>1, FollowsOlder
      <3> QED
        BY <1>7, <3>1, <3>3, <3>4
    <2>3. CASE k > Len(w)
      <3>1. PICK j \in 1..r : k = Len(w) + j /\ j + 1 \in 1..r /\ k + 1 = Len(w) + (j + 1)
        <4>1. /\ k - Len(w) \in 1..r /\ k = Len(w) + (k - Len(w))
              /\ (k - Len(w)) + 1 \in 1..r /\ k + 1 = Len(w) + ((k - Len(w)) + 1)
          BY <1>2, <2>0, <2>3
        <4> QED
          BY <4>1
      <3>2. v[k] = <<i, b + j>> /\ v[k + 1] = <<i, b + (j + 1)>>
        BY <1>6, <3>1
      <3>3. j \in Nat
        OBVIOUS
      <3> QED
        BY <3>2, <3>3, FollowsNext
    <2>4. k \in Int /\ Len(w) \in Int
      BY <1>2, <2>0
    <2>5. k < Len(w) \/ k = Len(w) \/ k > Len(w)
      BY <2>4
    <2> QED
      BY <2>1, <2>2, <2>3, <2>5
  <1>10. Len(O) <= Len(P) /\ Len(O) \in Nat /\ Len(P) \in Nat
    BY DEF KeepsAsks
  <1>11. CASE r = 0
    <2>1. Len(v) = Len(w) /\ (Len(w) > 0 => v[1] = w[1] /\ v[Len(v)] = w[Len(w)])
      BY <1>2, <1>5, <1>6, <1>8, <1>11
    <2>4. \A m \in 1..Len(O) : m \in 1..Len(P)
      BY <1>10
    <2>2. Len(v) > 0 => v[1][2] = 1 /\ v[Len(v)][1] \in 1..Len(P)
      BY <1>8, <2>1, <2>4
    <2>3. ASSUME NEW k \in On(P, s, "send"), Pending(P, k)
          PROVE  \/ Len(v) > 0 /\ v[Len(v)] = <<k, P[k].buf>>
                 \/ P[k].buf = 0 /\ (Len(v) > 0 => v[Len(v)][1] < k)
      <3>1. CASE k = i
        <4>1. P[k].buf = b
          BY <1>1, <1>11, <2>3, <3>1 DEF Pending
        <4> QED
          BY <1>7, <2>1, <3>1, <4>1
      <3>2. CASE k \in 1..Len(O) /\ k # i
        <4>1. k \in On(O, s, "send") /\ P[k] = O[k]
          BY <3>2, OnKept DEF Served
        <4>2. Pending(O, k)
          BY <2>3, <4>1 DEF Pending
        <4> QED
          BY <2>1, <4>1, <4>2 DEF Sent
      <3>3. CASE k \notin 1..Len(O)
        <4>1. k \in 1..Len(P) /\ P[k].buf = 0
          BY <3>3 DEF On, Served, Fresh
        <4>2. \A m \in 1..Len(O) : m < k
          BY <1>10, <3>3, <4>1
        <4> QED
          BY <1>8, <2>1, <4>1, <4>2
      <3> QED
        BY <3>1, <3>2, <3>3
    <2> QED
      BY <1>9, <2>2, <2>3 DEF Sent
  <1>12. CASE r # 0
    <2>1. Len(v) > 0 /\ v[Len(v)] = <<i, b + r>>
      <3>1. r \in 1..r /\ Len(v) = Len(w) + r /\ Len(v) > 0
        BY <1>2, <1>5, <1>12
      <3>2. v[Len(w) + r] = <<i, b + r>>
        BY <1>6, <3>1
      <3> QED
        BY <3>1, <3>2
    <2>2. v[1][2] = 1
      <3>1. CASE Len(w) > 0
        BY <1>6, <1>8, <3>1
      <3>2. CASE Len(w) = 0
        <4>1. 1 \in 1..r /\ Len(w) + 1 = 1 /\ b + 1 = 1
          BY <1>7, <1>12, <3>2
        <4>2. v[Len(w) + 1] = <<i, b + 1>>
          BY <1>6, <4>1
        <4>3. v[1] = <<i, 1>>
          BY <4>1, <4>2
        <4> QED
          BY <4>3
      <3>3. Len(w) > 0 \/ Len(w) = 0
        BY <1>2
      <3> QED
        BY <3>1, <3>2, <3>3
    <2>3. v[Len(v)][1] \in 1..Len(P)
      BY <1>1, <1>10, <2>1
    <2>4. ASSUME NEW k \in On(P, s, "send"), Pending(P, k)
          PROVE  \/ v[Len(v)] = <<k, P[k].buf>>
                 \/ P[k].buf = 0 /\ v[Len(v)][1] < k
      <3>1. CASE k = i
        BY <1>1, <2>1, <2>4, <3>1 DEF Pending
      <3>2. CASE k \in 1..Len(O) /\ k # i
        <4>1. k \in On(O, s, "send") /\ P[k] = O[k]
          BY <3>2, OnKept DEF Served
        <4>2. Pending(O, k) /\ i < k
          BY <1>1, <2>4, <3>2, <4>1 DEF Pending
        <4>3. \/ Len(w) > 0 /\ w[Len(w)] = <<k, O[k].buf>>
              \/ O[k].buf = 0
          BY <4>1, <4>2 DEF Sent
        <4>4. ~(Len(w) > 0 /\ w[Len(w)] = <<k, O[k].buf>>)
          BY <1>1, <1>7, <3>2, <4>2
        <4> QED
          BY <2>1, <4>1, <4>2, <4>3, <4>4
      <3>3. CASE k \notin 1..Len(O)
        <4>1. k \in 1..Len(P) /\ P[k].buf = 0
          BY <3>3 DEF On, Served, Fresh
        <4> QED
          BY <1>1, <1>10, <2>1, <3>3, <4>1
      <3> QED
        BY <3>1, <3>2, <3>3
    <2> QED
      BY <1>9, <2>1, <2>2, <2>3, <2>4 DEF Sent
  <1> QED
    BY <1>11, <1>12

\* What a stream makes of a byte that arrives,
LEMMA StreamArrives ==
    ASSUME NEW O, NEW s, NEW in, NEW n \in Nat, NEW w, IsSeq(in), StreamInv(O, s, in, n, w)
    PROVE  StreamInv(O, s, Append(in, n + 1), n + 1, w)
  <1> DEFINE r == Append(in, n + 1)
  <1>1. Len(in) \in Nat /\ Len(in) <= n /\ \A j \in 1..Len(in) : in[j] = n - Len(in) + j
    BY SeqShape DEF StreamInv
  <1>2. /\ Len(r) = Len(in) + 1 /\ r[Len(in) + 1] = n + 1
        /\ \A j \in 1..Len(in) : r[j] = in[j]
    BY AppendSeq
  <1> HIDE DEF r
  <1>3. (n + 1) - Len(r) = n - Len(in) /\ Len(r) <= n + 1
    BY <1>1, <1>2
  <1>4. ASSUME NEW j \in 1..Len(r) PROVE r[j] = (n + 1) - Len(r) + j
    <2>1. CASE j \in 1..Len(in)
      BY <1>1, <1>2, <1>3, <2>1
    <2>2. CASE j \notin 1..Len(in)
      <3>1. j = Len(in) + 1
        BY <1>1, <1>2, <2>2
      <3> QED
        BY <1>1, <1>2, <1>3, <3>1
    <2> QED
      BY <2>1, <2>2
  <1> QED
    BY <1>3, <1>4 DEF StreamInv, r

\* of the receive of its oldest operation,
Due(O, s, q, i) ==
    /\ i \in On(O, s, q) /\ Pending(O, i)
    /\ InTurn(O, s, q) => \A k \in On(O, s, q) : Pending(O, k) => i <= k
Numbered(O, s) == \A k \in On(O, s, "recv") : \A j \in 1..Len(O[k].mem) : O[k].mem[j] \in Nat
Gains(o, h, in, r) ==
    /\ o.buf \in Nat /\ o.ask.len \in Nat /\ Len(o.mem) = o.ask.len
    /\ r \in Nat /\ r <= Len(in) /\ o.buf + r <= o.ask.len
    /\ Len(h.mem) = o.ask.len
    /\ \A j \in 1..o.ask.len :
         h.mem[j] = IF j \in (o.buf + 1)..(o.buf + r) THEN in[j - o.buf] ELSE o.mem[j]
    /\ h.res = <<>> => h.buf = o.buf + r

LEMMA StreamReceives ==
    ASSUME NEW O, NEW P, NEW s, NEW in, NEW n \in Nat, NEW w, IsSeq(in), StreamInv(O, s, in, n, w),
           KeepsAsks(O, P), NEW i, NEW h, Served(O, i, h, P), h.ask = O[i].ask,
           Due(O, s, "recv", i), Numbered(O, s), NEW r, Gains(O[i], h, in, r)
    PROVE  StreamInv(P, s, SubSeq(in, r + 1, Len(in)), n, w)
  <1> DEFINE u == SubSeq(in, r + 1, Len(in))
             m == n - Len(in)
             b == O[i].buf
             l == O[i].ask.len
  <1>9. /\ b \in Nat /\ l \in Nat /\ Len(O[i].mem) = l
        /\ r \in Nat /\ r <= Len(in) /\ b + r <= l /\ Len(h.mem) = l
        /\ \A j \in 1..l : h.mem[j] = IF j \in (b + 1)..(b + r) THEN in[j - b] ELSE O[i].mem[j]
        /\ h.res = <<>> => h.buf = b + r
    BY DEF Gains
  <1>10. b = O[i].buf
    OBVIOUS
  <1>11. /\ i \in On(O, s, "recv") /\ Pending(O, i)
         /\ InTurn(O, s, "recv") => \A k \in On(O, s, "recv") : Pending(O, k) => i <= k
         /\ \A k \in On(O, s, "recv") : \A j \in 1..Len(O[k].mem) : O[k].mem[j] \in Nat
    BY DEF Due, Numbered
  <1> HIDE DEF b, l
  <1>1. Len(in) \in Nat /\ Len(in) <= n /\ \A j \in 1..Len(in) : in[j] = n - Len(in) + j
    BY SeqShape DEF StreamInv
  <1>2. m \in Nat /\ \A j \in 1..Len(in) : in[j] = m + j
    BY <1>1
  <1>8. r + 1 \in 1..(Len(in) + 1) /\ Len(in) \in 0..Len(in)
    BY <1>1, <1>9
  <1>3. /\ Len(u) = IF r + 1 <= Len(in) THEN Len(in) - (r + 1) + 1 ELSE 0
        /\ \A j \in 1..(Len(in) - (r + 1) + 1) : u[j] = in[(r + 1) + j - 1]
    BY <1>8, SubSeqSeq
  <1>4. /\ Len(u) = Len(in) - r
        /\ \A j \in 1..(Len(in) - r) : u[j] = n - (Len(in) - r) + j
    <2>1. Len(u) = Len(in) - r
      BY <1>1, <1>3, <1>9
    <2>2. ASSUME NEW j \in 1..(Len(in) - r) PROVE u[j] = n - (Len(in) - r) + j
      <3>1. j \in 1..(Len(in) - (r + 1) + 1) /\ (r + 1) + j - 1 \in 1..Len(in)
        BY <1>1, <1>9
      <3>2. u[j] = in[(r + 1) + j - 1]
        BY <1>3, <3>1
      <3>3. in[(r + 1) + j - 1] = n - Len(in) + ((r + 1) + j - 1)
        BY <1>1, <1>9, <3>1
      <3>4. n - Len(in) + ((r + 1) + j - 1) = n - (Len(in) - r) + j
        BY <1>1, <1>9, <3>1
      <3> QED
        BY <3>2, <3>3, <3>4
    <2> QED
      BY <2>1, <2>2
  <1>5. Len(u) <= n /\ n - Len(u) = m + r
    BY <1>1, <1>4, <1>9
  <1> HIDE DEF u
  <1>6. ASSUME InTurn(P, s, "recv") PROVE Received(P, s, m + r)
    <2>1. InTurn(O, s, "recv")
      BY <1>6, OnKept
    <2>2. Received(O, s, m)
      BY <2>1 DEF StreamInv
    <2>3. \A j \in 1..l : j \in (b + 1)..(b + r) => j - b \in 1..Len(in)
      BY <1>1, <1>9
    <2>4. \A j \in 1..l : h.mem[j] = IF j \in (b + 1)..(b + r) THEN m + (j - b) ELSE O[i].mem[j]
      BY <1>2, <1>9, <2>3
    <2> HIDE DEF m
    <2> QED
      BY <1>2, <1>9, <1>10, <1>11, <2>1, <2>2, <2>4, ReceivedGrows
  <1>7. ASSUME InTurn(P, s, "send") PROVE Sent(P, s, w)
    <2>1. InTurn(O, s, "send")
      BY <1>7, OnKept
    <2>2. i \in 1..Len(O) /\ i \notin On(O, s, "send")
      BY <1>11 DEF On
    <2>3. Alike(O, P, s, "send")
      BY <2>2, ServedAlike
    <2>4. Sent(O, s, w)
      BY <2>1 DEF StreamInv
    <2> QED
      BY <2>3, <2>4, SentStays
  <1> QED
    BY <1>4, <1>5, <1>6, <1>7 DEF StreamInv, u

\* and of its send.
Gives(o, i, h, a, r) ==
    /\ o.buf \in Nat /\ r \in Nat /\ Len(a) = r
    /\ \A j \in 1..r : a[j] = <<i, o.buf + j>>
    /\ h.res = <<>> => h.buf = o.buf + r

LEMMA StreamSends ==
    ASSUME NEW O, NEW P, NEW s, NEW in, NEW n \in Nat,
           NEW w \in Seq(Nat \X Nat), NEW a \in Seq(Nat \X Nat),
           Len(in) \in Nat, StreamInv(O, s, in, n, w),
           KeepsAsks(O, P), NEW i, NEW h, Served(O, i, h, P), h.ask = O[i].ask,
           Due(O, s, "send", i), NEW r, Gives(O[i], i, h, a, r)
    PROVE  StreamInv(P, s, in, n, w \o a)
  <1> DEFINE b == O[i].buf
  <1>4. /\ b \in Nat /\ r \in Nat /\ Len(a) = r /\ \A j \in 1..r : a[j] = <<i, b + j>>
        /\ h.res = <<>> => h.buf = b + r
    BY DEF Gives
  <1>5. b = O[i].buf
    OBVIOUS
  <1>6. /\ i \in On(O, s, "send") /\ Pending(O, i)
        /\ InTurn(O, s, "send") => \A k \in On(O, s, "send") : Pending(O, k) => i <= k
    BY DEF Due
  <1> HIDE DEF b
  <1>1. n - Len(in) \in Nat
    BY DEF StreamInv
  <1>2. ASSUME InTurn(P, s, "recv") PROVE Received(P, s, n - Len(in))
    <2>1. InTurn(O, s, "recv")
      BY <1>2, OnKept
    <2>2. i \in 1..Len(O) /\ i \notin On(O, s, "recv")
      BY <1>6 DEF On
    <2>3. Alike(O, P, s, "recv")
      BY <2>2, ServedAlike
    <2>4. Received(O, s, n - Len(in))
      BY <2>1 DEF StreamInv
    <2> QED
      BY <1>1, <2>3, <2>4, ReceivedStays
  <1>3. ASSUME InTurn(P, s, "send") PROVE Sent(P, s, w \o a)
    <2>1. InTurn(O, s, "send")
      BY <1>3, OnKept
    <2>2. Sent(O, s, w)
      BY <2>1 DEF StreamInv
    <2> QED
      BY <1>4, <1>5, <1>6, <2>1, <2>2, SentGrows
  <1> QED
    BY <1>2, <1>3 DEF StreamInv
\* The order after a step, from the parts it is made of.
LEMMA OrderPrimed ==
    ASSUME Ordered(ops', queued', current'),
           \A s \in Sock : StreamInv(ops', s, inbox'[s], arrived'[s], wire'[s])
    PROVE  OrderInv'
  <1>1. Ordered(ops, queued, current)'
    BY DEF Ordered, Ascends, Whole
  <1>2. ASSUME NEW s \in Sock PROVE StreamInv(ops, s, inbox[s], arrived[s], wire[s])'
    <2>1. StreamInv(ops', s, inbox'[s], arrived'[s], wire'[s])
      OBVIOUS
    <2> QED
      BY <2>1 DEF StreamInv, InTurn, Received, Sent, On, KindOf, Whole, Pending, Follows
  <1> QED
    BY <1>1, <1>2 DEF OrderInv

\* What the world is to the streams.
LEMMA WorldShape ==
    ASSUME LoopInv
    PROVE  /\ Len(ops) \in Nat
           /\ \A s \in Sock : /\ IsSeq(inbox[s]) /\ Len(inbox[s]) \in Nat /\ arrived[s] \in Nat
                              /\ wire[s] \in Seq(Nat \X Nat)
           /\ \A i \in 1..Len(ops) : /\ Len(ops[i].mem) = ops[i].ask.len /\ ops[i].ask.len \in Nat
                                     /\ ops[i].buf \in Nat
                                     /\ \A j \in 1..ops[i].ask.len : ops[i].mem[j] \in Nat
  <1>1. WorldInv /\ OpsInv(ops)
    BY DEF LoopInv
  <1>2. Len(ops) \in Nat
    BY <1>1, LenProperties DEF OpsInv
  <1>3. ASSUME NEW s \in Sock
        PROVE  /\ IsSeq(inbox[s]) /\ Len(inbox[s]) \in Nat /\ arrived[s] \in Nat
               /\ wire[s] \in Seq(Nat \X Nat)
    <2>1. inbox[s] \in Seq(1..MaxBytes) /\ arrived[s] \in 0..MaxBytes
          /\ wire[s] \in Seq(Nat \X Nat)
      BY <1>1 DEF WorldInv
    <2> QED
      BY <2>1, SeqIsSeq, LenProperties
  <1>4. ASSUME NEW i \in 1..Len(ops)
        PROVE  /\ Len(ops[i].mem) = ops[i].ask.len /\ ops[i].ask.len \in Nat
               /\ ops[i].buf \in Nat
               /\ \A j \in 1..ops[i].ask.len : ops[i].mem[j] \in Nat
    <2>1. ops[i] \in Op /\ ops[i].ask.len \in Nat /\ Len(ops[i].mem) = ops[i].ask.len
      BY <1>1, OpShape DEF OpsInv
    <2>2. ops[i].mem \in Seq(Nat) /\ ops[i].buf \in Nat
      BY <2>1 DEF Op
    <2> QED
      BY <2>1, <2>2, ElementOfSeq
  <1> QED
    BY <1>2, <1>3, <1>4

LEMMA AsksKept ==
    ASSUME LoopInv, LoopInv', Len(ops) <= Len(ops'),
           \A k \in 1..Len(ops) : ops'[k].ask = ops[k].ask
    PROVE  KeepsAsks(ops, ops')
  <1>1. OpsInv(ops) /\ OpsInv(ops)'
    BY DEF LoopInv
  <1>2. ops \in Seq(Op) /\ ops' \in Seq(Op)
    BY <1>1 DEF OpsInv
  <1>3. Len(ops) \in Nat /\ Len(ops') \in Nat
    BY <1>2, LenProperties
  <1> QED
    BY <1>3 DEF KeepsAsks

\* The streams on which nothing happens.
LEMMA StreamsStay ==
    ASSUME LoopInv, OrderInv, KeepsAsks(ops, ops'), NEW s \in Sock,
           Alike(ops, ops', s, "recv"), Alike(ops, ops', s, "send"),
           inbox'[s] = inbox[s], arrived'[s] = arrived[s], wire'[s] = wire[s]
    PROVE  StreamInv(ops', s, inbox'[s], arrived'[s], wire'[s])
  <1>1. /\ Len(inbox[s]) \in Nat /\ arrived[s] \in Nat
        /\ StreamInv(ops, s, inbox[s], arrived[s], wire[s])
    BY WorldShape DEF OrderInv
  <1>2. StreamInv(ops', s, inbox[s], arrived[s], wire[s])
    BY <1>1, StreamStays
  <1> QED
    BY <1>2

\* Steps that serve nothing.
LEMMA ArriveOrder == ASSUME LoopInv, OrderInv, NEW s \in Sock, Arrive(s) PROVE OrderInv'
  <1>1. /\ arrived' = [arrived EXCEPT ![s] = arrived[s] + 1]
        /\ inbox' = [inbox EXCEPT ![s] = Append(inbox[s], arrived[s] + 1)]
        /\ wire' = wire /\ UNCHANGED <<ops, queued, current>>
    BY DEF Arrive, loop
  <1>2. DOMAIN arrived = Sock /\ DOMAIN inbox = Sock
    BY DEF LoopInv, WorldInv
  <1>3. Ordered(ops', queued', current')
    BY <1>1 DEF OrderInv
  <1>4. ASSUME NEW u \in Sock PROVE StreamInv(ops', u, inbox'[u], arrived'[u], wire'[u])
    <2>1. StreamInv(ops, u, inbox[u], arrived[u], wire[u])
      BY DEF OrderInv
    <2>2. CASE u # s
      <3>1. inbox'[u] = inbox[u] /\ arrived'[u] = arrived[u]
        BY <1>1, <1>2, <2>2
      <3> QED
        BY <1>1, <2>1, <3>1
    <2>3. CASE u = s
      <3>1. inbox'[u] = Append(inbox[u], arrived[u] + 1) /\ arrived'[u] = arrived[u] + 1
        BY <1>1, <1>2, <2>3
      <3>2. IsSeq(inbox[u]) /\ arrived[u] \in Nat
        BY WorldShape
      <3>3. StreamInv(ops, u, Append(inbox[u], arrived[u] + 1), arrived[u] + 1, wire[u])
        BY <2>1, <3>2, StreamArrives
      <3> QED
        BY <1>1, <3>1, <3>3
    <2> QED
      BY <2>2, <2>3
  <1> QED
    BY <1>3, <1>4, OrderPrimed

LEMMA SameStreams ==
    ASSUME OrderInv, UNCHANGED <<ops, inbox, arrived, wire>>
    PROVE  \A s \in Sock : StreamInv(ops', s, inbox'[s], arrived'[s], wire'[s])
  BY DEF OrderInv

LEMMA SameOrder ==
    ASSUME OrderInv, UNCHANGED <<ops, queued, current, inbox, arrived, wire>>
    PROVE  OrderInv'
  <1>1. Ordered(ops', queued', current')
    BY DEF OrderInv
  <1> QED
    BY <1>1, SameStreams, OrderPrimed

LEMMA IdleOrder == ASSUME LoopInv, LoopInv', OrderInv, IdleEffect PROVE OrderInv'
  <1>1. /\ Followed(ops, ops') /\ Grown(ops, queued, queued')
        /\ UNCHANGED <<current, inbox, arrived, wire>>
    BY DEF IdleEffect
  <1>2. Len(ops) <= Len(ops') /\ \A k \in 1..Len(ops) : ops'[k].ask = ops[k].ask
    BY <1>1 DEF Followed
  <1>3. KeepsAsks(ops, ops')
    BY <1>2, AsksKept
  <1>4. ASSUME NEW s \in Sock PROVE StreamInv(ops', s, inbox'[s], arrived'[s], wire'[s])
    <2>1. Alike(ops, ops', s, "recv") /\ Alike(ops, ops', s, "send")
      BY <1>1, FollowedAlike
    <2> QED
      BY <1>1, <1>3, <2>1, StreamsStay
  <1>5. Ordered(ops', queued', current')
    <2>1. Len(ops) \in Nat /\ Placed(ops, queued, current) /\ Ordered(ops, queued, current)
      BY WorldShape DEF LoopInv, OrderInv
    <2>2. \A q \in PhaseName : current'[q] = current[q]
      BY <1>1
    <2> QED
      BY <1>1, <1>2, <2>1, <2>2, OrderedKeeps
  <1> QED
    BY <1>4, <1>5, OrderPrimed

LEMMA SelectOrder == ASSUME LoopInv, OrderInv, Select PROVE OrderInv'
  <1>1. /\ current' = queued /\ queued' = Empty /\ UNCHANGED <<ops, inbox, arrived, wire>>
    BY DEF Select, Cleared, world, traffic
  <1>2. \A q \in PhaseName : queued'[q] = <<>>
    BY <1>1, PhaseNames DEF Empty
  <1>3. Len(<<>>) = 0 /\ Range(<<>>) = {}
    BY EmptyShape
  <1>4. \A q \in PhaseName : Ascends(ops', queued'[q]) /\ Range(queued'[q]) = {}
    BY <1>2, <1>3 DEF Ascends
  <1>5. \A q \in PhaseName : Ascends(ops', current'[q])
    BY <1>1 DEF OrderInv, Ordered
  <1>6. Ordered(ops', queued', current')
    BY <1>4, <1>5 DEF Ordered
  <1> QED
    BY <1>1, <1>6, SameStreams, OrderPrimed

LEMMA MergeOrder == ASSUME LoopInv, OrderInv, Merge PROVE OrderInv'
  <1>1. /\ queued' = [q \in PhaseName |-> current[q] \o queued[q]] /\ current' = Empty
        /\ UNCHANGED <<ops, inbox, arrived, wire>>
    BY PhaseNames DEF Merge, OldFirst, world, traffic
  <1>2. \A q \in PhaseName : current'[q] = <<>>
    BY <1>1, PhaseNames DEF Empty
  <1>3. Len(<<>>) = 0 /\ Range(<<>>) = {}
    BY EmptyShape
  <1>4. \A q \in PhaseName : Ascends(ops', current'[q]) /\ Range(current'[q]) = {}
    BY <1>2, <1>3 DEF Ascends
  <1>5. ASSUME NEW q \in PhaseName PROVE Ascends(ops', queued'[q])
    <2>1. QueueInv(ops, queued[q], q) /\ QueueInv(ops, current[q], q)
      BY DEF LoopInv, Placed
    <2>2. IsSeq(queued[q]) /\ IsSeq(current[q])
      BY <2>1, SeqIsSeq DEF QueueInv
    <2>3. /\ Ascends(ops, queued[q]) /\ Ascends(ops, current[q])
          /\ \A i \in Range(current[q]), k \in Range(queued[q]) :
               ~Whole(ops[i]) /\ ~Whole(ops[k]) => i < k
      BY DEF OrderInv, Ordered
    <2>4. Ascends(ops, current[q] \o queued[q])
      BY <2>2, <2>3, AscendsConcat
    <2> QED
      BY <1>1, <2>4
  <1>6. Ordered(ops', queued', current')
    BY <1>4, <1>5 DEF Ordered
  <1> QED
    BY <1>1, <1>6, SameStreams, OrderPrimed

\* Steps that serve operation i.
LEMMA StepOrder ==
    ASSUME LoopInv, LoopInv', OrderInv, NEW q \in PhaseName, NEW i, NEW h, Step(q, i, h)
    PROVE  /\ i \in 1..Len(ops) /\ KindOf(ops, i) = q /\ Pending(ops, i)
           /\ Served(ops, i, h, ops') /\ h.ask = ops[i].ask
           /\ KeepsAsks(ops, ops') /\ Ordered(ops', queued', current')
  <1>1. /\ Serve(q, i) /\ Served(ops, i, h, ops') /\ h.ask = ops[i].ask
        /\ Grown(ops, queued, queued')
    BY DEF Step
  <1>2. /\ OpsInv(ops) /\ Placed(ops, queued, current) /\ Ordered(ops, queued, current)
        /\ Len(ops) \in Nat
    BY WorldShape DEF LoopInv, OrderInv
  <1>3. i \in 1..Len(ops) /\ KindOf(ops, i) = q /\ Pending(ops, i)
    BY <1>1, <1>2, ServeTakes
  <1>4. Len(ops) <= Len(ops') /\ \A k \in 1..Len(ops) : ops'[k].ask = ops[k].ask
    BY <1>1, <1>3 DEF Served
  <1>5. KeepsAsks(ops, ops')
    BY <1>4, AsksKept
  <1>6. PICK j \in 1..Len(current[q]) :
          /\ current'[q] = RemoveAt(current[q], j)
          /\ \A p \in PhaseName : p # q => current'[p] = current[p]
    BY <1>1, <1>2, ServeFirst
  <1>7. \A p \in PhaseName : \/ current'[p] = current[p]
                             \/ \E l \in 1..Len(current[p]) : current'[p] = RemoveAt(current[p], l)
    BY <1>6
  <1>8. Ordered(ops', queued', current')
    BY <1>1, <1>2, <1>4, <1>7, OrderedKeeps
  <1> QED
    BY <1>1, <1>3, <1>5, <1>8

\* The streams of other descriptors and other kinds.
LEMMA OtherStreams ==
    ASSUME LoopInv, OrderInv, KeepsAsks(ops, ops'), NEW i \in 1..Len(ops), NEW h,
           Served(ops, i, h, ops'), h.ask = ops[i].ask, NEW s \in Sock,
           s # ops[i].ask.fd \/ KindOf(ops, i) \notin {"recv", "send"},
           inbox'[s] = inbox[s], arrived'[s] = arrived[s], wire'[s] = wire[s]
    PROVE  StreamInv(ops', s, inbox'[s], arrived'[s], wire'[s])
  <1>1. i \notin On(ops, s, "recv") /\ i \notin On(ops, s, "send")
    BY DEF On
  <1>2. Alike(ops, ops', s, "recv") /\ Alike(ops, ops', s, "send")
    BY <1>1, ServedAlike
  <1> QED
    BY <1>2, StreamsStay

LEMMA OtherOrder ==
    ASSUME LoopInv, LoopInv', OrderInv, NEW i, NEW h, OtherEffect(i, h)
    PROVE  OrderInv'
  <1>1. PICK q \in {"accept", "wait"} : Step(q, i, h)
    BY DEF OtherEffect
  <1>2. UNCHANGED <<inbox, arrived, wire>> /\ q \in PhaseName
    BY DEF OtherEffect, PhaseName
  <1>3. /\ i \in 1..Len(ops) /\ KindOf(ops, i) = q
        /\ Served(ops, i, h, ops') /\ h.ask = ops[i].ask
        /\ KeepsAsks(ops, ops') /\ Ordered(ops', queued', current')
    BY <1>1, <1>2, StepOrder
  <1>4. \A s \in Sock : StreamInv(ops', s, inbox'[s], arrived'[s], wire'[s])
    BY <1>2, <1>3, OtherStreams
  <1> QED
    BY <1>3, <1>4, OrderPrimed

LEMMA RecvOrder ==
    ASSUME LoopInv, LoopInv', OrderInv, NEW i, NEW h, NEW r, RecvEffect(i, h, r)
    PROVE  OrderInv'
  <1> DEFINE s == ops[i].ask.fd
             b == ops[i].buf
             l == ops[i].ask.len
  <1>1. /\ Step("recv", i, h)
        /\ r \in Nat /\ r <= Len(inbox[s]) /\ b + r <= l /\ Len(h.mem) = l
        /\ \A j \in 1..l :
             h.mem[j] = IF j \in (b + 1)..(b + r) THEN inbox[s][j - b] ELSE ops[i].mem[j]
        /\ h.res = <<>> => h.buf = b + r
        /\ inbox' = [inbox EXCEPT ![s] = SubSeq(inbox[s], r + 1, Len(inbox[s]))]
        /\ UNCHANGED <<arrived, wire>>
    BY DEF RecvEffect
  <1>2. "recv" \in PhaseName
    BY DEF PhaseName
  <1>3. /\ i \in 1..Len(ops) /\ KindOf(ops, i) = "recv" /\ Pending(ops, i)
        /\ Served(ops, i, h, ops') /\ h.ask = ops[i].ask
        /\ KeepsAsks(ops, ops') /\ Ordered(ops', queued', current')
    BY <1>1, <1>2, StepOrder
  <1>4. OpsInv(ops) /\ DOMAIN inbox = Sock
    BY DEF LoopInv, WorldInv
  <1>5. s \in Sock /\ i \in On(ops, s, "recv")
    <2>1. s \in Sock
      BY <1>3, <1>4, OpShape
    <2> QED
      BY <1>3, <2>1 DEF On
  <1>6. /\ IsSeq(inbox[s]) /\ arrived[s] \in Nat /\ b \in Nat /\ l \in Nat /\ Len(ops[i].mem) = l
    BY <1>3, <1>5, WorldShape
  <1>7. \A k \in On(ops, s, "recv") : \A j \in 1..Len(ops[k].mem) : ops[k].mem[j] \in Nat
    BY WorldShape DEF On
  <1>8. InTurn(ops, s, "recv") => \A k \in On(ops, s, "recv") : Pending(ops, k) => i <= k
    <2>1. Serve("recv", i) /\ Ordered(ops, queued, current)
      BY <1>1 DEF Step, OrderInv
    <2> QED
      BY <1>2, <2>1, ServesOldest
  <1>9. StreamInv(ops, s, inbox[s], arrived[s], wire[s])
    BY <1>5 DEF OrderInv
  <1>10. /\ Due(ops, s, "recv", i) /\ Numbered(ops, s) /\ Gains(ops[i], h, inbox[s], r)
    BY <1>1, <1>3, <1>5, <1>6, <1>7, <1>8 DEF Due, Numbered, Gains
  <1> HIDE DEF s
  <1>11. StreamInv(ops', s, SubSeq(inbox[s], r + 1, Len(inbox[s])), arrived[s], wire[s])
    BY <1>3, <1>6, <1>9, <1>10, StreamReceives
  <1>12. ASSUME NEW u \in Sock PROVE StreamInv(ops', u, inbox'[u], arrived'[u], wire'[u])
    <2>1. CASE u = s
      <3>1. inbox'[u] = SubSeq(inbox[s], r + 1, Len(inbox[s]))
        BY <1>1, <1>4, <2>1
      <3> QED
        BY <1>1, <1>11, <2>1, <3>1
    <2>2. CASE u # s
      <3>1. inbox'[u] = inbox[u] /\ arrived'[u] = arrived[u] /\ wire'[u] = wire[u]
        BY <1>1, <1>4, <2>2
      <3>2. u # ops[i].ask.fd
        BY <2>2 DEF s
      <3> QED
        BY <1>3, <3>1, <3>2, OtherStreams
    <2> QED
      BY <2>1, <2>2
  <1> QED
    BY <1>3, <1>12, OrderPrimed

LEMMA SendOrder ==
    ASSUME LoopInv, LoopInv', OrderInv, NEW i, NEW h, NEW r, SendEffect(i, h, r)
    PROVE  OrderInv'
  <1> DEFINE s == ops[i].ask.fd
             b == ops[i].buf
             a == [j \in 1..r |-> <<i, b + j>>]
  <1>1. /\ Step("send", i, h) /\ r \in Nat
        /\ h.res = <<>> => h.buf = b + r
        /\ wire' = [wire EXCEPT ![s] = wire[s] \o a]
        /\ UNCHANGED <<inbox, arrived>>
    BY DEF SendEffect
  <1>2. "send" \in PhaseName
    BY DEF PhaseName
  <1>3. /\ i \in 1..Len(ops) /\ KindOf(ops, i) = "send" /\ Pending(ops, i)
        /\ Served(ops, i, h, ops') /\ h.ask = ops[i].ask
        /\ KeepsAsks(ops, ops') /\ Ordered(ops', queued', current')
    BY <1>1, <1>2, StepOrder
  <1>4. OpsInv(ops) /\ DOMAIN wire = Sock
    BY DEF LoopInv, WorldInv
  <1>5. s \in Sock /\ i \in On(ops, s, "send")
    <2>1. s \in Sock
      BY <1>3, <1>4, OpShape
    <2> QED
      BY <1>3, <2>1 DEF On
  <1>6. /\ Len(inbox[s]) \in Nat /\ arrived[s] \in Nat /\ b \in Nat
        /\ wire[s] \in Seq(Nat \X Nat)
    BY <1>3, <1>5, WorldShape
  <1>7. a \in Seq(Nat \X Nat) /\ Len(a) = r /\ \A j \in 1..r : a[j] = <<i, b + j>>
    <2>3. r \in Nat /\ i \in Nat /\ b \in Nat
      BY <1>1, <1>3, <1>6
    <2>1. \A j \in 1..r : <<i, b + j>> \in Nat \X Nat
      BY <2>3
    <2>2. a \in [1..r -> Nat \X Nat]
      BY <2>1
    <2> QED
      BY <1>1, <2>2, FunctionIsSeq
  <1>8. InTurn(ops, s, "send") => \A k \in On(ops, s, "send") : Pending(ops, k) => i <= k
    <2>1. Serve("send", i) /\ Ordered(ops, queued, current)
      BY <1>1 DEF Step, OrderInv
    <2> QED
      BY <1>2, <2>1, ServesOldest
  <1>9. StreamInv(ops, s, inbox[s], arrived[s], wire[s])
    BY <1>5 DEF OrderInv
  <1>10. Due(ops, s, "send", i) /\ Gives(ops[i], i, h, a, r)
    BY <1>1, <1>3, <1>5, <1>6, <1>7, <1>8 DEF Due, Gives
  <1> HIDE DEF s, a
  <1>11. StreamInv(ops', s, inbox[s], arrived[s], wire[s] \o a)
    BY <1>3, <1>6, <1>7, <1>9, <1>10, StreamSends
  <1>12. ASSUME NEW u \in Sock PROVE StreamInv(ops', u, inbox'[u], arrived'[u], wire'[u])
    <2>1. CASE u = s
      <3>1. wire'[u] = wire[s] \o a
        BY <1>1, <1>4, <2>1
      <3> QED
        BY <1>1, <1>11, <2>1, <3>1
    <2>2. CASE u # s
      <3>1. inbox'[u] = inbox[u] /\ arrived'[u] = arrived[u] /\ wire'[u] = wire[u]
        BY <1>1, <1>4, <2>2
      <3>2. u # ops[i].ask.fd
        BY <2>2 DEF s
      <3> QED
        BY <1>3, <3>1, <3>2, OtherStreams
    <2> QED
      BY <2>1, <2>2
  <1> QED
    BY <1>3, <1>12, OrderPrimed

LEMMA InitOrder == Init => OrderInv
  <1> SUFFICES ASSUME Init PROVE OrderInv
    OBVIOUS
  <1>1. /\ ops = <<>> /\ queued = Empty /\ current = Empty
        /\ inbox = [s \in Sock |-> <<>>] /\ arrived = [s \in Sock |-> 0]
        /\ wire = [s \in Sock |-> <<>>]
    BY DEF Init
  <1>2. Len(<<>>) = 0 /\ Range(<<>>) = {} /\ Len(ops) = 0
    BY <1>1, EmptyShape
  <1>3. \A q \in PhaseName : queued[q] = <<>> /\ current[q] = <<>>
    BY <1>1, PhaseNames DEF Empty
  <1>4. Ordered(ops, queued, current)
    BY <1>2, <1>3 DEF Ordered, Ascends
  <1>5. ASSUME NEW s \in Sock PROVE StreamInv(ops, s, inbox[s], arrived[s], wire[s])
    <2>1. inbox[s] = <<>> /\ arrived[s] = 0 /\ wire[s] = <<>> /\ On(ops, s, "recv") = {}
          /\ On(ops, s, "send") = {}
      BY <1>1, <1>2 DEF On
    <2>2. Received(ops, s, 0)
      BY <2>1 DEF Received
    <2>3. Sent(ops, s, <<>>)
      BY <1>2, <2>1 DEF Sent
    <2> QED
      BY <1>2, <2>1, <2>2, <2>3 DEF StreamInv
  <1> QED
    BY <1>4, <1>5 DEF OrderInv
-----------------------------------------------------------------------------
(* The theorems. *)

\* The inductive invariant, of every behaviour of the loop.
THEOREM LoopInvariant == Spec => []LoopInv
  <1>1. LoopInv /\ [Next]_vars => LoopInv'
    <2> SUFFICES ASSUME LoopInv, [Next]_vars PROVE LoopInv'
      OBVIOUS
    <2>1. ASSUME NEW s \in Sock, Arrive(s) PROVE LoopInv'
      BY <2>1, ArriveKeeps
    <2>2. ASSUME NEW s \in Sock, EndOfFile(s) PROVE LoopInv'
      BY <2>2, EndOfFileKeeps
    <2>3. ASSUME NEW s \in Sock, Drain(s) PROVE LoopInv'
      BY <2>3, DrainKeeps
    <2>4. ASSUME NEW l \in Listener, Connection(l) PROVE LoopInv'
      BY <2>4, ConnectionKeeps
    <2>5. ASSUME NEW t \in Timer, Tick(t) PROVE LoopInv'
      BY <2>5, TickKeeps
    <2>6. CASE Idle
      BY <2>6, IdleKeeps
    <2>7. CASE Run \/ Leave
      BY <2>7, RunLeaveKeeps
    <2>8. CASE Select
      BY <2>8, SelectKeeps
    <2>9. CASE RecvStep
      BY <2>9, RecvStepKeeps
    <2>10. CASE SendStep
      BY <2>10, SendStepKeeps
    <2>11. CASE AcceptStep
      BY <2>11, AcceptStepKeeps
    <2>12. CASE WaitStep
      BY <2>12, WaitStepKeeps
    <2>13. CASE Merge
      BY <2>13, MergeKeeps
    <2>14. CASE UNCHANGED vars
      BY <2>14, LoopStutter
    <2> QED
      BY <2>1, <2>2, <2>3, <2>4, <2>5, <2>6, <2>7, <2>8, <2>9, <2>10, <2>11, <2>12,
         <2>13, <2>14 DEF Next
  <1> QED
    BY <1>1, InitLoop, PTL DEF Spec

\* Types, and the capacity of the send buffers.
THEOREM TypeCorrect == Spec => []TypeOK
  <1>1. LoopInv => TypeOK
    <2> SUFFICES ASSUME LoopInv PROVE TypeOK
      OBVIOUS
    <2>1. OpsInv(ops) /\ Placed(ops, queued, current) /\ WorldInv /\ ControlInv
      BY DEF LoopInv
    <2>2. ASSUME NEW i \in Ids
          PROVE  /\ ops[i].ask \in Menu[i] /\ ops[i].len \in 0..ops[i].ask.len
                 /\ Len(ops[i].mem) = ops[i].ask.len /\ ops[i].res \in Seq(Nat)
      <3>1. i \in 1..Len(ops) /\ ops[i] \in Op /\ ops[i].ask.len \in Nat
        BY <2>1, OpShape DEF Ids
      <3>2. ops[i].buf \in Nat /\ ops[i].len \in Nat /\ ops[i].res \in Seq(Nat)
        BY <3>1 DEF Op
      <3>3. /\ ops[i].ask \in Menu[i] /\ ops[i].buf + ops[i].len = ops[i].ask.len
            /\ Len(ops[i].mem) = ops[i].ask.len
        BY <2>1, <3>1 DEF OpsInv
      <3> QED
        BY <3>1, <3>2, <3>3
    <2>3. ASSUME NEW s \in Sock
          PROVE  Range(inbox[s]) \subseteq 1..MaxBytes /\ Room(s) \in 0..SndCap
      <3>1. inbox[s] \in Seq(1..MaxBytes) /\ Room(s) \in 0..SndCap
        BY <2>1 DEF WorldInv
      <3>2. \A k \in 1..Len(inbox[s]) : inbox[s][k] \in 1..MaxBytes
        BY <3>1, ElementOfSeq
      <3> QED
        BY <3>1, <3>2, LenProperties DEF Range
    <2>4. ASSUME NEW q \in PhaseName, NEW j \in Range(queued[q]) \cup Range(current[q])
          PROVE  j \in Ids /\ QueueOf(ops[j].ask) = q
      <3>1. QueueInv(ops, queued[q], q) /\ QueueInv(ops, current[q], q)
        BY <2>1 DEF Placed
      <3>2. ASSUME NEW t, QueueInv(ops, t, q), j \in Range(t)
            PROVE  j \in Ids /\ QueueOf(ops[j].ask) = q
        <4>1. t \in Seq(1..Len(ops)) /\ DOMAIN t = 1..Len(t)
          BY <3>2, LenProperties DEF QueueInv
        <4>2. PICK k \in 1..Len(t) : t[k] = j
          BY <3>2, <4>1 DEF Range
        <4>3. j \in 1..Len(ops)
          BY <4>1, <4>2, ElementOfSeq
        <4> QED
          BY <3>2, <4>2, <4>3 DEF QueueInv, KindOf, Ids
      <3> QED
        BY <3>1, <3>2
    <2>5. \A q \in PhaseName : pc \in {"idle", "top"} => current[q] = <<>>
      BY <2>1, PhaseNames DEF ControlInv, Empty
    <2>6. /\ pc \in {"idle", "top", "serve", "aborted"} /\ m_stop \in BOOLEAN
          /\ rfds \cup wfds \subseteq Sock \cup Listener \cup Timer
      BY <2>1 DEF ControlInv
    <2> QED
      BY <2>2, <2>3, <2>4, <2>5, <2>6, PhaseNames DEF TypeOK
  <1> QED
    BY <1>1, LoopInvariant, PTL

\* What select said of a descriptor that is not shared is so when its operation
\* is served, whatever the callbacks before it did, unless it was a timer and
\* has been set anew since.
THEOREM SelectIsTrue == Spec => []SelectHolds
  <1>1. LoopInv => SelectHolds
    <2> SUFFICES ASSUME LoopInv, NEW q \in PhaseName, NEW j \in Ready(q)
                 PROVE  LET s == ops[current[q][j]].ask.fd
                        IN s \notin Shared => Holds(q, s)
      BY PhaseNames DEF SelectHolds, Holds, Unread
    <2>1. j \in 1..Len(current[q]) /\ ops[current[q][j]].ask.fd \in Reported(q)
      BY DEF Ready, Reported
    <2> QED
      BY <2>1 DEF LoopInv, Promised
  <1> QED
    BY <1>1, LoopInvariant, PTL

\* An operation that goes to the end ends there, with the whole length.
THEOREM AllMeansWhole == Spec => []AllMeansAll
  <1>1. LoopInv => AllMeansAll
    <2> SUFFICES ASSUME LoopInv, NEW i \in Ids, ToTheEnd(i), Finished(i)
                 PROVE  /\ ops[i].res = <<ops[i].ask.len>>
                        /\ IF QueueOf(ops[i].ask) = "recv"
                           THEN 0 \notin Range(ops[i].mem)
                           ELSE \A j \in 1..ops[i].ask.len : <<i, j>> \in Range(wire[ops[i].ask.fd])
      BY DEF AllMeansAll
    <2>1. i \in 1..Len(ops) /\ Whole(ops[i]) /\ ops[i].res # <<>>
      BY DEF Ids, ToTheEnd, Whole, Finished
    <2>2. OpsInv(ops) /\ DoneOp(ops[i], i, wire)
      BY <2>1 DEF LoopInv, DoneInv
    <2>3. ops[i] \in Op /\ ops[i].ask.len \in Nat
      BY <2>1, <2>2, OpShape
    <2>4. ops[i].len = 0 /\ ops[i].res = <<ops[i].ask.len>> /\ ops[i].buf = ops[i].ask.len
      BY <2>1, <2>2, <2>3 DEF OpsInv, DoneOp, Op
    <2>5. DOMAIN ops[i].mem = 1..ops[i].ask.len
      BY <2>1, <2>2, <2>3, LenProperties DEF OpsInv, Op
    <2> QED
      BY <2>2, <2>4, <2>5 DEF DoneOp, Range
  <1> QED
    BY <1>1, LoopInvariant, PTL

\* The assertion on the result of accept never fails, if no listener is shared.
THEOREM NeverAborted == Shared \cap Listener = {} /\ Spec => [](pc # "aborted")
  <1>1. Init => pc # "aborted"
    BY DEF Init
  <1>2. ASSUME Shared \cap Listener = {}, LoopInv, pc # "aborted", [Next]_vars
        PROVE  pc' # "aborted"
    <2>1. CASE AcceptStep
      <3>1. PICK i \in Ids :
              /\ Serve("accept", i)
              /\ backlog[ops[i].ask.fd] > 0 => pc' = pc
        BY <2>1 DEF AcceptStep
      <3>2. OpsInv(ops) /\ Placed(ops, queued, current) /\ "accept" \in PhaseName
        BY <1>2 DEF LoopInv, PhaseName
      <3>3. /\ i \in 1..Len(ops) /\ KindOf(ops, i) = "accept"
            /\ ops[i].ask.fd \in Reported("accept") /\ i \in Range(current["accept"])
        BY <3>1, <3>2, ServeTakes
      <3>4. ops[i].ask.fd \in Listener
        BY <3>2, <3>3, OpShape
      <3>5. QueueInv(ops, current["accept"], "accept")
        BY <3>2 DEF Placed
      <3>6. PICK j \in 1..Len(current["accept"]) : current["accept"][j] = i
        BY <3>3, <3>5, LenProperties DEF QueueInv, Range
      <3>7. Holds("accept", ops[i].ask.fd)
        BY <1>2, <3>2, <3>3, <3>4, <3>6 DEF LoopInv, Promised
      <3> QED
        BY <1>2, <3>1, <3>7 DEF Holds
    <2>2. CASE ~AcceptStep
      BY <1>2, <2>2 DEF Next, Arrive, EndOfFile, Drain, Connection, Tick, Idle, Run, Leave, Select,
         RecvStep, SendStep, WaitStep, Merge, vars, loop
    <2> QED
      BY <2>1, <2>2
  <1>3. Spec => []LoopInv
    BY LoopInvariant
  <1> QED
    <2> SUFFICES ASSUME Shared \cap Listener = {}
                 PROVE  Spec => [](pc # "aborted")
      OBVIOUS
    <2>1. LoopInv /\ pc # "aborted" /\ [Next]_vars => (pc # "aborted")'
      BY <1>2
    <2> QED
      BY <1>1, <1>3, <2>1, PTL DEF Spec

\* The order of bytes: issuing, merging and serving keep the queues in the order
\* of issue as far as it matters, so that the next byte of a stream goes to the
\* oldest operation that waits for it, at its offset.
THEOREM OrderInvariant == Spec => []OrderInv
  <1>1. LoopInv /\ LoopInv' /\ OrderInv /\ [Next]_vars => OrderInv'
    <2> SUFFICES ASSUME LoopInv, LoopInv', OrderInv, [Next]_vars PROVE OrderInv'
      OBVIOUS
    <2>1. ASSUME NEW s \in Sock, Arrive(s) PROVE OrderInv'
      BY <2>1, ArriveOrder
    <2>2. CASE \/ \E s \in Sock : EndOfFile(s) \/ Drain(s)
               \/ \E l \in Listener : Connection(l)
               \/ \E t \in Timer : Tick(t)
      <3>1. UNCHANGED <<ops, queued, current, inbox, arrived, wire>>
        BY <2>2 DEF EndOfFile, Drain, Connection, Tick, loop, traffic
      <3> QED
        BY <3>1, SameOrder
    <2>3. CASE Idle
      BY <2>3, IdleKeeps, IdleOrder
    <2>4. CASE Run \/ Leave
      <3>1. UNCHANGED <<ops, queued, current, inbox, arrived, wire>>
        BY <2>4 DEF Run, Leave, world, traffic
      <3> QED
        BY <3>1, SameOrder
    <2>5. CASE Select
      BY <2>5, SelectOrder
    <2>6. CASE RecvStep
      BY <2>6, RecvStepKeeps, RecvOrder
    <2>7. CASE SendStep
      BY <2>7, SendStepKeeps, SendOrder
    <2>8. CASE AcceptStep
      BY <2>8, AcceptStepKeeps, OtherOrder
    <2>9. CASE WaitStep
      BY <2>9, WaitStepKeeps, OtherOrder
    <2>10. CASE Merge
      BY <2>10, MergeOrder
    <2>11. CASE UNCHANGED vars
      <3>1. UNCHANGED <<ops, queued, current, inbox, arrived, wire>>
        BY <2>11 DEF vars, loop, world, traffic
      <3> QED
        BY <3>1, SameOrder
    <2> QED
      BY <2>1, <2>2, <2>3, <2>4, <2>5, <2>6, <2>7, <2>8, <2>9, <2>10, <2>11 DEF Next
  <1> QED
    BY <1>1, InitOrder, LoopInvariant, PTL DEF Spec

\* The stream of a socket goes into the buffers in the order the operations were
\* issued, no byte lost, overwritten or received twice, and the buffers go into
\* the stream in that order, without gaps, unless operations of several pieces
\* compete for it.
THEOREM BytesOrdered == Spec => []BytesInOrder
  <1>1. LoopInv /\ OrderInv => BytesInOrder
    <2> SUFFICES ASSUME LoopInv, OrderInv, NEW s \in Sock
                 PROVE  /\ inbox[s] = [j \in 1..Len(inbox[s]) |-> Taken(s) + j]
                        /\ Alone(s, "recv") =>
                             /\ {ByteAt(p) : p \in Filled(s)} = 1..Taken(s)
                             /\ \A p, r \in Filled(s) : Before(p, r) => ByteAt(p) < ByteAt(r)
                        /\ Alone(s, "send") =>
                             /\ wire[s] # <<>> => wire[s][1][2] = 1
                             /\ \A k \in 1..(Len(wire[s]) - 1) : Follows(wire[s][k], wire[s][k + 1])
      BY DEF BytesInOrder
    <2>1. /\ IsSeq(inbox[s]) /\ Len(inbox[s]) \in Nat /\ arrived[s] \in Nat
          /\ wire[s] \in Seq(Nat \X Nat)
      BY WorldShape
    <2>2. /\ Len(inbox[s]) <= arrived[s]
          /\ \A j \in 1..Len(inbox[s]) : inbox[s][j] = arrived[s] - Len(inbox[s]) + j
          /\ InTurn(ops, s, "recv") => Received(ops, s, arrived[s] - Len(inbox[s]))
          /\ InTurn(ops, s, "send") => Sent(ops, s, wire[s])
      BY DEF OrderInv, StreamInv
    <2>3. Taken(s) \in Nat /\ Taken(s) = arrived[s] - Len(inbox[s])
      BY <2>1, <2>2 DEF Taken
    <2>4. \A q \in PhaseName : OpsOn(s, q) = On(ops, s, q)
      BY DEF OpsOn, On, Ids, KindOf
    <2>5. \A q \in PhaseName : Alone(s, q) => InTurn(ops, s, q)
      BY <2>4 DEF Alone, InTurn, ToTheEnd, Whole
    <2>6. "recv" \in PhaseName /\ "send" \in PhaseName
      BY DEF PhaseName
    <2>7. inbox[s] = [j \in 1..Len(inbox[s]) |-> Taken(s) + j]
      <3> DEFINE t == [j \in 1..Len(inbox[s]) |-> Taken(s) + j]
      <3>1. t \in [1..Len(inbox[s]) -> Nat]
        BY <2>1, <2>3
      <3>2. \A j \in 1..Len(inbox[s]) : inbox[s][j] = t[j]
        BY <2>2, <2>3
      <3> HIDE DEF t
      <3>3. IsSeq(t) /\ Len(t) = Len(inbox[s])
        BY <2>1, <3>1, FunctionIsSeq, SeqIsSeq
      <3>4. inbox[s] = t
        BY <2>1, <3>2, <3>3, SameSeq
      <3> QED
        BY <3>4 DEF t
    <2>8. ASSUME NEW i \in On(ops, s, "recv")
          PROVE  i \in 1..Len(ops) /\ Len(ops[i].mem) = ops[i].ask.len
      BY WorldShape DEF On
    <2>9. \A i, j : <<i, j>> \in Filled(s) <=>
            i \in On(ops, s, "recv") /\ j \in 1..Len(ops[i].mem) /\ ops[i].mem[j] # 0
      BY <2>4, <2>6, <2>8 DEF Filled
    <2>10. \A p \in Filled(s) : p = <<p[1], p[2]>>
      BY DEF Filled
    <2>11. ASSUME Alone(s, "recv")
           PROVE  /\ {ByteAt(p) : p \in Filled(s)} = 1..Taken(s)
                  /\ \A p, r \in Filled(s) : Before(p, r) => ByteAt(p) < ByteAt(r)
      <3>1. Received(ops, s, Taken(s))
        BY <2>2, <2>3, <2>5, <2>6, <2>11
      <3>2. ASSUME NEW p \in Filled(s)
            PROVE  /\ p[1] \in On(ops, s, "recv") /\ p[2] \in 1..Len(ops[p[1]].mem)
                   /\ ByteAt(p) = ops[p[1]].mem[p[2]] /\ ByteAt(p) # 0
        BY <2>9, <2>10 DEF ByteAt
      <3>3. \A p \in Filled(s) : ByteAt(p) \in 1..Taken(s)
        <4> SUFFICES ASSUME NEW p \in Filled(s) PROVE ByteAt(p) \in 1..Taken(s)
          OBVIOUS
        <4>1. ByteAt(p) <= Taken(s)
          BY <3>1, <3>2 DEF Received
        <4>2. ByteAt(p) \in Nat
          BY <2>8, <3>2, WorldShape
        <4> QED
          BY <2>3, <3>2, <4>1, <4>2
      <3>4. ASSUME NEW b \in 1..Taken(s) PROVE \E p \in Filled(s) : b = ByteAt(p)
        <4>1. PICK i \in On(ops, s, "recv") : \E j \in 1..Len(ops[i].mem) : ops[i].mem[j] = b
          BY <3>1 DEF Received
        <4>2. PICK j \in 1..Len(ops[i].mem) : ops[i].mem[j] = b
          BY <4>1
        <4>3. b # 0
          BY <2>3
        <4>4. <<i, j>> \in Filled(s)
          BY <2>9, <4>2, <4>3
        <4>5. ByteAt(<<i, j>>) = b
          BY <4>2 DEF ByteAt
        <4> QED
          BY <4>4, <4>5
      <3>5. \A p, r \in Filled(s) : Before(p, r) => ByteAt(p) < ByteAt(r)
        BY <3>1, <3>2 DEF Received, Before
      <3> QED
        BY <3>3, <3>4, <3>5
    <2>12. ASSUME Alone(s, "send")
           PROVE  /\ wire[s] # <<>> => wire[s][1][2] = 1
                  /\ \A k \in 1..(Len(wire[s]) - 1) : Follows(wire[s][k], wire[s][k + 1])
      <3>1. Sent(ops, s, wire[s])
        BY <2>2, <2>5, <2>6, <2>12
      <3>2. wire[s] # <<>> => Len(wire[s]) > 0
        BY <2>1
      <3> QED
        BY <3>1, <3>2 DEF Sent
    <2> QED
      BY <2>7, <2>11, <2>12
  <1> QED
    BY <1>1, LoopInvariant, OrderInvariant, PTL

\* An element of an injective sequence is in one place of it, any other in none.
LEMMA PlacesIn ==
    ASSUME NEW s, NEW S, s \in Seq(S), IsInjective(s), NEW i
    PROVE  Cardinality({k \in 1..Len(s) : s[k] = i}) = IF i \in Range(s) THEN 1 ELSE 0
  <1>1. DOMAIN s = 1..Len(s)
    BY LenProperties
  <1>2. CASE i \in Range(s)
    <2>1. PICK k \in 1..Len(s) : s[k] = i
      BY <1>1, <1>2 DEF Range
    <2>2. {l \in 1..Len(s) : s[l] = i} = {k}
      BY <1>1, <2>1 DEF IsInjective
    <2> QED
      BY <1>2, <2>2, FS_Singleton
  <1>3. CASE i \notin Range(s)
    <2>1. {l \in 1..Len(s) : s[l] = i} = {}
      BY <1>1, <1>3 DEF Range
    <2> QED
      BY <1>3, <2>1, FS_EmptySet
  <1> QED
    BY <1>2, <1>3

\* Every operation waits in one place until its callback is called, once.
THEOREM Conserved == Shared \cap Listener = {} /\ Spec => []OpsConserved
  <1>1. LoopInv /\ pc # "aborted" => OpsConserved
    <2> SUFFICES ASSUME LoopInv, pc # "aborted" PROVE OpsConserved
      OBVIOUS
    <2> SUFFICES ASSUME NEW i \in Ids
                 PROVE  LET q == QueueOf(ops[i].ask)
                            Places(s) == {k \in 1..Len(s) : s[k] = i}
                        IN Cardinality(Places(queued[q])) + Cardinality(Places(current[q]))
                             + Len(ops[i].res) = 1
      BY DEF OpsConserved
    <2> DEFINE q == KindOf(ops, i)
    <2>1. /\ OpsInv(ops) /\ Placed(ops, queued, current) /\ Kept(ops, queued, current)
          /\ i \in 1..Len(ops)
      BY DEF LoopInv, Ids
    <2>2. ops[i] \in Op /\ q \in PhaseName
      BY <2>1, OpShape
    <2>3. /\ QueueInv(ops, queued[q], q) /\ QueueInv(ops, current[q], q)
          /\ Range(queued[q]) \cap Range(current[q]) = {}
      BY <2>1, <2>2 DEF Placed
    <2>4. /\ Cardinality({k \in 1..Len(queued[q]) : queued[q][k] = i})
               = IF i \in Range(queued[q]) THEN 1 ELSE 0
          /\ Cardinality({k \in 1..Len(current[q]) : current[q][k] = i})
               = IF i \in Range(current[q]) THEN 1 ELSE 0
      BY <2>3, PlacesIn DEF QueueInv
    <2>5. Pending(ops, i) <=> i \in Range(queued[q]) \cup Range(current[q])
      <3>1. \A k \in Range(queued[q]) \cup Range(current[q]) : Pending(ops, k)
        BY <2>3, LenProperties DEF QueueInv, Range
      <3> QED
        BY <2>1, <3>1 DEF Kept
    <2>6. Len(ops[i].res) = IF Pending(ops, i) THEN 0 ELSE 1
      <3>1. ops[i].res \in Seq(Nat) /\ Len(ops[i].res) <= 1
        BY <2>1, <2>2 DEF OpsInv, Op
      <3> QED
        BY <3>1, EmptySeq, LenProperties DEF Pending
    <2> QED
      BY <2>3, <2>4, <2>5, <2>6 DEF KindOf
  <1>2. Spec => []LoopInv
    BY LoopInvariant
  <1>3. Shared \cap Listener = {} /\ Spec => [](pc # "aborted")
    BY NeverAborted
  <1> QED
    BY <1>1, <1>2, <1>3, PTL
=============================================================================
