------------------------------ MODULE IOContext ------------------------------
(***************************************************************************)
(* IOContext (src/io/context.cpp) with Socket, Timer and the helpers       *)
(* async_recv_all and async_send_all, used by any program of one thread.   *)
(* The program issues operations, runs the loop, and from the callbacks    *)
(* issues more of them, stops the loop or resets a timer.                  *)
(*                                                                         *)
(* A turn of the loop is Select, one step per ready operation in the order *)
(* of run()'s four phases, and Merge.  Bytes, connections and timer ticks  *)
(* arrive between any two steps.                                           *)
(*                                                                         *)
(* Operations are numbered as they are issued.  Received bytes are         *)
(* numbered as they arrive; the j-th byte that operation i sends is        *)
(* <<i, j>>.                                                               *)
(***************************************************************************)
EXTENDS Integers, SequencesExt, FiniteSets

CONSTANTS
    Sock, Listener, Timer,  \* descriptors: connected sockets, and the others
    NonBlocking,            \* the sockets and timers in non-blocking mode
    Interval,               \* the timers that go on ticking, others tick once
    Shared,                 \* the descriptors on which the program has several
                            \* operations in flight: see MayIssue
    Menu,                   \* Menu[k], from which it picks its k-th operation:
                            \* [call, fd, len]
    SndCap,                 \* bytes a socket buffers for its peer
    MaxBytes, MaxConns, MaxTicks   \* bounds; the length of Menu is another

ASSUME DescriptorAssumption ==
    /\ Sock \cap Listener = {} /\ Sock \cap Timer = {} /\ Listener \cap Timer = {}
    /\ NonBlocking \subseteq Sock \cup Timer /\ Interval \subseteq Timer
    /\ Shared \cap Sock \subseteq NonBlocking

\* What can be asked for: an operation of the kind that its descriptor has.
Requests ==
    [call : {"async_recv", "async_recv_all", "async_send", "async_send_all"},
     fd : Sock, len : Nat]
    \cup [call : {"async_accept"}, fd : Listener, len : {0}]
    \cup [call : {"async_wait"}, fd : Timer, len : {0}]
ASSUME MenuAssumption ==
    /\ Menu \in Seq(SUBSET Requests)
    /\ \A o \in UNION Range(Menu) : o.call \in {"async_recv_all", "async_send_all"} => o.len > 0
ASSUME BoundAssumption ==
    SndCap \in Nat \ {0} /\ {MaxBytes, MaxConns, MaxTicks} \subseteq Nat

VARIABLES
    \* the world
    inbox,      \* bytes of a socket that recv would find
    arrived,    \* how many have come in all
    eof,        \* the peer sends no more
    wire,       \* every byte send has taken
    drained,    \* how many of them have left the send buffer
    backlog,    \* connections that accept would find
    connected,  \* how many have come in all
    alarm,      \* the timer is "off", "set", or "expired" since it was set
    ticks,      \* ticks that expire_count would find
    \* IOContext
    ops,        \* all operations, by number: see New
    pc,         \* "idle" outside run, "top" of the loop, "serve", or "aborted"
    m_stop,
    queued,     \* m_recv, m_send, m_accept and m_wait
    current,    \* recv_copy, send_copy, accept_copy and wait_copy
    rfds, wfds  \* what select reported

traffic == <<inbox, arrived, eof, wire, drained>>
world   == <<traffic, backlog, connected, alarm, ticks>>
loop    == <<ops, pc, m_stop, queued, current, rfds, wfds>>
vars    == <<world, loop>>

Phases == <<"recv", "send", "accept", "wait">>
Empty  == [q \in Range(Phases) |-> <<>>]
QueueOf(o) ==
    CASE o.call \in {"async_recv", "async_recv_all"} -> "recv"
      [] o.call \in {"async_send", "async_send_all"} -> "send"
      [] o.call = "async_accept" -> "accept"
      [] o.call = "async_wait"   -> "wait"

\* An operation: what was asked for, the offset m_buf and the length m_len of
\* its handler, its buffer (0 where nothing was written), and the results that
\* the callback of the program was called with.
New(o) == [ask |-> o, buf |-> 0, len |-> o.len,
           mem |-> [j \in 1..o.len |-> 0], res |-> <<>>]

Ids         == 1..Len(ops)
Finished(i) == ops[i].res # <<>>
ToTheEnd(i) == ops[i].ask.call \in {"async_recv_all", "async_send_all"}
Min2(m, n)  == IF m < n THEN m ELSE n

\* What timerfd_settime leaves: with an initial expiration of zero, the default
\* of Timer::Params, the timer is off.
Settings == {"off", "set"}

-----------------------------------------------------------------------------
Init ==
    /\ inbox = [s \in Sock |-> <<>>] /\ arrived = [s \in Sock |-> 0]
    /\ eof = [s \in Sock |-> FALSE]
    /\ wire = [s \in Sock |-> <<>>] /\ drained = [s \in Sock |-> 0]
    /\ backlog = [l \in Listener |-> 0] /\ connected = [l \in Listener |-> 0]
    \* the constructor of Timer calls reset
    /\ alarm \in [Timer -> Settings] /\ ticks = [t \in Timer |-> 0]
    /\ ops = <<>>
    /\ pc = "idle" /\ m_stop = FALSE
    /\ queued = Empty /\ current = Empty
    /\ rfds = {} /\ wfds = {}

-----------------------------------------------------------------------------
(* The world.  What happens on a descriptor is noticed by operations on it  *)
(* only, so that it may be taken to happen while there is one.              *)

Watched(s) == \E i \in Ids : ops[i].ask.fd = s /\ ~Finished(i)

Arrive(s) ==
    /\ Watched(s) /\ ~eof[s] /\ arrived[s] < MaxBytes
    /\ arrived' = [arrived EXCEPT ![s] = @ + 1]
    /\ inbox' = [inbox EXCEPT ![s] = Append(@, arrived[s] + 1)]
    /\ UNCHANGED <<eof, wire, drained, backlog, connected, alarm, ticks, loop>>

EndOfFile(s) ==
    /\ Watched(s) /\ ~eof[s]
    /\ eof' = [eof EXCEPT ![s] = TRUE]
    /\ UNCHANGED <<inbox, arrived, wire, drained, backlog, connected, alarm, ticks, loop>>

Drain(s) ==
    /\ Watched(s) /\ drained[s] < Len(wire[s])
    /\ drained' = [drained EXCEPT ![s] = @ + 1]
    /\ UNCHANGED <<inbox, arrived, eof, wire, backlog, connected, alarm, ticks, loop>>

Connection(l) ==
    /\ Watched(l) /\ connected[l] < MaxConns
    /\ connected' = [connected EXCEPT ![l] = @ + 1]
    /\ backlog' = [backlog EXCEPT ![l] = @ + 1]
    /\ UNCHANGED <<traffic, alarm, ticks, loop>>

Tick(t) ==
    /\ Watched(t) /\ ticks[t] < MaxTicks
    /\ alarm[t] = "set" \/ (alarm[t] = "expired" /\ t \in Interval)
    /\ ticks' = [ticks EXCEPT ![t] = @ + 1]
    /\ alarm' = [alarm EXCEPT ![t] = "expired"]
    /\ UNCHANGED <<traffic, backlog, connected, loop>>

-----------------------------------------------------------------------------
(* What the program does, outside run and in callbacks, given the           *)
(* operations O, queues Q and ticks T that the code before it left.         *)

InFlight(O, o) ==
    \E i \in 1..Len(O) : /\ O[i].res = <<>> /\ O[i].ask.fd = o.fd
                         /\ QueueOf(O[i].ask) = QueueOf(o)

\* Unless the descriptor is shared there is one operation at a time on it, one
\* for each direction of a socket: the TODO in run() that nothing checks.
MayIssue(O, o) == o.fd \in Shared \/ ~InFlight(O, o)

\* async_recv, async_send, async_accept and async_wait, and the helpers, whose
\* handler is called with 0 and so arms itself.
Issue(O, Q, T) ==
    Len(O) < Len(Menu) /\ \E o \in Menu[Len(O) + 1] :
        /\ MayIssue(O, o)
        /\ ops' = Append(O, New(o))
        /\ queued' = [Q EXCEPT ![QueueOf(o)] = Append(@, Len(O) + 1)]
        /\ ticks' = T /\ UNCHANGED <<alarm, m_stop>>

Stop(O, Q, T) ==
    /\ m_stop' = TRUE
    /\ ops' = O /\ queued' = Q /\ ticks' = T /\ UNCHANGED alarm

\* Timer::reset, at any time: ticks nobody has read are forgotten, those that
\* select has reported too.
Reset(O, Q, T) ==
    \E t \in Timer, a \in Settings :
        /\ alarm' = [alarm EXCEPT ![t] = a]
        /\ ticks' = [T EXCEPT ![t] = 0]
        /\ ops' = O /\ queued' = Q /\ UNCHANGED m_stop

Return(O, Q, T) == ops' = O /\ queued' = Q /\ ticks' = T /\ UNCHANGED <<alarm, m_stop>>

Idle ==
    /\ pc = "idle"
    /\ Issue(ops, queued, ticks) \/ Stop(ops, queued, ticks) \/ Reset(ops, queued, ticks)
    /\ UNCHANGED <<traffic, backlog, connected, pc, current, rfds, wfds>>

Run ==
    /\ pc = "idle" /\ pc' = "top" /\ m_stop' = FALSE
    /\ UNCHANGED <<world, ops, queued, current, rfds, wfds>>

\* The callback of operation i, called with r, with the queues of the turn.
Callback(O, i, r, T) ==
    LET O2 == [O EXCEPT ![i].res = Append(@, r)]
    IN \/ Issue(O2, queued, T) \/ Stop(O2, queued, T)
       \/ Reset(O2, queued, T) \/ Return(O2, queued, T)

\* RecvHandler and SendHandler, called with r.
EndsAtZero(h, r) == h.len = 0 \/ r = 0                            \* slip: as recv does
Ends(h, r)       == h.len = 0
Advance(h, r)    == [h EXCEPT !.len = @ - r, !.buf = @ + r]

Handler(O, i, r) ==
    LET h  == Advance(O[i], r)
        O2 == [O EXCEPT ![i] = h]
    IN IF Ends(h, r)
       THEN Callback(O2, i, h.ask.len, ticks)
       ELSE Return(O2, [queued EXCEPT ![QueueOf(h.ask)] = Append(@, i)], ticks)

-----------------------------------------------------------------------------
(* IOContext::run. *)

Readable(s) == inbox[s] # <<>> \/ eof[s]
Room(s)     == SndCap - (Len(wire[s]) - drained[s])

FdsIn(q)   == {ops[i].ask.fd : i \in Range(queued[q])}
ReadFds  == {s \in FdsIn("recv") : Readable(s)} \cup {l \in FdsIn("accept") : backlog[l] > 0}
            \cup {t \in FdsIn("wait") : ticks[t] > 0}
WriteFds == {s \in FdsIn("send") : Room(s) > 0}

GoOnStopped == TRUE                   \* slip: m_stop is not tested, or cleared in the loop
GoOn == ~m_stop
NotCleared == queued                  \* slip: no m_recv.clear() after the copy
Cleared    == Empty

\* The top of the loop: it ends, or the queues become those of this turn and
\* select blocks until a descriptor is ready, for ever if there is none.
Leave ==
    /\ pc = "top" /\ ~GoOn /\ pc' = "idle"
    /\ UNCHANGED <<world, ops, m_stop, queued, current, rfds, wfds>>

Select ==
    /\ pc = "top" /\ GoOn
    /\ ReadFds \cup WriteFds # {}
    /\ rfds' = ReadFds /\ wfds' = WriteFds
    /\ current' = queued /\ queued' = Cleared
    /\ pc' = "serve"
    /\ UNCHANGED <<world, ops, m_stop>>

ReadyAnyway(q) == {j \in 1..Len(current[q]) : TRUE}               \* slip: no FD_ISSET
Ready(q) ==
    {j \in 1..Len(current[q]) :
        ops[current[q][j]].ask.fd \in (IF q = "send" THEN wfds ELSE rfds)}

\* Operation i is the next of its phase, the phases before it being over.
Serve(q, i) ==
    /\ pc = "serve" /\ Ready(q) # {}
    /\ \A p \in 1..Len(Phases) : Ready(Phases[p]) # {} => \E o \in 1..p : Phases[o] = q
    /\ LET j == CHOOSE j \in Ready(q) : \A l \in Ready(q) : j <= l
       IN /\ i = current[q][j]
          /\ current' = [current EXCEPT ![q] = RemoveAt(@, j)]
    /\ UNCHANGED <<rfds, wfds>>

\* Socket::recv into buf: on a blocking socket it waits, on a non-blocking one
\* it returns 0 as it does at the end.
RecvStep ==
    \E i \in Ids :
        /\ Serve("recv", i)
        /\ LET s == ops[i].ask.fd
               b == ops[i].buf
               r == Min2(ops[i].len, Len(inbox[s]))
               O == [ops EXCEPT ![i].mem = [j \in DOMAIN @ |->
                        IF j \in (b + 1)..(b + r) THEN inbox[s][j - b] ELSE @[j]]]
           IN /\ s \in NonBlocking \/ Readable(s)
              /\ inbox' = [inbox EXCEPT ![s] = SubSeq(@, r + 1, Len(@))]
              /\ IF ToTheEnd(i) THEN Handler(O, i, r) ELSE Callback(O, i, r, ticks)
        /\ UNCHANGED <<arrived, eof, wire, drained, backlog, connected, pc>>

\* Socket::send: a blocking socket waits until there is room and takes
\* everything, a non-blocking one what there is room for.
TakesAll(s, len) == len               \* slip: the result of send is not looked at
Takes(s, len)    == IF s \in NonBlocking THEN Min2(len, Room(s)) ELSE len

SendStep ==
    \E i \in Ids :
        /\ Serve("send", i)
        /\ LET s == ops[i].ask.fd
               r == Takes(s, ops[i].len)
           IN /\ s \in NonBlocking \/ r <= Room(s)
              /\ wire' = [wire EXCEPT ![s] = @ \o [j \in 1..r |-> <<i, ops[i].buf + j>>]]
              /\ IF ToTheEnd(i) THEN Handler(ops, i, r) ELSE Callback(ops, i, r, ticks)
        /\ UNCHANGED <<inbox, arrived, eof, drained, backlog, connected, pc>>

\* Socket::accept on a non-blocking listener, and the assertion on its result.
AcceptStep ==
    \E i \in Ids :
        /\ Serve("accept", i)
        /\ LET l == ops[i].ask.fd
           IN IF backlog[l] > 0
              THEN /\ backlog' = [backlog EXCEPT ![l] = @ - 1]
                   /\ Callback(ops, i, 1, ticks) /\ pc' = pc
              ELSE /\ pc' = "aborted"
                   /\ Return(ops, queued, ticks) /\ UNCHANGED backlog
        /\ UNCHANGED <<traffic, connected>>

\* Timer::expire_count: when there is nothing to read, it is 0 on a timer that is
\* non-blocking, as the constructor makes it, and waits on one that is not.
WaitStep ==
    \E i \in Ids :
        /\ Serve("wait", i)
        /\ LET t == ops[i].ask.fd
           IN /\ t \in NonBlocking \/ ticks[t] > 0
              /\ Callback(ops, i, ticks[t], [ticks EXCEPT ![t] = 0])
        /\ UNCHANGED <<traffic, backlog, connected, pc>>

\* Operations that were not ready go before those issued meanwhile.
NewFirst(old, new)    == new \o old   \* slip: appended to m_recv instead
OnlyNew(old, new)     == new          \* slip: not put back at all
OldFirst(old, new)    == old \o new

Merge ==
    /\ pc = "serve" /\ \A q \in Range(Phases) : Ready(q) = {}
    /\ queued' = [q \in Range(Phases) |-> OldFirst(current[q], queued[q])]
    /\ current' = Empty
    /\ rfds' = {} /\ wfds' = {} /\ pc' = "top"
    /\ UNCHANGED <<world, ops, m_stop>>

Turn == Leave \/ Select \/ RecvStep \/ SendStep \/ AcceptStep \/ WaitStep \/ Merge

Next ==
    \/ \E s \in Sock : Arrive(s)
    \/ \E s \in Sock : EndOfFile(s)
    \/ \E s \in Sock : Drain(s)
    \/ \E l \in Listener : Connection(l)
    \/ \E t \in Timer : Tick(t)
    \/ Idle
    \/ Run
    \/ Leave
    \/ Select
    \/ RecvStep
    \/ SendStep
    \/ AcceptStep
    \/ WaitStep
    \/ Merge

Spec == Init /\ [][Next]_vars

\* Inside run() the thread goes on whenever it can.  Nothing is assumed of the
\* program outside it, of peers or of timers.
FairSpec == Spec /\ WF_vars(Turn)

-----------------------------------------------------------------------------
(* Properties. *)

OpsOn(s, q) == {i \in Ids : ops[i].ask.fd = s /\ QueueOf(ops[i].ask) = q}

\* Operations that compete for a descriptor keep what select promised only one
\* of them, and those that go to the end are served in pieces.
Alone(s, q) == s \notin Shared \/ \A i \in OpsOn(s, q) : ~ToTheEnd(i)

\* Types, and the capacity of the send buffers; outside a turn of the loop it
\* holds no copies.
TypeOK ==
    /\ \A i \in Ids : /\ ops[i].ask \in Menu[i]
                      /\ ops[i].len \in 0..ops[i].ask.len
                      /\ Len(ops[i].mem) = ops[i].ask.len
                      /\ ops[i].res \in Seq(Nat)
    /\ \A s \in Sock : Range(inbox[s]) \subseteq 1..MaxBytes /\ Room(s) \in 0..SndCap
    /\ pc \in {"idle", "top", "serve", "aborted"} /\ m_stop \in BOOLEAN
    /\ \A q \in Range(Phases) :
         /\ \A j \in Range(queued[q]) \cup Range(current[q]) : j \in Ids /\ QueueOf(ops[j].ask) = q
         /\ pc \in {"idle", "top"} => current[q] = <<>>
    /\ rfds \cup wfds \subseteq Sock \cup Listener \cup Timer

\* Every operation waits in exactly one place, the queue or the copy of its
\* kind, until its callback is called, and that happens once: through callbacks
\* that issue others, operations that a turn carries over, stop() in the middle
\* of a turn and a later run().  (context.cpp: the copies and their merging.)
OpsConserved ==
    \A i \in Ids :
        LET q == QueueOf(ops[i].ask)
            Places(s) == {k \in 1..Len(s) : s[k] = i}
        IN Cardinality(Places(queued[q])) + Cardinality(Places(current[q])) + Len(ops[i].res) = 1

\* What select reported of a descriptor that is not shared is still so when its
\* operation is served, whatever the callbacks before it in the turn did but
\* for one thing: "Since the select call said we're ready to accept, we must
\* have a socket here", a receive returns 0 only at the end of the stream, and a
\* wait with 0 ticks, or one that blocks the loop, comes only of a Timer::reset
\* after the report: the timer has not expired since it was last set.
SelectHolds ==
    \A q \in Range(Phases) : \A j \in Ready(q) :
        LET s == ops[current[q][j]].ask.fd
        IN s \notin Shared =>
             CASE q = "recv"   -> Readable(s)
               [] q = "send"   -> Room(s) > 0
               [] q = "accept" -> backlog[s] > 0
               [] q = "wait"   -> ticks[s] > 0 \/ alarm[s] # "expired"

\* The callback of async_recv_all and async_send_all is called with the whole
\* length, once all of it has been received or taken, never at the end of a
\* stream that is too short (the assertions res == sizeof(s) of the io test).
AllMeansAll ==
    \A i \in Ids : ToTheEnd(i) /\ Finished(i) =>
        /\ ops[i].res = <<ops[i].ask.len>>
        /\ IF QueueOf(ops[i].ask) = "recv"
           THEN 0 \notin Range(ops[i].mem)
           ELSE \A j \in 1..ops[i].ask.len : <<i, j>> \in Range(wire[ops[i].ask.fd])

\* The bytes that operations have received from s: <<i, j>> is the j-th of the
\* buffer of operation i.
Filled(s)    == UNION {{i} \X {j \in 1..ops[i].ask.len : ops[i].mem[j] # 0} :
                       i \in OpsOn(s, "recv")}
ByteAt(p)    == ops[p[1]].mem[p[2]]
Before(p, r) == p[1] < r[1] \/ (p[1] = r[1] /\ p[2] < r[2])
Taken(s)     == arrived[s] - Len(inbox[s])
Follows(p, r) == r = <<p[1], p[2] + 1>> \/ (p[1] < r[1] /\ r[2] = 1)

\* The stream of a socket goes into the buffers in the order the operations
\* were issued, no byte lost, overwritten or received twice, and the buffers go
\* into the stream in that order, without gaps, unless operations of several
\* pieces compete for it.
BytesInOrder ==
    \A s \in Sock :
        /\ inbox[s] = [j \in 1..Len(inbox[s]) |-> Taken(s) + j]
        /\ Alone(s, "recv") =>
             /\ {ByteAt(p) : p \in Filled(s)} = 1..Taken(s)
             /\ \A p, r \in Filled(s) : Before(p, r) => ByteAt(p) < ByteAt(r)
        /\ Alone(s, "send") =>
             /\ wire[s] # <<>> => wire[s][1][2] = 1
             /\ \A k \in 1..(Len(wire[s]) - 1) : Follows(wire[s][k], wire[s][k + 1])

\* Once stop() is called inside run(), run() returns, even if a receive of
\* async_recv_all is ready for ever at the end of its stream.
StopReturns == m_stop /\ pc \in {"top", "serve"} ~> pc = "idle"

\* The oldest operation on a descriptor, once there is enough for it, is not
\* starved by others, not even by an async_recv_all that spins at the end of
\* its stream.  (A reset takes back from a wait the ticks it had.)
Oldest(i) ==
    LET s == ops[i].ask.fd  q == QueueOf(ops[i].ask)
    IN Alone(s, q) /\ \A j \in OpsOn(s, q) : j < i => Finished(j)
Enough(i) ==
    LET s == ops[i].ask.fd
    IN CASE ops[i].ask.call = "async_recv"     -> Readable(s)
         [] ops[i].ask.call = "async_recv_all" -> Len(inbox[s]) >= ops[i].len
         [] ops[i].ask.call = "async_send"     -> Room(s) > 0
         [] ops[i].ask.call = "async_send_all" -> Room(s) >= ops[i].len
         [] ops[i].ask.call = "async_accept"   -> backlog[s] > 0
         [] ops[i].ask.call = "async_wait"     -> ticks[s] > 0 /\ s \notin Shared
TakenBack(i) == ops[i].ask.call = "async_wait" /\ ticks[ops[i].ask.fd] = 0
Awaited(i)   == i \in Ids /\ pc \in {"top", "serve"} /\ ~Finished(i)
ReadyServed ==
    \A i \in 1..Len(Menu) :
        Awaited(i) /\ Oldest(i) /\ Enough(i) ~> ~Awaited(i) \/ TakenBack(i)
=============================================================================
