---------------------------- MODULE ServerProofs -----------------------------
(***************************************************************************)
(* Theorems about Server: for any number of clients, nodes and commands,   *)
(* any sizes of receives and socket buffers, and any database.             *)
(*                                                                         *)
(* Whatever the clients do, the variables keep their types (TypeCorrect).  *)
(* When they connect and leave in order, no operation outlives its node,   *)
(* every open connection has its receive and its socket, and no unit is    *)
(* lost between a client and the commands that were executed for it.       *)
(***************************************************************************)
EXTENDS Server, DataLemmas, FiniteSetTheorems

-----------------------------------------------------------------------------
(* The inductive invariant. *)

\* The command that the k-th unit of a client belongs to.
UnitAt(k) == (k + 1) \div 2

\* The operations of both queues, those of this turn first.
Recvs == recv_copy \o m_recv
Sends == send_copy \o m_send

\* How many units of the commands of node a were executed.
Base(a)  == sent[Fd(a)] - Len(to_server[Fd(a)]) - Len(handler[a].m_stream)
Gone(a)  == conn[Fd(a)] = "left"
Clean(c) == \A j \in 1..Len(cmds[c]) : cmds[c][j].cmd # Bad
\* How many answers the client c has been sent.
Met(c)   == Len(got[c]) + Len(to_client[c])
Waiting  == Range(backlog)

\* What a client has sent, and what is on its way.
ClientInv ==
    /\ conn \in [Client -> {"out", "in", "left"}]
    /\ DOMAIN cmds = Client /\ DOMAIN to_server = Client
    /\ DOMAIN to_client = Client /\ DOMAIN got = Client
    /\ sent \in [Client -> Nat]
    /\ \A c \in Client :
         /\ IsSeq(cmds[c]) /\ Len(cmds[c]) <= Len(Menu[c])
         /\ \A j \in 1..Len(cmds[c]) : cmds[c][j].cmd \in Menu[c][j]
         /\ sent[c] <= 2 * Len(cmds[c]) /\ 2 * Len(cmds[c]) <= sent[c] + 1
         /\ IsSeq(to_server[c]) /\ Len(to_server[c]) <= sent[c]
         /\ \A j \in 1..Len(to_server[c]) :
              to_server[c][j] = UnitAt(sent[c] - Len(to_server[c]) + j)
         /\ IsSeq(to_client[c]) /\ Len(to_client[c]) <= SendCap
         /\ IsSeq(got[c])

\* The list and its nodes, each with a socket of its own; what lies at other
\* addresses has none.
Node == [fd : Client \cup {NoFd}, m_closed : BOOLEAN, m_stream : Seq(Nat)]
ListInv ==
    /\ IsSeq(backlog) /\ IsInjective(backlog) /\ Waiting \subseteq Client
    /\ \A c \in Waiting : conn[c] # "out"
    /\ m_clients \in Seq(Addr) /\ IsInjective(m_clients)
    /\ handler \in [Addr -> Node] /\ \A a \in Addr \ Live : handler[a] = NoHandler
    /\ \A a \in Live : Fd(a) \in Client /\ conn[Fd(a)] # "out" /\ Fd(a) \notin Waiting
    /\ \A a, b \in Live : Fd(a) = Fd(b) => a = b
    /\ fds \subseteq Client

\* The stream of a node goes on where its commands were executed, and ends
\* where the units on their way begin.
StreamInv ==
    /\ \A a \in Live :
         /\ Base(a) \in Nat /\ Base(a) = 2 * (Base(a) \div 2)
         /\ \A j \in 1..Len(handler[a].m_stream) : handler[a].m_stream[j] = UnitAt(Base(a) + j)
    /\ \A c \in Client : conn[c] = "out" \/ c \in Waiting => Len(to_server[c]) = sent[c]

\* The loop: the operations of a turn are of nodes that stay while it looks
\* them up.
TurnInv ==
    /\ pc \in {"select", "dispatch", "undefined"}
    /\ m_recv \in Seq(Addr) /\ recv_copy \in Seq(Addr)
    /\ IsSeq(m_send) /\ IsSeq(send_copy)
    /\ m_accept \in {0, 1} /\ accept_copy \in {0, 1} /\ m_accept + accept_copy = 1
    /\ accept_ready \in BOOLEAN
    /\ accept_ready => accept_copy = 1 /\ backlog # <<>>
    /\ rfds \subseteq Client /\ wfds \subseteq Client
    /\ pc # "dispatch" => recv_copy = <<>> /\ send_copy = <<>> /\ accept_copy = 0
    /\ rfds \cup wfds # {} =>
         /\ \A j \in 1..Len(recv_copy) : recv_copy[j] \in Live
         /\ \A j \in 1..Len(send_copy) : send_copy[j].addr \in Live

BaseInv == ClientInv /\ ListInv /\ StreamInv /\ TurnInv

\* When the clients are orderly, the closed nodes are the last of the list, so
\* that none is moved, and there is one receive of each open node.
Before(a, b) ==
    \E j, l \in 1..Len(m_clients) : j < l /\ m_clients[j] = a /\ m_clients[l] = b
OrderInv ==
    /\ pc # "undefined"
    /\ fds = {Fd(a) : a \in Live}
    /\ \A a \in Live : handler[a].m_closed => Gone(a)
    /\ \A a, b \in Live : Before(a, b) /\ Gone(a) => handler[b].m_closed
    /\ backlog # <<>> => \A a \in Live : Gone(a) => handler[a].m_closed
    /\ \A c \in Waiting : conn[c] = "in"
    /\ IsInjective(Recvs) /\ Range(Recvs) = {a \in Live : ~handler[a].m_closed}

\* The send operations are of nodes in the list.  Those of a client whose
\* commands are all valid answer, in order, commands that were executed and
\* not answered yet; one that has left has none.
Due(op) ==
    /\ op.addr \in Live
    /\ Clean(Fd(op.addr)) =>
         op.n \in Nat /\ Met(Fd(op.addr)) < op.n /\ 2 * op.n <= Base(op.addr)
Rising(q, a) ==
    \A i, j \in 1..Len(q) : i < j /\ q[i].addr = a /\ q[j].addr = a => q[i].n < q[j].n
SendInv ==
    /\ \A op \in Range(Sends) : Due(op)
    /\ \A a \in Live : Clean(Fd(a)) => Rising(Sends, a)

\* A client whose commands are all valid was sent no more answers than commands
\* were executed, and leaves with nothing left to read.
Owed ==
    \A a \in Live : Clean(Fd(a)) => 2 * Met(Fd(a)) <= Base(a)
Settled ==
    \A c \in Client :
      /\ conn[c] = "out" \/ c \in Waiting => got[c] = <<>> /\ to_client[c] = <<>>
      /\ conn[c] = "left" => /\ Clean(c) /\ to_client[c] = <<>>
                             /\ sent[c] < 2 * Len(got[c]) + 2
AnswerInv == Owed /\ Settled
ExecutedInv ==
    \A a \in Live : Executed(Fd(a)) = 1..(Base(a) \div 2)

ServerInv == BaseInv /\ OrderInv /\ SendInv /\ AnswerInv /\ ExecutedInv

-----------------------------------------------------------------------------
(* Units, clients and nodes. *)

LEMMA Units ==
    /\ \A k \in Nat : UnitAt(k) \in Nat /\ UnitAt(k + 1) = (k \div 2) + 1
    /\ \A e \in Nat, j \in Nat : UnitAt(2 * e + j) = e + UnitAt(j)
    /\ \A j \in Nat \ {0} : UnitAt(2 * j) = j /\ UnitAt(2 * j - 1) = j
    /\ \A k \in Nat \ {0}, l \in Nat : k <= 2 * l => UnitAt(k) \in 1..l
  BY DEF UnitAt

LEMMA MenuShape ==
    ASSUME NEW c \in Client
    PROVE  /\ IsSeq(Menu[c]) /\ Len(Menu[c]) \in Nat /\ Len(Menu[c]) <= MaxCmds
           /\ \A j \in 1..Len(Menu[c]) : \A cmd \in Menu[c][j] :
                cmd.op \in Commands \/ cmd = Bad
  <1>1. Menu[c] \in Seq(Range(Menu[c])) /\ Len(Menu[c]) <= MaxCmds
    BY MenuAssumption
  <1>2. IsSeq(Menu[c])
    BY <1>1 DEF IsSeq
  <1>3. Len(Menu[c]) \in Nat /\ \A j \in 1..Len(Menu[c]) : Menu[c][j] \in Range(Menu[c])
    BY <1>2, SeqShape
  <1>4. \A cmd \in UNION Range(Menu[c]) : cmd.op \in Commands \/ cmd = Bad
    BY MenuAssumption DEF Bad
  <1> QED
    BY <1>1, <1>2, <1>3, <1>4

LEMMA LiveNode ==
    ASSUME ListInv, NEW a \in Live
    PROVE  /\ a \in Addr /\ Fd(a) \in Client /\ handler[a] \in Node
           /\ handler[a].m_stream \in Seq(Nat) /\ IsSeq(handler[a].m_stream)
           /\ Len(handler[a].m_stream) \in Nat
  <1>1. m_clients \in Seq(Addr)
    BY DEF ListInv
  <1>2. a \in Addr
    BY <1>1, RangeOfSeq DEF Live
  <1>3. handler[a] \in Node /\ Fd(a) \in Client
    BY <1>2 DEF ListInv
  <1>4. handler[a].m_stream \in Seq(Nat)
    BY <1>3 DEF Node
  <1>5. IsSeq(handler[a].m_stream) /\ Len(handler[a].m_stream) \in Nat
    BY <1>4, SeqIsSeq, LenProperties
  <1> QED
    BY <1>2, <1>3, <1>4, <1>5

LEMMA ClientShape ==
    ASSUME ClientInv, NEW c \in Client
    PROVE  /\ IsSeq(cmds[c]) /\ Len(cmds[c]) \in Nat
           /\ sent[c] \in Nat /\ sent[c] <= 2 * Len(cmds[c])
           /\ IsSeq(to_server[c]) /\ Len(to_server[c]) \in Nat /\ Len(to_server[c]) <= sent[c]
           /\ IsSeq(to_client[c]) /\ Len(to_client[c]) \in Nat
           /\ IsSeq(got[c]) /\ Len(got[c]) \in Nat
  <1>1. /\ IsSeq(cmds[c]) /\ IsSeq(to_server[c]) /\ IsSeq(to_client[c]) /\ IsSeq(got[c])
        /\ sent[c] \in Nat /\ sent[c] <= 2 * Len(cmds[c]) /\ Len(to_server[c]) <= sent[c]
    BY DEF ClientInv
  <1>2. /\ Len(cmds[c]) \in Nat /\ Len(to_server[c]) \in Nat
        /\ Len(to_client[c]) \in Nat /\ Len(got[c]) \in Nat
    BY <1>1, SeqShape
  <1> QED
    BY <1>1, <1>2

\* What does not change the part of the state that an invariant is about.
LEMMA ListStays ==
    ASSUME ListInv, UNCHANGED <<backlog, server_vars>>,
           \A c \in Client : conn[c] # "out" => conn'[c] # "out"
    PROVE  ListInv'
  <1>1. UNCHANGED <<backlog, m_clients, handler, fds>> /\ Live' = Live /\ Waiting' = Waiting
    BY DEF server_vars, Live, Waiting
  <1>2. \A a : Fd(a)' = Fd(a)
    BY <1>1 DEF Fd
  <1> QED
    BY <1>1, <1>2 DEF ListInv

LEMMA StreamStays ==
    ASSUME ListInv, StreamInv, UNCHANGED <<m_clients, handler>>,
           \A c \in Client : sent'[c] - Len(to_server'[c]) = sent[c] - Len(to_server[c]),
           \A c \in Client : conn'[c] = "out" \/ c \in Waiting' => Len(to_server'[c]) = sent'[c]
    PROVE  StreamInv' /\ Live' = Live /\ \A a \in Live : Base(a)' = Base(a)
  <1>1. Live' = Live
    BY DEF Live
  <1>2. \A a \in Live : Base(a)' = Base(a)
    BY LiveNode DEF Base, Fd
  <1> QED
    BY <1>1, <1>2 DEF StreamInv

LEMMA TurnStays ==
    ASSUME TurnInv, UNCHANGED <<m_clients, loop_vars>>, backlog # <<>> => backlog' # <<>>
    PROVE  TurnInv'
  BY DEF TurnInv, Live, loop_vars, queued, current, reported

-----------------------------------------------------------------------------
(* Clients: what may always be. *)

LEMMA InitBase == Init => BaseInv
  <1> SUFFICES ASSUME Init PROVE BaseInv
    OBVIOUS
  <1>1. Live = {} /\ Waiting = {}
    BY EmptyShape DEF Init, Live, Waiting
  <1>2. ClientInv
    <2>1. \A c \in Client : Len(Menu[c]) \in Nat
      BY MenuShape
    <2> QED
      BY <2>1, EmptyShape, BoundAssumption DEF Init, ClientInv
  <1>3. ListInv
    <2>1. NoHandler \in Node
      BY EmptySeq DEF NoHandler, Node
    <2>2. m_clients \in Seq(Addr) /\ IsInjective(m_clients) /\ IsSeq(backlog) /\ IsInjective(backlog)
      BY EmptySeq, EmptyShape DEF Init
    <2> QED
      BY <1>1, <2>1, <2>2 DEF Init, ListInv
  <1>4. StreamInv
    BY <1>1, EmptyShape DEF Init, StreamInv
  <1>5. TurnInv
    <2>1. <<>> \in Seq(Addr) /\ IsSeq(<<>>)
      BY EmptySeq, EmptyShape
    <2>2. rfds \cup wfds = {} /\ m_accept + accept_copy = 1
      BY DEF Init
    <2> QED
      BY <2>1, <2>2 DEF Init, TurnInv
  <1> QED
    BY <1>2, <1>3, <1>4, <1>5 DEF BaseInv

LEMMA ConnectBase == ASSUME BaseInv, NEW c \in Client, Connect(c) PROVE BaseInv'
  <1>1. ClientInv /\ ListInv /\ StreamInv /\ TurnInv
    BY DEF BaseInv
  <1>2. /\ conn[c] = "out" /\ conn' = [conn EXCEPT ![c] = "in"]
        /\ backlog' = Append(backlog, c)
        /\ UNCHANGED <<cmds, sent, got, to_server, to_client, server_vars, loop_vars>>
    BY DEF Connect
  <1>3. c \notin Waiting /\ IsSeq(backlog) /\ IsInjective(backlog)
    BY <1>1, <1>2 DEF ListInv
  <1>4. /\ IsSeq(backlog') /\ IsInjective(backlog') /\ Waiting' = Waiting \cup {c}
        /\ backlog' # <<>>
    <2>1. /\ IsSeq(backlog') /\ Len(backlog') = Len(backlog) + 1
          /\ Range(backlog') = Range(backlog) \cup {c}
      BY <1>2, <1>3, AppendIs DEF Appended
    <2>2. IsInjective(backlog')
      BY <1>2, <1>3, AppendInjectiveSeq DEF Waiting
    <2>3. Len(backlog) \in Nat /\ (backlog' = <<>> => Len(backlog') = 0)
      BY <1>3, <2>1, SeqShape
    <2> QED
      BY <2>1, <2>2, <2>3 DEF Waiting
  <1>5. ClientInv'
    BY <1>1, <1>2 DEF ClientInv
  <1>6. ListInv'
    <2>1. UNCHANGED <<m_clients, handler, fds>> /\ Live' = Live /\ \A a : Fd(a)' = Fd(a)
      BY <1>2 DEF server_vars, Live, Fd
    <2>2. conn' \in [Client -> {"out", "in", "left"}] /\ conn'[c] = "in"
          /\ \A d \in Client : d # c => conn'[d] = conn[d]
      BY <1>1, <1>2 DEF ClientInv
    <2>3. \A a \in Live : Fd(a) # c
      BY <1>1, <1>2 DEF ListInv
    <2>4. \A a \in Live : Fd(a) \in Client /\ conn[Fd(a)] # "out" /\ Fd(a) \notin Waiting
      BY <1>1 DEF ListInv
    <2>5. Waiting \subseteq Client /\ \A d \in Waiting : conn[d] # "out"
      BY <1>1 DEF ListInv
    <2>6. \A a \in Live : conn'[Fd(a)] # "out" /\ Fd(a) \notin Waiting'
      BY <1>4, <2>2, <2>3, <2>4
    <2>7. Waiting' \subseteq Client /\ \A d \in Waiting' : conn'[d] # "out"
      BY <1>4, <2>2, <2>5
    <2> QED
      BY <1>1, <1>4, <2>1, <2>4, <2>6, <2>7 DEF ListInv
  <1>7. StreamInv'
    <2>1. UNCHANGED <<m_clients, handler, sent, to_server>>
      BY <1>2 DEF server_vars
    <2>2. \A d \in Client : conn'[d] = "out" \/ d \in Waiting' => conn[d] = "out" \/ d \in Waiting
      BY <1>1, <1>2, <1>4 DEF ClientInv
    <2>3. \A d \in Client : conn'[d] = "out" \/ d \in Waiting' => Len(to_server'[d]) = sent'[d]
      BY <1>1, <2>1, <2>2 DEF StreamInv
    <2>4. \A d \in Client : sent'[d] - Len(to_server'[d]) = sent[d] - Len(to_server[d])
      BY <2>1
    <2> QED
      BY <1>1, <2>1, <2>3, <2>4, StreamStays
  <1>8. TurnInv'
    BY <1>1, <1>2, <1>4, TurnStays DEF server_vars
  <1> QED
    BY <1>5, <1>6, <1>7, <1>8 DEF BaseInv

LEMMA SendBase == ASSUME BaseInv, NEW c \in Client, Send(c) PROVE BaseInv'
  <1>1. ClientInv /\ ListInv /\ StreamInv /\ TurnInv
    BY DEF BaseInv
  <1>2. /\ conn[c] = "in" /\ (Begin(c) \/ Continue(c))
        /\ sent' = [sent EXCEPT ![c] = @ + 1]
        /\ to_server' = [to_server EXCEPT ![c] = Append(@, (sent[c] \div 2) + 1)]
        /\ UNCHANGED <<conn, got, to_client, backlog, server_vars, loop_vars>>
    BY DEF Send
  <1>3. /\ IsSeq(cmds[c]) /\ Len(cmds[c]) \in Nat /\ sent[c] \in Nat
        /\ IsSeq(to_server[c]) /\ Len(to_server[c]) \in Nat /\ Len(to_server[c]) <= sent[c]
    BY <1>1, ClientShape
  <1>4. /\ sent' \in [Client -> Nat] /\ sent'[c] = sent[c] + 1
        /\ \A d \in Client : d # c => sent'[d] = sent[d] /\ to_server'[d] = to_server[d]
        /\ DOMAIN to_server' = Client
        /\ to_server'[c] = Append(to_server[c], UnitAt(sent[c] + 1))
    <2>1. UnitAt(sent[c] + 1) = (sent[c] \div 2) + 1
      BY <1>3, Units
    <2> QED
      BY <1>1, <1>2, <1>3, <2>1 DEF ClientInv
  <1>5. /\ IsSeq(to_server'[c]) /\ Len(to_server'[c]) = Len(to_server[c]) + 1
        /\ \A j \in 1..Len(to_server[c]) : to_server'[c][j] = to_server[c][j]
        /\ to_server'[c][Len(to_server[c]) + 1] = UnitAt(sent[c] + 1)
    <2>1. IsSeq(to_server[c]) /\ to_server'[c] = Append(to_server[c], UnitAt(sent[c] + 1))
      BY <1>3, <1>4
    <2>2. Appended(to_server'[c], to_server[c], UnitAt(sent[c] + 1))
      BY <2>1, AppendIs
    <2> QED
      BY <2>2 DEF Appended
  <1>6. \A j \in 1..Len(to_server'[c]) :
          to_server'[c][j] = UnitAt(sent'[c] - Len(to_server'[c]) + j)
    <2>1. sent'[c] - Len(to_server'[c]) = sent[c] - Len(to_server[c])
      BY <1>3, <1>4, <1>5
    <2>2. \A j \in 1..Len(to_server[c]) :
            to_server[c][j] = UnitAt(sent[c] - Len(to_server[c]) + j)
      BY <1>1 DEF ClientInv
    <2>3. 1..Len(to_server'[c]) = 1..Len(to_server[c]) \cup {Len(to_server[c]) + 1}
      BY <1>3, <1>5
    <2>4. sent[c] - Len(to_server[c]) + (Len(to_server[c]) + 1) = sent[c] + 1
      BY <1>3
    <2> QED
      BY <1>5, <2>1, <2>2, <2>3, <2>4
  <1>7. /\ DOMAIN cmds' = Client /\ \A d \in Client : d # c => cmds'[d] = cmds[d]
        /\ IsSeq(cmds'[c]) /\ Len(cmds'[c]) <= Len(Menu[c])
        /\ \A j \in 1..Len(cmds'[c]) : cmds'[c][j].cmd \in Menu[c][j]
        /\ sent[c] + 1 <= 2 * Len(cmds'[c]) /\ 2 * Len(cmds'[c]) <= sent[c] + 2
    <2>1. /\ DOMAIN cmds = Client /\ Len(cmds[c]) <= Len(Menu[c]) /\ Len(Menu[c]) \in Nat
          /\ \A j \in 1..Len(cmds[c]) : cmds[c][j].cmd \in Menu[c][j]
          /\ sent[c] <= 2 * Len(cmds[c]) /\ 2 * Len(cmds[c]) <= sent[c] + 1
      BY <1>1, MenuShape DEF ClientInv
    <2>2. CASE Continue(c)
      BY <1>3, <2>1, <2>2 DEF Continue
    <2>3. CASE Begin(c)
      <3>1. /\ sent[c] = 2 * Len(cmds[c]) /\ Len(cmds[c]) < Len(Menu[c])
            /\ \E cmd \in Menu[c][Len(cmds[c]) + 1] :
                 \E after : cmds' = [cmds EXCEPT ![c] = Append(@, [cmd |-> cmd, after |-> after])]
        BY <2>3 DEF Begin
      <3>2. PICK cmd \in Menu[c][Len(cmds[c]) + 1] : \E x :
              x.cmd = cmd /\ cmds' = [cmds EXCEPT ![c] = Append(@, x)]
        BY <3>1
      <3> PICK x : x.cmd = cmd /\ cmds' = [cmds EXCEPT ![c] = Append(@, x)]
        BY <3>2
      <3>3. cmds'[c] = Append(cmds[c], x) /\ DOMAIN cmds' = Client
            /\ \A d \in Client : d # c => cmds'[d] = cmds[d]
        BY <2>1, <3>2
      <3>4. /\ IsSeq(cmds'[c]) /\ Len(cmds'[c]) = Len(cmds[c]) + 1
            /\ \A j \in 1..Len(cmds[c]) : cmds'[c][j] = cmds[c][j]
            /\ cmds'[c][Len(cmds[c]) + 1] = x
        <4>1. IsSeq(cmds[c]) /\ cmds'[c] = Append(cmds[c], x)
          BY <1>3, <3>3
        <4>2. Appended(cmds'[c], cmds[c], x)
          BY <4>1, AppendIs
        <4> QED
          BY <4>2 DEF Appended
      <3>5. 1..Len(cmds'[c]) = 1..Len(cmds[c]) \cup {Len(cmds[c]) + 1}
        BY <1>3, <3>4
      <3>6. \A j \in 1..Len(cmds'[c]) : cmds'[c][j].cmd \in Menu[c][j]
        BY <2>1, <3>2, <3>4, <3>5
      <3> QED
        BY <1>3, <2>1, <3>1, <3>3, <3>4, <3>6
    <2> QED
      BY <1>2, <2>2, <2>3
  <1>8. ClientInv'
    <2>1. UNCHANGED <<conn, got, to_client>>
      BY <1>2
    <2>2. Len(to_server'[c]) <= sent'[c]
      BY <1>3, <1>4, <1>5
    <2>3. 2 * Len(cmds'[c]) <= sent'[c] + 1 /\ sent'[c] <= 2 * Len(cmds'[c])
      BY <1>3, <1>4, <1>7
    <2>4. ASSUME NEW d \in Client
          PROVE  /\ IsSeq(cmds'[d]) /\ Len(cmds'[d]) <= Len(Menu[d])
                 /\ \A j \in 1..Len(cmds'[d]) : cmds'[d][j].cmd \in Menu[d][j]
                 /\ sent'[d] <= 2 * Len(cmds'[d]) /\ 2 * Len(cmds'[d]) <= sent'[d] + 1
                 /\ IsSeq(to_server'[d]) /\ Len(to_server'[d]) <= sent'[d]
                 /\ \A j \in 1..Len(to_server'[d]) :
                      to_server'[d][j] = UnitAt(sent'[d] - Len(to_server'[d]) + j)
      <3>1. CASE d = c
        BY <1>5, <1>6, <1>7, <2>2, <2>3, <3>1
      <3>2. CASE d # c
        BY <1>1, <1>4, <1>7, <3>2 DEF ClientInv
      <3> QED
        BY <3>1, <3>2
    <2> QED
      BY <1>1, <1>4, <1>7, <2>1, <2>4 DEF ClientInv, UnitAt
  <1>9. ListInv'
    BY <1>1, <1>2, ListStays
  <1>10. StreamInv'
    <2>1. UNCHANGED <<m_clients, handler>>
      BY <1>2 DEF server_vars
    <2>2. \A d \in Client : sent'[d] - Len(to_server'[d]) = sent[d] - Len(to_server[d])
      BY <1>3, <1>4, <1>5
    <2>3. \A d \in Client : conn'[d] = "out" \/ d \in Waiting' => Len(to_server'[d]) = sent'[d]
      <3>1. \A d \in Client : conn[d] = "out" \/ d \in Waiting => Len(to_server[d]) = sent[d]
        BY <1>1 DEF StreamInv
      <3>2. conn' = conn /\ Waiting' = Waiting
        BY <1>2 DEF Waiting
      <3> QED
        BY <1>3, <1>4, <1>5, <3>1, <3>2
    <2> QED
      BY <1>1, <2>1, <2>2, <2>3, StreamStays
  <1>11. TurnInv'
    BY <1>1, <1>2, TurnStays DEF server_vars
  <1> QED
    BY <1>8, <1>9, <1>10, <1>11 DEF BaseInv

LEMMA ReadBase == ASSUME BaseInv, NEW c \in Client, Read(c) PROVE BaseInv'
  <1>1. ClientInv /\ ListInv /\ StreamInv /\ TurnInv
    BY DEF BaseInv
  <1>2. /\ to_client[c] # <<>>
        /\ got' = [got EXCEPT ![c] = Append(@, Head(to_client[c]))]
        /\ to_client' = [to_client EXCEPT ![c] = Tail(@)]
        /\ UNCHANGED <<conn, cmds, sent, to_server, backlog, server_vars, loop_vars>>
    BY DEF Read
  <1>3. IsSeq(got[c]) /\ IsSeq(to_client[c]) /\ Len(to_client[c]) \in Nat
    BY <1>1, ClientShape
  <1>4. /\ DOMAIN got' = Client /\ DOMAIN to_client' = Client
        /\ got'[c] = Append(got[c], Head(to_client[c])) /\ to_client'[c] = Tail(to_client[c])
        /\ \A d \in Client : d # c => got'[d] = got[d] /\ to_client'[d] = to_client[d]
    BY <1>1, <1>2 DEF ClientInv
  <1>5. IsSeq(got'[c])
    BY <1>3, <1>4, AppendIs DEF Appended
  <1>6. IsSeq(to_client'[c]) /\ Len(to_client'[c]) = Len(to_client[c]) - 1
    BY <1>2, <1>3, <1>4, HeadTail
  <1>7. ClientInv'
    <2>1. UNCHANGED <<conn, cmds, sent, to_server>>
      BY <1>2
    <2>2. Len(to_client'[c]) <= SendCap
      BY <1>1, <1>3, <1>6, BoundAssumption DEF ClientInv
    <2>3. \A d \in Client : IsSeq(got'[d]) /\ IsSeq(to_client'[d]) /\ Len(to_client'[d]) <= SendCap
      BY <1>1, <1>4, <1>5, <1>6, <2>2 DEF ClientInv
    <2> QED
      BY <1>1, <1>4, <2>1, <2>3 DEF ClientInv, UnitAt
  <1>8. ListInv'
    BY <1>1, <1>2, ListStays
  <1>9. StreamInv'
    <2>1. UNCHANGED <<m_clients, handler, sent, to_server, conn, backlog>>
      BY <1>2 DEF server_vars
    <2>2. \A d \in Client : conn'[d] = "out" \/ d \in Waiting' => Len(to_server'[d]) = sent'[d]
      BY <1>1, <2>1 DEF StreamInv, Waiting
    <2> QED
      BY <1>1, <2>1, <2>2, StreamStays
  <1>10. TurnInv'
    BY <1>1, <1>2, TurnStays DEF server_vars
  <1> QED
    BY <1>7, <1>8, <1>9, <1>10 DEF BaseInv

LEMMA LeaveBase == ASSUME BaseInv, NEW c \in Client, Leave(c) PROVE BaseInv'
  <1>1. ClientInv /\ ListInv /\ StreamInv /\ TurnInv
    BY DEF BaseInv
  <1>2. /\ conn[c] = "in" /\ conn' = [conn EXCEPT ![c] = "left"]
        /\ UNCHANGED <<cmds, sent, got, to_server, to_client, backlog, server_vars, loop_vars>>
    BY DEF Leave, network
  <1>3. /\ conn' \in [Client -> {"out", "in", "left"}] /\ conn'[c] = "left"
        /\ \A d \in Client : d # c => conn'[d] = conn[d]
    BY <1>1, <1>2 DEF ClientInv
  <1>4. ClientInv'
    BY <1>1, <1>2, <1>3 DEF ClientInv, UnitAt
  <1>5. ListInv'
    <2>1. \A d \in Client : conn[d] # "out" => conn'[d] # "out"
      BY <1>3
    <2> QED
      BY <1>1, <1>2, <2>1, ListStays
  <1>6. StreamInv'
    <2>1. UNCHANGED <<m_clients, handler, sent, to_server, backlog>>
      BY <1>2 DEF server_vars
    <2>2. \A d \in Client : conn'[d] = "out" \/ d \in Waiting' => conn[d] = "out" \/ d \in Waiting
      BY <1>3, <2>1 DEF Waiting
    <2>3. \A d \in Client : conn'[d] = "out" \/ d \in Waiting' => Len(to_server'[d]) = sent'[d]
      BY <1>1, <2>1, <2>2 DEF StreamInv
    <2> QED
      BY <1>1, <2>1, <2>3, StreamStays
  <1>7. TurnInv'
    BY <1>1, <1>2, TurnStays DEF server_vars
  <1> QED
    BY <1>4, <1>5, <1>6, <1>7 DEF BaseInv

-----------------------------------------------------------------------------
(* The loop: what may always be. *)

LEMMA WorldStays ==
    ASSUME ClientInv, ListInv, StreamInv, UNCHANGED <<client_vars, network, server_vars>>
    PROVE  ClientInv' /\ ListInv' /\ StreamInv'
  <1>1. UNCHANGED <<conn, cmds, sent, got, to_server, to_client, backlog, m_clients, handler>>
    BY DEF client_vars, network, server_vars
  <1>2. ClientInv'
    BY <1>1 DEF ClientInv, UnitAt
  <1>3. ListInv'
    BY <1>1, ListStays
  <1>4. StreamInv'
    <2>1. \A c \in Client : conn'[c] = "out" \/ c \in Waiting' => Len(to_server'[c]) = sent'[c]
      BY <1>1 DEF StreamInv, Waiting
    <2> QED
      BY <1>1, <2>1, StreamStays
  <1> QED
    BY <1>2, <1>3, <1>4

LEMMA SelectBase == BaseInv /\ Select => BaseInv'
  <1> SUFFICES ASSUME BaseInv, Select PROVE BaseInv'
    OBVIOUS
  <1>1. ClientInv /\ ListInv /\ StreamInv /\ TurnInv
    BY DEF BaseInv
  <1>2. pc = "select" /\ UNCHANGED <<client_vars, network, server_vars>>
    BY DEF Select
  <1>3. ClientInv' /\ ListInv' /\ StreamInv'
    BY <1>1, <1>2, WorldStays
  <1>4. Live' = Live /\ backlog' = backlog
    BY <1>2 DEF Live, server_vars, network
  <1>5. recv_copy = <<>> /\ send_copy = <<>> /\ accept_copy = 0
    BY <1>1, <1>2 DEF TurnInv
  <1>6. TurnInv'
    <2>1. CASE ~NoDanglingOp
      <3>1. pc' = "undefined" /\ UNCHANGED <<queued, current, reported>>
        BY <2>1 DEF Select
      <3> QED
        BY <1>1, <1>4, <1>5, <3>1 DEF TurnInv, queued, current, reported
    <2>2. CASE NoDanglingOp
      <3>1. /\ rfds' = {c \in {Fd(m_recv[j]) : j \in 1..Len(m_recv)} : Readable(c)}
            /\ wfds' = {c \in {Fd(m_send[j].addr) : j \in 1..Len(m_send)} : Writable(c)}
            /\ accept_ready' = (m_accept > 0 /\ backlog # <<>>)
            /\ recv_copy' = m_recv /\ send_copy' = m_send /\ accept_copy' = m_accept
            /\ m_recv' = <<>> /\ m_send' = <<>> /\ m_accept' = 0
            /\ pc' = "dispatch"
        BY <2>2 DEF Select
      <3>2. /\ \A j \in 1..Len(m_recv) : m_recv[j] \in Live
            /\ \A j \in 1..Len(m_send) : m_send[j].addr \in Live
        BY <2>2 DEF NoDanglingOp
      <3>3. rfds' \subseteq Client /\ wfds' \subseteq Client
        BY <1>1, <3>1, <3>2, LiveNode
      <3>4. /\ m_recv' \in Seq(Addr) /\ IsSeq(m_send')
        BY <3>1, EmptySeq, EmptyShape
      <3>5. m_accept = 1
        BY <1>1, <1>5 DEF TurnInv
      <3> QED
        BY <1>1, <1>4, <3>1, <3>2, <3>3, <3>4, <3>5 DEF TurnInv
    <2> QED
      BY <2>1, <2>2
  <1> QED
    BY <1>3, <1>6 DEF BaseInv

LEMMA MergeBase == BaseInv /\ Merge => BaseInv'
  <1> SUFFICES ASSUME BaseInv, Merge PROVE BaseInv'
    OBVIOUS
  <1>1. ClientInv /\ ListInv /\ StreamInv /\ TurnInv
    BY DEF BaseInv
  <1>2. /\ m_recv' = recv_copy \o m_recv /\ m_send' = send_copy \o m_send
        /\ m_accept' = accept_copy + m_accept
        /\ recv_copy' = <<>> /\ send_copy' = <<>> /\ accept_copy' = 0
        /\ rfds' = {} /\ wfds' = {} /\ pc' = "select"
        /\ ~accept_ready /\ accept_ready' = accept_ready
        /\ UNCHANGED <<client_vars, network, server_vars>>
    BY DEF Merge, OldFirst
  <1>3. ClientInv' /\ ListInv' /\ StreamInv'
    BY <1>1, <1>2, WorldStays
  <1>4. m_recv' \in Seq(Addr) /\ IsSeq(m_send')
    <2>1. m_recv \in Seq(Addr) /\ recv_copy \in Seq(Addr) /\ IsSeq(m_send) /\ IsSeq(send_copy)
      BY <1>1 DEF TurnInv
    <2>2. recv_copy \o m_recv \in Seq(Addr)
      BY <2>1, ConcatProperties
    <2>3. IsSeq(send_copy \o m_send)
      BY <2>1, ConcatIs DEF Joined
    <2> QED
      BY <1>2, <2>2, <2>3
  <1>5. recv_copy' \in Seq(Addr) /\ IsSeq(send_copy')
    BY <1>2, EmptySeq, EmptyShape
  <1>6. rfds' \cup wfds' = {}
    BY <1>2
  <1>7. m_accept' = 1
    <2>1. m_accept \in {0, 1} /\ accept_copy \in {0, 1} /\ m_accept + accept_copy = 1
      BY <1>1 DEF TurnInv
    <2> QED
      BY <1>2, <2>1
  <1>8. TurnInv'
    <2>1. accept_ready \in BOOLEAN
      BY <1>1 DEF TurnInv
    <2>2. accept_ready' = FALSE /\ accept_copy' = 0 /\ m_accept' + accept_copy' = 1
      BY <1>2, <1>7, <2>1
    <2>3. pc' = "select" /\ recv_copy' = <<>> /\ send_copy' = <<>>
      BY <1>2
    <2> QED
      BY <1>4, <1>5, <1>6, <1>7, <2>2, <2>3 DEF TurnInv
  <1> QED
    BY <1>3, <1>8 DEF BaseInv

\* The first of a set of places.
LEMMA FirstOf ==
    ASSUME NEW J, J \subseteq Nat, J # {}
    PROVE  First(J) \in J /\ \A l \in J : First(J) <= l
  <1>1. \E j \in J : \A l \in J : j <= l
    BY LeastOf
  <1> QED
    BY <1>1 DEF First

\* The send that SendStep serves.
LEMMA SendServed ==
    ASSUME ListInv, TurnInv, ReadySends # {}
    PROVE  LET j == First(ReadySends)
           IN /\ j \in 1..Len(send_copy) /\ Fd(send_copy[j].addr) \in wfds
              /\ send_copy[j].addr \in Live
              /\ \A l \in 1..Len(send_copy) : Fd(send_copy[l].addr) \in wfds => j <= l
  <1>1. Len(send_copy) \in Nat
    BY SeqShape DEF TurnInv
  <1>2. ReadySends \subseteq Nat
    BY <1>1 DEF ReadySends
  <1>3. First(ReadySends) \in ReadySends /\ \A l \in ReadySends : First(ReadySends) <= l
    BY <1>2, FirstOf
  <1> QED
    BY <1>3 DEF ReadySends, TurnInv

LEMMA SendStepBase == BaseInv /\ SendStep => BaseInv'
  <1> SUFFICES ASSUME BaseInv, SendStep PROVE BaseInv'
    OBVIOUS
  <1>1. ClientInv /\ ListInv /\ StreamInv /\ TurnInv
    BY DEF BaseInv
  <1> DEFINE j == First(ReadySends)
             op == send_copy[j]
             c == Fd(op.addr)
  <1>2. /\ pc = "dispatch" /\ ReadySends # {} /\ Writable(c)
        /\ to_client' = [to_client EXCEPT ![c] = Append(@, [n |-> op.n, res |-> op.res])]
        /\ send_copy' = RemoveAt(send_copy, j)
        /\ UNCHANGED <<client_vars, to_server, backlog, server_vars,
                       pc, queued, recv_copy, accept_copy, reported>>
    BY DEF SendStep
  <1>3. j \in 1..Len(send_copy) /\ c \in wfds /\ op.addr \in Live /\ c \in Client
    BY <1>1, <1>2, SendServed, LiveNode
  <1> HIDE DEF j, op, c
  <1>4. IsSeq(to_client[c]) /\ Len(to_client[c]) \in Nat /\ Len(to_client[c]) < SendCap
    BY <1>1, <1>2, <1>3, ClientShape DEF Writable
  <1>5. /\ DOMAIN to_client' = Client /\ \A d \in Client : d # c => to_client'[d] = to_client[d]
        /\ to_client'[c] = Append(to_client[c], [n |-> op.n, res |-> op.res])
    BY <1>1, <1>2, <1>3 DEF ClientInv
  <1>6. IsSeq(to_client'[c]) /\ Len(to_client'[c]) = Len(to_client[c]) + 1
    <2>1. PICK x : to_client'[c] = Append(to_client[c], x)
      BY <1>5
    <2>2. Appended(to_client'[c], to_client[c], x)
      BY <1>4, <2>1, AppendIs
    <2> QED
      BY <2>2 DEF Appended
  <1>7. ClientInv'
    <2>1. UNCHANGED <<conn, cmds, sent, got, to_server>>
      BY <1>2 DEF client_vars
    <2>2. Len(to_client'[c]) <= SendCap
      BY <1>4, <1>6, BoundAssumption
    <2>3. \A d \in Client : IsSeq(to_client'[d]) /\ Len(to_client'[d]) <= SendCap
      BY <1>1, <1>5, <1>6, <2>2 DEF ClientInv
    <2> QED
      BY <1>1, <1>5, <2>1, <2>3 DEF ClientInv, UnitAt
  <1>8. ListInv'
    BY <1>1, <1>2, ListStays DEF client_vars
  <1>9. StreamInv'
    <2>1. UNCHANGED <<m_clients, handler, sent, to_server, conn, backlog>>
      BY <1>2 DEF client_vars, server_vars
    <2>2. \A d \in Client : conn'[d] = "out" \/ d \in Waiting' => Len(to_server'[d]) = sent'[d]
      BY <1>1, <2>1 DEF StreamInv, Waiting
    <2> QED
      BY <1>1, <2>1, <2>2, StreamStays
  <1>10. TurnInv'
    <2>1. IsSeq(send_copy)
      BY <1>1 DEF TurnInv
    <2>2. Without(send_copy', send_copy, j)
      BY <1>2, <1>3, <2>1, RemoveIs
    <2>3. IsSeq(send_copy') /\ Range(send_copy') \subseteq Range(send_copy)
      BY <2>2 DEF Without
    <2>4. \A l \in 1..Len(send_copy') : send_copy'[l].addr \in Live
      <3>1. rfds \cup wfds # {}
        BY <1>3
      <3>2. \A l \in 1..Len(send_copy) : send_copy[l].addr \in Live
        BY <1>1, <3>1 DEF TurnInv
      <3>3. \A x \in Range(send_copy) : x.addr \in Live
        BY <2>1, <3>2, SeqShape
      <3>4. \A l \in 1..Len(send_copy') : send_copy'[l] \in Range(send_copy')
        BY <2>3, SeqShape
      <3> QED
        BY <2>3, <3>3, <3>4
    <2>5. /\ UNCHANGED <<backlog, m_clients, pc, m_recv, m_send, m_accept, recv_copy, accept_copy>>
          /\ UNCHANGED <<rfds, wfds, accept_ready>> /\ Live' = Live
      BY <1>2 DEF server_vars, queued, reported, Live
    <2> QED
      BY <1>1, <1>2, <2>3, <2>4, <2>5 DEF TurnInv
  <1> QED
    BY <1>7, <1>8, <1>9, <1>10 DEF BaseInv

-----------------------------------------------------------------------------
(* The list after std::remove_if. *)

\* The places of the open handlers after the removal: the first ones, in the
\* order they had.
LEMMA PlacesAreFirst ==
    ASSUME IsSeq(m_clients)
    PROVE  /\ Cardinality(Kept) \in 0..Len(m_clients) /\ Kept \subseteq 1..Len(m_clients)
           /\ \A j \in Kept : Place(j) \in 1..Cardinality(Kept) /\ Place(j) <= j
           /\ \A i, j \in Kept : i # j => Place(i) # Place(j)
           /\ \A i \in 1..Cardinality(Kept) : \E j \in Kept : Place(j) = i
  <1> DEFINE n == Cardinality(Kept)
             Upto(j) == {l \in Kept : l <= j}
             place == [j \in Kept |-> Place(j)]
  <1>1. Len(m_clients) \in Nat
    BY SeqShape
  <1>2. Kept \subseteq 1..Len(m_clients)
    BY DEF Kept
  <1>3. IsFiniteSet(1..Len(m_clients)) /\ Cardinality(1..Len(m_clients)) = Len(m_clients)
    <2>1. \A k \in Nat : IsFiniteSet(1..k) /\ Cardinality(1..k) = k
      BY FS_Interval
    <2> QED
      BY <1>1, <2>1
  <1>4. IsFiniteSet(Kept) /\ n <= Len(m_clients)
    BY <1>2, <1>3, FS_Subset
  <1>5. n \in Nat
    BY <1>4, FS_CardinalityType
  <1>6. ASSUME NEW j \in Kept PROVE Place(j) \in 1..n /\ Place(j) <= j
    <2>1. Upto(j) \in SUBSET Kept /\ Upto(j) \in SUBSET (1..j) /\ j \in Upto(j) /\ j \in Nat
      <3>1. \A l \in Kept : l \in Nat /\ 1 <= l
        BY <1>1, <1>2
      <3> QED
        BY <3>1
    <2>2. IsFiniteSet(Upto(j)) /\ Cardinality(Upto(j)) <= n
      BY <1>4, <2>1, FS_Subset
    <2>3. IsFiniteSet(1..j) /\ Cardinality(1..j) = j
      <3>1. j \in Int /\ 1 <= j
        BY <1>1, <1>2
      <3> QED
        BY <3>1, FS_Interval
    <2>4. Cardinality(Upto(j)) <= j
      BY <2>1, <2>3, FS_Subset
    <2>5. Cardinality(Upto(j)) \in Nat /\ Cardinality(Upto(j)) # 0
      BY <2>1, <2>2, FS_CardinalityType, FS_EmptySet
    <2> QED
      BY <1>5, <2>2, <2>4, <2>5 DEF Place
  <1>7. ASSUME NEW i \in Kept, NEW j \in Kept, i < j PROVE Place(i) # Place(j)
    <2>1. Upto(i) \in SUBSET Upto(j) /\ j \in Upto(j) /\ j \notin Upto(i)
      <3>1. \A l \in Kept : l \in Nat
        BY <1>1, <1>2
      <3> QED
        BY <1>7, <3>1
    <2>2. IsFiniteSet(Upto(j))
      <3>1. Upto(j) \in SUBSET Kept
        OBVIOUS
      <3> QED
        BY <1>4, <3>1, FS_Subset
    <2>3. Cardinality(Upto(j)) = Cardinality(Upto(i)) => Upto(j) = Upto(i)
      BY <2>1, <2>2, FS_Subset
    <2> QED
      BY <2>1, <2>3 DEF Place
  <1>8. \A i, j \in Kept : i # j => Place(i) # Place(j)
    <2>1. \A i, j \in Kept : i # j => i < j \/ j < i
      BY <1>1, <1>2
    <2> QED
      BY <1>7, <2>1
  <1>9. place \in Surjection(Kept, 1..n)
    <2>1. place \in Injection(Kept, 1..n)
      <3>1. place \in [Kept -> 1..n]
        BY <1>6
      <3>2. IsInjective(place)
        BY <1>8 DEF IsInjective
      <3> QED
        BY <3>1, <3>2 DEF Injection
    <2>2. IsFiniteSet(1..n) /\ Cardinality(1..n) = n
      BY <1>5, FS_Interval
    <2> QED
      BY <2>1, <2>2, FS_Injection
  <1>10. \A i \in 1..n : \E j \in Kept : Place(j) = i
    BY <1>9 DEF Surjection
  <1> QED
    BY <1>1, <1>2, <1>4, <1>5, <1>6, <1>8, <1>10

\* What lies in the nodes after the removal.
LEMMA CompactedIs ==
    ASSUME ListInv
    PROVE  /\ \A i \in 1..Cardinality(Kept) :
                \E j \in Kept : /\ Place(j) = i
                                /\ Compacted(m_clients[i]) = handler[m_clients[j]]
           /\ \A b : (\A i \in 1..Cardinality(Kept) : b # m_clients[i]) => Compacted(b) = NoHandler
  <1>1. IsSeq(m_clients) /\ IsInjective(m_clients)
    BY SeqIsSeq DEF ListInv
  <1>2. \A i, l \in 1..Len(m_clients) : m_clients[i] = m_clients[l] => i = l
    BY <1>1, SeqShape DEF IsInjective
  <1>3. /\ Cardinality(Kept) \in 0..Len(m_clients) /\ Kept \subseteq 1..Len(m_clients)
        /\ \A j \in Kept : Place(j) \in 1..Cardinality(Kept)
        /\ \A i, j \in Kept : i # j => Place(i) # Place(j)
        /\ \A i \in 1..Cardinality(Kept) : \E j \in Kept : Place(j) = i
    BY <1>1, PlacesAreFirst
  <1>4. Len(m_clients) \in Nat
    BY <1>1, SeqShape
  <1>5. 1..Cardinality(Kept) \subseteq 1..Len(m_clients)
    BY <1>3, <1>4
  <1>6. ASSUME NEW i \in 1..Cardinality(Kept)
        PROVE  \E j \in Kept : Place(j) = i /\ Compacted(m_clients[i]) = handler[m_clients[j]]
    <2>1. PICK j \in Kept : Place(j) = i
      BY <1>3
    <2>2. \A l \in Kept : m_clients[Place(l)] = m_clients[i] <=> l = j
      BY <1>2, <1>3, <1>5, <2>1
    <2>3. (CHOOSE l \in Kept : m_clients[Place(l)] = m_clients[i]) = j
      BY <2>2
    <2> QED
      BY <2>1, <2>2, <2>3 DEF Compacted
  <1>7. ASSUME NEW b, \A i \in 1..Cardinality(Kept) : b # m_clients[i]
        PROVE  Compacted(b) = NoHandler
    <2>1. ~ \E j \in Kept : m_clients[Place(j)] = b
      BY <1>3, <1>7
    <2> QED
      BY <2>1 DEF Compacted
  <1> QED
    BY <1>6, <1>7

\* The step in full: a is the new node and h its connection; every other node
\* of the list has the contents of an open one of the old list.
Accepted(kept, a) ==
    /\ IsSeq(kept) /\ kept \in Seq(Addr) /\ a \in Addr \ Range(kept)
    /\ IsSeq(backlog) /\ backlog # <<>> /\ Head(backlog) \in Waiting /\ Waiting \subseteq Client
    /\ m_clients' = Append(kept, a) /\ Live' = Range(kept) \cup {a}
    /\ handler' = [b \in Addr |-> handler'[b]]
    /\ handler'[a] = [fd |-> Head(backlog), m_closed |-> FALSE, m_stream |-> <<>>]
    /\ \A b \in Addr \ Live' : handler'[b] = NoHandler
    /\ Len(kept) = Cardinality(Kept) /\ Cardinality(Kept) \in 0..Len(m_clients)
    /\ \A i \in 1..Len(kept) : kept[i] = m_clients[i]
    /\ \A i \in 1..Len(kept) : \E j \in Kept :
         Place(j) = i /\ handler'[kept[i]] = handler[m_clients[j]]
    /\ m_recv' = Append(m_recv, a)

LEMMA AcceptIs ==
    ASSUME ListInv, TurnInv, AcceptStep
    PROVE  \E a \in Addr : Accepted(SubSeq(m_clients, 1, Cardinality(Kept)), a)
  <1> DEFINE n == Cardinality(Kept)
             kept == SubSeq(m_clients, 1, n)
  <1>1. IsSeq(m_clients) /\ m_clients \in Seq(Addr)
    BY SeqIsSeq DEF ListInv
  <1>2. n \in 0..Len(m_clients) /\ Len(m_clients) \in Nat
    BY <1>1, PlacesAreFirst, SeqShape
  <1> HIDE DEF n
  <1>3. Part(kept, m_clients, 1, n)
    <2>1. 1 \in 1..(Len(m_clients) + 1) /\ n \in (1 - 1)..Len(m_clients)
      BY <1>2
    <2> QED
      BY <1>1, <2>1, SubSeqIs
  <1>4. PICK a \in Addr \ Range(kept) :
          /\ m_clients' = Append(kept, a)
          /\ handler' = [b \in Addr |->
               IF b = a THEN [NoHandler EXCEPT !.fd = Head(backlog)] ELSE Compacted(b)]
          /\ m_recv' = Append(m_recv, a)
    BY DEF AcceptStep, n
  <1> HIDE DEF kept
  <1>5. /\ IsSeq(kept) /\ Len(kept) = n
        /\ \A i \in 1..n : kept[i] = m_clients[i]
    BY <1>2, <1>3 DEF Part
  <1>6. \A i \in 1..n : kept[i] \in Addr /\ kept[i] \in Range(kept)
    <2>1. \A i \in 1..Len(kept) : kept[i] \in Range(kept)
      BY <1>5, SeqShape
    <2>2. \A i \in 1..Len(m_clients) : m_clients[i] \in Addr
      BY <1>1
    <2> QED
      BY <1>2, <1>5, <2>1, <2>2
  <1>7. kept \in Seq(Addr)
    BY <1>5, <1>6, SeqOver
  <1>8. Live' = Range(kept) \cup {a}
    <2>1. Appended(m_clients', kept, a)
      BY <1>4, <1>5, AppendIs
    <2> QED
      BY <2>1 DEF Appended, Live
  <1>9. /\ handler' = [b \in Addr |-> handler'[b]]
        /\ \A b \in Addr \ {a} : handler'[b] = Compacted(b)
    BY <1>4
  <1>10. handler'[a] = [fd |-> Head(backlog), m_closed |-> FALSE, m_stream |-> <<>>]
    BY <1>4 DEF NoHandler
  <1>11. \A i \in 1..n : \E j \in Kept :
           Place(j) = i /\ handler'[kept[i]] = handler[m_clients[j]]
    <2>1. \A i \in 1..n : \E j \in Kept :
            Place(j) = i /\ Compacted(m_clients[i]) = handler[m_clients[j]]
      BY CompactedIs DEF n
    <2>2. \A i \in 1..n : kept[i] # a
      BY <1>4, <1>6
    <2> QED
      BY <1>5, <1>6, <1>9, <2>1, <2>2
  <1>12. \A b \in Addr \ Live' : handler'[b] = NoHandler
    <2>1. \A b \in Addr \ Live' : \A i \in 1..n : b # m_clients[i]
      BY <1>5, <1>6, <1>8
    <2>2. \A b \in Addr \ Live' : Compacted(b) = NoHandler
      BY <2>1, CompactedIs DEF n
    <2> QED
      BY <1>8, <1>9, <2>2
  <1>13. IsSeq(backlog) /\ backlog # <<>> /\ Head(backlog) \in Waiting /\ Waiting \subseteq Client
    <2>1. IsSeq(backlog) /\ backlog # <<>> /\ Waiting \subseteq Client
      BY DEF ListInv, TurnInv, AcceptStep
    <2> QED
      BY <2>1, HeadTail DEF Waiting
  <1>14. Accepted(kept, a)
    BY <1>2, <1>4, <1>5, <1>7, <1>8, <1>9, <1>10, <1>11, <1>12, <1>13 DEF Accepted, n
  <1> QED
    BY <1>14 DEF kept, n

\* A node that stays in the list: where its contents were.
LEMMA MovedIs ==
    ASSUME ListInv, NEW kept, NEW a, Accepted(kept, a), NEW b \in Range(kept)
    PROVE  \E i \in 1..Len(kept), j \in Kept :
             /\ b = kept[i] /\ Place(j) = i /\ m_clients[j] \in Live
             /\ handler'[b] = handler[m_clients[j]] /\ ~handler[m_clients[j]].m_closed
             /\ j \in 1..Len(m_clients)
  <1>1. PICK i \in 1..Len(kept) : b = kept[i]
    BY SeqShape DEF Accepted
  <1>2. PICK j \in Kept : Place(j) = i /\ handler'[kept[i]] = handler[m_clients[j]]
    BY DEF Accepted
  <1>3. IsSeq(m_clients)
    BY SeqIsSeq DEF ListInv
  <1>4. m_clients[j] \in Live
    BY <1>3, SeqShape DEF Kept, Live
  <1>5. ~handler[m_clients[j]].m_closed /\ j \in 1..Len(m_clients)
    BY DEF Kept
  <1> QED
    BY <1>1, <1>2, <1>4, <1>5

\* AcceptStep changes nothing else.
LEMMA AcceptFrame ==
    ASSUME AcceptStep
    PROVE  /\ pc = "dispatch" /\ ReadyRecvs = {} /\ ReadySends = {} /\ accept_ready
           /\ fds' = (fds \ ClosedFds) \cup {Head(backlog)} /\ backlog' = Tail(backlog)
           /\ m_accept' = m_accept + 1 /\ accept_copy' = accept_copy - 1
           /\ rfds' = {} /\ wfds' = {} /\ accept_ready' = FALSE
           /\ UNCHANGED <<conn, cmds, sent, got, to_server, to_client, db,
                          pc, m_send, recv_copy, send_copy>>
  BY DEF AcceptStep, client_vars

LEMMA AcceptBase == BaseInv /\ AcceptStep => BaseInv'
  <1> SUFFICES ASSUME BaseInv, AcceptStep PROVE BaseInv'
    OBVIOUS
  <1>1. ClientInv /\ ListInv /\ StreamInv /\ TurnInv
    BY DEF BaseInv
  <1> DEFINE h == Head(backlog)
             K == SubSeq(m_clients, 1, Cardinality(Kept))
  <1>2. PICK a \in Addr : Accepted(K, a)
    BY <1>1, AcceptIs
  <1>3. PICK kept : kept = K
    OBVIOUS
  <1>4. Accepted(kept, a)
    BY <1>2, <1>3
  <1> HIDE DEF K
  <1>5. /\ UNCHANGED <<conn, cmds, sent, got, to_server, to_client>>
        /\ backlog' = Tail(backlog) /\ fds' = (fds \ ClosedFds) \cup {h}
    BY AcceptFrame
  <1>6. /\ a \in Addr \ Range(kept) /\ IsSeq(kept) /\ kept \in Seq(Addr)
        /\ Live' = Range(kept) \cup {a} /\ m_clients' = Append(kept, a)
        /\ handler' = [b \in Addr |-> handler'[b]] /\ h \in Waiting /\ Waiting \subseteq Client
        /\ handler'[a] = [fd |-> h, m_closed |-> FALSE, m_stream |-> <<>>]
        /\ \A b \in Addr \ Live' : handler'[b] = NoHandler
    BY <1>4 DEF Accepted
  <1>7. /\ IsSeq(backlog') /\ IsInjective(backlog') /\ Waiting' \subseteq Waiting
        /\ h \notin Waiting' /\ Waiting = Waiting' \cup {h}
    <2>1. IsSeq(backlog) /\ IsInjective(backlog) /\ backlog # <<>>
      BY <1>1, <1>4 DEF ListInv, Accepted
    <2>2. Rest(backlog', backlog)
      BY <1>5, <2>1, TailIs
    <2>3. /\ IsSeq(backlog') /\ Len(backlog) \in Nat \ {0} /\ Len(backlog') = Len(backlog) - 1
          /\ \A i \in 1..(Len(backlog) - 1) : backlog'[i] = backlog[i + 1]
          /\ Range(backlog) = {h} \cup Range(backlog') /\ h = backlog[1]
      BY <2>2 DEF Rest
    <2>4. \A i, j \in 1..Len(backlog) : backlog[i] = backlog[j] => i = j
      BY <2>1, SeqShape DEF IsInjective
    <2>5. \A i, j \in 1..Len(backlog') : backlog'[i] = backlog'[j] => i = j
      <3> SUFFICES ASSUME NEW i \in 1..Len(backlog'), NEW j \in 1..Len(backlog'),
                          backlog'[i] = backlog'[j]
                   PROVE  i = j
        OBVIOUS
      <3>1. i + 1 \in 1..Len(backlog) /\ j + 1 \in 1..Len(backlog)
        BY <2>3
      <3>2. i + 1 = j + 1
        BY <2>3, <2>4, <3>1
      <3> QED
        BY <2>3, <3>2
    <2>6. IsInjective(backlog')
      BY <2>3, <2>5, SeqShape DEF IsInjective
    <2>7. h \notin Range(backlog')
      <3> SUFFICES ASSUME h \in Range(backlog') PROVE FALSE
        OBVIOUS
      <3>1. PICK i \in 1..Len(backlog') : h = backlog'[i]
        BY <2>3, SeqShape
      <3>2. i + 1 \in 1..Len(backlog) /\ 1 \in 1..Len(backlog) /\ backlog[i + 1] = backlog[1]
        BY <2>3, <3>1
      <3>3. i + 1 = 1
        BY <2>4, <3>2
      <3> QED
        BY <2>3, <3>3
    <2> QED
      BY <2>3, <2>6, <2>7 DEF Waiting
  <1>8. \A b \in Range(kept) : \E d \in Live : handler'[b] = handler[d]
    BY <1>1, <1>4, MovedIs
  <1>9. \A b1, b2 \in Range(kept) : Fd(b1)' = Fd(b2)' => b1 = b2
    <2> SUFFICES ASSUME NEW b1 \in Range(kept), NEW b2 \in Range(kept), Fd(b1)' = Fd(b2)'
                 PROVE  b1 = b2
      OBVIOUS
    <2>1. PICK i1 \in 1..Len(kept), j1 \in Kept :
            /\ b1 = kept[i1] /\ Place(j1) = i1 /\ m_clients[j1] \in Live
            /\ handler'[b1] = handler[m_clients[j1]] /\ j1 \in 1..Len(m_clients)
      BY <1>1, <1>4, MovedIs
    <2>2. PICK i2 \in 1..Len(kept), j2 \in Kept :
            /\ b2 = kept[i2] /\ Place(j2) = i2 /\ m_clients[j2] \in Live
            /\ handler'[b2] = handler[m_clients[j2]] /\ j2 \in 1..Len(m_clients)
      BY <1>1, <1>4, MovedIs
    <2>3. Fd(m_clients[j1]) = Fd(m_clients[j2])
      BY <2>1, <2>2 DEF Fd
    <2>4. m_clients[j1] = m_clients[j2]
      BY <1>1, <2>1, <2>2, <2>3 DEF ListInv
    <2>5. IsSeq(m_clients) /\ IsInjective(m_clients)
      BY <1>1, SeqIsSeq DEF ListInv
    <2>6. j1 = j2
      BY <2>1, <2>2, <2>4, <2>5, SeqShape DEF IsInjective
    <2> QED
      BY <2>1, <2>2, <2>6
  <1>10. \A d \in Live : Fd(d) \in Client /\ conn[Fd(d)] # "out" /\ Fd(d) \notin Waiting
    BY <1>1 DEF ListInv
  <1>11. ClientInv'
    BY <1>1, <1>5 DEF ClientInv, UnitAt
  <1>12. ListInv'
    <2>1. m_clients' \in Seq(Addr)
      BY <1>6, AppendProperties
    <2>2. IsInjective(m_clients')
      <3>1. IsInjective(kept)
        <4>1. IsSeq(m_clients) /\ IsInjective(m_clients)
          BY <1>1, SeqIsSeq DEF ListInv
        <4>2. \A i, j \in 1..Len(m_clients) : m_clients[i] = m_clients[j] => i = j
          BY <4>1, SeqShape DEF IsInjective
        <4>3. /\ Len(kept) \in 0..Len(m_clients) /\ Len(m_clients) \in Nat
              /\ \A i \in 1..Len(kept) : kept[i] = m_clients[i]
          BY <1>4, <4>1, SeqShape DEF Accepted
        <4>4. \A i, j \in 1..Len(kept) : kept[i] = kept[j] => i = j
          BY <4>2, <4>3
        <4> QED
          BY <1>6, <4>4, SeqShape DEF IsInjective
      <3> QED
        BY <1>6, <3>1, AppendInjectiveSeq
    <2>3. handler' \in [Addr -> Node]
      <3>1. handler'[a] \in Node
        <4>1. <<>> \in Seq(Nat)
          BY EmptySeq
        <4> QED
          BY <1>6, <4>1 DEF Node
      <3>2. \A b \in Range(kept) : handler'[b] \in Node
        BY <1>1, <1>8, LiveNode
      <3>3. \A b \in Addr \ Live' : handler'[b] \in Node
        <4>1. NoHandler \in Node
          BY EmptySeq DEF NoHandler, Node
        <4> QED
          BY <1>6, <4>1
      <3>4. \A b \in Addr : handler'[b] \in Node
        BY <1>6, <3>1, <3>2, <3>3
      <3> QED
        BY <1>6, <3>4
    <2>4. \A b \in Live' : /\ Fd(b)' \in Client /\ conn'[Fd(b)'] # "out"
                           /\ Fd(b)' \notin Waiting'
      <3>1. Fd(a)' = h /\ conn'[h] # "out"
        BY <1>1, <1>5, <1>6 DEF Fd, ListInv
      <3>2. \A b \in Range(kept) : /\ Fd(b)' \in Client /\ conn'[Fd(b)'] # "out"
                                   /\ Fd(b)' \notin Waiting'
        BY <1>5, <1>7, <1>8, <1>10 DEF Fd
      <3> QED
        BY <1>6, <1>7, <3>1, <3>2
    <2>5. \A b1, b2 \in Live' : Fd(b1)' = Fd(b2)' => b1 = b2
      <3>1. Fd(a)' = h
        BY <1>6 DEF Fd
      <3>2. \A b \in Range(kept) : Fd(b)' # h
        BY <1>6, <1>8, <1>10 DEF Fd
      <3> QED
        BY <1>6, <1>9, <3>1, <3>2
    <2>6. fds' \subseteq Client
      BY <1>1, <1>5, <1>6 DEF ListInv
    <2>7. Waiting' \subseteq Client /\ \A c \in Waiting' : conn'[c] # "out"
      BY <1>1, <1>5, <1>7 DEF ListInv
    <2> QED
      BY <1>6, <1>7, <2>1, <2>2, <2>3, <2>4, <2>5, <2>6, <2>7 DEF ListInv
  <1>13. StreamInv'
    <2>1. ASSUME NEW b \in Range(kept)
          PROVE  /\ Base(b)' \in Nat /\ Base(b)' = 2 * (Base(b)' \div 2)
                 /\ \A j \in 1..Len(handler'[b].m_stream) :
                      handler'[b].m_stream[j] = UnitAt(Base(b)' + j)
      <3>1. PICK d \in Live : handler'[b] = handler[d]
        BY <1>8
      <3>2. Base(b)' = Base(d)
        BY <1>5, <3>1 DEF Base, Fd
      <3> QED
        BY <1>1, <3>1, <3>2 DEF StreamInv
    <2>2. Base(a)' = 0 /\ Len(handler'[a].m_stream) = 0
      <3>1. Len(to_server[h]) = sent[h] /\ sent[h] \in Nat
        BY <1>1, <1>6, ClientShape DEF StreamInv
      <3>2. Fd(a)' = h /\ handler'[a].m_stream = <<>>
        BY <1>6 DEF Fd
      <3>3. Len(handler'[a].m_stream) = 0
        BY <3>2, EmptyShape
      <3> QED
        BY <1>5, <3>1, <3>2, <3>3 DEF Base
    <2>3. \A b \in Live' : /\ Base(b)' \in Nat /\ Base(b)' = 2 * (Base(b)' \div 2)
                           /\ \A j \in 1..Len(handler'[b].m_stream) :
                                handler'[b].m_stream[j] = UnitAt(Base(b)' + j)
      BY <1>6, <2>1, <2>2
    <2>4. \A c \in Client : conn'[c] = "out" \/ c \in Waiting' => Len(to_server'[c]) = sent'[c]
      BY <1>1, <1>5, <1>7 DEF StreamInv
    <2> QED
      BY <2>3, <2>4 DEF StreamInv, UnitAt
  <1>14. TurnInv'
    <2>1. m_recv' \in Seq(Addr)
      <3>1. m_recv \in Seq(Addr) /\ m_recv' = Append(m_recv, a)
        BY <1>1, <1>4 DEF TurnInv, Accepted
      <3> QED
        BY <3>1, AppendProperties
    <2>2. accept_copy = 1 /\ m_accept = 0 /\ pc = "dispatch"
      BY <1>1, AcceptFrame DEF TurnInv
    <2>3. /\ m_accept' = 1 /\ accept_copy' = 0 /\ accept_ready' = FALSE /\ pc' = "dispatch"
          /\ rfds' = {} /\ wfds' = {} /\ UNCHANGED <<m_send, recv_copy, send_copy>>
      BY <2>2, AcceptFrame
    <2>4. recv_copy \in Seq(Addr) /\ IsSeq(m_send) /\ IsSeq(send_copy)
      BY <1>1 DEF TurnInv
    <2>5. rfds' \cup wfds' = {} /\ m_accept' + accept_copy' = 1
      BY <2>3
    <2> QED
      BY <2>1, <2>3, <2>4, <2>5 DEF TurnInv
  <1> QED
    BY <1>11, <1>12, <1>13, <1>14 DEF BaseInv

-----------------------------------------------------------------------------
(* The commands that a receive brought. *)

\* No command that the encoding allows is answered as an invalid one.
LEMMA ExecuteAnswers ==
    ASSUME NEW d, NEW cmd, cmd.op \in Commands
    PROVE  Execute(d, cmd).res # Invalid
  <1> DEFINE r == Execute(d, cmd).res
  <1>1. \/ r = Success \/ r = NotFound \/ (\E v : r = Found(v)) \/ (\E v : r = SchemaIs(v))
    <2>1. CASE cmd.op = "RegisterSchema"
      BY <2>1 DEF Execute, RegisterSchema, Outcome
    <2>2. CASE cmd.op = "CreateCollection"
      BY <2>2 DEF Execute, CreateCollection, Outcome
    <2>3. CASE cmd.op = "GetSchema"
      BY <2>3 DEF Execute, GetSchema, Outcome
    <2>4. CASE cmd.op = "GetCollectionSchema"
      BY <2>4 DEF Execute, GetCollectionSchema, Outcome
    <2>5. CASE cmd.op = "Get"
      BY <2>5 DEF Execute, Get, Outcome
    <2>6. CASE cmd.op = "Put"
      BY <2>6 DEF Execute, Put, Outcome
    <2>7. CASE cmd.op = "Delete"
      BY <2>7 DEF Execute, Delete, Outcome
    <2> QED
      BY <2>1, <2>2, <2>3, <2>4, <2>5, <2>6, <2>7 DEF Commands
  <1>2. /\ Success.op # Invalid.op /\ NotFound.op # Invalid.op
        /\ \A v : Found(v).op # Invalid.op /\ SchemaIs(v).op # Invalid.op
    BY DEF Success, NotFound, Found, SchemaIs, Invalid
  <1> QED
    BY <1>1, <1>2

\* The equation that Handle solves: what the first j commands of s leave.
HandleOne(x, a, c, s, j) ==
    LET out == Execute(x.db, Cmd(c, s[2 * j]))
    IN [db  |-> out.db,
        ops |-> Append(x.ops, SendOp(a, s[2 * j], out.res))]
IsTurn(f, a, c, s, m) ==
    f = [j \in 0..m |-> IF j = 0 THEN [db |-> db, ops |-> <<>>]
                        ELSE HandleOne(f[j - 1], a, c, s, j)]

LEMMA TurnExists ==
    ASSUME NEW a, NEW c, NEW s, NEW m \in Nat
    PROVE  \E f : IsTurn(f, a, c, s, m)
  <1> DEFINE T == {k \in Nat : ~\E f : IsTurn(f, a, c, s, k)}
  <1>1. SUFFICES ASSUME T # {} PROVE FALSE
    OBVIOUS
  <1>2. PICK k \in T : \A e \in T : k <= e
    BY <1>1, LeastOf
  <1>3. CASE k = 0
    <2> DEFINE f == [j \in 0..0 |-> [db |-> db, ops |-> <<>>]]
    <2>1. f = [j \in 0..0 |-> IF j = 0 THEN [db |-> db, ops |-> <<>>]
                              ELSE HandleOne(f[j - 1], a, c, s, j)]
      OBVIOUS
    <2>2. IsTurn(f, a, c, s, k)
      BY <1>3, <2>1 DEF IsTurn
    <2> QED
      BY <2>2
  <1>4. CASE k # 0
    <2>1. k - 1 \in Nat /\ k - 1 < k
      BY <1>4
    <2>2. PICK g : IsTurn(g, a, c, s, k - 1)
      BY <1>2, <2>1
    <2> DEFINE f == [j \in 0..k |-> IF j = k THEN HandleOne(g[k - 1], a, c, s, k) ELSE g[j]]
               F == [j \in 0..k |-> IF j = 0 THEN [db |-> db, ops |-> <<>>]
                                    ELSE HandleOne(f[j - 1], a, c, s, j)]
    <2>3. ASSUME NEW j \in 0..k PROVE f[j] = F[j]
      <3>1. CASE j = k
        <4>1. j - 1 \in 0..k /\ j - 1 # k
          BY <3>1, <1>4
        <4>2. f[j - 1] = g[k - 1]
          BY <3>1, <4>1
        <4> QED
          BY <3>1, <4>2, <1>4
      <3>2. CASE j # k
        <4>1. j \in 0..(k - 1)
          BY <3>2
        <4>2. g[j] = IF j = 0 THEN [db |-> db, ops |-> <<>>] ELSE HandleOne(g[j - 1], a, c, s, j)
          BY <2>2, <4>1 DEF IsTurn
        <4>3. j # 0 => j - 1 \in 0..k /\ j - 1 # k
          BY <4>1
        <4>4. j # 0 => f[j - 1] = g[j - 1]
          BY <4>3
        <4> QED
          BY <3>2, <4>2, <4>4
      <3> QED
        BY <3>1, <3>2
    <2>4. f = F
      BY <2>3
    <2>5. IsTurn(f, a, c, s, k)
      BY <2>4 DEF IsTurn
    <2> QED
      BY <2>5
  <1> QED
    BY <1>3, <1>4

LEMMA HandleSolves ==
    ASSUME NEW a, NEW c, NEW s, NEW m \in Nat
    PROVE  \E f : IsTurn(f, a, c, s, m) /\ Handle(a, c, s, m) = f[m]
  <1> DEFINE Eq(f) == f = [j \in 0..m |->
               IF j = 0 THEN [db |-> db, ops |-> <<>>]
               ELSE LET out == Execute(f[j - 1].db, Cmd(c, s[2 * j]))
                    IN [db  |-> out.db,
                        ops |-> Append(f[j - 1].ops, SendOp(a, s[2 * j], out.res))]]
             turn == CHOOSE f : Eq(f)
  <1>1. Handle(a, c, s, m) = turn[m]
    BY DEF Handle
  <1>2. \E f : Eq(f)
    <2>1. PICK f : IsTurn(f, a, c, s, m)
      BY TurnExists
    <2>2. Eq(f)
      BY <2>1 DEF IsTurn, HandleOne
    <2> QED
      BY <2>2
  <1>3. Eq(turn)
    BY <1>2
  <1>4. IsTurn(turn, a, c, s, m)
    BY <1>3 DEF IsTurn, HandleOne
  <1> QED
    BY <1>1, <1>4

\* The operations that the first m commands of s leave, one for each.
Answering(ops, a, s, m) ==
    /\ IsSeq(ops) /\ Len(ops) = m
    /\ \A j \in 1..m : ops[j].addr = a /\ ops[j].n = s[2 * j] /\ ops[j].res # Invalid

LEMMA HandleIs ==
    ASSUME NEW a, NEW c, NEW s, NEW m \in Nat,
           \A j \in 1..m : Cmd(c, s[2 * j]).op \in Commands
    PROVE  Answering(Handle(a, c, s, m).ops, a, s, m)
  <1>1. PICK f : IsTurn(f, a, c, s, m) /\ Handle(a, c, s, m) = f[m]
    BY HandleSolves
  <1> DEFINE T == {k \in 0..m : ~Answering(f[k].ops, a, s, k)}
  <1>2. SUFFICES ASSUME T # {} PROVE FALSE
    <2>1. m \in 0..m
      OBVIOUS
    <2> QED
      BY <1>1, <2>1
  <1>3. T \subseteq Nat
    OBVIOUS
  <1>4. PICK k \in T : \A e \in T : k <= e
    BY <1>2, <1>3, LeastOf
  <1> HIDE DEF T
  <1>5. k \in 0..m /\ ~Answering(f[k].ops, a, s, k)
    BY DEF T
  <1>6. CASE k = 0
    <2>1. f[k].ops = <<>>
      BY <1>1, <1>5, <1>6 DEF IsTurn
    <2> QED
      BY <1>5, <1>6, <2>1, EmptyShape DEF Answering
  <1>7. CASE k # 0
    <2>1. k - 1 \in 0..m /\ k \in 1..m /\ k - 1 \in Nat
      BY <1>5, <1>7
    <2>2. Answering(f[k - 1].ops, a, s, k - 1)
      BY <1>4, <2>1 DEF T
    <2>3. f[k] = HandleOne(f[k - 1], a, c, s, k)
      BY <1>1, <1>5, <1>7 DEF IsTurn
    <2>4. PICK r : r = Execute(f[k - 1].db, Cmd(c, s[2 * k])).res
      OBVIOUS
    <2>5. r # Invalid
      BY <2>1, <2>4, ExecuteAnswers
    <2>6. f[k].ops = Append(f[k - 1].ops, SendOp(a, s[2 * k], r))
      BY <2>3, <2>4 DEF HandleOne
    <2>7. PICK op : op = SendOp(a, s[2 * k], r)
      OBVIOUS
    <2>8. op.addr = a /\ op.n = s[2 * k] /\ op.res = r
      BY <2>7 DEF SendOp
    <2>9. PICK old, new : old = f[k - 1].ops /\ new = f[k].ops
      OBVIOUS
    <2>10. Answering(old, a, s, k - 1) /\ new = Append(old, op)
      BY <2>2, <2>6, <2>7, <2>9
    <2>11. Appended(new, old, op)
      BY <2>10, AppendIs DEF Answering
    <2>12. IsSeq(new) /\ Len(new) = k
      BY <2>1, <2>10, <2>11 DEF Appended, Answering
    <2>13. ASSUME NEW j \in 1..k
           PROVE  new[j].addr = a /\ new[j].n = s[2 * j] /\ new[j].res # Invalid
      <3>1. CASE j = k
        <4>1. new[k] = op
          BY <2>1, <2>10, <2>11 DEF Appended, Answering
        <4> QED
          BY <3>1, <4>1, <2>5, <2>8
      <3>2. CASE j # k
        <4>1. j \in 1..(k - 1)
          BY <3>2, <2>1
        <4>2. new[j] = old[j]
          BY <4>1, <2>10, <2>11 DEF Appended, Answering
        <4> QED
          BY <4>1, <4>2, <2>10 DEF Answering
      <3> QED
        BY <3>1, <3>2
    <2>14. Answering(new, a, s, k)
      BY <2>12, <2>13 DEF Answering
    <2> QED
      BY <1>5, <2>9, <2>14
  <1> QED
    BY <1>6, <1>7

\* s is the stream of node a, of client c, with the next k units from the
\* network; e commands of c were executed, and s begins with the next one.
Taken(a, c, s, e, k) ==
    /\ c = Fd(a) /\ c \in Client /\ e \in Nat /\ Base(a) = 2 * e
    /\ IsSeq(s) /\ Len(s) \in Nat /\ k \in 0..Len(to_server[c])
    /\ 2 * e + Len(s) = sent[c] - (Len(to_server[c]) - k)
    /\ 2 * e + Len(s) <= 2 * Len(cmds[c])
    /\ \A j \in 1..Len(s) : s[j] = e + UnitAt(j)

\* k units come from the network, and the stream of node a becomes s.
Brought(a, s, k) ==
    /\ k \in 0..Len(to_server[Fd(a)])
    /\ s = handler[a].m_stream \o SubSeq(to_server[Fd(a)], 1, k)

LEMMA TakenIs ==
    ASSUME ClientInv, ListInv, StreamInv, NEW a \in Live, NEW s, NEW k, Brought(a, s, k)
    PROVE  Taken(a, Fd(a), s, Base(a) \div 2, k)
  <1>1. PICK c, u, t, p : /\ c = Fd(a) /\ u = handler[a].m_stream /\ t = to_server[c]
                          /\ p = SubSeq(t, 1, k)
    OBVIOUS
  <1>2. /\ c \in Client /\ IsSeq(u) /\ Len(u) \in Nat /\ IsSeq(t) /\ Len(t) \in Nat
        /\ Len(t) <= sent[c] /\ sent[c] \in Nat /\ Len(cmds[c]) \in Nat
        /\ sent[c] <= 2 * Len(cmds[c])
    BY <1>1, LiveNode, ClientShape
  <1>3. PICK e : e = Base(a) \div 2
    OBVIOUS
  <1>4. /\ Base(a) \in Nat /\ Base(a) = 2 * e
        /\ \A j \in 1..Len(u) : u[j] = UnitAt(Base(a) + j)
    BY <1>1, <1>3 DEF StreamInv
  <1>5. e \in Nat /\ 2 * e = sent[c] - Len(t) - Len(u)
    BY <1>1, <1>3, <1>4 DEF Base
  <1>6. \A j \in 1..Len(t) : t[j] = UnitAt(sent[c] - Len(t) + j)
    BY <1>1, <1>2 DEF ClientInv
  <1>7. k \in Nat /\ k <= Len(t)
    BY <1>1, <1>2 DEF Brought
  <1>8. IsSeq(p) /\ Len(p) = k /\ \A j \in 1..k : p[j] = t[j]
    <2>1. Part(p, t, 1, k)
      <3>1. 1 \in 1..(Len(t) + 1) /\ k \in (1 - 1)..Len(t)
        BY <1>2, <1>7
      <3> QED
        BY <1>1, <1>2, <3>1, SubSeqIs
    <2> QED
      BY <1>7, <2>1 DEF Part
  <1>9. Joined(s, u, p)
    <2>1. s = u \o p
      BY <1>1 DEF Brought
    <2> QED
      BY <1>2, <1>8, <2>1, ConcatIs
  <1>10. PICK x, y, z, v : x = Len(u) /\ y = Len(t) /\ z = Len(s) /\ v = sent[c]
    OBVIOUS
  <1>11. /\ x \in Nat /\ y \in Nat /\ z \in Nat /\ v \in Nat /\ k \in Nat /\ e \in Nat
         /\ k <= y /\ z = x + k /\ 2 * e = v - y - x
    <2>1. Len(s) = Len(u) + k
      BY <1>8, <1>9 DEF Joined
    <2> QED
      BY <1>2, <1>5, <1>7, <1>10, <2>1
  <1>12. ASSUME NEW j \in 1..z PROVE s[j] = e + UnitAt(j)
    <2>1. CASE j <= x
      <3>1. j \in 1..x
        BY <1>11, <2>1
      <3>2. s[j] = u[j]
        BY <1>9, <1>10, <3>1 DEF Joined
      <3>3. s[j] = UnitAt(2 * e + j) /\ j \in Nat
        BY <1>4, <1>10, <1>11, <3>1, <3>2
      <3> QED
        BY <1>11, <3>3, Units
    <2>2. CASE ~(j <= x)
      <3>1. PICK i \in 1..k : j = x + i
        <4>1. j - x \in 1..k /\ j = x + (j - x)
          BY <1>11, <2>2
        <4> QED
          BY <4>1
      <3>2. s[j] = p[i]
        BY <1>8, <1>9, <1>10, <3>1 DEF Joined
      <3>3. p[i] = t[i] /\ i \in 1..y
        BY <1>8, <1>11
      <3>4. t[i] = UnitAt(v - y + i)
        BY <1>6, <1>10, <3>3
      <3>5. v - y + i = 2 * e + j /\ j \in Nat
        BY <1>11, <3>1
      <3>6. s[j] = UnitAt(2 * e + j)
        BY <3>2, <3>3, <3>4, <3>5
      <3> QED
        BY <1>11, <3>5, <3>6, Units
    <2> QED
      BY <2>1, <2>2
  <1>13. 2 * e + z = v - (y - k) /\ 2 * e + z <= v
    BY <1>11
  <1>14. 2 * e + Len(s) = sent[c] - (Len(t) - k) /\ 2 * e + Len(s) <= 2 * Len(cmds[c])
    <2>1. PICK w : w = Len(cmds[c])
      OBVIOUS
    <2>2. w \in Nat /\ v <= 2 * w
      BY <1>2, <1>10, <2>1
    <2>3. 2 * e + z <= 2 * w
      BY <1>11, <1>13, <2>2
    <2> QED
      BY <1>10, <1>13, <2>1, <2>3
  <1>15. /\ IsSeq(s) /\ Len(s) \in Nat /\ k \in 0..Len(t)
         /\ \A j \in 1..Len(s) : s[j] = e + UnitAt(j)
    BY <1>9, <1>10, <1>11, <1>12 DEF Joined
  <1> QED
    BY <1>1, <1>2, <1>3, <1>4, <1>5, <1>14, <1>15 DEF Taken

\* m commands of s are complete and valid; then it ends, or is refused.
Split(c, s, e, m) ==
    /\ m \in Nat /\ 2 * m <= Len(s)
    /\ \A j \in 1..m : /\ s[2 * j] = e + j /\ e + j \in 1..Len(cmds[c])
                       /\ Cmd(c, s[2 * j]).op \in Commands
    /\ Refused(c, s) => /\ 2 * m < Len(s) /\ s[2 * m + 1] = e + m + 1
                        /\ e + m + 1 \in 1..Len(cmds[c]) /\ Cmd(c, e + m + 1) = Bad

LEMMA GoodIs ==
    ASSUME ClientInv, NEW a, NEW c, NEW s, NEW e, NEW k, Taken(a, c, s, e, k)
    PROVE  Split(c, s, e, Good(c, s))
  <1> DEFINE Ends(m) == /\ \A j \in 1..m : Cmd(c, s[2 * j]) # Bad
                        /\ m = Whole(s) \/ Cmd(c, s[2 * m + 1]) = Bad
  <1>1. /\ c \in Client /\ e \in Nat /\ Len(s) \in Nat /\ 2 * e + Len(s) <= 2 * Len(cmds[c])
        /\ \A j \in 1..Len(s) : s[j] = e + UnitAt(j)
    BY DEF Taken
  <1>2. Len(cmds[c]) \in Nat
    BY <1>1, ClientShape
  <1>3. Whole(s) \in Nat /\ 2 * Whole(s) <= Len(s)
    BY <1>1 DEF Whole
  <1>4. \A j \in Nat \ {0} : 2 * j <= Len(s) => s[2 * j] = e + j
    <2> SUFFICES ASSUME NEW j \in Nat \ {0}, 2 * j <= Len(s) PROVE s[2 * j] = e + j
      OBVIOUS
    <2>1. 2 * j \in 1..Len(s)
      BY <1>1
    <2>2. UnitAt(2 * j) = j
      BY Units
    <2> QED
      BY <1>1, <2>1, <2>2
  <1>5. \A j \in Nat \ {0} : 2 * j - 1 <= Len(s) => s[2 * j - 1] = e + j
    <2> SUFFICES ASSUME NEW j \in Nat \ {0}, 2 * j - 1 <= Len(s) PROVE s[2 * j - 1] = e + j
      OBVIOUS
    <2>1. 2 * j - 1 \in 1..Len(s)
      BY <1>1
    <2>2. UnitAt(2 * j - 1) = j
      BY Units
    <2> QED
      BY <1>1, <2>1, <2>2
  <1>6. \E m \in 0..Whole(s) : Ends(m)
    <2> DEFINE T == {j \in 1..Whole(s) : Cmd(c, s[2 * j]) = Bad}
    <2>1. CASE T = {}
      <3>1. Whole(s) \in 0..Whole(s)
        BY <1>3
      <3>2. \A j \in 1..Whole(s) : Cmd(c, s[2 * j]) # Bad
        BY <2>1
      <3> QED
        BY <3>1, <3>2
    <2>2. CASE T # {}
      <3>1. T \subseteq Nat
        BY <1>3
      <3>2. PICK l \in T : \A i \in T : l <= i
        BY <2>2, <3>1, LeastOf
      <3>3. l \in 1..Whole(s) /\ Cmd(c, s[2 * l]) = Bad
        BY <3>2
      <3>4. \A j \in 1..(l - 1) : Cmd(c, s[2 * j]) # Bad
        <4> SUFFICES ASSUME NEW j \in 1..(l - 1), Cmd(c, s[2 * j]) = Bad PROVE FALSE
          OBVIOUS
        <4>1. j \in T /\ j < l
          BY <1>3, <3>3
        <4> QED
          BY <1>3, <3>2, <3>3, <4>1
      <3>5. l \in Nat \ {0} /\ 2 * l <= Len(s) /\ 2 * l - 1 <= Len(s) /\ l - 1 \in 0..Whole(s)
            /\ 2 * (l - 1) + 1 = 2 * l - 1
        BY <1>1, <1>3, <3>3
      <3>6. s[2 * l] = e + l /\ s[2 * l - 1] = e + l
        BY <1>4, <1>5, <3>5
      <3>7. Ends(l - 1)
        BY <3>3, <3>4, <3>5, <3>6
      <3> QED
        BY <3>5, <3>7
    <2> QED
      BY <2>1, <2>2
  <1>7. PICK m : m = Good(c, s)
    OBVIOUS
  <1>8. m \in 0..Whole(s) /\ Ends(m)
    BY <1>6, <1>7 DEF Good
  <1>9. m \in Nat /\ 2 * m <= Len(s)
    BY <1>3, <1>8
  <1>10. ASSUME NEW n \in 1..Len(cmds[c]) PROVE Cmd(c, n).op \in Commands \/ Cmd(c, n) = Bad
    <2>1. Cmd(c, n) \in Menu[c][n] /\ Len(cmds[c]) <= Len(Menu[c])
      BY <1>1 DEF ClientInv, Cmd
    <2>2. n \in 1..Len(Menu[c])
      BY <1>1, <1>2, <2>1, MenuShape
    <2> QED
      BY <1>1, <2>1, <2>2, MenuShape
  <1>11. ASSUME NEW j \in 1..m
         PROVE  /\ s[2 * j] = e + j /\ e + j \in 1..Len(cmds[c])
                /\ Cmd(c, s[2 * j]).op \in Commands
    <2>1. j \in Nat \ {0} /\ 2 * j <= Len(s) /\ e + j \in 1..Len(cmds[c])
      BY <1>1, <1>2, <1>9
    <2>2. s[2 * j] = e + j
      BY <1>4, <2>1
    <2>3. Cmd(c, s[2 * j]) # Bad
      BY <1>8
    <2> QED
      BY <1>10, <2>1, <2>2, <2>3
  <1>12. ASSUME Refused(c, s)
         PROVE  /\ 2 * m < Len(s) /\ s[2 * m + 1] = e + m + 1
                /\ e + m + 1 \in 1..Len(cmds[c]) /\ Cmd(c, e + m + 1) = Bad
    <2>1. 2 * m < Len(s) /\ Cmd(c, s[2 * m + 1]) = Bad
      BY <1>7, <1>12 DEF Refused
    <2>2. m + 1 \in Nat \ {0} /\ 2 * (m + 1) - 1 <= Len(s) /\ 2 * (m + 1) - 1 = 2 * m + 1
      BY <1>1, <1>9, <2>1
    <2>3. s[2 * m + 1] = e + (m + 1)
      BY <1>5, <2>2
    <2>4. e + (m + 1) = e + m + 1 /\ e + m + 1 \in 1..Len(cmds[c])
      BY <1>1, <1>2, <1>9, <2>1
    <2> QED
      BY <2>1, <2>3, <2>4
  <1>13. Split(c, s, e, m)
    BY <1>9, <1>11, <1>12 DEF Split
  <1> QED
    BY <1>7, <1>13

\* What a receive does for node a of client c: m commands are executed, and
\* new are the send operations that they and perhaps a refusal leave.
Handled(a, c, s, e, k, m, new) ==
    /\ Taken(a, c, s, e, k) /\ Split(c, s, e, m)
    /\ m_send' = m_send \o new /\ m_recv' = Append(m_recv, a)
    /\ IsSeq(new) /\ Len(new) \in {m, m + 1}
    /\ \A j \in 1..m : new[j].addr = a /\ new[j].n = e + j /\ new[j].res # Invalid
    /\ Len(new) = m + 1 => new[m + 1].addr = a /\ new[m + 1].res = Invalid /\ ~Clean(c)
    /\ handler' = [handler EXCEPT ![a].m_stream = SubSeq(s, 2 * m + 1, Len(s))]
    /\ to_server' = [to_server EXCEPT ![c] = SubSeq(@, k + 1, Len(@))]

\* What the commands answer, and the database after them.
Ran(a, c, s, m, new) ==
    \E f : /\ IsTurn(f, a, c, s, m) /\ db' = f[m].db
           /\ new = IF Refused(c, s) THEN Append(f[m].ops, SendOp(a, s[2 * m + 1], Invalid))
                    ELSE f[m].ops

LEMMA ReceivedIs ==
    ASSUME BaseInv, NEW a \in Live, Received(a)
    PROVE  \E s, e, k, m, new : Handled(a, Fd(a), s, e, k, m, new) /\ Ran(a, Fd(a), s, m, new)
  <1>1. ClientInv /\ ListInv /\ StreamInv /\ TurnInv
    BY DEF BaseInv
  <1>2. PICK c : c = Fd(a)
    OBVIOUS
  <1>3. PICK k : k = IF Len(to_server[c]) < RecvMax THEN Len(to_server[c]) ELSE RecvMax
    OBVIOUS
  <1>4. PICK s : s = handler[a].m_stream \o SubSeq(to_server[c], 1, k)
    OBVIOUS
  <1>5. Brought(a, s, k)
    <2>1. Len(to_server[c]) \in Nat
      BY <1>1, <1>2, LiveNode, ClientShape
    <2>2. k \in 0..Len(to_server[c])
      BY <1>3, <2>1, BoundAssumption
    <2> QED
      BY <1>2, <1>4, <2>2 DEF Brought
  <1>6. PICK m : m = Good(c, s)
    OBVIOUS
  <1>7. PICK h : h = Handle(a, c, s, m)
    OBVIOUS
  <1>8. PICK last : last = IF Refused(c, s) THEN <<SendOp(a, s[2 * m + 1], Invalid)>> ELSE <<>>
    OBVIOUS
  <1>9. /\ to_server' = [to_server EXCEPT ![c] = SubSeq(@, k + 1, Len(@))]
        /\ handler' = [handler EXCEPT ![a].m_stream = SubSeq(s, 2 * m + 1, Len(s))]
        /\ m_send' = m_send \o h.ops \o last
        /\ m_recv' = m_recv \o <<a>>
    BY <1>2, <1>3, <1>4, <1>6, <1>7, <1>8 DEF Received, Consume, Rearm
  <1>10. PICK e : Taken(a, c, s, e, k)
    BY <1>1, <1>2, <1>5, TakenIs
  <1>11. Split(c, s, e, m)
    BY <1>1, <1>6, <1>10, GoodIs
  <1>12. PICK ops : ops = h.ops
    OBVIOUS
  <1>13. m \in Nat /\ Answering(ops, a, s, m)
    <2>1. m \in Nat /\ \A j \in 1..m : Cmd(c, s[2 * j]).op \in Commands
      BY <1>11 DEF Split
    <2> QED
      BY <1>7, <1>12, <2>1, HandleIs
  <1>14. /\ IsSeq(ops) /\ Len(ops) = m
         /\ \A j \in 1..m : ops[j].addr = a /\ ops[j].n = e + j /\ ops[j].res # Invalid
    BY <1>11, <1>13 DEF Answering, Split
  <1>15. IsSeq(last) /\ Len(last) \in {0, 1}
    BY <1>8, EmptyShape, OneSeq
  <1>16. Len(last) = 1 => last[1].addr = a /\ last[1].res = Invalid /\ ~Clean(c)
    <2> SUFFICES ASSUME Len(last) = 1
                 PROVE  last[1].addr = a /\ last[1].res = Invalid /\ ~Clean(c)
      OBVIOUS
    <2>1. Refused(c, s)
      BY <1>8, EmptyShape
    <2>2. PICK op : op = SendOp(a, s[2 * m + 1], Invalid)
      OBVIOUS
    <2>3. last[1] = op
      BY <1>8, <2>1, <2>2, OneSeq
    <2>4. e + m + 1 \in 1..Len(cmds[c]) /\ Cmd(c, e + m + 1) = Bad
      BY <1>11, <2>1 DEF Split
    <2>5. ~Clean(c)
      BY <2>4 DEF Clean, Cmd
    <2> QED
      BY <2>2, <2>3, <2>5 DEF SendOp
  <1>17. PICK new : new = ops \o last
    OBVIOUS
  <1>18. Joined(new, ops, last)
    BY <1>14, <1>15, <1>17, ConcatIs
  <1>19. IsSeq(new) /\ Len(new) = m + Len(last)
    BY <1>14, <1>18 DEF Joined
  <1>20. \A j \in 1..m : new[j] = ops[j]
    BY <1>14, <1>18 DEF Joined
  <1>21. Len(last) = 1 => new[m + 1] = last[1]
    BY <1>14, <1>18 DEF Joined
  <1>22. Len(new) \in {m, m + 1} /\ (Len(new) = m + 1 => Len(last) = 1)
    <2>1. PICK l, n : l = Len(last) /\ n = Len(new)
      OBVIOUS
    <2>2. m \in Nat /\ l \in {0, 1} /\ n = m + l
      BY <1>13, <1>15, <1>19, <2>1
    <2>3. n \in {m, m + 1} /\ (n = m + 1 => l = 1)
      BY <2>2
    <2> QED
      BY <2>1, <2>3
  <1>23. m_send' = m_send \o new
    <2>1. IsSeq(m_send)
      BY <1>1 DEF TurnInv
    <2>2. (m_send \o ops) \o last = m_send \o (ops \o last)
      BY <1>14, <1>15, <2>1, ConcatTwice
    <2>3. m_send' = m_send \o ops \o last
      BY <1>9, <1>12
    <2> QED
      BY <1>17, <2>2, <2>3, Zenon
  <1>24. m_recv' = Append(m_recv, a)
    <2>1. IsSeq(m_recv)
      BY <1>1, SeqIsSeq DEF TurnInv
    <2> QED
      BY <1>9, <2>1, AppendSeq
  <1>25. Len(new) = m + 1 => new[m + 1].addr = a /\ new[m + 1].res = Invalid /\ ~Clean(c)
    BY <1>16, <1>21, <1>22
  <1>26. \A j \in 1..m : new[j].addr = a /\ new[j].n = e + j /\ new[j].res # Invalid
    BY <1>14, <1>20
  <1>27. Handled(a, c, s, e, k, m, new)
    BY <1>9, <1>10, <1>11, <1>19, <1>22, <1>23, <1>24, <1>25, <1>26 DEF Handled
  <1>28. Ran(a, c, s, m, new)
    <2>1. PICK f : IsTurn(f, a, c, s, m) /\ Handle(a, c, s, m) = f[m]
      BY <1>13, HandleSolves
    <2>2. db' = f[m].db /\ ops = f[m].ops
      <3>1. db' = Handle(a, Fd(a), s, m).db
        BY <1>2, <1>3, <1>4, <1>6 DEF Received
      <3> QED
        BY <1>2, <1>7, <1>12, <2>1, <3>1
    <2>3. new = IF Refused(c, s) THEN Append(ops, SendOp(a, s[2 * m + 1], Invalid)) ELSE ops
      <3>1. CASE Refused(c, s)
        <4>1. PICK op : op = SendOp(a, s[2 * m + 1], Invalid)
          OBVIOUS
        <4>2. Append(ops, op) = ops \o <<op>>
          BY <1>14, AppendSeq
        <4>3. last = <<op>>
          BY <1>8, <3>1, <4>1
        <4> QED
          BY <1>17, <3>1, <4>1, <4>2, <4>3
      <3>2. CASE ~Refused(c, s)
        <4>1. ops \o <<>> = ops
          BY <1>14, ConcatEmpty
        <4>2. last = <<>>
          BY <1>8, <3>2
        <4> QED
          BY <1>17, <3>2, <4>1, <4>2
      <3> QED
        BY <3>1, <3>2
    <2> HIDE DEF Refused
    <2>4. new = IF Refused(c, s) THEN Append(f[m].ops, SendOp(a, s[2 * m + 1], Invalid))
                ELSE f[m].ops
      BY <2>2, <2>3
    <2> QED
      BY <2>1, <2>2, <2>4 DEF Ran
  <1> QED
    BY <1>2, <1>27, <1>28

\* What a receive leaves of the stream and of the network.
Moves(a, c, s, e, k, m) ==
    /\ c = Fd(a) /\ c \in Client /\ m \in Nat
    /\ Taken(a, c, s, e, k) /\ Split(c, s, e, m)
    /\ Part(handler'[a].m_stream, s, 2 * m + 1, Len(s))
    /\ handler' = [b \in Addr |-> handler'[b]]
    /\ handler'[a].fd = handler[a].fd /\ handler'[a].m_closed = handler[a].m_closed
    /\ handler'[a] = [handler[a] EXCEPT !.m_stream = SubSeq(s, 2 * m + 1, Len(s))]
    /\ \A b \in Addr : b # a => handler'[b] = handler[b]
    /\ Part(to_server'[c], to_server[c], k + 1, Len(to_server[c]))
    /\ DOMAIN to_server' = Client
    /\ \A d \in Client : d # c => to_server'[d] = to_server[d]

LEMMA HandledMoves ==
    ASSUME ClientInv, ListInv, StreamInv, NEW a \in Live,
           NEW c, NEW s, NEW e, NEW k, NEW m, NEW new, Handled(a, c, s, e, k, m, new)
    PROVE  Moves(a, c, s, e, k, m)
  <1>1. /\ Taken(a, c, s, e, k) /\ Split(c, s, e, m) /\ m \in Nat
        /\ handler' = [handler EXCEPT ![a].m_stream = SubSeq(s, 2 * m + 1, Len(s))]
        /\ to_server' = [to_server EXCEPT ![c] = SubSeq(@, k + 1, Len(@))]
    BY DEF Handled, Split
  <1>2. c = Fd(a) /\ c \in Client /\ IsSeq(s) /\ Len(s) \in Nat /\ k \in 0..Len(to_server[c])
    BY <1>1 DEF Taken
  <1>3. 2 * m <= Len(s)
    BY <1>1 DEF Split
  <1>4. a \in Addr /\ handler \in [Addr -> Node] /\ handler[a] \in Node
    BY LiveNode DEF ListInv
  <1>5. PICK r : r = SubSeq(s, 2 * m + 1, Len(s))
    OBVIOUS
  <1>6. handler' = [handler EXCEPT ![a] = [handler[a] EXCEPT !.m_stream = r]]
    BY <1>1, <1>5
  <1>7. /\ handler'[a] = [handler[a] EXCEPT !.m_stream = r]
        /\ \A b \in Addr : b # a => handler'[b] = handler[b]
        /\ handler' = [b \in Addr |-> handler'[b]]
    BY <1>4, <1>6
  <1>8. /\ handler'[a].m_stream = r
        /\ handler'[a].fd = handler[a].fd /\ handler'[a].m_closed = handler[a].m_closed
    BY <1>4, <1>7 DEF Node
  <1>9. Part(r, s, 2 * m + 1, Len(s))
    <2>1. PICK i, n : i = 2 * m + 1 /\ n = Len(s)
      OBVIOUS
    <2>2. i \in 1..(Len(s) + 1) /\ n \in (i - 1)..Len(s)
      BY <1>1, <1>2, <1>3, <2>1
    <2>3. r = SubSeq(s, i, n)
      BY <1>5, <2>1
    <2>4. Part(r, s, i, n)
      BY <1>2, <2>2, <2>3, SubSeqIs
    <2> QED
      BY <2>1, <2>4
  <1>10. IsSeq(to_server[c]) /\ Len(to_server[c]) \in Nat /\ DOMAIN to_server = Client
    BY <1>2, ClientShape DEF ClientInv
  <1>11. /\ DOMAIN to_server' = Client /\ \A d \in Client : d # c => to_server'[d] = to_server[d]
         /\ to_server'[c] = SubSeq(to_server[c], k + 1, Len(to_server[c]))
    BY <1>1, <1>2, <1>10
  <1>12. Part(to_server'[c], to_server[c], k + 1, Len(to_server[c]))
    <2>1. PICK i, n, t, q : /\ i = k + 1 /\ n = Len(to_server[c])
                            /\ t = to_server[c] /\ q = to_server'[c]
      OBVIOUS
    <2>2. IsSeq(t) /\ i \in 1..(Len(t) + 1) /\ n \in (i - 1)..Len(t)
      BY <1>2, <1>10, <2>1
    <2>3. q = SubSeq(t, i, n)
      BY <1>11, <2>1
    <2>4. Part(q, t, i, n)
      BY <2>2, <2>3, SubSeqIs
    <2> QED
      BY <2>1, <2>4
  <1> QED
    BY <1>1, <1>2, <1>5, <1>7, <1>8, <1>9, <1>11, <1>12 DEF Moves

\* A node that changes but keeps its socket.
LEMMA ListMoves ==
    ASSUME ListInv, NEW a \in Live, UNCHANGED <<conn, backlog, m_clients, fds>>,
           handler' = [b \in Addr |-> handler'[b]], handler'[a] \in Node,
           handler'[a].fd = handler[a].fd, \A b \in Addr : b # a => handler'[b] = handler[b]
    PROVE  ListInv' /\ Live' = Live /\ Waiting' = Waiting /\ \A b \in Addr : Fd(b)' = Fd(b)
  <1>1. Live' = Live /\ Waiting' = Waiting
    BY DEF Live, Waiting
  <1>2. \A b \in Addr : Fd(b)' = Fd(b)
    BY DEF Fd
  <1>3. \A b \in Live : b \in Addr
    BY LiveNode
  <1>4. handler' \in [Addr -> Node] /\ \A b \in Addr \ Live' : handler'[b] = NoHandler
    <2>1. handler \in [Addr -> Node] /\ \A b \in Addr \ Live : handler[b] = NoHandler
      BY DEF ListInv
    <2>2. \A b \in Addr : handler'[b] \in Node
      BY <2>1
    <2> QED
      BY <1>1, <2>1, <2>2
  <1>5. \A b \in Live' : Fd(b)' \in Client /\ conn'[Fd(b)'] # "out" /\ Fd(b)' \notin Waiting'
    BY <1>1, <1>2, <1>3 DEF ListInv
  <1>6. \A b1, b2 \in Live' : Fd(b1)' = Fd(b2)' => b1 = b2
    BY <1>1, <1>2, <1>3 DEF ListInv
  <1>7. ListInv'
    BY <1>1, <1>4, <1>5, <1>6 DEF ListInv
  <1> QED
    BY <1>1, <1>2, <1>7

\* The receive that RecvStep serves.
LEMMA RecvServed ==
    ASSUME ListInv, TurnInv, RecvStep
    PROVE  LET j == First(ReadyRecvs) IN
           /\ j \in 1..Len(recv_copy) /\ recv_copy[j] \in Live
           /\ Fd(recv_copy[j]) \in rfds /\ Readable(Fd(recv_copy[j]))
           /\ to_server[Fd(recv_copy[j])] = <<>> => Close(recv_copy[j])
           /\ to_server[Fd(recv_copy[j])] # <<>> => Received(recv_copy[j])
           /\ recv_copy' = RemoveAt(recv_copy, j)
           /\ UNCHANGED <<conn, cmds, sent, got, to_client, backlog, m_clients, fds,
                          pc, m_accept, send_copy, accept_copy, rfds, wfds, accept_ready>>
  <1>1. ReadyRecvs # {}
    BY DEF RecvStep
  <1>2. ReadyRecvs \subseteq Nat
    <2>1. Len(recv_copy) \in Nat
      BY LenProperties DEF TurnInv
    <2> QED
      BY <2>1 DEF ReadyRecvs
  <1>3. First(ReadyRecvs) \in ReadyRecvs
    BY <1>1, <1>2, FirstOf
  <1>4. First(ReadyRecvs) \in 1..Len(recv_copy) /\ Fd(recv_copy[First(ReadyRecvs)]) \in rfds
    BY <1>3 DEF ReadyRecvs
  <1>5. recv_copy[First(ReadyRecvs)] \in Live
    BY <1>4 DEF TurnInv
  <1> QED
    BY <1>4, <1>5 DEF RecvStep, client_vars, reported

\* The loop after a receive.
LEMMA RecvTurn ==
    ASSUME TurnInv, NEW j \in 1..Len(recv_copy), recv_copy' = RemoveAt(recv_copy, j),
           m_recv' \in Seq(Addr), IsSeq(m_send'),
           UNCHANGED <<backlog, m_clients, pc, m_accept, send_copy, accept_copy,
                       rfds, wfds, accept_ready>>
    PROVE  TurnInv'
  <1>1. recv_copy \in Seq(Addr)
    BY DEF TurnInv
  <1>2. recv_copy' \in Seq(Addr)
    BY <1>1, RemoveAtProperties
  <1>3. Without(recv_copy', recv_copy, j)
    BY <1>1, SeqIsSeq, RemoveIs
  <1>4. Range(recv_copy') \subseteq Range(recv_copy) /\ IsSeq(recv_copy') /\ IsSeq(recv_copy)
    BY <1>1, <1>3, SeqIsSeq DEF Without
  <1>5. pc = "dispatch"
    <2>1. recv_copy # <<>>
      BY EmptyShape
    <2> QED
      BY <2>1 DEF TurnInv
  <1>6. rfds \cup wfds # {} => \A l \in 1..Len(recv_copy') : recv_copy'[l] \in Live
    <2> SUFFICES ASSUME rfds \cup wfds # {}, NEW l \in 1..Len(recv_copy')
                 PROVE  recv_copy'[l] \in Live
      OBVIOUS
    <2>1. recv_copy'[l] \in Range(recv_copy)
      BY <1>4, SeqShape
    <2>2. PICK i \in 1..Len(recv_copy) : recv_copy'[l] = recv_copy[i]
      BY <1>4, <2>1, SeqShape
    <2> QED
      BY <2>2 DEF TurnInv
  <1>7. Live' = Live
    BY DEF Live
  <1> QED
    BY <1>2, <1>5, <1>6, <1>7 DEF TurnInv

LEMMA CloseBase == BaseInv /\ RecvStep /\ Close(recv_copy[First(ReadyRecvs)]) => BaseInv'
  <1> SUFFICES ASSUME BaseInv, RecvStep, Close(recv_copy[First(ReadyRecvs)]) PROVE BaseInv'
    OBVIOUS
  <1>1. ClientInv /\ ListInv /\ StreamInv /\ TurnInv
    BY DEF BaseInv
  <1>2. PICK j, a : j = First(ReadyRecvs) /\ a = recv_copy[j]
    OBVIOUS
  <1>3. /\ j \in 1..Len(recv_copy) /\ a \in Live /\ recv_copy' = RemoveAt(recv_copy, j)
        /\ UNCHANGED <<conn, cmds, sent, got, to_client, backlog, m_clients, fds,
                       pc, m_accept, send_copy, accept_copy, rfds, wfds, accept_ready>>
    BY <1>1, <1>2, RecvServed
  <1>4. /\ handler' = [handler EXCEPT ![a].m_closed = TRUE]
        /\ UNCHANGED <<to_server, db, m_recv, m_send>>
    BY <1>2 DEF Close
  <1>5. a \in Addr /\ handler[a] \in Node /\ handler \in [Addr -> Node]
    BY <1>1, <1>3, LiveNode DEF ListInv
  <1>6. /\ handler' = [b \in Addr |-> handler'[b]] /\ handler'[a] \in Node
        /\ handler'[a].fd = handler[a].fd /\ handler'[a].m_stream = handler[a].m_stream
        /\ \A b \in Addr : b # a => handler'[b] = handler[b]
    BY <1>4, <1>5 DEF Node
  <1>7. ListInv' /\ Live' = Live /\ Waiting' = Waiting /\ \A b \in Addr : Fd(b)' = Fd(b)
    BY <1>1, <1>3, <1>6, ListMoves
  <1>8. ClientInv'
    BY <1>1, <1>3, <1>4 DEF ClientInv, UnitAt
  <1>9. StreamInv'
    <2>1. \A b \in Live : b \in Addr /\ handler'[b].m_stream = handler[b].m_stream
      BY <1>1, <1>6, LiveNode
    <2>2. \A b \in Live : Base(b)' = Base(b)
      BY <1>3, <1>4, <1>7, <2>1 DEF Base
    <2> QED
      BY <1>1, <1>3, <1>4, <1>7, <2>1, <2>2 DEF StreamInv
  <1>10. TurnInv'
    <2>1. m_recv' \in Seq(Addr) /\ IsSeq(m_send')
      BY <1>1, <1>4 DEF TurnInv
    <2> QED
      BY <1>1, <1>3, <2>1, RecvTurn
  <1> QED
    BY <1>7, <1>8, <1>9, <1>10 DEF BaseInv

\* The stream goes on where the commands that were executed end.
LEMMA HandledBase ==
    ASSUME ClientInv, ListInv, StreamInv, NEW a \in Live, UNCHANGED <<sent, m_clients>>,
           NEW c, NEW s, NEW e, NEW k, NEW m, NEW new, Handled(a, c, s, e, k, m, new)
    PROVE  /\ Base(a)' = 2 * (e + m) /\ Base(a) = 2 * e /\ e \in Nat /\ m \in Nat
           /\ handler'[a].m_stream \in Seq(Nat)
           /\ \A i \in 1..Len(handler'[a].m_stream) :
                handler'[a].m_stream[i] = UnitAt(2 * (e + m) + i)
           /\ IsSeq(to_server'[c]) /\ Len(to_server'[c]) <= sent[c]
           /\ \A i \in 1..Len(to_server'[c]) :
                to_server'[c][i] = UnitAt(sent[c] - Len(to_server'[c]) + i)
           /\ \A b \in Live : b # a => Base(b)' = Base(b)
  <1>1. /\ c = Fd(a) /\ c \in Client /\ m \in Nat
        /\ Taken(a, c, s, e, k) /\ Split(c, s, e, m)
        /\ Part(handler'[a].m_stream, s, 2 * m + 1, Len(s))
        /\ handler'[a].fd = handler[a].fd
        /\ \A b \in Addr : b # a => handler'[b] = handler[b]
        /\ Part(to_server'[c], to_server[c], k + 1, Len(to_server[c]))
        /\ \A d \in Client : d # c => to_server'[d] = to_server[d]
    <2>1. Moves(a, c, s, e, k, m)
      BY HandledMoves
    <2> QED
      BY <2>1 DEF Moves
  <1>2. PICK r, t, q : r = handler'[a].m_stream /\ t = to_server[c] /\ q = to_server'[c]
    OBVIOUS
  <1>3. /\ IsSeq(s) /\ IsSeq(t) /\ IsSeq(r) /\ IsSeq(q)
        /\ Len(r) = Len(s) - (2 * m + 1) + 1 /\ Len(q) = Len(t) - (k + 1) + 1
        /\ \A i \in 1..(Len(s) - (2 * m + 1) + 1) : r[i] = s[2 * m + 1 + i - 1]
        /\ \A i \in 1..(Len(t) - (k + 1) + 1) : q[i] = t[k + 1 + i - 1]
    BY <1>1, <1>2, ClientShape DEF Part, Taken
  <1>4. /\ e \in Nat /\ Base(a) = 2 * e /\ Len(s) \in Nat /\ k \in 0..Len(t)
        /\ 2 * e + Len(s) = sent[c] - (Len(t) - k)
        /\ \A j \in 1..Len(s) : s[j] = e + UnitAt(j)
    BY <1>1, <1>2 DEF Taken
  <1>5. PICK ls, lr, lt, lq, v : /\ ls = Len(s) /\ lr = Len(r) /\ lt = Len(t) /\ lq = Len(q)
                                 /\ v = sent[c]
    OBVIOUS
  <1>6. /\ ls \in Nat /\ lt \in Nat /\ v \in Nat /\ lt <= v /\ 2 * m <= ls
        /\ e \in Nat /\ m \in Nat /\ k \in 0..lt
    BY <1>1, <1>2, <1>4, <1>5, ClientShape DEF Split
  <1>7. lr = ls - 2 * m /\ lq = lt - k /\ 2 * e + ls = v - lq /\ lr \in Nat /\ lq \in Nat
    BY <1>3, <1>4, <1>5, <1>6
  <1>8. Base(a)' = 2 * (e + m)
    <2>1. Fd(a)' = c
      BY <1>1 DEF Fd
    <2>2. Base(a)' = v - lq - lr
      BY <1>2, <1>5, <2>1 DEF Base
    <2> QED
      BY <1>6, <1>7, <2>2
  <1>9. \A i \in 1..lr : r[i] = UnitAt(2 * (e + m) + i)
    <2> SUFFICES ASSUME NEW i \in 1..lr PROVE r[i] = UnitAt(2 * (e + m) + i)
      OBVIOUS
    <2>1. r[i] = s[2 * m + i]
      <3>1. i \in 1..(ls - (2 * m + 1) + 1) /\ 2 * m + 1 + i - 1 = 2 * m + i
        BY <1>6, <1>7
      <3> QED
        BY <1>3, <1>5, <3>1
    <2>2. 2 * m + i \in 1..ls /\ i \in Nat
      BY <1>6, <1>7
    <2>3. s[2 * m + i] = e + UnitAt(2 * m + i)
      BY <1>4, <1>5, <2>2
    <2>4. UnitAt(2 * m + i) = m + UnitAt(i) /\ UnitAt(i) \in Nat
      BY <1>6, <2>2, Units
    <2>5. UnitAt(2 * (e + m) + i) = (e + m) + UnitAt(i)
      BY <1>6, <2>2, Units
    <2> QED
      BY <1>6, <2>1, <2>3, <2>4, <2>5
  <1>10. \A i \in 1..lq : q[i] = UnitAt(v - lq + i)
    <2> SUFFICES ASSUME NEW i \in 1..lq PROVE q[i] = UnitAt(v - lq + i)
      OBVIOUS
    <2>1. q[i] = t[k + i] /\ k + i \in 1..lt
      <3>1. i \in 1..(lt - (k + 1) + 1) /\ k + 1 + i - 1 = k + i
        BY <1>6, <1>7
      <3> QED
        BY <1>3, <1>5, <1>6, <1>7, <3>1
    <2>2. t[k + i] = UnitAt(v - lt + (k + i))
      BY <1>1, <1>2, <1>5, <2>1 DEF ClientInv
    <2>3. v - lt + (k + i) = v - lq + i
      BY <1>6, <1>7
    <2> QED
      BY <2>1, <2>2, <2>3
  <1>11. r \in Seq(Nat)
    <2>1. \A i \in 1..Len(r) : r[i] \in Nat
      <3> SUFFICES ASSUME NEW i \in 1..lr PROVE r[i] \in Nat
        BY <1>5
      <3>1. 2 * (e + m) + i \in Nat
        BY <1>6, <1>7
      <3> QED
        BY <1>9, <3>1, Units
    <2> QED
      BY <1>3, <2>1, SeqOver
  <1>12. lq <= v
    BY <1>6, <1>7
  <1>13. \A b \in Live : b # a => Base(b)' = Base(b)
    <2> SUFFICES ASSUME NEW b \in Live, b # a PROVE Base(b)' = Base(b)
      OBVIOUS
    <2>1. b \in Addr /\ Fd(b) \in Client /\ Fd(b) # c
      BY <1>1, LiveNode DEF ListInv
    <2>2. handler'[b] = handler[b] /\ to_server'[Fd(b)] = to_server[Fd(b)]
      BY <1>1, <2>1
    <2> QED
      BY <2>2 DEF Base, Fd
  <1> QED
    BY <1>2, <1>3, <1>4, <1>5, <1>6, <1>8, <1>9, <1>10, <1>11, <1>12, <1>13

LEMMA ReceivedBase ==
    ASSUME BaseInv, RecvStep, Received(recv_copy[First(ReadyRecvs)])
    PROVE  BaseInv'
  <1>1. ClientInv /\ ListInv /\ StreamInv /\ TurnInv
    BY DEF BaseInv
  <1>2. PICK j, a : j = First(ReadyRecvs) /\ a = recv_copy[j]
    OBVIOUS
  <1>3. /\ j \in 1..Len(recv_copy) /\ a \in Live /\ recv_copy' = RemoveAt(recv_copy, j)
        /\ UNCHANGED <<conn, cmds, sent, got, to_client, backlog, m_clients, fds,
                       pc, m_accept, send_copy, accept_copy, rfds, wfds, accept_ready>>
    BY <1>1, <1>2, RecvServed
  <1>4. PICK c, s, e, k, m, new : c = Fd(a) /\ Handled(a, c, s, e, k, m, new)
    BY <1>2, <1>3, ReceivedIs
  <1>5. Moves(a, c, s, e, k, m)
    BY <1>1, <1>3, <1>4, HandledMoves
  <1>6. /\ Base(a)' = 2 * (e + m) /\ e \in Nat /\ m \in Nat
        /\ handler'[a].m_stream \in Seq(Nat)
        /\ \A i \in 1..Len(handler'[a].m_stream) :
             handler'[a].m_stream[i] = UnitAt(2 * (e + m) + i)
        /\ IsSeq(to_server'[c]) /\ Len(to_server'[c]) <= sent[c]
        /\ \A i \in 1..Len(to_server'[c]) :
             to_server'[c][i] = UnitAt(sent[c] - Len(to_server'[c]) + i)
        /\ \A b \in Live : b # a => Base(b)' = Base(b)
    BY <1>1, <1>3, <1>4, HandledBase
  <1>7. /\ c \in Client /\ handler' = [b \in Addr |-> handler'[b]]
        /\ handler'[a].fd = handler[a].fd /\ handler'[a].m_closed = handler[a].m_closed
        /\ \A b \in Addr : b # a => handler'[b] = handler[b]
        /\ DOMAIN to_server' = Client
        /\ \A d \in Client : d # c => to_server'[d] = to_server[d]
    BY <1>5 DEF Moves
  <1>8. handler'[a] \in Node
    <2>1. handler[a] \in Node
      BY <1>1, <1>3, LiveNode
    <2>2. PICK r : handler'[a] = [handler[a] EXCEPT !.m_stream = r]
      BY <1>5 DEF Moves
    <2>3. r \in Seq(Nat)
      BY <1>6, <2>1, <2>2 DEF Node
    <2> QED
      BY <2>1, <2>2, <2>3 DEF Node
  <1>9. ListInv' /\ Live' = Live /\ Waiting' = Waiting /\ \A b \in Addr : Fd(b)' = Fd(b)
    BY <1>1, <1>3, <1>7, <1>8, ListMoves
  <1>10. ClientInv'
    <2>1. \A d \in Client :
            /\ IsSeq(to_server'[d]) /\ Len(to_server'[d]) <= sent'[d]
            /\ \A i \in 1..Len(to_server'[d]) :
                 to_server'[d][i] = UnitAt(sent'[d] - Len(to_server'[d]) + i)
      <3> SUFFICES ASSUME NEW d \in Client
                   PROVE  /\ IsSeq(to_server'[d]) /\ Len(to_server'[d]) <= sent'[d]
                          /\ \A i \in 1..Len(to_server'[d]) :
                               to_server'[d][i] = UnitAt(sent'[d] - Len(to_server'[d]) + i)
        OBVIOUS
      <3>1. CASE d = c
        BY <1>3, <1>6, <3>1
      <3>2. CASE d # c
        BY <1>1, <1>3, <1>7, <3>2 DEF ClientInv
      <3> QED
        BY <3>1, <3>2
    <2> QED
      BY <1>1, <1>3, <1>7, <2>1 DEF ClientInv, UnitAt
  <1>11. StreamInv'
    <2>1. ASSUME NEW b \in Live
          PROVE  /\ Base(b)' \in Nat /\ Base(b)' = 2 * (Base(b)' \div 2)
                 /\ \A i \in 1..Len(handler'[b].m_stream) :
                      handler'[b].m_stream[i] = UnitAt(Base(b)' + i)
      <3>1. CASE b = a
        <4>1. PICK n : n = e + m
          OBVIOUS
        <4>2. n \in Nat /\ Base(b)' = 2 * n
          BY <1>6, <3>1, <4>1
        <4>3. Base(b)' \in Nat /\ Base(b)' = 2 * (Base(b)' \div 2)
          BY <4>2
        <4> QED
          BY <1>6, <3>1, <4>1, <4>2, <4>3
      <3>2. CASE b # a
        <4>1. b \in Addr
          BY <1>1, LiveNode
        <4>2. Base(b)' = Base(b) /\ handler'[b] = handler[b]
          BY <1>6, <1>7, <3>2, <4>1
        <4> QED
          BY <1>1, <4>2 DEF StreamInv
      <3> QED
        BY <3>1, <3>2
    <2>2. \A d \in Client : conn'[d] = "out" \/ d \in Waiting' => Len(to_server'[d]) = sent'[d]
      <3>1. conn[c] # "out" /\ c \notin Waiting
        BY <1>1, <1>3, <1>4 DEF ListInv
      <3> QED
        BY <1>1, <1>3, <1>7, <1>9, <3>1 DEF StreamInv
    <2> QED
      BY <1>9, <2>1, <2>2 DEF StreamInv, UnitAt
  <1>12. TurnInv'
    <2>1. m_recv' \in Seq(Addr)
      <3>1. m_recv \in Seq(Addr) /\ a \in Addr /\ m_recv' = Append(m_recv, a)
        BY <1>1, <1>3, <1>4, LiveNode DEF TurnInv, Handled
      <3> QED
        BY <3>1, AppendProperties
    <2>2. IsSeq(m_send')
      <3>1. IsSeq(m_send) /\ IsSeq(new) /\ m_send' = m_send \o new
        BY <1>1, <1>4 DEF TurnInv, Handled
      <3>2. Joined(m_send', m_send, new)
        BY <3>1, ConcatIs
      <3> QED
        BY <3>2 DEF Joined
    <2> QED
      BY <1>1, <1>3, <2>1, <2>2, RecvTurn
  <1> QED
    BY <1>9, <1>10, <1>11, <1>12 DEF BaseInv

LEMMA RecvStepBase == BaseInv /\ RecvStep => BaseInv'
  <1> SUFFICES ASSUME BaseInv, RecvStep PROVE BaseInv'
    OBVIOUS
  <1>1. Close(recv_copy[First(ReadyRecvs)]) \/ Received(recv_copy[First(ReadyRecvs)])
    BY RecvServed DEF BaseInv
  <1> QED
    BY <1>1, CloseBase, ReceivedBase

-----------------------------------------------------------------------------
(* What may always be, whether or not the clients are orderly. *)

LEMMA BaseStep == BaseInv /\ [Next]_vars => BaseInv'
  <1> SUFFICES ASSUME BaseInv, [Next]_vars PROVE BaseInv'
    OBVIOUS
  <1>1. CASE \E c \in Client : Connect(c)
    BY <1>1, ConnectBase
  <1>2. CASE \E c \in Client : Send(c)
    BY <1>2, SendBase
  <1>3. CASE \E c \in Client : Read(c)
    BY <1>3, ReadBase
  <1>4. CASE \E c \in Client : Leave(c)
    BY <1>4, LeaveBase
  <1>5. CASE Select
    BY <1>5, SelectBase
  <1>6. CASE RecvStep
    BY <1>6, RecvStepBase
  <1>7. CASE SendStep
    BY <1>7, SendStepBase
  <1>8. CASE AcceptStep
    BY <1>8, AcceptBase
  <1>9. CASE Merge
    BY <1>9, MergeBase
  <1>10. CASE UNCHANGED vars
    <2>1. UNCHANGED <<client_vars, network, server_vars>> /\ UNCHANGED loop_vars
      BY <1>10 DEF vars
    <2>2. ClientInv' /\ ListInv' /\ StreamInv'
      BY <2>1, WorldStays DEF BaseInv
    <2>3. UNCHANGED m_clients /\ UNCHANGED backlog
      BY <2>1 DEF server_vars, network
    <2>4. TurnInv'
      BY <2>1, <2>3, TurnStays DEF BaseInv
    <2> QED
      BY <2>2, <2>4 DEF BaseInv
  <1> QED
    BY <1>1, <1>2, <1>3, <1>4, <1>5, <1>6, <1>7, <1>8, <1>9, <1>10 DEF Next

\* Whatever the clients do: every unit on its way or in a stream is the one
\* that its place says, no two handlers share a socket, and no operation of a
\* freed node is looked up once select has reported.
THEOREM BaseInvariant == Spec => []BaseInv
  <1>1. Init => BaseInv
    BY InitBase
  <1>2. BaseInv /\ [Next]_vars => BaseInv'
    BY BaseStep
  <1> QED
    BY <1>1, <1>2, PTL DEF Spec

\* The sockets, whatever the clients do.  A handler is closed only when its
\* client has left, so that one that is moved over or freed loses nothing else.
OwnInv == FdsOwned /\ \A a \in Live : handler[a].m_closed => Gone(a)

\* What leaves the list and its sockets alone.
LEMMA OwnStays ==
    ASSUME ListInv, OwnInv, UNCHANGED <<m_clients, fds>>,
           \A a \in Live : handler'[a].fd = handler[a].fd,
           \A a \in Live : handler'[a].m_closed => handler[a].m_closed \/ Gone(a),
           \A c \in Client : conn[c] = "left" => conn'[c] = "left"
    PROVE  OwnInv'
  <1>1. Live' = Live
    BY DEF Live
  <1>2. \A a \in Live : Fd(a)' = Fd(a) /\ Fd(a) \in Client
    BY DEF Fd, ListInv
  <1>3. fds \subseteq Client
    BY DEF ListInv
  <1>4. FdsOwned'
    BY <1>1, <1>2, <1>3 DEF OwnInv, FdsOwned
  <1>5. \A a \in Live' : handler'[a].m_closed => Gone(a)'
    BY <1>1, <1>2 DEF OwnInv, Gone
  <1> QED
    BY <1>4, <1>5 DEF OwnInv

\* Only the socket of a handler that is not kept is closed.
LEMMA KeptStayOpen ==
    ASSUME ListInv, NEW j \in Kept
    PROVE  Fd(m_clients[j]) \notin ClosedFds
  <1>1. IsSeq(m_clients) /\ IsInjective(m_clients)
    BY SeqIsSeq DEF ListInv
  <1>2. \A i, l \in 1..Len(m_clients) : m_clients[i] = m_clients[l] => i = l
    BY <1>1, SeqShape DEF IsInjective
  <1>3. /\ Cardinality(Kept) \in 0..Len(m_clients) /\ Kept \subseteq 1..Len(m_clients)
        /\ Place(j) \in 1..Cardinality(Kept)
    BY <1>1, PlacesAreFirst
  <1>4. Len(m_clients) \in Nat
    BY <1>1, SeqShape
  <1>5. \A l \in 1..Len(m_clients) : m_clients[l] \in Live
    BY <1>1, SeqShape DEF Live
  <1> SUFFICES ASSUME NEW f \in Freed \ MovedFrom, Fd(f) = Fd(m_clients[j])
               PROVE  FALSE
    BY DEF ClosedFds
  <1>6. PICK l \in (Cardinality(Kept) + 1)..Len(m_clients) : f = m_clients[l]
    BY DEF Freed
  <1>7. l \in 1..Len(m_clients) /\ j \in 1..Len(m_clients)
    BY <1>3, <1>4
  <1>8. f = m_clients[j]
    BY <1>5, <1>6, <1>7 DEF ListInv
  <1>9. l = j
    BY <1>2, <1>6, <1>7, <1>8
  <1>10. Place(j) # j
    BY <1>3, <1>4, <1>9
  <1> QED
    BY <1>8, <1>10 DEF MovedFrom

LEMMA OwnAccept == BaseInv /\ OwnInv /\ AcceptStep => OwnInv'
  <1> SUFFICES ASSUME BaseInv, OwnInv, AcceptStep PROVE OwnInv'
    OBVIOUS
  <1>1. ListInv /\ TurnInv
    BY DEF BaseInv
  <1>2. PICK kept : /\ kept = SubSeq(m_clients, 1, Cardinality(Kept))
                    /\ \E a \in Addr : Accepted(kept, a)
    BY <1>1, AcceptIs
  <1>3. PICK a \in Addr : Accepted(kept, a)
    BY <1>2
  <1>4. PICK h : h = Head(backlog)
    OBVIOUS
  <1>5. fds' = (fds \ ClosedFds) \cup {h} /\ conn' = conn
    BY <1>4, AcceptFrame
  <1>6. /\ Live' = Range(kept) \cup {a} /\ Fd(a)' = h /\ ~handler'[a].m_closed
        /\ h \in Client
    BY <1>3, <1>4 DEF Accepted, Fd
  <1>7. ASSUME NEW b \in Range(kept)
        PROVE  \E j \in Kept : /\ handler'[b] = handler[m_clients[j]] /\ m_clients[j] \in Live
                               /\ ~handler'[b].m_closed
    BY <1>1, <1>3, MovedIs
  <1>8. \A b \in Live' : Fd(b)' \in fds'
    <2>1. ASSUME NEW b \in Range(kept) PROVE Fd(b)' \in fds'
      <3>1. PICK j \in Kept : handler'[b] = handler[m_clients[j]] /\ m_clients[j] \in Live
        BY <1>7
      <3>2. Fd(b)' = Fd(m_clients[j]) /\ Fd(m_clients[j]) \in fds
        BY <3>1 DEF Fd, OwnInv, FdsOwned
      <3>3. Fd(m_clients[j]) \notin ClosedFds
        BY <1>1, KeptStayOpen
      <3> QED
        BY <1>5, <3>2, <3>3
    <2> QED
      BY <1>5, <1>6, <2>1
  <1>9. ASSUME NEW c \in fds', conn'[c] # "left" PROVE \E b \in Live' : Fd(b)' = c
    <2>1. CASE c = h
      BY <1>6, <2>1
    <2>2. CASE c # h
      <3>1. c \in fds /\ conn[c] # "left"
        BY <1>5, <1>9, <2>2
      <3>2. PICK d \in Live : Fd(d) = c
        BY <3>1 DEF OwnInv, FdsOwned
      <3>3. ~handler[d].m_closed
        BY <3>1, <3>2 DEF OwnInv, Gone
      <3>4. IsSeq(m_clients)
        BY <1>1, SeqIsSeq DEF ListInv
      <3>5. PICK j \in 1..Len(m_clients) : m_clients[j] = d
        BY <3>4, SeqShape DEF Live
      <3>6. j \in Kept
        BY <3>3, <3>5 DEF Kept
      <3>7. /\ Place(j) \in 1..Cardinality(Kept)
            /\ \A i, l \in Kept : i # l => Place(i) # Place(l)
        BY <3>4, <3>6, PlacesAreFirst
      <3>8. IsSeq(kept) /\ Len(kept) = Cardinality(Kept)
        BY <1>3 DEF Accepted
      <3>9. PICK l \in Kept : Place(l) = Place(j) /\ handler'[kept[Place(j)]] = handler[m_clients[l]]
        BY <1>3, <3>7, <3>8 DEF Accepted
      <3>10. handler'[kept[Place(j)]] = handler[d]
        BY <3>5, <3>6, <3>7, <3>9
      <3>11. kept[Place(j)] \in Live'
        BY <1>6, <3>7, <3>8, SeqShape
      <3> QED
        BY <3>2, <3>10, <3>11 DEF Fd
    <2> QED
      BY <2>1, <2>2
  <1>10. \A b \in Live' : ~handler'[b].m_closed
    BY <1>6, <1>7
  <1>11. ListInv'
    BY AcceptBase DEF BaseInv
  <1>12. \A b, d \in Live' : Fd(b)' = Fd(d)' => b = d
    BY <1>11 DEF ListInv
  <1>13. FdsOwned'
    BY <1>8, <1>9, <1>12 DEF FdsOwned
  <1> QED
    BY <1>10, <1>13 DEF OwnInv

LEMMA OwnReceive == BaseInv /\ OwnInv /\ RecvStep => OwnInv'
  <1> SUFFICES ASSUME BaseInv, OwnInv, RecvStep PROVE OwnInv'
    OBVIOUS
  <1>1. ClientInv /\ ListInv /\ TurnInv
    BY DEF BaseInv
  <1>2. PICK a : a = recv_copy[First(ReadyRecvs)]
    OBVIOUS
  <1>3. /\ a \in Live /\ Readable(Fd(a)) /\ UNCHANGED <<conn, m_clients, fds>>
        /\ to_server[Fd(a)] = <<>> => Close(a)
        /\ to_server[Fd(a)] # <<>> => Received(a)
    BY <1>1, <1>2, RecvServed
  <1>4. a \in Addr /\ handler[a] \in Node /\ handler \in [Addr -> Node]
    BY <1>1, <1>3, LiveNode DEF ListInv
  <1>5. \A b \in Live : b \in Addr
    BY <1>1, LiveNode
  <1>6. CASE to_server[Fd(a)] = <<>>
    <2>1. handler' = [handler EXCEPT ![a].m_closed = TRUE] /\ Gone(a)
      BY <1>3, <1>6 DEF Close, Readable, Gone
    <2>2. \A b \in Live : /\ handler'[b].fd = handler[b].fd
                          /\ b # a => handler'[b].m_closed = handler[b].m_closed
      BY <1>4, <1>5, <2>1 DEF Node
    <2> QED
      BY <1>1, <1>3, <2>1, <2>2, OwnStays
  <1>7. CASE to_server[Fd(a)] # <<>>
    <2>1. PICK s : handler' = [handler EXCEPT ![a].m_stream = s]
      BY <1>3, <1>7 DEF Received
    <2>2. \A b \in Live : /\ handler'[b].fd = handler[b].fd
                          /\ handler'[b].m_closed = handler[b].m_closed
      BY <1>4, <1>5, <2>1 DEF Node
    <2> QED
      BY <1>1, <1>3, <2>2, OwnStays
  <1> QED
    BY <1>6, <1>7

\* Whatever the clients do, handlers own their sockets, each its own, and no
\* connection in use is closed or lost when remove_if moves handlers over one
\* another and the list frees nodes.
THEOREM Owned == Spec => []FdsOwned
  <1>1. Init => OwnInv
    <2> SUFFICES ASSUME Init PROVE OwnInv
      OBVIOUS
    <2>1. Live = {} /\ fds = {}
      BY EmptyShape DEF Init, Live
    <2> QED
      BY <2>1 DEF OwnInv, FdsOwned
  <1>2. BaseInv /\ OwnInv /\ [Next]_vars => OwnInv'
    <2> SUFFICES ASSUME BaseInv, OwnInv, [Next]_vars PROVE OwnInv'
      OBVIOUS
    <2>1. ListInv /\ ClientInv
      BY DEF BaseInv
    <2>2. CASE \E c \in Client : Connect(c)
      <3>1. PICK c \in Client : conn[c] = "out" /\ conn' = [conn EXCEPT ![c] = "in"]
        BY <2>2 DEF Connect
      <3>2. UNCHANGED <<m_clients, handler, fds>>
        BY <2>2 DEF Connect, server_vars
      <3>3. \A d \in Client : conn[d] = "left" => conn'[d] = "left"
        BY <2>1, <3>1 DEF ClientInv
      <3> QED
        BY <2>1, <3>2, <3>3, OwnStays
    <2>3. CASE \E c \in Client : Leave(c)
      <3>1. PICK c \in Client : conn' = [conn EXCEPT ![c] = "left"]
        BY <2>3 DEF Leave
      <3>2. UNCHANGED <<m_clients, handler, fds>>
        BY <2>3 DEF Leave, server_vars
      <3>3. \A d \in Client : conn[d] = "left" => conn'[d] = "left"
        BY <2>1, <3>1 DEF ClientInv
      <3> QED
        BY <2>1, <3>2, <3>3, OwnStays
    <2>4. CASE RecvStep
      BY <2>4, OwnReceive
    <2>5. CASE AcceptStep
      BY <2>5, OwnAccept
    <2>6. CASE UNCHANGED <<conn, m_clients, handler, fds>>
      BY <2>1, <2>6, OwnStays
    <2> QED
      BY <2>2, <2>3, <2>4, <2>5, <2>6
      DEF Next, Send, Read, Select, SendStep, Merge, vars, client_vars, server_vars
  <1>3. OwnInv => FdsOwned
    BY DEF OwnInv
  <1> QED
    BY <1>1, <1>2, <1>3, BaseInvariant, PTL DEF Spec

LEMMA BaseType == BaseInv => TypeOK
  <1> SUFFICES ASSUME BaseInv PROVE TypeOK
    OBVIOUS
  <1>1. ClientInv /\ ListInv /\ StreamInv /\ TurnInv
    BY DEF BaseInv
  <1>2. ASSUME NEW c \in Client
        PROVE  /\ Len(cmds[c]) <= MaxCmds /\ sent[c] \in 0..(2 * MaxCmds)
               /\ \A j \in 1..Len(cmds[c]) : cmds[c][j].cmd \in Menu[c][j]
               /\ Range(to_server[c]) \subseteq 1..MaxCmds
               /\ Len(to_client[c]) <= SendCap
    <2>1. PICK n, v, t, l : n = Len(cmds[c]) /\ v = sent[c] /\ t = to_server[c] /\ l = Len(t)
      OBVIOUS
    <2>2. n \in Nat /\ v \in Nat /\ v <= 2 * n /\ IsSeq(t) /\ l \in Nat /\ l <= v
      BY <1>1, <2>1, ClientShape
    <2>3. n <= MaxCmds /\ MaxCmds \in Nat
      <3>1. n <= Len(Menu[c])
        BY <1>1, <2>1 DEF ClientInv
      <3>2. Len(Menu[c]) \in Nat /\ Len(Menu[c]) <= MaxCmds
        BY MenuShape
      <3> QED
        BY <2>2, <3>1, <3>2, BoundAssumption
    <2>4. v \in 0..(2 * MaxCmds)
      BY <2>2, <2>3
    <2>5. Range(t) \subseteq 1..MaxCmds
      <3> SUFFICES ASSUME NEW x \in Range(t) PROVE x \in 1..MaxCmds
        OBVIOUS
      <3>1. PICK j \in 1..l : x = t[j]
        BY <2>1, <2>2, SeqShape
      <3>2. x = UnitAt(v - l + j)
        BY <1>1, <2>1, <3>1 DEF ClientInv
      <3>3. v - l + j \in Nat \ {0} /\ v - l + j <= 2 * MaxCmds
        BY <2>2, <2>3
      <3> QED
        BY <2>3, <3>2, <3>3, Units
    <2> QED
      BY <1>1, <2>1, <2>3, <2>4, <2>5 DEF ClientInv
  <1>3. \A a \in Addr : Fd(a) \in Client \cup {NoFd}
    BY <1>1 DEF ListInv, Node, Fd
  <1>4. Range(m_recv) \cup Range(recv_copy) \subseteq Addr
    BY <1>1, RangeOfSeq DEF TurnInv
  <1> QED
    BY <1>1, <1>2, <1>3, <1>4 DEF TypeOK, ClientInv, ListInv, TurnInv, Waiting

\* Every variable keeps its type, no socket buffers more than it holds, and at
\* most one accept is armed, whatever the clients do.
THEOREM TypeCorrect == Spec => []TypeOK
  BY BaseInvariant, BaseType, PTL

-----------------------------------------------------------------------------
(* Orderly clients: what the parts of the invariant depend on. *)

LEMMA QueueShape ==
    ASSUME TurnInv
    PROVE  /\ IsSeq(recv_copy) /\ IsSeq(m_recv) /\ IsSeq(send_copy) /\ IsSeq(m_send)
           /\ Joined(Recvs, recv_copy, m_recv) /\ Joined(Sends, send_copy, m_send)
           /\ IsSeq(Recvs) /\ IsSeq(Sends) /\ Len(Sends) \in Nat
           /\ Range(Recvs) = Range(recv_copy) \cup Range(m_recv)
           /\ Range(Sends) = Range(send_copy) \cup Range(m_send)
  <1>1. IsSeq(recv_copy) /\ IsSeq(m_recv) /\ IsSeq(send_copy) /\ IsSeq(m_send)
    BY SeqIsSeq DEF TurnInv
  <1>2. Joined(Recvs, recv_copy, m_recv)
    BY <1>1, ConcatIs DEF Recvs
  <1>3. Joined(Sends, send_copy, m_send)
    BY <1>1, ConcatIs DEF Sends
  <1>4. IsSeq(Recvs) /\ Range(Recvs) = Range(recv_copy) \cup Range(m_recv)
    BY <1>2 DEF Joined
  <1>5. IsSeq(Sends) /\ Range(Sends) = Range(send_copy) \cup Range(m_send)
    BY <1>3 DEF Joined
  <1>6. Len(Sends) \in Nat
    BY <1>5, SeqShape
  <1> QED
    BY <1>1, <1>2, <1>3, <1>4, <1>5, <1>6

\* What the clients do changes neither the list nor the operations.
LEMMA ClientsApart ==
    ASSUME UNCHANGED <<server_vars, loop_vars>>
    PROVE  /\ Live' = Live /\ Recvs' = Recvs /\ Sends' = Sends
           /\ UNCHANGED <<m_clients, handler, fds, pc, m_send, send_copy>>
           /\ \A a : Fd(a)' = Fd(a)
           /\ \A c : OpsOn(c)' = OpsOn(c)
  <1>1. UNCHANGED <<m_clients, handler, fds, pc, m_recv, recv_copy, m_send, send_copy>>
    BY DEF server_vars, loop_vars, queued, current
  <1> QED
    BY <1>1 DEF Live, Recvs, Sends, Fd, OpsOn

LEMMA BaseStays ==
    ASSUME ListInv, UNCHANGED <<m_clients, handler>>,
           \A c \in Client : sent'[c] - Len(to_server'[c]) = sent[c] - Len(to_server[c])
    PROVE  \A a \in Live : Base(a)' = Base(a)
  BY LiveNode DEF Base, Fd

LEMMA OrderStays ==
    ASSUME OrderInv, UNCHANGED <<conn, backlog, m_clients, handler, fds>>,
           pc' # "undefined", Recvs' = Recvs
    PROVE  OrderInv'
  <1>1. Live' = Live /\ Waiting' = Waiting
    BY DEF Live, Waiting
  <1>2. \A a : Fd(a)' = Fd(a) /\ (Gone(a)' <=> Gone(a))
    BY DEF Gone, Fd
  <1>3. \A a, b : Before(a, b)' <=> Before(a, b)
    BY DEF Before
  <1> QED
    BY <1>1, <1>2, <1>3 DEF OrderInv

\* The operations stay, and so does what the clients of their nodes were sent.
LEMMA SendStays ==
    ASSUME TurnInv, SendInv, Sends' = Sends,
           \A a : (\E op \in Range(Sends) : a = op.addr) =>
             /\ a \in Live' /\ Fd(a)' = Fd(a) /\ (Clean(Fd(a))' => Clean(Fd(a)))
             /\ Met(Fd(a))' = Met(Fd(a)) /\ Base(a)' = Base(a)
    PROVE  SendInv'
  <1>1. \A op \in Range(Sends) : Due(op)'
    <2> SUFFICES ASSUME NEW op \in Range(Sends) PROVE Due(op)'
      OBVIOUS
    <2>1. PICK a : a = op.addr
      OBVIOUS
    <2>2. /\ a \in Live' /\ Fd(a)' = Fd(a) /\ (Clean(Fd(a))' => Clean(Fd(a)))
          /\ Met(Fd(a))' = Met(Fd(a)) /\ Base(a)' = Base(a)
      BY <2>1
    <2>3. Due(op)
      BY DEF SendInv
    <2> QED
      BY <2>1, <2>2, <2>3 DEF Due
  <1>2. ASSUME NEW a \in Live', Clean(Fd(a))' PROVE Rising(Sends, a)
    <2>1. CASE \E op \in Range(Sends) : a = op.addr
      <3>1. a \in Live
        BY <2>1 DEF SendInv, Due
      <3>2. Clean(Fd(a))
        BY <1>2, <2>1
      <3> QED
        BY <3>1, <3>2 DEF SendInv
    <2>2. CASE ~ \E op \in Range(Sends) : a = op.addr
      <3>1. \A i \in 1..Len(Sends) : Sends[i] \in Range(Sends)
        BY QueueShape, SeqShape
      <3> QED
        BY <2>2, <3>1 DEF Rising
    <2> QED
      BY <2>1, <2>2
  <1>3. \A a \in Live' : Clean(Fd(a))' => Rising(Sends', a)
    BY <1>2
  <1>4. \A op \in Range(Sends)' : Due(op)'
    BY <1>1
  <1>5. \A a \in Live' : Clean(Fd(a))' => Rising(Sends, a)'
    BY <1>3 DEF Rising
  <1> QED
    BY <1>4, <1>5 DEF SendInv

\* The same when the list stays too.
LEMMA SendStaysHere ==
    ASSUME TurnInv, SendInv, Sends' = Sends, Live' = Live,
           \A a \in Live : /\ Fd(a)' = Fd(a) /\ (Clean(Fd(a))' => Clean(Fd(a)))
                           /\ Met(Fd(a))' = Met(Fd(a)) /\ Base(a)' = Base(a)
    PROVE  SendInv'
  <1>1. \A op \in Range(Sends) : op.addr \in Live
    BY DEF SendInv, Due
  <1>2. \A a : (\E op \in Range(Sends) : a = op.addr) =>
          /\ a \in Live' /\ Fd(a)' = Fd(a) /\ (Clean(Fd(a))' => Clean(Fd(a)))
          /\ Met(Fd(a))' = Met(Fd(a)) /\ Base(a)' = Base(a)
    BY <1>1
  <1> QED
    BY <1>2, SendStays

LEMMA OwedStays ==
    ASSUME Owed, Live' = Live,
           \A a \in Live : /\ Fd(a)' = Fd(a) /\ (Clean(Fd(a))' => Clean(Fd(a)))
                           /\ Met(Fd(a))' = Met(Fd(a)) /\ Base(a)' = Base(a)
    PROVE  Owed'
  BY DEF Owed

LEMMA ExecutedSame ==
    ASSUME NEW c, (Range(got[c]) \cup Range(to_client[c]))' = Range(got[c]) \cup Range(to_client[c]),
           OpsOn(c)' = OpsOn(c)
    PROVE  Executed(c)' = Executed(c)
  BY DEF Executed

LEMMA ExecutedStays ==
    ASSUME ExecutedInv, Live' = Live,
           \A a \in Live : /\ Fd(a)' = Fd(a) /\ Base(a)' = Base(a)
                           /\ Executed(Fd(a))' = Executed(Fd(a))
    PROVE  ExecutedInv'
  BY DEF ExecutedInv

\* A client whose commands are valid and that has left is owed nothing.
LEMMA GoneIsDone ==
    ASSUME BaseInv, AnswerInv, NEW op, Due(op)
    PROVE  ~Gone(op.addr)
  <1> SUFFICES ASSUME Gone(op.addr) PROVE FALSE
    OBVIOUS
  <1>1. PICK a, c : a = op.addr /\ c = Fd(a)
    OBVIOUS
  <1>2. /\ a \in Live
        /\ Clean(c) => op.n \in Nat /\ Met(c) < op.n /\ 2 * op.n <= Base(a)
    BY <1>1 DEF Due
  <1>3. /\ c \in Client /\ Len(handler[a].m_stream) \in Nat
        /\ sent[c] \in Nat /\ Len(to_server[c]) \in Nat /\ Len(got[c]) \in Nat
    BY <1>1, <1>2, LiveNode, ClientShape DEF BaseInv
  <1>4. Clean(c) /\ to_client[c] = <<>> /\ sent[c] < 2 * Len(got[c]) + 2
    BY <1>1, <1>3 DEF Gone, AnswerInv, Settled
  <1>5. Met(c) = Len(got[c])
    BY <1>3, <1>4, EmptyShape DEF Met
  <1>6. Base(a) <= sent[c] /\ Base(a) \in Int
    <2>1. PICK v, t, h : v = sent[c] /\ t = Len(to_server[c]) /\ h = Len(handler[a].m_stream)
      OBVIOUS
    <2>2. v \in Nat /\ t \in Nat /\ h \in Nat /\ Base(a) = v - t - h
      BY <1>1, <1>3, <2>1 DEF Base
    <2> QED
      BY <2>1, <2>2
  <1>7. PICK n, b, v, g : n = op.n /\ b = Base(a) /\ v = sent[c] /\ g = Len(got[c])
    OBVIOUS
  <1>8. /\ n \in Nat /\ g \in Nat /\ v \in Nat /\ b \in Int
        /\ g < n /\ 2 * n <= b /\ b <= v /\ v < 2 * g + 2
    BY <1>2, <1>3, <1>4, <1>5, <1>6, <1>7
  <1> QED
    BY <1>8

-----------------------------------------------------------------------------
(* Orderly clients: what they do. *)

LEMMA OrderConnect ==
    ASSUME ServerInv, Orderly, NEW c \in Client, Connect(c)
    PROVE  OrderInv' /\ SendInv' /\ AnswerInv' /\ ExecutedInv'
  <1>1. BaseInv /\ ClientInv /\ ListInv /\ TurnInv
        /\ OrderInv /\ SendInv /\ Owed /\ Settled /\ ExecutedInv
    BY DEF ServerInv, BaseInv, AnswerInv
  <1>2. /\ conn[c] = "out" /\ conn' = [conn EXCEPT ![c] = "in"]
        /\ backlog' = Append(backlog, c)
        /\ UNCHANGED <<cmds, sent, got, to_server, to_client, server_vars, loop_vars>>
    BY DEF Connect
  <1>3. /\ Live' = Live /\ Recvs' = Recvs /\ Sends' = Sends
        /\ UNCHANGED <<m_clients, handler, fds, pc, m_send, send_copy>>
        /\ \A a : Fd(a)' = Fd(a)
        /\ \A d : OpsOn(d)' = OpsOn(d)
    BY <1>2, ClientsApart
  <1>4. conn'[c] = "in" /\ \A d \in Client : d # c => conn'[d] = conn[d]
    BY <1>1, <1>2 DEF ClientInv
  <1>5. \A a \in Live : a \in Addr /\ Fd(a) \in Client /\ Fd(a) # c
    BY <1>1, <1>2, LiveNode DEF ListInv
  <1>6. \A a \in Live : Gone(a)' <=> Gone(a)
    BY <1>3, <1>4, <1>5 DEF Gone
  <1>7. Waiting' = Waiting \cup {c}
    <2>1. IsSeq(backlog)
      BY <1>1 DEF ListInv
    <2>2. Appended(backlog', backlog, c)
      BY <1>2, <2>1, AppendIs
    <2> QED
      BY <2>2 DEF Appended, Waiting
  <1>8. OrderInv'
    <2>1. \A a \in Live : Gone(a) => handler[a].m_closed
      <3> SUFFICES ASSUME NEW a \in Live, Gone(a) PROVE handler[a].m_closed
        OBVIOUS
      <3>1. conn[Fd(a)] = "left" /\ Fd(a) \in Client
        BY <1>5 DEF Gone
      <3>2. OrderlyConnect
        BY DEF Connect
      <3> QED
        BY <3>1, <3>2 DEF OrderlyConnect
    <2>2. \A d \in Waiting' : conn'[d] = "in"
      BY <1>1, <1>4, <1>7 DEF OrderInv, ListInv
    <2>3. \A a, b \in Live' : Before(a, b)' /\ Gone(a)' => handler'[b].m_closed
      <3>1. \A a, b : Before(a, b)' <=> Before(a, b)
        BY <1>3 DEF Before
      <3> QED
        BY <1>1, <1>3, <1>6, <3>1 DEF OrderInv
    <2>4. \A a \in Live' : handler'[a].m_closed <=> Gone(a)'
      BY <1>1, <1>3, <1>6, <2>1 DEF OrderInv
    <2>5. /\ pc' # "undefined" /\ fds' = {Fd(a)' : a \in Live'}
          /\ IsInjective(Recvs') /\ Range(Recvs') = {a \in Live' : ~handler'[a].m_closed}
      BY <1>1, <1>3 DEF OrderInv
    <2> QED
      BY <2>2, <2>3, <2>4, <2>5 DEF OrderInv
  <1>9. \A a \in Live : /\ Base(a)' = Base(a) /\ Met(Fd(a))' = Met(Fd(a))
                        /\ (Clean(Fd(a))' <=> Clean(Fd(a)))
                        /\ Executed(Fd(a))' = Executed(Fd(a))
    <2>1. \A a \in Live : Base(a)' = Base(a)
      BY <1>1, <1>2, <1>3, BaseStays
    <2>2. \A d : Met(d)' = Met(d) /\ (Clean(d)' <=> Clean(d)) /\ Executed(d)' = Executed(d)
      BY <1>2, <1>3 DEF Met, Clean, Executed
    <2> QED
      BY <1>3, <2>1, <2>2
  <1>10. SendInv'
    BY <1>1, <1>3, <1>9, SendStaysHere
  <1>11. Owed'
    BY <1>1, <1>3, <1>9, OwedStays
  <1>12. Settled'
    BY <1>1, <1>2, <1>4, <1>7 DEF Settled, Clean
  <1>13. ExecutedInv'
    BY <1>1, <1>3, <1>9, ExecutedStays
  <1>14. AnswerInv'
    BY <1>11, <1>12 DEF AnswerInv
  <1> QED
    BY <1>8, <1>10, <1>13, <1>14

\* A client that sends: an invalid command is never taken back.
LEMMA SendClean ==
    ASSUME ClientInv, NEW c \in Client, Send(c), NEW d \in Client, Clean(d)'
    PROVE  Clean(d)
  <1>1. IsSeq(cmds[c]) /\ Len(cmds[c]) \in Nat /\ DOMAIN cmds = Client
    BY ClientShape DEF ClientInv
  <1>2. Begin(c) \/ UNCHANGED cmds
    BY DEF Send, Continue
  <1>3. CASE Begin(c)
    <2>1. PICK x : cmds' = [cmds EXCEPT ![c] = Append(@, x)]
      BY <1>3 DEF Begin
    <2>2. cmds'[c] = Append(cmds[c], x) /\ \A b \in Client : b # c => cmds'[b] = cmds[b]
      BY <1>1, <2>1
    <2>3. Appended(cmds'[c], cmds[c], x)
      BY <1>1, <2>2, AppendIs
    <2>4. \A j \in 1..Len(cmds[c]) : cmds'[c][j] = cmds[c][j] /\ j \in 1..Len(cmds'[c])
      BY <1>1, <2>3 DEF Appended
    <2>5. CASE d = c
      BY <2>4, <2>5 DEF Clean
    <2>6. CASE d # c
      BY <2>2, <2>6 DEF Clean
    <2> QED
      BY <2>5, <2>6
  <1>4. CASE UNCHANGED cmds
    BY <1>4 DEF Clean
  <1> QED
    BY <1>2, <1>3, <1>4

LEMMA OrderSend ==
    ASSUME ServerInv, NEW c \in Client, Send(c)
    PROVE  OrderInv' /\ SendInv' /\ AnswerInv' /\ ExecutedInv'
  <1>1. BaseInv /\ ClientInv /\ ListInv /\ TurnInv
        /\ OrderInv /\ SendInv /\ Owed /\ Settled /\ ExecutedInv
    BY DEF ServerInv, BaseInv, AnswerInv
  <1>2. /\ conn[c] = "in" /\ (Begin(c) \/ Continue(c))
        /\ sent' = [sent EXCEPT ![c] = @ + 1]
        /\ to_server' = [to_server EXCEPT ![c] = Append(@, (sent[c] \div 2) + 1)]
        /\ UNCHANGED <<conn, got, to_client, backlog, server_vars, loop_vars>>
    BY DEF Send
  <1>3. /\ Live' = Live /\ Recvs' = Recvs /\ Sends' = Sends
        /\ UNCHANGED <<m_clients, handler, fds, pc, m_send, send_copy>>
        /\ \A a : Fd(a)' = Fd(a)
        /\ \A d : OpsOn(d)' = OpsOn(d)
    BY <1>2, ClientsApart
  <1>4. /\ IsSeq(to_server[c]) /\ Len(to_server[c]) \in Nat /\ sent[c] \in Nat
        /\ sent \in [Client -> Nat] /\ DOMAIN to_server = Client
    BY <1>1, ClientShape DEF ClientInv
  <1>5. /\ sent'[c] = sent[c] + 1 /\ Len(to_server'[c]) = Len(to_server[c]) + 1
        /\ \A d \in Client : d # c => sent'[d] = sent[d] /\ to_server'[d] = to_server[d]
    <2>1. PICK x : to_server' = [to_server EXCEPT ![c] = Append(@, x)]
      BY <1>2
    <2>2. to_server'[c] = Append(to_server[c], x)
      BY <1>4, <2>1
    <2>3. Appended(to_server'[c], to_server[c], x)
      BY <1>4, <2>2, AppendIs
    <2>4. Len(to_server'[c]) = Len(to_server[c]) + 1
      BY <2>3 DEF Appended
    <2> QED
      BY <1>2, <1>4, <2>1, <2>4
  <1>6. \A d \in Client : sent'[d] - Len(to_server'[d]) = sent[d] - Len(to_server[d])
    BY <1>4, <1>5
  <1>7. OrderInv'
    BY <1>1, <1>2, <1>3, OrderStays DEF OrderInv
  <1>8. \A a \in Live : /\ Base(a)' = Base(a) /\ Met(Fd(a))' = Met(Fd(a))
                        /\ (Clean(Fd(a))' => Clean(Fd(a)))
                        /\ Executed(Fd(a))' = Executed(Fd(a))
    <2>1. \A a \in Live : Base(a)' = Base(a) /\ Fd(a) \in Client
      BY <1>1, <1>3, <1>6, BaseStays, LiveNode
    <2>2. \A d : Met(d)' = Met(d) /\ Executed(d)' = Executed(d)
      BY <1>2, <1>3 DEF Met, Executed
    <2>3. \A d \in Client : Clean(d)' => Clean(d)
      BY <1>1, SendClean
    <2> QED
      BY <1>3, <2>1, <2>2, <2>3
  <1>9. SendInv'
    BY <1>1, <1>3, <1>8, SendStaysHere
  <1>10. Owed'
    BY <1>1, <1>3, <1>8, OwedStays
  <1>11. Settled'
    <2>1. \A d \in Client : conn[d] = "left" => (Clean(d)' <=> Clean(d)) /\ sent'[d] = sent[d]
      <3> SUFFICES ASSUME NEW d \in Client, conn[d] = "left"
                   PROVE  (Clean(d)' <=> Clean(d)) /\ sent'[d] = sent[d]
        OBVIOUS
      <3>1. d # c
        BY <1>2
      <3>2. cmds'[d] = cmds[d]
        BY <1>1, <1>2, <3>1 DEF Begin, Continue, ClientInv
      <3> QED
        BY <1>5, <3>1, <3>2 DEF Clean
    <2> QED
      BY <1>1, <1>2, <2>1 DEF Settled, Waiting
  <1>12. ExecutedInv'
    BY <1>1, <1>3, <1>8, ExecutedStays
  <1>13. AnswerInv'
    BY <1>10, <1>11 DEF AnswerInv
  <1> QED
    BY <1>7, <1>9, <1>12, <1>13

LEMMA OrderRead ==
    ASSUME ServerInv, NEW c \in Client, Read(c)
    PROVE  OrderInv' /\ SendInv' /\ AnswerInv' /\ ExecutedInv'
  <1>1. BaseInv /\ ClientInv /\ ListInv /\ TurnInv
        /\ OrderInv /\ SendInv /\ Owed /\ Settled /\ ExecutedInv
    BY DEF ServerInv, BaseInv, AnswerInv
  <1>2. /\ to_client[c] # <<>>
        /\ got' = [got EXCEPT ![c] = Append(@, Head(to_client[c]))]
        /\ to_client' = [to_client EXCEPT ![c] = Tail(@)]
        /\ UNCHANGED <<conn, cmds, sent, to_server, backlog, server_vars, loop_vars>>
    BY DEF Read
  <1>3. /\ Live' = Live /\ Recvs' = Recvs /\ Sends' = Sends
        /\ UNCHANGED <<m_clients, handler, fds, pc, m_send, send_copy>>
        /\ \A a : Fd(a)' = Fd(a)
        /\ \A d : OpsOn(d)' = OpsOn(d)
    BY <1>2, ClientsApart
  <1>4. /\ IsSeq(to_client[c]) /\ Len(to_client[c]) \in Nat /\ IsSeq(got[c]) /\ Len(got[c]) \in Nat
        /\ DOMAIN to_client = Client /\ DOMAIN got = Client
    BY <1>1, ClientShape DEF ClientInv
  <1>5. PICK x, g, t, g2, t2 : /\ x = Head(to_client[c]) /\ g = got[c] /\ t = to_client[c]
                               /\ g2 = got'[c] /\ t2 = to_client'[c]
    OBVIOUS
  <1>6. /\ g2 = Append(g, x) /\ t2 = Tail(t)
        /\ \A d \in Client : d # c => got'[d] = got[d] /\ to_client'[d] = to_client[d]
    BY <1>2, <1>4, <1>5
  <1>7. Appended(g2, g, x) /\ Rest(t2, t) /\ t[1] = x
    <2>1. Appended(g2, g, x)
      BY <1>4, <1>5, <1>6, AppendIs
    <2>2. Rest(t2, t)
      BY <1>2, <1>4, <1>5, <1>6, TailIs
    <2> QED
      BY <1>5, <2>1, <2>2 DEF Rest
  <1>8. /\ Len(g2) + Len(t2) = Len(g) + Len(t)
        /\ Range(g2) \cup Range(t2) = Range(g) \cup Range(t)
    <2>1. /\ Len(g2) = Len(g) + 1 /\ Len(t2) = Len(t) - 1 /\ Len(g) \in Nat /\ Len(t) \in Nat
          /\ Range(g2) = Range(g) \cup {x} /\ Range(t) = {x} \cup Range(t2)
      BY <1>7 DEF Appended, Rest
    <2>2. Len(g2) + Len(t2) = Len(g) + Len(t)
      BY <2>1
    <2> QED
      BY <2>1, <2>2
  <1>9. \A d \in Client : /\ Met(d)' = Met(d) /\ (Clean(d)' <=> Clean(d))
                          /\ Executed(d)' = Executed(d)
    <2> SUFFICES ASSUME NEW d \in Client
                 PROVE  /\ Met(d)' = Met(d) /\ (Clean(d)' <=> Clean(d))
                        /\ Executed(d)' = Executed(d)
      OBVIOUS
    <2>1. Clean(d)' <=> Clean(d)
      BY <1>2 DEF Clean
    <2>2. (Range(got[d]) \cup Range(to_client[d]))' = Range(got[d]) \cup Range(to_client[d])
          /\ Met(d)' = Met(d)
      <3>1. CASE d = c
        BY <1>5, <1>8, <3>1 DEF Met
      <3>2. CASE d # c
        BY <1>6, <3>2 DEF Met
      <3> QED
        BY <3>1, <3>2
    <2>3. OpsOn(d)' = OpsOn(d)
      BY <1>3
    <2>4. Executed(d)' = Executed(d)
      BY <2>2, <2>3, ExecutedSame
    <2> QED
      BY <2>1, <2>2, <2>4
  <1>10. \A a \in Live : /\ Base(a)' = Base(a) /\ Fd(a)' = Fd(a) /\ Met(Fd(a))' = Met(Fd(a))
                         /\ (Clean(Fd(a))' => Clean(Fd(a)))
                         /\ Executed(Fd(a))' = Executed(Fd(a))
    <2>1. \A a \in Live : Base(a)' = Base(a) /\ Fd(a) \in Client
      BY <1>1, <1>2, <1>3, BaseStays, LiveNode
    <2> QED
      BY <1>3, <1>9, <2>1
  <1>11. OrderInv'
    BY <1>1, <1>2, <1>3, OrderStays DEF OrderInv
  <1>12. SendInv'
    BY <1>1, <1>3, <1>10, SendStaysHere
  <1>13. Owed'
    BY <1>1, <1>3, <1>10, OwedStays
  <1>14. Settled'
    <2>1. conn[c] # "out" /\ c \notin Waiting /\ conn[c] # "left"
      BY <1>1, <1>2 DEF Settled
    <2>2. Waiting' = Waiting
      BY <1>2 DEF Waiting
    <2> QED
      BY <1>1, <1>2, <1>6, <1>9, <2>1, <2>2 DEF Settled
  <1>15. ExecutedInv'
    BY <1>1, <1>3, <1>10, ExecutedStays
  <1> QED
    BY <1>11, <1>12, <1>13, <1>14, <1>15 DEF AnswerInv

\* No more was executed than was sent.
LEMMA BaseBound ==
    ASSUME ClientInv, ListInv, StreamInv, NEW a \in Live
    PROVE  Base(a) \in Nat /\ Base(a) <= sent[Fd(a)]
  <1>1. PICK v, t, h : /\ v = sent[Fd(a)] /\ t = Len(to_server[Fd(a)])
                       /\ h = Len(handler[a].m_stream)
    OBVIOUS
  <1>2. v \in Nat /\ t \in Nat /\ h \in Nat /\ Base(a) = v - t - h
    BY <1>1, LiveNode, ClientShape DEF Base
  <1>3. Base(a) \in Nat
    BY DEF StreamInv
  <1> QED
    BY <1>1, <1>2, <1>3

LEMMA OrderLeave ==
    ASSUME ServerInv, Orderly, NEW c \in Client, Leave(c)
    PROVE  OrderInv' /\ SendInv' /\ AnswerInv' /\ ExecutedInv'
  <1>1. BaseInv /\ ClientInv /\ ListInv /\ StreamInv /\ TurnInv
        /\ OrderInv /\ SendInv /\ Owed /\ Settled /\ ExecutedInv
    BY DEF ServerInv, BaseInv, AnswerInv
  <1>2. /\ conn[c] = "in" /\ conn' = [conn EXCEPT ![c] = "left"] /\ Clean(c)
        /\ Len(got[c]) = sent[c] \div 2
        /\ UNCHANGED <<cmds, sent, got, network, server_vars, loop_vars>>
    BY DEF Leave, Clean
  <1>3. /\ Live' = Live /\ Recvs' = Recvs /\ Sends' = Sends
        /\ UNCHANGED <<m_clients, handler, fds, pc, m_send, send_copy>>
        /\ \A a : Fd(a)' = Fd(a)
        /\ \A d : OpsOn(d)' = OpsOn(d)
    BY <1>2, ClientsApart
  <1>4. UNCHANGED <<to_server, to_client, backlog>>
    BY <1>2 DEF network
  <1>5. conn'[c] = "left" /\ \A d \in Client : d # c => conn'[d] = conn[d]
    BY <1>1, <1>2 DEF ClientInv
  <1>6. backlog = <<>> /\ \E j \in 1..Len(m_clients) :
          /\ Fd(m_clients[j]) = c
          /\ \A l \in (j + 1)..Len(m_clients) : handler[m_clients[l]].m_closed
    BY DEF Leave, OrderlyLeave
  <1>7. PICK j \in 1..Len(m_clients) :
          /\ Fd(m_clients[j]) = c
          /\ \A l \in (j + 1)..Len(m_clients) : handler[m_clients[l]].m_closed
    BY <1>6
  <1>8. PICK a : a = m_clients[j]
    OBVIOUS
  <1>9. /\ a \in Live /\ Len(m_clients) \in Nat
        /\ \A i, l \in 1..Len(m_clients) : m_clients[i] = m_clients[l] => i = l
    <2>1. IsSeq(m_clients) /\ IsInjective(m_clients)
      BY <1>1, SeqIsSeq DEF ListInv
    <2> QED
      BY <1>8, <2>1, SeqShape DEF Live, IsInjective
  <1>10. \A b \in Live : Gone(b)' => Gone(b) \/ b = a
    <2> SUFFICES ASSUME NEW b \in Live, Gone(b)', Fd(b) # c PROVE Gone(b)
      BY <1>1, <1>7, <1>8, <1>9 DEF ListInv
    <2>1. Fd(b) \in Client
      BY <1>1, LiveNode
    <2> QED
      BY <1>3, <1>5, <2>1 DEF Gone
  <1>11. \A b \in Live : Gone(b) => Gone(b)'
    <2>1. \A b \in Live : Fd(b) \in Client
      BY <1>1, LiveNode
    <2> QED
      BY <1>2, <1>3, <1>5, <2>1 DEF Gone
  <1>12. ASSUME NEW b \in Live, Before(a, b) PROVE handler[b].m_closed
    <2>1. PICK i, l \in 1..Len(m_clients) : i < l /\ m_clients[i] = a /\ m_clients[l] = b
      BY <1>12 DEF Before
    <2>2. i = j
      BY <1>8, <1>9, <2>1
    <2>3. l \in (j + 1)..Len(m_clients)
      BY <1>9, <2>1, <2>2
    <2> QED
      BY <1>7, <2>1, <2>3
  <1>13. OrderInv'
    <2>1. \A x, b : Before(x, b)' <=> Before(x, b)
      BY <1>3 DEF Before
    <2>2. \A x, b \in Live : Before(x, b) /\ Gone(x)' => handler[b].m_closed
      BY <1>1, <1>10, <1>12 DEF OrderInv
    <2>3. \A x, b \in Live' : Before(x, b)' /\ Gone(x)' => handler'[b].m_closed
      BY <1>3, <2>1, <2>2
    <2>4. \A x \in Live' : handler'[x].m_closed => Gone(x)'
      BY <1>1, <1>3, <1>11 DEF OrderInv
    <2>5. backlog' = <<>> /\ Waiting' = {}
      BY <1>4, <1>6, EmptyShape DEF Waiting
    <2>6. /\ pc' # "undefined" /\ fds' = {Fd(x)' : x \in Live'}
          /\ IsInjective(Recvs') /\ Range(Recvs') = {x \in Live' : ~handler'[x].m_closed}
      BY <1>1, <1>3 DEF OrderInv
    <2> QED
      BY <2>3, <2>4, <2>5, <2>6 DEF OrderInv
  <1>14. to_client[c] = <<>> /\ sent[c] < 2 * Len(got[c]) + 2
    <2>1. PICK g, t, v, b : g = Len(got[c]) /\ t = Len(to_client[c]) /\ v = sent[c] /\ b = Base(a)
      OBVIOUS
    <2>2. g \in Nat /\ t \in Nat /\ v \in Nat /\ IsSeq(to_client[c])
      BY <1>1, <2>1, ClientShape
    <2>3. b \in Nat /\ b <= v
      BY <1>1, <1>7, <1>8, <1>9, <2>1, BaseBound
    <2>4. 2 * (g + t) <= b
      BY <1>1, <1>2, <1>7, <1>8, <1>9, <2>1 DEF Owed, Met
    <2>5. g = v \div 2
      BY <1>2, <2>1
    <2>6. t = 0 /\ v < 2 * g + 2
      BY <2>2, <2>3, <2>4, <2>5
    <2> QED
      BY <2>1, <2>2, <2>6, SeqShape
  <1>15. \A b \in Live : /\ Base(b)' = Base(b) /\ Fd(b)' = Fd(b) /\ Met(Fd(b))' = Met(Fd(b))
                         /\ (Clean(Fd(b))' => Clean(Fd(b)))
                         /\ Executed(Fd(b))' = Executed(Fd(b))
    <2>1. \A b \in Live : Base(b)' = Base(b)
      BY <1>1, <1>2, <1>3, <1>4, BaseStays
    <2>2. \A d : Met(d)' = Met(d) /\ (Clean(d)' <=> Clean(d)) /\ Executed(d)' = Executed(d)
      BY <1>2, <1>3, <1>4 DEF Met, Clean, Executed
    <2> QED
      BY <1>3, <2>1, <2>2
  <1>16. SendInv'
    BY <1>1, <1>3, <1>15, SendStaysHere
  <1>17. Owed'
    BY <1>1, <1>3, <1>15, OwedStays
  <1>18. Settled'
    <2> SUFFICES ASSUME NEW d \in Client
                 PROVE  /\ conn'[d] = "out" \/ d \in Waiting' => got'[d] = <<>> /\ to_client'[d] = <<>>
                        /\ conn'[d] = "left" => /\ Clean(d)' /\ to_client'[d] = <<>>
                                                /\ sent'[d] < 2 * Len(got'[d]) + 2
      BY DEF Settled, Clean
    <2>1. Waiting' = Waiting /\ Waiting = {} /\ (Clean(d)' <=> Clean(d))
      BY <1>2, <1>4, <1>6, EmptyShape DEF Waiting, Clean
    <2>2. CASE d = c
      BY <1>2, <1>4, <1>5, <1>14, <2>1, <2>2
    <2>3. CASE d # c
      BY <1>1, <1>2, <1>4, <1>5, <2>1, <2>3 DEF Settled
    <2> QED
      BY <2>2, <2>3
  <1>19. ExecutedInv'
    BY <1>1, <1>3, <1>15, ExecutedStays
  <1> QED
    BY <1>13, <1>16, <1>17, <1>18, <1>19 DEF AnswerInv

-----------------------------------------------------------------------------
(* Orderly clients: the turns of the loop. *)

\* The operations on a client, by the queues they are in.
LEMMA OpsOfSends ==
    ASSUME TurnInv
    PROVE  \A d : OpsOn(d) = {op \in Range(Sends) : Fd(op.addr) = d}
  <1>1. Range(Sends) = Range(send_copy) \cup Range(m_send)
    BY QueueShape
  <1> QED
    BY <1>1 DEF OpsOn

LEMMA OpsOfNextSends ==
    ASSUME IsSeq(send_copy'), IsSeq(m_send')
    PROVE  /\ IsSeq(Sends') /\ Joined(Sends', send_copy', m_send')
           /\ \A d : OpsOn(d)' = {op \in Range(Sends') : Fd(op.addr)' = d}
  <1>1. Joined(Sends', send_copy', m_send')
    BY ConcatIs DEF Sends
  <1>2. IsSeq(Sends') /\ Range(Sends') = Range(send_copy') \cup Range(m_send')
    BY <1>1 DEF Joined
  <1> QED
    BY <1>1, <1>2 DEF OpsOn

\* The queues trade places and nothing else changes.
LEMMA OrderTurn ==
    ASSUME ServerInv, UNCHANGED <<client_vars, network, server_vars>>, pc' # "undefined",
           IsSeq(send_copy'), IsSeq(m_send'), Recvs' = Recvs, Sends' = Sends
    PROVE  OrderInv' /\ SendInv' /\ AnswerInv' /\ ExecutedInv'
  <1>1. BaseInv /\ ClientInv /\ ListInv /\ TurnInv
        /\ OrderInv /\ SendInv /\ Owed /\ Settled /\ ExecutedInv
    BY DEF ServerInv, BaseInv, AnswerInv
  <1>2. UNCHANGED <<conn, cmds, sent, got, to_server, to_client, backlog, m_clients, handler, fds>>
    BY DEF client_vars, network, server_vars
  <1>3. /\ Live' = Live /\ Waiting' = Waiting /\ \A a : Fd(a)' = Fd(a)
    BY <1>2 DEF Live, Waiting, Fd
  <1>4. \A d : OpsOn(d)' = OpsOn(d)
    <2>1. \A d : OpsOn(d)' = {op \in Range(Sends') : Fd(op.addr)' = d}
      BY OpsOfNextSends
    <2>2. \A d : OpsOn(d) = {op \in Range(Sends) : Fd(op.addr) = d}
      BY <1>1, OpsOfSends
    <2> QED
      BY <1>3, <2>1, <2>2
  <1>5. \A d : Met(d)' = Met(d) /\ (Clean(d)' <=> Clean(d)) /\ Executed(d)' = Executed(d)
    BY <1>2, <1>4 DEF Met, Clean, Executed
  <1>6. \A a \in Live : /\ Base(a)' = Base(a) /\ Fd(a)' = Fd(a) /\ Met(Fd(a))' = Met(Fd(a))
                        /\ (Clean(Fd(a))' => Clean(Fd(a)))
                        /\ Executed(Fd(a))' = Executed(Fd(a))
    <2>1. \A a \in Live : Base(a)' = Base(a)
      BY <1>1, <1>2, BaseStays
    <2> QED
      BY <1>3, <1>5, <2>1
  <1>7. OrderInv'
    BY <1>1, <1>2, OrderStays
  <1>8. SendInv'
    BY <1>1, <1>3, <1>6, SendStaysHere
  <1>9. Owed'
    BY <1>1, <1>3, <1>6, OwedStays
  <1>10. Settled'
    BY <1>1, <1>2, <1>3, <1>5 DEF Settled
  <1>11. ExecutedInv'
    BY <1>1, <1>3, <1>6, ExecutedStays
  <1> QED
    BY <1>7, <1>8, <1>9, <1>10, <1>11 DEF AnswerInv

\* Every operation leads to a node of the list.
LEMMA OpsLive ==
    ASSUME TurnInv, OrderInv, SendInv
    PROVE  /\ \A j \in 1..Len(m_recv) : m_recv[j] \in Live
           /\ \A j \in 1..Len(m_send) : m_send[j].addr \in Live
           /\ \A op \in Range(Sends) : op.addr \in Live
  <1>1. /\ IsSeq(m_recv) /\ IsSeq(m_send)
        /\ Range(m_recv) \subseteq Range(Recvs) /\ Range(m_send) \subseteq Range(Sends)
    BY QueueShape
  <1>2. \A j \in 1..Len(m_recv) : m_recv[j] \in Range(Recvs)
    BY <1>1, SeqShape
  <1>3. \A j \in 1..Len(m_send) : m_send[j] \in Range(Sends)
    BY <1>1, SeqShape
  <1>4. \A op \in Range(Sends) : op.addr \in Live
    BY DEF SendInv, Due
  <1> QED
    BY <1>2, <1>3, <1>4 DEF OrderInv

LEMMA OrderSelect ==
    ASSUME ServerInv, Select
    PROVE  OrderInv' /\ SendInv' /\ AnswerInv' /\ ExecutedInv'
  <1>1. TurnInv /\ OrderInv /\ SendInv
    BY DEF ServerInv, BaseInv
  <1>2. NoDanglingOp
    BY <1>1, OpsLive DEF NoDanglingOp
  <1>3. /\ pc = "select" /\ UNCHANGED <<client_vars, network, server_vars>>
        /\ recv_copy' = m_recv /\ send_copy' = m_send
        /\ m_recv' = <<>> /\ m_send' = <<>> /\ pc' = "dispatch"
    BY <1>2 DEF Select
  <1>4. recv_copy = <<>> /\ send_copy = <<>> /\ IsSeq(m_recv) /\ IsSeq(m_send)
    BY <1>1, <1>3, QueueShape DEF TurnInv
  <1>5. Recvs = m_recv /\ Recvs' = m_recv
    BY <1>3, <1>4, ConcatEmpty DEF Recvs
  <1>6. Sends = m_send /\ Sends' = m_send
    BY <1>3, <1>4, ConcatEmpty DEF Sends
  <1>7. IsSeq(send_copy') /\ IsSeq(m_send')
    BY <1>3, <1>4, EmptyShape
  <1>8. Recvs' = Recvs /\ Sends' = Sends /\ pc' # "undefined"
    BY <1>3, <1>5, <1>6
  <1> QED
    BY <1>3, <1>7, <1>8, OrderTurn

LEMMA OrderMerge ==
    ASSUME ServerInv, Merge
    PROVE  OrderInv' /\ SendInv' /\ AnswerInv' /\ ExecutedInv'
  <1>1. TurnInv
    BY DEF ServerInv, BaseInv
  <1>2. /\ m_recv' = Recvs /\ m_send' = Sends
        /\ recv_copy' = <<>> /\ send_copy' = <<>> /\ pc' = "select"
        /\ UNCHANGED <<client_vars, network, server_vars>>
    BY DEF Merge, OldFirst, Recvs, Sends
  <1>3. IsSeq(Recvs) /\ IsSeq(Sends)
    BY <1>1, QueueShape
  <1>4. PICK r, s : r = Recvs /\ s = Sends
    OBVIOUS
  <1>5. m_recv' = r /\ m_send' = s /\ <<>> \o r = r /\ <<>> \o s = s
    BY <1>2, <1>3, <1>4, ConcatEmpty
  <1>6. Recvs' = r /\ Sends' = s
    BY <1>2, <1>5 DEF Recvs, Sends
  <1>7. IsSeq(send_copy') /\ IsSeq(m_send')
    BY <1>2, <1>3, EmptyShape
  <1>8. Recvs' = Recvs /\ Sends' = Sends /\ pc' # "undefined"
    BY <1>2, <1>4, <1>6
  <1> QED
    BY <1>2, <1>7, <1>8, OrderTurn

\* A receive is taken out of the queues.
LEMMA RecvsTaken ==
    ASSUME TurnInv, NEW j \in 1..Len(recv_copy), recv_copy' = RemoveAt(recv_copy, j)
    PROVE  /\ recv_copy' \o m_recv = RemoveAt(Recvs, j) /\ IsSeq(recv_copy')
           /\ Without(recv_copy' \o m_recv, Recvs, j)
           /\ Recvs[j] = recv_copy[j] /\ recv_copy[j] \in Range(Recvs)
  <1>1. IsSeq(recv_copy) /\ IsSeq(m_recv) /\ IsSeq(Recvs) /\ Joined(Recvs, recv_copy, m_recv)
    BY QueueShape
  <1>2. recv_copy' \o m_recv = RemoveAt(Recvs, j)
    BY <1>1, RemoveConcat DEF Recvs
  <1>3. Recvs[j] = recv_copy[j] /\ j \in 1..Len(Recvs)
    BY <1>1 DEF Joined
  <1>4. Recvs[j] \in Range(Recvs)
    BY <1>1, <1>3, SeqShape
  <1>5. IsSeq(recv_copy')
    BY <1>1, RemoveIs DEF Without
  <1>6. Without(recv_copy' \o m_recv, Recvs, j)
    BY <1>1, <1>2, <1>3, RemoveIs
  <1> QED
    BY <1>2, <1>3, <1>4, <1>5, <1>6

LEMMA OrderClose ==
    ASSUME ServerInv, RecvStep, NEW a, a = recv_copy[First(ReadyRecvs)],
           to_server[Fd(a)] = <<>>
    PROVE  OrderInv' /\ SendInv' /\ AnswerInv' /\ ExecutedInv'
  <1>1. BaseInv /\ ClientInv /\ ListInv /\ TurnInv
        /\ OrderInv /\ SendInv /\ Owed /\ Settled /\ ExecutedInv
    BY DEF ServerInv, BaseInv, AnswerInv
  <1>2. PICK j : j = First(ReadyRecvs)
    OBVIOUS
  <1>3. /\ j \in 1..Len(recv_copy) /\ a = recv_copy[j] /\ a \in Live /\ Readable(Fd(a))
        /\ Close(a) /\ recv_copy' = RemoveAt(recv_copy, j)
        /\ UNCHANGED <<conn, cmds, sent, got, to_client, backlog, m_clients, fds, pc, send_copy>>
    BY <1>1, <1>2, RecvServed
  <1>4. /\ handler' = [handler EXCEPT ![a].m_closed = TRUE]
        /\ UNCHANGED <<to_server, m_recv, m_send>>
    BY <1>3 DEF Close
  <1>5. a \in Addr /\ handler[a] \in Node /\ handler \in [Addr -> Node]
        /\ \A b \in Live : b \in Addr /\ Fd(b) \in Client
    BY <1>1, <1>3, LiveNode DEF ListInv
  <1>6. /\ handler'[a].m_closed = TRUE /\ \A b \in Addr : b # a => handler'[b] = handler[b]
        /\ \A b \in Live : /\ handler'[b].fd = handler[b].fd
                           /\ handler'[b].m_stream = handler[b].m_stream
    BY <1>4, <1>5 DEF Node
  <1>7. /\ Live' = Live /\ Waiting' = Waiting /\ \A b \in Live : Fd(b)' = Fd(b)
    BY <1>3, <1>6 DEF Live, Waiting, Fd
  <1>8. \A b \in Live : Gone(b)' <=> Gone(b)
    BY <1>3, <1>7 DEF Gone
  <1>9. Gone(a)
    BY <1>3 DEF Readable, Gone
  <1>10. /\ IsInjective(Recvs') /\ a \notin Range(Recvs')
         /\ Range(Recvs) = Range(Recvs') \cup {a}
    <2>1. Recvs' = recv_copy' \o m_recv
      BY <1>4 DEF Recvs
    <2>2. Without(Recvs', Recvs, j) /\ Recvs[j] = a
      BY <1>1, <1>3, <2>1, RecvsTaken
    <2> QED
      BY <1>1, <2>2 DEF Without, OrderInv
  <1>11. Sends' = Sends /\ IsSeq(send_copy) /\ IsSeq(m_send)
    BY <1>1, <1>3, <1>4, QueueShape DEF Sends
  <1>12. OrderInv'
    <2>1. \A x, b : Before(x, b)' <=> Before(x, b)
      BY <1>3 DEF Before
    <2>2. \A x \in Live : handler[x].m_closed => handler'[x].m_closed
      BY <1>5, <1>6
    <2>3. \A x, b \in Live' : Before(x, b)' /\ Gone(x)' => handler'[b].m_closed
      BY <1>1, <1>7, <1>8, <2>1, <2>2 DEF OrderInv
    <2>4. \A x \in Live' : handler'[x].m_closed => Gone(x)'
      BY <1>1, <1>5, <1>6, <1>7, <1>8, <1>9 DEF OrderInv
    <2>5. backlog' # <<>> => \A x \in Live' : Gone(x)' => handler'[x].m_closed
      BY <1>1, <1>3, <1>7, <1>8, <2>2 DEF OrderInv
    <2>6. Range(Recvs') = {x \in Live' : ~handler'[x].m_closed}
      <3>1. Range(Recvs) = {x \in Live : ~handler[x].m_closed}
        BY <1>1 DEF OrderInv
      <3> QED
        BY <1>5, <1>6, <1>7, <1>10, <3>1
    <2>7. pc' # "undefined" /\ fds' = {Fd(x)' : x \in Live'} /\ \A c \in Waiting' : conn'[c] = "in"
      BY <1>1, <1>3, <1>7 DEF OrderInv
    <2> QED
      BY <1>10, <2>3, <2>4, <2>5, <2>6, <2>7 DEF OrderInv
  <1>13. \A d : OpsOn(d)' = OpsOn(d)
    <2>1. \A d : OpsOn(d)' = {op \in Range(Sends') : Fd(op.addr)' = d}
      BY <1>3, <1>4, <1>11, OpsOfNextSends
    <2>2. \A d : OpsOn(d) = {op \in Range(Sends) : Fd(op.addr) = d}
      BY <1>1, OpsOfSends
    <2>3. \A op \in Range(Sends) : Fd(op.addr)' = Fd(op.addr)
      BY <1>1, <1>6, OpsLive DEF Fd
    <2> QED
      BY <1>11, <2>1, <2>2, <2>3
  <1>14. \A d : Met(d)' = Met(d) /\ (Clean(d)' <=> Clean(d)) /\ Executed(d)' = Executed(d)
    BY <1>3, <1>13 DEF Met, Clean, Executed
  <1>15. \A b \in Live : /\ Base(b)' = Base(b) /\ Fd(b)' = Fd(b) /\ Met(Fd(b))' = Met(Fd(b))
                         /\ (Clean(Fd(b))' => Clean(Fd(b)))
                         /\ Executed(Fd(b))' = Executed(Fd(b))
    <2>1. \A b \in Live : Base(b)' = Base(b)
      BY <1>3, <1>4, <1>6, <1>7 DEF Base
    <2> QED
      BY <1>7, <1>14, <2>1
  <1>16. SendInv'
    BY <1>1, <1>7, <1>11, <1>15, SendStaysHere
  <1>17. Owed'
    BY <1>1, <1>7, <1>15, OwedStays
  <1>18. Settled'
    BY <1>1, <1>3, <1>7, <1>14 DEF Settled
  <1>19. ExecutedInv'
    BY <1>1, <1>7, <1>15, ExecutedStays
  <1> QED
    BY <1>12, <1>16, <1>17, <1>18, <1>19 DEF AnswerInv

\* The receive is armed again: it goes from the front to the back.
LEMMA RecvsRotated ==
    ASSUME TurnInv, OrderInv, NEW j \in 1..Len(recv_copy), NEW a, a = recv_copy[j],
           recv_copy' = RemoveAt(recv_copy, j), m_recv' = Append(m_recv, a)
    PROVE  IsInjective(Recvs') /\ Range(Recvs') = Range(Recvs) /\ a \in Range(Recvs)
  <1>1. IsSeq(m_recv) /\ IsInjective(Recvs)
    BY QueueShape DEF OrderInv
  <1>2. PICK q : q = recv_copy' \o m_recv
    OBVIOUS
  <1>3. /\ IsSeq(recv_copy') /\ Without(q, Recvs, j) /\ Recvs[j] = a /\ a \in Range(Recvs)
    BY <1>2, RecvsTaken
  <1>4. /\ IsSeq(q) /\ IsInjective(q) /\ a \notin Range(q) /\ Range(Recvs) = Range(q) \cup {a}
    BY <1>1, <1>3 DEF Without
  <1>5. Recvs' = Append(q, a)
    <2>1. m_recv' = m_recv \o <<a>> /\ IsSeq(<<a>>)
      BY <1>1, AppendSeq, OneSeq
    <2>2. Recvs' = recv_copy' \o (m_recv \o <<a>>)
      BY <2>1 DEF Recvs
    <2>3. (recv_copy' \o m_recv) \o <<a>> = recv_copy' \o (m_recv \o <<a>>)
      BY <1>1, <1>3, <2>1, ConcatTwice
    <2>4. Append(q, a) = q \o <<a>>
      BY <1>4, AppendSeq
    <2> QED
      BY <1>2, <2>2, <2>3, <2>4
  <1>6. IsInjective(Recvs')
    BY <1>4, <1>5, AppendInjectiveSeq
  <1>7. Range(Recvs') = Range(q) \cup {a}
    <2>1. PICK r : r = Recvs'
      OBVIOUS
    <2>2. Appended(r, q, a)
      BY <1>4, <1>5, <2>1, AppendIs
    <2> QED
      BY <2>1, <2>2 DEF Appended
  <1> QED
    BY <1>3, <1>4, <1>6, <1>7

\* The operations after a receive of node a, of client c, e of whose commands
\* had been executed, and then m more.
Grown(a, c, e, m, new) ==
    /\ Joined(Sends', Sends, new) /\ IsSeq(new) /\ Len(new) \in {m, m + 1}
    /\ e \in Nat /\ m \in Nat /\ c = Fd(a) /\ a \in Live
    /\ Base(a) = 2 * e /\ Base(a)' = 2 * (e + m)
    /\ \A i \in 1..m : new[i].addr = a /\ new[i].n = e + i /\ new[i].res # Invalid
    /\ Len(new) = m + 1 => new[m + 1].addr = a /\ new[m + 1].res = Invalid /\ ~Clean(c)
    /\ Live' = Live /\ (\A b \in Live : Fd(b)' = Fd(b) /\ (b # a => Base(b)' = Base(b)))
    /\ UNCHANGED <<cmds, got, to_client>>
    /\ \A d : OpsOn(d)' = {op \in Range(Sends') : Fd(op.addr)' = d}

LEMMA GrownDue ==
    ASSUME BaseInv, SendInv, Owed,
           NEW a, NEW c, NEW e, NEW m, NEW new, Grown(a, c, e, m, new)
    PROVE  \A op \in Range(Sends') : Due(op)'
  <1> SUFFICES ASSUME NEW op \in Range(Sends') PROVE Due(op)'
    OBVIOUS
  <1>1. ClientInv /\ ListInv /\ TurnInv
    BY DEF BaseInv
  <1>2. \A d : Met(d)' = Met(d) /\ (Clean(d)' <=> Clean(d))
    BY DEF Grown, Met, Clean
  <1>3. Range(Sends') = Range(Sends) \cup Range(new)
    BY DEF Grown, Joined
  <1>4. CASE op \in Range(Sends)
    <2>1. PICK b, n : b = op.addr /\ n = op.n
      OBVIOUS
    <2>2. b \in Live /\ (Clean(Fd(b)) => n \in Nat /\ Met(Fd(b)) < n /\ 2 * n <= Base(b))
      BY <1>4, <2>1 DEF SendInv, Due
    <2>3. 2 * n <= Base(b) /\ n \in Nat => 2 * n <= Base(b)'
      <3>1. CASE b = a
        <4>1. e \in Nat /\ m \in Nat /\ Base(b) = 2 * e /\ Base(b)' = 2 * (e + m)
          BY <3>1 DEF Grown
        <4> QED
          BY <4>1
      <3>2. CASE b # a
        BY <2>2, <3>2 DEF Grown
      <3> QED
        BY <3>1, <3>2
    <2>4. Fd(b)' = Fd(b) /\ b \in Live'
      BY <2>2 DEF Grown
    <2>5. Clean(Fd(b))' => n \in Nat /\ Met(Fd(b))' < n /\ 2 * n <= Base(b)'
      BY <1>2, <2>2, <2>3, <2>4
    <2> QED
      BY <2>1, <2>4, <2>5 DEF Due
  <1>5. CASE op \in Range(new)
    <2>1. PICK i \in 1..Len(new) : op = new[i]
      BY <1>5, SeqShape DEF Grown
    <2>2. e \in Nat /\ m \in Nat /\ Len(new) \in {m, m + 1} /\ (Len(new) = m + 1 => ~Clean(c))
      BY DEF Grown
    <2>3. PICK l : l = Len(new)
      OBVIOUS
    <2>4. i \in 1..m \/ (i = m + 1 /\ l = m + 1)
      BY <2>1, <2>2, <2>3
    <2>5. op.addr = a /\ a \in Live' /\ Fd(a)' = c /\ c = Fd(a) /\ a \in Live
      BY <2>1, <2>3, <2>4 DEF Grown
    <2>6. ASSUME Clean(c)' PROVE op.n \in Nat /\ Met(c)' < op.n /\ 2 * op.n <= Base(a)'
      <3>1. i \in 1..m
        BY <1>2, <2>2, <2>3, <2>4, <2>6
      <3>2. op.n = e + i /\ Base(a) = 2 * e /\ Base(a)' = 2 * (e + m)
        BY <2>1, <3>1 DEF Grown
      <3>3. 2 * Met(c) <= Base(a)
        BY <1>2, <2>5, <2>6 DEF Owed
      <3>4. Met(c) \in Nat
        <4>1. Len(got[c]) \in Nat /\ Len(to_client[c]) \in Nat
          BY <1>1, <2>5, LiveNode, ClientShape
        <4>2. PICK g, t : g = Len(got[c]) /\ t = Len(to_client[c])
          OBVIOUS
        <4>3. g \in Nat /\ t \in Nat /\ Met(c) = g + t
          BY <4>1, <4>2 DEF Met
        <4> QED
          BY <4>3
      <3>5. PICK t : t = Met(c)
        OBVIOUS
      <3>6. t \in Nat /\ 2 * t <= 2 * e /\ Met(c)' = t
        BY <1>2, <3>2, <3>3, <3>4, <3>5
      <3> QED
        BY <2>2, <3>1, <3>2, <3>6
    <2> QED
      BY <2>5, <2>6 DEF Due
  <1> QED
    BY <1>3, <1>4, <1>5

LEMMA GrownRising ==
    ASSUME BaseInv, SendInv,
           NEW a, NEW c, NEW e, NEW m, NEW new, Grown(a, c, e, m, new),
           NEW b \in Live, Clean(Fd(b))
    PROVE  Rising(Sends', b)
  <1>1. PICK s, r : s = Sends /\ r = Sends'
    OBVIOUS
  <1>2. /\ IsSeq(s) /\ Len(s) \in Nat /\ Len(new) \in Nat /\ Len(r) = Len(s) + Len(new)
        /\ (\A i \in 1..Len(s) : r[i] = s[i]) /\ (\A i \in 1..Len(new) : r[Len(s) + i] = new[i])
    BY <1>1, QueueShape DEF Grown, Joined, BaseInv
  <1>3. /\ e \in Nat /\ m \in Nat /\ Len(new) \in {m, m + 1}
        /\ \A i \in 1..m : new[i].addr = a /\ new[i].n = e + i
        /\ Len(new) = m + 1 => new[m + 1].addr = a /\ ~Clean(Fd(a))
        /\ Base(a) = 2 * e
    BY DEF Grown
  <1>4. Rising(s, b)
    BY <1>1 DEF SendInv
  <1>5. PICK ls, ln, lr : ls = Len(s) /\ ln = Len(new) /\ lr = Len(r)
    OBVIOUS
  <1>6. ls \in Nat /\ ln \in Nat /\ lr = ls + ln /\ ln \in {m, m + 1}
    BY <1>2, <1>3, <1>5
  <1>7. ASSUME NEW i \in 1..ln PROVE new[i].addr = a
    BY <1>3, <1>5, <1>6
  <1>8. ASSUME NEW i \in 1..lr, NEW j \in 1..lr, i < j, r[i].addr = b, r[j].addr = b
        PROVE  r[i].n < r[j].n
    <2>1. CASE j <= ls
      <3>1. i \in 1..ls /\ j \in 1..ls
        BY <1>6, <1>8, <2>1
      <3>2. r[i] = s[i] /\ r[j] = s[j]
        BY <1>2, <1>5, <3>1
      <3> QED
        BY <1>4, <1>5, <1>8, <3>1, <3>2 DEF Rising
    <2>2. CASE ~(j <= ls)
      <3>1. PICK y \in 1..ln : j = ls + y
        <4>1. j - ls \in 1..ln /\ j = ls + (j - ls)
          BY <1>6, <2>2
        <4> QED
          BY <4>1
      <3>2. r[j] = new[y]
        BY <1>2, <1>5, <3>1
      <3>3. b = a
        BY <1>7, <1>8, <3>2
      <3>4. ln = m
        BY <1>3, <1>5, <1>6, <3>3
      <3>5. r[j].n = e + y /\ y \in 1..m
        BY <1>3, <3>1, <3>2, <3>4
      <3>6. CASE i <= ls
        <4>1. i \in 1..ls
          BY <1>6, <3>6
        <4>2. r[i] = s[i] /\ s[i] \in Range(Sends)
          BY <1>1, <1>2, <1>5, <4>1, SeqShape
        <4>3. PICK op, n : op = r[i] /\ n = op.n
          OBVIOUS
        <4>4. Due(op) /\ op.addr = a
          BY <1>8, <3>3, <4>2, <4>3 DEF SendInv
        <4>5. n \in Nat /\ 2 * n <= 2 * e
          BY <1>3, <3>3, <4>3, <4>4 DEF Due
        <4> QED
          BY <1>3, <3>5, <4>3, <4>5
      <3>7. CASE ~(i <= ls)
        <4>1. PICK x \in 1..ln : i = ls + x
          <5>1. i - ls \in 1..ln /\ i = ls + (i - ls)
            BY <1>6, <3>7
          <5> QED
            BY <5>1
        <4>2. r[i] = new[x]
          BY <1>2, <1>5, <4>1
        <4>3. r[i].n = e + x
          BY <1>3, <3>4, <4>1, <4>2
        <4>4. x < y
          BY <1>6, <1>8, <3>1, <4>1
        <4> QED
          BY <1>3, <3>5, <4>1, <4>3, <4>4
      <3> QED
        BY <3>6, <3>7
    <2> QED
      BY <2>1, <2>2
  <1> QED
    BY <1>1, <1>5, <1>8 DEF Rising

\* The commands of the receive are executed, once each.
LEMMA GrownExecuted ==
    ASSUME BaseInv, SendInv, ExecutedInv,
           NEW a, NEW c, NEW e, NEW m, NEW new, Grown(a, c, e, m, new)
    PROVE  ExecutedInv'
  <1>1. ClientInv /\ ListInv /\ TurnInv
    BY DEF BaseInv
  <1>2. /\ e \in Nat /\ m \in Nat /\ c = Fd(a) /\ a \in Live /\ IsSeq(new)
        /\ Range(Sends') = Range(Sends) \cup Range(new)
        /\ Base(a) = 2 * e /\ Base(a)' = 2 * (e + m)
        /\ \A d : OpsOn(d)' = {op \in Range(Sends') : Fd(op.addr)' = d}
        /\ Live' = Live /\ (\A b \in Live : Fd(b)' = Fd(b) /\ (b # a => Base(b)' = Base(b)))
        /\ UNCHANGED <<got, to_client>>
    BY DEF Grown, Joined
  <1>3. \A op \in Range(Sends) : op.addr \in Live
    BY DEF SendInv, Due
  <1>4. \A op \in Range(new) : op.addr = a /\ Fd(op.addr)' = c
    <2>1. \A i \in 1..Len(new) : new[i].addr = a
      <3>1. \A i \in 1..m : new[i].addr = a
        BY DEF Grown
      <3>2. Len(new) \in {m, m + 1} /\ (Len(new) = m + 1 => new[m + 1].addr = a)
        BY DEF Grown
      <3>3. PICK l : l = Len(new)
        OBVIOUS
      <3> QED
        BY <1>2, <3>1, <3>2, <3>3
    <2>2. \A op \in Range(new) : op.addr = a
      BY <1>2, <2>1, SeqShape
    <2> QED
      BY <1>2, <2>2
  <1>5. \A d : OpsOn(d) = {op \in Range(Sends) : Fd(op.addr) = d}
    BY <1>1, OpsOfSends
  <1>6. ASSUME NEW b \in Live, b # a PROVE Executed(Fd(b))' = 1..(Base(b)' \div 2)
    <2>1. PICK d : d = Fd(b)
      OBVIOUS
    <2>2. d # c /\ Fd(b)' = d /\ Base(b)' = Base(b)
      BY <1>1, <1>2, <1>6, <2>1 DEF ListInv
    <2>3. OpsOn(d)' = OpsOn(d)
      BY <1>2, <1>3, <1>4, <1>5, <2>2
    <2>4. Executed(d)' = Executed(d)
      BY <1>2, <2>3 DEF Executed
    <2>5. Executed(d) = 1..(Base(b) \div 2)
      BY <2>1 DEF ExecutedInv
    <2> QED
      BY <2>2, <2>4, <2>5
  <1>7. Executed(c)' = 1..(e + m)
    <2>1. OpsOn(c)' = OpsOn(c) \cup Range(new)
      BY <1>2, <1>3, <1>4, <1>5
    <2>2. Executed(c) = 1..e
      BY <1>2 DEF ExecutedInv
    <2>3. Executed(c)' = Executed(c) \cup {x.n : x \in {y \in Range(new) : y.res # Invalid}}
      BY <1>2, <2>1 DEF Executed
    <2>4. {x.n : x \in {y \in Range(new) : y.res # Invalid}} = {e + i : i \in 1..m}
      <3>1. ASSUME NEW y \in Range(new), y.res # Invalid PROVE \E i \in 1..m : y.n = e + i
        <4>1. PICK i \in 1..Len(new) : y = new[i]
          BY <1>2, SeqShape
        <4>2. Len(new) \in {m, m + 1} /\ (Len(new) = m + 1 => new[m + 1].res = Invalid)
          BY DEF Grown
        <4>3. PICK l : l = Len(new)
          OBVIOUS
        <4>4. i \in 1..m
          BY <1>2, <3>1, <4>1, <4>2, <4>3
        <4> QED
          BY <4>1, <4>4 DEF Grown
      <3>2. ASSUME NEW i \in 1..m
            PROVE  \E y \in Range(new) : y.res # Invalid /\ y.n = e + i
        <4>1. Len(new) \in {m, m + 1}
          BY DEF Grown
        <4>2. PICK l : l = Len(new)
          OBVIOUS
        <4>3. i \in 1..l
          BY <1>2, <4>1, <4>2
        <4>4. new[i] \in Range(new)
          BY <1>2, <4>2, <4>3, SeqShape
        <4>5. new[i].res # Invalid /\ new[i].n = e + i
          BY DEF Grown
        <4> QED
          BY <4>4, <4>5
      <3> QED
        BY <3>1, <3>2
    <2>5. 1..(e + m) = 1..e \cup {e + i : i \in 1..m}
      <3>1. ASSUME NEW x \in (1..(e + m)) \ (1..e) PROVE \E i \in 1..m : x = e + i
        <4>1. x - e \in 1..m /\ x = e + (x - e)
          BY <1>2
        <4> QED
          BY <4>1
      <3>2. e \in Nat /\ m \in Nat
        BY <1>2
      <3>3. 1..e \subseteq 1..(e + m) /\ \A i \in 1..m : e + i \in 1..(e + m)
        BY <3>2
      <3> QED
        BY <3>1, <3>3
    <2> QED
      BY <2>2, <2>3, <2>4, <2>5
  <1>8. Executed(Fd(a))' = 1..(Base(a)' \div 2)
    <2>1. PICK n : n = e + m
      OBVIOUS
    <2>2. n \in Nat /\ Base(a)' = 2 * n
      BY <1>2, <2>1
    <2>3. Base(a)' \div 2 = n /\ Fd(a)' = c
      BY <1>2, <2>2
    <2> QED
      BY <1>7, <2>1, <2>3
  <1> QED
    BY <1>2, <1>6, <1>8 DEF ExecutedInv

LEMMA OrderReceived ==
    ASSUME ServerInv, RecvStep, NEW a, a = recv_copy[First(ReadyRecvs)],
           to_server[Fd(a)] # <<>>
    PROVE  OrderInv' /\ SendInv' /\ AnswerInv' /\ ExecutedInv'
  <1>1. BaseInv /\ ClientInv /\ ListInv /\ StreamInv /\ TurnInv
        /\ OrderInv /\ SendInv /\ Owed /\ Settled /\ ExecutedInv
    BY DEF ServerInv, BaseInv, AnswerInv
  <1>2. PICK j : j = First(ReadyRecvs)
    OBVIOUS
  <1>3. /\ j \in 1..Len(recv_copy) /\ a = recv_copy[j] /\ a \in Live
        /\ Received(a) /\ recv_copy' = RemoveAt(recv_copy, j)
        /\ UNCHANGED <<conn, cmds, sent, got, to_client, backlog, m_clients, fds, pc, send_copy>>
    BY <1>1, <1>2, RecvServed
  <1>4. PICK c, s, e, k, m, new : c = Fd(a) /\ Handled(a, c, s, e, k, m, new)
    BY <1>1, <1>3, ReceivedIs
  <1>5. /\ handler'[a].fd = handler[a].fd /\ handler'[a].m_closed = handler[a].m_closed
        /\ \A b \in Addr : b # a => handler'[b] = handler[b]
    <2>1. Moves(a, c, s, e, k, m)
      BY <1>1, <1>3, <1>4, HandledMoves
    <2> QED
      BY <2>1 DEF Moves
  <1>6. /\ Base(a)' = 2 * (e + m) /\ Base(a) = 2 * e /\ e \in Nat /\ m \in Nat
        /\ \A b \in Live : b # a => Base(b)' = Base(b)
    BY <1>1, <1>3, <1>4, HandledBase
  <1>7. \A b \in Live : b \in Addr
    BY <1>1, LiveNode
  <1>8. /\ Live' = Live /\ Waiting' = Waiting
        /\ \A b \in Live : Fd(b)' = Fd(b) /\ handler'[b].m_closed = handler[b].m_closed
    BY <1>3, <1>5, <1>7 DEF Live, Waiting, Fd
  <1>9. /\ m_send' = m_send \o new /\ m_recv' = Append(m_recv, a) /\ IsSeq(new)
        /\ Len(new) \in {m, m + 1}
        /\ \A i \in 1..m : new[i].addr = a /\ new[i].n = e + i /\ new[i].res # Invalid
        /\ Len(new) = m + 1 => new[m + 1].addr = a /\ new[m + 1].res = Invalid /\ ~Clean(c)
    BY <1>4 DEF Handled
  <1>10. IsSeq(send_copy) /\ IsSeq(m_send) /\ IsSeq(Sends)
    BY <1>1, QueueShape
  <1>11. Sends' = Sends \o new
    <2>1. (send_copy \o m_send) \o new = send_copy \o (m_send \o new)
      BY <1>9, <1>10, ConcatTwice
    <2> QED
      BY <1>3, <1>9, <2>1 DEF Sends
  <1>12. Joined(Sends', Sends, new)
    <2>1. PICK r : r = Sends'
      OBVIOUS
    <2>2. Joined(r, Sends, new)
      BY <1>9, <1>10, <1>11, <2>1, ConcatIs
    <2> QED
      BY <2>1, <2>2
  <1>13. \A d : OpsOn(d)' = {op \in Range(Sends') : Fd(op.addr)' = d}
    <2>1. IsSeq(m_send')
      <3>1. Joined(m_send', m_send, new)
        BY <1>9, <1>10, ConcatIs
      <3> QED
        BY <3>1 DEF Joined
    <2> QED
      BY <1>3, <1>10, <2>1, OpsOfNextSends
  <1>14. Grown(a, c, e, m, new)
    BY <1>3, <1>4, <1>6, <1>8, <1>9, <1>12, <1>13 DEF Grown
  <1>15. OrderInv'
    <2>1. IsInjective(Recvs') /\ Range(Recvs') = Range(Recvs)
      BY <1>1, <1>3, <1>9, RecvsRotated
    <2>2. \A x, b : Before(x, b)' <=> Before(x, b)
      BY <1>3 DEF Before
    <2>3. \A b \in Live : Gone(b)' <=> Gone(b)
      BY <1>3, <1>8 DEF Gone
    <2>4. \A x, b \in Live' : Before(x, b)' /\ Gone(x)' => handler'[b].m_closed
      BY <1>1, <1>8, <2>2, <2>3 DEF OrderInv
    <2>5. /\ \A x \in Live' : handler'[x].m_closed => Gone(x)'
          /\ backlog' # <<>> => \A x \in Live' : Gone(x)' => handler'[x].m_closed
      BY <1>1, <1>3, <1>8, <2>3 DEF OrderInv
    <2>6. Range(Recvs') = {x \in Live' : ~handler'[x].m_closed}
      BY <1>1, <1>8, <2>1 DEF OrderInv
    <2>7. pc' # "undefined" /\ fds' = {Fd(x)' : x \in Live'} /\ \A d \in Waiting' : conn'[d] = "in"
      BY <1>1, <1>3, <1>8 DEF OrderInv
    <2> QED
      BY <2>1, <2>4, <2>5, <2>6, <2>7 DEF OrderInv
  <1>16. \A d : Met(d)' = Met(d) /\ (Clean(d)' <=> Clean(d))
    BY <1>3 DEF Met, Clean
  <1>17. SendInv'
    <2>1. \A op \in Range(Sends') : Due(op)'
      BY <1>1, <1>14, GrownDue
    <2>2. \A b \in Live : Clean(Fd(b)) => Rising(Sends', b)
      BY <1>1, <1>14, GrownRising
    <2>3. \A b \in Live' : Clean(Fd(b))' => Rising(Sends', b)
      BY <1>8, <1>16, <2>2
    <2>4. \A op \in Range(Sends)' : Due(op)'
      BY <2>1
    <2>5. \A b \in Live' : Clean(Fd(b))' => Rising(Sends, b)'
      BY <2>3 DEF Rising
    <2> QED
      BY <2>4, <2>5 DEF SendInv
  <1>18. Owed'
    <2> SUFFICES ASSUME NEW b \in Live, Clean(Fd(b))' PROVE 2 * Met(Fd(b))' <= Base(b)'
      BY <1>8 DEF Owed
    <2>1. Clean(Fd(b)) /\ Met(Fd(b))' = Met(Fd(b)) /\ 2 * Met(Fd(b)) <= Base(b)
      BY <1>1, <1>8, <1>16 DEF Owed
    <2>2. CASE b = a
      <3>1. Met(Fd(b)) \in Nat
        <4>1. PICK g, t : g = Len(got[Fd(b)]) /\ t = Len(to_client[Fd(b)])
          OBVIOUS
        <4>2. g \in Nat /\ t \in Nat /\ Met(Fd(b)) = g + t
          BY <1>1, <4>1, LiveNode, ClientShape DEF Met
        <4> QED
          BY <4>2
      <3>2. PICK t : t = Met(Fd(b))
        OBVIOUS
      <3>3. t \in Nat /\ 2 * t <= 2 * e
        BY <1>6, <2>1, <2>2, <3>1, <3>2
      <3> QED
        BY <1>6, <2>1, <2>2, <3>2, <3>3
    <2>3. CASE b # a
      BY <1>6, <2>1, <2>3
    <2> QED
      BY <2>2, <2>3
  <1>19. Settled'
    BY <1>1, <1>3, <1>8, <1>16 DEF Settled
  <1>20. ExecutedInv'
    BY <1>1, <1>14, GrownExecuted
  <1> QED
    BY <1>15, <1>17, <1>18, <1>19, <1>20 DEF AnswerInv

\* The answer that SendStep sends, op, is the first there is for its client.
Served(j, op, c) ==
    /\ j \in 1..Len(Sends) /\ op = Sends[j] /\ op \in Range(Sends) /\ op.addr \in Live
    /\ c = Fd(op.addr) /\ c \in Client
    /\ Without(Sends', Sends, j)
    /\ \A l \in 1..(j - 1) : Sends[l].addr # op.addr
    /\ DOMAIN to_client' = Client /\ (\A d \in Client : d # c => to_client'[d] = to_client[d])
    /\ Appended(to_client'[c], to_client[c], [n |-> op.n, res |-> op.res])
    /\ \A d : OpsOn(d)' = {x \in Range(Sends') : Fd(x.addr) = d}
    /\ UNCHANGED <<conn, cmds, sent, got, to_server, backlog, m_clients, handler, fds, pc,
                   m_recv, recv_copy>>

LEMMA ServedIs ==
    ASSUME BaseInv, SendInv, SendStep
    PROVE  \E j, op, c : Served(j, op, c)
  <1>1. ClientInv /\ ListInv /\ TurnInv
    BY DEF BaseInv
  <1>2. PICK j : j = First(ReadySends)
    OBVIOUS
  <1>3. PICK op : op = send_copy[j]
    OBVIOUS
  <1>4. PICK c : c = Fd(op.addr)
    OBVIOUS
  <1>5. /\ ReadySends # {}
        /\ to_client' = [to_client EXCEPT ![c] = Append(@, [n |-> op.n, res |-> op.res])]
        /\ send_copy' = RemoveAt(send_copy, j)
        /\ UNCHANGED <<client_vars, to_server, backlog, server_vars,
                       pc, queued, recv_copy, accept_copy, reported>>
    BY <1>2, <1>3, <1>4 DEF SendStep
  <1>6. UNCHANGED <<conn, cmds, sent, got, to_server, backlog, m_clients, handler, fds, pc,
                    m_recv, recv_copy, m_send>>
    BY <1>5 DEF client_vars, server_vars, queued
  <1>7. /\ j \in 1..Len(send_copy) /\ c \in wfds /\ op.addr \in Live
        /\ \A l \in 1..Len(send_copy) : Fd(send_copy[l].addr) \in wfds => j <= l
    BY <1>1, <1>2, <1>3, <1>4, <1>5, SendServed
  <1>8. c \in Client
    BY <1>1, <1>4, <1>7, LiveNode
  <1>9. /\ IsSeq(send_copy) /\ IsSeq(m_send) /\ IsSeq(Sends) /\ Joined(Sends, send_copy, m_send)
        /\ Len(send_copy) \in Nat
    BY <1>1, QueueShape, SeqShape
  <1>10. /\ Len(Sends) \in Nat /\ 1..Len(send_copy) \subseteq 1..Len(Sends)
         /\ \A l \in 1..Len(send_copy) : Sends[l] = send_copy[l]
    <2>1. PICK x, y, z : x = Len(Sends) /\ y = Len(send_copy) /\ z = Len(m_send)
      OBVIOUS
    <2>2. x = y + z /\ y \in Nat /\ z \in Nat
      BY <1>9, <2>1 DEF Joined
    <2>3. x \in Nat /\ 1..y \subseteq 1..x
      BY <2>2
    <2> QED
      BY <1>9, <2>1, <2>3 DEF Joined
  <1>11. j \in 1..Len(Sends) /\ op = Sends[j] /\ op \in Range(Sends)
    BY <1>3, <1>7, <1>9, <1>10, SeqShape
  <1>12. Sends' = RemoveAt(Sends, j)
    BY <1>5, <1>6, <1>7, <1>9, RemoveConcat DEF Sends
  <1>13. Without(Sends', Sends, j)
    <2>1. PICK r : r = Sends'
      OBVIOUS
    <2>2. Without(r, Sends, j)
      BY <1>9, <1>11, <1>12, <2>1, RemoveIs
    <2> QED
      BY <2>1, <2>2
  <1>14. \A l \in 1..(j - 1) : Sends[l].addr # op.addr
    <2> SUFFICES ASSUME NEW l \in 1..(j - 1), Sends[l].addr = op.addr PROVE FALSE
      OBVIOUS
    <2>1. l \in 1..Len(send_copy) /\ ~(j <= l)
      BY <1>7, <1>9
    <2>2. Fd(send_copy[l].addr) = c
      BY <1>4, <1>10, <2>1
    <2> QED
      BY <1>7, <2>1, <2>2
  <1>15. /\ DOMAIN to_client' = Client
         /\ \A d \in Client : d # c => to_client'[d] = to_client[d]
         /\ to_client'[c] = Append(to_client[c], [n |-> op.n, res |-> op.res])
         /\ IsSeq(to_client[c])
    BY <1>1, <1>5, <1>8, ClientShape DEF ClientInv
  <1>16. Appended(to_client'[c], to_client[c], [n |-> op.n, res |-> op.res])
    <2>1. PICK x, y, r : x = [n |-> op.n, res |-> op.res] /\ y = to_client[c] /\ r = to_client'[c]
      OBVIOUS
    <2>2. IsSeq(y) /\ r = Append(y, x)
      BY <1>15, <2>1
    <2>3. Appended(r, y, x)
      BY <2>2, AppendIs
    <2> QED
      BY <2>1, <2>3
  <1>17. \A d : OpsOn(d)' = {x \in Range(Sends') : Fd(x.addr) = d}
    <2>1. IsSeq(send_copy') /\ IsSeq(m_send')
      BY <1>5, <1>6, <1>7, <1>9, RemoveIs DEF Without
    <2>2. \A d : OpsOn(d)' = {x \in Range(Sends') : Fd(x.addr)' = d}
      BY <2>1, OpsOfNextSends
    <2>3. \A x : Fd(x)' = Fd(x)
      BY <1>6 DEF Fd
    <2>4. \A x : Fd(x.addr)' = Fd(x.addr)
      BY <2>3
    <2> QED
      BY <2>2, <2>4
  <1>18. Served(j, op, c)
    BY <1>4, <1>6, <1>7, <1>8, <1>11, <1>13, <1>14, <1>15, <1>16, <1>17 DEF Served
  <1> QED
    BY <1>18

\* Those that remain for the client come after it.
LEMMA ServedDue ==
    ASSUME BaseInv, SendInv, NEW j, NEW op, NEW c, Served(j, op, c), NEW x \in Range(Sends')
    PROVE  /\ Due(x) /\ x \in Range(Sends)
           /\ x.addr = op.addr /\ Clean(c) => op.n < x.n
  <1>1. IsSeq(Sends) /\ Len(Sends) \in Nat
    BY QueueShape DEF BaseInv
  <1>2. /\ j \in 1..Len(Sends) /\ op = Sends[j] /\ op.addr \in Live /\ c = Fd(op.addr)
        /\ Without(Sends', Sends, j) /\ \A l \in 1..(j - 1) : Sends[l].addr # op.addr
    BY DEF Served
  <1>3. /\ IsSeq(Sends') /\ Len(Sends') = Len(Sends) - 1
        /\ \A i \in 1..(Len(Sends) - 1) : Sends'[i] = IF i < j THEN Sends[i] ELSE Sends[i + 1]
        /\ Range(Sends) = Range(Sends') \cup {Sends[j]}
    BY <1>2 DEF Without
  <1>4. x \in Range(Sends) /\ Due(x)
    BY <1>3 DEF SendInv
  <1>5. ASSUME x.addr = op.addr, Clean(c) PROVE op.n < x.n
    <2>1. PICK i \in 1..Len(Sends') : x = Sends'[i]
      BY <1>3, SeqShape
    <2>2. PICK r, lr, s, ls : r = Sends' /\ lr = Len(Sends') /\ s = Sends /\ ls = Len(Sends)
      OBVIOUS
    <2>3. ls \in Nat /\ lr = ls - 1 /\ i \in 1..lr /\ j \in 1..ls
      BY <1>1, <1>2, <1>3, <2>1, <2>2
    <2>4. CASE i < j
      <3>1. i \in 1..(j - 1) /\ i \in 1..(ls - 1)
        BY <2>3, <2>4
      <3>2. x = s[i]
        BY <1>3, <2>1, <2>2, <2>4, <3>1
      <3> QED
        BY <1>2, <1>5, <2>2, <3>1, <3>2
    <2>5. CASE ~(i < j)
      <3>1. PICK l : l = i + 1
        OBVIOUS
      <3>2. l \in 1..ls /\ j < l /\ i \in 1..(ls - 1)
        BY <2>3, <2>5, <3>1
      <3>3. x = s[l]
        BY <1>3, <2>1, <2>2, <2>5, <3>1, <3>2
      <3>4. Rising(s, op.addr)
        BY <1>2, <1>5, <2>2 DEF SendInv
      <3>5. s[j].n < s[l].n
        BY <1>2, <1>5, <2>2, <2>3, <3>2, <3>3, <3>4 DEF Rising
      <3> QED
        BY <1>2, <2>2, <3>3, <3>5
    <2> QED
      BY <2>4, <2>5
  <1> QED
    BY <1>4, <1>5

LEMMA ServedRising ==
    ASSUME BaseInv, SendInv, NEW j, NEW op, NEW c, Served(j, op, c),
           NEW b \in Live, Clean(Fd(b))
    PROVE  Rising(Sends', b)
  <1>1. PICK r, lr, s, ls : r = Sends' /\ lr = Len(Sends') /\ s = Sends /\ ls = Len(Sends)
    OBVIOUS
  <1>2. /\ ls \in Nat /\ lr = ls - 1 /\ j \in 1..ls
        /\ \A i \in 1..(ls - 1) : r[i] = IF i < j THEN s[i] ELSE s[i + 1]
    BY <1>1, QueueShape DEF Served, Without, BaseInv
  <1>3. Rising(s, b)
    BY <1>1 DEF SendInv
  <1>4. ASSUME NEW i \in 1..lr
        PROVE  \E l \in 1..ls : r[i] = s[l] /\ l = IF i < j THEN i ELSE i + 1
    <2>1. i \in 1..(ls - 1) /\ i \in 1..ls /\ i + 1 \in 1..ls
      BY <1>2
    <2> QED
      BY <1>2, <2>1
  <1>5. ASSUME NEW i \in 1..lr, NEW k \in 1..lr, i < k, r[i].addr = b, r[k].addr = b
        PROVE  r[i].n < r[k].n
    <2>1. PICK x \in 1..ls : r[i] = s[x] /\ x = IF i < j THEN i ELSE i + 1
      BY <1>4
    <2>2. PICK y \in 1..ls : r[k] = s[y] /\ y = IF k < j THEN k ELSE k + 1
      BY <1>4
    <2>3. x < y
      BY <1>2, <1>5, <2>1, <2>2
    <2> QED
      BY <1>1, <1>3, <1>5, <2>1, <2>2, <2>3 DEF Rising
  <1> QED
    BY <1>1, <1>5 DEF Rising

LEMMA OrderSendStep ==
    ASSUME ServerInv, SendStep
    PROVE  OrderInv' /\ SendInv' /\ AnswerInv' /\ ExecutedInv'
  <1>1. BaseInv /\ ClientInv /\ ListInv /\ TurnInv
        /\ OrderInv /\ SendInv /\ AnswerInv /\ Owed /\ Settled /\ ExecutedInv
    BY DEF ServerInv, BaseInv, AnswerInv
  <1>2. PICK j, op, c : Served(j, op, c)
    BY <1>1, ServedIs
  <1>3. /\ op \in Range(Sends) /\ op.addr \in Live /\ c = Fd(op.addr) /\ c \in Client
        /\ Range(Sends) = Range(Sends') \cup {op}
        /\ \A d \in Client : d # c => to_client'[d] = to_client[d]
        /\ UNCHANGED <<conn, cmds, sent, got, to_server, backlog, m_clients, handler, fds, pc,
                       m_recv, recv_copy>>
    BY <1>2 DEF Served, Without
  <1>4. /\ Live' = Live /\ Recvs' = Recvs /\ Waiting' = Waiting /\ \A b : Fd(b)' = Fd(b)
    BY <1>3 DEF Live, Recvs, Waiting, Fd
  <1>5. \A b \in Live : Base(b)' = Base(b) /\ Fd(b) \in Client
    BY <1>1, <1>3, BaseStays, LiveNode
  <1>6. \A d : Clean(d)' <=> Clean(d)
    BY <1>3 DEF Clean
  <1>7. Due(op) /\ ~Gone(op.addr)
    BY <1>1, <1>3, GoneIsDone DEF SendInv
  <1>8. /\ Met(c) \in Nat /\ Met(c)' = Met(c) + 1
        /\ \A d \in Client : d # c => Met(d)' = Met(d)
    <2>1. PICK g, t : g = Len(got[c]) /\ t = Len(to_client[c])
      OBVIOUS
    <2>2. g \in Nat /\ t \in Nat /\ Met(c) = g + t
      BY <1>1, <1>3, <2>1, ClientShape DEF Met
    <2>3. Len(to_client'[c]) = t + 1
      BY <1>2, <2>1 DEF Served, Appended
    <2>4. Met(c)' = g + (t + 1)
      BY <1>3, <2>1, <2>3 DEF Met
    <2>5. \A d \in Client : d # c => Met(d)' = Met(d)
      BY <1>3 DEF Met
    <2>6. Met(c) \in Nat /\ Met(c)' = Met(c) + 1
      BY <2>2, <2>4
    <2> QED
      BY <2>5, <2>6
  <1>9. OrderInv'
    BY <1>1, <1>3, <1>4, OrderStays DEF OrderInv
  <1>10. SendInv'
    <2>1. ASSUME NEW x \in Range(Sends') PROVE Due(x)'
      <3>1. PICK b, n : b = x.addr /\ n = x.n
        OBVIOUS
      <3>2. Due(x) /\ (b = op.addr /\ Clean(c) => op.n < n)
        BY <1>1, <1>2, <3>1, ServedDue
      <3>3. b \in Live /\ (Clean(Fd(b)) => n \in Nat /\ Met(Fd(b)) < n /\ 2 * n <= Base(b))
        BY <3>1, <3>2 DEF Due
      <3>4. Clean(Fd(b)) => n \in Nat /\ Met(Fd(b))' < n /\ 2 * n <= Base(b)
        <4>1. CASE Fd(b) = c
          <5>1. b = op.addr
            BY <1>1, <1>3, <3>3, <4>1 DEF ListInv
          <5>2. Clean(c) => op.n \in Nat /\ Met(c) < op.n
            BY <1>3, <1>7 DEF Due
          <5>3. PICK q, t : q = op.n /\ t = Met(c)
            OBVIOUS
          <5>4. Clean(c) => q \in Nat /\ t < q /\ q < n /\ n \in Nat /\ t \in Nat /\ Met(c)' = t + 1
            BY <1>8, <3>2, <3>3, <4>1, <5>1, <5>2, <5>3
          <5> QED
            BY <1>4, <3>3, <4>1, <5>4
        <4>2. CASE Fd(b) # c
          BY <1>4, <1>5, <1>8, <3>3, <4>2
        <4> QED
          BY <4>1, <4>2
      <3>5. b \in Live' /\ (Clean(Fd(b))' => n \in Nat /\ Met(Fd(b))' < n /\ 2 * n <= Base(b)')
        BY <1>4, <1>5, <1>6, <3>3, <3>4
      <3> QED
        BY <3>1, <3>5 DEF Due
    <2>2. \A b \in Live : Clean(Fd(b)) => Rising(Sends', b)
      BY <1>1, <1>2, ServedRising
    <2>3. \A b \in Live' : Clean(Fd(b))' => Rising(Sends', b)
      BY <1>4, <1>6, <2>2
    <2>4. \A x \in Range(Sends)' : Due(x)'
      BY <2>1
    <2>5. \A b \in Live' : Clean(Fd(b))' => Rising(Sends, b)'
      BY <2>3 DEF Rising
    <2> QED
      BY <2>4, <2>5 DEF SendInv
  <1>11. Owed'
    <2> SUFFICES ASSUME NEW b \in Live, Clean(Fd(b)) PROVE 2 * Met(Fd(b))' <= Base(b)
      BY <1>4, <1>5, <1>6 DEF Owed
    <2>1. CASE Fd(b) = c
      <3>1. b = op.addr
        BY <1>1, <1>3, <2>1 DEF ListInv
      <3>2. op.n \in Nat /\ Met(c) < op.n /\ 2 * op.n <= Base(b)
        BY <1>3, <1>7, <2>1, <3>1 DEF Due
      <3>3. PICK q, t, y : q = op.n /\ t = Met(c) /\ y = Base(b)
        OBVIOUS
      <3>4. y \in Nat
        BY <1>1, <3>3, BaseBound DEF BaseInv
      <3>5. q \in Nat /\ t \in Nat /\ t < q /\ 2 * q <= y /\ Met(c)' = t + 1
        BY <1>8, <3>2, <3>3
      <3>6. 2 * (t + 1) <= y
        BY <3>4, <3>5
      <3> QED
        BY <1>4, <2>1, <3>3, <3>5, <3>6
    <2>2. CASE Fd(b) # c
      BY <1>1, <1>4, <1>5, <1>8, <2>2 DEF Owed
    <2> QED
      BY <2>1, <2>2
  <1>12. Settled'
    <2>1. conn[c] # "out" /\ c \notin Waiting /\ conn[c] # "left"
      BY <1>1, <1>3, <1>7 DEF ListInv, Gone
    <2> QED
      BY <1>1, <1>3, <1>4, <1>6, <2>1 DEF Settled
  <1>13. \A b \in Live : Executed(Fd(b))' = Executed(Fd(b))
    <2> SUFFICES ASSUME NEW d \in Client PROVE Executed(d)' = Executed(d)
      BY <1>4, <1>5
    <2>1. /\ OpsOn(d)' = {x \in Range(Sends') : Fd(x.addr) = d}
          /\ OpsOn(d) = {x \in Range(Sends) : Fd(x.addr) = d}
      BY <1>1, <1>2, OpsOfSends DEF Served
    <2>2. CASE d = c
      <3>1. PICK y : y = [n |-> op.n, res |-> op.res]
        OBVIOUS
      <3>2. y.n = op.n /\ y.res = op.res
        BY <3>1
      <3>3. Range(to_client'[d]) = Range(to_client[d]) \cup {y}
        BY <1>2, <2>2, <3>1 DEF Served, Appended
      <3>4. OpsOn(d) = OpsOn(d)' \cup {op}
        BY <1>3, <2>1, <2>2
      <3> DEFINE A == Range(got[d]) \cup Range(to_client[d]) \cup OpsOn(d)
                 B == Range(got[d]) \cup Range(to_client'[d]) \cup OpsOn(d)'
      <3>5. A \cup {y} = B \cup {op} /\ op \in A /\ y \in B
        BY <3>3, <3>4
      <3>6. Executed(d) = {x.n : x \in {z \in A : z.res # Invalid}}
        BY DEF Executed
      <3>7. Executed(d)' = {x.n : x \in {z \in B : z.res # Invalid}}
        BY <1>3 DEF Executed
      <3> HIDE DEF A, B
      <3>8. {x.n : x \in {z \in A : z.res # Invalid}} = {x.n : x \in {z \in B : z.res # Invalid}}
        BY <3>2, <3>5
      <3> QED
        BY <3>6, <3>7, <3>8
    <2>3. CASE d # c
      <3>1. OpsOn(d)' = OpsOn(d)
        BY <1>3, <2>1, <2>3
      <3> QED
        BY <1>3, <2>3, <3>1 DEF Executed
    <2> QED
      BY <2>2, <2>3
  <1>14. ExecutedInv'
    BY <1>1, <1>4, <1>5, <1>13, ExecutedStays
  <1> QED
    BY <1>9, <1>10, <1>11, <1>12, <1>14 DEF AnswerInv

\* A connection waits, so every closed node is after every open one, and
\* std::remove_if moves nothing.
LEMMA KeptAreFirst ==
    ASSUME ListInv, OrderInv, backlog # <<>>
    PROVE  /\ Kept = 1..Cardinality(Kept) /\ Cardinality(Kept) \in 0..Len(m_clients)
           /\ Len(m_clients) \in Nat /\ \A j \in Kept : Place(j) = j
  <1>1. IsSeq(m_clients) /\ Len(m_clients) \in Nat
        /\ \A i \in 1..Len(m_clients) : m_clients[i] \in Live
    <2>1. IsSeq(m_clients)
      BY SeqIsSeq DEF ListInv
    <2> QED
      BY <2>1, SeqShape DEF Live
  <1>2. /\ Cardinality(Kept) \in 0..Len(m_clients) /\ Kept \subseteq 1..Len(m_clients)
        /\ \A j \in Kept : Place(j) \in 1..Cardinality(Kept)
        /\ \A i \in 1..Cardinality(Kept) : \E j \in Kept : Place(j) = i
    BY <1>1, PlacesAreFirst
  <1>3. ASSUME NEW j \in Kept, NEW l \in 1..Len(m_clients), l < j PROVE l \in Kept
    <2> SUFFICES ASSUME handler[m_clients[l]].m_closed PROVE FALSE
      BY DEF Kept
    <2>1. PICK x, y : x = m_clients[l] /\ y = m_clients[j]
      OBVIOUS
    <2>2. x \in Live /\ y \in Live /\ ~handler[y].m_closed /\ Gone(x)
      BY <1>1, <1>2, <2>1 DEF Kept, OrderInv
    <2>3. Before(x, y)
      BY <1>2, <1>3, <2>1 DEF Before
    <2> QED
      BY <2>2, <2>3 DEF OrderInv
  <1>4. ASSUME NEW j \in Kept PROVE Place(j) = j
    <2>1. j \in Nat /\ 1 <= j /\ j <= Len(m_clients)
      BY <1>1, <1>2
    <2>2. {l \in Kept : l <= j} = 1..j
      <3>1. \A l \in Kept : l \in Nat /\ 1 <= l
        BY <1>1, <1>2
      <3>2. \A l \in 1..j : l \in 1..Len(m_clients) /\ (l < j \/ l = j) /\ l <= j
        BY <1>1, <2>1
      <3>3. \A l \in 1..j : l \in Kept
        BY <1>3, <3>2
      <3>4. ASSUME NEW l \in Kept, l <= j PROVE l \in 1..j
        BY <2>1, <3>1, <3>4
      <3> QED
        BY <3>2, <3>3, <3>4
    <2>3. Cardinality(1..j) = j
      <3>1. j \in Int /\ 1 \in Int /\ ~(1 > j) /\ j - 1 + 1 = j
        BY <2>1
      <3> QED
        BY <3>1, FS_Interval
    <2> QED
      BY <2>2, <2>3 DEF Place
  <1>5. Kept = 1..Cardinality(Kept)
    BY <1>2, <1>4
  <1> QED
    BY <1>1, <1>2, <1>4, <1>5

\* The open nodes stay as they were; the others are freed.
LEMMA AcceptKeeps ==
    ASSUME ListInv, TurnInv, OrderInv, AcceptStep, NEW kept, NEW a, Accepted(kept, a)
    PROVE  /\ Range(kept) = {b \in Live : ~handler[b].m_closed}
           /\ \A b \in Range(kept) : b \in Addr /\ handler'[b] = handler[b]
           /\ Freed = {b \in Live : handler[b].m_closed} /\ MovedFrom = {}
  <1>1. backlog # <<>>
    BY DEF Accepted
  <1>2. PICK n : n = Cardinality(Kept)
    OBVIOUS
  <1>3. /\ Kept = 1..n /\ n \in 0..Len(m_clients) /\ Len(m_clients) \in Nat
        /\ \A j \in Kept : Place(j) = j
    BY <1>1, <1>2, KeptAreFirst
  <1>4. /\ IsSeq(kept) /\ Len(kept) = n /\ kept \in Seq(Addr)
        /\ \A i \in 1..Len(kept) : kept[i] = m_clients[i]
        /\ \A i \in 1..Len(kept) : \E j \in Kept :
             Place(j) = i /\ handler'[kept[i]] = handler[m_clients[j]]
    BY <1>2 DEF Accepted
  <1>5. IsSeq(m_clients) /\ IsInjective(m_clients) /\ DOMAIN m_clients = 1..Len(m_clients)
    BY SeqIsSeq, SeqShape DEF ListInv
  <1>6. \A i \in 1..n : handler'[kept[i]] = handler[kept[i]] /\ kept[i] = m_clients[i]
    BY <1>3, <1>4
  <1>7. \A i \in 1..Len(m_clients) : i \in 1..n <=> ~handler[m_clients[i]].m_closed
    BY <1>3 DEF Kept
  <1>8. 1..n \subseteq 1..Len(m_clients)
        /\ \A i \in 1..Len(m_clients) : i \in (n + 1)..Len(m_clients) <=> i \notin 1..n
    BY <1>3
  <1>9. (n + 1)..Len(m_clients) \subseteq 1..Len(m_clients)
    BY <1>3
  <1>10. \A b \in Live : \E i \in 1..Len(m_clients) : b = m_clients[i]
    BY <1>5, SeqShape DEF Live
  <1>11. \A i \in 1..Len(m_clients) : m_clients[i] \in Live
    BY <1>5, SeqShape DEF Live
  <1>12. \A b \in Range(kept) : \E i \in 1..n : b = kept[i]
    BY <1>4, SeqShape
  <1>13. \A i \in 1..n : kept[i] \in Range(kept)
    BY <1>4, SeqShape
  <1>14. Range(kept) = {b \in Live : ~handler[b].m_closed}
    <2>1. ASSUME NEW b \in Range(kept) PROVE b \in Live /\ ~handler[b].m_closed
      BY <1>6, <1>7, <1>8, <1>11, <1>12
    <2>2. ASSUME NEW b \in Live, ~handler[b].m_closed PROVE b \in Range(kept)
      <3>1. PICK i \in 1..Len(m_clients) : b = m_clients[i]
        BY <1>10
      <3> QED
        BY <1>6, <1>7, <1>13, <2>2, <3>1
    <2> QED
      BY <2>1, <2>2
  <1>15. \A b \in Range(kept) : b \in Addr /\ handler'[b] = handler[b]
    BY <1>4, <1>6, <1>12, RangeOfSeq
  <1>16. Freed = {b \in Live : handler[b].m_closed}
    <2>1. Freed = {m_clients[i] : i \in (n + 1)..Len(m_clients)}
      BY <1>2 DEF Freed
    <2>2. ASSUME NEW i \in (n + 1)..Len(m_clients)
          PROVE  m_clients[i] \in Live /\ handler[m_clients[i]].m_closed
      <3>1. i \in 1..Len(m_clients) /\ i \notin 1..n
        BY <1>8, <1>9
      <3>2. ~ ~handler[m_clients[i]].m_closed
        BY <1>7, <3>1
      <3> QED
        BY <1>11, <3>1, <3>2
    <2>3. ASSUME NEW b \in Live, handler[b].m_closed
          PROVE  \E i \in (n + 1)..Len(m_clients) : b = m_clients[i]
      <3>1. PICK i \in 1..Len(m_clients) : b = m_clients[i]
        BY <1>10
      <3> QED
        BY <1>7, <1>8, <2>3, <3>1
    <2> QED
      BY <2>1, <2>2, <2>3
  <1>17. MovedFrom = {}
    BY <1>3 DEF MovedFrom
  <1> QED
    BY <1>14, <1>15, <1>16, <1>17

LEMMA OrderAccept ==
    ASSUME ServerInv, AcceptStep
    PROVE  OrderInv' /\ SendInv' /\ AnswerInv' /\ ExecutedInv'
  <1>1. BaseInv /\ ClientInv /\ ListInv /\ StreamInv /\ TurnInv
        /\ OrderInv /\ SendInv /\ AnswerInv /\ Owed /\ Settled /\ ExecutedInv
    BY DEF ServerInv, BaseInv, AnswerInv
  <1>2. PICK a, kept : a \in Addr /\ Accepted(kept, a)
    BY <1>1, AcceptIs
  <1>3. PICK h : h = Head(backlog)
    OBVIOUS
  <1>4. /\ IsSeq(backlog) /\ backlog # <<>> /\ h \in Waiting /\ h \in Client
        /\ a \notin Range(kept) /\ Live' = Range(kept) \cup {a}
        /\ handler'[a] = [fd |-> h, m_closed |-> FALSE, m_stream |-> <<>>]
        /\ m_recv' = Append(m_recv, a)
    BY <1>2, <1>3 DEF Accepted
  <1>5. /\ Range(kept) = {b \in Live : ~handler[b].m_closed}
        /\ \A b \in Range(kept) : b \in Addr /\ handler'[b] = handler[b]
        /\ Freed = {b \in Live : handler[b].m_closed} /\ MovedFrom = {}
    BY <1>1, <1>2, AcceptKeeps
  <1>6. /\ fds' = (fds \ ClosedFds) \cup {h} /\ backlog' = Tail(backlog)
        /\ UNCHANGED <<conn, cmds, sent, got, to_server, to_client,
                       pc, m_send, recv_copy, send_copy>>
    BY <1>3, AcceptFrame
  <1>7. Fd(a)' = h /\ \A b \in Range(kept) : Fd(b)' = Fd(b) /\ b \in Live /\ Fd(b) \in Client
    BY <1>1, <1>4, <1>5, LiveNode DEF Fd
  <1>8. Waiting' \subseteq Waiting
    <2>1. Rest(backlog', backlog)
      BY <1>4, <1>6, TailIs
    <2> QED
      BY <2>1 DEF Rest, Waiting
  <1>9. \A b \in Live' : ~Gone(b)' /\ handler'[b].m_closed = FALSE
    <2>1. \A b \in Range(kept) : ~Gone(b) /\ handler[b].m_closed = FALSE
      <3>1. \A b \in Live : handler[b].m_closed \in BOOLEAN
        BY <1>1, LiveNode DEF Node
      <3> QED
        BY <1>1, <1>4, <1>5, <3>1 DEF OrderInv
    <2>2. \A b \in Range(kept) : ~Gone(b)' /\ handler'[b].m_closed = FALSE
      BY <1>5, <1>6, <1>7, <2>1 DEF Gone
    <2>3. conn[h] = "in"
      BY <1>1, <1>4 DEF OrderInv
    <2>4. ~Gone(a)' /\ handler'[a].m_closed = FALSE
      BY <1>4, <1>6, <1>7, <2>3 DEF Gone
    <2> QED
      BY <1>4, <2>2, <2>4
  <1>10. IsInjective(Recvs') /\ Range(Recvs') = Range(kept) \cup {a}
    <2>1. IsSeq(recv_copy) /\ IsSeq(m_recv) /\ IsSeq(Recvs) /\ IsInjective(Recvs)
          /\ Range(Recvs) = Range(kept)
      BY <1>1, <1>5, QueueShape DEF OrderInv
    <2>2. Recvs' = Append(Recvs, a)
      <3>1. m_recv' = m_recv \o <<a>> /\ IsSeq(<<a>>)
        BY <1>4, <2>1, AppendSeq, OneSeq
      <3>2. (recv_copy \o m_recv) \o <<a>> = recv_copy \o (m_recv \o <<a>>)
        BY <2>1, <3>1, ConcatTwice
      <3>3. Append(Recvs, a) = Recvs \o <<a>>
        BY <2>1, AppendSeq
      <3>4. Recvs' = recv_copy \o (m_recv \o <<a>>) /\ Recvs = recv_copy \o m_recv
        BY <1>6, <3>1 DEF Recvs
      <3> QED
        BY <3>2, <3>3, <3>4
    <2>3. IsInjective(Recvs')
      BY <1>4, <2>1, <2>2, AppendInjectiveSeq
    <2>4. PICK r : r = Recvs'
      OBVIOUS
    <2>5. Appended(r, Recvs, a)
      BY <2>1, <2>2, <2>4, AppendIs
    <2> QED
      BY <2>1, <2>3, <2>4, <2>5 DEF Appended
  <1>11. fds' = {Fd(b)' : b \in Live'}
    <2>1. ClosedFds = {Fd(b) : b \in {d \in Live : handler[d].m_closed}}
      BY <1>5 DEF ClosedFds
    <2>2. fds = {Fd(b) : b \in Live} /\ \A b, d \in Live : Fd(b) = Fd(d) => b = d
      BY <1>1 DEF OrderInv, ListInv
    <2>3. fds \ ClosedFds = {Fd(b) : b \in Range(kept)}
      BY <1>5, <2>1, <2>2
    <2>4. {Fd(b)' : b \in Live'} = {Fd(b) : b \in Range(kept)} \cup {h}
      BY <1>4, <1>7
    <2> QED
      BY <1>6, <2>3, <2>4
  <1>12. OrderInv'
    <2>1. Range(Recvs') = {x \in Live' : ~handler'[x].m_closed}
      BY <1>4, <1>9, <1>10
    <2>2. pc' # "undefined" /\ \A d \in Waiting' : conn'[d] = "in"
      BY <1>1, <1>6, <1>8 DEF OrderInv
    <2>3. /\ \A x \in Live' : handler'[x].m_closed => Gone(x)'
          /\ \A x, b \in Live' : Before(x, b)' /\ Gone(x)' => handler'[b].m_closed
          /\ backlog' # <<>> => \A x \in Live' : Gone(x)' => handler'[x].m_closed
      BY <1>9
    <2> QED
      BY <1>10, <1>11, <2>1, <2>2, <2>3 DEF OrderInv
  <1>13. Sends' = Sends
    BY <1>6 DEF Sends
  <1>14. ASSUME NEW op \in Range(Sends) PROVE op.addr \in Range(kept)
    <2>1. Due(op)
      BY <1>1 DEF SendInv
    <2>2. op.addr \in Live /\ ~Gone(op.addr)
      BY <1>1, <2>1, GoneIsDone DEF Due
    <2> QED
      BY <1>1, <1>5, <2>2 DEF OrderInv
  <1>15. \A d : Met(d)' = Met(d) /\ (Clean(d)' <=> Clean(d))
    BY <1>6 DEF Met, Clean
  <1>16. \A b \in Range(kept) : /\ Base(b)' = Base(b) /\ Met(Fd(b))' = Met(Fd(b))
                                /\ (Clean(Fd(b))' <=> Clean(Fd(b)))
    <2>1. \A b \in Range(kept) : Base(b)' = Base(b)
      BY <1>5, <1>6, <1>7 DEF Base
    <2> QED
      BY <1>7, <1>15, <2>1
  <1>17. SendInv'
    <2>1. \A b : (\E op \in Range(Sends) : b = op.addr) =>
            /\ b \in Live' /\ Fd(b)' = Fd(b) /\ (Clean(Fd(b))' => Clean(Fd(b)))
            /\ Met(Fd(b))' = Met(Fd(b)) /\ Base(b)' = Base(b)
      BY <1>4, <1>7, <1>14, <1>16
    <2> QED
      BY <1>1, <1>13, <2>1, SendStays
  <1>18. got[h] = <<>> /\ to_client[h] = <<>> /\ Met(h) = 0 /\ Base(a)' = 0
    <2>1. got[h] = <<>> /\ to_client[h] = <<>>
      BY <1>1, <1>4 DEF Settled
    <2>2. Met(h) = 0
      BY <2>1, EmptyShape DEF Met
    <2>3. Len(to_server[h]) = sent[h] /\ sent[h] \in Nat
      BY <1>1, <1>4, ClientShape DEF StreamInv
    <2>4. Len(handler'[a].m_stream) = 0
      BY <1>4, EmptyShape
    <2>5. Base(a)' = sent[h] - Len(to_server[h]) - 0
      BY <1>6, <1>7, <2>4 DEF Base
    <2> QED
      BY <2>1, <2>2, <2>3, <2>5
  <1>19. Owed'
    <2> SUFFICES ASSUME NEW b \in Live', Clean(Fd(b))' PROVE 2 * Met(Fd(b))' <= Base(b)'
      BY DEF Owed
    <2>1. CASE b = a
      <3>1. Met(h)' = 0
        BY <1>15, <1>18
      <3>2. Met(Fd(b))' = 0
        BY <1>7, <2>1, <3>1
      <3> QED
        BY <1>18, <2>1, <3>2
    <2>2. CASE b \in Range(kept)
      BY <1>1, <1>7, <1>16, <2>2 DEF Owed
    <2> QED
      BY <1>4, <2>1, <2>2
  <1>20. Settled'
    BY <1>1, <1>6, <1>8, <1>15 DEF Settled
  <1>21. \A d : OpsOn(d)' = OpsOn(d) /\ OpsOn(d) = {op \in Range(Sends) : Fd(op.addr) = d}
    <2>1. IsSeq(send_copy') /\ IsSeq(m_send')
      BY <1>1, <1>6, QueueShape
    <2>2. \A d : OpsOn(d)' = {op \in Range(Sends') : Fd(op.addr)' = d}
      BY <2>1, OpsOfNextSends
    <2>3. \A d : OpsOn(d) = {op \in Range(Sends) : Fd(op.addr) = d}
      BY <1>1, OpsOfSends
    <2>4. \A op \in Range(Sends) : Fd(op.addr)' = Fd(op.addr)
      BY <1>7, <1>14
    <2> QED
      BY <1>13, <2>2, <2>3, <2>4
  <1>22. \A d : Executed(d)' = Executed(d)
    BY <1>6, <1>21 DEF Executed
  <1>23. Executed(h) = {}
    <2>1. \A b \in Range(kept) : Fd(b) # h
      BY <1>1, <1>4, <1>7 DEF ListInv
    <2>2. OpsOn(h) = {}
      BY <1>14, <1>21, <2>1
    <2>3. Range(got[h]) \cup Range(to_client[h]) \cup OpsOn(h) = {}
      BY <1>18, <2>2, EmptyShape
    <2> QED
      BY <2>3 DEF Executed
  <1>24. ExecutedInv'
    <2> SUFFICES ASSUME NEW b \in Live' PROVE Executed(Fd(b))' = 1..(Base(b)' \div 2)
      BY DEF ExecutedInv
    <2>1. CASE b = a
      <3>1. Executed(h)' = {}
        BY <1>22, <1>23
      <3>2. Executed(Fd(b))' = {}
        BY <1>7, <2>1, <3>1
      <3>3. 1..(0 \div 2) = {}
        OBVIOUS
      <3> QED
        BY <1>18, <2>1, <3>2, <3>3
    <2>2. CASE b \in Range(kept)
      BY <1>1, <1>7, <1>16, <1>22, <2>2 DEF ExecutedInv
    <2> QED
      BY <1>4, <2>1, <2>2
  <1> QED
    BY <1>12, <1>17, <1>19, <1>20, <1>24 DEF AnswerInv

-----------------------------------------------------------------------------
(* What holds when the clients are orderly. *)

LEMMA InitServer == Init => ServerInv
  <1> SUFFICES ASSUME Init PROVE ServerInv
    OBVIOUS
  <1>1. BaseInv
    BY InitBase
  <1>2. Live = {} /\ Waiting = {}
    BY EmptyShape DEF Init, Live, Waiting
  <1>3. Recvs = <<>> /\ Sends = <<>>
    <2>1. <<>> \o <<>> = <<>>
      BY EmptyShape, ConcatEmpty
    <2> QED
      BY <2>1 DEF Init, Recvs, Sends
  <1>4. IsInjective(Recvs) /\ Range(Recvs) = {} /\ Range(Sends) = {}
    BY <1>3, EmptyShape
  <1>5. OrderInv
    BY <1>2, <1>4 DEF Init, OrderInv
  <1>6. SendInv
    BY <1>2, <1>4 DEF SendInv
  <1>7. AnswerInv
    BY <1>2 DEF Init, AnswerInv, Owed, Settled
  <1>8. ExecutedInv
    BY <1>2 DEF ExecutedInv
  <1> QED
    BY <1>1, <1>5, <1>6, <1>7, <1>8 DEF ServerInv

LEMMA ServerStutters ==
    ASSUME ServerInv, UNCHANGED vars
    PROVE  OrderInv' /\ SendInv' /\ AnswerInv' /\ ExecutedInv'
  <1>1. TurnInv /\ OrderInv
    BY DEF ServerInv, BaseInv
  <1>2. /\ UNCHANGED <<client_vars, network, server_vars>>
        /\ UNCHANGED <<pc, m_recv, recv_copy, m_send, send_copy>>
    BY DEF vars, loop_vars, queued, current
  <1>3. IsSeq(send_copy') /\ IsSeq(m_send')
    BY <1>1, <1>2, QueueShape
  <1>4. Recvs' = Recvs /\ Sends' = Sends /\ pc' # "undefined"
    BY <1>1, <1>2 DEF Recvs, Sends, OrderInv
  <1> QED
    BY <1>2, <1>3, <1>4, OrderTurn

\* When clients connect and leave in order: the closed nodes are the last of
\* the list, every operation leads to an open one, each client is sent the
\* answers to its commands in order, and the commands that were executed are
\* those before the stream of its node.
THEOREM ServerInvariant == Orderly /\ Spec => []ServerInv
  <1>1. Init => ServerInv
    BY InitServer
  <1>2. Orderly /\ ServerInv /\ [Next]_vars => ServerInv'
    <2> SUFFICES ASSUME Orderly, ServerInv, [Next]_vars PROVE ServerInv'
      OBVIOUS
    <2>1. BaseInv'
      BY BaseStep DEF ServerInv
    <2>2. OrderInv' /\ SendInv' /\ AnswerInv' /\ ExecutedInv'
      <3>1. CASE \E c \in Client : Connect(c)
        BY <3>1, OrderConnect
      <3>2. CASE \E c \in Client : Send(c)
        BY <3>2, OrderSend
      <3>3. CASE \E c \in Client : Read(c)
        BY <3>3, OrderRead
      <3>4. CASE \E c \in Client : Leave(c)
        BY <3>4, OrderLeave
      <3>5. CASE Select
        BY <3>5, OrderSelect
      <3>6. CASE RecvStep
        <4>1. PICK a : a = recv_copy[First(ReadyRecvs)]
          OBVIOUS
        <4>2. CASE to_server[Fd(a)] = <<>>
          BY <3>6, <4>1, <4>2, OrderClose
        <4>3. CASE to_server[Fd(a)] # <<>>
          BY <3>6, <4>1, <4>3, OrderReceived
        <4> QED
          BY <4>2, <4>3
      <3>7. CASE SendStep
        BY <3>7, OrderSendStep
      <3>8. CASE AcceptStep
        BY <3>8, OrderAccept
      <3>9. CASE Merge
        BY <3>9, OrderMerge
      <3>10. CASE UNCHANGED vars
        BY <3>10, ServerStutters
      <3> QED
        BY <3>1, <3>2, <3>3, <3>4, <3>5, <3>6, <3>7, <3>8, <3>9, <3>10 DEF Next
    <2> QED
      BY <2>1, <2>2 DEF ServerInv
  <1> QED
    <2> SUFFICES ASSUME Orderly PROVE Spec => []ServerInv
      OBVIOUS
    <2>1. ServerInv /\ [Next]_vars => ServerInv'
      BY <1>2
    <2> QED
      BY <1>1, <2>1, PTL DEF Spec

\* No operation outlives its node, the hazard of list nodes that Server erases
\* while IOContext holds pointers into them.
THEOREM NoDangling == Orderly /\ Spec => []NoDanglingOp
  <1>1. ServerInv => NoDanglingOp
    BY OpsLive DEF ServerInv, BaseInv, NoDanglingOp
  <1> QED
    BY <1>1, ServerInvariant, PTL

\* No connection goes deaf, and none is received from twice.
THEOREM Armed == Orderly /\ Spec => []ReceiversArmed
  <1>1. ServerInv => ReceiversArmed
    <2> SUFFICES ASSUME ServerInv, pc = "select"
                 PROVE  /\ IsInjective(m_recv) /\ m_accept = 1
                        /\ Range(m_recv) = {a \in Live : ~handler[a].m_closed}
      BY DEF ReceiversArmed
    <2>1. TurnInv /\ OrderInv
      BY DEF ServerInv, BaseInv
    <2>2. recv_copy = <<>> /\ accept_copy = 0 /\ IsSeq(m_recv)
      BY <2>1, QueueShape DEF TurnInv
    <2>3. Recvs = m_recv
      BY <2>2, ConcatEmpty DEF Recvs
    <2>4. m_accept = 1
      BY <2>1, <2>2 DEF TurnInv
    <2> QED
      BY <2>1, <2>3, <2>4 DEF OrderInv
  <1> QED
    BY <1>1, ServerInvariant, PTL

\* No socket leaks.
THEOREM NoLeak == Spec => []NoneLeaks
  <1>1. ServerInv => NoneLeaks
    BY DEF ServerInv, OrderInv, NoneLeaks
  <1>2. Orderly /\ Spec => []NoneLeaks
    BY <1>1, ServerInvariant, PTL
  <1>3. ~Orderly /\ Spec => []NoneLeaks
    <2> SUFFICES ASSUME ~Orderly PROVE Spec => []NoneLeaks
      OBVIOUS
    <2>1. NoneLeaks
      BY DEF NoneLeaks
    <2> QED
      BY <2>1, PTL
  <1> QED
    BY <1>2, <1>3

\* No unit of a command is lost or taken twice on its way to the handler.
THEOREM NothingLost == Orderly /\ Spec => []StreamIsRest
  <1>1. ServerInv => StreamIsRest
    <2> SUFFICES ASSUME ServerInv, NEW a \in Live
                 PROVE  LET c == Fd(a)
                        IN handler[a].m_stream \o to_server[c]
                             = [j \in 1..(sent[c] - 2 * Cardinality(Executed(c))) |->
                                  ((j - 1) \div 2) + 1 + Cardinality(Executed(c))]
      BY DEF StreamIsRest
    <2>1. ClientInv /\ ListInv /\ StreamInv
      BY DEF ServerInv, BaseInv
    <2>2. PICK c, t, k : c = Fd(a) /\ t = to_server[c] /\ k = Len(t)
      OBVIOUS
    <2>3. c \in Client /\ IsSeq(t) /\ k \in Nat /\ IsSeq(handler[a].m_stream) /\ sent[c] \in Nat
      BY <2>1, <2>2, LiveNode, ClientShape
    <2>4. SubSeq(t, 1, k) = t
      <3>1. PICK p : p = SubSeq(t, 1, k)
        OBVIOUS
      <3>2. 1 \in 1..(Len(t) + 1) /\ k \in (1 - 1)..Len(t)
        BY <2>2, <2>3
      <3>3. Part(p, t, 1, k)
        BY <2>3, <3>1, <3>2, SubSeqIs
      <3>4. /\ IsSeq(p) /\ Len(p) = k - 1 + 1
            /\ \A i \in 1..(k - 1 + 1) : p[i] = t[1 + i - 1]
        BY <3>3 DEF Part
      <3>5. k - 1 + 1 = k /\ \A i \in 1..k : 1 + i - 1 = i
        BY <2>3
      <3>6. IsSeq(p) /\ Len(p) = Len(t) /\ \A i \in 1..Len(p) : p[i] = t[i]
        BY <2>2, <3>4, <3>5
      <3>7. p = t
        BY <2>3, <3>6, SameSeq
      <3> QED
        BY <3>1, <3>7
    <2>5. PICK s : s = handler[a].m_stream \o t
      OBVIOUS
    <2>6. Brought(a, s, k)
      <3>1. k \in 0..Len(to_server[Fd(a)])
        BY <2>2, <2>3
      <3> QED
        BY <2>2, <2>4, <2>5, <3>1 DEF Brought
    <2>7. PICK e : e = Base(a) \div 2
      OBVIOUS
    <2>8. Taken(a, c, s, e, k)
      BY <2>1, <2>2, <2>6, <2>7, TakenIs
    <2>9. /\ e \in Nat /\ IsSeq(s) /\ Len(s) \in Nat
          /\ 2 * e + Len(s) = sent[c] - (k - k)
          /\ \A j \in 1..Len(s) : s[j] = e + UnitAt(j)
      BY <2>2, <2>8 DEF Taken
    <2>10. Cardinality(Executed(c)) = e
      <3>1. Executed(c) = 1..e
        BY <2>2, <2>7 DEF ServerInv, ExecutedInv
      <3>2. 1 \in Int /\ e \in Int /\ (IF 1 > e THEN 0 ELSE e - 1 + 1) = e
        BY <2>9
      <3>3. Cardinality(1..e) = IF 1 > e THEN 0 ELSE e - 1 + 1
        BY <3>2, FS_Interval
      <3> QED
        BY <3>1, <3>2, <3>3
    <2>11. PICK n, v : n = Len(s) /\ v = sent[c]
      OBVIOUS
    <2>12. n \in Nat /\ v - 2 * e = n
      BY <2>3, <2>9, <2>11
    <2>13. PICK f : f = [j \in 1..n |-> ((j - 1) \div 2) + 1 + e]
      OBVIOUS
    <2>14. IsSeq(f) /\ Len(f) = n
      BY <2>12, <2>13, FunctionSeq
    <2>15. \A j \in 1..n : s[j] = f[j]
      <3> SUFFICES ASSUME NEW j \in 1..n PROVE s[j] = f[j]
        OBVIOUS
      <3>1. s[j] = e + UnitAt(j) /\ f[j] = ((j - 1) \div 2) + 1 + e
        BY <2>9, <2>11, <2>13
      <3>2. UnitAt(j) = ((j - 1) \div 2) + 1 /\ UnitAt(j) \in Nat
        <4>1. j - 1 \in Nat /\ (j - 1) + 1 = j /\ j \in Nat
          BY <2>12
        <4> QED
          BY <4>1, Units
      <3> QED
        BY <2>9, <3>1, <3>2
    <2>16. s = f
      BY <2>9, <2>11, <2>14, <2>15, SameSeq
    <2> QED
      BY <2>2, <2>5, <2>10, <2>11, <2>12, <2>13, <2>16
  <1> QED
    BY <1>1, ServerInvariant, PTL
=============================================================================
