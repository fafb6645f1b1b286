------------------------------- MODULE Server --------------------------------
(***************************************************************************)
(* The server: the select loop (IOContext::run, src/io/context.cpp), the   *)
(* list of connections (Server, src/server/server.cpp), the handler of     *)
(* each (ClientHandler, src/server/client_handler.cpp) and the database    *)
(* they share, with the sockets and the clients at the other end.          *)
(*                                                                         *)
(* The loop is one thread: a turn of it is Select, then one step per ready *)
(* operation (receives, sends, the accept), then Merge.  Clients and the   *)
(* network move between any two of these steps.                            *)
(*                                                                         *)
(* A handler lives at the address of its list node.  Operations hold that  *)
(* address: Socket* is &m_socket of the node, and the receive callback is  *)
(* bound to the node itself.                                               *)
(*                                                                         *)
(* A command travels as two units, a beginning and an end, so that it can  *)
(* arrive in parts; a unit is the number of the command among those of its *)
(* client.  A response is one unit.  Connections are told apart by their   *)
(* clients: fd c is the accepted socket of client c.                       *)
(***************************************************************************)
EXTENDS Integers, SequencesExt, FiniteSets, Database

CONSTANTS
    Client,     \* the clients, each of which connects once
    Addr,       \* addresses of list nodes
    NoFd,       \* the fd of a Socket that was moved from, -1
    Menu,       \* Menu[c][n], the commands from which client c picks its
                \* n-th; "Bad" has an invalid encoding
    InitDb,     \* the database that earlier sessions left
    MaxCmds,    \* bound: commands of a client, the length of its menu at most
    RecvMax,    \* units a recv takes at most, 128 bytes in the code
    SendCap,    \* responses a socket buffers before send blocks
    Orderly     \* do clients connect and leave as the guards below say?

ASSUME BoundAssumption ==
    /\ MaxCmds \in Nat /\ RecvMax \in Nat \ {0} /\ SendCap \in Nat \ {0}
    /\ IsFiniteSet(Client) /\ IsFiniteSet(Addr) /\ NoFd \notin Client
\* A menu is a sequence of sets of commands.
Commands == {"RegisterSchema", "CreateCollection", "GetSchema", "GetCollectionSchema",
             "Get", "Put", "Delete"}
ASSUME MenuAssumption == \A c \in Client :
    /\ Menu[c] \in Seq(Range(Menu[c])) /\ Len(Menu[c]) <= MaxCmds
    /\ \A cmd \in UNION Range(Menu[c]) : cmd.op \in Commands \/ cmd = [op |-> "Bad"]
ASSUME OrderlyAssumption == Orderly \in BOOLEAN
ASSUME DbAssumption == IsDb(InitDb)

VARIABLES
    \* the clients and the network
    conn,        \* "out", "in" or "left"
    cmds,        \* the commands a client has begun to send
    sent,        \* how many units of them it has sent
    to_server,   \* units on their way to recv
    to_client,   \* responses on their way to the client
    got,         \* responses the client has read
    backlog,     \* connections not accepted yet
    \* Server and ClientHandler
    m_clients,   \* the list, as node addresses
    handler,     \* what lies at each address
    fds,         \* accepted sockets that are open
    db,
    \* IOContext
    pc,          \* "select", "dispatch", or "undefined" after a wild access
    m_recv, m_send, m_accept,          \* queued operations
    recv_copy, send_copy, accept_copy, \* those of this turn
    rfds, wfds, accept_ready           \* what select reported

client_vars  == <<conn, cmds, sent, got>>
network      == <<to_server, to_client, backlog>>
server_vars  == <<m_clients, handler, fds, db>>
queued       == <<m_recv, m_send, m_accept>>
current      == <<recv_copy, send_copy, accept_copy>>
reported     == <<rfds, wfds, accept_ready>>
loop_vars    == <<pc, queued, current, reported>>
vars == <<client_vars, network, server_vars, loop_vars>>

Bad == [op |-> "Bad"]

\* A receive operation is the address of its handler; a send operation has
\* the response too.  n is the number of the command it answers.
SendOp(a, n, r) == [addr |-> a, n |-> n, res |-> r]

NoHandler == [fd |-> NoFd, m_closed |-> FALSE, m_stream |-> <<>>]
Fd(a)     == handler[a].fd
Live      == Range(m_clients)

-----------------------------------------------------------------------------
Init ==
    /\ conn = [c \in Client |-> "out"]
    /\ cmds = [c \in Client |-> <<>>]
    /\ sent = [c \in Client |-> 0]
    /\ to_server = [c \in Client |-> <<>>]
    /\ to_client = [c \in Client |-> <<>>]
    /\ got = [c \in Client |-> <<>>]
    /\ backlog = <<>>
    /\ m_clients = <<>>
    /\ handler = [a \in Addr |-> NoHandler]
    /\ fds = {}
    /\ db = InitDb
    /\ pc = "select"
    \* Server::run arms the accept before it enters the loop
    /\ m_recv = <<>> /\ m_send = <<>> /\ m_accept = 1
    /\ recv_copy = <<>> /\ send_copy = <<>> /\ accept_copy = 0
    /\ rfds = {} /\ wfds = {} /\ accept_ready = FALSE

-----------------------------------------------------------------------------
(* Clients. *)

\* The discipline when Orderly: nobody connects before the server noticed
\* every departure, and a client leaves only when those the server accepted
\* after it have left and nobody waits to be accepted.
OrderlyConnect ==
    Orderly => \A c \in Client : conn[c] = "left" =>
        \A a \in Live : Fd(a) = c => handler[a].m_closed
OrderlyLeave(c) ==
    Orderly =>
        /\ backlog = <<>>
        /\ \E j \in 1..Len(m_clients) :
             /\ Fd(m_clients[j]) = c
             /\ \A l \in (j + 1)..Len(m_clients) : handler[m_clients[l]].m_closed

Connect(c) ==
    /\ conn[c] = "out" /\ OrderlyConnect
    /\ conn' = [conn EXCEPT ![c] = "in"]
    /\ backlog' = Append(backlog, c)
    /\ UNCHANGED <<cmds, sent, got, to_server, to_client, server_vars, loop_vars>>

IsPut(cmd, get) == cmd.op = "Put" /\ cmd.coll_name = get.coll_name /\ cmd.key = get.key

\* An acknowledged put, as seen by the clients: some client has read Success
\* in answer to it.
Acknowledged(get) ==
    \E c \in Client : \E j \in 1..Len(got[c]) :
        IsPut(cmds[c][got[c][j].n].cmd, get) /\ got[c][j].res = Success

AskedPut(c, get) == \E j \in 1..Len(cmds[c]) : IsPut(cmds[c][j].cmd, get)

\* The beginning of a command.  after notes of a get whether its document had an
\* acknowledged put, by any client, or a put of this client when it was sent.
Begin(c) ==
    /\ sent[c] = 2 * Len(cmds[c]) /\ Len(cmds[c]) < Len(Menu[c])
    /\ \E cmd \in Menu[c][Len(cmds[c]) + 1] :
         cmds' = [cmds EXCEPT ![c] = Append(@,
                    [cmd |-> cmd, after |-> cmd.op = "Get" /\ (Acknowledged(cmd) \/ AskedPut(c, cmd))])]
Continue(c) == sent[c] < 2 * Len(cmds[c]) /\ UNCHANGED cmds

Send(c) ==
    /\ conn[c] = "in"
    /\ Begin(c) \/ Continue(c)
    /\ sent' = [sent EXCEPT ![c] = @ + 1]
    /\ to_server' = [to_server EXCEPT ![c] = Append(@, (sent[c] \div 2) + 1)]
    /\ UNCHANGED <<conn, got, to_client, backlog, server_vars, loop_vars>>

Read(c) ==
    /\ to_client[c] # <<>>
    /\ got' = [got EXCEPT ![c] = Append(@, Head(to_client[c]))]
    /\ to_client' = [to_client EXCEPT ![c] = Tail(@)]
    /\ UNCHANGED <<conn, cmds, sent, to_server, backlog, server_vars, loop_vars>>

\* A client closes its socket with nothing left to read: every command it has
\* completed is answered, and none was invalid.  The last may be incomplete.
Leave(c) ==
    /\ conn[c] = "in" /\ OrderlyLeave(c)
    /\ Len(got[c]) = sent[c] \div 2
    /\ \A j \in 1..Len(cmds[c]) : cmds[c][j].cmd # Bad
    /\ conn' = [conn EXCEPT ![c] = "left"]
    /\ UNCHANGED <<cmds, sent, got, network, server_vars, loop_vars>>

-----------------------------------------------------------------------------
(* ClientHandler::recv_handler. *)

\* read(Command) on the stream of client c: how many commands succeed before
\* it is INCOMPLETE or INVALID, and whether it is INVALID.  The first byte of a
\* bad command is enough to refuse it.
Cmd(c, n)   == cmds[c][n].cmd
Whole(s)    == Len(s) \div 2
Good(c, s)  ==
    CHOOSE m \in 0..Whole(s) :
        /\ \A j \in 1..m : Cmd(c, s[2 * j]) # Bad
        /\ m = Whole(s) \/ Cmd(c, s[2 * m + 1]) = Bad
Refused(c, s) ==
    2 * Good(c, s) < Len(s) /\ Cmd(c, s[2 * Good(c, s) + 1]) = Bad

\* The first m commands of the stream, in order: the database after them and
\* the send operations that write_and_send queued.
HandleApart(a, c, s, m) ==            \* slip: each starts from the same database
    LET out(j) == Execute(db, Cmd(c, s[2 * j]))
    IN [db  |-> IF m = 0 THEN db ELSE out(m).db,
        ops |-> [j \in 1..m |-> SendOp(a, s[2 * j], out(j).res)]]

Handle(a, c, s, m) ==
    LET Turn[j \in 0..m] ==
          IF j = 0 THEN [db |-> db, ops |-> <<>>]
          ELSE LET out == Execute(Turn[j - 1].db, Cmd(c, s[2 * j]))
               IN [db  |-> out.db,
                   ops |-> Append(Turn[j - 1].ops, SendOp(a, s[2 * j], out.res))]
    IN Turn[m]

ConsumeAll(s, m) == <<>>              \* slip: the incomplete command goes too
\* m_stream.consume, once for each command that succeeded.  Nothing is
\* consumed of an invalid one.
Consume(s, m) == SubSeq(s, 2 * m + 1, Len(s))

CloseRearms(a) ==                     \* slip: no return after close()
    /\ handler' = [handler EXCEPT ![a].m_closed = TRUE]
    /\ m_recv' = Append(m_recv, a)
    /\ UNCHANGED <<to_server, db, m_send>>

Close(a) ==
    /\ handler' = [handler EXCEPT ![a].m_closed = TRUE]
    /\ UNCHANGED <<to_server, db, m_recv, m_send>>

\* The receive is armed again, whatever the loop over the commands found.
RearmIfHandled(a, m) == IF m > 0 THEN <<a>> ELSE <<>>  \* slip: return when INCOMPLETE
Rearm(a, m) == <<a>>

Received(a) ==
    LET c == Fd(a)
        k == IF Len(to_server[c]) < RecvMax THEN Len(to_server[c]) ELSE RecvMax
        s == handler[a].m_stream \o SubSeq(to_server[c], 1, k)
        m == Good(c, s)
        h == Handle(a, c, s, m)
    IN /\ to_server' = [to_server EXCEPT ![c] = SubSeq(@, k + 1, Len(@))]
       /\ handler' = [handler EXCEPT ![a].m_stream = Consume(s, m)]
       /\ db' = h.db
       /\ m_send' = m_send \o h.ops
                    \o (IF Refused(c, s) THEN <<SendOp(a, s[2 * m + 1], Invalid)>> ELSE <<>>)
       /\ m_recv' = m_recv \o Rearm(a, m)

-----------------------------------------------------------------------------
(* IOContext::run. *)

Readable(c) == to_server[c] # <<>> \/ conn[c] = "left"
NeverFull(c) == TRUE                  \* slip: send does not wait for room
Writable(c) == Len(to_client[c]) < SendCap

\* Every operation leads to the socket of a node in the list.
NoDanglingOp ==
    /\ \A j \in 1..Len(m_recv) : m_recv[j] \in Live
    /\ \A j \in 1..Len(m_send) : m_send[j].addr \in Live

\* The queues become the operations of this turn, and select blocks until one
\* of them is ready.  An operation of a freed node is read here, and what the
\* program does after that is undefined.
Select ==
    /\ pc = "select"
    /\ IF ~NoDanglingOp
       THEN pc' = "undefined" /\ UNCHANGED <<queued, current, reported>>
       ELSE /\ rfds' = {c \in {Fd(m_recv[j]) : j \in 1..Len(m_recv)} : Readable(c)}
            /\ wfds' = {c \in {Fd(m_send[j].addr) : j \in 1..Len(m_send)} : Writable(c)}
            /\ accept_ready' = (m_accept > 0 /\ backlog # <<>>)
            /\ rfds' # {} \/ wfds' # {} \/ accept_ready'
            /\ recv_copy' = m_recv /\ send_copy' = m_send /\ accept_copy' = m_accept
            /\ m_recv' = <<>> /\ m_send' = <<>> /\ m_accept' = 0
            /\ pc' = "dispatch"
    /\ UNCHANGED <<client_vars, network, server_vars>>

\* The places of the operations still to be served this turn.  Operations that
\* are not ready are passed over and stay.
ReadyRecvs == {j \in 1..Len(recv_copy) : Fd(recv_copy[j]) \in rfds}
ReadySends == {j \in 1..Len(send_copy) : Fd(send_copy[j].addr) \in wfds}
First(J)   == CHOOSE j \in J : \A l \in J : j <= l

\* recv on the blocking socket, then the handler.  It blocks when nothing has
\* arrived, which happens if an earlier operation took what select reported.
RecvStep ==
    /\ pc = "dispatch" /\ ReadyRecvs # {}
    /\ LET a == recv_copy[First(ReadyRecvs)]
       IN /\ Readable(Fd(a))
          /\ IF to_server[Fd(a)] = <<>> THEN Close(a) ELSE Received(a)
    /\ recv_copy' = RemoveAt(recv_copy, First(ReadyRecvs))
    /\ UNCHANGED <<client_vars, to_client, backlog, m_clients, fds,
                   pc, m_accept, send_copy, accept_copy, reported>>

\* send on the blocking socket: it blocks while the buffer is full, and the
\* loop with it.  It always takes the whole response.
SendStep ==
    /\ pc = "dispatch" /\ ReadyRecvs = {} /\ ReadySends # {}
    /\ LET op == send_copy[First(ReadySends)]
       IN /\ Writable(Fd(op.addr))
          /\ to_client' = [to_client EXCEPT ![Fd(op.addr)] =
                             Append(@, [n |-> op.n, res |-> op.res])]
    /\ send_copy' = RemoveAt(send_copy, First(ReadySends))
    /\ UNCHANGED <<client_vars, to_server, backlog, server_vars,
                   pc, queued, recv_copy, accept_copy, reported>>

\* std::remove_if and erase on the list: the contents of the open handlers move
\* to the front nodes, the nodes after them are freed and their sockets closed.
\* A socket that is moved over is not closed.
Kept     == {j \in 1..Len(m_clients) : ~handler[m_clients[j]].m_closed}
Place(j) == Cardinality({l \in Kept : l <= j})   \* where the j-th goes
Compacted(a) ==
    IF \E j \in Kept : m_clients[Place(j)] = a
    THEN handler[m_clients[CHOOSE j \in Kept : m_clients[Place(j)] = a]]
    ELSE NoHandler
Freed     == {m_clients[j] : j \in (Cardinality(Kept) + 1)..Len(m_clients)}
MovedFrom == {m_clients[j] : j \in {l \in Kept : Place(l) # l}}
NoneClosed  == {}                     \* slip: erasing a node leaves its socket open
MovedClosed == {Fd(a) : a \in Freed}  \* slip: m_fd stays when a socket is moved from
ClosedFds   == {Fd(a) : a \in Freed \ MovedFrom}

\* Server::accept_handler: closed clients are erased, the new one is appended
\* and its constructor arms its receive, then the accept is armed again.
AcceptStep ==
    /\ pc = "dispatch" /\ ReadyRecvs = {} /\ ReadySends = {} /\ accept_ready
    /\ LET kept == SubSeq(m_clients, 1, Cardinality(Kept))
       IN \E a \in Addr \ Range(kept) :
            /\ m_clients' = Append(kept, a)
            /\ handler' = [b \in Addr |->
                 IF b = a THEN [NoHandler EXCEPT !.fd = Head(backlog)] ELSE Compacted(b)]
            /\ m_recv' = Append(m_recv, a)
    /\ fds' = (fds \ ClosedFds) \cup {Head(backlog)}
    /\ backlog' = Tail(backlog)
    /\ m_accept' = m_accept + 1 /\ accept_copy' = accept_copy - 1
    \* the receive and send phases are over: nothing is looked up any more
    /\ rfds' = {} /\ wfds' = {} /\ accept_ready' = FALSE
    /\ UNCHANGED <<client_vars, to_server, to_client, db,
                   pc, m_send, recv_copy, send_copy>>

\* Incomplete operations go before the new ones.
NewFirst(old, new) == new \o old      \* slip: inserted at begin()
OldFirst(old, new) == old \o new

Merge ==
    /\ pc = "dispatch" /\ ReadyRecvs = {} /\ ReadySends = {} /\ ~accept_ready
    /\ m_recv' = OldFirst(recv_copy, m_recv)
    /\ m_send' = OldFirst(send_copy, m_send)
    /\ m_accept' = accept_copy + m_accept
    /\ recv_copy' = <<>> /\ send_copy' = <<>> /\ accept_copy' = 0
    /\ rfds' = {} /\ wfds' = {}
    /\ pc' = "select"
    /\ UNCHANGED <<client_vars, network, server_vars, accept_ready>>

Loop == Select \/ RecvStep \/ SendStep \/ AcceptStep \/ Merge

Next ==
    \/ \E c \in Client : Connect(c)
    \/ \E c \in Client : Send(c)
    \/ \E c \in Client : Read(c)
    \/ \E c \in Client : Leave(c)
    \/ Select
    \/ RecvStep
    \/ SendStep
    \/ AcceptStep
    \/ Merge

Spec == Init /\ [][Next]_vars

\* The loop runs whenever it can, and clients go on reading.
FairSpec == Spec /\ WF_vars(Loop) /\ \A c \in Client : WF_vars(Read(c))

-----------------------------------------------------------------------------
(* Properties. *)

\* The answers to client c so far, in the order it will read them: those it
\* has read, those on the way, and those in the send operations.
OpsOf(c, q) ==
    LET Of[j \in 0..Len(q)] ==
          IF j = 0 THEN <<>>
          ELSE IF Fd(q[j].addr) # c THEN Of[j - 1]
          ELSE Append(Of[j - 1], [n |-> q[j].n, res |-> q[j].res])
    IN Of[Len(q)]
Answers(c) == got[c] \o to_client[c] \o OpsOf(c, send_copy) \o OpsOf(c, m_send)

\* The commands that were executed: those with an answer, except a refused one.
OpsOn(c)    == {op \in Range(send_copy) \cup Range(m_send) : Fd(op.addr) = c}
Executed(c) ==
    {a.n : a \in {b \in Range(got[c]) \cup Range(to_client[c]) \cup OpsOn(c) : b.res # Invalid}}

\* Types and capacities: no socket buffers more than SendCap responses, the
\* accept is armed at most once, and each phase of a turn has its operations.
TypeOK ==
    /\ conn \in [Client -> {"out", "in", "left"}]
    /\ \A c \in Client :
         /\ Len(cmds[c]) <= MaxCmds /\ sent[c] \in 0..(2 * MaxCmds)
         /\ \A j \in 1..Len(cmds[c]) : cmds[c][j].cmd \in Menu[c][j]
         /\ Range(to_server[c]) \subseteq 1..MaxCmds
         /\ Len(to_client[c]) <= SendCap
    /\ Range(backlog) \subseteq Client
    /\ m_clients \in Seq(Addr) /\ IsInjective(m_clients)
    /\ \A a \in Addr : Fd(a) \in Client \cup {NoFd}
    /\ fds \subseteq Client
    /\ pc \in {"select", "dispatch", "undefined"}
    /\ Range(m_recv) \cup Range(recv_copy) \subseteq Addr
    /\ m_accept \in {0, 1} /\ accept_copy \in {0, 1}
    /\ rfds \cup wfds \subseteq Client
    /\ pc = "select" => recv_copy = <<>> /\ send_copy = <<>> /\ accept_copy = 0

\* Whenever the loop is about to select, every open connection has exactly one
\* receive operation, a closed one has none, and the accept is armed.  Without
\* it a client would be deaf for ever (recv_handler and accept_handler re-arm
\* at their ends), or two receives would compete for one socket.
ReceiversArmed ==
    pc = "select" =>
        /\ IsInjective(m_recv)
        /\ Range(m_recv) = {a \in Live : ~handler[a].m_closed}
        /\ m_accept = 1

\* Whatever the clients do, every handler in the list has an open socket of its
\* own, and an accepted socket that no handler has is one whose client has left:
\* the moves of remove_if, in which handlers give up sockets to one another and
\* nodes are destroyed, neither close nor lose a connection that is in use.
\* (Socket's move assignment drops the descriptor it is assigned over.)
FdsOwned ==
    /\ {Fd(a) : a \in Live} \subseteq fds
    /\ \A a, b \in Live : Fd(a) = Fd(b) => a = b
    /\ \A c \in fds : conn[c] = "left" \/ \E a \in Live : Fd(a) = c

\* While closed handlers are the last of the list, nothing is moved over and
\* erasing them closes their sockets: none is left open.
NoneLeaks == Orderly => fds = {Fd(a) : a \in Live}

\* No unit is lost or taken twice between a client and the loop over its
\* commands: the stream of an open connection and what is on the way to it are
\* the units the client sent after the last command that was executed.
StreamIsRest ==
    \A a \in Live : ~handler[a].m_closed =>
        LET c == Fd(a)
        IN handler[a].m_stream \o to_server[c]
             = [j \in 1..(sent[c] - 2 * Cardinality(Executed(c))) |->
                  ((j - 1) \div 2) + 1 + Cardinality(Executed(c))]

\* Puts are to collections there are, and no command undoes one.
Offered  == UNION {UNION Range(Menu[c]) : c \in Client}
PutsStay ==
    \A put \in {cmd \in Offered : cmd.op = "Put"} :
        /\ put.coll_name \in DOMAIN InitDb.colls
        /\ \A cmd \in Offered :
             /\ cmd.op = "CreateCollection" => cmd.name # put.coll_name
             /\ cmd.op = "Delete" => cmd.coll_name # put.coll_name \/ cmd.key # put.key

\* A put that a client has been told succeeded is seen by every get sent after
\* that, on any connection, and by later gets on its own connection whether or
\* not it has been answered, if no command deletes the document or makes its
\* collection anew (PutsStay).
PutsAreSeen ==
    \A c \in Client : \A j \in 1..Len(got[c]) :
        cmds[c][got[c][j].n].after => got[c][j].res.op = "Found"

\* The server implements Service: commands are executed once, in order, and
\* answered in order, although sends that select did not find ready are
\* carried over and new ones queued meanwhile.
SV == INSTANCE Service WITH
    cmds    <- [c \in Client |-> [j \in 1..Len(cmds[c]) |-> cmds[c][j].cmd]],
    whole   <- [c \in Client |-> sent[c] \div 2],
    answers <- [c \in Client |-> Answers(c)]
ImplementsService == SV!Spec

\* A client that reads gets an answer to every command that it completed, if
\* none up to it is invalid: no turn of the loop leaves it behind.
Answered ==
    \A c \in Client : \A n \in 1..MaxCmds :
        sent[c] >= 2 * n /\ (\A j \in 1..n : Cmd(c, j) # Bad) ~> Len(got[c]) >= n
=============================================================================
