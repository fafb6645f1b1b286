------------------------------- MODULE Service -------------------------------
(***************************************************************************)
(* What the server promises to its clients, whatever the sockets, buffers  *)
(* and queues in between do.  Commands of a client are executed in the     *)
(* order it sent them, each exactly once, and answered in that order; what *)
(* one receive brought is executed with nothing in between.  A command     *)
(* with an invalid encoding is refused, before or after its end arrives;   *)
(* nothing after it is executed, and later receives repeat the refusal.    *)
(***************************************************************************)
EXTENDS Integers, Sequences, Database

CONSTANTS Client, Menu, InitDb, MaxCmds

VARIABLES
    cmds,     \* the commands each client has begun to send
    whole,    \* how many of them it has sent completely
    db,
    answers   \* the answers to each client: the command's number and the response

vars == <<cmds, whole, db, answers>>

Bad == [op |-> "Bad"]

Init ==
    /\ cmds = [c \in Client |-> <<>>]
    /\ whole = [c \in Client |-> 0]
    /\ db = InitDb
    /\ answers = [c \in Client |-> <<>>]

Begin(c) ==
    /\ whole[c] = Len(cmds[c]) /\ Len(cmds[c]) < Len(Menu[c])
    /\ \E cmd \in Menu[c][Len(cmds[c]) + 1] : cmds' = [cmds EXCEPT ![c] = Append(@, cmd)]
    /\ UNCHANGED <<whole, db, answers>>

Finish(c) ==
    /\ whole[c] < Len(cmds[c])
    /\ whole' = [whole EXCEPT ![c] = @ + 1]
    /\ UNCHANGED <<cmds, db, answers>>

Answer(n, r) == [n |-> n, res |-> r]

\* Has the client been refused, and the command it will be refused next
Refused(c) == \E j \in 1..Len(answers[c]) : answers[c][j].res = Invalid
Next1(c)   == IF Refused(c) THEN answers[c][Len(answers[c])].n ELSE Len(answers[c]) + 1

\* m commands of c, from its n-th on, executed one after the other
After(c, n, m) ==
    LET f[j \in 0..m] ==
          IF j = 0 THEN [db |-> db, seq |-> <<>>]
          ELSE LET out == Execute(f[j - 1].db, cmds[c][n + j - 1])
               IN [db  |-> out.db,
                   seq |-> Append(f[j - 1].seq, Answer(n + j - 1, out.res))]
    IN f[m]

\* The next m commands of c, then perhaps the refusal of an invalid one.
Serve(c) ==
    \E m \in 0..MaxCmds :
        LET n == Next1(c) IN
        /\ n + m - 1 <= whole[c]
        /\ \A j \in n..(n + m - 1) : cmds[c][j] # Bad
        /\ db' = After(c, n, m).db
        /\ \/ m > 0 /\ answers' = [answers EXCEPT ![c] = @ \o After(c, n, m).seq]
           \/ /\ n + m <= Len(cmds[c]) /\ cmds[c][n + m] = Bad
              /\ answers' = [answers EXCEPT ![c] =
                               @ \o After(c, n, m).seq \o <<Answer(n + m, Invalid)>>]
        /\ UNCHANGED <<cmds, whole>>

Next == \E c \in Client : Begin(c) \/ Finish(c) \/ Serve(c)

Spec == Init /\ [][Next]_vars
=============================================================================
