------------------------------- MODULE Catalog -------------------------------
(***************************************************************************)
(* What a CLI session promises its user, with no bytes in it: collections  *)
(* map the value of a key field to the values of all fields.  A command    *)
(* takes effect once, between being entered and being answered, and what   *)
(* is printed is what the database answered.                               *)
(*                                                                         *)
(* The promise rests on one condition: a client that uses a collection     *)
(* knows it by the schema it has.  It ends with the first command served   *)
(* where that does not hold (mode "drift").                                *)
(***************************************************************************)
EXTENDS Integers, Sequences, Database

CONSTANT Client

VARIABLES
    mode,      \* "up", "down" when the server has ended, "drift"
    db,
    known,     \* of each client: the schemas of the collections it has asked for
    cached,    \* and the schemas it can nest in another
    pending,   \* "idle", or its command: "asked", "done" or "lost"
    shown      \* what was printed last

vars == <<mode, db, known, cached, pending, shown>>

Init ==
    /\ mode = "up"
    /\ db = EmptyDb
    /\ known = [c \in Client |-> EmptyMap]
    /\ cached = [c \in Client |-> EmptyMap]
    /\ pending = [c \in Client |-> [at |-> "idle"]]
    /\ shown = [c \in Client |-> [op |-> "Nothing"]]

UsesColl(cmd) == cmd.op \in {"Get", "Put", "Delete"}

\* A collection is used after its schema was asked for, a document is stored
\* under its own key field, and aggregates are the fields of fetched schemas.
Proper(c, cmd) ==
    /\ UsesColl(cmd) => cmd.coll_name \in DOMAIN known[c]
    /\ cmd.op = "Put" => cmd.key = cmd.value[known[c][cmd.coll_name].key + 1]
    /\ cmd.op = "RegisterSchema" =>
         \A j \in 1..Len(cmd.schema.fields) :
            LET type == cmd.schema.fields[j].type
            IN type.kind = "AggregateType" =>
                 \E n \in DOMAIN cached[c] : type.fields = cached[c][n].fields

\* A command, or one that no server is there to hear
Ask(c) ==
    /\ pending[c].at = "idle"
    /\ pending' = [pending EXCEPT ![c] = pending'[c]]
    /\ \/ mode = "up" /\ pending'[c].at = "asked" /\ Proper(c, pending'[c].cmd)
       \/ mode = "down" /\ pending'[c].at = "lost"
    /\ UNCHANGED <<mode, db, known, cached, shown>>

Fresh(c, cmd) ==
    UsesColl(cmd) /\ cmd.coll_name \in DOMAIN db.colls
        => known[c][cmd.coll_name] = db.colls[cmd.coll_name].schema

Do(c) ==
    /\ mode = "up" /\ pending[c].at = "asked" /\ Fresh(c, pending[c].cmd)
    /\ LET out == Execute(db, pending[c].cmd)
       IN /\ db' = out.db
          /\ pending' = [pending EXCEPT ![c] = [at |-> "done", cmd |-> pending[c].cmd, res |-> out.res]]
    /\ UNCHANGED <<mode, known, cached, shown>>

Drift(c) ==
    /\ mode = "up" /\ pending[c].at = "asked" /\ ~Fresh(c, pending[c].cmd)
    /\ mode' = "drift"

\* The answer is printed, and a schema it brings is kept where it belongs.
Show(c) ==
    /\ pending[c].at = "done"
    /\ LET cmd == pending[c].cmd
           res == pending[c].res
       IN /\ shown' = [shown EXCEPT ![c] = res]
          /\ known' = IF cmd.op = "GetCollectionSchema" /\ res # NotFound
                      THEN [known EXCEPT ![c] = Assign(@, cmd.name, res.schema)] ELSE known
          /\ cached' = IF cmd.op = "GetSchema" /\ res # NotFound
                       THEN [cached EXCEPT ![c] = Assign(@, cmd.name, res.schema)] ELSE cached
    /\ pending' = [pending EXCEPT ![c] = [at |-> "idle"]]
    /\ UNCHANGED <<mode, db>>

\* The server ends, and answers that were on their way may be lost.
End ==
    /\ mode = "up" /\ mode' = "down"
    /\ \A c \in Client :
         \/ pending[c].at # "asked" /\ pending'[c] = pending[c]
         \/ pending[c].at \in {"asked", "done"} /\ pending'[c] = [at |-> "lost"]
    /\ UNCHANGED <<db, known, cached, shown>>

\* The user hears nothing of a command after the server has ended.
GiveUp(c) ==
    /\ mode = "down" /\ pending[c].at # "idle"
    /\ pending' = [pending EXCEPT ![c] = [at |-> "idle"]]
    /\ UNCHANGED <<mode, db, known, cached, shown>>

Next ==
    /\ mode # "drift"
    /\ End \/ \E c \in Client : Ask(c) \/ Do(c) \/ Drift(c) \/ Show(c) \/ GiveUp(c)

Spec == Init /\ [][Next]_vars
=============================================================================
