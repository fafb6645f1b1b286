------------------------------- MODULE Database ------------------------------
(***************************************************************************)
(* The database of the server (src/db/database.cpp) and what the server    *)
(* does with one command (the visitor of ClientHandler::recv_handler,      *)
(* src/server/client_handler.cpp).  A database is a value: the registered  *)
(* schemas and the collections, each with the schema it was created with   *)
(* and its documents.  The documents are the partial map that Collection   *)
(* implements (ImplementsKVStore); its put never fails (PutNeverFails), so *)
(* FailedResponse does not occur.                                          *)
(***************************************************************************)
EXTENDS TLC

EmptyMap == [x \in {} |-> x]
EmptyDb  == [schemas |-> EmptyMap, colls |-> EmptyMap]

\* What a database consists of, m_schemas and m_colls
IsDb(d) ==
    /\ DOMAIN d = {"schemas", "colls"}
    /\ \A name \in DOMAIN d.colls : DOMAIN d.colls[name] = {"schema", "docs"}

\* std::unordered_map::insert_or_assign, and the erasure of a key
Assign(f, x, y) == [z \in DOMAIN f \cup {x} |-> IF z = x THEN y ELSE f[z]]
Erase(f, x)     == [z \in DOMAIN f \ {x} |-> f[z]]

\* Responses (messages.hpp).
Success     == [op |-> "Success"]
NotFound    == [op |-> "NotFound"]
Invalid     == [op |-> "InvalidCommand"]
Found(v)    == [op |-> "Found", value |-> v]
SchemaIs(s) == [op |-> "Schema", schema |-> s]

\* The database after a command and the response to it.
Outcome(d, r) == [db |-> d, res |-> r]

RegisterSchema(d, cmd) ==
    Outcome([d EXCEPT !.schemas = Assign(@, cmd.name, cmd.schema)], Success)

\* insert_or_assign: a collection of that name is replaced by an empty one.
CreateCollection(d, cmd) ==
    IF cmd.schema_name \notin DOMAIN d.schemas
    THEN Outcome(d, NotFound)
    ELSE Outcome([d EXCEPT !.colls = Assign(@, cmd.name,
                     [schema |-> d.schemas[cmd.schema_name], docs |-> EmptyMap])],
                 Success)

GetSchema(d, cmd) ==
    Outcome(d, IF cmd.name \in DOMAIN d.schemas
               THEN SchemaIs(d.schemas[cmd.name]) ELSE NotFound)

GetCollectionSchema(d, cmd) ==
    Outcome(d, IF cmd.name \in DOMAIN d.colls
               THEN SchemaIs(d.colls[cmd.name].schema) ELSE NotFound)

Get(d, cmd) ==
    Outcome(d, IF cmd.coll_name \in DOMAIN d.colls
                  /\ cmd.key \in DOMAIN d.colls[cmd.coll_name].docs
               THEN Found(d.colls[cmd.coll_name].docs[cmd.key]) ELSE NotFound)

\* The documents of a collection after a put or a delete that found it.
WithDocs(d, name, docs) == [d EXCEPT !.colls = Assign(@, name, [@[name] EXCEPT !.docs = docs])]

Put(d, cmd) ==
    IF cmd.coll_name \notin DOMAIN d.colls
    THEN Outcome(d, NotFound)
    ELSE Outcome(WithDocs(d, cmd.coll_name,
                     Assign(d.colls[cmd.coll_name].docs, cmd.key, cmd.value)), Success)

\* Success whether or not the key was there.
Delete(d, cmd) ==
    IF cmd.coll_name \notin DOMAIN d.colls
    THEN Outcome(d, NotFound)
    ELSE Outcome(WithDocs(d, cmd.coll_name,
                     Erase(d.colls[cmd.coll_name].docs, cmd.key)), Success)

Execute(d, cmd) ==
    CASE cmd.op = "RegisterSchema"      -> RegisterSchema(d, cmd)
      [] cmd.op = "CreateCollection"    -> CreateCollection(d, cmd)
      [] cmd.op = "GetSchema"           -> GetSchema(d, cmd)
      [] cmd.op = "GetCollectionSchema" -> GetCollectionSchema(d, cmd)
      [] cmd.op = "Get"                 -> Get(d, cmd)
      [] cmd.op = "Put"                 -> Put(d, cmd)
      [] cmd.op = "Delete"              -> Delete(d, cmd)
=============================================================================
