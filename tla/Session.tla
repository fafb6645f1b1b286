------------------------------ MODULE Session -------------------------------
(***************************************************************************)
(* CLI sessions (src/cli/main.cpp) with the server, down to the bytes on   *)
(* the wire and in the documents.  A session reads a command from its      *)
(* user, writes it to the socket, and receives until one response is       *)
(* there; it keeps the schemas it was sent and lays out documents by them. *)
(*                                                                         *)
(* How the server gathers a command from its parts, and in which order it  *)
(* serves the clients, is the subject of Server: here it reads a command   *)
(* at once.  The server may end at any moment, with any part of what it    *)
(* sent delivered; a collection may be made anew under another schema.     *)
(***************************************************************************)
EXTENDS Documents, Database

CONSTANTS
    Client,
    Menu,      \* Menu[c][n], what the user of c may enter as the n-th command
    Chunks     \* bytes a recv may bring, 128 at most in the code

\* An entry, and a field of a new schema, whose type may be a cached schema.
FieldEntry == [name : Names, type : [kind : {FieldTypes[j] : j \in 1..11}]
                                    \cup [kind : {"StringType"}, capacity : Nat]
                                    \cup [kind : {"aggregate"}, name : Names]]
Entry == [do : {"schema"}, name : Names, key : Names, fields : Seq(FieldEntry)]
         \cup [do : {"collection"}, name : Names, schema : Names]
         \cup [do : {"getschema", "colschema", "put", "get", "delete"}, name : Names]

ASSUME MenuAssumption == \A c \in Client : /\ Menu[c] \in Seq(SUBSET Entry)
                                            /\ DOMAIN Menu = Client
ASSUME ChunksAssumption == Chunks \subseteq Nat \ {0}

VARIABLES
    \* of each CLI
    at,          \* "prompt", "waiting" for the response, "ended" by an exception
                 \* of the socket, "undefined" after reading outside a buffer
    step,        \* commands entered
    typed,       \* the last that was sent, as the user meant it
    schemas, colschemas,
    stream,      \* StreamBuf
    shown,       \* what was printed last
    \* of the server
    server,      \* "up", "down", "aborted" by an assertion, or "undefined"
    db,
    \* of the sockets
    to_server, to_client,
    \* not of the code:
    answer,      \* the response to the last command, unless it can no longer arrive
    drift        \* has a command been served that a client laid out by another
                 \* schema than the collection's?

cli_vars == <<at, step, typed, schemas, colschemas, stream, shown>>
vars == <<cli_vars, server, db, to_server, to_client, answer, drift>>

NoStream == [m_buf |-> <<>>, m_size |-> 0, m_used |-> 0]
Nothing  == [op |-> "Nothing"]

Init ==
    /\ at = [c \in Client |-> "prompt"]
    /\ step = [c \in Client |-> 0]
    /\ typed = [c \in Client |-> Nothing]
    /\ schemas = [c \in Client |-> EmptyMap]
    /\ colschemas = [c \in Client |-> EmptyMap]
    /\ stream = [c \in Client |-> NoStream]
    /\ shown = [c \in Client |-> Nothing]
    /\ server = "up"
    /\ db = EmptyDb
    /\ to_server = [c \in Client |-> <<>>]
    /\ to_client = [c \in Client |-> <<>>]
    /\ answer = [c \in Client |-> Nothing]
    /\ drift = FALSE

-----------------------------------------------------------------------------
(* StreamBuf. *)

AppendTo(s, bytes) == [s EXCEPT !.m_buf = @ \o bytes, !.m_size = @ + Len(bytes)]

KeepsUsed(s, n) ==                    \* slip: m_used is not reset
    IF s.m_used + n = s.m_size
    THEN [m_buf |-> <<>>, m_size |-> 0, m_used |-> s.m_used + n]
    ELSE [s EXCEPT !.m_used = @ + n]
Consumed(s, n) ==
    IF s.m_used + n = s.m_size THEN NoStream ELSE [s EXCEPT !.m_used = @ + n]

Data(s)       == SubSeq(s.m_buf, s.m_used + 1, s.m_size)
StreamSize(s) == s.m_size - s.m_used
Empty(s)      == s.m_size = 0

-----------------------------------------------------------------------------
(* The prompt: what the user enters, and the command made of it. *)

\* The fields of a new schema.  One whose subschema is not cached is dropped.
Composed(c, fs) ==
    LET known(f) == f.type.kind = "aggregate" => f.type.name \in DOMAIN schemas[c]
        type(t)  == IF t.kind = "aggregate"
                    THEN [kind |-> "AggregateType", fields |-> schemas[c][t.name].fields]
                    ELSE t
    IN [j \in 1..Len(SelectSeq(fs, known)) |->
            LET f == SelectSeq(fs, known)[j] IN [name |-> f.name, type |-> type(f.type)]]

\* The first field of the name the user gave.
KeyFields(fs, key) == {j \in 1..Len(fs) : fs[j].name = key}

NeedsSchema(e) == e.do \in {"get", "delete", "put"}

\* The commands that entry e can end in; none while the CLI asks again for a
\* field or a key.
Meant(c, e) ==
    CASE e.do = "schema" ->
            LET fs == Composed(c, e.fields)
                ks == KeyFields(fs, e.key)
            IN IF ks = {} \/ fs[Min(ks)].type.kind = "AggregateType" \/ fs \notin Fields THEN {}
               ELSE {[op |-> "RegisterSchema", name |-> e.name,
                      schema |-> [fields |-> fs, key |-> Min(ks) - 1]]}
      [] e.do = "collection" -> {[op |-> "CreateCollection", name |-> e.name, schema_name |-> e.schema]}
      [] e.do = "getschema"  -> {[op |-> "GetSchema", name |-> e.name]}
      [] e.do = "colschema"  -> {[op |-> "GetCollectionSchema", name |-> e.name]}
      [] e.do = "put"        -> LET schema == colschemas[c][e.name]
                                IN {[op |-> "Put", coll_name |-> e.name, value |-> v,
                                     key |-> v[KeyIndex(schema)]] : v \in Values[Whole(schema)]}
      [] e.do \in {"get", "delete"} ->
            {[op |-> IF e.do = "get" THEN "Get" ELSE "Delete", coll_name |-> e.name, key |-> k]
                : k \in Values[KeyType(colschemas[c][e.name])]}

\* The command on the wire: the document of a put, the key buffer of the others.
Command(c, m) ==
    CASE m.op = "Put" ->
            [op |-> "Put", coll_name |-> m.coll_name, value |-> Document(colschemas[c][m.coll_name], m.value)]
      [] m.op \in {"Get", "Delete"} ->
            LET t == KeyType(colschemas[c][m.coll_name])
            IN [m EXCEPT !.key = PrintField[t][0][Field(t, @)]]
      [] OTHER -> m

\* The whole command is written to the blocking socket.
Enter(c) ==
    /\ at[c] = "prompt" /\ step[c] < Len(Menu[c])
    /\ \E e \in Menu[c][step[c] + 1] :
         /\ NeedsSchema(e) => e.name \in DOMAIN colschemas[c]
         /\ \E m \in Meant(c, e) :
              /\ typed' = [typed EXCEPT ![c] = m]
              /\ to_server' = IF server = "up"
                              THEN [to_server EXCEPT ![c] = Write(Commands, Command(c, m))]
                              ELSE to_server
    /\ step' = [step EXCEPT ![c] = @ + 1]
    /\ at' = [at EXCEPT ![c] = "waiting"]
    /\ answer' = [answer EXCEPT ![c] = Nothing]
    /\ UNCHANGED <<schemas, colschemas, stream, shown, server, db, to_client, drift>>

\* "Run colschema to cache the schema for this collection first."
EnterUncached(c) ==
    /\ at[c] = "prompt" /\ step[c] < Len(Menu[c])
    /\ \E e \in Menu[c][step[c] + 1] : NeedsSchema(e) /\ e.name \notin DOMAIN colschemas[c]
    /\ step' = [step EXCEPT ![c] = @ + 1]
    /\ UNCHANGED <<at, typed, schemas, colschemas, stream, shown, server, db, to_server, to_client, answer, drift>>

-----------------------------------------------------------------------------
(* The server: one command, from bytes to bytes. *)

\* The schema of the collection is not the one the client laid the command out by.
Stale(c, cmd) ==
    /\ cmd.op \in {"Get", "Put", "Delete"} /\ cmd.coll_name \in DOMAIN db.colls
    /\ colschemas[c][cmd.coll_name] # db.colls[cmd.coll_name].schema

\* Storage::put copies a whole document, and its key is looked for in the copy.
ReadsOutside(schema, cmd) ==
    /\ cmd.op = "Put"
    /\ Len(cmd.value) < DocSize(schema) \/ ~KeyInside(schema, cmd.value)
\* assert(buf.len == sizeof(T)) in m_hash_fn
KeyRefused(schema, cmd) ==
    /\ cmd.op \in {"Get", "Delete"} /\ KeyType(schema).kind # "StringType"
    /\ Len(cmd.key) # PrimitiveSize[KeyType(schema).kind]

\* What the collection makes of the command.
Stored(cmd) ==
    IF cmd.op = "Put" /\ cmd.coll_name \in DOMAIN db.colls
    THEN LET schema == db.colls[cmd.coll_name].schema
         IN [op |-> "Put", coll_name |-> cmd.coll_name, key |-> KeyBuffer(schema, cmd.value),
             value |-> SubSeq(cmd.value, 1, DocSize(schema))]
    ELSE cmd

\* The schema of the collection that the command uses, if there is one.
Target(cmd) ==
    IF cmd.op \in {"Get", "Put", "Delete"}
    THEN {db.colls[n].schema : n \in {cmd.coll_name} \cap DOMAIN db.colls}
    ELSE {}

Serve(c) ==
    /\ server = "up" /\ Ok(Read(Commands, to_server[c]))
    /\ LET cmd == Read(Commands, to_server[c]).v
       IN /\ drift' = (drift \/ Stale(c, cmd))
          /\ IF \E schema \in Target(cmd) : ReadsOutside(schema, cmd) \/ KeyRefused(schema, cmd)
             THEN /\ server' = IF \E schema \in Target(cmd) : KeyRefused(schema, cmd)
                               THEN "aborted" ELSE "undefined"
                  /\ to_server' = [d \in Client |-> <<>>]
                  /\ UNCHANGED <<db, to_client, answer>>
             ELSE LET out == Execute(db, Stored(cmd))
                  IN /\ db' = out.db
                     /\ to_client' = [to_client EXCEPT ![c] = @ \o Write(Responses, out.res)]
                     /\ to_server' = [to_server EXCEPT ![c] = Read(Commands, @).c]
                     /\ answer' = [answer EXCEPT ![c] = out.res]
                     /\ UNCHANGED server
    /\ UNCHANGED cli_vars

\* The process ends.  Of what it sent, any part has been delivered.
End ==
    /\ server = "up" /\ server' = "down"
    /\ to_server' = [c \in Client |-> <<>>]
    /\ \E n \in [Client -> Chunks \cup {0}] :
         /\ to_client' = [c \in Client |-> SubSeq(to_client[c], 1, Min({n[c], Len(to_client[c])}))]
         /\ answer' = [c \in Client |-> IF n[c] < Len(to_client[c]) THEN Nothing ELSE answer[c]]
    /\ UNCHANGED <<cli_vars, db, drift>>

-----------------------------------------------------------------------------
(* The response. *)

\* SchemaResponse: into the cache that the command was about.
Cache(c, res) ==
    /\ schemas' = IF typed[c].op = "GetSchema"
                  THEN [schemas EXCEPT ![c] = Assign(@, typed[c].name, res.schema)] ELSE schemas
    /\ colschemas' = IF typed[c].op = "GetCollectionSchema"
                     THEN [colschemas EXCEPT ![c] = Assign(@, typed[c].name, res.schema)] ELSE colschemas

\* FoundResponse: the document is printed by the cached schema.
Printable(c, res) ==
    res.op = "Found" => Inside(colschemas[c][typed[c].coll_name], res.value)
Printed(c, res) ==
    IF res.op = "Found"
    THEN Found(FieldsOf(colschemas[c][typed[c].coll_name], res.value))
    ELSE res

\* while (!stream.empty())
PromptAfterOne(s) == "prompt"         \* slip: no loop around the recv
AfterRecv(s) == IF Empty(s) THEN "prompt" ELSE "waiting"

\* One turn of the loop that receives the response.
Recv(c) ==
    /\ at[c] = "waiting" /\ to_client[c] # <<>>
    /\ \E n \in Chunks :
         LET k == Min({n, Len(to_client[c])})
             s == AppendTo(stream[c], SubSeq(to_client[c], 1, k))
             r == Read(Responses, Data(s))
             t == CASE r.res = "SUCCESS"    -> Consumed(s, StreamSize(s) - Len(r.c))
                    [] r.res = "INVALID"    -> Consumed(s, StreamSize(s))
                    [] r.res = "INCOMPLETE" -> s
         IN /\ to_client' = [to_client EXCEPT ![c] = Drop(@, k)]
            /\ stream' = [stream EXCEPT ![c] = t]
            /\ at' = [at EXCEPT ![c] = IF Ok(r) /\ ~Printable(c, r.v) THEN "undefined"
                                       ELSE AfterRecv(t)]
            /\ IF Ok(r) /\ Printable(c, r.v)
               THEN shown' = [shown EXCEPT ![c] = Printed(c, r.v)] ELSE UNCHANGED shown
            /\ IF Ok(r) /\ r.v.op = "Schema" THEN Cache(c, r.v) ELSE UNCHANGED <<schemas, colschemas>>
    /\ UNCHANGED <<step, typed, server, db, to_server, answer, drift>>

\* The server has gone and recv returns 0: the CLI asks for the next command
\* if nothing of a response has come, and otherwise receives for ever.
RecvEnd(c) ==
    /\ at[c] = "waiting" /\ server # "up" /\ to_client[c] = <<>> /\ Empty(stream[c])
    /\ at' = [at EXCEPT ![c] = "prompt"]
    /\ UNCHANGED <<step, typed, schemas, colschemas, stream, shown, server, db, to_server, to_client, answer, drift>>

\* The connection was reset, and send or recv throws.
Reset(c) ==
    /\ at[c] = "waiting" /\ server # "up"
    /\ at' = [at EXCEPT ![c] = "ended"]
    /\ UNCHANGED <<step, typed, schemas, colschemas, stream, shown, server, db, to_server, to_client, answer, drift>>

Next ==
    /\ server # "undefined"
    /\ \/ \E c \in Client : Enter(c) \/ EnterUncached(c) \/ Recv(c) \/ RecvEnd(c) \/ Reset(c)
       \/ \E c \in Client : Serve(c)
       \/ End

Spec == Init /\ [][Next]_vars

-----------------------------------------------------------------------------
(* Properties. *)

\* The books of StreamBuf agree with its bytes: what was consumed is within what
\* was received (the assertion of consume), and a buffer that was used up is
\* forgotten.  (streambuf.cpp; main.cpp receives into it without a limit.)
TypeOK ==
    /\ \A c \in Client :
        /\ at[c] \in {"prompt", "waiting", "ended", "undefined"} /\ step[c] \in 0..Len(Menu[c])
        /\ stream[c].m_size = Len(stream[c].m_buf)
        /\ stream[c].m_used \in 0..stream[c].m_size
        /\ stream[c].m_used = stream[c].m_size => stream[c].m_size = 0
    /\ server \in {"up", "down", "aborted", "undefined"} /\ drift \in BOOLEAN

\* A session that lays out its documents by the collection's own schema never
\* makes the server read outside a command or a document, or fail its assertion
\* about the length of a key, and never prints from outside a document.  Both
\* sides compute sizes and offsets on their own, each from the schema that
\* reached it.  (client_handler.cpp:146 "Add checks to make sure data len is the
\* same as schema size".)
DocumentsFit ==
    server \in {"aborted", "undefined"} \/ (\E c \in Client : at[c] = "undefined") => drift

\* assert(stream.empty()) at the prompt, and more: no response to an earlier
\* command can still arrive, so the next one is not taken for it.
PromptClean ==
    \A c \in Client : at[c] = "prompt" =>
        /\ Empty(stream[c]) /\ to_client[c] = <<>>
        /\ server = "up" => to_server[c] = <<>>

\* No part of a message is taken for a message or refused, so that it does not
\* matter how it was cut; and one that is followed by another ends where that begins.
Delimited(alternatives, bytes, next) ==
    /\ \A n \in 0..(Len(bytes) - 1) : Read(alternatives, SubSeq(bytes, 1, n)).res = "INCOMPLETE"
    /\ LET r == Read(alternatives, bytes \o next) IN Ok(r) /\ r.c = next

\* Commands and responses survive the wire, whatever parts they arrive in.
WireFaithful ==
    server = "up" => \A c, d \in Client :
        /\ to_server[c] # <<>> =>
              /\ Delimited(Commands, to_server[c], to_server[d])
              /\ Read(Commands, to_server[c]).v = OnWire(Command(c, typed[c]))
        /\ to_client[c] # <<>> /\ Empty(stream[c]) =>
              Delimited(Responses, to_client[c], to_client[d])

-----------------------------------------------------------------------------
(* Implements Catalog: documents by what the user typed for their fields.  *)

Shown(c, res) ==
    IF Printable(c, res) THEN Printed(c, res) ELSE [op |-> "Found", value |-> <<"undefined">>]
Pending(c) ==
    CASE at[c] # "waiting"                          -> [at |-> "idle"]
      [] at[c] = "waiting" /\ to_server[c] # <<>>   -> [at |-> "asked", cmd |-> OnWire(typed[c])]
      [] at[c] = "waiting" /\ to_server[c] = <<>>   ->
           IF answer[c] = Nothing THEN [at |-> "lost"]
           ELSE [at |-> "done", cmd |-> OnWire(typed[c]), res |-> Shown(c, answer[c])]

TypedColl(coll) ==
    [coll EXCEPT !.docs = [k \in DOMAIN @ |->
        IF Inside(coll.schema, @[k]) THEN FieldsOf(coll.schema, @[k])
        ELSE <<"undefined">>]]
Typed(d) == [d EXCEPT !.colls = [n \in DOMAIN @ |-> TypedColl(@[n])]]

\* Once a command of another layout has been served, nothing is promised.
Unless(x, initial) == IF drift THEN initial ELSE x
Each(x) == [c \in Client |-> x]
CatalogBar ==
    INSTANCE Catalog WITH
        mode    <- Unless(IF server = "up" THEN "up" ELSE "down", "drift"),
        db      <- Unless(Typed(db), EmptyDb),
        known   <- Unless(colschemas, Each(EmptyMap)),
        cached  <- Unless(schemas, Each(EmptyMap)),
        pending <- Unless([c \in Client |-> Pending(c)], Each([at |-> "idle"])),
        shown   <- Unless(shown, Each(Nothing))

\* Layout, encoding, partial receives, caching and decoding together answer every
\* session as if the collections mapped typed keys to typed documents.
ImplementsCatalog == CatalogBar!Spec
=============================================================================
