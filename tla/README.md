# Boutique in TLA+

Boutique is an in-memory database: a C++ server keeps collections of flat
documents in hash tables, clients speak a binary protocol to it over TCP, and a
command-line client composes schemas and documents. These modules model the
parts whose behaviour is hard to test, check them with TLC and prove what
matters most with TLAPS. Paths below are relative to `src/`.

## Inventory

| Component | State | Operations | What makes it correct |
|---|---|---|---|
| `Collection` + `Storage` (`db/collection.cpp`, `db/storage.cpp`) | documents without gaps, `m_count`, open-addressed `m_buckets` of (hash, index) | `put` (with rehash), `remove`, `find` | it is a map from keys to documents; the table indexes exactly the documents |
| Schema layout (`db/schema.cpp`) | none | `size`, `alignment`, `offset` | members aligned, inside the document, disjoint |
| `Database` (`db/database.cpp`) | `m_schemas`, `m_colls` | register, create, look up | names lead to the schema or collection last assigned |
| `ClientHandler` (`server/client_handler.cpp`) | socket, `m_stream`, `m_closed` | receive: parse, execute, answer, re-arm; close | each command executed once, in order, answered in order |
| `Server` (`server/server.cpp`) | `m_clients`, a list of handlers | accept (and erase closed clients) | operations lead to live handlers, sockets are closed with them |
| `IOContext` (`io/context.cpp`, `io/helpers.cpp`) | queues of receive, send, accept and wait operations, `m_stop` | `async_*`, `run`, `stop` | no operation is lost, those of one socket keep their order |
| `Socket`, `Timer` (`io/`) | a descriptor | accept, recv, send, move; expire | descriptors are owned once |
| Protocol (`protocol/binary_protocol.cpp`, `core/serialize.cpp`) | none | `read`, `write` of commands and responses | a prefix is INCOMPLETE, `read` inverts `write` |
| `StreamBuf` (`core/streambuf.cpp`) | bytes, used prefix | `append`, `consume` | nothing lost or seen twice |
| CLI (`cli/main.cpp`) | cached schemas | one request, one response; schema and document composition | documents fit the collection they go to |

How they interact: `IOContext::run` is one thread. It copies its queues, blocks
in `select`, and calls back: received bytes go to `ClientHandler::recv_handler`,
which parses as many commands as there are, executes each on the `Database` and
queues one send per response; an accepted socket goes to
`Server::accept_handler`. Operations hold raw pointers to sockets and handlers
inside list nodes. Clients and the network run concurrently with all of it.

What is hard: interleavings of clients with the loop, several operations on one
socket, lifetimes of handlers under pending operations, parts of commands and
batches of them, blocking sends, long sequences of put and remove on a hash
table with tombstones, sentinels and rounding. `PROJECT.json` lists each hazard
at its line with the properties that watch it.

## Modules

| Module | Models |
|---|---|
| `KVStore` | abstract: a partial map with put, remove and find and their results |
| `Collection` | `Collection` and `Storage`; implements `KVStore` |
| `CollectionProofs` | theorems about `Collection`: types, index, room in the table, `KVStore` |
| `Schema` | `size`, `alignment` and `offset` as operators |
| `Layout` | the schemas the CLI's schema command can compose, over `Schema` |
| `LayoutProofs` | theorems about `Layout`: types, alignment, bounds, padding |
| `Protocol` | the bytes of commands and responses, written and read |
| `ProtocolProofs` | theorem about `Protocol`: what is written is read, and no part of it |
| `Documents` | the bytes of documents and keys, over `Schema` and `Protocol` |
| `Database` | the database as a value, and one command executed on it |
| `Service` | abstract: commands of each client executed once, in order, answered in order |
| `Server` | `IOContext::run`, `Server`, `ClientHandler`, sockets and clients; implements `Service` over `Database` |
| `ServerProofs` | theorems about `Server`: types, lifetimes of nodes and sockets, receives, streams |
| `ServiceProofs` | theorems about `Server`: it implements `Service`, and puts are seen |
| `Catalog` | abstract: what a CLI user is promised, typed keys and documents and no bytes |
| `Session` | CLI sessions with the server over `Documents` and `Database`; implements `Catalog` |
| `SessionProofs` | theorems about `Session`: stream accounting, clean prompt, documents inside their buffers, faithful wire |
| `IOContext` | the loop with all its operations, helpers, sockets and timers, used by any program |
| `LoopProofs` | theorems about `IOContext`: types, conserved operations, what `select` said, "all", the order of bytes |
| `DataLemmas` | what the proofs need to know of numbers, sequences and offsets of fields |
| `MC*` | instances for TLC |

Three views of the running system divide its hard parts. `Server` has the
interleaving of clients, handlers and sends, with commands of two units.
`Session` has every byte of commands, responses and documents, with a server
that reads a command at once. `IOContext` has every operation of the
loop under any program; several sends on one blocking socket, which the server
issues, are left to `Server`.

**Collection.** `m_data`, `m_count` are the storage, stale documents past
`m_count` included; `m_buckets` is a function from slots to records
`key_hash`, `value_index`. `find` and `remove` are one step. `put` is `PutCall`,
then, if the load factor asks for it, one `RehashStep` per document and
`RehashDone`, then `Insert`; a failed assertion leads to `pc = "aborted"`.
`PutSlot` and `FindSlot` say at which slot the two probing loops end. The hash
function is a constant, its largest value `MaxHash` stands for 2^64 - 1. A
document is a key and a value; the type dispatch of the constructor is
abstracted into `Hash` and equality of keys.

The code has a defect that destroys the index (below), so `Guarded` selects the
callers: with `TRUE` no key is put again while a tombstone precedes its bucket
(`Shadowed`), with `FALSE` anything goes.

Two hashes are marks of the table, and keys may have either. A key that hashes to
0 cannot be found even right after its put, since `find` stops at its bucket. A
key that hashes to `MaxHash` is found, because `find` compares hashes and passes
over a removed bucket otherwise; but its bucket counts as free for `put`, which may give
it to another key, and the document is then lost. So what is said of the index
needs both excluded (`SentinelFree`), and what is said of a document just put only the first
(`ZeroFree`).

**Schema, Layout.** A field type is its size, alignment and primitive members
with their offsets; an aggregate is built from finished fields. In `Layout` the
state is the schema being composed, so TLC enumerates all schemas a user can
enter within the bounds.

**Protocol.** A byte is a number below `Base`, a uint32 is `Width` of them,
lowest first. A reader returns a result (`SUCCESS`, `INVALID`, `INCOMPLETE`)
and where it stands, as the code does with its cursor. `Commands` and
`Responses` list the alternatives of the two variants in their order with the
fields that follow; one `Write` and one `Read` serve both. `Base` is a constant
because a uint32 narrows what does not fit: with 16 instead of 256 the number
at which that happens, `Limit`, is within TLC's integers. Types nest, and what
goes through them in the code recursively is here a function on `Types`,
aggregates nested at most `MaxNesting` deep, a depth the code does not bound; the
reader of fields is a function of the bytes that are left. `...By` is the body of
such a function, with the function for the parts of a type as a parameter.
`OnWire` is a message after its capacities, a `size_t` in the code, were
narrowed to 4 bytes.

**Documents.** `FillField` writes what the user typed at the offset of its field
and `PrintField` reads it back; `KeyOffset` and `KeyBuffer` are what the
collection takes for its key. What lies outside the buffer is never read in the
model: `InBuffer` and `KeyInside` say whether the code would.

**Database.** `Execute(d, cmd)` gives the database after a command and the
response. Documents are the partial map that `Collection` implements.

**Server.** One turn of the loop is `Select`, one `RecvStep` per ready receive,
one `SendStep` per ready send, `AcceptStep`, `Merge`. `handler[a]` is what lies
in the list node at address `a`; operations carry that address. `AcceptStep`
does what `std::remove_if` and `erase` do to the list: contents move to the
front, nodes at the end are freed, a moved-over socket is not closed. If
`Select` meets an operation of a freed node the behaviour is undefined and the
model stops (`pc = "undefined"`). A command travels as two units, so it can
arrive in parts and several can arrive in one receive of at most `RecvMax`
units; a response is one unit and a socket buffers `SendCap` of them before
`send` blocks. `Orderly` selects the clients: with `TRUE` a client leaves only
after those accepted later have left and nobody is waiting, and nobody connects
before a departure was noticed; with `FALSE` they come and go as they like.
`Orderly` excludes the moves of `std::remove_if`, and with them a defect each
of `server.cpp:25` and `socket.cpp:95`. One is that operations point to nodes that are freed
(`server_dangling`). The other is that a move assignment drops the descriptor it is
assigned over: A and B are connected, A leaves, and when C is accepted the handler of B moves over
that of A, whose socket stays open for ever. No text of the repository promises otherwise, so no run
reports it; `FdsOwned`, which does not assume `Orderly`, says how far it goes: only
sockets of clients that have left are lost. `NoneLeaks` says that none is while nothing is moved.
The database is a perfect map here; where a key hashes to 0 or was stored twice, `Collection`
is none (`collection_sentinel`, `collection_assert`), and what `Server` shows of
acknowledged puts does not hold.
Clients leave with nothing left to read and without an invalid command: an
abrupt end makes `recv` or `send` throw, which is not modelled.

**Session, Catalog.** `Enter` is a command from the prompt to the socket:
composing a schema from cached ones, laying out a document or a key by the
cached schema of the collection, writing the message. `Serve` is its execution,
`Recv` one turn of the loop that receives the response, with its `StreamBuf`
field for field, `Cache` and `Printed` what the CLI does with it. When the
server would read outside a command or document it is `undefined`, when its
assertion about the length of a key fails `aborted`; a CLI that would print from
outside a document is `undefined` too. The server may end at any moment with
any part of what it sent delivered (`End`); the CLI then prompts, ends with an
exception, or, if a part of a response has come, receives for ever. The user
types members of `Texts` for strings and of `Nums` for numbers, the bytes of the
number in the widest type, of which a field keeps as many as it has; names are
single bytes in the run and any bytes in the proofs. A schema without an admissible key is no step: the CLI asks again.

The client lays out documents by a schema it fetched earlier, and nothing tells
it when the collection is made anew under another. `drift` records that a
command was served in this situation. From then on `Catalog` promises nothing, nor does `DocumentsFit`,
and nothing can be promised: the run does reach a server that reads outside a
command, an aborted one, and a CLI that prints from outside a document. `drift` and
`answer`, the response that can still arrive, are not of the code.

**IOContext.** Operations are numbered records of what was asked and of what
their handler has left to do. `queued` are the four lists of the object,
`current` the copies that a turn works on. A callback of the program does one
thing: issue an operation, stop the loop, reset a timer, or nothing. What the
world does on a descriptor happens while an operation on it is in flight; earlier
it would be noticed by the same operations. The program keeps to one operation
at a time for each direction of a descriptor unless the descriptor is in `Shared`: the
code's TODO about several operations on one socket. Sockets that are shared are
non-blocking, since a blocking `recv` whose bytes another operation took waits
inside the loop. Lengths are positive. `SelectHolds` makes no promise about shared descriptors.

`Timer::reset` is called at any time, also between the report of `select` and the service of a
wait: it forgets the ticks, and sets the timer or, with an initial expiration of zero, turns it
off. `alarm` is "expired" if the timer has expired since. A wait that finds no ticks returns 0, or
stays in `read` if the timer was made blocking (`timer.hpp:28`); those of the run are non-blocking, as
the constructor makes them. Whether a timer goes on after its first expiration is fixed per
timer (`Interval`), where `reset` sets that too.

Definitions marked "slip" stand before the definition they alter. They are
plausible mistakes, used to confirm that a property notices them, and nothing
else refers to them.

## Runs

| Run | Instance | Shows |
|---|---|---|
| `collection_guarded` | 3 keys, hashes 7, 7 and 8, 2 values, tables of 2, 4 and 8 | types, `IndexInv`, `RehashInv`, no duplicates, no failed assertion, implements `KVStore` |
| `collection_any` | hashes 7, 7 and `MaxHash`, at most 2 documents when a put begins, `Guarded = FALSE` | no wild index, put never fails, a put is visible, duplicates and marks of removed buckets or not |
| `collection_assert` | 2 keys, both with hash 7, `Guarded = FALSE` | **violated**: duplicates make an assertion fail |
| `collection_sentinel` | hashes 3 and 0 | **violated**: a document whose key hashes to 0 cannot be found |
| `layout_fields` | 7 types, 3 fields, nesting once | types; members aligned and in bounds; where the padding rule is right |
| `layout_padding` | as above | **violated**: padding moves a field back |
| `server_service` | 2 clients: one sends 3 puts or gets in parts, the other a put, a get or an invalid command | types and capacities; acknowledged puts are seen; stream accounting; implements `Service` |
| `server_churn` | 3 clients, 1 put each, 3 nodes, `Orderly = FALSE` | sockets owned, in any order of comings and goings |
| `server_live` | 3 clients: a put, an invalid command, none; 3 nodes | no dangling operation, receives armed, no socket leaked, the put is answered |
| `server_dangling` | 3 clients, `Orderly = FALSE` | **violated**: an operation points into a freed node |
| `io_loop` | a blocking, a non-blocking and a shared socket, a listener, a timer; 3 operations | operations conserved, what `select` said holds, "all" means all, order of bytes, `stop` returns, ready operations served |
| `session` | 2 users with 6 commands each: nested schemas, a collection remade | stream accounting, documents fit, clean prompt, faithful wire, implements `Catalog` |

Bounds. Tables of 2, 4 and 8 buckets instead of 32 and up have load limits 1, 2
and 5, so the first put creates a table that is rebuilt with no, one and two
documents in it, and every probe sequence and wrap-around (from slot 7 to 0, and
from 3 or 1 to 0) happens; two keys with one hash and a third that hashes to the
next slot produce all orders of collision. No put begins with `MaxDocs`
documents stored: in `collection_guarded` that is 4, and three keys never need more than three;
in `collection_any` it is 3, so a put begins with two at most, and duplicates are cut there. In `Server`, `SendCap = 1` makes a second
response wait and block; three commands per client are the fewest for which an
answer is on the way, one is carried over and a third is queued; `RecvMax = 3`
units cuts commands in every place; three clients are the fewest that can move
a live handler. Two units per command distinguish "nothing", "a part" and "all"
of it, all that the parsing loop can tell. In `server_service` the second client
sends one command: that is enough to take a turn between any two of the first,
to read what it wrote, and to be refused again for ever. In `server_live` the client with the
invalid command is refused on every receive, twice if its units come apart; if both sends are served in one turn, the second
blocks the loop, and with it the put of the other, until the first is read; the third comes and goes without a command, so nodes are reused. `RecvMax = 2` is a whole command.

In `io_loop` one operation goes to its end in pieces while two others of all
kinds are issued, from outside or from any callback, before, during and after
it; three are the fewest with one carried over, one new and one called back in
a turn. `SndCap = 1` cuts a send of two bytes in pieces, and `MaxBytes = 2` a
receive of two. One tick and one connection are what an operation can consume;
a second only makes it ready again.

In `session` the key of the first schema is a string and the rest a number with
padding before it; the second nests the first and has its key last, at an
offset. The capacity of the string is one that 4 bytes cannot hold, so what the server
and other clients have of the schema differs from what its user entered. Texts
are empty or longer than the capacity, the number (`OneNumber`) does not fit its
field, and one key byte occurs under both schemas. `MaxNesting = 2` is a schema
within a schema. Parts of 9 bytes cut every response but
the shortest, and 128 is what the CLI receives at most. Six commands are a
schema, a collection, its schema, a put and a get or delete, and one more for the
user who nests.

Runs are symmetric in keys with equal hashes, values, clients and addresses;
the liveness run uses no symmetry. Deadlock is checked in `collection_guarded`.
It is off elsewhere: `collection_any` stops when an assertion fails; bounded clients
finish and `select` then waits for ever; a schema whose fields are all
aggregates has no key (the CLI asks for ever), and composition stops at its bounds;
a program that has issued its operations waits in `select`; in `session` the
menus end, and a CLI whose server ended in the middle of a response goes no further.

Fairness (`Server!FairSpec`): weak fairness of the loop, which is a thread that runs
whenever `select` or a socket lets it, and of each client's reading. The latter
is needed: `send` blocks, so one client that does not read stops the server
for all. Clients need not send, finish a command or leave. `IOContext!FairSpec`
assumes only that the thread inside `run` goes on when it can; nothing is assumed
of peers, timers or the program outside `run`.

## What the violated runs show

* `put_internal` stops at the first tombstone (`db/collection.cpp:166`), so a key
  whose bucket lies behind one is stored twice. A delete then brings the old
  document back, and a later put or remove fails an assertion
  (`db/storage.cpp:34`, `db/collection.cpp:78`, `:128`).
* The hash 0 marks an empty bucket (`db/collection.cpp:204`), and the integer key 0 has it: its
  document is stored and not found. (A key that hashes to ~0, the mark of a removed bucket, is found until
  a later put takes its bucket.)
* `offset += offset % a` (`db/schema.cpp:62`) rounds down when the remainder is
  below `a / 2`: in the trace a field of one byte and one of four are
  both at 0, and so are those of {uint16, uint64}. `PadsLikeC` states
  when the rule is right, `MembersInBounds` that it at least never leaves the
  document.
* `std::remove_if` over the list (`server/server.cpp:25`) moves handlers while
  operations point to them: A and B connect, A leaves, C connects, and the
  receive of B is in freed memory.

## Proofs

`CollectionProofs!TypeCorrect`: `Spec => [](TypeOK /\ NoWildIndex)`, for all
keys, values, hash functions and sizes that satisfy the named assumptions of
`Collection`, with no discipline of the callers. The invariant is `TypeOK` and
`NoWildIndex` together: types of what a search returns rest on the bucket index
being that of a written document. One lemma per action.

`CollectionProofs!IndexCorrect`: if no hash is a sentinel (`SentinelFree`) and callers
are `Guarded`, then always `IndexInv`, `RehashInv`, `NoDuplicateDocs` and
`NeverAborts`. `IndexInv` is not inductive by itself. The strengthening
`IndexIInv` adds the types, that no two documents share a key, that the table
under construction indexes exactly the first `i` documents and has no tombstone
(so every search in it ends where a put does), and that while `put` is at its
insertion the key is not shadowed. The table's part is split into three: buckets
in use belong to their documents (sound), no two to the same (one to one), and
searches reach them (reachable). Two lemmas carry the argument: `AddDocument`
(claiming a free bucket at which a put ends keeps all three, since it lies on no
other key's way before its bucket) and `DropDocument` (a tombstone and a
redirected index keep all three). `NoTombstoneNoShadow` shows a fresh table
never shadows. TLC checks the same conjuncts in `collection_guarded`.

`CollectionProofs!PutSucceeds`: under the same conditions put never returns nullptr.
`LoadInv` says that there are never more documents than buckets, and fewer when
`put` looks for one; this is what the load limit is for. `FreeBucket` applies
the pigeonhole principle to the map from buckets in use to their documents,
which `IndexIInv` makes one to one: some bucket is free whatever the tombstones
are. A free slot lies at some distance from every key, and at the least distance
where a search may stop, it does (`PutEnds`).

`CollectionProofs!CollectionIsMap`: under the same conditions `Collection` implements
`KVStore`, with `StoreView` as the map. `AddView`, `OverwriteView` and `DropView`
say how the view of the storage changes; `Insert`, `Remove` and `Find` are then
the operations of the map, and all other steps leave the view and the last
result alone. Both invariants are needed: `IndexIInv` so that a search finds the
one document of its key, `LoadInv` so that no put fails.

Sentinel hashes and shadowed puts are excluded because the theorems are false
with them, as the violated runs show. Not excluded: sizes that are no powers of
two, any load, any history of removals.

`CollectionProofs!PutVisible` needs less: unless a hash is 0, what was put is found
at once, even if its hash is the mark of a removed bucket, for callers that are not `Guarded` and in a table with duplicates.
A search may then end before the bucket of the put, but only at a bucket of the
same key, and the put has written the document that bucket leads to.

**Layout.** The assumptions are those of the types: a primitive has an alignment of
1, 2, 4 or 8 and a size of at least that (a string is 4 bytes and its capacity, of any
length). `TypeCorrect` shows that aggregates are again such fields and contain their
members, aligned as they need, for schemas of any length and depth (`FieldType`). `MembersAligned`,
`MembersInBounds` and `PadsLikeC` follow from it, not from the code's padding
being right, which it is not: `Pad` gives a multiple of the alignment whichever
way it rounds, and rounds down by less than the size of the field that follows, so the
document still ends behind its predecessor. `Offset` is a recursive function; what
it gives for every field is proved by the least counterexample: a least field for
which it fails is not the first, and its predecessor contradicts it.

**The loop.** `LoopProofs` is about any program, any descriptors and any sizes.
The inductive invariant `LoopInv` has six parts: `WorldInv` and `ControlInv`,
the types of what the world and the loop keep; `OpsInv`, what has been asked
fits its descriptor; `Placed` and `Kept`, each queue and copy has operations of its
kind, each once, and an operation is in one of them until it is called back;
`Exclusive`, a descriptor that is not shared has one operation in flight for
each direction; `DoneInv`, how far an operation has got is what its buffer and the
wire say; `Promised`, what `select` reported of a descriptor still holds, or a timer was set anew and has
not expired since.
`Promised` needs `Exclusive`: what makes a socket ready stays until the operation
that takes it, and there is one; only `Timer::reset` takes ticks from under a wait. `Conserved` and `NeverAborted` have the
hypothesis `Shared \cap Listener = {}`: two accepts on one listener and one connection
fail the assertion in `Socket::accept`, and an operation is then neither
queued nor called back. The other theorems hold for shared listeners too.

`BytesOrdered` rests on `OrderInv`, inductive relative to `LoopInv`. `Ordered`: among
operations that end at once, a queue and its copy are in the order of issue and all
of the copy is before the queue, since only `async_recv_all` and `async_send_all` are
ever put back (`Grown`) and merging puts the copy first. So the operation served is
the oldest that waits for its descriptor (`ServesOldest`), also the only one where
nothing is shared. `StreamInv`: the first bytes to arrive are in the buffers in
order, the rest in the inbox; beyond the offset of a pending operation, and in all later
ones, nothing was written; the wire ends with the byte before the offset of a
pending send, or with an older operation. Serving the oldest at its offset keeps that
(`ReceivedGrows`, `SentGrows`); other streams do not notice (`StreamStays`).

**The server.** `ServerProofs` is about any number of clients, nodes and
commands, any sizes, and any database. `BaseInv` holds whatever clients do:
`ClientInv` and `StreamInv` (units on the way and in streams are those the client
sent, in order, and a stream begins with the first unit of a command), `ListInv`
(nodes have different sockets, and unused addresses none), `TurnInv` (a turn
looks up only nodes that stay, since erasing comes after it). It gives
`TypeCorrect`, also for the clients of `server_dangling`.

`Owned` holds for all clients too. Its invariant, `OwnInv`, adds to `FdsOwned` that a closed handler is of
a client that has left. What `remove_if` assigns over is then the socket of such a handler, or
one that has moved on to another node, and the destructors of the freed nodes close no socket of a
handler that was kept (`KeptStayOpen`): a node whose contents moved has no descriptor any more.
`OwnAccept` is that step, `OwnStays` all that leave the list alone.

The other theorems have the hypothesis `Orderly`, without which they are false.
What makes them true is in `OrderInv`: closed nodes are the last of the list
when a connection waits, so `std::remove_if` moves nothing and the nodes that
stay are those that operations point to; receives are those of the
open nodes, each once. For this it has to be known that a client that has left
has no send queued, which is about the order of answers: `SendInv` and
`AnswerInv` say that sends of a client answer, in rising order, commands
executed and not answered before, so a client that has read an answer to all it
sent has none. `ExecutedInv` ties this to the stream: answered or about to be answered are
exactly the commands its units are gone of. From these follow `NoDanglingOp`,
`ReceiversArmed`, `NoneLeaks` (`NoLeak`) and `StreamIsRest`. TLC checks these
on the instances of `server_live` and `server_service`.

`ServiceProofs!Serves`: under the same hypothesis `Server` implements `Service`. The
answers of a client that `Service` speaks of are in four places of `Server`: read, on
the network, in the sends of this turn and in those queued. `Answers` is the four
in a row, and `AnswersInv` says what is in it for a connected client: an answer to each
of its first `e` commands, `e` being the number its stream begins after, in order and
none of them a refusal; then, perhaps, refusals of the next command, an invalid
one. This is needed because `Service` numbers what it serves by the answers
given, and `Server` by the stream. A send begins or ends a command of `Service`;
a receive that brings the end of a command, or an invalid beginning, is `Serve`
(`ReceiptServes`: `Handle` and `Service!After` satisfy the same recursive equation);
every other step takes answers from one place to the next and is a stutter.
Two lemmas carry most of this. `PickWithout`: the answers of a client are in the order of
its operations, so removing one of another client changes nothing and removing its first
takes off its first answer; with `select` passing over sends to full sockets, the operation
served need not be the first of the queue. `AcceptIsQuiet`: `std::remove_if`
gives no operation to another client's socket.

`ServiceProofs!PutsSeen` has two hypotheses: `Orderly`, and `PutsStay`, that puts are to
collections there are and no command of a menu deletes a document that is put or makes
its collection anew; the runs' menus satisfy it (an ASSUME of `MCServer`). `PutsInv`
says of the database and of the same `Answers`: a put that was answered, by other than
a refusal, is stored; a get marked `after` has its document stored or a put of it
before it on its connection; if it was answered, it was found. `PutStays` and
`CollsGrow` say what commands do to documents and collections, and `Runs` follows the
commands of one receive through the databases between them. All other steps are
among those `Service` does not see, and need no argument of their own.

**The protocol.** `ProtocolProofs!MessagesTravel` is about every command and every response,
with schemas nested to any depth and any names, keys and documents that 4 bytes can
count, for any `Base` of more than 12, 256 included. `Reads(R, w, v)` says of a reader that it
finds `v` at the beginning of any bytes that begin with `w` and stops behind it, and
answers INCOMPLETE to every proper part of `w`. `ReadsInTurn`: one such reader after
another is such a reader; so `U32Value` (a number is four digits) gives strings, these
fields, types, schemas and messages. Readers and writers of types are recursive
functions: that their equations have a solution, and that it reads what was
written, is shown for the least depth of nesting, and the least number of fields, at
which it would not be so. The theorem is about both sides at once, so it also says
that one command followed by another is cut between them.

**Sessions.** `SessionProofs` is about any users and menus, any schemas, texts,
numbers and sizes of receives, and a server that may end at any moment. It proves
`TypeOK`, `PromptClean`, `DocumentsFit` and `WireFaithful`, all from `IInv`.

Of documents. The code's padding may lay a field over the one before it, so it is not
obvious that what was filled by a schema can be read by it: the length of a string
is read from the document and printing trusts it. `TypesFilled` shows that a
document has the schema's size and all of its fields inside. The reason is
`PadKeepsFours`: padding moves back by less than half of an alignment unit, so by at
most 3 bytes, and never over a multiple of 4 that is not past the end of the previous field. The
length of a string takes the first 4 bytes from such a multiple on and its
characters follow, so what a later field overwrites are characters, never a
length; a string may come back with other characters, but not with another length.
`DocumentIs` and `TypedKey` say the same of a whole document and of its key, and
`WhatIsMeant` that every command an entry can end in has names, schemas and documents the server
may rely on.

Of the state. `LocalOK` is about one session and says which of four things is the case:
nothing is on the way (`Quiet`); the bytes of exactly the command meant are
(`Asked`); what was received and what is to come are one response, or its beginning
once the server has ended (`Answered`, `Coming`); or the server has ended and
nothing will come. `DbOK` says that, until a command was served that a client had laid
out by another schema (`drift`), every stored document is one of its collection's
schema, whoever put it. `PromptClean` is not inductive without the first, since a response that
is cut anywhere is INCOMPLETE only by `MessagesTravel`; `DocumentsFit` is not without
the second, since what is printed was stored by another client. The schema of a
collection and a client's cached copy are the same value because narrowing
capacities twice is narrowing them once (`NarrowedOK`): both have gone over the wire.
One lemma per action follows, `Executed` for `Serve` and `ResponseComes` for `Recv`
carrying most of it. TLC checks the four properties on the run.

These theorems have the hypothesis `[]Counted`: the documents of the
schemas a client has cached are shorter than `Limit`, 2^32 in the code. Nothing checks this
(`core/serialize.cpp:52`, a capacity may be any number), and without it they are
false: the length of a longer document is cut and its rest is read as commands.
All schemas of the run satisfy it, whose documents have 8 and 9 bytes.

Only model-checked: `ImplementsCatalog`, that documents come back as they were
typed. It is false for arbitrary schemas, since overlapping fields overwrite one another
(`layout_padding`); the run has schemas whose fields do not overlap. Also liveness (`Answered`, `StopReturns`,
`ReadyServed`), which is out of reach of the prover, and the violated properties.

## Not modelled

* Errors that throw in the server: a `recv` or `send` on a reset connection ends
  it for every client. `Session!End` is what the clients see of it.
* Creating sockets (`listen`, `connect`, their options): their outcome is the
  kernel's, the models begin with what they return.
* `Timer` beyond `reset` and `expire_count`: durations are wall-clock time, and
  no model has a clock. `time_until_expiry` has no state.
* Moving and closing of timers; that of sockets is in `Server`.
* `NullTerminatedString`, `Storage::clear`: called by nobody.
* Logging, time tracking, formatting, templates without state, the entry points, tests
  and the benchmark.
* Allocation failure and the growth of buffers: a document is written or the
  program ends.

## Plan

1. Core (done): `Collection`, `Layout`, `Database`, `Service`, `Server`, the
   theorems about `Collection`.
2. The whole path of a command (done): `Protocol`, `Documents`, `Session`
   against `Catalog`; the whole of the loop: `IOContext`.
3. Proofs of `PutIsVisible`, `Layout`, the loop and the server, that `Server`
   implements `Service`, and of `PutsAreSeen` (done).
4. The order of bytes of the loop: `OrderInv` and `BytesInOrder` (done).
5. Abrupt departures in `Server`: a client that leaves responses unread.
6. Theorems about `Protocol` and `Session` (done): nested types as recursive functions,
   `MessagesTravel`, and the invariants of sessions. Left: `ImplementsCatalog` for
   schemas whose fields do not overlap.
