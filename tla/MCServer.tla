------------------------------ MODULE MCServer -------------------------------
(* Instances of Server for TLC. *)
EXTENDS Server

CONSTANTS c1, c2, c3, a1, a2, a3

PutX == [op |-> "Put", coll_name |-> "p", key |-> "x", value |-> "v"]
GetX == [op |-> "Get", coll_name |-> "p", key |-> "x"]

\* One empty collection.
OneColl == [schemas |-> "s" :> "sch", colls |-> "p" :> [schema |-> "sch", docs |-> EmptyMap]]

\* One client pipelines three puts and gets, the other sends one command,
\* which may be invalid.
Pipelined == [c \in Client |-> IF c = c1 THEN <<{PutX, GetX}, {PutX, GetX}, {PutX, GetX}>>
                                         ELSE <<{PutX, GetX, Bad}>>]
OnePut    == [c \in Client |-> <<{PutX}>>]
\* One client asks for something, another is refused whenever it sends, and its
\* second refusal blocks the loop until it reads the first; a third comes and goes.
Beside    == [c \in Client |-> IF c = c1 THEN <<{PutX}>> ELSE IF c = c2 THEN <<{Bad}>> ELSE <<>>]
ASSUME MenusStay == PutsStay

Nodes == Permutations({a1, a2})
Three == Permutations({c1, c2, c3}) \cup Permutations({a1, a2, a3})
=============================================================================
