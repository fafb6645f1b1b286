------------------------------ MODULE MCLayout -------------------------------
(* Layout for TLC: one type of each size and alignment of schema.hpp (bool,  *)
(* uint16, uint32, uint64) and strings of capacity 1, 3 and 5, whose sizes   *)
(* leave every remainder by 4 but 0.                                         *)
EXTENDS Layout

Str(capacity) == Leaf(4 + capacity, 4)
Types == {Leaf(1, 1), Leaf(2, 2), Leaf(4, 4), Leaf(8, 8), Str(1), Str(3), Str(5)}
=============================================================================
