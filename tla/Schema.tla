------------------------------- MODULE Schema --------------------------------
(***************************************************************************)
(* Where the fields of a document lie: size, alignment and offset of       *)
(* src/db/schema.cpp.                                                      *)
(*                                                                         *)
(* A field type is what the layout needs of it: its size, its alignment,   *)
(* whether it is an aggregate, and the primitive members it consists of,   *)
(* each with its offset in it.  An aggregate is built from finished        *)
(* fields, so the recursion of the code follows that of the data.          *)
(***************************************************************************)
EXTENDS Integers, Sequences, FiniteSetsExt

\* Slips: the mask is left out; the remainder is not added before it.
PadUnmasked(o, a) == o + (o % a)
PadDown(o, a)     == o - (o % a)

\* offset += offset % a, then the bits below the alignment are cleared.
Pad(o, a) == (o + (o % a)) - ((o + (o % a)) % a)

\* The offset of the n-th field, counted from 1.
Offset(fs, n) ==
    LET off[j \in 1..n] ==
          IF j = 1 THEN 0 ELSE Pad(off[j - 1] + fs[j - 1].size, fs[j].align)
    IN off[n]

\* Slip: the sum of the sizes, without the padding.
SizeUnpadded(fs) == FoldSet(LAMBDA j, sum : sum + fs[j].size, 0, 1..Len(fs))
Size(fs)         == Offset(fs, Len(fs)) + fs[Len(fs)].size
\* Slip: the alignment of the last field instead of the strictest.
AlignmentOfLast(fs) == fs[Len(fs)].align
Alignment(fs)       == Max({fs[j].align : j \in 1..Len(fs)})

\* The primitive members of the fields, at their offsets in the document.
Members(fs) ==
    UNION {{[m EXCEPT !.off = @ + Offset(fs, j)] : m \in fs[j].members} : j \in 1..Len(fs)}

Leaf(size, align) ==
    [size |-> size, align |-> align, agg |-> FALSE,
     members |-> {[off |-> 0, size |-> size, align |-> align]}]
Aggregate(fs) ==
    [size |-> Size(fs), align |-> Alignment(fs), agg |-> TRUE, members |-> Members(fs)]

\* What a field can be: like any type of C it is at least as large as its
\* alignment, and so are its members, which it contains; it is aligned as
\* strictly as they are, and at a multiple of it they are all aligned.
Alignments == {1, 2, 4, 8}
FieldType ==
    {t \in [size : Nat, align : Alignments, agg : BOOLEAN,
            members : SUBSET [off : Nat, size : Nat, align : Alignments]] :
        /\ t.align <= t.size
        /\ \A m \in t.members : /\ m.align <= t.align /\ m.off % m.align = 0
                               /\ m.off + m.size <= t.size}

\* The offset the rules of C give a field that follows o bytes
NextAligned(o, a) == o + ((a - (o % a)) % a)
=============================================================================
