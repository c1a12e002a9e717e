---------------------------- MODULE MCNXArchive ----------------------------
(***************************************************************************)
(* Instances of NXArchive.  The streams are every short one, and the       *)
(* archives below cut at every length and with any two cells replaced.     *)
(***************************************************************************)
EXTENDS NXFormat

MCMagic == 7
MCLocation == <<8>>
Cells == {0, 1, 2, Header, File, Dir, End, Magic}

\* Bound: the length up to which every stream is tried.
ShortLength == 4

\* A directory, a file in two cells, an empty file.
Archive == <<Header, Magic, Dir, 2, 1, 0, File, 2, 2, 0, 2, 1, 1, File, 2, 1, 0, 0, End>>
\* A name that does not fit, and a name with a NUL inside.
LongName == <<File, 4, 1, 1, 1, 0, 0, End>>
InnerNul == <<File, 3, 1, 0, 0, 1, 2, End>>

Cut(s) == {SubSeq(s, 1, n) : n \in 0..Len(s)}
Damaged(s) == {[s EXCEPT ![m] = c, ![n] = d] : m \in 1..Len(s), n \in 1..Len(s), c \in Cells, d \in Cells}

MCBuffers ==
    UNION {[1..n -> Cells] : n \in 0..ShortLength}
        \cup Cut(Archive) \cup Damaged(Archive) \cup Cut(LongName) \cup Cut(InnerNul)
==============================================================================
