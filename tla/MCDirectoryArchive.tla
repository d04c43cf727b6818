------------------------- MODULE MCDirectoryArchive -------------------------
(***************************************************************************)
(* A directory with a file, and with a directory with a directory with a   *)
(* file; and listings of up to two entries, each with up to one change of  *)
(* a record.                                                               *)
(***************************************************************************)
EXTENDS DirectoryArchive

CONSTANTS d, dd, a, b

ParentOf == [p \in Paths |-> IF p = b THEN dd ELSE IF p = dd THEN d ELSE Top]

-----------------------------------------------------------------------------
N(key, form) == [key |-> key, form |-> form]
a1 == N("a", "plain")
a2 == N("a", "upper")
a3 == N("a", "decomposed")
b1 == N("b", "plain")
r1 == N("r", "reserved")

PathsUsed == {<<a1>>, <<a2>>, <<a3>>, <<b1>>, <<a1, a1>>, <<a1, b1>>, <<a2, b1>>, <<b1, a1>>, <<b1, a2>>}
PathsRefused == {<<r1>>, <<b1, r1>>, <<a1, a1, a1>>}

Plain == [is |-> "data", of |-> "x"]
Hidden == Local(Entry_(<<b1>>, FALSE, <<>>))
Fake == Central(Entry_(<<b1>>, TRUE, <<>>), 0)

Directory_(path) == Entry_(path, TRUE, <<>>)
File_(path, content) == Entry_(path, FALSE, content)
Directories_ == {Directory_(p) : p \in PathsUsed \cup PathsRefused}
Files_ == {File_(p, <<Plain>>) : p \in PathsUsed \cup PathsRefused}
          \cup {File_(<<b1>>, t) : t \in {<<>>, <<Hidden>>, <<Fake>>, <<Plain, Fake>>}}

\* Real directories: everything is in a directory, and has a name of its own.
IsTree(s) ==
    /\ \A e, f \in s : e.path = f.path => e = f
    /\ \A e \in s : Len(e.path) > 1 => Directory_(Front(e.path)) \in s
SourceTrees == {s \in {{}} \cup {{e, f, g} : e, f, g \in Directories_ \cup Files_} : IsTree(s)}

ZipOf(entries) == FoldLeft(Added, NoArchive, entries)

Changed(s) ==
    LET cells(c) == [s EXCEPT !.cells = c]
        moved(by, c) == [s EXCEPT !.cells = c, !.end.at = @ + by]
        cell == 1..Len(s.cells)
    IN {s, [s EXCEPT !.end.plain = FALSE], [s EXCEPT !.end.count = @ + 1],
        [s EXCEPT !.end.size = @ + 1], [s EXCEPT !.end.at = @ + 1],
        [s EXCEPT !.end.count = @ + 1, !.end.size = @ + 1, !.end.at = IF @ = 0 THEN 0 ELSE @ - 1],
        [s EXCEPT !.end.count = IF @ = 0 THEN 0 ELSE @ - 1, !.end.at = @ + 1,
                  !.end.size = IF @ = 0 THEN 0 ELSE @ - 1]}
       \cup {cells(ReplaceAt(s.cells, i, c)) : i \in cell, c \in {Plain, Hidden, Fake}}
       \cup {moved(1, InsertAt(s.cells, i, c)) : i \in cell, c \in {Plain, Hidden}}
       \cup {moved(0, InsertAt(s.cells, i, s.cells[i])) : i \in cell}
       \cup {cells(ReplaceAt(s.cells, i, [c EXCEPT !.plain = FALSE])) :
                i \in cell, c \in {c \in Range(s.cells) : c.is # "data"}}
       \cup {cells(ReplaceAt(s.cells, i, [s.cells[i] EXCEPT !.at = o])) :
                i \in {i \in cell : s.cells[i].is = "central"}, o \in 0..Len(s.cells)}
       \cup {cells(ReplaceAt(s.cells, i, [s.cells[i] EXCEPT !.size = o])) :
                i \in {i \in cell : s.cells[i].is # "data"}, o \in 0..2}

OtherArchives ==
    UNION {Changed(ZipOf(entries)) :
             entries \in {<<>>} \cup {<<e>> : e \in Files_ \cup Directories_}}
    \cup UNION {Changed(ZipOf(<<e, File_(<<b1>>, t)>>)) :
             e \in {File_(<<a1>>, <<Plain>>), Directory_(<<a1>>), File_(<<b1, a1>>, <<>>)},
             t \in {<<>>, <<Hidden>>, <<Fake>>, <<Plain, Fake>>}}
    \cup {ZipOf(<<e, f>>) : e, f \in Files_ \cup Directories_}
    \cup {ZipOf(<<Directory_(<<a1>>), e, f>>) : e, f \in Files_ \cup Directories_}
=============================================================================
