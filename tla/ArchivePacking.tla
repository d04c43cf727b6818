--------------------------- MODULE ArchivePacking ---------------------------
(***************************************************************************)
(* Packing a directory that other processes change (crypto_archive.py,     *)
(* _inventory and pack_directory).  Nothing is locked: what was seen is    *)
(* compared with what is seen later.                                       *)
(*                                                                         *)
(* The tree has a fixed set of paths, at each of which there may be an     *)
(* inode.  The clock counts the changes; it numbers inodes and contents,   *)
(* and stamps what _unchanged compares (device, inode, mode, size and the  *)
(* two times): two changes of one inode never have the same stamp.         *)
(*                                                                         *)
(* Definitions that no action uses are faulty forms of the one after them. *)
(***************************************************************************)
EXTENDS Naturals, FiniteSets, Sequences

CONSTANTS
    Top,            \* the directory that is packed, whose inode is 0
    Dirs, Files,    \* paths below it
    Parent,         \* Parent[p]: the directory p is in
    Chunks,         \* how many reads a file takes
    MaxChanges      \* how often the tree is changed (a bound)

Paths == Dirs \cup Files

ASSUME PackingAssumption ==
    /\ Top \notin Paths
    /\ IsFiniteSet(Paths)
    /\ Dirs \cap Files = {}
    /\ Parent \in [Paths -> Dirs \cup {Top}]
    /\ \A s \in (SUBSET Paths) \ {{}} : \E p \in s : Parent[p] \notin s
    /\ Chunks \in Nat \ {0}
    /\ MaxChanges \in Nat

VARIABLES
    tree,       \* tree[p]: the inode at p, 0 if there is none
    stamp,      \* stamp[i]: the status of inode i
    text,       \* text[i]: the content of inode i
    clock,
    pack,       \* the packing: where it stands and what it has seen
    moment      \* history: what the tree held when the inventory was complete

treeVars == <<tree, stamp, text, clock>>
packingVars == <<tree, stamp, text, clock, pack, moment>>

Inode == 0..Cardinality(Paths) + 2 * MaxChanges
Below(d) == {p \in Paths : Parent[p] = d}
Children(d) == {p \in Below(d) : tree[p] # 0}

\* p and all below it, at any depth: the way up from there leads over p.
Within == [p \in Paths |->
    {q \in Paths : \A s \in SUBSET Paths :
                     q \in s /\ (\A o \in s : Parent[o] \in s \cup {Top}) => p \in s}]

\* What the tree and the archive hold at a path: what the reads of a file return.
Nothing == <<>>
Directory == <<"directory">>
Holds(p) ==
    IF tree[p] = 0 THEN Nothing
    ELSE IF p \in Dirs THEN Directory
    ELSE [n \in 1..Chunks |-> text[tree[p]]]

Seen(p) == [inode |-> tree[p], stamp |-> stamp[tree[p]]]
NothingSeen == [inode |-> 0, stamp |-> 0]

-----------------------------------------------------------------------------
Off == [pc |-> "off", top |-> 0, saw |-> [p \in Paths |-> NothingSeen],
        opened |-> {}, file |-> Top, inode |-> 0,
        archive |-> [p \in Paths |-> Nothing]]

\* Some of the paths are there to begin with.
PackingInit ==
    /\ \E there \in SUBSET Paths :
          /\ \A p \in there : Parent[p] \in there \cup {Top}
          /\ \E number \in [there -> 1..Cardinality(there)] :
                /\ \A p, q \in there : number[p] = number[q] => p = q
                /\ tree = [p \in Paths |-> IF p \in there THEN number[p] ELSE 0]
    /\ stamp = [i \in Inode |-> 0]
    /\ text = [i \in Inode |-> 0]
    /\ clock = 0
    /\ pack = [Off EXCEPT !.pc = "begin"]
    /\ moment = Off.archive

NoPacking ==
    /\ tree = [p \in Paths |-> 0]
    /\ stamp = [i \in Inode |-> 0]
    /\ text = [i \in Inode |-> 0]
    /\ clock = 0
    /\ pack = Off
    /\ moment = Off.archive

Fail == pack' = [pack EXCEPT !.pc = "failed"]

\* _unchanged
Unchanged(p) == Seen(p) = pack.saw[p]
TopUnchanged == stamp[0] = pack.top

Found == {p \in Paths : pack.saw[p] # NothingSeen}

PackStep(pc) == pack.pc = pc /\ UNCHANGED treeVars

-----------------------------------------------------------------------------
\* pack_directory opens the directory and takes its status; _inventory lists it.
OpenTop ==
    /\ PackStep("begin")
    /\ pack' = [pack EXCEPT !.pc = "scan", !.top = stamp[0]]
    /\ UNCHANGED moment

\* A child of an open directory is listed and looked at; it fails if it is gone by then.
ScanChild(p) ==
    /\ PackStep("scan")
    /\ Parent[p] \in pack.opened \cup {Top} /\ p \notin Found
    /\ tree[p] # 0
    /\ pack' = [pack EXCEPT !.saw[p] = Seen(p)]
    /\ UNCHANGED moment

\* A directory is opened and compared with what was looked at.
ScanDirectory(d) ==
    /\ PackStep("scan")
    /\ d \in (Dirs \cap Found) \ pack.opened
    /\ IF tree[d] = 0 \/ ~Unchanged(d) THEN Fail ELSE pack' = [pack EXCEPT !.opened = @ \cup {d}]
    /\ UNCHANGED moment

\* A listing may miss what comes or goes meanwhile, but not what is there all the time.
ScanEnds ==
    /\ PackStep("scan")
    /\ Dirs \cap Found \subseteq pack.opened
    /\ Children(Top) \subseteq Found \/ ~TopUnchanged
    /\ \A d \in pack.opened : Children(d) \subseteq Found \/ ~Unchanged(d)
    /\ pack' = [pack EXCEPT !.pc = "copy",
                            !.archive = [p \in Paths |-> IF p \in pack.opened THEN Directory
                                                          ELSE Nothing]]
    /\ moment' = [p \in Paths |-> Holds(p)]

-----------------------------------------------------------------------------
\* The files are packed one after the other.  A file is opened by its path from the top.
OpenFile(f) ==
    /\ PackStep("copy")
    /\ pack.file = Top
    /\ f \in Files \cap Found /\ pack.archive[f] = Nothing
    /\ IF tree[f] = 0 \/ ~Unchanged(f)
         THEN Fail
         ELSE pack' = [pack EXCEPT !.file = f, !.inode = tree[f]]
    /\ UNCHANGED moment

\* A read returns what the open inode holds now.
ReadChunk ==
    /\ PackStep("copy")
    /\ pack.file # Top /\ Len(pack.archive[pack.file]) < Chunks
    /\ pack' = [pack EXCEPT !.archive[pack.file] = Append(@, text[pack.inode])]
    /\ UNCHANGED moment

\* Both the open file and the path are compared again.
FileTrusted == TRUE
FileUnchanged ==
    /\ [inode |-> pack.inode, stamp |-> stamp[pack.inode]] = pack.saw[pack.file]
    /\ Unchanged(pack.file)

CloseFile ==
    /\ PackStep("copy")
    /\ pack.file # Top /\ Len(pack.archive[pack.file]) = Chunks
    /\ IF FileUnchanged THEN pack' = [pack EXCEPT !.file = Top, !.inode = 0] ELSE Fail
    /\ UNCHANGED moment

CopyEnds ==
    /\ PackStep("copy")
    /\ pack.file = Top
    /\ \A f \in Files \cap Found : pack.archive[f] # Nothing
    /\ pack' = [pack EXCEPT !.pc = "check"]
    /\ UNCHANGED moment

\* In the end the directories are compared again, the packed one last.
CheckDirectory(d) ==
    /\ PackStep("check")
    /\ d \in pack.opened
    /\ IF tree[d] = 0 \/ ~Unchanged(d) THEN Fail
       ELSE pack' = [pack EXCEPT !.opened = @ \ {d}]
    /\ UNCHANGED moment

CheckTop ==
    /\ PackStep("check")
    /\ pack.opened = {}
    /\ IF TopUnchanged THEN pack' = [pack EXCEPT !.pc = "packed"] ELSE Fail
    /\ UNCHANGED moment

\* A read or write that fails, a limit, a special file or a cancellation.
PackFails ==
    /\ pack.pc \in {"begin", "scan", "copy", "check"}
    /\ Fail
    /\ UNCHANGED <<treeVars, moment>>

PackNext ==
    \/ OpenTop \/ ScanEnds \/ ReadChunk \/ CloseFile \/ CopyEnds \/ CheckTop \/ PackFails
    \/ \E p \in Paths : ScanChild(p) \/ ScanDirectory(p) \/ OpenFile(p) \/ CheckDirectory(p)

-----------------------------------------------------------------------------
\* Other processes.
InodeOf(d) == IF d = Top THEN 0 ELSE tree[d]
Tick == clock < MaxChanges /\ clock' = clock + 1
Fresh(n) == Cardinality(Paths) + 2 * clock + n

\* A file is written in place.
Writes(f) ==
    /\ f \in Files /\ tree[f] # 0
    /\ Tick
    /\ text' = [text EXCEPT ![tree[f]] = clock']
    /\ stamp' = [stamp EXCEPT ![tree[f]] = clock']
    /\ UNCHANGED <<tree, pack, moment>>

\* What is at p, with all below it, gives way to something new or to nothing.
Binds(p) ==
    /\ Parent[p] \in Dirs => tree[Parent[p]] # 0
    /\ Tick
    /\ \E there \in SUBSET ({p} \cup Below(p)) :
          LET gone == Within[p]
              new == [q \in Paths |-> IF q = p THEN Fresh(1) ELSE Fresh(2)]
              touched == {InodeOf(Parent[p])} \cup {tree[q] : q \in {o \in gone : tree[o] # 0}}
          IN /\ there # {} => p \in there
             /\ Cardinality(there) <= 2
             /\ there # {} \/ tree[p] # 0
             /\ tree' = [q \in Paths |->
                            IF q \in there THEN new[q] ELSE IF q \in gone THEN 0 ELSE tree[q]]
             /\ stamp' = [i \in Inode |-> IF i \in touched \cup {Fresh(1), Fresh(2)}
                                           THEN clock' ELSE stamp[i]]
             /\ text' = [i \in Inode |-> IF i \in {Fresh(1), Fresh(2)} THEN clock' ELSE text[i]]
    /\ UNCHANGED <<pack, moment>>

TreeChanges == \E p \in Paths : Writes(p) \/ Binds(p)

PackingNext == PackNext \/ TreeChanges

-----------------------------------------------------------------------------
\* What was packed successfully is what the whole tree held at one moment, that at which the
\* inventory was complete, although nothing was locked and every file was read at another
\* time (crypto_archive.py:174-176, 254-278).
ArchiveIsOneMoment == pack.pc = "packed" => pack.archive = moment
=============================================================================
