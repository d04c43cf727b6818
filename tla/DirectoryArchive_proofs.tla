----------------------- MODULE DirectoryArchive_proofs -----------------------
(***************************************************************************)
(* Proofs about the backup and the restoration of a directory, for any     *)
(* tree, number of files and number of changes, and any archive.           *)
(*                                                                         *)
(* RestoreInv says what is made at each step of extract_archive.  PackInv  *)
(* says what each of pack_directory's comparisons tells: a change stamps   *)
(* what it changes, and what it makes is new, so what looks as it did when *)
(* it was seen has not been changed since, and was the same at the moment  *)
(* in between when the inventory was complete.                             *)
(*                                                                         *)
(* ListingInv and ExtractInv say what is known of the names: the map of    *)
(* _register_path is a function of the set of what was registered, in      *)
(* whatever order; the entries that passed follow each other from the      *)
(* start of the archive; and what was made is what they list, each under a *)
(* key of its own, so that nothing is in the way of the next.              *)
(***************************************************************************)
EXTENDS DirectoryArchive, FiniteSetTheorems, SequenceTheorems, WellFoundedInduction, TLAPS

\* A restoration: the values of its state.
RestoreTypes ==
    /\ rest \in [pc : {"off", "begin", "end", "dead"} \cup Working \cup Looking \cup Leaving \cup Cleaning,
                 result : Failures \cup {"none", "exists", "ok", "durability"},
                 tidy : BOOLEAN, late : BOOLEAN]
    /\ entry \in [Entry -> {"none", "made", "written", "synced"}]
    /\ payload \in {"none", "box", "dest"}
    /\ box \in {"none", "here", "away"}
    /\ other \in BOOLEAN
    /\ lasting \in SUBSET {"payload", "dest"}

\* Where the payload and the box are at each step.
Located ==
    /\ rest.pc \in {"off", "begin", "box"} => payload = "none" /\ box = "none"
    /\ rest.pc \in {"lookbox", "payload"} => payload = "none" /\ box # "none"
    /\ rest.pc \in {"lookpayload", "entries", "publish"} => payload = "box" /\ box # "none"
    /\ rest.pc \in Leaving => payload = "dest"
    /\ rest.pc = "syncparent" => box # "here"
    /\ rest.pc = "rmbox" => payload # "box"

\* A payload is published when it is complete, and what removes its files after that knows
\* of no publication: it was interrupted within the rename.
Complete == (\A e \in Entry : entry[e] = "synced") /\ "payload" \in lasting
Published ==
    /\ rest.pc = "publish" => Complete
    /\ payload = "dest" /\ ~rest.late => Complete /\ ~other /\ rest.pc \in Leaving \cup {"end", "dead"}
    /\ rest.late => payload = "dest"

\* What is reported so far.
Reported ==
    /\ rest.pc \in {"off", "begin"} \cup Working \cup Looking \cup Leaving =>
          rest.result = "none" /\ rest.tidy /\ ~rest.late
    /\ rest.pc \in Cleaning => rest.tidy /\ rest.result \in Failures \cup {"exists"}
    /\ rest.pc \in Cleaning /\ rest.late => rest.result = "cancelled"
    /\ rest.result = "ok" => rest.pc = "end" /\ payload = "dest" /\ "dest" \in lasting

RestoreInv == RestoreTypes /\ Located /\ Published /\ Reported /\ NothingLeft

-----------------------------------------------------------------------------
\* A restoration begins with nothing made, and so does the part that is not used.
LEMMA RestoreStarts ==
    ASSUME RestoringInit \/ NoRestoring
    PROVE  RestoreInv
  <1>1. entry \in [Entry -> {"none", "made", "written", "synced"}]
    BY DEF RestoringInit, NoRestoring, NothingMade
  <1>2. rest = [Idle EXCEPT !.pc = "begin"] \/ rest = Idle
    BY DEF RestoringInit, NoRestoring
  <1>3. \E where \in {"off", "begin"} :
           rest = [pc |-> where, result |-> "none", tidy |-> TRUE, late |-> FALSE]
    BY <1>2 DEF Idle
  <1>4. payload = "none" /\ box = "none" /\ lasting = {} /\ other \in BOOLEAN
    BY DEF RestoringInit, NoRestoring, NothingMade
  <1>5. RestoreTypes
    BY <1>1, <1>3, <1>4 DEF RestoreTypes
  <1>6. Located /\ Published /\ Reported /\ NothingLeft
    BY <1>3, <1>4 DEF Located, Published, Reported, NothingLeft, Working, Looking, Leaving, Cleaning
  <1> QED
    BY <1>5, <1>6 DEF RestoreInv

\* A step that changes how far the files of the payload are: none that counts is published.
LEMMA RestoreEntries ==
    ASSUME RestoreInv, NEW e \in Entry,
           CreateEntry(e) \/ WriteEntry(e) \/ SyncEntry(e) \/ RemoveEntry(e)
    PROVE  RestoreInv'
  <1>1. /\ rest.pc \in {"entries", "remove"}
        /\ UNCHANGED <<rest, payload, box, other, lasting>>
        /\ \E to \in {"none", "made", "written", "synced"} : entry' = [entry EXCEPT ![e] = to]
    BY DEF CreateEntry, WriteEntry, SyncEntry, RemoveEntry, Progress
  <1>2. RestoreTypes'
    BY <1>1 DEF RestoreInv, RestoreTypes
  <1>3. Located' /\ Reported' /\ NothingLeft'
    BY <1>1 DEF RestoreInv, Located, Reported, NothingLeft
  <1>4. Published'
    BY <1>1 DEF RestoreInv, Located, Published, Leaving
  <1> QED
    BY <1>2, <1>3, <1>4 DEF RestoreInv

\* A step of extract_archive that leaves the files alone.
LEMMA RestoreMakes ==
    ASSUME RestoreInv,
           \/ CheckDestination \/ MakeBox \/ LookAtBox \/ MakePayload \/ LookAtPayload
           \/ LookingFails \/ SyncTree \/ WorkingFails
    PROVE  RestoreInv'
  <1> USE DEF RestoreInv, RestoreTypes, Located, Published, Complete, Reported, NothingLeft, fileVars,
              Working, Looking, Leaving, Cleaning, Failures, RestoreStep, Returns
  <1>1. CASE CheckDestination
    <2>1. ~Taken => rest' = [rest EXCEPT !.pc = "box"]
      BY <1>1 DEF CheckDestination
    <2>2. Taken => rest' = [rest EXCEPT !.pc = "end", !.result = "exists"]
      BY <1>1 DEF CheckDestination
    <2>3. rest.pc = "begin" /\ UNCHANGED <<entry, payload, box, other, lasting>>
      BY <1>1 DEF CheckDestination
    <2>4. CASE Taken
      <3>1. rest' = [rest EXCEPT !.pc = "end", !.result = "exists"]
        BY <2>2, <2>4
      <3>2. rest'.pc = "end" /\ rest'.result = "exists" /\ rest'.tidy = rest.tidy /\ rest'.late = rest.late
        BY <3>1
      <3>3. RestoreTypes'
        BY <2>3, <3>1
      <3> QED
        BY <2>3, <3>2, <3>3
    <2>5. CASE ~Taken
      BY <2>1, <2>3, <2>5
    <2> QED
      BY <2>4, <2>5
  <1>2. CASE MakeBox
    BY <1>2 DEF MakeBox
  <1>3. CASE LookAtBox
    BY <1>3 DEF LookAtBox
  <1>4. CASE MakePayload
    BY <1>4 DEF MakePayload
  <1>5. CASE LookAtPayload
    BY <1>5 DEF LookAtPayload
  <1>6. CASE LookingFails
    BY ZenonT(40), <1>6 DEF LookingFails
  <1>7. CASE SyncTree
    BY <1>7 DEF SyncTree
  <1>8. CASE WorkingFails
    BY ZenonT(40), <1>8 DEF WorkingFails, Undo
  <1> QED
    BY <1>1, <1>2, <1>3, <1>4, <1>5, <1>6, <1>7, <1>8

\* The rename, what follows it, and what cleans up.
LEMMA RestorePublishes ==
    ASSUME RestoreInv,
           \/ PublishPayload \/ PublishRefused \/ InterruptedLate
           \/ SyncBox \/ Unbox \/ SyncParent \/ LeavingFails
           \/ RemoveEnds \/ RemovePayload \/ Cleaned \/ CleaningFails \/ Killed
    PROVE  RestoreInv'
  <1> USE DEF RestoreInv, RestoreTypes, Located, Published, Complete, Reported, NothingLeft, fileVars,
              Working, Looking, Leaving, Cleaning, Failures, RestoreStep, Returns, Free, Taken
  <1>1. CASE PublishPayload
    BY <1>1 DEF PublishPayload
  <1>2. CASE PublishRefused
    BY <1>2 DEF PublishRefused
  <1>3. CASE InterruptedLate
    BY <1>3 DEF InterruptedLate
  <1>4. CASE SyncBox
    BY <1>4 DEF SyncBox
  <1>5. CASE Unbox
    BY <1>5 DEF Unbox
  <1>6. CASE SyncParent
    BY <1>6 DEF SyncParent
  <1>7. CASE LeavingFails
    BY ZenonT(40), <1>7 DEF LeavingFails
  <1>8. CASE RemoveEnds
    BY <1>8 DEF RemoveEnds
  <1>9. CASE RemovePayload
    BY <1>9 DEF RemovePayload
  <1>10. CASE Cleaned
    BY <1>10 DEF Cleaned, RemoveBox
  <1>11. CASE CleaningFails
    BY ZenonT(40), <1>11 DEF CleaningFails
  <1>12. CASE Killed
    BY <1>12 DEF Killed
  <1> QED
    BY <1>1, <1>2, <1>3, <1>4, <1>5, <1>6, <1>7, <1>8, <1>9, <1>10, <1>11, <1>12

\* Other processes.
LEMMA RestoreDisturbed ==
    ASSUME RestoreInv, OthersTake \/ OthersMove
    PROVE  RestoreInv'
  <1> USE DEF RestoreInv, RestoreTypes, Located, Published, Complete, Reported, NothingLeft,
              Working, Looking, Leaving, Cleaning
  <1>1. CASE OthersTake
    BY <1>1 DEF OthersTake
  <1>2. CASE OthersMove
    BY <1>2 DEF OthersMove
  <1> QED
    BY <1>1, <1>2

\* Every step of a restoration keeps RestoreInv.
LEMMA RestoreInvStep ==
    ASSUME RestoreInv, RestoringNext
    PROVE  RestoreInv'
  BY RestoreEntries, RestoreMakes, RestorePublishes, RestoreDisturbed DEF RestoringNext, RestoreNext

\* ... and so does what leaves it alone.
LEMMA RestoreInvStutters ==
    ASSUME RestoreInv, UNCHANGED restoringVars
    PROVE  RestoreInv'
  BY DEF restoringVars, RestoreInv, RestoreTypes, Located, Published, Complete, Reported, NothingLeft

\* A restoration keeps RestoreInv.
THEOREM RestoreInvariant == ArchiveSpec => []RestoreInv
  <1>1. ArchiveInit => RestoreInv
    BY RestoreStarts DEF ArchiveInit
  <1>2. RestoreInv /\ [ArchiveNext]_<<packingVars, restoringVars, listingVars>> => RestoreInv'
    BY RestoreInvStep, RestoreInvStutters DEF ArchiveNext, Packs, Restores, Lists
  <1> QED
    BY <1>1, <1>2, PTL DEF ArchiveSpec

\* What appears at the destination is the whole, durable directory, in the place of nothing
\* else, for any number of files (crypto_archive.py:513, 552-561).
THEOREM ArchiveDestinationWhole == ArchiveSpec => []DestinationWhole
  <1>1. RestoreInv => DestinationWhole
    BY DEF RestoreInv, Published, Complete, Reported, DestinationWhole
  <1> QED
    BY <1>1, RestoreInvariant, PTL

\* A restoration that ends leaves nothing but a published destination (README.md:293).
THEOREM ArchiveNothingLeft == ArchiveSpec => []NothingLeft
  <1>1. RestoreInv => NothingLeft
    BY DEF RestoreInv
  <1> QED
    BY <1>1, RestoreInvariant, PTL

-----------------------------------------------------------------------------
\* A directory that is packed: the values of the file system.  The numbers up to Used have
\* been given to inodes.
Used == Cardinality(Paths) + 2 * clock
TreeTypes ==
    /\ clock \in 0..MaxChanges
    /\ tree \in [Paths -> Inode]
    /\ stamp \in [Inode -> Nat]
    /\ text \in [Inode -> Nat]

\* No inode is at two paths, or at a path whose directory is not there.
TreeWhole ==
    /\ \A p \in Paths : tree[p] <= Used
    /\ \A i \in Inode : stamp[i] <= clock
    /\ \A p, q \in Paths : tree[p] = tree[q] /\ tree[p] # 0 => p = q
    /\ \A p \in Paths : tree[p] # 0 /\ Parent[p] \in Dirs => tree[Parent[p]] # 0

\* ... of what pack_directory has seen and written.
PackTypes ==
    /\ pack \in [pc : {"off", "begin", "scan", "copy", "check", "packed", "failed"}, top : Nat,
                 saw : [Paths -> [inode : Inode, stamp : Nat]], opened : SUBSET Dirs,
                 file : Files \cup {Top}, inode : Inode,
                 archive : [Paths -> Seq(Nat) \cup {Directory}]]
    /\ \A f \in Files : pack.archive[f] \in Seq(Nat)

\* What was seen was there, at the latest now.
SeenBefore ==
    /\ pack.top <= clock
    /\ pack.opened \subseteq Found
    /\ \A p \in Found : pack.saw[p].inode \in 1..Used /\ pack.saw[p].stamp <= clock

\* The moment of the complete inventory, as far as the inventory tells it: for a directory,
\* it held nothing that was not found; for a file, what its inode holds.
NoneMissed(d) == \A p \in Below(d) : moment[p] # Nothing => p \in Found
DirectoryWas(d) == moment[d] = Directory /\ NoneMissed(d)
FileWas(f) == moment[f] = [n \in 1..Chunks |-> text[pack.saw[f].inode]]

\* What is still unchanged tells what it was at that moment.
UnchangedSince ==
    pack.pc \in {"copy", "check"} =>
        /\ TopUnchanged => NoneMissed(Top)
        /\ \A d \in Dirs \cap Found : Unchanged(d) => DirectoryWas(d)
        /\ \A f \in Files \cap Found : Unchanged(f) => FileWas(f)

\* What was compared once was the same.
Compared ==
    /\ pack.pc = "copy" => Dirs \cap Found \subseteq pack.opened
    /\ pack.pc = "check" => \A d \in (Dirs \cap Found) \ pack.opened : DirectoryWas(d)
    /\ pack.pc = "packed" => NoneMissed(Top) /\ \A d \in Dirs \cap Found : DirectoryWas(d)

\* The file that is read: if it has not changed since it was seen, all that was read of it
\* is what it holds.
Reading ==
    pack.pc = "copy" /\ pack.file # Top =>
        /\ pack.file \in Files \cap Found
        /\ pack.inode = pack.saw[pack.file].inode
        /\ Len(pack.archive[pack.file]) <= Chunks
        /\ stamp[pack.inode] = pack.saw[pack.file].stamp =>
              \A i \in DOMAIN pack.archive[pack.file] : pack.archive[pack.file][i] = text[pack.inode]

\* What is in the archive.
Archived ==
    /\ pack.pc \in {"copy", "check", "packed"} =>
          /\ moment = [p \in Paths |-> moment[p]]
          /\ \A p \in Paths \ Found : pack.archive[p] = Nothing
          /\ \A d \in Dirs \cap Found : pack.archive[d] = Directory
          /\ \A f \in Files \cap Found :
                pack.archive[f] # Nothing /\ f # pack.file => pack.archive[f] = moment[f]
          /\ \A p \in Paths : moment[p] # Nothing /\ Parent[p] \in Dirs => moment[Parent[p]] # Nothing
    /\ pack.pc \in {"off", "begin", "scan"} =>
          pack.file = Top /\ \A p \in Paths : pack.archive[p] = Nothing
    /\ pack.pc \in {"check", "packed"} =>
          pack.file = Top /\ \A f \in Files \cap Found : pack.archive[f] # Nothing

PackInv ==
    TreeTypes /\ TreeWhole /\ PackTypes /\ SeenBefore /\ UnchangedSince /\ Compared /\ Reading /\ Archived

-----------------------------------------------------------------------------
\* There is a number for every inode that is made.
LEMMA InodesThere ==
    ASSUME clock \in Nat, clock < MaxChanges
    PROVE  /\ Used \in Nat
           /\ \A n \in {1, 2} : Fresh(n) \in Inode /\ Fresh(n) = Used + n /\ Fresh(n) <= Used + 2
           /\ 0 \in Inode
  <1>1. Cardinality(Paths) \in Nat /\ MaxChanges \in Nat
    BY PackingAssumption, FS_CardinalityType
  <1> QED
    BY <1>1 DEF Used, Fresh, Inode

\* A path is within itself, and so is what is in a directory within it; but no path is
\* within what it has below it.
LEMMA WithinIs ==
    ASSUME NEW p \in Paths
    PROVE  /\ Within[p] \subseteq Paths
           /\ p \in Within[p]
           /\ \A q \in Paths : Parent[q] \in Within[p] => q \in Within[p]
           /\ Parent[p] \notin Within[p]
  <1>1. Within[p] = {q \in Paths : \A s \in SUBSET Paths :
                        q \in s /\ (\A o \in s : Parent[o] \in s \cup {Top}) => p \in s}
    BY DEF Within
  <1>2. p \in Within[p] /\ Within[p] \subseteq Paths
    BY <1>1
  <1>3. ASSUME NEW q \in Paths, Parent[q] \in Within[p]
        PROVE  q \in Within[p]
    <2>1. ASSUME NEW s \in SUBSET Paths, q \in s, \A o \in s : Parent[o] \in s \cup {Top}
          PROVE  p \in s
      <3>1. Parent[q] \in s
        BY <1>2, <1>3, <2>1, PackingAssumption
      <3> QED
        BY <1>1, <1>3, <2>1, <3>1
    <2> QED
      BY <1>1, <2>1
  <1>4. ASSUME NEW q \in Within[p], q # p
        PROVE  Parent[q] \in Within[p]
    <2>1. Parent[q] # Top
      <3>1. Parent[q] = Top => p \in {q}
        BY ZenonT(40), <1>1, <1>2
      <3> QED
        BY <1>4, <3>1
    <2>2. Parent[q] \in Paths
      BY <1>2, <2>1, PackingAssumption DEF Paths
    <2>3. ASSUME NEW s \in SUBSET Paths, Parent[q] \in s, \A o \in s : Parent[o] \in s \cup {Top}
          PROVE  p \in s
      <3>1. /\ s \cup {q} \in SUBSET Paths
            /\ \A o \in s \cup {q} : Parent[o] \in (s \cup {q}) \cup {Top}
        BY <1>2, <2>3
      <3>2. p \in s \cup {q}
        BY <1>1, <3>1
      <3> QED
        BY <1>4, <3>2
    <2> QED
      BY <1>1, <2>2, <2>3
  <1>5. Parent[p] \notin Within[p]
    <2>1. ASSUME Parent[p] \in Within[p]
          PROVE  FALSE
      <3>1. \A q \in Within[p] : Parent[q] \in Within[p]
        BY <1>4, <2>1
      <3>2. Within[p] \in (SUBSET Paths) \ {{}}
        BY <1>2
      <3> QED
        BY <3>1, <3>2, PackingAssumption
    <2> QED
      BY <2>1
  <1> QED
    BY <1>2, <1>3, <1>5

\* Of two paths and no more, one is the other when a third is known.
LEMMA TwoAtMost ==
    ASSUME NEW s, IsFiniteSet(s), Cardinality(s) <= 2,
           NEW p \in s, NEW q \in s, NEW o \in s, q # p, o # p
    PROVE  q = o
  <1>1. ASSUME q # o
        PROVE  FALSE
    <2>1. IsFiniteSet({p}) /\ Cardinality({p}) = 1
      BY FS_Singleton
    <2>2. IsFiniteSet({p} \cup {q}) /\ Cardinality({p} \cup {q}) = 2
      <3>1. q \notin {p}
        OBVIOUS
      <3>2. /\ IsFiniteSet({p} \cup {q})
            /\ Cardinality({p} \cup {q}) = IF q \in {p} THEN Cardinality({p}) ELSE Cardinality({p}) + 1
        BY <2>1, FS_AddElement
      <3> QED
        BY <2>1, <3>1, <3>2
    <2>3. IsFiniteSet({p} \cup {q} \cup {o}) /\ Cardinality({p} \cup {q} \cup {o}) = 3
      <3>1. o \notin {p} \cup {q}
        BY <1>1
      <3>2. /\ IsFiniteSet({p} \cup {q} \cup {o})
            /\ Cardinality({p} \cup {q} \cup {o}) =
                  IF o \in {p} \cup {q} THEN Cardinality({p} \cup {q}) ELSE Cardinality({p} \cup {q}) + 1
        BY <2>2, FS_AddElement
      <3> QED
        BY <2>2, <3>1, <3>2
    <2>4. {p} \cup {q} \cup {o} \in SUBSET s
      OBVIOUS
    <2>5. Cardinality({p} \cup {q} \cup {o}) <= Cardinality(s) /\ Cardinality(s) \in Nat
      BY <2>4, FS_Subset, FS_CardinalityType
    <2> QED
      BY <2>3, <2>5
  <1> QED
    BY <1>1

-----------------------------------------------------------------------------
\* What a change of the tree leaves to be told: it stamps whatever it changes, and what it
\* makes is new.
Tells ==
    /\ clock' = clock + 1
    /\ UNCHANGED <<pack, moment>>
    /\ \A i \in Inode : stamp'[i] <= clock => stamp'[i] = stamp[i] /\ text'[i] = text[i]
    /\ \A p \in Paths : tree'[p] = tree[p] \/ tree'[p] = 0 \/ tree'[p] > Used

\* A file that is written.
LEMMA WritesTell ==
    ASSUME TreeTypes, TreeWhole, NEW f \in Paths, Writes(f)
    PROVE  TreeTypes' /\ TreeWhole' /\ Tells
  <1>1. /\ tree[f] \in Inode /\ clock < MaxChanges /\ clock' = clock + 1
        /\ text' = [text EXCEPT ![tree[f]] = clock']
        /\ stamp' = [stamp EXCEPT ![tree[f]] = clock']
        /\ UNCHANGED <<tree, pack, moment>>
    BY DEF Writes, Tick, TreeTypes
  <1>2. MaxChanges \in Nat /\ clock \in Nat /\ clock' \in 0..MaxChanges /\ Cardinality(Paths) \in Nat
    BY <1>1, PackingAssumption, FS_CardinalityType DEF TreeTypes
  <1>3. TreeTypes'
    BY <1>1, <1>2 DEF TreeTypes
  <1>4. \A i \in Inode : stamp'[i] = IF i = tree[f] THEN clock' ELSE stamp[i]
    BY <1>1 DEF TreeTypes
  <1>5. \A i \in Inode : text'[i] = IF i = tree[f] THEN clock' ELSE text[i]
    BY <1>1 DEF TreeTypes
  <1>6. \A i \in Inode : stamp[i] \in Nat /\ stamp[i] <= clock
    BY DEF TreeTypes, TreeWhole
  <1>7. Used' = Used + 2 /\ Used \in Nat
    BY <1>1, <1>2 DEF Used
  <1>8. \A i \in Inode : i \in Nat
    BY <1>2 DEF Inode
  <1>9. \A p \in Paths : tree[p] \in Nat /\ tree[p] <= Used
    BY <1>8 DEF TreeTypes, TreeWhole
  <1>10. \A p \in Paths : tree'[p] <= Used'
    BY <1>1, <1>7, <1>9
  <1>11. \A i \in Inode : stamp'[i] <= clock'
    BY <1>1, <1>2, <1>4, <1>6
  <1>12. TreeWhole'
    BY <1>1, <1>10, <1>11 DEF TreeWhole
  <1>13. Tells
    BY <1>1, <1>2, <1>4, <1>5, <1>6 DEF Tells
  <1> QED
    BY <1>3, <1>12, <1>13

\* A path that is bound anew, or to nothing, with all that is below it.
LEMMA BindsTell ==
    ASSUME TreeTypes, TreeWhole, NEW p \in Paths, Binds(p)
    PROVE  TreeTypes' /\ TreeWhole' /\ Tells
  <1> DEFINE gone == Within[p]
  <1>1. PICK there \in SUBSET ({p} \cup Below(p)) :
          LET new == [q \in Paths |-> IF q = p THEN Fresh(1) ELSE Fresh(2)]
              touched == {InodeOf(Parent[p])} \cup {tree[q] : q \in {o \in gone : tree[o] # 0}}
          IN /\ there # {} => p \in there
             /\ Cardinality(there) <= 2
             /\ there # {} \/ tree[p] # 0
             /\ tree' = [q \in Paths |->
                            IF q \in there THEN new[q] ELSE IF q \in gone THEN 0 ELSE tree[q]]
             /\ stamp' = [i \in Inode |-> IF i \in touched \cup {Fresh(1), Fresh(2)}
                                           THEN clock' ELSE stamp[i]]
             /\ text' = [i \in Inode |-> IF i \in {Fresh(1), Fresh(2)} THEN clock' ELSE text[i]]
    BY DEF Binds
  <1> DEFINE touched == {InodeOf(Parent[p])} \cup {tree[q] : q \in {o \in gone : tree[o] # 0}}
  <1>2. /\ clock < MaxChanges /\ clock' = clock + 1
        /\ UNCHANGED <<pack, moment>>
        /\ Parent[p] \in Dirs => tree[Parent[p]] # 0
    BY DEF Binds, Tick
  <1>3. MaxChanges \in Nat /\ clock \in Nat /\ clock' \in 0..MaxChanges /\ Cardinality(Paths) \in Nat
    BY <1>2, PackingAssumption, FS_CardinalityType DEF TreeTypes
  <1>4. \A i \in Inode : i \in Nat
    BY <1>3 DEF Inode
  <1>5. /\ Used' = Used + 2 /\ Used \in Nat
        /\ Fresh(1) = Used + 1 /\ Fresh(2) = Used + 2
        /\ Fresh(1) \in Inode /\ Fresh(2) \in Inode /\ 0 \in Inode
    BY <1>2, <1>3, InodesThere DEF Used
  <1>6. /\ gone \subseteq Paths /\ p \in gone /\ Parent[p] \notin gone
        /\ \A q \in Paths : Parent[q] \in gone => q \in gone
    BY WithinIs
  <1>7. there \subseteq gone /\ p \in Paths
    BY <1>6 DEF Below
  <1>8. \A q \in Paths : tree'[q] = IF q = p /\ q \in there THEN Fresh(1)
                                    ELSE IF q \in there THEN Fresh(2)
                                    ELSE IF q \in gone THEN 0 ELSE tree[q]
    BY <1>1
  <1>9. \A i \in Inode : stamp'[i] = IF i \in touched \cup {Fresh(1), Fresh(2)} THEN clock' ELSE stamp[i]
    BY <1>1
  <1>10. \A i \in Inode : text'[i] = IF i \in {Fresh(1), Fresh(2)} THEN clock' ELSE text[i]
    BY <1>1
  <1>11. \A i \in Inode : stamp[i] \in Nat /\ text[i] \in Nat /\ stamp[i] <= clock
    BY DEF TreeTypes, TreeWhole
  <1>12. \A q \in Paths : tree[q] \in Nat /\ tree[q] \in Inode /\ tree[q] <= Used
    BY <1>4 DEF TreeTypes, TreeWhole
  <1>13. TreeTypes'
    <2>1. tree' = [q \in Paths |-> tree'[q]] /\ \A q \in Paths : tree'[q] \in Inode
      BY <1>1, <1>5, <1>8, <1>12
    <2>2. stamp' = [i \in Inode |-> stamp'[i]] /\ \A i \in Inode : stamp'[i] \in Nat
      BY <1>1, <1>3, <1>9, <1>11
    <2>3. text' = [i \in Inode |-> text'[i]] /\ \A i \in Inode : text'[i] \in Nat
      BY <1>1, <1>3, <1>10, <1>11
    <2> QED
      BY <1>3, <2>1, <2>2, <2>3 DEF TreeTypes
  <1>14. Tells
    <2>1. ASSUME NEW i \in Inode, stamp'[i] <= clock
          PROVE  stamp'[i] = stamp[i] /\ text'[i] = text[i]
      BY <1>2, <1>3, <1>9, <1>10, <2>1
    <2>2. \A q \in Paths : tree'[q] = tree[q] \/ tree'[q] = 0 \/ tree'[q] > Used
      BY <1>5, <1>8
    <2> QED
      BY <1>2, <2>1, <2>2 DEF Tells
  <1>15. TreeWhole'
    <2>1. \A q \in Paths : tree'[q] <= Used'
      BY <1>5, <1>8, <1>12
    <2>2. \A i \in Inode : stamp'[i] <= clock'
      BY <1>2, <1>3, <1>9, <1>11
    <2>3. ASSUME NEW q \in Paths, NEW o \in Paths, tree'[q] = tree'[o], tree'[q] # 0
          PROVE  q = o
      <3>1. IsFiniteSet(there)
        <4>1. there \subseteq Paths
          BY DEF Below
        <4> QED
          BY <4>1, PackingAssumption, FS_Subset
      <3>2. CASE q \in there
        <4>1. o \in there
          BY <1>5, <1>8, <1>12, <2>3, <3>2
        <4>2. (q = p) <=> (o = p)
          BY <1>5, <1>8, <2>3, <3>2, <4>1
        <4>3. CASE q = p
          BY <4>2, <4>3
        <4>4. CASE q # p
          <5>1. p \in there /\ Cardinality(there) <= 2 /\ o # p
            BY <1>1, <3>2, <4>2, <4>4
          <5> QED
            BY <3>1, <3>2, <4>1, <4>4, <5>1, TwoAtMost
        <4> QED
          BY <4>3, <4>4
      <3>3. CASE q \notin there
        <4>1. q \notin gone /\ tree'[q] = tree[q]
          BY <1>8, <2>3, <3>3
        <4>2. o \notin there
          <5>1. o \in there => tree'[o] = Used + 1 \/ tree'[o] = Used + 2
            BY <1>5, <1>8
          <5>2. tree'[o] \in Nat /\ tree'[o] <= Used
            BY <1>12, <2>3, <4>1
          <5> QED
            BY <1>5, <5>1, <5>2
        <4>3. tree'[o] = tree[o]
          BY <1>8, <2>3, <4>2
        <4> QED
          BY <2>3, <4>1, <4>3 DEF TreeWhole
      <3> QED
        BY <3>2, <3>3
    <2>4. ASSUME NEW q \in Paths, tree'[q] # 0, Parent[q] \in Dirs
          PROVE  tree'[Parent[q]] # 0
      <3>1. Parent[q] \in Paths
        BY <2>4 DEF Paths
      <3>2. CASE q \in there /\ q # p
        <4>1. Parent[q] = p /\ p \in there
          BY <1>1, <3>2 DEF Below
        <4> QED
          BY <1>5, <1>8, <4>1
      <3>3. CASE q = p
        <4>1. tree'[Parent[q]] = tree[Parent[q]]
          BY <1>6, <1>7, <1>8, <3>1, <3>3
        <4> QED
          BY <1>2, <2>4, <3>3, <4>1
      <3>4. CASE q \notin there /\ q # p
        <4>1. q \notin gone /\ tree'[q] = tree[q]
          BY <1>8, <2>4, <3>4
        <4>2. Parent[q] \notin gone
          BY <1>6, <4>1
        <4>3. tree'[Parent[q]] = tree[Parent[q]]
          BY <1>7, <1>8, <3>1, <4>2
        <4> QED
          BY <2>4, <4>1, <4>3 DEF TreeWhole
      <3> QED
        BY <3>2, <3>3, <3>4
    <2> QED
      BY <2>1, <2>2, <2>3, <2>4 DEF TreeWhole
  <1> QED
    BY <1>13, <1>14, <1>15

-----------------------------------------------------------------------------
\* Nothing has been seen, packed or bound twice to begin with.
LEMMA PackStarts ==
    ASSUME PackingInit \/ NoPacking
    PROVE  PackInv
  <1>1. Cardinality(Paths) \in Nat /\ MaxChanges \in Nat /\ clock = 0
    BY PackingAssumption, FS_CardinalityType DEF PackingInit, NoPacking
  <1>2. Used = Cardinality(Paths) /\ Used \in Nat /\ 0 \in Inode /\ 0..Used \subseteq Inode
    BY <1>1 DEF Used, Inode
  <1>3. /\ stamp = [i \in Inode |-> 0] /\ text = [i \in Inode |-> 0]
        /\ moment = Off.archive
        /\ pack = [Off EXCEPT !.pc = "begin"] \/ pack = Off
    BY DEF PackingInit, NoPacking
  <1>4. /\ tree = [p \in Paths |-> tree[p]]
        /\ \A p \in Paths : tree[p] \in 0..Used
        /\ \A p, q \in Paths : tree[p] = tree[q] /\ tree[p] # 0 => p = q
        /\ \A p \in Paths : tree[p] # 0 /\ Parent[p] \in Dirs => tree[Parent[p]] # 0
    <2>1. CASE NoPacking
      <3>1. tree = [p \in Paths |-> 0]
        BY <2>1 DEF NoPacking
      <3> QED
        BY <1>2, <3>1
    <2>2. CASE PackingInit
      <3>0. PICK there \in SUBSET Paths :
               /\ \A p \in there : Parent[p] \in there \cup {Top}
               /\ \E number \in [there -> 1..Cardinality(there)] :
                     /\ \A p, q \in there : number[p] = number[q] => p = q
                     /\ tree = [p \in Paths |-> IF p \in there THEN number[p] ELSE 0]
        BY <2>2 DEF PackingInit
      <3>1. PICK number \in [there -> 1..Cardinality(there)] :
               /\ \A p, q \in there : number[p] = number[q] => p = q
               /\ tree = [p \in Paths |-> IF p \in there THEN number[p] ELSE 0]
        BY <3>0
      <3>2. Cardinality(there) \in Nat /\ Cardinality(there) <= Used
        <4>1. IsFiniteSet(there) /\ Cardinality(there) <= Cardinality(Paths)
          BY PackingAssumption, FS_Subset
        <4> QED
          BY <1>2, <4>1, FS_CardinalityType
      <3>3. \A p \in there : number[p] \in Nat \ {0} /\ number[p] <= Used
        BY <1>2, <3>2
      <3>4. \A p \in Paths : tree[p] = IF p \in there THEN number[p] ELSE 0
        BY <3>1
      <3>5. \A p \in Paths : tree[p] \in 0..Used
        BY <1>2, <3>3, <3>4
      <3>6. \A p, q \in Paths : tree[p] = tree[q] /\ tree[p] # 0 => p = q
        BY <3>1, <3>3, <3>4
      <3>7. \A p \in Paths : tree[p] # 0 /\ Parent[p] \in Dirs => tree[Parent[p]] # 0
        <4>1. ASSUME NEW p \in Paths, tree[p] # 0, Parent[p] \in Dirs
              PROVE  tree[Parent[p]] # 0
          <5>1. Parent[p] \in there
            BY <3>0, <3>4, <4>1, PackingAssumption DEF Paths
          <5> QED
            BY <3>3, <3>4, <5>1
        <4> QED
          BY <4>1
      <3>8. tree = [p \in Paths |-> tree[p]]
        BY <3>1
      <3> QED
        BY <3>5, <3>6, <3>7, <3>8
    <2> QED
      BY <2>1, <2>2
  <1>5. TreeTypes /\ TreeWhole
    <2>1. \A p \in Paths : tree[p] \in Inode /\ tree[p] <= Used
      BY <1>2, <1>4
    <2>2. \A i \in Inode : stamp[i] = 0
      BY <1>3
    <2> QED
      BY <1>1, <1>3, <1>4, <2>1, <2>2 DEF TreeTypes, TreeWhole
  <1>6. \E where \in {"off", "begin"} :
           pack = [pc |-> where, top |-> 0, saw |-> [p \in Paths |-> NothingSeen], opened |-> {},
                   file |-> Top, inode |-> 0, archive |-> [p \in Paths |-> Nothing]]
    BY <1>3 DEF Off
  <1>7. Found = {} /\ pack.top = 0 /\ pack.opened = {} /\ pack.pc \in {"off", "begin"}
    BY <1>6 DEF Found
  <1>8. PackTypes
    <2>1. Nothing \in Seq(Nat) /\ NothingSeen \in [inode : Inode, stamp : Nat]
      BY <1>2 DEF Nothing, NothingSeen
    <2>2. [p \in Paths |-> Nothing] \in [Paths -> Seq(Nat) \cup {Directory}]
      BY <2>1
    <2>3. [p \in Paths |-> NothingSeen] \in [Paths -> [inode : Inode, stamp : Nat]]
      BY <2>1
    <2>4. \A f \in Files : pack.archive[f] = Nothing
      BY <1>6 DEF Paths
    <2> QED
      BY <1>2, <1>6, <2>1, <2>2, <2>3, <2>4 DEF PackTypes
  <1>9. SeenBefore /\ UnchangedSince /\ Compared /\ Reading
    BY <1>1, <1>7 DEF SeenBefore, UnchangedSince, Compared, Reading
  <1>10. Archived
    <2>1. pack.file = Top /\ \A p \in Paths : pack.archive[p] = Nothing
      BY <1>6
    <2> QED
      BY <1>7, <2>1 DEF Archived
  <1> QED
    BY <1>5, <1>8, <1>9, <1>10 DEF PackInv

\* What another process changes does not look as it did: what still does has not been changed.
LEMMA PackDisturbed ==
    ASSUME PackInv, TreeTypes', TreeWhole', Tells
    PROVE  PackInv'
  <1>1. /\ pack' = pack /\ moment' = moment /\ clock \in Nat /\ clock' = clock + 1
        /\ Found' = Found
    BY DEF Tells, PackInv, TreeTypes, Found
  <1>2. Used \in Nat
    BY <1>1, PackingAssumption, FS_CardinalityType DEF Used
  <1>3. Used' = Used + 2
    BY <1>1, <1>2, PackingAssumption, FS_CardinalityType DEF Used
  <1>4. \A i \in Inode : stamp'[i] <= clock => stamp'[i] = stamp[i] /\ text'[i] = text[i]
    BY DEF Tells
  <1>5. PackTypes'
    BY <1>1 DEF PackInv, PackTypes
  <1>6. /\ Found \subseteq Paths
        /\ \A p \in Found : /\ pack.saw[p].inode \in Inode /\ pack.saw[p].inode \in 1..Used
                            /\ pack.saw[p].stamp \in Nat /\ pack.saw[p].stamp <= clock
        /\ pack.top \in Nat /\ pack.top <= clock /\ pack.inode \in Inode
        /\ pack.opened \subseteq Found
    BY DEF PackInv, SeenBefore, PackTypes, Found
  <1>7. SeenBefore'
    BY <1>1, <1>2, <1>3, <1>6 DEF SeenBefore
  <1>8. ASSUME NEW p \in Found, Unchanged(p)'
        PROVE  Unchanged(p) /\ text'[pack.saw[p].inode] = text[pack.saw[p].inode]
    <2>1. tree'[p] = pack.saw[p].inode /\ stamp'[tree'[p]] = pack.saw[p].stamp
      BY <1>1, <1>8 DEF Unchanged, Seen
    <2>2. tree'[p] = tree[p]
      <3>1. tree'[p] = tree[p] \/ tree'[p] = 0 \/ tree'[p] > Used
        BY <1>6 DEF Tells
      <3> QED
        BY <1>2, <1>6, <2>1, <3>1
    <2>3. stamp'[pack.saw[p].inode] <= clock
      BY <1>6, <2>1
    <2>4. /\ stamp'[pack.saw[p].inode] = stamp[pack.saw[p].inode]
          /\ text'[pack.saw[p].inode] = text[pack.saw[p].inode]
      BY <1>4, <1>6, <2>3
    <2>5. pack.saw[p] = [inode |-> pack.saw[p].inode, stamp |-> pack.saw[p].stamp]
      BY <1>6 DEF PackInv, PackTypes
    <2> QED
      BY <2>1, <2>2, <2>4, <2>5 DEF Unchanged, Seen
  <1>9. TopUnchanged' => TopUnchanged
    <2>1. 0 \in Inode
      BY <1>1, PackingAssumption, FS_CardinalityType DEF Inode
    <2> QED
      BY <1>1, <1>4, <1>6, <2>1 DEF TopUnchanged
  <1>10. UnchangedSince'
    <2>1. \A d : NoneMissed(d)' <=> NoneMissed(d)
      BY <1>1 DEF NoneMissed
    <2>2. \A f \in Files \cap Found : Unchanged(f)' => (FileWas(f)' <=> FileWas(f))
      BY <1>1, <1>8 DEF FileWas
    <2>3. \A d : DirectoryWas(d)' <=> DirectoryWas(d)
      BY <1>1, <2>1 DEF DirectoryWas
    <2>4. \A p \in Found : Unchanged(p)' => Unchanged(p)
      BY <1>8
    <2> QED
      BY <1>1, <1>9, <2>1, <2>2, <2>3, <2>4 DEF UnchangedSince, PackInv
  <1>11. Compared' /\ Archived'
    BY <1>1 DEF PackInv, Compared, Archived, DirectoryWas, NoneMissed
  <1>12. Reading'
    <2>1. ASSUME pack.pc = "copy", pack.file # Top, stamp'[pack.inode] = pack.saw[pack.file].stamp
          PROVE  stamp[pack.inode] = pack.saw[pack.file].stamp /\ text'[pack.inode] = text[pack.inode]
      <3>1. pack.file \in Found
        BY <2>1 DEF PackInv, Reading
      <3> QED
        BY <1>4, <1>6, <2>1, <3>1
    <2> QED
      BY <1>1, <2>1 DEF Reading, PackInv
  <1> QED
    BY <1>5, <1>7, <1>10, <1>11, <1>12 DEF PackInv

-----------------------------------------------------------------------------
\* A step of pack_directory leaves the tree as it is.
LEMMA PackLeavesTree ==
    ASSUME PackInv, UNCHANGED treeVars
    PROVE  /\ TreeTypes' /\ TreeWhole' /\ Used' = Used
           /\ \A p : Seen(p)' = Seen(p)
           /\ \A d : Children(d)' = Children(d)
           /\ \A p : Holds(p)' = Holds(p)
  <1>1. tree' = tree /\ stamp' = stamp /\ text' = text /\ clock' = clock
    BY DEF treeVars
  <1> QED
    BY <1>1 DEF PackInv, TreeTypes, TreeWhole, Used, Seen, Children, Holds

\* A step that sees nothing new leaves what was seen as it was.
LEMMA PackSeesNothing ==
    ASSUME UNCHANGED <<treeVars, moment>>, pack'.saw = pack.saw, pack'.top = pack.top
    PROVE  /\ Found' = Found
           /\ TopUnchanged' <=> TopUnchanged
           /\ \A p : Unchanged(p)' <=> Unchanged(p)
           /\ \A d : NoneMissed(d)' <=> NoneMissed(d)
           /\ \A d : DirectoryWas(d)' <=> DirectoryWas(d)
           /\ \A f : FileWas(f)' <=> FileWas(f)
  <1>1. tree' = tree /\ stamp' = stamp /\ text' = text /\ clock' = clock /\ moment' = moment
    BY DEF treeVars
  <1>2. Found' = Found
    BY DEF Found
  <1>3. TopUnchanged' <=> TopUnchanged
    BY <1>1 DEF TopUnchanged
  <1>4. \A p : Unchanged(p)' <=> Unchanged(p)
    BY <1>1 DEF Unchanged, Seen
  <1>5. \A d : NoneMissed(d)' <=> NoneMissed(d)
    BY <1>1, <1>2 DEF NoneMissed
  <1>6. \A d : DirectoryWas(d)' <=> DirectoryWas(d)
    BY <1>1, <1>5 DEF DirectoryWas
  <1>7. \A f : FileWas(f)' <=> FileWas(f)
    BY <1>1 DEF FileWas
  <1> QED
    BY <1>2, <1>3, <1>4, <1>5, <1>6, <1>7

\* A packing that fails has made nothing.
LEMMA PackingFails ==
    ASSUME PackInv, UNCHANGED <<treeVars, moment>>, Fail
    PROVE  PackInv'
  <1>1. /\ TreeTypes' /\ TreeWhole' /\ Used' = Used /\ clock' = clock
    BY PackLeavesTree DEF treeVars
  <1>2. /\ pack'.pc = "failed" /\ pack' = [pack EXCEPT !.pc = "failed"]
        /\ pack'.top = pack.top /\ pack'.saw = pack.saw /\ pack'.opened = pack.opened
        /\ pack'.archive = pack.archive
    BY DEF Fail, PackInv, PackTypes
  <1>3. Found' = Found
    BY <1>2 DEF Found
  <1>4. PackTypes'
    BY <1>2 DEF PackInv, PackTypes
  <1>5. SeenBefore'
    BY <1>1, <1>2, <1>3 DEF PackInv, SeenBefore
  <1>6. UnchangedSince' /\ Compared' /\ Reading' /\ Archived'
    BY <1>2 DEF UnchangedSince, Compared, Reading, Archived
  <1> QED
    BY <1>1, <1>4, <1>5, <1>6 DEF PackInv

\* The inventory, until it is complete.
LEMMA PackScans ==
    ASSUME PackInv, OpenTop \/ \E p \in Paths : ScanChild(p) \/ ScanDirectory(p)
    PROVE  PackInv'
  <1>1. UNCHANGED <<treeVars, moment>> /\ UNCHANGED clock /\ UNCHANGED stamp
    BY DEF OpenTop, ScanChild, ScanDirectory, PackStep, treeVars
  <1>2. TreeTypes' /\ TreeWhole' /\ Used' = Used
    BY <1>1, PackLeavesTree
  <1>3. /\ pack.pc \in {"begin", "scan"} /\ pack.file = Top
        /\ \A q \in Paths : pack.archive[q] = Nothing
    BY DEF OpenTop, ScanChild, ScanDirectory, PackStep, PackInv, Archived
  <1>4. CASE OpenTop
    <2>1. pack' = [pack EXCEPT !.pc = "scan", !.top = stamp[0]]
      BY <1>4 DEF OpenTop
    <2>2. stamp[0] \in Nat /\ stamp[0] <= clock
      <3>1. 0 \in Inode
        BY PackingAssumption, FS_CardinalityType DEF Inode
      <3> QED
        BY <3>1 DEF PackInv, TreeTypes, TreeWhole
    <2>3. /\ pack'.pc = "scan" /\ pack'.top = stamp[0] /\ pack'.saw = pack.saw
          /\ pack'.opened = pack.opened /\ pack'.file = pack.file /\ pack'.archive = pack.archive
      BY <2>1 DEF PackInv, PackTypes
    <2>4. PackTypes'
      BY <2>1, <2>2 DEF PackInv, PackTypes
    <2>5. Found' = Found
      BY <2>3 DEF Found
    <2>6. SeenBefore'
      BY <1>1, <1>2, <2>2, <2>3, <2>5 DEF PackInv, SeenBefore
    <2>7. UnchangedSince' /\ Compared' /\ Reading' /\ Archived'
      BY <1>3, <2>3 DEF UnchangedSince, Compared, Reading, Archived
    <2> QED
      BY <1>2, <2>4, <2>6, <2>7 DEF PackInv
  <1>5. ASSUME NEW p \in Paths, ScanChild(p)
        PROVE  PackInv'
    <2>1. pack' = [pack EXCEPT !.saw[p] = Seen(p)] /\ pack.pc = "scan" /\ tree[p] # 0
      BY <1>5 DEF ScanChild, PackStep
    <2>2. pack' = [pack EXCEPT !.saw = [pack.saw EXCEPT ![p] = Seen(p)]]
      BY <2>1
    <2>3. /\ pack'.pc = "scan" /\ pack'.top = pack.top /\ pack'.saw = [pack.saw EXCEPT ![p] = Seen(p)]
          /\ pack'.opened = pack.opened /\ pack'.file = pack.file /\ pack'.archive = pack.archive
      BY <2>1, <2>2 DEF PackInv, PackTypes
    <2>4. /\ tree[p] \in Inode /\ tree[p] \in 1..Used
          /\ stamp[tree[p]] \in Nat /\ stamp[tree[p]] <= clock
          /\ Seen(p) = [inode |-> tree[p], stamp |-> stamp[tree[p]]]
      <3>1. \A i \in Inode : i \in Nat
        BY PackingAssumption, FS_CardinalityType DEF Inode
      <3>2. Used \in Nat
        BY PackingAssumption, FS_CardinalityType DEF PackInv, TreeTypes, Used
      <3> QED
        BY <2>1, <3>1, <3>2 DEF PackInv, TreeTypes, TreeWhole, Seen
    <2>5. PackTypes'
      <3>1. Seen(p) \in [inode : Inode, stamp : Nat]
        BY <2>4
      <3>2. [pack.saw EXCEPT ![p] = Seen(p)] \in [Paths -> [inode : Inode, stamp : Nat]]
        BY <3>1 DEF PackInv, PackTypes
      <3> QED
        BY <2>2, <2>3, <3>2 DEF PackInv, PackTypes
    <2>6. /\ pack.saw \in [Paths -> [inode : Inode, stamp : Nat]]
          /\ Found' = Found \cup {p}
          /\ \A q \in Paths : q # p => pack'.saw[q] = pack.saw[q]
          /\ pack'.saw[p] = Seen(p)
      <3>1. pack.saw \in [Paths -> [inode : Inode, stamp : Nat]]
        BY DEF PackInv, PackTypes
      <3>2. Seen(p) # NothingSeen
        BY <2>1, <2>4 DEF NothingSeen
      <3>3. \A q \in Paths : pack'.saw[q] = IF q = p THEN Seen(p) ELSE pack.saw[q]
        BY <2>3, <3>1
      <3> QED
        BY <3>1, <3>2, <3>3 DEF Found
    <2>7. SeenBefore'
      BY <1>1, <1>2, <2>3, <2>4, <2>6 DEF PackInv, SeenBefore, Found
    <2>8. UnchangedSince' /\ Compared' /\ Reading' /\ Archived'
      BY <1>3, <2>3 DEF UnchangedSince, Compared, Reading, Archived
    <2> QED
      BY <1>2, <2>5, <2>7, <2>8 DEF PackInv
  <1>6. ASSUME NEW p \in Paths, ScanDirectory(p)
        PROVE  PackInv'
    <2>1. CASE Fail
      BY <1>1, <2>1, PackingFails
    <2>2. CASE ~Fail
      <3>1. /\ pack' = [pack EXCEPT !.opened = pack.opened \cup {p}] /\ pack.pc = "scan"
            /\ p \in Dirs /\ p \in Found
        BY <1>6, <2>2 DEF ScanDirectory, PackStep
      <3>2. /\ pack'.pc = "scan" /\ pack'.top = pack.top /\ pack'.saw = pack.saw
            /\ pack'.opened = pack.opened \cup {p} /\ pack'.file = pack.file
            /\ pack'.archive = pack.archive
        BY <3>1 DEF PackInv, PackTypes
      <3>3. PackTypes'
        BY <3>1 DEF PackInv, PackTypes
      <3>4. Found' = Found
        BY <3>2 DEF Found
      <3>5. SeenBefore'
        BY <1>1, <1>2, <3>1, <3>2, <3>4 DEF PackInv, SeenBefore
      <3>6. UnchangedSince' /\ Compared' /\ Reading' /\ Archived'
        BY <1>3, <3>2 DEF UnchangedSince, Compared, Reading, Archived
      <3> QED
        BY <1>2, <3>3, <3>5, <3>6 DEF PackInv
    <2> QED
      BY <2>1, <2>2
  <1> QED
    BY <1>4, <1>5, <1>6

\* The inventory is complete: what is still as it was seen is what the moment holds, and an
\* unchanged directory holds nothing that was not found.
LEMMA PackInventories ==
    ASSUME PackInv, ScanEnds
    PROVE  PackInv'
  <1>1. /\ UNCHANGED treeVars /\ UNCHANGED <<clock, text, tree, stamp>>
        /\ pack.pc = "scan"
        /\ Dirs \cap Found \subseteq pack.opened
        /\ Children(Top) \subseteq Found \/ ~TopUnchanged
        /\ \A d \in pack.opened : Children(d) \subseteq Found \/ ~Unchanged(d)
        /\ moment' = [p \in Paths |-> Holds(p)]
    BY DEF ScanEnds, PackStep, treeVars
  <1>2. TreeTypes' /\ TreeWhole' /\ Used' = Used
    BY <1>1, PackLeavesTree
  <1> DEFINE listing_ == [p \in Paths |-> IF p \in pack.opened THEN Directory ELSE Nothing]
  <1>3. pack' = [pack EXCEPT !.pc = "copy", !.archive = listing_]
    BY DEF ScanEnds
  <1>4. /\ pack'.pc = "copy" /\ pack'.top = pack.top /\ pack'.saw = pack.saw
        /\ pack'.opened = pack.opened /\ pack'.archive = listing_ /\ pack'.file = pack.file
    BY <1>3 DEF PackInv, PackTypes
  <1>5. Found' = Found /\ Found \subseteq Paths
    BY <1>4 DEF Found
  <1>6. /\ pack.opened = Dirs \cap Found
        /\ \A d \in Dirs : d \in Paths /\ d \notin Files
        /\ \A f \in Files : f \in Paths /\ f \notin Dirs
    BY <1>1, PackingAssumption DEF PackInv, SeenBefore, PackTypes, Paths
  <1>7. PackTypes'
    <2>1. Nothing \in Seq(Nat)
      BY DEF Nothing
    <2>2. listing_ \in [Paths -> Seq(Nat) \cup {Directory}]
      BY <2>1
    <2>3. \A f \in Files : listing_[f] \in Seq(Nat)
      BY <1>6, <2>1
    <2> QED
      BY <1>3, <1>4, <2>2, <2>3 DEF PackInv, PackTypes
  <1>8. SeenBefore'
    BY <1>1, <1>2, <1>4, <1>5 DEF PackInv, SeenBefore
  <1>9. /\ \A p \in Paths : moment'[p] = Holds(p)
        /\ Directory # Nothing
    BY <1>1 DEF Directory, Nothing
  <1>10. \A p \in Paths : moment'[p] # Nothing <=> tree[p] # 0
    <2>1. ASSUME NEW p \in Paths, tree[p] # 0
          PROVE  Holds(p) # Nothing
      <3>1. CASE p \in Dirs
        BY <1>9, <2>1, <3>1 DEF Holds
      <3>2. CASE p \notin Dirs
        <4>1. Holds(p) = [n \in 1..Chunks |-> text[tree[p]]]
          BY <2>1, <3>2 DEF Holds
        <4>2. 1 \in DOMAIN Holds(p)
          BY <4>1, PackingAssumption
        <4>3. DOMAIN Nothing = {}
          BY DEF Nothing
        <4> QED
          BY <4>2, <4>3
      <3> QED
        BY <3>1, <3>2
    <2>2. \A p \in Paths : tree[p] = 0 => Holds(p) = Nothing
      BY DEF Holds
    <2> QED
      BY <1>9, <2>1, <2>2
  <1>11. \A d \in Dirs \cup {Top} : Children(d) \subseteq Found => NoneMissed(d)'
    BY <1>5, <1>10 DEF NoneMissed, Children, Below
  <1>12. \A p \in Paths : Unchanged(p)' <=> Unchanged(p)
    BY <1>1, <1>4 DEF Unchanged, Seen
  <1>13. TopUnchanged' <=> TopUnchanged
    BY <1>1, <1>4 DEF TopUnchanged
  <1>14. \A p \in Found : pack.saw[p].inode # 0
    BY DEF PackInv, SeenBefore
  <1>15. \A p \in Found : Unchanged(p) => tree[p] = pack.saw[p].inode /\ tree[p] # 0
    BY <1>14 DEF Unchanged, Seen
  <1>16. UnchangedSince'
    <2>1. TopUnchanged' => NoneMissed(Top)'
      BY <1>1, <1>11, <1>13
    <2>2. ASSUME NEW d \in Dirs \cap Found, Unchanged(d)
          PROVE  DirectoryWas(d)'
      <3>1. NoneMissed(d)'
        BY <1>1, <1>11, <2>2
      <3>2. moment'[d] = Directory
        BY <1>5, <1>9, <1>15, <2>2 DEF Holds
      <3> QED
        BY <3>1, <3>2 DEF DirectoryWas
    <2>3. ASSUME NEW f \in Files \cap Found, Unchanged(f)
          PROVE  FileWas(f)'
      <3>1. moment'[f] = [n \in 1..Chunks |-> text[pack.saw[f].inode]]
        BY <1>5, <1>6, <1>9, <1>15, <2>3 DEF Holds
      <3> QED
        BY <1>1, <1>4, <3>1 DEF FileWas
    <2> QED
      BY <1>5, <1>12, <2>1, <2>2, <2>3 DEF UnchangedSince
  <1>17. Compared'
    BY <1>1, <1>4, <1>5 DEF Compared
  <1>18. pack.file = Top
    BY <1>1 DEF PackInv, Archived
  <1>19. Reading'
    BY <1>4, <1>18 DEF Reading
  <1>20. Archived'
    <2>1. \A p \in Paths : listing_[p] = IF p \in Dirs \cap Found THEN Directory ELSE Nothing
      BY <1>6
    <2>2. \A p \in Paths : moment'[p] # Nothing /\ Parent[p] \in Dirs => moment'[Parent[p]] # Nothing
      BY <1>6, <1>10 DEF PackInv, TreeWhole
    <2>3. moment' = [p \in Paths |-> moment'[p]]
      BY <1>1
    <2> HIDE DEF listing_
    <2> QED
      BY <1>4, <1>5, <1>6, <2>1, <2>2, <2>3 DEF Archived
  <1> QED
    BY <1>2, <1>7, <1>8, <1>16, <1>17, <1>19, <1>20 DEF PackInv

\* The files are packed one after the other.
LEMMA PackOpensFile ==
    ASSUME PackInv, NEW f \in Paths, OpenFile(f)
    PROVE  PackInv'
  <1>1. /\ UNCHANGED <<treeVars, moment>> /\ UNCHANGED <<clock, stamp, tree, text>>
        /\ pack.pc = "copy" /\ pack.file = Top
        /\ f \in Files \cap Found /\ pack.archive[f] = Nothing
    BY DEF OpenFile, PackStep, treeVars
  <1>2. TreeTypes' /\ TreeWhole' /\ Used' = Used
    BY <1>1, PackLeavesTree
  <1>3. CASE Fail
    BY <1>1, <1>3, PackingFails
  <1>4. CASE ~Fail
    <2>1. pack' = [pack EXCEPT !.file = f, !.inode = tree[f]] /\ tree[f] # 0 /\ Unchanged(f)
      BY <1>4 DEF OpenFile
    <2>2. /\ pack'.pc = "copy" /\ pack'.top = pack.top /\ pack'.saw = pack.saw
          /\ pack'.opened = pack.opened /\ pack'.file = f /\ pack'.inode = tree[f]
          /\ pack'.archive = pack.archive
      BY <1>1, <2>1 DEF PackInv, PackTypes
    <2>3. tree[f] \in Inode /\ tree[f] = pack.saw[f].inode
      BY <2>1 DEF PackInv, TreeTypes, Unchanged, Seen
    <2>4. PackTypes'
      BY <1>1, <2>1, <2>2, <2>3 DEF PackInv, PackTypes
    <2>5. Found' = Found
      BY <2>2 DEF Found
    <2>6. SeenBefore'
      BY <1>1, <1>2, <2>2, <2>5 DEF PackInv, SeenBefore
    <2>7. UnchangedSince' /\ Compared'
      BY <1>1, <2>2, PackSeesNothing DEF PackInv, UnchangedSince, Compared
    <2>8. Reading'
      <3>1. Len(pack.archive[f]) = 0 /\ DOMAIN pack.archive[f] = {}
        BY <1>1 DEF Nothing
      <3>2. Chunks \in Nat
        BY PackingAssumption
      <3> QED
        BY <1>1, <2>2, <2>3, <2>5, <3>1, <3>2 DEF Reading
    <2>9. Archived'
      <3>1. \A g \in Files : g # Top
        BY PackingAssumption DEF Paths
      <3> QED
        BY <1>1, <2>2, <2>5, <3>1 DEF PackInv, Archived
    <2> QED
      BY <1>2, <2>4, <2>6, <2>7, <2>8, <2>9 DEF PackInv
  <1> QED
    BY <1>3, <1>4

\* A read takes what the inode holds, which is what it held if it is unchanged after that.
LEMMA PackReads ==
    ASSUME PackInv, ReadChunk
    PROVE  PackInv'
  <1> DEFINE f == pack.file
             more == Append(pack.archive[f], text[pack.inode])
  <1>1. /\ UNCHANGED <<treeVars, moment>> /\ UNCHANGED <<clock, stamp, tree, text>>
        /\ pack.pc = "copy" /\ f # Top /\ Len(pack.archive[f]) < Chunks
        /\ pack' = [pack EXCEPT !.archive[pack.file] = Append(@, text[pack.inode])]
    BY DEF ReadChunk, PackStep, treeVars
  <1>2. TreeTypes' /\ TreeWhole' /\ Used' = Used
    BY <1>1, PackLeavesTree
  <1>3. /\ f \in Files \cap Found /\ f \in Paths
        /\ pack.inode = pack.saw[f].inode /\ pack.inode \in Inode
        /\ stamp[pack.inode] = pack.saw[f].stamp =>
              \A i \in DOMAIN pack.archive[f] : pack.archive[f][i] = text[pack.inode]
    BY <1>1 DEF PackInv, Reading, Found, PackTypes
  <1>4. /\ pack.archive[f] \in Seq(Nat) /\ text[pack.inode] \in Nat
    BY <1>3 DEF PackInv, PackTypes, TreeTypes
  <1>5. /\ more \in Seq(Nat) /\ Len(more) = Len(pack.archive[f]) + 1 /\ Len(pack.archive[f]) \in Nat
        /\ \A i \in 1..Len(pack.archive[f]) : more[i] = pack.archive[f][i]
        /\ more[Len(pack.archive[f]) + 1] = text[pack.inode]
        /\ DOMAIN more = 1..Len(pack.archive[f]) + 1
        /\ DOMAIN pack.archive[f] = 1..Len(pack.archive[f])
    BY <1>4
  <1>6. pack' = [pack EXCEPT !.archive = [pack.archive EXCEPT ![f] = more]]
    BY <1>1
  <1>7. pack.archive \in [Paths -> Seq(Nat) \cup {Directory}]
    BY DEF PackInv, PackTypes
  <1>8. \A i \in DOMAIN more : i \in DOMAIN pack.archive[f] \/ i = Len(pack.archive[f]) + 1
    BY <1>5
  <1> HIDE DEF more
  <1>9. /\ pack'.pc = "copy" /\ pack'.top = pack.top /\ pack'.saw = pack.saw
        /\ pack'.opened = pack.opened /\ pack'.file = f /\ pack'.inode = pack.inode
        /\ pack'.archive = [pack.archive EXCEPT ![f] = more]
    BY <1>1, <1>6 DEF PackInv, PackTypes
  <1>10. \A p \in Paths : pack'.archive[p] = IF p = f THEN more ELSE pack.archive[p]
    BY <1>3, <1>7, <1>9
  <1>11. PackTypes'
    <2>1. [pack.archive EXCEPT ![f] = more] \in [Paths -> Seq(Nat) \cup {Directory}]
      BY <1>3, <1>5, <1>7
    <2>2. \A g \in Files : pack'.archive[g] \in Seq(Nat)
      <3>1. \A g \in Files : g \in Paths /\ pack.archive[g] \in Seq(Nat)
        BY DEF PackInv, PackTypes, Paths
      <3> QED
        BY <1>5, <1>10, <3>1
    <2> QED
      BY <1>6, <1>9, <2>1, <2>2 DEF PackInv, PackTypes
  <1>12. Found' = Found
    BY <1>9 DEF Found
  <1>13. SeenBefore'
    BY <1>1, <1>2, <1>9, <1>12 DEF PackInv, SeenBefore
  <1>14. UnchangedSince' /\ Compared'
    BY <1>1, <1>9, PackSeesNothing DEF PackInv, UnchangedSince, Compared
  <1>15. Reading'
    <2>1. pack'.archive[f] = more
      BY <1>3, <1>10
    <2>2. Len(more) <= Chunks
      BY <1>1, <1>5, PackingAssumption
    <2>3. stamp[pack.inode] = pack.saw[f].stamp => \A i \in DOMAIN more : more[i] = text[pack.inode]
      BY <1>3, <1>5, <1>8
    <2> QED
      BY <1>1, <1>3, <1>9, <1>12, <2>1, <2>2, <2>3 DEF Reading
  <1>16. Archived'
    <2>1. \A p \in Paths : p # f => pack'.archive[p] = pack.archive[p]
      BY <1>10
    <2>2. \A d \in Dirs : d # f /\ d \in Paths
      BY <1>3, PackingAssumption DEF Paths
    <2>3. \A p \in Paths \ Found : p # f
      BY <1>3
    <2>4. \A g \in Files : g \in Paths
      BY DEF Paths
    <2> QED
      BY <1>1, <1>9, <1>12, <2>1, <2>2, <2>3, <2>4 DEF PackInv, Archived
  <1> QED
    BY <1>2, <1>11, <1>13, <1>14, <1>15, <1>16 DEF PackInv

\* A file that is the same after it was read has been packed as it was at the moment.
LEMMA PackClosesFile ==
    ASSUME PackInv, CloseFile
    PROVE  PackInv'
  <1> DEFINE f == pack.file
  <1>1. /\ UNCHANGED <<treeVars, moment>> /\ UNCHANGED <<clock, stamp, tree, text>>
        /\ pack.pc = "copy" /\ f # Top /\ Len(pack.archive[f]) = Chunks
    BY DEF CloseFile, PackStep, treeVars
  <1>2. TreeTypes' /\ TreeWhole' /\ Used' = Used
    BY <1>1, PackLeavesTree
  <1>3. CASE Fail
    BY <1>1, <1>3, PackingFails
  <1>4. CASE ~Fail
    <2>1. pack' = [pack EXCEPT !.file = Top, !.inode = 0] /\ FileUnchanged
      BY <1>4 DEF CloseFile
    <2>2. /\ pack'.pc = "copy" /\ pack'.top = pack.top /\ pack'.saw = pack.saw
          /\ pack'.opened = pack.opened /\ pack'.file = Top /\ pack'.inode = 0
          /\ pack'.archive = pack.archive
      BY <1>1, <2>1 DEF PackInv, PackTypes
    <2>3. 0 \in Inode
      BY PackingAssumption, FS_CardinalityType DEF Inode
    <2>4. PackTypes'
      BY <2>1, <2>2, <2>3 DEF PackInv, PackTypes
    <2>5. Found' = Found
      BY <2>2 DEF Found
    <2>6. SeenBefore'
      BY <1>1, <1>2, <2>2, <2>5 DEF PackInv, SeenBefore
    <2>7. UnchangedSince' /\ Compared'
      BY <1>1, <2>2, PackSeesNothing DEF PackInv, UnchangedSince, Compared
    <2>8. Reading'
      BY <2>2 DEF Reading
    <2>9. pack.archive[f] = moment[f]
      <3>1. /\ f \in Files \cap Found /\ pack.inode = pack.saw[f].inode
            /\ stamp[pack.inode] = pack.saw[f].stamp =>
                  \A i \in DOMAIN pack.archive[f] : pack.archive[f][i] = text[pack.inode]
        BY <1>1 DEF PackInv, Reading
      <3>2. stamp[pack.inode] = pack.saw[f].stamp /\ Unchanged(f)
        BY <2>1 DEF FileUnchanged
      <3>3. moment[f] = [n \in 1..Chunks |-> text[pack.inode]]
        BY <1>1, <3>1, <3>2 DEF PackInv, UnchangedSince, FileWas
      <3>4. pack.archive[f] \in Seq(Nat)
        BY <3>1 DEF PackInv, PackTypes
      <3>5. pack.archive[f] = [n \in 1..Chunks |-> pack.archive[f][n]] /\ DOMAIN pack.archive[f] = 1..Chunks
        BY <1>1, <3>4
      <3>6. \A n \in 1..Chunks : pack.archive[f][n] = text[pack.inode]
        BY <3>1, <3>2, <3>5
      <3> QED
        BY <3>3, <3>5, <3>6
    <2>10. Archived'
      BY <1>1, <2>2, <2>5, <2>9 DEF PackInv, Archived
    <2> QED
      BY <1>2, <2>4, <2>6, <2>7, <2>8, <2>10 DEF PackInv
  <1> QED
    BY <1>3, <1>4

\* Every file has been packed.
LEMMA PackCopied ==
    ASSUME PackInv, CopyEnds
    PROVE  PackInv'
  <1>1. /\ UNCHANGED <<treeVars, moment>> /\ UNCHANGED <<clock, stamp, tree, text>>
        /\ pack.pc = "copy" /\ pack.file = Top
        /\ \A f \in Files \cap Found : pack.archive[f] # Nothing
        /\ pack' = [pack EXCEPT !.pc = "check"]
    BY DEF CopyEnds, PackStep, treeVars
  <1>2. TreeTypes' /\ TreeWhole' /\ Used' = Used
    BY <1>1, PackLeavesTree
  <1>3. /\ pack'.pc = "check" /\ pack'.top = pack.top /\ pack'.saw = pack.saw
        /\ pack'.opened = pack.opened /\ pack'.file = Top
        /\ pack'.archive = pack.archive
    BY <1>1 DEF PackInv, PackTypes
  <1>4. PackTypes'
    BY <1>1, <1>3 DEF PackInv, PackTypes
  <1>5. Found' = Found
    BY <1>3 DEF Found
  <1>6. SeenBefore'
    BY <1>1, <1>2, <1>3, <1>5 DEF PackInv, SeenBefore
  <1>7. UnchangedSince'
    BY <1>1, <1>3, PackSeesNothing DEF PackInv, UnchangedSince
  <1>8. Compared' /\ Reading' /\ Archived'
    BY <1>1, <1>3, <1>5 DEF PackInv, Compared, Reading, Archived
  <1> QED
    BY <1>2, <1>4, <1>6, <1>7, <1>8 DEF PackInv

\* A directory that is compared in the end was the same at the moment.
LEMMA PackChecks ==
    ASSUME PackInv, CheckTop \/ \E d \in Paths : CheckDirectory(d)
    PROVE  PackInv'
  <1>1. /\ UNCHANGED <<treeVars, moment>> /\ UNCHANGED <<clock, stamp, tree, text>>
        /\ pack.pc = "check"
    BY DEF CheckDirectory, CheckTop, PackStep, treeVars
  <1>2. TreeTypes' /\ TreeWhole' /\ Used' = Used
    BY <1>1, PackLeavesTree
  <1>3. CASE Fail
    BY <1>1, <1>3, PackingFails
  <1>4. ASSUME NEW d \in Paths, CheckDirectory(d), ~Fail
        PROVE  PackInv'
    <2>1. pack' = [pack EXCEPT !.opened = pack.opened \ {d}] /\ Unchanged(d) /\ d \in pack.opened
      BY <1>4 DEF CheckDirectory
    <2>2. /\ pack'.pc = "check" /\ pack'.top = pack.top /\ pack'.saw = pack.saw
          /\ pack'.opened = pack.opened \ {d} /\ pack'.file = pack.file
          /\ pack'.archive = pack.archive
      BY <1>1, <2>1 DEF PackInv, PackTypes
    <2>3. PackTypes'
      BY <2>1, <2>2 DEF PackInv, PackTypes
    <2>4. Found' = Found
      BY <2>2 DEF Found
    <2>5. SeenBefore'
      BY <1>1, <1>2, <2>2, <2>4 DEF PackInv, SeenBefore
    <2>6. UnchangedSince'
      BY <1>1, <2>2, PackSeesNothing DEF PackInv, UnchangedSince
    <2>7. DirectoryWas(d)
      BY <1>1, <2>1 DEF PackInv, UnchangedSince, SeenBefore, PackTypes
    <2>8. \A o : DirectoryWas(o)' <=> DirectoryWas(o)
      BY <1>1, <2>2, PackSeesNothing
    <2>9. Compared'
      BY <1>1, <2>2, <2>4, <2>7, <2>8 DEF PackInv, Compared
    <2>10. Reading' /\ Archived'
      BY <1>1, <2>2, <2>4 DEF PackInv, Reading, Archived
    <2> QED
      BY <1>2, <2>3, <2>5, <2>6, <2>9, <2>10 DEF PackInv
  <1>5. CASE CheckTop /\ ~Fail
    <2>1. pack' = [pack EXCEPT !.pc = "packed"] /\ TopUnchanged /\ pack.opened = {}
      BY <1>5 DEF CheckTop
    <2>2. /\ pack'.pc = "packed" /\ pack'.top = pack.top /\ pack'.saw = pack.saw
          /\ pack'.opened = pack.opened /\ pack'.file = pack.file
          /\ pack'.archive = pack.archive
      BY <1>1, <2>1 DEF PackInv, PackTypes
    <2>3. PackTypes'
      BY <2>1, <2>2 DEF PackInv, PackTypes
    <2>4. Found' = Found
      BY <2>2 DEF Found
    <2>5. SeenBefore'
      BY <1>1, <1>2, <2>2, <2>4 DEF PackInv, SeenBefore
    <2>6. NoneMissed(Top) /\ \A o \in Dirs \cap Found : DirectoryWas(o)
      BY <1>1, <2>1 DEF PackInv, UnchangedSince, Compared
    <2>7. Compared'
      BY <1>1, <2>2, <2>4, <2>6 DEF Compared, DirectoryWas, NoneMissed
    <2>8. UnchangedSince' /\ Reading' /\ Archived'
      BY <1>1, <2>2, <2>4 DEF PackInv, UnchangedSince, Reading, Archived
    <2> QED
      BY <1>2, <2>3, <2>5, <2>7, <2>8 DEF PackInv
  <1> QED
    BY <1>3, <1>4, <1>5

-----------------------------------------------------------------------------
\* Every step of a packing keeps PackInv, and so does every change of the tree.
LEMMA PackInvStep ==
    ASSUME PackInv, PackingNext
    PROVE  PackInv'
  <1>1. CASE PackFails
    BY <1>1, PackingFails DEF PackFails
  <1>2. CASE OpenTop \/ \E p \in Paths : ScanChild(p) \/ ScanDirectory(p)
    BY <1>2, PackScans
  <1>3. CASE ScanEnds
    BY <1>3, PackInventories
  <1>4. CASE \E p \in Paths : OpenFile(p)
    BY <1>4, PackOpensFile
  <1>5. CASE ReadChunk \/ CloseFile \/ CopyEnds
    BY <1>5, PackReads, PackClosesFile, PackCopied
  <1>6. CASE CheckTop \/ \E p \in Paths : CheckDirectory(p)
    BY <1>6, PackChecks
  <1>7. CASE TreeChanges
    <2>1. PICK p \in Paths : Writes(p) \/ Binds(p)
      BY <1>7 DEF TreeChanges
    <2>2. TreeTypes /\ TreeWhole
      BY DEF PackInv
    <2>3. TreeTypes' /\ TreeWhole' /\ Tells
      BY <2>1, <2>2, WritesTell, BindsTell
    <2> QED
      BY <2>3, PackDisturbed
  <1> QED
    BY <1>1, <1>2, <1>3, <1>4, <1>5, <1>6, <1>7 DEF PackingNext, PackNext

\* ... and so does what leaves both alone.
LEMMA PackInvStutters ==
    ASSUME PackInv, UNCHANGED packingVars
    PROVE  PackInv'
  <1>1. UNCHANGED <<treeVars, moment>> /\ pack' = pack /\ clock' = clock /\ stamp' = stamp /\ text' = text
    BY DEF packingVars, treeVars
  <1>2. TreeTypes' /\ TreeWhole' /\ Used' = Used
    BY <1>1, PackLeavesTree
  <1>3. Found' = Found
    BY <1>1 DEF Found
  <1>4. PackTypes' /\ SeenBefore' /\ Reading' /\ Archived'
    BY <1>1, <1>2, <1>3 DEF PackInv, PackTypes, SeenBefore, Reading, Archived
  <1>5. UnchangedSince' /\ Compared'
    BY <1>1, PackSeesNothing DEF PackInv, UnchangedSince, Compared
  <1> QED
    BY <1>2, <1>4, <1>5 DEF PackInv

\* A packing, and all that changes the tree meanwhile, keeps PackInv.
THEOREM PackInvariant == ArchiveSpec => []PackInv
  <1>1. ArchiveInit => PackInv
    BY PackStarts DEF ArchiveInit
  <1>2. PackInv /\ [ArchiveNext]_<<packingVars, restoringVars, listingVars>> => PackInv'
    BY PackInvStep, PackInvStutters DEF ArchiveNext, Packs, Restores, Lists
  <1> QED
    BY <1>1, <1>2, PTL DEF ArchiveSpec

\* What is packed is what the moment of the complete inventory holds.  Of what was not found,
\* if the moment held any, there is a path whose directory was found or is the top; but that
\* was compared, and missed none.
LEMMA PackedIsMoment ==
    ASSUME PackInv, pack.pc = "packed"
    PROVE  pack.archive = moment
  <1>1. /\ NoneMissed(Top)
        /\ \A d \in Dirs \cap Found : moment[d] = Directory /\ NoneMissed(d)
        /\ \A p \in Paths \ Found : pack.archive[p] = Nothing
        /\ \A d \in Dirs \cap Found : pack.archive[d] = Directory
        /\ \A f \in Files \cap Found : pack.archive[f] = moment[f]
        /\ \A p \in Paths : moment[p] # Nothing /\ Parent[p] \in Dirs => moment[Parent[p]] # Nothing
    <2>1. pack.file = Top /\ \A f \in Files \cap Found : pack.archive[f] # Nothing /\ f # Top
      BY PackingAssumption DEF PackInv, Archived, Paths
    <2> QED
      BY <2>1 DEF PackInv, Compared, Archived, DirectoryWas
  <1> DEFINE missed == {p \in Paths : moment[p] # Nothing /\ p \notin Found}
  <1>2. missed = {}
    <2>1. ASSUME missed # {}
          PROVE  FALSE
      <3>1. missed \in (SUBSET Paths) \ {{}}
        BY <2>1
      <3>2. PICK p \in missed : Parent[p] \notin missed
        BY <3>1, PackingAssumption
      <3>3. CASE Parent[p] = Top
        BY <1>1, <3>2, <3>3 DEF NoneMissed, Below
      <3>4. CASE Parent[p] \in Dirs
        <4>1. Parent[p] \in Found
          BY <1>1, <3>2, <3>4 DEF Paths
        <4> QED
          BY <1>1, <3>2, <3>4, <4>1 DEF NoneMissed, Below
      <3> QED
        BY <3>2, <3>3, <3>4, PackingAssumption
    <2> QED
      BY <2>1
  <1>3. \A p \in Paths : pack.archive[p] = moment[p]
    BY <1>1, <1>2 DEF Paths
  <1>4. pack.archive = [p \in Paths |-> pack.archive[p]] /\ moment = [p \in Paths |-> moment[p]]
    BY DEF PackInv, PackTypes, Archived
  <1> QED
    BY <1>3, <1>4

\* For any directory, of any depth, and any number of changes of it, what is packed with
\* success is what the whole tree held when the inventory was complete
\* (crypto_archive.py:174-176, 254-278).
THEOREM ArchivePackedIsOneMoment == ArchiveSpec => []ArchiveIsOneMoment
  <1>1. PackInv => ArchiveIsOneMoment
    BY PackedIsMoment DEF ArchiveIsOneMoment
  <1> QED
    BY <1>1, PackInvariant, PTL

-----------------------------------------------------------------------------
\* A sequence is the function of its elements.
LEMMA SeqFacts ==
    ASSUME NEW s, IsSequence(s)
    PROVE  /\ Len(s) \in Nat /\ DOMAIN s = 1..Len(s)
           /\ s = [i \in 1..Len(s) |-> s[i]]
           /\ \A i \in 1..Len(s) : s[i] \in Range(s)
  <1>1. /\ Len(s) \in Nat
        /\ s \in [1..Len(s) -> Range(s)]
        /\ DOMAIN s = 1..Len(s)
    BY LenProperties DEF IsSequence
  <1> QED
    BY <1>1 DEF Range

\* A function on 1..n is a sequence of length n.
LEMMA SeqMade ==
    ASSUME NEW n \in Nat, NEW s, s = [i \in 1..n |-> s[i]]
    PROVE  IsSequence(s) /\ Len(s) = n
  <1>1. s \in [1..n -> Range(s)]
    BY DEF Range
  <1>2. s \in Seq(Range(s))
    BY <1>1
  <1>3. Len(s) = n
    BY <1>1, <1>2
  <1> QED
    BY <1>2, <1>3 DEF IsSequence

\* A sequence over any set is a sequence.
LEMMA SeqOver ==
    ASSUME NEW S, NEW s \in Seq(S)
    PROVE  IsSequence(s)
  <1>1. /\ Len(s) \in Nat
        /\ s \in [1..Len(s) -> S]
        /\ DOMAIN s = 1..Len(s)
    BY LenProperties
  <1>2. s \in [1..Len(s) -> Range(s)]
    BY <1>1 DEF Range
  <1> QED
    BY <1>1, <1>2 DEF IsSequence

\* The elements of s \o t.
LEMMA SeqJoined ==
    ASSUME NEW s, NEW t, IsSequence(s), IsSequence(t)
    PROVE  /\ IsSequence(s \o t)
           /\ Len(s \o t) = Len(s) + Len(t)
           /\ \A i \in 1..Len(s) : (s \o t)[i] = s[i]
           /\ \A i \in 1..Len(t) : (s \o t)[Len(s) + i] = t[i]
  <1> DEFINE S == Range(s) \cup Range(t)
  <1>1. Len(s) \in Nat /\ Len(t) \in Nat
    BY SeqFacts
  <1>2. s \in Seq(S)
    <2>1. s \in [1..Len(s) -> S]
      BY SeqFacts
    <2> QED
      BY <1>1, <2>1
  <1>3. t \in Seq(S)
    <2>1. t \in [1..Len(t) -> S]
      BY SeqFacts
    <2> QED
      BY <1>1, <2>1
  <1>4. /\ s \o t \in Seq(S)
        /\ Len(s \o t) = Len(s) + Len(t)
        /\ \A i \in 1 .. Len(s) + Len(t) : (s \o t)[i] =
                       IF i <= Len(s) THEN s[i] ELSE t[i - Len(s)]
    <2> HIDE DEF S
    <2> QED
      BY <1>2, <1>3, ConcatProperties
  <1>5. IsSequence(s \o t)
    BY <1>4, SeqOver
  <1> HIDE DEF S
  <1> QED
    BY <1>1, <1>4, <1>5

\* The empty sequence, and sequences of one element.
LEMMA SeqEmpty == IsSequence(<<>>) /\ Len(<<>>) = 0
  BY EmptySeq DEF IsSequence

\* A sequence of one element.
LEMMA SeqSingle ==
    ASSUME NEW a
    PROVE  IsSequence(<<a>>) /\ Len(<<a>>) = 1 /\ <<a>>[1] = a /\ Range(<<a>>) = {a}
  <1>1. <<a>> = [i \in 1..1 |-> <<a>>[i]]
    OBVIOUS
  <1>2. IsSequence(<<a>>) /\ Len(<<a>>) = 1
    BY <1>1, SeqMade
  <1>3. Range(<<a>>) = {a}
    BY DEF Range
  <1> QED
    BY <1>2, <1>3

\* The elements of the sequence from m + 1 to n.
LEMMA SeqCut ==
    ASSUME NEW s, IsSequence(s), NEW m \in Nat, NEW n \in Nat, m <= n, n <= Len(s)
    PROVE  /\ IsSequence(SubSeq(s, m + 1, n))
           /\ Len(SubSeq(s, m + 1, n)) = n - m
           /\ \A i \in 1..n - m : SubSeq(s, m + 1, n)[i] = s[m + i]
  <1>1. Len(s) \in Nat
    BY SeqFacts
  <1>2. \A i \in m + 1..n : s[i] \in Range(s)
    BY <1>1, SeqFacts
  <1>3. /\ SubSeq(s, m + 1, n) \in Seq(Range(s))
        /\ Len(SubSeq(s, m + 1, n)) = IF m + 1 <= n THEN n - (m + 1) + 1 ELSE 0
        /\ \A i \in 1 .. n - (m + 1) + 1 : SubSeq(s, m + 1, n)[i] = s[(m + 1) + i - 1]
    BY <1>2, SubSeqProperties
  <1>4. IsSequence(SubSeq(s, m + 1, n))
    BY <1>3, SeqOver
  <1>5. \A i \in 1..n - m : SubSeq(s, m + 1, n)[i] = s[m + i]
    <2> TAKE i \in 1..n - m
    <2>1. i \in 1 .. n - (m + 1) + 1 /\ (m + 1) + i - 1 = m + i
      OBVIOUS
    <2> QED
      BY <1>3, <2>1
  <1> QED
    BY <1>3, <1>4, <1>5

\* The elements of the beginning of a sequence.
LEMMA SeqStart ==
    ASSUME NEW s, IsSequence(s), NEW n \in Nat, n <= Len(s)
    PROVE  /\ IsSequence(SubSeq(s, 1, n))
           /\ Len(SubSeq(s, 1, n)) = n
           /\ \A i \in 1..n : SubSeq(s, 1, n)[i] = s[i]
  <1> DEFINE m == 0
  <1>1. /\ IsSequence(SubSeq(s, m + 1, n))
        /\ Len(SubSeq(s, m + 1, n)) = n - m
        /\ \A i \in 1..n - m : SubSeq(s, m + 1, n)[i] = s[m + i]
    <2>1. m \in Nat /\ m <= n
      OBVIOUS
    <2> HIDE DEF m
    <2> QED
      BY <2>1, SeqCut
  <1>2. m + 1 = 1 /\ n - m = n /\ \A i \in 1..n : m + i = i
    OBVIOUS
  <1> HIDE DEF m
  <1> QED
    BY <1>1, <1>2

\* A set of positions has a least one.
LEMMA LeastPosition ==
    ASSUME NEW S, S \subseteq Nat, S # {}
    PROVE  \E i \in S : \A j \in S : i <= j
  <1> DEFINE R == OpToRel(<, Nat)
  <1>1. IsWellFoundedOn(R, Nat)
    BY NatLessThanWellFounded
  <1>2. \A i \in Nat, j \in Nat : j < i => <<j, i>> \in R
    BY DEF OpToRel
  <1> HIDE DEF R
  <1>3. PICK i \in S : \A j \in S : ~(<<j, i>> \in R)
    BY <1>1, WFMin
  <1>4. ASSUME NEW j \in S PROVE i <= j
    <2>1. i \in Nat /\ j \in Nat
      OBVIOUS
    <2>2. ~(j < i)
      BY <1>2, <1>3, <2>1
    <2> QED
      BY <2>1, <2>2
  <1> QED
    BY <1>4

\* Sequences with the same elements are the same.
LEMMA SeqSame ==
    ASSUME NEW s, NEW t, IsSequence(s), IsSequence(t), Len(s) = Len(t),
           \A i \in 1..Len(s) : s[i] = t[i]
    PROVE  s = t
  <1>1. s = [i \in 1..Len(s) |-> s[i]] /\ t = [i \in 1..Len(s) |-> t[i]]
    BY SeqFacts
  <1> QED
    BY <1>1

\* So are pieces of sequences that agree there.
LEMMA SeqSameCut ==
    ASSUME NEW s, NEW t, IsSequence(s), IsSequence(t), NEW m \in Nat, NEW n \in Nat,
           m <= n, n <= Len(s), n <= Len(t),
           \A i \in m + 1..n : s[i] = t[i]
    PROVE  SubSeq(s, m + 1, n) = SubSeq(t, m + 1, n)
  <1>1. /\ IsSequence(SubSeq(s, m + 1, n)) /\ IsSequence(SubSeq(t, m + 1, n))
        /\ Len(SubSeq(s, m + 1, n)) = n - m /\ Len(SubSeq(t, m + 1, n)) = n - m
        /\ \A i \in 1..n - m : SubSeq(s, m + 1, n)[i] = s[m + i]
        /\ \A i \in 1..n - m : SubSeq(t, m + 1, n)[i] = t[m + i]
    BY SeqCut
  <1>2. \A i \in 1..n - m : s[m + i] = t[m + i]
    <2> TAKE i \in 1..n - m
    <2>1. m + i \in m + 1..n
      OBVIOUS
    <2> QED
      BY <2>1
  <1>3. \A i \in 1..n - m : SubSeq(s, m + 1, n)[i] = SubSeq(t, m + 1, n)[i]
    BY <1>1, <1>2
  <1> QED
    BY <1>1, <1>3, SeqSame

-----------------------------------------------------------------------------
\* The map of _register_path when these paths are registered.
Parts(E) == UNION {PrefixesOf(x.path) : x \in E}
PathsAre(paths, E) ==
    /\ DOMAIN paths = {casefold(p) : p \in Parts(E)}
    /\ \A x \in E : \A p \in PrefixesOf(x.path) :
          /\ paths[casefold(p)].name = p
          /\ paths[casefold(p)].dir = (x.dir \/ p # x.path)
          /\ paths[casefold(p)].explicit <=> \E y \in E : y.path = p

\* What is registered: paths, and whether each is a directory.
IsPath(path) == IsSequence(path) /\ path # <<>>
Registrable(E) == \A x \in E : IsPath(x.path) /\ x.dir \in BOOLEAN

\* The prefixes of a path are told apart by their length, and so by their keys.
LEMMA PrefixFacts ==
    ASSUME NEW path, IsPath(path)
    PROVE  /\ path \in PrefixesOf(path) /\ Len(path) \in Nat \ {0}
           /\ \A p \in PrefixesOf(path) : IsPath(p) /\ Len(p) \in 1..Len(path) /\ p = SubSeq(path, 1, Len(p))
           /\ \A p \in PrefixesOf(path) : PrefixesOf(p) \subseteq PrefixesOf(path)
           /\ \A p, q \in PrefixesOf(path) : casefold(p) = casefold(q) => p = q
  <1>1. Len(path) \in Nat \ {0}
    <2>1. Len(path) \in Nat /\ path = [i \in 1..Len(path) |-> path[i]]
      BY SeqFacts DEF IsPath
    <2>2. ASSUME Len(path) = 0 PROVE FALSE
      <3>1. Len(path) = Len(<<>>) /\ IsSequence(<<>>) /\ \A i \in 1..Len(path) : path[i] = <<>>[i]
        BY <2>2, SeqEmpty
      <3> QED
        BY <3>1, SeqSame DEF IsPath
    <2> QED
      BY <2>1, <2>2
  <1>2. \A n \in 1..Len(path) : /\ IsSequence(SubSeq(path, 1, n)) /\ Len(SubSeq(path, 1, n)) = n
                                /\ \A i \in 1..n : SubSeq(path, 1, n)[i] = path[i]
    BY <1>1, SeqStart DEF IsPath
  <1>3. path = SubSeq(path, 1, Len(path))
    <2> DEFINE all == SubSeq(path, 1, Len(path))
    <2>1. Len(path) \in 1..Len(path)
      BY <1>1
    <2>2. IsSequence(all) /\ Len(all) = Len(path) /\ \A i \in 1..Len(path) : path[i] = all[i]
      BY <1>2, <2>1
    <2>3. IsSequence(path)
      BY DEF IsPath
    <2> HIDE DEF all
    <2>4. path = all
      BY <2>2, <2>3, SeqSame
    <2> QED
      BY <2>4 DEF all
  <1>4. ASSUME NEW p \in PrefixesOf(path)
        PROVE  IsPath(p) /\ Len(p) \in 1..Len(path) /\ p = SubSeq(path, 1, Len(p))
    <2>1. PICK n \in 1..Len(path) : p = SubSeq(path, 1, n)
      BY DEF PrefixesOf
    <2>2. IsSequence(p) /\ Len(p) = n
      BY <1>2, <2>1
    <2>3. p # <<>>
      BY <2>2, SeqEmpty
    <2> QED
      BY <2>1, <2>2, <2>3 DEF IsPath
  <1>5. ASSUME NEW p \in PrefixesOf(path), NEW q \in PrefixesOf(path), casefold(p) = casefold(q)
        PROVE  p = q
    <2>1. DOMAIN p = 1..Len(p) /\ DOMAIN q = 1..Len(q) /\ Len(p) \in 1..Len(path) /\ Len(q) \in 1..Len(path)
      BY <1>4, SeqFacts DEF IsPath
    <2>2. DOMAIN p = DOMAIN q
      BY <1>5 DEF casefold
    <2>3. Len(p) = Len(q)
      <3>1. Len(p) \in Nat \ {0} /\ Len(q) \in Nat \ {0} /\ 1..Len(p) = 1..Len(q)
        <4>1. Len(p) \in Nat \ {0} /\ Len(q) \in Nat \ {0}
          BY <1>1, <2>1
        <4>2. 1..Len(p) = 1..Len(q)
          BY <2>1, <2>2
        <4> QED
          BY <4>1, <4>2
      <3>2. Len(p) \in 1..Len(p) /\ Len(q) \in 1..Len(q)
        BY <3>1
      <3>3. Len(p) \in 1..Len(q) /\ Len(q) \in 1..Len(p)
        BY <3>1, <3>2
      <3> QED
        BY <3>1, <3>3
    <2> QED
      BY <1>4, <2>3
  <1>6. ASSUME NEW p \in PrefixesOf(path), NEW q \in PrefixesOf(p)
        PROVE  q \in PrefixesOf(path)
    <2>1. PICK n \in 1..Len(p) : q = SubSeq(p, 1, n)
      BY DEF PrefixesOf
    <2>2. Len(p) \in 1..Len(path) /\ n \in 1..Len(path)
      BY <1>1, <1>4
    <2>3. \A i \in 1..n : p[i] = path[i]
      <3>1. p = SubSeq(path, 1, Len(p)) /\ \A i \in 1..Len(p) : SubSeq(path, 1, Len(p))[i] = path[i]
        BY <1>2, <1>4
      <3> QED
        BY <1>1, <2>2, <3>1
    <2>4. SubSeq(p, 1, n) = SubSeq(path, 1, n)
      <3> DEFINE m == 0
      <3>1. m \in Nat /\ n \in Nat /\ m <= n /\ n <= Len(p) /\ n <= Len(path) /\ \A i \in m + 1..n : p[i] = path[i]
        BY <1>1, <2>2, <2>3
      <3>2. IsSequence(p) /\ IsSequence(path)
        BY <1>4 DEF IsPath
      <3>3. m + 1 = 1
        OBVIOUS
      <3> HIDE DEF m
      <3> QED
        BY <3>1, <3>2, <3>3, SeqSameCut
    <2> QED
      BY <2>1, <2>2, <2>4 DEF PrefixesOf
  <1>7. path \in PrefixesOf(path)
    <2>1. Len(path) \in 1..Len(path)
      BY <1>1
    <2>2. SubSeq(path, 1, Len(path)) \in PrefixesOf(path)
      BY <2>1 DEF PrefixesOf
    <2> QED
      BY <1>3, <2>2
  <1> QED
    BY <1>1, <1>4, <1>5, <1>6, <1>7

\* What _register_path makes of the map.
Keys(path) == {casefold(p) : p \in PrefixesOf(path)}

IsRegistered(R, paths, path, dir) ==
    /\ DOMAIN R = DOMAIN paths \cup Keys(path)
    /\ \A p \in PrefixesOf(path) :
          /\ R[casefold(p)].name = p
          /\ R[casefold(p)].dir = (dir \/ p # path)
          /\ R[casefold(p)].explicit
               <=> (p = path \/ (casefold(p) \in DOMAIN paths /\ paths[casefold(p)].explicit))
    /\ \A k \in DOMAIN paths \ Keys(path) : R[k] = paths[k]

\* What _register_path makes of the map, part by part.
LEMMA RegisteredIs ==
    ASSUME NEW paths, NEW path, IsPath(path), NEW dir
    PROVE  IsRegistered(Registered(paths, path, dir), paths, path, dir)
  <1> DEFINE R == Registered(paths, path, dir)
             new == {PathRecord(p, path, dir) : p \in PrefixesOf(path)}
             at(key) == CHOOSE r \in new : casefold(r.name) = key
             had(key) == key \in DOMAIN paths /\ paths[key].explicit
             keys == {casefold(r.name) : r \in new}
  <1>1. R = [key \in DOMAIN paths \cup keys |->
               IF key \in keys THEN [at(key) EXCEPT !.explicit = @ \/ had(key)] ELSE paths[key]]
    BY DEF Registered
  <1>2. keys = Keys(path)
    <2>1. \A p : PathRecord(p, path, dir).name = p
      BY DEF PathRecord
    <2>2. ASSUME NEW k \in keys PROVE k \in Keys(path)
      <3>1. PICK r \in new : k = casefold(r.name)
        OBVIOUS
      <3>2. PICK p \in PrefixesOf(path) : r = PathRecord(p, path, dir)
        BY <3>1
      <3> QED
        BY <2>1, <3>1, <3>2 DEF Keys
    <2>3. ASSUME NEW k \in Keys(path) PROVE k \in keys
      <3>1. PICK p \in PrefixesOf(path) : k = casefold(p)
        BY DEF Keys
      <3>2. PathRecord(p, path, dir) \in new
        OBVIOUS
      <3> HIDE DEF new
      <3> QED
        BY <2>1, <3>1, <3>2
    <2> QED
      BY <2>2, <2>3
  <1>3. ASSUME NEW p \in PrefixesOf(path)
        PROVE  at(casefold(p)) = PathRecord(p, path, dir)
    <2>1. PathRecord(p, path, dir) \in new /\ casefold(PathRecord(p, path, dir).name) = casefold(p)
      BY DEF PathRecord
    <2>2. \A r \in new : casefold(r.name) = casefold(p) => r = PathRecord(p, path, dir)
      BY PrefixFacts DEF PathRecord
    <2> HIDE DEF new
    <2> QED
      BY <2>1, <2>2
  <1>4. ASSUME NEW p \in PrefixesOf(path)
        PROVE  R[casefold(p)] = [name |-> p, dir |-> (dir \/ p # path), explicit |-> (p = path \/ had(casefold(p)))]
    <2>1. casefold(p) \in keys
      BY <1>2 DEF Keys
    <2> DEFINE d == (dir \/ p # path)
               x == (p = path)
               h == had(casefold(p))
               r == [name |-> p, dir |-> d, explicit |-> x]
    <2>2. at(casefold(p)) = r
      BY <1>3 DEF PathRecord
    <2>3. R[casefold(p)] = [r EXCEPT !.explicit = @ \/ h]
      <3> HIDE DEF R, keys, at, r, h
      <3>1. R[casefold(p)] = [at(casefold(p)) EXCEPT !.explicit = @ \/ had(casefold(p))]
        BY <1>1, <2>1
      <3> QED
        BY <2>2, <3>1 DEF h
    <2>4. [r EXCEPT !.explicit = @ \/ h] = [name |-> p, dir |-> d, explicit |-> (x \/ h)]
      <3> DEFINE y == (x \/ h)
      <3>1. [r EXCEPT !.explicit = @ \/ h] = [r EXCEPT !.explicit = y]
        <4> HIDE DEF d, h, x
        <4>1. r.explicit = x
          OBVIOUS
        <4> HIDE DEF r
        <4>2. (r.explicit \/ h) = y
          BY <4>1
        <4> HIDE DEF y
        <4> QED
          BY <4>2
      <3> HIDE DEF d, x, y
      <3>2. [r EXCEPT !.explicit = y] = [name |-> p, dir |-> d, explicit |-> y]
        OBVIOUS
      <3> QED
        BY <3>1, <3>2 DEF y
    <2> QED
      BY <2>3, <2>4
  <1>5. \A k \in DOMAIN paths \ Keys(path) : R[k] = paths[k]
    <2> HIDE DEF R, keys, at, had
    <2> QED
      BY <1>1, <1>2
  <1>6. DOMAIN R = DOMAIN paths \cup Keys(path)
    <2> HIDE DEF R, keys, at, had
    <2> QED
      BY <1>1, <1>2
  <1>7. ASSUME NEW p \in PrefixesOf(path)
        PROVE  /\ R[casefold(p)].name = p
               /\ R[casefold(p)].dir = (dir \/ p # path)
               /\ R[casefold(p)].explicit
                    <=> (p = path \/ (casefold(p) \in DOMAIN paths /\ paths[casefold(p)].explicit))
    <2> DEFINE d == (dir \/ p # path)
               x == (p = path \/ had(casefold(p)))
    <2>1. R[casefold(p)] = [name |-> p, dir |-> d, explicit |-> x]
      BY <1>4
    <2> HIDE DEF R, d, x
    <2>2. R[casefold(p)].name = p /\ R[casefold(p)].dir = d /\ R[casefold(p)].explicit = x
      BY <2>1
    <2> QED
      BY <2>2 DEF d, x
  <1> HIDE DEF R
  <1>8. IsRegistered(R, paths, path, dir)
    BY <1>5, <1>6, <1>7 DEF IsRegistered
  <1> QED
    BY <1>8 DEF R

\* Nothing is registered at first.
LEMMA PathsNone == PathsAre(<<>>, {})
  <1>1. DOMAIN <<>> = 1..0
    BY SeqEmpty, SeqFacts
  <1>2. Parts({}) = {}
    BY DEF Parts
  <1> QED
    BY <1>1, <1>2 DEF PathsAre

\* A path that is registered.
Item(path, dir) == [path |-> path, dir |-> dir]

\* A path that is registered is entered beside the others, and none of them is the same.
LEMMA RegisterStep ==
    ASSUME NEW paths, NEW E, PathsAre(paths, E), Registrable(E),
           NEW path, IsPath(path), NEW dir \in BOOLEAN, Registers(paths, path, dir)
    PROVE  /\ PathsAre(Registered(paths, path, dir), E \cup {Item(path, dir)})
           /\ \A x \in E : x.path # path
           /\ Registrable(E \cup {Item(path, dir)})
  <1> DEFINE R == Registered(paths, path, dir)
             item == Item(path, dir)
  <1>1. /\ DOMAIN R = DOMAIN paths \cup Keys(path)
        /\ \A p \in PrefixesOf(path) :
              /\ R[casefold(p)].name = p
              /\ R[casefold(p)].dir = (dir \/ p # path)
              /\ R[casefold(p)].explicit
                   <=> (p = path \/ (casefold(p) \in DOMAIN paths /\ paths[casefold(p)].explicit))
        /\ \A k \in DOMAIN paths \ Keys(path) : R[k] = paths[k]
    <2>1. IsRegistered(R, paths, path, dir)
      BY RegisteredIs
    <2> HIDE DEF R
    <2> QED
      BY <2>1 DEF IsRegistered
  <1>2. item.path = path /\ item.dir = dir
    BY DEF Item
  <1>3. \A x \in E : \A p \in PrefixesOf(x.path) : casefold(p) \in DOMAIN paths
    BY DEF PathsAre, Parts
  <1>4. ASSUME NEW k \in DOMAIN paths
        PROVE  \E x \in E : \E p \in PrefixesOf(x.path) : k = casefold(p)
    BY DEF PathsAre, Parts
  <1> HIDE DEF R, item
  <1>5. ASSUME NEW x \in E, NEW q \in PrefixesOf(x.path), NEW p \in PrefixesOf(path), casefold(q) = casefold(p)
        PROVE  /\ p = q /\ (x.dir \/ q # x.path) = (dir \/ p # path)
               /\ ~(p = path /\ \E y \in E : y.path = p)
    <2>1. casefold(p) \in DOMAIN paths
      BY <1>3, <1>5
    <2>2. ~Collides(paths[casefold(p)], PathRecord(p, path, dir))
      BY <2>1 DEF Registers
    <2> DEFINE r == PathRecord(p, path, dir)
               old == paths[casefold(p)]
    <2>3. r.name = p /\ r.dir = (dir \/ p # path) /\ r.explicit = (p = path)
      BY DEF PathRecord
    <2>4. old.name = q /\ old.dir = (x.dir \/ q # x.path) /\ (old.explicit <=> \E y \in E : y.path = q)
      BY <1>5 DEF PathsAre
    <2> HIDE DEF r, old
    <2>5. old.name = r.name /\ old.dir = r.dir /\ ~(old.explicit /\ r.explicit)
      BY <2>2 DEF Collides, r, old
    <2> QED
      BY <2>3, <2>4, <2>5
  <1>6. \A x \in E : x.path # path
    <2> SUFFICES ASSUME NEW x \in E, x.path = path PROVE FALSE
      OBVIOUS
    <2>1. path \in PrefixesOf(path)
      BY PrefixFacts
    <2> QED
      BY <1>5, <2>1
  <1>7. DOMAIN R = {casefold(p) : p \in Parts(E \cup {item})}
    <2>1. Parts(E \cup {item}) = Parts(E) \cup PrefixesOf(path)
      BY <1>2 DEF Parts
    <2>2. DOMAIN paths = {casefold(p) : p \in Parts(E)}
      BY DEF PathsAre
    <2> QED
      <3>1. DOMAIN R = {casefold(p) : p \in Parts(E)} \cup {casefold(p) : p \in PrefixesOf(path)}
        BY <1>1, <2>2 DEF Keys
      <3> QED
        BY <2>1, <3>1
  <1>8. ASSUME NEW x \in E, NEW q \in PrefixesOf(x.path)
        PROVE  /\ R[casefold(q)].name = q
               /\ R[casefold(q)].dir = (x.dir \/ q # x.path)
               /\ R[casefold(q)].explicit <=> \E y \in E \cup {item} : y.path = q
    <2>1. /\ paths[casefold(q)].name = q
          /\ paths[casefold(q)].dir = (x.dir \/ q # x.path)
          /\ paths[casefold(q)].explicit <=> \E y \in E : y.path = q
          /\ casefold(q) \in DOMAIN paths
      BY <1>3 DEF PathsAre
    <2>2. CASE casefold(q) \in Keys(path)
      <3>1. PICK p \in PrefixesOf(path) : casefold(q) = casefold(p)
        BY <2>2 DEF Keys
      <3>2. p = q /\ (x.dir \/ q # x.path) = (dir \/ p # path)
        BY <1>5, <3>1
      <3> QED
        BY <1>1, <1>2, <2>1, <3>2
    <2>3. CASE casefold(q) \notin Keys(path)
      <3>1. R[casefold(q)] = paths[casefold(q)]
        BY <1>1, <2>1, <2>3
      <3>2. path # q
        BY <2>3, PrefixFacts DEF Keys
      <3> QED
        BY <1>2, <2>1, <3>1, <3>2
    <2> QED
      BY <2>2, <2>3
  <1>9. ASSUME NEW p \in PrefixesOf(path)
        PROVE  /\ R[casefold(p)].name = p
               /\ R[casefold(p)].dir = (dir \/ p # path)
               /\ R[casefold(p)].explicit <=> \E y \in E \cup {item} : y.path = p
    <2>1. ASSUME casefold(p) \in DOMAIN paths
          PROVE  paths[casefold(p)].explicit <=> \E y \in E : y.path = p
      <3>1. PICK x \in E : \E q \in PrefixesOf(x.path) : casefold(p) = casefold(q)
        BY <1>4, <2>1
      <3>2. PICK q \in PrefixesOf(x.path) : casefold(p) = casefold(q)
        BY <3>1
      <3>3. p = q
        BY <1>5, <3>2
      <3> QED
        BY <3>2, <3>3 DEF PathsAre
    <2>2. ASSUME NEW y \in E, y.path = p PROVE casefold(p) \in DOMAIN paths
      <3>1. p \in PrefixesOf(y.path)
        BY <2>2, PrefixFacts DEF Registrable
      <3> QED
        BY <1>3, <3>1
    <2> QED
      BY <1>1, <1>2, <2>1, <2>2
  <1>10. PathsAre(R, E \cup {item})
    <2>1. ASSUME NEW x \in E \cup {item}, NEW p \in PrefixesOf(x.path)
          PROVE  /\ R[casefold(p)].name = p
                 /\ R[casefold(p)].dir = (x.dir \/ p # x.path)
                 /\ R[casefold(p)].explicit <=> \E y \in E \cup {item} : y.path = p
      <3>1. CASE x \in E
        BY <1>8, <3>1
      <3>2. CASE x = item
        BY <1>2, <1>9, <3>2
      <3> QED
        BY <3>1, <3>2
    <2> QED
      BY <1>7, <2>1 DEF PathsAre
  <1>11. Registrable(E \cup {item})
    BY <1>2 DEF Registrable
  <1> QED
    BY <1>6, <1>10, <1>11 DEF R, item

\* What was registered once is registered again, in any order and in part.
LEMMA RegistersAgain ==
    ASSUME NEW all, NEW F, PathsAre(all, F), Registrable(F),
           IsFiniteSet(DOMAIN all), Cardinality(DOMAIN all) <= MAX_ARCHIVE_ENTRIES,
           NEW paths, NEW E \in SUBSET F, PathsAre(paths, E),
           NEW x \in F, \A y \in E : y.path # x.path
    PROVE  Registers(paths, x.path, x.dir)
  <1>1. /\ IsPath(x.path) /\ x.dir \in BOOLEAN /\ \A y \in E : IsPath(y.path)
    BY DEF Registrable
  <1>2. ASSUME NEW p \in PrefixesOf(x.path), casefold(p) \in DOMAIN paths
        PROVE  ~Collides(paths[casefold(p)], PathRecord(p, x.path, x.dir))
    <2>1. PICK y \in E : \E q \in PrefixesOf(y.path) : casefold(p) = casefold(q)
      BY <1>2 DEF PathsAre, Parts
    <2>a. PICK q \in PrefixesOf(y.path) : casefold(p) = casefold(q)
      BY <2>1
    <2> DEFINE old == paths[casefold(p)]
               r == PathRecord(p, x.path, x.dir)
               full == all[casefold(p)]
    <2>2. r.name = p /\ r.dir = (x.dir \/ p # x.path) /\ r.explicit = (p = x.path)
      BY DEF PathRecord
    <2>3. old.name = q /\ old.dir = (y.dir \/ q # y.path) /\ (old.explicit <=> \E z \in E : z.path = q)
      BY <2>a DEF PathsAre
    <2>4. full.name = q /\ full.dir = (y.dir \/ q # y.path)
      BY <2>a DEF PathsAre
    <2>5. full.name = p /\ full.dir = (x.dir \/ p # x.path)
      BY DEF PathsAre
    <2> HIDE DEF r, old, full
    <2> QED
      BY <2>2, <2>3, <2>4, <2>5 DEF Collides, r, old
  <1>3. DOMAIN Registered(paths, x.path, x.dir) \subseteq DOMAIN all
    <2>1. DOMAIN Registered(paths, x.path, x.dir) = DOMAIN paths \cup Keys(x.path)
      <3>1. IsRegistered(Registered(paths, x.path, x.dir), paths, x.path, x.dir)
        BY <1>1, RegisteredIs
      <3> QED
        BY <3>1 DEF IsRegistered
    <2>2. DOMAIN paths \subseteq DOMAIN all
      BY DEF PathsAre, Parts
    <2>3. Keys(x.path) \subseteq DOMAIN all
      BY DEF PathsAre, Parts, Keys
    <2> QED
      BY <2>1, <2>2, <2>3
  <1>4. Cardinality(DOMAIN Registered(paths, x.path, x.dir)) <= MAX_ARCHIVE_ENTRIES
    <2> DEFINE D == DOMAIN Registered(paths, x.path, x.dir)
    <2>1. IsFiniteSet(D) /\ Cardinality(D) <= Cardinality(DOMAIN all)
      BY <1>3, FS_Subset
    <2>2. Cardinality(D) \in Nat /\ Cardinality(DOMAIN all) \in Nat
      BY <2>1, FS_CardinalityType
    <2> HIDE DEF D
    <2>3. Cardinality(D) <= MAX_ARCHIVE_ENTRIES
      BY <2>1, <2>2, ListingAssumption
    <2> QED
      BY <2>3 DEF D
  <1> QED
    BY <1>2, <1>4 DEF Registers

\* What is registered has keys of its own, and so there is not more of it than keys.
LEMMA RegisteredDistinct ==
    ASSUME NEW paths, NEW E, PathsAre(paths, E), Registrable(E)
    PROVE  \A x, y \in E : \A p \in PrefixesOf(x.path), q \in PrefixesOf(y.path) :
              casefold(p) = casefold(q) => p = q /\ (x.dir \/ p # x.path) = (y.dir \/ q # y.path)
  BY DEF PathsAre

-----------------------------------------------------------------------------
\* An archive whose directory is where its end record says; the i-th record of it.
Info(a, i) == a.cells[a.end.at + i]
InDirectory(a) ==
    /\ IsArchive(a) /\ a.end.at + a.end.count = Len(a.cells)
    /\ \A i \in 1..a.end.count : Info(a, i).is = "central"

\* The records of its directory, and their types.
LEMMA InfoFacts ==
    ASSUME NEW a, InDirectory(a)
    PROVE  /\ a.end.count \in Nat /\ a.end.at \in Nat /\ IsSequence(a.cells) /\ Len(a.cells) \in Nat
           /\ a.end.at + a.end.count = Len(a.cells)
           /\ IsSequence(infolist(a)) /\ Len(infolist(a)) = a.end.count
           /\ \A i \in 1..a.end.count : infolist(a)[i] = Info(a, i)
           /\ Range(infolist(a)) = {Info(a, i) : i \in 1..a.end.count}
           /\ \A i \in 1..a.end.count :
                 /\ IsSequence(Info(a, i).path) /\ Info(a, i).dir \in BOOLEAN
                 /\ Info(a, i).size \in Nat /\ Info(a, i).at \in Nat
  <1>1. /\ a.end.count \in Nat /\ a.end.at \in Nat /\ IsSequence(a.cells) /\ Len(a.cells) \in Nat
        /\ a.end.at + a.end.count = Len(a.cells) /\ DOMAIN a.cells = 1..Len(a.cells)
    BY SeqFacts DEF InDirectory, IsArchive
  <1>2. /\ a.end.at <= Len(a.cells) /\ Len(a.cells) <= Len(a.cells) /\ Len(a.cells) - a.end.at = a.end.count
    BY <1>1
  <1>3. /\ IsSequence(infolist(a)) /\ Len(infolist(a)) = a.end.count
        /\ \A i \in 1..a.end.count : infolist(a)[i] = a.cells[a.end.at + i]
    <2> DEFINE m == a.end.at
               n == Len(a.cells)
               cells == a.cells
    <2>1. /\ m \in Nat /\ n \in Nat /\ m <= n /\ n <= Len(cells) /\ IsSequence(cells) /\ n - m = a.end.count
      BY <1>1, <1>2
    <2>2. infolist(a) = SubSeq(cells, m + 1, n)
      BY DEF infolist
    <2> HIDE DEF m, n, cells
    <2>3. /\ IsSequence(infolist(a)) /\ Len(infolist(a)) = n - m
          /\ \A i \in 1..n - m : infolist(a)[i] = cells[m + i]
      BY <2>1, <2>2, SeqCut
    <2> QED
      BY <2>1, <2>3 DEF m, cells
  <1>4. \A i \in 1..a.end.count : infolist(a)[i] = Info(a, i)
    BY <1>3 DEF Info
  <1>5. DOMAIN infolist(a) = 1..a.end.count
    BY <1>3, SeqFacts
  <1>6. Range(infolist(a)) = {Info(a, i) : i \in 1..a.end.count}
    BY <1>4, <1>5 DEF Range
  <1>7. ASSUME NEW i \in 1..a.end.count
        PROVE  /\ IsSequence(Info(a, i).path) /\ Info(a, i).dir \in BOOLEAN
               /\ Info(a, i).size \in Nat /\ Info(a, i).at \in Nat
    <2>1. a.end.at + i \in DOMAIN a.cells /\ a.end.at + i > a.end.at
      BY <1>1
    <2> QED
      BY <2>1 DEF InDirectory, Info, IsArchive
  <1> QED
    BY <1>1, <1>3, <1>4, <1>6, <1>7

\* What _preflight_directory accepts has its directory there.
LEMMA PreflightFinds ==
    ASSUME NEW a, IsArchive(a), Preflight(a)
    PROVE  InDirectory(a) /\ a.end.count <= MAX_ARCHIVE_ENTRIES
  <1>1. a.end.count \in Nat /\ a.end.at \in Nat /\ a.end.at + a.end.count = Len(a.cells)
    BY DEF IsArchive, Preflight
  <1>2. \A i \in 1..a.end.count : a.end.at + i \in a.end.at + 1..Len(a.cells)
    BY <1>1
  <1> QED
    BY <1>1, <1>2 DEF InDirectory, Info, Preflight

\* Where the i-th record's entry begins; the first n entries follow each other.
StartOf(a, i) == IF i = 1 THEN 0 ELSE Past(Info(a, i - 1), Info(a, i - 1).at)
Follows(a, n) ==
    \A i \in 1..n : /\ Info(a, i).at = StartOf(a, i)
                    /\ LocalAgrees(a, Info(a, i), Info(a, i).at)
                    /\ Past(Info(a, i), Info(a, i).at) <= a.end.at
                    /\ Supported(Info(a, i))

\* The next entry begins where this one ends.
LEMMA StartNext ==
    ASSUME NEW a, NEW i \in Nat \ {0}
    PROVE  StartOf(a, i + 1) = Past(Info(a, i), Info(a, i).at)
  <1>1. i + 1 # 1 /\ (i + 1) - 1 = i
    OBVIOUS
  <1> QED
    BY <1>1 DEF StartOf

\* An archive that pack_directory writes, of entries of this directory.
EntryOf(child) == Entry_(NFC(child.path), child.dir, child.text)
Wrote(a, source) ==
    /\ InDirectory(a) /\ a.end.plain /\ a.end.size = a.end.count
    /\ Follows(a, a.end.count) /\ StartOf(a, a.end.count + 1) = a.end.at
    /\ \A i \in 1..a.end.count : /\ \E c \in source : Info(a, i) = Central(EntryOf(c), Info(a, i).at)
                                 /\ Content(a, Info(a, i)) = Info(a, i).crc
    /\ \A i, j \in 1..a.end.count : Info(a, i).path = Info(a, j).path => i = j

\* An archive begins without entries.
LEMMA WroteNothing ==
    ASSUME NEW source
    PROVE  Wrote(NoArchive, source)
  <1> DEFINE a == NoArchive
  <1>1. a.cells = <<>> /\ a.end.count = 0 /\ a.end.size = 0 /\ a.end.at = 0 /\ a.end.plain = TRUE
    BY DEF NoArchive
  <1> HIDE DEF a
  <1>2. IsSequence(a.cells) /\ Len(a.cells) = 0 /\ DOMAIN a.cells = 1..0
    BY <1>1, SeqEmpty, SeqFacts
  <1>3. InDirectory(a)
    BY <1>1, <1>2 DEF InDirectory, IsArchive
  <1>4. StartOf(a, 1) = 0
    BY DEF StartOf
  <1>5. a.end.count + 1 = 1 /\ 1..a.end.count = {}
    BY <1>1
  <1>6. Follows(a, a.end.count)
    BY <1>5 DEF Follows
  <1>7. Wrote(a, source)
    BY <1>1, <1>3, <1>4, <1>5, <1>6 DEF Wrote
  <1> QED
    BY <1>7 DEF a

\* The cells after one more entry was written.
LEMMA AddedCells ==
    ASSUME NEW a, InDirectory(a), NEW e, IsSequence(e.text)
    PROVE  LET b == Added(a, e)
               n == a.end.count
               past == a.end.at + 1 + Len(e.text)
           IN /\ b.end.count = n + 1 /\ b.end.size = n + 1 /\ b.end.at = past /\ b.end.plain = TRUE
              /\ IsSequence(b.cells) /\ Len(b.cells) = past + n + 1 /\ Len(e.text) \in Nat
              /\ \A i \in 1..a.end.at : b.cells[i] = a.cells[i]
              /\ b.cells[a.end.at + 1] = Local(e)
              /\ \A i \in 1..Len(e.text) : b.cells[a.end.at + 1 + i] = e.text[i]
              /\ \A i \in 1..n : Info(b, i) = Info(a, i)
              /\ Info(b, n + 1) = Central(e, a.end.at)
  <1> DEFINE b == Added(a, e)
             n == a.end.count
             m == a.end.at
             t == e.text
             first == SubSeq(a.cells, 1, m)
             local == <<Local(e)>>
             infos == infolist(a)
             central == <<Central(e, m)>>
             s1 == first \o local
             s2 == s1 \o t
             s3 == s2 \o infos
             s4 == s3 \o central
  <1>1. /\ b.cells = s4 /\ b.end.count = n + 1 /\ b.end.size = n + 1 /\ b.end.at = m + 1 + Len(t)
        /\ b.end.plain = TRUE
    BY DEF Added
  <1>2. /\ n \in Nat /\ m \in Nat /\ Len(t) \in Nat /\ IsSequence(t)
    BY InfoFacts, SeqFacts
  <1>3. /\ IsSequence(infos) /\ Len(infos) = n /\ \A i \in 1..n : infos[i] = Info(a, i)
    BY InfoFacts
  <1>4. IsSequence(first) /\ Len(first) = m /\ \A i \in 1..m : first[i] = a.cells[i]
    <2>1. IsSequence(a.cells) /\ m \in Nat /\ m <= Len(a.cells)
      BY InfoFacts
    <2> QED
      BY <2>1, SeqStart
  <1>5. IsSequence(local) /\ Len(local) = 1 /\ local[1] = Local(e)
    BY SeqSingle
  <1>6. IsSequence(central) /\ Len(central) = 1 /\ central[1] = Central(e, m)
    BY SeqSingle
  <1> HIDE DEF b, n, m, t, first, local, infos, central
  <1>7. /\ IsSequence(s1) /\ Len(s1) = m + 1 /\ (\A i \in 1..m : s1[i] = a.cells[i])
        /\ s1[m + 1] = Local(e)
    <2>1. /\ IsSequence(s1) /\ Len(s1) = Len(first) + Len(local) /\ (\A i \in 1..Len(first) : s1[i] = first[i])
          /\ \A i \in 1..Len(local) : s1[Len(first) + i] = local[i]
      <3>1. IsSequence(first) /\ IsSequence(local)
        BY <1>4, <1>5
      <3> QED
        BY ONLY <3>1, SeqJoined
    <2>2. 1 \in 1..Len(local)
      BY <1>5
    <2> HIDE DEF s1
    <2> QED
      BY <1>4, <1>5, <2>1, <2>2
  <1> HIDE DEF s1
  <1>8. /\ IsSequence(s2) /\ Len(s2) = m + 1 + Len(t) /\ (\A i \in 1..m + 1 : s2[i] = s1[i])
        /\ \A i \in 1..Len(t) : s2[m + 1 + i] = t[i]
    BY <1>2, <1>7, SeqJoined
  <1> HIDE DEF s2
  <1>9. /\ IsSequence(s3) /\ Len(s3) = m + 1 + Len(t) + n /\ (\A i \in 1..m + 1 + Len(t) : s3[i] = s2[i])
        /\ \A i \in 1..n : s3[m + 1 + Len(t) + i] = infos[i]
    BY <1>2, <1>3, <1>8, SeqJoined
  <1> HIDE DEF s3
  <1>10. /\ IsSequence(s4) /\ Len(s4) = m + 1 + Len(t) + n + 1
         /\ (\A i \in 1..m + 1 + Len(t) + n : s4[i] = s3[i])
         /\ s4[m + 1 + Len(t) + n + 1] = Central(e, m)
    <2>1. /\ IsSequence(s4) /\ Len(s4) = Len(s3) + Len(central)
          /\ (\A i \in 1..Len(s3) : s4[i] = s3[i])
          /\ \A i \in 1..Len(central) : s4[Len(s3) + i] = central[i]
      <3>1. IsSequence(s3) /\ IsSequence(central)
        BY <1>6, <1>9
      <3> QED
        BY ONLY <3>1, SeqJoined
    <2>2. 1 \in 1..Len(central)
      BY <1>6
    <2> HIDE DEF s4
    <2> QED
      BY <1>6, <1>9, <2>1, <2>2
  <1> HIDE DEF s4
  <1>11. \A i \in 1..m : b.cells[i] = a.cells[i]
    BY <1>1, <1>2, <1>7, <1>8, <1>9, <1>10
  <1>12. b.cells[m + 1] = Local(e)
    BY <1>1, <1>2, <1>7, <1>8, <1>9, <1>10
  <1>13. \A i \in 1..Len(t) : b.cells[m + 1 + i] = t[i]
    <2> TAKE i \in 1..Len(t)
    <2>1. m + 1 + i \in 1..m + 1 + Len(t) /\ m + 1 + i \in 1..m + 1 + Len(t) + n
      BY <1>2
    <2> QED
      BY <1>1, <1>8, <1>9, <1>10, <2>1
  <1>14. \A i \in 1..n : Info(b, i) = Info(a, i)
    BY <1>1, <1>2, <1>3, <1>9, <1>10 DEF Info
  <1>15. Info(b, n + 1) = Central(e, m)
    <2>1. m + 1 + Len(t) + (n + 1) = m + 1 + Len(t) + n + 1
      BY <1>2
    <2> QED
      BY <1>1, <1>10, <2>1 DEF Info
  <1>16. IsSequence(b.cells) /\ Len(b.cells) = m + 1 + Len(t) + n + 1
    BY <1>1, <1>10
  <1> QED
    BY <1>1, <1>2, <1>11, <1>12, <1>13, <1>14, <1>15, <1>16 DEF b, n, m, t

\* An entry that is written makes an archive that is written.
LEMMA WroteMore ==
    ASSUME NEW a, NEW source, Wrote(a, source), NEW c \in source,
           IsSequence(EntryOf(c).path), c.dir \in BOOLEAN, IsSequence(c.text), c.dir => c.text = <<>>,
           \A i \in 1..a.end.count : Info(a, i).path # EntryOf(c).path
    PROVE  /\ Wrote(Added(a, EntryOf(c)), source)
           /\ Added(a, EntryOf(c)).end.count = a.end.count + 1
  <1> DEFINE e == EntryOf(c)
             b == Added(a, e)
             n == a.end.count
             m == a.end.at
             l == Len(e.text)
             past == m + 1 + l
  <1>1. e.path = NFC(c.path) /\ e.dir = c.dir /\ e.text = c.text
    BY DEF EntryOf, Entry_
  <1> HIDE DEF e
  <1>2. InDirectory(a) /\ IsSequence(e.text)
    BY <1>1 DEF Wrote
  <1>3. /\ b.end.count = n + 1 /\ b.end.size = n + 1 /\ b.end.at = past /\ b.end.plain = TRUE
        /\ IsSequence(b.cells) /\ Len(b.cells) = past + n + 1 /\ l \in Nat
        /\ \A i \in 1..m : b.cells[i] = a.cells[i]
        /\ b.cells[m + 1] = Local(e)
        /\ \A i \in 1..l : b.cells[m + 1 + i] = e.text[i]
        /\ \A i \in 1..n : Info(b, i) = Info(a, i)
        /\ Info(b, n + 1) = Central(e, m)
    BY <1>2, AddedCells
  <1> HIDE DEF b
  <1>4. /\ n \in Nat /\ m \in Nat /\ IsSequence(a.cells) /\ Len(a.cells) = m + n
        /\ \A i \in 1..n : /\ IsSequence(Info(a, i).path) /\ Info(a, i).dir \in BOOLEAN
                           /\ Info(a, i).size \in Nat /\ Info(a, i).at \in Nat
    BY <1>2, InfoFacts
  <1>5. /\ Local(e).is = "local" /\ Local(e).path = e.path /\ Local(e).dir = e.dir /\ Local(e).size = l
        /\ Local(e).crc = e.text /\ Local(e).plain = TRUE
    BY DEF Local
  <1>6. /\ Central(e, m).is = "central" /\ Central(e, m).path = e.path /\ Central(e, m).dir = e.dir
        /\ Central(e, m).size = l /\ Central(e, m).crc = e.text /\ Central(e, m).plain = TRUE
        /\ Central(e, m).at = m
    BY DEF Central
  <1> DEFINE last == Info(b, n + 1)
  <1>7. last = Central(e, m)
    BY <1>3
  <1> HIDE DEF n, m, l, last
  <1>8. \A i \in 1..n + 1 : i \in 1..n \/ i = n + 1
    BY <1>4
  <1>9. \A i \in 1..n + 1 : Info(b, i) = IF i \in 1..n THEN Info(a, i) ELSE last
    BY <1>3, <1>8 DEF last
  <1>30. /\ n \in Nat /\ m \in Nat /\ l \in Nat /\ past \in Nat
         /\ Len(b.cells) = past + n + 1 /\ Len(a.cells) = m + n
    BY <1>3, <1>4
  <1>10. InDirectory(b)
    <2>1. \A i \in 1..n + 1 : Info(b, i).is = "central"
      BY <1>2, <1>6, <1>7, <1>9 DEF InDirectory, n
    <2>2. ASSUME NEW j \in DOMAIN b.cells, j > b.end.at
          PROVE  /\ IsSequence(b.cells[j].path) /\ b.cells[j].dir \in BOOLEAN
                 /\ b.cells[j].size \in Nat /\ b.cells[j].at \in Nat
      <3>1. DOMAIN b.cells = 1..past + n + 1 /\ b.end.at = past /\ past \in Nat
        <4>1. IsSequence(b.cells) /\ Len(b.cells) = past + n + 1 /\ b.end.at = past /\ past \in Nat
          BY <1>3, <1>30
        <4> QED
          BY <4>1, SeqFacts
      <3>2. j - past \in 1..n + 1 /\ j = past + (j - past)
        BY <1>4, <2>2, <3>1
      <3>3. b.cells[j] = Info(b, j - past)
        BY <3>1, <3>2 DEF Info
      <3>4. CASE j - past \in 1..n
        BY <1>4, <1>9, <3>2, <3>3, <3>4
      <3>5. CASE j - past \notin 1..n
        <4>1. b.cells[j] = last
          BY <1>9, <3>2, <3>3, <3>5
        <4>2. IsSequence(e.path) /\ e.dir \in BOOLEAN
          BY <1>1 DEF e
        <4> QED
          BY <1>6, <1>7, <1>30, <4>1, <4>2
      <3> QED
        BY <3>4, <3>5
    <2>3. b.end.count \in Nat /\ b.end.size \in Nat /\ b.end.at \in Nat
      BY <1>3, <1>4
    <2>4. IsArchive(b)
      BY <1>3, <2>2, <2>3 DEF IsArchive
    <2>5. b.end.at + b.end.count = Len(b.cells)
      BY <1>3, <1>4
    <2> QED
      BY <1>3, <2>1, <2>4, <2>5 DEF InDirectory
  <1>11. \A i \in 1..n : StartOf(b, i) = StartOf(a, i) /\ StartOf(a, i + 1) = Past(Info(a, i), Info(a, i).at)
    <2> TAKE i \in 1..n
    <2>1. i = 1 \/ i - 1 \in 1..n
      BY <1>4
    <2>2. StartOf(b, i) = StartOf(a, i)
      BY <1>3, <2>1 DEF StartOf
    <2>3. i \in Nat \ {0}
      BY <1>4
    <2> QED
      BY <2>2, <2>3, StartNext
  <1>12. StartOf(b, n + 1) = m
    <2>1. StartOf(a, n + 1) = m
      BY DEF Wrote, n, m
    <2>2. n = 0 \/ (n \in 1..n /\ n \in Nat \ {0})
      BY <1>4
    <2>3. n + 1 = 1 <=> n = 0
      BY <1>4
    <2> QED
      BY <1>3, <1>4, <2>1, <2>2, <2>3, StartNext DEF StartOf
  <1>13. \A i \in 1..n : /\ Info(a, i).at = StartOf(a, i) /\ LocalAgrees(a, Info(a, i), Info(a, i).at)
                         /\ Past(Info(a, i), Info(a, i).at) <= m /\ Supported(Info(a, i))
                         /\ Content(a, Info(a, i)) = Info(a, i).crc
    BY DEF Wrote, Follows, n, m
  <1>14. ASSUME NEW i \in 1..n
         PROVE  /\ LocalAgrees(b, Info(a, i), Info(a, i).at) /\ Past(Info(a, i), Info(a, i).at) <= past
                /\ Content(b, Info(a, i)) = Info(a, i).crc
    <2> DEFINE at == Info(a, i).at
               size == Info(a, i).size
    <2>1. at \in Nat /\ size \in Nat /\ at + 1 + size <= m
      BY <1>4, <1>13 DEF Past
    <2>2. at + 1 \in 1..m /\ b.cells[at + 1] = a.cells[at + 1]
      <3>1. at + 1 \in 1..m
        <4> HIDE DEF at, size, past
        <4> QED
          BY <1>30, <2>1
      <3> QED
        BY <1>3, <3>1
    <2>3. at < Len(b.cells)
      BY <1>30, <2>1
    <2>4. LocalAgrees(b, Info(a, i), at)
      BY <1>13, <2>2, <2>3 DEF LocalAgrees
    <2>5. Past(Info(a, i), at) <= past
      <3>1. at + 1 + size <= past
        BY <1>30, <2>1
      <3> QED
        BY <3>1 DEF Past
    <2>6. Content(b, Info(a, i)) = Content(a, Info(a, i))
      <3> DEFINE from == at + 1
                 to == at + 1 + size
      <3>1. from \in Nat /\ to \in Nat /\ from <= to /\ to <= Len(b.cells) /\ to <= Len(a.cells)
        BY <1>30, <2>1
      <3>2. \A k \in from + 1..to : b.cells[k] = a.cells[k]
        BY <1>3, <1>4, <2>1
      <3>3. from + 1 = at + 2
        BY <2>1
      <3> HIDE DEF from, to
      <3>4. SubSeq(b.cells, from + 1, to) = SubSeq(a.cells, from + 1, to)
        BY <1>3, <1>4, <3>1, <3>2, SeqSameCut
      <3> QED
        BY <3>3, <3>4 DEF Content, to
    <2> QED
      BY <1>13, <2>4, <2>5, <2>6
  <1>15. /\ last.at = m /\ LocalAgrees(b, last, m) /\ Past(last, m) = past /\ Supported(last)
         /\ Content(b, last) = last.crc
    <2>1. m < Len(b.cells)
      BY <1>3, <1>4
    <2>2. LocalAgrees(b, last, m)
      <3> DEFINE here == b.cells[m + 1]
      <3>1. here = Local(e)
        BY <1>3
      <3> HIDE DEF here
      <3>2. here.is = "local" /\ \A field \in {"path", "dir", "size", "crc", "plain"} : here[field] = last[field]
        BY <1>5, <1>6, <1>7, <3>1
      <3> QED
        BY <2>1, <3>2 DEF LocalAgrees, here
    <2>3. Past(last, m) = past
      BY <1>6, <1>7 DEF Past
    <2>4. Supported(last)
      <3>1. e.dir => l = 0
        BY <1>1, SeqEmpty DEF l
      <3> QED
        BY <1>6, <1>7, <3>1 DEF Supported
    <2>5. SubSeq(b.cells, m + 2, m + 1 + l) = e.text
      <3> DEFINE from == m + 1
                 to == m + 1 + l
      <3>1. from \in Nat /\ to \in Nat /\ from <= to /\ to <= Len(b.cells) /\ to - from = l /\ from + 1 = m + 2
        BY <1>3, <1>4
      <3>2. \A k \in 1..l : b.cells[from + k] = e.text[k]
        BY <1>3
      <3> HIDE DEF from, to
      <3>3. /\ IsSequence(SubSeq(b.cells, from + 1, to)) /\ Len(SubSeq(b.cells, from + 1, to)) = to - from
            /\ \A k \in 1..to - from : SubSeq(b.cells, from + 1, to)[k] = b.cells[from + k]
        BY <1>3, <3>1, SeqCut
      <3>4. SubSeq(b.cells, from + 1, to) = e.text
        <4> DEFINE s == SubSeq(b.cells, from + 1, to)
        <4>1. IsSequence(s) /\ Len(s) = Len(e.text) /\ \A k \in 1..Len(s) : s[k] = e.text[k]
          BY <3>1, <3>2, <3>3 DEF l
        <4> HIDE DEF s
        <4>2. s = e.text
          BY <1>2, <4>1, SeqSame
        <4> QED
          BY <4>2 DEF s
      <3> QED
        BY <3>1, <3>4 DEF to
    <2>6. Content(b, last) = last.crc
      BY <1>6, <1>7, <2>5 DEF Content
    <2> QED
      BY <1>6, <1>7, <2>2, <2>3, <2>4, <2>6
  <1> DEFINE Good(i) == /\ Info(b, i).at = StartOf(b, i) /\ LocalAgrees(b, Info(b, i), Info(b, i).at)
                        /\ Past(Info(b, i), Info(b, i).at) <= past /\ Supported(Info(b, i))
                        /\ Content(b, Info(b, i)) = Info(b, i).crc
                        /\ \E x \in source : Info(b, i) = Central(EntryOf(x), Info(b, i).at)
  <1>16. ASSUME NEW i \in 1..n + 1 PROVE Good(i)
    <2>1. CASE i \in 1..n
      <3>1. \E x \in source : Info(a, i) = Central(EntryOf(x), Info(a, i).at)
        BY <2>1 DEF Wrote, n
      <3>2. Info(b, i) = Info(a, i)
        BY <1>3, <2>1
      <3> QED
        BY <1>11, <1>13, <1>14, <2>1, <3>1, <3>2
    <2>2. CASE i = n + 1
      <3>1. Info(b, i) = last /\ last.at = m
        BY <1>15, <2>2 DEF last
      <3>2. \E x \in source : last = Central(EntryOf(x), m)
        BY <1>7 DEF e
      <3>3. Past(last, m) <= past
        BY <1>3, <1>4, <1>15
      <3>4. StartOf(b, i) = m
        BY <1>12, <2>2
      <3> QED
        BY <1>15, <3>1, <3>2, <3>3, <3>4
    <2> QED
      BY <1>8, <2>1, <2>2
  <1>17. Follows(b, b.end.count)
    BY <1>3, <1>16 DEF Follows
  <1>18. StartOf(b, b.end.count + 1) = b.end.at
    <2>1. n + 1 \in Nat \ {0}
      BY <1>4
    <2>2. StartOf(b, (n + 1) + 1) = Past(last, last.at)
      BY <2>1, StartNext DEF last
    <2> QED
      BY <1>3, <1>15, <2>2
  <1>19. \A i, j \in 1..n + 1 : Info(b, i).path = Info(b, j).path => i = j
    <2>1. \A i \in 1..n : Info(a, i).path # last.path
      BY <1>6, <1>7 DEF n, e
    <2>2. \A i, j \in 1..n : Info(a, i).path = Info(a, j).path => i = j
      BY DEF Wrote, n
    <2> QED
      BY <1>8, <1>9, <2>1, <2>2
  <1>20. \A i \in 1..b.end.count : /\ \E x \in source : Info(b, i) = Central(EntryOf(x), Info(b, i).at)
                                   /\ Content(b, Info(b, i)) = Info(b, i).crc
    BY <1>3, <1>16
  <1>21. Wrote(b, source) /\ b.end.count = n + 1
    <2>1. b.end.plain /\ b.end.size = b.end.count /\ b.end.count = n + 1
      BY <1>3
    <2>2. \A i, j \in 1..b.end.count : Info(b, i).path = Info(b, j).path => i = j
      BY <1>19, <2>1
    <2> QED
      BY <1>10, <1>17, <1>18, <1>20, <2>1, <2>2 DEF Wrote
  <1> QED
    BY <1>21 DEF b, e, n

-----------------------------------------------------------------------------
NamesOK(path) == \A i \in DOMAIN path : path[i] = [key |-> path[i].key, form |-> path[i].form]

\* A path in canonical form stays as it is, and its prefixes are those of the path in that form.
LEMMA NFCFacts ==
    ASSUME NEW path, IsPath(path), NamesOK(path)
    PROVE  /\ IsPath(NFC(path)) /\ Len(NFC(path)) = Len(path) /\ Canonical(NFC(path))
           /\ \A n \in 1..Len(path) : SubSeq(NFC(path), 1, n) = NFC(SubSeq(path, 1, n))
  <1> DEFINE N(x) == IF x.form = "decomposed" THEN [x EXCEPT !.form = "plain"] ELSE x
             name == NFC(path)
  <1>1. Len(path) \in Nat \ {0} /\ DOMAIN path = 1..Len(path) /\ IsSequence(path)
    BY PrefixFacts, SeqFacts DEF IsPath
  <1>2. \A s : NFC(s) = [i \in DOMAIN s |-> N(s[i])]
    BY DEF NFC
  <1>3. ASSUME NEW x, x = [key |-> x.key, form |-> x.form] PROVE N(x).form # "decomposed" /\ N(N(x)) = N(x)
    <2>1. N(x).form # "decomposed"
      <3>1. CASE x.form = "decomposed"
        <4>1. [x EXCEPT !.form = "plain"].form = "plain"
          BY <1>3
        <4> QED
          BY <3>1, <4>1
      <3>2. CASE x.form # "decomposed"
        BY <3>2
      <3> QED
        BY <3>1, <3>2
    <2> QED
      BY <2>1
  <1> HIDE DEF N, name
  <1>4. name = [i \in 1..Len(path) |-> N(path[i])]
    BY <1>1, <1>2 DEF name
  <1>5. IsSequence(name) /\ Len(name) = Len(path) /\ DOMAIN name = 1..Len(path)
    <2>1. name = [i \in 1..Len(path) |-> name[i]]
      BY <1>4
    <2> QED
      BY <1>1, <1>4, <2>1, SeqMade
  <1>6. name # <<>>
    BY <1>1, <1>5, SeqEmpty
  <1>7. NFC(name) = name
    <2>1. \A i \in 1..Len(path) : N(name[i]) = name[i]
      BY <1>1, <1>3, <1>4 DEF NamesOK
    <2>2. NFC(name) = [i \in 1..Len(path) |-> N(name[i])]
      BY <1>2, <1>5
    <2> QED
      BY <1>4, <2>1, <2>2
  <1>8. ASSUME NEW n \in 1..Len(path)
        PROVE  SubSeq(name, 1, n) = NFC(SubSeq(path, 1, n))
    <2> DEFINE s == SubSeq(path, 1, n)
               t == SubSeq(name, 1, n)
    <2>1. n \in Nat /\ n <= Len(path)
      BY <1>1
    <2>2. IsSequence(s) /\ Len(s) = n /\ \A i \in 1..n : s[i] = path[i]
      BY <1>1, <2>1, SeqStart
    <2>3. IsSequence(t) /\ Len(t) = n /\ \A i \in 1..n : t[i] = name[i]
      BY <1>5, <2>1, SeqStart
    <2> HIDE DEF s, t
    <2>4. NFC(s) = [i \in 1..n |-> N(s[i])]
      BY <1>2, <2>2, SeqFacts
    <2>5. t = [i \in 1..n |-> t[i]]
      BY <2>3, SeqFacts
    <2>6. \A i \in 1..n : t[i] = N(s[i])
      BY <1>4, <2>1, <2>2, <2>3
    <2>7. NFC(s) = t
      BY <2>4, <2>5, <2>6
    <2> QED
      BY <2>7 DEF s, t
  <1> QED
    BY <1>1, <1>5, <1>6, <1>7, <1>8 DEF name, IsPath, Canonical

\* A map of _register_path of no more than MAX_ARCHIVE_ENTRIES keys.
Fits(paths, E) ==
    /\ PathsAre(paths, E) /\ Registrable(E)
    /\ IsFiniteSet(DOMAIN paths) /\ Cardinality(DOMAIN paths) <= MAX_ARCHIVE_ENTRIES

\* No path fits an empty map.
LEMMA FitsNone == Fits(<<>>, {})
  <1>1. PathsAre(<<>>, {})
    BY PathsNone
  <1>2. DOMAIN <<>> = {}
    <2>1. DOMAIN <<>> = 1..0
      BY SeqEmpty, SeqFacts
    <2> QED
      BY <2>1
  <1>3. IsFiniteSet({}) /\ Cardinality({}) = 0
    BY FS_EmptySet
  <1>4. Cardinality(DOMAIN <<>>) <= MAX_ARCHIVE_ENTRIES
    BY <1>2, <1>3, ListingAssumption
  <1> QED
    BY <1>1, <1>2, <1>3, <1>4 DEF Fits, Registrable

\* The map after one more path, within the limit on entries.
LEMMA FitsMore ==
    ASSUME NEW paths, NEW E, Fits(paths, E),
           NEW path, IsPath(path), NEW dir \in BOOLEAN, Registers(paths, path, dir)
    PROVE  /\ Fits(Registered(paths, path, dir), E \cup {Item(path, dir)})
           /\ \A x \in E : x.path # path
  <1> DEFINE R == Registered(paths, path, dir)
  <1>1. /\ PathsAre(R, E \cup {Item(path, dir)}) /\ Registrable(E \cup {Item(path, dir)})
        /\ \A x \in E : x.path # path
    BY RegisterStep DEF Fits
  <1>2. Cardinality(DOMAIN R) <= MAX_ARCHIVE_ENTRIES
    BY DEF Registers
  <1>3. DOMAIN R = DOMAIN paths \cup Keys(path)
    <2>1. IsRegistered(R, paths, path, dir)
      BY RegisteredIs
    <2> HIDE DEF R
    <2> QED
      BY <2>1 DEF IsRegistered
  <1>4. IsFiniteSet(Keys(path))
    <2> DEFINE f == [i \in 1..Len(path) |-> casefold(SubSeq(path, 1, i))]
    <2>1. Keys(path) = {f[i] : i \in 1..Len(path)}
      <3>1. \A i \in 1..Len(path) : f[i] = casefold(SubSeq(path, 1, i))
        OBVIOUS
      <3>2. PrefixesOf(path) = {SubSeq(path, 1, i) : i \in 1..Len(path)}
        BY DEF PrefixesOf
      <3> HIDE DEF f
      <3>3. ASSUME NEW k \in Keys(path) PROVE \E i \in 1..Len(path) : k = f[i]
        <4>1. PICK p \in PrefixesOf(path) : k = casefold(p)
          BY DEF Keys
        <4>2. PICK i \in 1..Len(path) : p = SubSeq(path, 1, i)
          BY <3>2
        <4> QED
          BY <3>1, <4>1, <4>2
      <3>4. ASSUME NEW i \in 1..Len(path) PROVE f[i] \in Keys(path)
        <4>1. SubSeq(path, 1, i) \in PrefixesOf(path)
          BY <3>2
        <4> QED
          BY <3>1, <4>1 DEF Keys
      <3> QED
        BY <3>3, <3>4
    <2>2. DOMAIN f = 1..Len(path)
      OBVIOUS
    <2>3. f \in Surjection(1..Len(path), Keys(path))
      <3>1. f = [i \in 1..Len(path) |-> f[i]]
        OBVIOUS
      <3> HIDE DEF f
      <3>2. f \in [1..Len(path) -> Keys(path)]
        BY <2>1, <3>1
      <3>3. \A k \in Keys(path) : \E i \in 1..Len(path) : f[i] = k
        BY <2>1
      <3> QED
        BY <3>2, <3>3 DEF Surjection
    <2>4. IsFiniteSet(1..Len(path))
      <3>1. Len(path) \in Int
        BY SeqFacts DEF IsPath
      <3> QED
        BY <3>1, FS_Interval
    <2> HIDE DEF f
    <2> QED
      BY <2>3, <2>4, FS_Surjection
  <1>5. IsFiniteSet(DOMAIN R)
    BY <1>3, <1>4, FS_Union DEF Fits
  <1> HIDE DEF R
  <1>6. Fits(R, E \cup {Item(path, dir)})
    BY <1>1, <1>2, <1>5 DEF Fits
  <1> QED
    BY <1>1, <1>6 DEF R

\* What is registered of the children of a directory, and of records of an archive.
ItemsOf(children) == {Item(NFC(c.path), c.dir) : c \in children}
ItemsTo(a, n) == {Item(Info(a, i).path, Info(a, i).dir) : i \in 1..n}

\* Children that _inventory took over: none was refused.
Inventoried(children) ==
    /\ \A c \in children : Portable(NFC(c.path))
    /\ \A c1, c2 \in children : NFC(c1.path) = NFC(c2.path) => c1 = c2
    /\ \E paths : Fits(paths, ItemsOf(children))

\* A child of a directory, as what is written of it.
LEMMA ChildFacts ==
    ASSUME NEW source, IsSource(source), NEW c \in source
    PROVE  /\ IsPath(c.path) /\ IsPath(NFC(c.path)) /\ Canonical(NFC(c.path)) /\ Len(NFC(c.path)) = Len(c.path)
           /\ c.dir \in BOOLEAN /\ IsSequence(c.text) /\ (c.dir => c.text = <<>>)
           /\ EntryOf(c).path = NFC(c.path) /\ EntryOf(c).dir = c.dir /\ EntryOf(c).text = c.text
           /\ \A n \in 1..Len(c.path) : SubSeq(NFC(c.path), 1, n) = NFC(SubSeq(c.path, 1, n))
  <1>1. /\ IsPath(c.path) /\ NamesOK(c.path) /\ c.dir \in BOOLEAN /\ IsSequence(c.text)
        /\ (c.dir => c.text = <<>>)
    BY DEF IsSource, IsPath, NamesOK
  <1>2. EntryOf(c).path = NFC(c.path) /\ EntryOf(c).dir = c.dir /\ EntryOf(c).text = c.text
    BY DEF EntryOf, Entry_
  <1> QED
    BY <1>1, <1>2, NFCFacts

\* There are no more children than keys.
LEMMA NotTooMany ==
    ASSUME NEW source, IsSource(source), Inventoried(source)
    PROVE  Cardinality(source) \in Nat /\ Cardinality(source) <= MAX_ARCHIVE_ENTRIES
  <1>1. PICK paths : Fits(paths, ItemsOf(source))
    BY DEF Inventoried
  <1> DEFINE K == DOMAIN paths
             key(c) == casefold(NFC(c.path))
             f == [c \in source |-> key(c)]
  <1>2. /\ PathsAre(paths, ItemsOf(source)) /\ Registrable(ItemsOf(source))
        /\ IsFiniteSet(K) /\ Cardinality(K) <= MAX_ARCHIVE_ENTRIES
    BY <1>1 DEF Fits
  <1>3. ASSUME NEW c \in source
        PROVE  /\ Item(NFC(c.path), c.dir) \in ItemsOf(source)
               /\ NFC(c.path) \in PrefixesOf(Item(NFC(c.path), c.dir).path)
    <2>1. Item(NFC(c.path), c.dir).path = NFC(c.path)
      BY DEF Item
    <2> QED
      BY <2>1, ChildFacts, PrefixFacts DEF ItemsOf
  <1>4. \A c \in source : key(c) \in K
    BY <1>2, <1>3 DEF PathsAre, Parts
  <1>5. \A c1, c2 \in source : key(c1) = key(c2) => c1 = c2
    <2> SUFFICES ASSUME NEW c1 \in source, NEW c2 \in source, key(c1) = key(c2)
                 PROVE  NFC(c1.path) = NFC(c2.path)
      BY DEF Inventoried
    <2>1. paths[key(c1)].name = NFC(c1.path) /\ paths[key(c2)].name = NFC(c2.path)
      BY <1>2, <1>3 DEF PathsAre
    <2> QED
      BY <2>1
  <1>6. f \in Injection(source, K)
    <2>1. f \in [source -> K]
      <3> HIDE DEF K, key
      <3> QED
        BY <1>4
    <2>2. \A c \in source : f[c] = key(c)
      <3> HIDE DEF key
      <3> QED
        OBVIOUS
    <2>3. DOMAIN f = source
      OBVIOUS
    <2> HIDE DEF f, key, K
    <2>4. IsInjective(f)
      BY <1>5, <2>2, <2>3 DEF IsInjective
    <2> QED
      BY <2>1, <2>4 DEF Injection
  <1> HIDE DEF K, f
  <1>7. IsFiniteSet(source) /\ Cardinality(source) <= Cardinality(K)
    BY <1>2, <1>6, FS_Injection
  <1>8. Cardinality(source) \in Nat /\ Cardinality(K) \in Nat
    BY <1>2, <1>7, FS_CardinalityType
  <1> QED
    BY <1>2, <1>7, <1>8, ListingAssumption

\* An archive that was written lists every child, and passes the checks of its directory.
LEMMA WroteAll ==
    ASSUME NEW source, IsSource(source), Inventoried(source),
           NEW a, Wrote(a, source), a.end.count = Cardinality(source)
    PROVE  /\ Preflight(a)
           /\ \A c \in source : \E i \in 1..a.end.count : Info(a, i) = Central(EntryOf(c), Info(a, i).at)
  <1> DEFINE n == a.end.count
             child(i) == CHOOSE c \in source : Info(a, i) = Central(EntryOf(c), Info(a, i).at)
             f == [i \in 1..n |-> child(i)]
  <1>1. /\ n \in Nat /\ a.end.at \in Nat /\ a.end.at + n = Len(a.cells) /\ n <= MAX_ARCHIVE_ENTRIES
    BY InfoFacts, NotTooMany DEF Wrote
  <1>2. \A i \in 1..n : child(i) \in source /\ Info(a, i) = Central(EntryOf(child(i)), Info(a, i).at)
    BY DEF Wrote
  <1>3. \A c, at : Central(EntryOf(c), at).path = NFC(c.path)
    BY DEF Central, EntryOf, Entry_
  <1>4. \A i, j \in 1..n : child(i) = child(j) => i = j
    <2> SUFFICES ASSUME NEW i \in 1..n, NEW j \in 1..n, child(i) = child(j) PROVE i = j
      OBVIOUS
    <2> HIDE DEF child
    <2>1. Info(a, i).path = Info(a, j).path
      BY <1>2, <1>3
    <2> QED
      BY <2>1 DEF Wrote
  <1>5. Preflight(a)
    <2>1. \A j \in a.end.at + 1..Len(a.cells) : j - a.end.at \in 1..n /\ a.end.at + (j - a.end.at) = j
      BY <1>1
    <2>2. \A i \in 1..n : a.cells[a.end.at + i].is = "central"
      BY DEF Wrote, InDirectory, Info
    <2>3. \A j \in a.end.at + 1..Len(a.cells) : a.cells[j].is = "central"
      BY <2>1, <2>2
    <2>4. a.end.plain /\ a.end.size = n
      BY DEF Wrote
    <2> QED
      BY <1>1, <2>3, <2>4 DEF Preflight
  <1> HIDE DEF child
  <1>6. f \in Injection(1..n, source)
    <2>1. f \in [1..n -> source] /\ \A i \in 1..n : f[i] = child(i)
      BY <1>2
    <2>2. IsInjective(f)
      BY <1>4, <2>1 DEF IsInjective
    <2> HIDE DEF f
    <2> QED
      BY <2>1, <2>2 DEF Injection
  <1>7. \A i \in 1..n : f[i] = child(i)
    OBVIOUS
  <1> HIDE DEF f
  <1>8. IsFiniteSet(source) /\ Cardinality(1..n) = Cardinality(source)
    <2>1. Cardinality(1..n) = n
      BY <1>1, FS_Interval
    <2> QED
      BY <2>1 DEF IsSource
  <1>9. f \in Surjection(1..n, source)
    BY <1>6, <1>8, FS_Injection
  <1>10. ASSUME NEW c \in source
         PROVE  \E i \in 1..n : Info(a, i) = Central(EntryOf(c), Info(a, i).at)
    <2>1. PICK i \in 1..n : f[i] = c
      BY <1>9 DEF Surjection
    <2> QED
      BY <1>2, <1>7, <2>1
  <1> QED
    BY <1>5, <1>10

\* And its entries pass theirs.
LEMMA WroteValid ==
    ASSUME NEW source, IsSource(source), Inventoried(source),
           NEW a, Wrote(a, source), NEW n \in 1..a.end.count,
           NEW paths, PathsAre(paths, ItemsTo(a, n - 1))
    PROVE  EntryValid(a, Info(a, n), StartOf(a, n), paths)
  <1> DEFINE info == Info(a, n)
  <1>1. PICK c \in source : info = Central(EntryOf(c), info.at)
    BY DEF Wrote
  <1>2. /\ info.path = NFC(c.path) /\ info.dir = c.dir
    BY <1>1 DEF Central, EntryOf, Entry_
  <1>3. a.end.count \in Nat
    BY InfoFacts DEF Wrote
  <1>4. /\ info.at = StartOf(a, n) /\ LocalAgrees(a, info, StartOf(a, n)) /\ Supported(info)
        /\ Past(info, StartOf(a, n)) <= a.end.at
    BY DEF Wrote, Follows
  <1>5. Portable(info.path) /\ Canonical(info.path)
    BY <1>2, ChildFacts DEF Inventoried
  <1>6. Registers(paths, info.path, info.dir)
    <2>1. PICK all : Fits(all, ItemsOf(source))
      BY DEF Inventoried
    <2> DEFINE x == Item(info.path, info.dir)
    <2>2. x \in ItemsOf(source) /\ x.path = info.path /\ x.dir = info.dir
      BY <1>2 DEF ItemsOf, Item
    <2>3. ItemsTo(a, n - 1) \subseteq ItemsOf(source)
      <3> SUFFICES ASSUME NEW i \in 1..n - 1
                   PROVE  Item(Info(a, i).path, Info(a, i).dir) \in ItemsOf(source)
        BY DEF ItemsTo
      <3>1. i \in 1..a.end.count
        BY <1>3
      <3>2. PICK d \in source : Info(a, i) = Central(EntryOf(d), Info(a, i).at)
        BY <3>1 DEF Wrote
      <3>3. Info(a, i).path = NFC(d.path) /\ Info(a, i).dir = d.dir
        BY <3>2 DEF Central, EntryOf, Entry_
      <3> QED
        BY <3>3 DEF ItemsOf
    <2>4. \A y \in ItemsTo(a, n - 1) : y.path # info.path
      <3> SUFFICES ASSUME NEW i \in 1..n - 1, Info(a, i).path = info.path PROVE FALSE
        BY DEF ItemsTo, Item
      <3>1. i \in 1..a.end.count /\ i # n
        BY <1>3
      <3> QED
        BY <3>1 DEF Wrote
    <2> HIDE DEF x, info
    <2>5. /\ PathsAre(all, ItemsOf(source)) /\ Registrable(ItemsOf(source))
          /\ IsFiniteSet(DOMAIN all) /\ Cardinality(DOMAIN all) <= MAX_ARCHIVE_ENTRIES
      BY <2>1 DEF Fits
    <2>6. \A y \in ItemsTo(a, n - 1) : y.path # x.path
      BY <2>2, <2>4
    <2>7. Registers(paths, x.path, x.dir)
      BY <2>2, <2>3, <2>5, <2>6, RegistersAgain
    <2> QED
      BY <2>2, <2>7
  <1> QED
    BY <1>4, <1>5, <1>6 DEF EntryValid

-----------------------------------------------------------------------------
\* The inductive invariant of what is listed.  l is the operation, a the archive, m what was made.
ListingFields == {"phase", "source", "found", "next", "offset", "paths", "caseless"}
Accepting == {"extract", "stuck", "restored"}
Phases == {"off", "scan", "preflight", "entries", "refused"} \cup Accepting
ListingTyped(l) == l = [f \in ListingFields |-> l[f]] /\ l.phase \in Phases

\* What _inventory has found, and its map.
Scanned(l) ==
    /\ IsSource(l.source) /\ l.found \subseteq l.source
    /\ Inventoried(l.found)
    /\ l.phase = "scan" => Fits(l.paths, ItemsOf(l.found))

\* What pack_directory has written, and that nothing refuses it.
Packed(l, a) ==
    /\ (l.phase = "scan" \/ l.source # {}) => Wrote(a, l.source)
    /\ l.source # {} /\ l.phase \notin {"scan", "refused"} =>
          l.found = l.source /\ a.end.count = Cardinality(l.source)
    /\ l.source # {} /\ l.found = l.source => l.phase # "refused"

Begun(l, m) ==
    /\ l.phase \in {"scan", "preflight"} => l.next = 1 /\ l.offset = 0
    /\ l.phase = "preflight" => l.paths = <<>>
    /\ l.phase \in {"scan", "preflight", "entries"} => m = <<>>

\* The first n entries were checked; all of an archive were.
CheckedTo(a, n, paths) ==
    /\ Preflight(a) /\ Follows(a, n) /\ Fits(paths, ItemsTo(a, n))
    /\ \A i, j \in 1..n : Info(a, i).path = Info(a, j).path => i = j
CheckedAll(a, paths) ==
    /\ CheckedTo(a, a.end.count, paths) /\ StartOf(a, a.end.count + 1) = a.end.at
    /\ \A i \in 1..a.end.count : Content(a, Info(a, i)) = Info(a, i).crc
Checked(l, a) ==
    /\ l.phase = "entries" =>
         /\ l.next \in 1..a.end.count + 1 /\ l.offset = StartOf(a, l.next)
         /\ CheckedTo(a, l.next - 1, l.paths)
    /\ l.phase \in Accepting => CheckedAll(a, l.paths)

ListingOK(l, a, m) ==
    ListingTyped(l) /\ IsArchive(a) /\ Scanned(l) /\ Packed(l, a) /\ Begun(l, m) /\ Checked(l, a)
ListingInv == ListingOK(listing, archive, made)

-----------------------------------------------------------------------------
\* Nothing is listed at first.
LEMMA ListingStarts ==
    ASSUME ListingInit \/ NoListing
    PROVE  ListingInv
  <1>1. IsSource({}) /\ Inventoried({})
    <2>1. ItemsOf({}) = {}
      BY DEF ItemsOf
    <2> QED
      BY <2>1, FitsNone, FS_EmptySet DEF IsSource, Inventoried
  <1>2. ASSUME NEW phase \in Phases, NEW source
        PROVE  LET l == Begins(phase, source)
               IN /\ l = [f \in ListingFields |-> l[f]] /\ l.phase = phase /\ l.source = source
                  /\ l.found = {} /\ l.next = 1 /\ l.offset = 0 /\ l.paths = <<>>
    BY DEF Begins, ListingFields
  <1>3. made = <<>>
    BY DEF ListingInit, NoListing
  <1>4. IsArchive(NoArchive)
    <2>1. Wrote(NoArchive, {})
      BY WroteNothing
    <2> QED
      BY <2>1 DEF Wrote, InDirectory
  <1>5. ItemsOf({}) = {}
    BY DEF ItemsOf
  <1>6. ASSUME archive = NoArchive, NEW s \in Sources, listing = Begins("scan", s)
        PROVE  ListingInv
    <2>1. IsSource(s) /\ Wrote(archive, s)
      BY <1>6, WroteNothing, ListingAssumption
    <2>2. "scan" \in Phases /\ "scan" \notin Accepting
      BY DEF Phases, Accepting
    <2>3. /\ ListingTyped(listing) /\ listing.phase = "scan" /\ listing.source = s
          /\ listing.found = {} /\ listing.next = 1 /\ listing.offset = 0 /\ listing.paths = <<>>
      BY <1>2, <1>6, <2>2 DEF ListingTyped
    <2>4. Scanned(listing)
      BY <1>1, <1>5, <2>1, <2>3, FitsNone DEF Scanned
    <2>5. Packed(listing, archive)
      BY <2>1, <2>3 DEF Packed
    <2>6. Begun(listing, made) /\ Checked(listing, archive)
      BY <1>3, <2>2, <2>3 DEF Begun, Checked
    <2> QED
      BY <1>4, <1>6, <2>3, <2>4, <2>5, <2>6 DEF ListingInv, ListingOK
  <1>7. ASSUME IsArchive(archive), NEW phase \in {"off", "preflight"}, listing = Begins(phase, {})
        PROVE  ListingInv
    <2>1. phase \in Phases /\ phase \notin Accepting
      BY DEF Phases, Accepting
    <2>2. /\ ListingTyped(listing) /\ listing.phase = phase /\ listing.source = {}
          /\ listing.found = {} /\ listing.next = 1 /\ listing.offset = 0 /\ listing.paths = <<>>
      BY <1>2, <1>7, <2>1 DEF ListingTyped
    <2>3. Scanned(listing)
      BY <1>1, <1>5, <2>2, FitsNone DEF Scanned
    <2>4. Packed(listing, archive)
      BY <2>2 DEF Packed
    <2>5. Begun(listing, made) /\ Checked(listing, archive)
      BY <1>3, <2>1, <2>2 DEF Begun, Checked
    <2> QED
      BY <1>7, <2>2, <2>3, <2>4, <2>5 DEF ListingInv, ListingOK
  <1>8. \A a \in Archives : IsArchive(a)
    BY ListingAssumption
  <1> QED
    BY <1>4, <1>6, <1>7, <1>8 DEF ListingInit, NoListing

\* What a step sets; a refusal says why it may not be of what was packed.
LEMMA RefusesKeeps ==
    ASSUME ListingInv, Refuses, UNCHANGED <<archive, made>>,
           ~(listing.source # {} /\ listing.found = listing.source)
    PROVE  ListingInv'
  <1>1. /\ ListingTyped(listing) /\ IsArchive(archive) /\ Scanned(listing) /\ Packed(listing, archive)
        /\ archive' = archive /\ made' = made /\ listing' = [listing EXCEPT !.phase = "refused"]
    BY DEF ListingInv, ListingOK, Refuses
  <1>2. /\ listing'.phase = "refused" /\ listing'.source = listing.source /\ listing'.found = listing.found
        /\ ListingTyped(listing')
    BY <1>1 DEF ListingTyped, ListingFields, Phases
  <1>3. "refused" \notin Accepting
    BY DEF Accepting
  <1>4. Scanned(listing') /\ Packed(listing', archive') /\ Begun(listing', made') /\ Checked(listing', archive')
    BY <1>1, <1>2, <1>3 DEF Scanned, Packed, Begun, Checked
  <1> QED
    BY <1>1, <1>2, <1>4 DEF ListingInv, ListingOK

\* _inventory takes a child over or refuses it.
LEMMA ScanKept ==
    ASSUME ListingInv, NEW child \in listing.source, Scan(child)
    PROVE  ListingInv'
  <1> DEFINE name == NFC(child.path)
             ok == Portable(name) /\ Registers(listing.paths, name, child.dir)
  <1>1. /\ listing.phase = "scan" /\ child \notin listing.found /\ archive' = archive /\ made' = made
        /\ ok => listing' = [listing EXCEPT !.found = @ \cup {child},
                                            !.paths = Registered(@, name, child.dir)]
        /\ ~ok => Refuses
    BY DEF Scan
  <1>2. /\ ListingTyped(listing) /\ IsArchive(archive) /\ Scanned(listing) /\ Packed(listing, archive)
        /\ Begun(listing, made)
    BY DEF ListingInv, ListingOK
  <1>3. CASE ~ok
    BY <1>1, <1>3, RefusesKeeps
  <1>4. CASE ok
    <2>1. listing' = [listing EXCEPT !.found = @ \cup {child}, !.paths = Registered(@, name, child.dir)]
      BY <1>1, <1>4
    <2> HIDE DEF name, ok
    <2>2. /\ listing'.phase = "scan" /\ listing'.source = listing.source
          /\ listing'.found = listing.found \cup {child}
          /\ listing'.paths = Registered(listing.paths, name, child.dir)
          /\ listing'.next = listing.next /\ listing'.offset = listing.offset
          /\ ListingTyped(listing')
      BY <1>1, <1>2, <2>1 DEF ListingTyped, ListingFields
    <2>3. IsPath(name) /\ child.dir \in BOOLEAN /\ IsSource(listing.source)
      BY <1>2, ChildFacts DEF name, Scanned
    <2>4. /\ Fits(listing'.paths, ItemsOf(listing.found) \cup {Item(name, child.dir)})
          /\ \A x \in ItemsOf(listing.found) : x.path # name
      <3>1. Fits(listing.paths, ItemsOf(listing.found)) /\ Registers(listing.paths, name, child.dir)
        BY <1>1, <1>2, <1>4 DEF Scanned, ok
      <3> QED
        BY <2>2, <2>3, <3>1, FitsMore
    <2>5. ItemsOf(listing'.found) = ItemsOf(listing.found) \cup {Item(name, child.dir)}
      BY <2>2 DEF ItemsOf, name
    <2>6. \A c \in listing.found : NFC(c.path) # name
      <3> TAKE c \in listing.found
      <3>1. Item(NFC(c.path), c.dir) \in ItemsOf(listing.found) /\ Item(NFC(c.path), c.dir).path = NFC(c.path)
        BY DEF ItemsOf, Item
      <3> QED
        BY <2>4, <3>1
    <2>7. Inventoried(listing'.found)
      <3>1. Inventoried(listing.found) /\ Portable(name)
        BY <1>2, <1>4 DEF Scanned, ok
      <3>2. \A c \in listing'.found : Portable(NFC(c.path))
        BY <2>2, <3>1 DEF Inventoried, name
      <3>3. \A c1, c2 \in listing'.found : NFC(c1.path) = NFC(c2.path) => c1 = c2
        BY <2>2, <2>6, <3>1 DEF Inventoried, name
      <3> QED
        BY <2>4, <2>5, <3>2, <3>3 DEF Inventoried
    <2>8. Scanned(listing')
      BY <1>2, <2>2, <2>4, <2>5, <2>7 DEF Scanned
    <2>9. Packed(listing', archive)
      BY <1>1, <1>2, <2>2 DEF Packed
    <2>10. Begun(listing', made) /\ Checked(listing', archive)
      BY <1>1, <1>2, <2>2 DEF Begun, Checked, Accepting
    <2> QED
      BY <1>1, <1>2, <2>2, <2>8, <2>9, <2>10 DEF ListingInv, ListingOK
  <1> QED
    BY <1>3, <1>4

\* pack_directory writes an entry.
LEMMA WriteKept ==
    ASSUME ListingInv, NEW child \in listing.source, Write(child)
    PROVE  ListingInv'
  <1> DEFINE e == EntryOf(child)
             there == {info.path : info \in Range(infolist(archive))}
  <1>1. /\ listing.phase = "scan" /\ listing.found = listing.source
        /\ NFC(child.path) \notin there
        /\ archive' = Added(archive, e) /\ listing' = listing /\ made' = made
    BY DEF Write, EntryOf
  <1>2. /\ ListingTyped(listing) /\ Scanned(listing) /\ Packed(listing, archive) /\ Begun(listing, made)
        /\ IsSource(listing.source) /\ Wrote(archive, listing.source)
    BY <1>1 DEF ListingInv, ListingOK, Scanned, Packed
  <1>3. /\ IsSequence(e.path) /\ child.dir \in BOOLEAN /\ IsSequence(child.text) /\ (child.dir => child.text = <<>>)
        /\ e.path = NFC(child.path)
    BY <1>2, ChildFacts DEF IsPath
  <1>4. \A i \in 1..archive.end.count : Info(archive, i).path # e.path
    <2>1. Range(infolist(archive)) = {Info(archive, i) : i \in 1..archive.end.count}
      BY <1>2, InfoFacts DEF Wrote
    <2> QED
      BY <1>1, <1>3, <2>1
  <1>5. Wrote(archive', listing.source)
    BY <1>1, <1>2, <1>3, <1>4, WroteMore
  <1>6. IsArchive(archive')
    BY <1>5 DEF Wrote, InDirectory
  <1>7. Packed(listing', archive') /\ Checked(listing', archive')
    BY <1>1, <1>2, <1>5 DEF Packed, Checked, Accepting
  <1> QED
    BY <1>1, <1>2, <1>6, <1>7 DEF ListingInv, ListingOK

\* The end of pack_directory's writing.
LEMMA WrittenKept ==
    ASSUME ListingInv, Written
    PROVE  ListingInv'
  <1>1. /\ listing.phase = "scan" /\ listing.found = listing.source /\ archive' = archive /\ made' = made
        /\ archive.end.count = Cardinality(listing.source)
        /\ listing' = [listing EXCEPT !.phase = "preflight", !.paths = <<>>]
    BY DEF Written
  <1>2. /\ ListingTyped(listing) /\ Scanned(listing) /\ Packed(listing, archive) /\ Begun(listing, made)
        /\ IsArchive(archive)
    BY DEF ListingInv, ListingOK
  <1>3. /\ listing'.phase = "preflight" /\ listing'.source = listing.source
        /\ listing'.found = listing.found /\ listing'.paths = <<>>
        /\ listing'.next = listing.next /\ listing'.offset = listing.offset
        /\ ListingTyped(listing')
    BY <1>1, <1>2 DEF ListingTyped, ListingFields, Phases
  <1>4. Scanned(listing') /\ Packed(listing', archive) /\ Begun(listing', made) /\ Checked(listing', archive)
    BY <1>1, <1>2, <1>3 DEF Scanned, Packed, Begun, Checked, Accepting
  <1> QED
    BY <1>1, <1>2, <1>3, <1>4 DEF ListingInv, ListingOK

\* While it is checked, an archive that was packed passes.
LEMMA PackedPasses ==
    ASSUME ListingInv, listing.source # {}, listing.found = listing.source,
           listing.phase \in {"preflight", "entries"}
    PROVE  /\ IsSource(listing.source) /\ Inventoried(listing.source) /\ Wrote(archive, listing.source)
           /\ archive.end.count = Cardinality(listing.source) /\ Preflight(archive)
  <1>1. /\ Scanned(listing) /\ Packed(listing, archive)
    BY DEF ListingInv, ListingOK
  <1>2. /\ IsSource(listing.source) /\ Inventoried(listing.source) /\ Wrote(archive, listing.source)
        /\ archive.end.count = Cardinality(listing.source)
    BY <1>1 DEF Scanned, Packed
  <1> QED
    BY <1>2, WroteAll

\* _preflight_directory; it passes what was packed.
LEMMA PreflightKept ==
    ASSUME ListingInv, CheckDirectoryRecords
    PROVE  ListingInv'
  <1>1. /\ listing.phase = "preflight" /\ archive' = archive /\ made' = made
        /\ Preflight(archive) => listing' = [listing EXCEPT !.phase = "entries"]
        /\ ~Preflight(archive) => Refuses
    BY DEF CheckDirectoryRecords, Phase
  <1>2. /\ ListingTyped(listing) /\ Scanned(listing) /\ Packed(listing, archive) /\ Begun(listing, made)
        /\ IsArchive(archive)
    BY DEF ListingInv, ListingOK
  <1>3. CASE ~Preflight(archive)
    BY <1>1, <1>3, PackedPasses, RefusesKeeps
  <1>4. CASE Preflight(archive)
    <2>1. /\ listing'.phase = "entries" /\ listing'.source = listing.source
          /\ listing'.found = listing.found /\ listing'.paths = <<>>
          /\ listing'.next = 1 /\ listing'.offset = 0 /\ ListingTyped(listing')
      BY <1>1, <1>2, <1>4 DEF ListingTyped, ListingFields, Phases, Begun
    <2>2. Scanned(listing') /\ Packed(listing', archive) /\ Begun(listing', made)
      BY <1>1, <1>2, <2>1 DEF Scanned, Packed, Begun
    <2>3. CheckedTo(archive, 0, <<>>)
      <3>1. 1..0 = {}
        OBVIOUS
      <3>2. ItemsTo(archive, 0) = {} /\ Follows(archive, 0)
        BY <3>1 DEF ItemsTo, Follows
      <3> QED
        BY <1>4, <3>1, <3>2, FitsNone DEF CheckedTo
    <2>4. Checked(listing', archive)
      <3>1. archive.end.count \in Nat
        BY <1>2 DEF IsArchive
      <3>2. 1 \in 1..archive.end.count + 1 /\ 1 - 1 = 0
        BY <3>1
      <3>3. StartOf(archive, 1) = 0
        BY DEF StartOf
      <3> QED
        BY <2>1, <2>3, <3>2, <3>3 DEF Checked, Accepting
    <2> QED
      BY <1>1, <1>2, <2>1, <2>2, <2>4 DEF ListingInv, ListingOK
  <1> QED
    BY <1>3, <1>4

\* An entry that passes _validated_archive follows the ones before it.
LEMMA CheckedMore ==
    ASSUME NEW a, IsArchive(a), NEW n \in 1..a.end.count, NEW paths, CheckedTo(a, n - 1, paths),
           EntryValid(a, Info(a, n), StartOf(a, n), paths)
    PROVE  /\ CheckedTo(a, n, Registered(paths, Info(a, n).path, Info(a, n).dir))
           /\ StartOf(a, n + 1) = Past(Info(a, n), StartOf(a, n))
  <1> DEFINE info == Info(a, n)
             R == Registered(paths, info.path, info.dir)
  <1>1. /\ InDirectory(a) /\ a.end.count \in Nat /\ info.dir \in BOOLEAN /\ IsSequence(info.path)
    BY PreflightFinds, InfoFacts DEF CheckedTo
  <1>2. n \in Nat \ {0} /\ n - 1 \in Nat /\ \A i \in 1..n : i \in 1..n - 1 \/ i = n
    BY <1>1
  <1>3. /\ Portable(info.path) /\ Registers(paths, info.path, info.dir) /\ Supported(info)
        /\ info.at = StartOf(a, n) /\ LocalAgrees(a, info, info.at) /\ Past(info, info.at) <= a.end.at
    BY DEF EntryValid
  <1>4. IsPath(info.path)
    <2>1. Len(info.path) # 0
      BY <1>3, ListingAssumption DEF Portable
    <2> QED
      BY <1>1, <2>1, SeqEmpty DEF IsPath
  <1> HIDE DEF info
  <1>5. /\ Fits(R, ItemsTo(a, n - 1) \cup {Item(info.path, info.dir)})
        /\ \A x \in ItemsTo(a, n - 1) : x.path # info.path
    <2>1. Fits(paths, ItemsTo(a, n - 1))
      BY DEF CheckedTo
    <2> DEFINE path == info.path
               dir == info.dir
               E == ItemsTo(a, n - 1)
    <2>2. IsPath(path) /\ dir \in BOOLEAN /\ Registers(paths, path, dir) /\ Fits(paths, E)
      BY <1>1, <1>3, <1>4, <2>1
    <2> HIDE DEF path, dir, E
    <2>3. /\ Fits(Registered(paths, path, dir), E \cup {Item(path, dir)})
          /\ \A x \in E : x.path # path
      BY <2>2, FitsMore
    <2> QED
      BY <2>3 DEF path, dir, E
  <1> HIDE DEF R
  <1>6. ItemsTo(a, n) = ItemsTo(a, n - 1) \cup {Item(info.path, info.dir)}
    <2>1. \A i \in 1..n - 1 : i \in 1..n
      BY <1>2
    <2>2. n \in 1..n
      BY <1>2
    <2> QED
      BY <1>2, <2>1, <2>2 DEF ItemsTo, info
  <1>7. Follows(a, n)
    BY <1>2, <1>3 DEF Follows, CheckedTo, info
  <1>8. \A i \in 1..n - 1 : Info(a, i).path # info.path
    <2> TAKE i \in 1..n - 1
    <2>1. Item(Info(a, i).path, Info(a, i).dir) \in ItemsTo(a, n - 1)
      BY DEF ItemsTo
    <2>2. Item(Info(a, i).path, Info(a, i).dir).path = Info(a, i).path
      BY DEF Item
    <2> QED
      BY <1>5, <2>1, <2>2
  <1>9. \A i, j \in 1..n : Info(a, i).path = Info(a, j).path => i = j
    BY <1>2, <1>8 DEF CheckedTo, info
  <1>10. CheckedTo(a, n, R)
    BY <1>5, <1>6, <1>7, <1>9 DEF CheckedTo
  <1>11. StartOf(a, n + 1) = Past(info, info.at)
    BY <1>2, StartNext DEF info
  <1> QED
    BY <1>3, <1>10, <1>11 DEF R, info

\* The check of an entry keeps ListingInv; that of a packed archive's entry does not fail.
LEMMA EntryKept ==
    ASSUME ListingInv, CheckEntry
    PROVE  ListingInv'
  <1> DEFINE n == listing.next
             info == Info(archive, n)
             ok == EntryValid(archive, info, listing.offset, listing.paths)
  <1>1. /\ ListingTyped(listing) /\ Scanned(listing) /\ Packed(listing, archive) /\ Begun(listing, made)
        /\ IsArchive(archive) /\ Checked(listing, archive)
    BY DEF ListingInv, ListingOK
  <1>2. listing.phase = "entries" /\ n <= archive.end.count /\ archive' = archive /\ made' = made
    BY DEF CheckEntry
  <1>3. /\ n \in 1..archive.end.count + 1 /\ listing.offset = StartOf(archive, n)
        /\ CheckedTo(archive, n - 1, listing.paths)
    BY <1>1, <1>2 DEF Checked
  <1>4. archive.end.count \in Nat /\ n \in 1..archive.end.count /\ InDirectory(archive)
    <2>1. archive.end.count \in Nat
      BY <1>1 DEF IsArchive
    <2> QED
      BY <1>1, <1>2, <1>3, <2>1, PreflightFinds DEF CheckedTo
  <1>5. infolist(archive)[n] = info
    BY <1>4, InfoFacts
  <1>6. /\ ok => listing' = [listing EXCEPT !.next = @ + 1, !.offset = Past(info, @),
                                            !.paths = Registered(@, info.path, info.dir)]
        /\ ~ok => Refuses
    <2> HIDE DEF info, n
    <2>1. infolist(archive)[listing.next] = info
      BY <1>5 DEF n
    <2> QED
      BY <2>1 DEF CheckEntry
  <1>7. CASE ~ok
    <2>1. ASSUME listing.source # {}, listing.found = listing.source PROVE FALSE
      <3>1. /\ IsSource(listing.source) /\ Inventoried(listing.source) /\ Wrote(archive, listing.source)
        BY <1>2, <2>1, PackedPasses
      <3>2. PathsAre(listing.paths, ItemsTo(archive, n - 1))
        BY <1>3 DEF CheckedTo, Fits
      <3>3. EntryValid(archive, info, StartOf(archive, n), listing.paths)
        BY <1>4, <3>1, <3>2, WroteValid
      <3> QED
        BY <1>3, <1>7, <3>3
    <2> QED
      BY <1>2, <1>6, <1>7, <2>1, RefusesKeeps
  <1>8. CASE ok
    <2>1. /\ CheckedTo(archive, n, Registered(listing.paths, info.path, info.dir))
          /\ StartOf(archive, n + 1) = Past(info, StartOf(archive, n))
      BY <1>1, <1>3, <1>4, <1>8, CheckedMore
    <2> HIDE DEF ok, info
    <2>2. /\ listing'.phase = "entries" /\ listing'.source = listing.source
          /\ listing'.found = listing.found
          /\ listing'.paths = Registered(listing.paths, info.path, info.dir)
          /\ listing'.next = n + 1 /\ listing'.offset = Past(info, listing.offset) /\ ListingTyped(listing')
      BY <1>1, <1>2, <1>6, <1>8 DEF ListingTyped, ListingFields, Phases
    <2>3. Scanned(listing') /\ Packed(listing', archive) /\ Begun(listing', made)
      BY <1>1, <1>2, <2>2 DEF Scanned, Packed, Begun
    <2>4. Checked(listing', archive)
      <3>1. n + 1 \in 1..archive.end.count + 1 /\ (n + 1) - 1 = n
        BY <1>4
      <3> HIDE DEF n
      <3> QED
        BY <1>3, <2>1, <2>2, <3>1 DEF Checked, Accepting
    <2> QED
      BY <1>1, <1>2, <2>2, <2>3, <2>4 DEF ListingInv, ListingOK
  <1> QED
    BY <1>7, <1>8

\* The end of _validated_archive; what was packed passes it.
LEMMA ContentsKept ==
    ASSUME ListingInv, CheckContents
    PROVE  /\ ListingInv'
           /\ listing'.phase \in Accepting => listing'.phase = "extract" /\ listing'.next = 1
  <1> DEFINE n == archive.end.count
             ok == /\ EndsAtDirectory(archive, listing.offset)
                   /\ \A i \in 1..n : Content(archive, infolist(archive)[i]) = infolist(archive)[i].crc
  <1>1. /\ ListingTyped(listing) /\ Scanned(listing) /\ Packed(listing, archive) /\ Begun(listing, made)
        /\ IsArchive(archive) /\ Checked(listing, archive)
    BY DEF ListingInv, ListingOK
  <1>2. /\ listing.phase = "entries" /\ listing.next > n /\ archive' = archive /\ made' = made
        /\ ok => \E caseless \in BOOLEAN :
                    listing' = [listing EXCEPT !.phase = "extract", !.next = 1, !.caseless = caseless]
        /\ ~ok => Refuses
    BY DEF CheckContents
  <1>3. /\ listing.next \in 1..n + 1 /\ listing.offset = StartOf(archive, listing.next)
        /\ CheckedTo(archive, listing.next - 1, listing.paths) /\ n \in Nat
    BY <1>1, <1>2 DEF Checked, IsArchive
  <1>4. listing.next = n + 1 /\ listing.next - 1 = n
    <2> DEFINE next == listing.next
    <2>1. n \in Nat /\ next \in 1..n + 1 /\ next > n
      BY <1>2, <1>3
    <2> HIDE DEF n, next
    <2>2. next = n + 1 /\ next - 1 = n
      BY <2>1
    <2> QED
      BY <2>2 DEF next
  <1>5. InDirectory(archive) /\ \A i \in 1..n : infolist(archive)[i] = Info(archive, i)
    BY <1>1, <1>3, PreflightFinds, InfoFacts DEF CheckedTo
  <1>6. CASE ~ok
    <2>1. ASSUME listing.source # {}, listing.found = listing.source PROVE FALSE
      <3>1. Wrote(archive, listing.source)
        BY <1>2, <2>1, PackedPasses
      <3>2. StartOf(archive, n + 1) = archive.end.at
            /\ \A i \in 1..n : Content(archive, Info(archive, i)) = Info(archive, i).crc
        BY <3>1 DEF Wrote
      <3> QED
        BY <1>3, <1>4, <1>5, <1>6, <3>2 DEF EndsAtDirectory
    <2>2. ListingInv' /\ listing'.phase = "refused"
      BY <1>1, <1>2, <1>6, <2>1, RefusesKeeps DEF Refuses, ListingTyped, ListingFields
    <2> QED
      BY <2>2 DEF Accepting
  <1>7. CASE ok
    <2>1. PICK caseless \in BOOLEAN :
                 listing' = [listing EXCEPT !.phase = "extract", !.next = 1, !.caseless = caseless]
      BY <1>2, <1>7
    <2>2. /\ listing'.phase = "extract" /\ listing'.source = listing.source
          /\ listing'.found = listing.found /\ listing'.paths = listing.paths
          /\ listing'.next = 1 /\ ListingTyped(listing')
      BY <1>1, <2>1 DEF ListingTyped, ListingFields, Phases, Accepting
    <2>3. Scanned(listing') /\ Packed(listing', archive) /\ Begun(listing', made)
      BY <1>1, <1>2, <2>2 DEF Scanned, Packed, Begun
    <2>4. CheckedAll(archive, listing.paths)
      <3>1. StartOf(archive, n + 1) = archive.end.at
        BY <1>3, <1>4, <1>7 DEF EndsAtDirectory
      <3>2. \A i \in 1..n : Content(archive, Info(archive, i)) = Info(archive, i).crc
        BY <1>5, <1>7
      <3> QED
        BY <1>3, <1>4, <3>1, <3>2 DEF CheckedAll
    <2>5. Checked(listing', archive)
      BY <2>2, <2>4 DEF Checked
    <2> QED
      BY <1>1, <1>2, <2>2, <2>3, <2>5 DEF ListingInv, ListingOK
  <1> QED
    BY <1>6, <1>7

-----------------------------------------------------------------------------
\* What one record lists, and what the first n records do.
ListedBy(a, info) ==
    {Entry_(info.path, info.dir, Content(a, info))}
    \cup {Entry_(p, TRUE, <<>>) : p \in PrefixesOf(info.path) \ {info.path}}
ListedTo(a, n) == UNION {ListedBy(a, Info(a, i)) : i \in 1..n}

\* What was made of them, by what the file system tells apart.
KeyOf(caseless, path) == IF caseless THEN casefold(path) ELSE path
MadeOf(m, caseless, listed) ==
    /\ DOMAIN m = {KeyOf(caseless, e.path) : e \in listed}
    /\ \A e \in listed : m[KeyOf(caseless, e.path)] = e

ExtractOK(l, a, m) ==
    l.phase \in Accepting =>
        /\ l.next \in 1..a.end.count + 1 /\ MadeOf(m, l.caseless, ListedTo(a, l.next - 1))
        /\ l.phase # "stuck"
        /\ l.phase = "restored" => l.next = a.end.count + 1
ExtractInv == ExtractOK(listing, archive, made)

\* A record that was checked.
LEMMA CheckedRecord ==
    ASSUME NEW a, IsArchive(a), NEW paths, CheckedAll(a, paths), NEW i \in 1..a.end.count
    PROVE  /\ InDirectory(a) /\ IsPath(Info(a, i).path) /\ Info(a, i).dir \in BOOLEAN
           /\ Info(a, i).at \in Nat /\ Info(a, i).size \in Nat /\ Info(a, i).at = StartOf(a, i)
           /\ LocalAgrees(a, Info(a, i), Info(a, i).at)
           /\ Info(a, i).at + 1 + Info(a, i).size <= a.end.at
           /\ Info(a, i).dir => Content(a, Info(a, i)) = <<>>
  <1> DEFINE info == Info(a, i)
             n == a.end.count
  <1>1. InDirectory(a) /\ CheckedTo(a, n, paths)
    BY PreflightFinds DEF CheckedAll, CheckedTo
  <1>2. /\ info.dir \in BOOLEAN /\ info.at \in Nat /\ info.size \in Nat
        /\ IsSequence(a.cells) /\ a.end.at \in Nat /\ n \in Nat /\ a.end.at + n = Len(a.cells)
    BY <1>1, InfoFacts
  <1>3. /\ info.at = StartOf(a, i) /\ LocalAgrees(a, info, info.at) /\ Past(info, info.at) <= a.end.at
        /\ Supported(info)
    BY <1>1 DEF CheckedTo, Follows
  <1>4. info.at + 1 + info.size <= a.end.at
    BY <1>3 DEF Past
  <1>5. IsPath(info.path)
    <2>1. Item(info.path, info.dir) \in ItemsTo(a, n) /\ Item(info.path, info.dir).path = info.path
      BY DEF ItemsTo, Item
    <2>2. Registrable(ItemsTo(a, n))
      BY <1>1 DEF CheckedTo, Fits
    <2> QED
      BY <2>1, <2>2 DEF Registrable
  <1>6. ASSUME info.dir PROVE Content(a, info) = <<>>
    <2> DEFINE m == info.at + 1
               s == SubSeq(a.cells, m + 1, m)
    <2>1. m + 1 = info.at + 2 /\ m = info.at + 1 + info.size
      BY <1>2, <1>3, <1>6 DEF Supported
    <2>2. Content(a, info) = s
      BY <2>1 DEF Content
    <2>3. m \in Nat /\ m <= Len(a.cells) /\ m <= m /\ m - m = 0
      <3> DEFINE at == info.at
                 size == info.size
                 e == a.end.at
                 len == Len(a.cells)
      <3>1. at \in Nat /\ size \in Nat /\ e \in Nat /\ n \in Nat /\ at + 1 + size <= e /\ e + n = len
        BY <1>2, <1>4
      <3> HIDE DEF at, size, e, len, n
      <3>2. at + 1 \in Nat /\ at + 1 <= len /\ at + 1 <= at + 1 /\ (at + 1) - (at + 1) = 0
        BY <3>1
      <3> QED
        BY <3>2 DEF at, len
    <2> HIDE DEF m
    <2>4. IsSequence(s) /\ Len(s) = m - m
      BY <1>2, <2>3, SeqCut
    <2> HIDE DEF s
    <2>5. Len(s) = Len(<<>>) /\ IsSequence(<<>>) /\ \A k \in 1..Len(s) : s[k] = <<>>[k]
      BY <2>3, <2>4, SeqEmpty
    <2>6. s = <<>>
      BY <2>4, <2>5, SeqSame
    <2> QED
      BY <2>2, <2>6
  <1> QED
    BY <1>1, <1>2, <1>3, <1>4, <1>5, <1>6

\* A directory that is listed is a directory without content, a file the entry of its record.
LEMMA ListedIs ==
    ASSUME NEW a, IsArchive(a), NEW paths, CheckedAll(a, paths), NEW i \in 1..a.end.count,
           NEW e \in ListedBy(a, Info(a, i))
    PROVE  /\ e.path \in PrefixesOf(Info(a, i).path)
           /\ \/ e = Entry_(e.path, TRUE, <<>>) /\ (Info(a, i).dir \/ e.path # Info(a, i).path)
              \/ /\ e = Entry_(Info(a, i).path, FALSE, Content(a, Info(a, i)))
                 /\ e.path = Info(a, i).path /\ ~Info(a, i).dir
  <1> DEFINE info == Info(a, i)
  <1>1. IsPath(info.path) /\ info.dir \in BOOLEAN /\ (info.dir => Content(a, info) = <<>>)
    BY CheckedRecord
  <1>2. info.path \in PrefixesOf(info.path)
    BY <1>1, PrefixFacts
  <1>3. \A p, d, t : Entry_(p, d, t).path = p
    BY DEF Entry_
  <1>4. CASE e = Entry_(info.path, info.dir, Content(a, info))
    <2>1. e.path = info.path
      BY <1>3, <1>4
    <2>2. CASE info.dir = TRUE
      BY <1>1, <1>2, <1>4, <2>1, <2>2
    <2>3. CASE info.dir = FALSE
      BY <1>2, <1>4, <2>1, <2>3
    <2> QED
      BY <1>1, <2>2, <2>3
  <1>5. CASE \E p \in PrefixesOf(info.path) \ {info.path} : e = Entry_(p, TRUE, <<>>)
    <2>1. PICK p \in PrefixesOf(info.path) \ {info.path} : e = Entry_(p, TRUE, <<>>)
      BY <1>5
    <2>2. e.path = p
      BY <1>3, <2>1
    <2> QED
      BY <2>1, <2>2
  <1> QED
    BY <1>4, <1>5 DEF ListedBy

\* What is listed has keys of its own; a file is listed by one record.
LEMMA ListedDistinct ==
    ASSUME NEW a, IsArchive(a), NEW paths, CheckedAll(a, paths),
           NEW i \in 1..a.end.count, NEW j \in 1..a.end.count,
           NEW e \in ListedBy(a, Info(a, i)), NEW f \in ListedBy(a, Info(a, j)),
           casefold(e.path) = casefold(f.path)
    PROVE  e = f /\ (i = j \/ e.dir = TRUE)
  <1> DEFINE x == Item(Info(a, i).path, Info(a, i).dir)
             y == Item(Info(a, j).path, Info(a, j).dir)
             E == ItemsTo(a, a.end.count)
  <1>1. PathsAre(paths, E) /\ Registrable(E)
    BY DEF CheckedAll, CheckedTo, Fits
  <1>2. x \in E /\ y \in E
    BY DEF ItemsTo
  <1>3. /\ x.path = Info(a, i).path /\ x.dir = Info(a, i).dir
        /\ y.path = Info(a, j).path /\ y.dir = Info(a, j).dir
    BY DEF Item
  <1>4. /\ e.path \in PrefixesOf(x.path)
        /\ \/ e = Entry_(e.path, TRUE, <<>>) /\ (x.dir \/ e.path # x.path)
           \/ e = Entry_(x.path, FALSE, Content(a, Info(a, i))) /\ e.path = x.path /\ ~x.dir
    BY <1>3, ListedIs
  <1>5. /\ f.path \in PrefixesOf(y.path)
        /\ \/ f = Entry_(f.path, TRUE, <<>>) /\ (y.dir \/ f.path # y.path)
           \/ f = Entry_(y.path, FALSE, Content(a, Info(a, j))) /\ f.path = y.path /\ ~y.dir
    BY <1>3, ListedIs
  <1> HIDE DEF x, y, E
  <1>6. e.path = f.path /\ (x.dir \/ e.path # x.path) = (y.dir \/ f.path # y.path)
    BY <1>1, <1>2, <1>4, <1>5, RegisteredDistinct
  <1>7. \A p, t : Entry_(p, TRUE, t).dir = TRUE
    BY DEF Entry_
  <1>8. CASE x.dir \/ e.path # x.path
    <2>1. e = Entry_(e.path, TRUE, <<>>) /\ f = Entry_(f.path, TRUE, <<>>)
      BY <1>4, <1>5, <1>6, <1>8
    <2> QED
      BY <1>6, <1>7, <2>1
  <1>9. CASE ~(x.dir \/ e.path # x.path)
    <2>1. /\ e = Entry_(x.path, FALSE, Content(a, Info(a, i))) /\ e.path = x.path
          /\ f = Entry_(y.path, FALSE, Content(a, Info(a, j))) /\ f.path = y.path
      BY <1>4, <1>5, <1>6, <1>9
    <2>2. Info(a, i).path = Info(a, j).path
      BY <1>3, <1>6, <2>1
    <2>3. i = j
      BY <2>2 DEF CheckedAll, CheckedTo
    <2> QED
      BY <1>3, <1>6, <2>1, <2>3
  <1> QED
    BY <1>8, <1>9

\* What the next record lists is not in the way of what was made before.
LEMMA NotInTheWay ==
    ASSUME NEW a, IsArchive(a), NEW paths, CheckedAll(a, paths), NEW n \in 1..a.end.count,
           NEW m, NEW caseless, MadeOf(m, caseless, ListedTo(a, n - 1)),
           NEW e \in ListedBy(a, Info(a, n)), KeyOf(caseless, e.path) \in DOMAIN m
    PROVE  e \in ListedTo(a, n - 1) /\ m[KeyOf(caseless, e.path)] = e /\ e.dir = TRUE
  <1>1. PICK f \in ListedTo(a, n - 1) : KeyOf(caseless, e.path) = KeyOf(caseless, f.path)
    BY DEF MadeOf
  <1>2. PICK j \in 1..n - 1 : f \in ListedBy(a, Info(a, j))
    BY DEF ListedTo
  <1>3. casefold(e.path) = casefold(f.path)
    BY <1>1 DEF KeyOf
  <1>4. j \in 1..a.end.count /\ j # n
    <2>1. a.end.count \in Nat
      BY DEF IsArchive
    <2> QED
      BY <2>1
  <1>5. e = f /\ e.dir = TRUE
    <2>1. f \in ListedBy(a, Info(a, j)) /\ j \in 1..a.end.count /\ n \in 1..a.end.count
      BY <1>2, <1>4
    <2>2. e = f /\ (n = j \/ e.dir = TRUE)
      BY <1>3, <2>1, ListedDistinct
    <2> QED
      BY <1>4, <2>2
  <1>6. m[KeyOf(caseless, f.path)] = f
    BY DEF MadeOf
  <1> QED
    BY <1>5, <1>6

\* What extract_archive makes of a record.
LEMMA ExtractMakes ==
    ASSUME NEW info, IsPath(info.path), info.dir \in BOOLEAN, info.dir => Content(archive, info) = <<>>
    PROVE  {Entry_(p, TRUE, <<>>) : p \in Directories(info)}
           \cup {Entry_(p, FALSE, Content(archive, info)) : p \in {info.path} \ Directories(info)}
              = ListedBy(archive, info)
  <1>1. info.path \in PrefixesOf(info.path)
    BY PrefixFacts
  <1>2. CASE info.dir = TRUE
    <2>1. Directories(info) = PrefixesOf(info.path)
      BY <1>2 DEF Directories
    <2>2. {info.path} \ Directories(info) = {}
      BY <1>1, <2>1
    <2>3. Entry_(info.path, info.dir, Content(archive, info)) = Entry_(info.path, TRUE, <<>>)
      BY <1>2
    <2> QED
      BY <1>1, <2>1, <2>2, <2>3 DEF ListedBy
  <1>3. CASE info.dir = FALSE
    <2>1. Directories(info) = PrefixesOf(info.path) \ {info.path}
      BY <1>3 DEF Directories
    <2>2. {info.path} \ Directories(info) = {info.path}
      BY <2>1
    <2> QED
      BY <1>3, <2>1, <2>2 DEF ListedBy
  <1> QED
    BY <1>2, <1>3

\* extract_archive makes what the next record lists, and nothing is in its way.
LEMMA ExtractKept ==
    ASSUME ListingInv, ExtractInv, Extract
    PROVE  ListingInv' /\ ExtractInv'
  <1> DEFINE n == listing.next
             a == archive
             info == infolist(archive)[listing.next]
             new == {Entry_(p, TRUE, <<>>) : p \in Directories(info)}
                    \cup {Entry_(p, FALSE, Content(archive, info)) : p \in {info.path} \ Directories(info)}
             at(key) == CHOOSE e \in new : Key(e.path) = key
             way == InTheWay(info)
             K(p) == KeyOf(listing.caseless, p)
  <1>1. /\ ListingTyped(listing) /\ Scanned(listing) /\ Packed(listing, a) /\ Begun(listing, made)
        /\ IsArchive(a) /\ Checked(listing, a)
    BY DEF ListingInv, ListingOK
  <1>2. /\ listing.phase = "extract" /\ n <= a.end.count /\ archive' = a
        /\ ~way => /\ made' = [key \in DOMAIN made \cup {Key(e.path) : e \in new} |->
                                 IF key \in DOMAIN made THEN made[key] ELSE at(key)]
                   /\ listing' = [listing EXCEPT !.next = @ + 1]
    BY DEF Extract
  <1>3. /\ CheckedAll(a, listing.paths) /\ n \in 1..a.end.count + 1 /\ a.end.count \in Nat
        /\ MadeOf(made, listing.caseless, ListedTo(a, n - 1))
    BY <1>1, <1>2 DEF Checked, Accepting, ExtractInv, ExtractOK, IsArchive
  <1> HIDE DEF n, a, info, new, at, way
  <1>4. /\ n \in 1..a.end.count /\ n - 1 \in Nat /\ n \in 1..n /\ (\A i \in 1..n - 1 : i \in 1..n)
        /\ (\A i \in 1..n : i \in 1..n - 1 \/ i = n)
        /\ n + 1 \in 1..a.end.count + 1 /\ (n + 1) - 1 = n
    BY <1>2, <1>3
  <1>5. InDirectory(a) /\ info = Info(a, n)
    <2>1. InDirectory(a)
      BY <1>1, <1>3, <1>4, CheckedRecord
    <2> QED
      BY <1>4, <2>1, InfoFacts DEF info, a, n
  <1>6. /\ IsPath(info.path) /\ info.dir \in BOOLEAN /\ (info.dir => Content(a, info) = <<>>)
    BY <1>1, <1>3, <1>4, <1>5, CheckedRecord
  <1>7. new = ListedBy(a, info)
    BY <1>6, ExtractMakes DEF new, a
  <1>8. \A p, d, t : Entry_(p, d, t).path = p /\ Entry_(p, d, t).dir = d
    BY DEF Entry_
  <1>9. \A e \in new : K(e.path) \in DOMAIN made =>
                          e \in ListedTo(a, n - 1) /\ made[K(e.path)] = e /\ e.dir = TRUE
    BY <1>1, <1>3, <1>4, <1>5, <1>7, NotInTheWay
  <1>10. \A e1, e2 \in new : K(e1.path) = K(e2.path) => e1 = e2
    <2> SUFFICES ASSUME NEW e1 \in new, NEW e2 \in new, K(e1.path) = K(e2.path) PROVE e1 = e2
      OBVIOUS
    <2>1. casefold(e1.path) = casefold(e2.path) /\ e1 \in ListedBy(a, Info(a, n)) /\ e2 \in ListedBy(a, Info(a, n))
      BY <1>5, <1>7 DEF KeyOf
    <2> QED
      BY <1>1, <1>3, <1>4, <2>1, ListedDistinct
  <1>11. \A p : Key(p) = K(p)
    BY DEF Key, KeyOf
  <1> HIDE DEF K
  <1>12. ~way
    <2>1. ASSUME NEW p \in Directories(info), K(p) \in DOMAIN made, ~made[K(p)].dir PROVE FALSE
      <3> DEFINE e == Entry_(p, TRUE, <<>>)
      <3>1. e \in new /\ e.path = p
        BY <1>8 DEF new
      <3> HIDE DEF e
      <3>2. made[K(p)] = e /\ e.dir = TRUE
        BY <1>9, <2>1, <3>1
      <3> QED
        BY <2>1, <3>2
    <2>2. ASSUME ~info.dir, K(info.path) \in DOMAIN made PROVE FALSE
      <3> DEFINE e == Entry_(info.path, FALSE, Content(archive, info))
      <3>1. e \in new /\ e.path = info.path /\ e.dir = FALSE
        <4>1. info.path \in {info.path} \ Directories(info)
          BY <2>2 DEF Directories
        <4> QED
          BY <1>8, <4>1 DEF new
      <3> HIDE DEF e
      <3>2. e.dir = TRUE
        BY <1>9, <2>2, <3>1
      <3> QED
        BY <3>1, <3>2
    <2> QED
      BY <1>11, <2>1, <2>2 DEF InTheWay, way
  <1>13. /\ listing'.phase = "extract" /\ listing'.source = listing.source /\ listing'.next = n + 1
         /\ listing'.found = listing.found /\ listing'.paths = listing.paths
         /\ listing'.caseless = listing.caseless /\ ListingTyped(listing')
    BY <1>1, <1>2, <1>12 DEF ListingTyped, ListingFields, n
  <1>14. ListingInv'
    <2>1. Scanned(listing') /\ Packed(listing', a) /\ Begun(listing', made') /\ Checked(listing', a)
      BY <1>1, <1>2, <1>13 DEF Scanned, Packed, Begun, Checked
    <2> QED
      BY <1>1, <1>2, <1>13, <2>1 DEF ListingInv, ListingOK
  <1>15. ListedTo(a, n) = ListedTo(a, n - 1) \cup new
    BY <1>4, <1>5, <1>7 DEF ListedTo
  <1>16. DOMAIN made = {K(e.path) : e \in ListedTo(a, n - 1)} /\ \A e \in ListedTo(a, n - 1) : made[K(e.path)] = e
    BY <1>3 DEF MadeOf, K
  <1>17. \A k : at(k) = CHOOSE e \in new : Key(e.path) = k
    BY DEF at
  <1>18. /\ DOMAIN made' = DOMAIN made \cup {K(e.path) : e \in new}
         /\ \A k \in DOMAIN made : made'[k] = made[k]
         /\ \A k \in {K(e.path) : e \in new} \ DOMAIN made : made'[k] = at(k)
    <2>1. {Key(e.path) : e \in new} = {K(e.path) : e \in new}
      BY <1>11
    <2> QED
      BY <1>2, <1>12, <2>1
  <1>19. DOMAIN made' = {K(e.path) : e \in ListedTo(a, n)}
    BY <1>15, <1>16, <1>18
  <1>20. ASSUME NEW e \in ListedTo(a, n)
         PROVE  made'[K(e.path)] = e
    <2>1. CASE e \in ListedTo(a, n - 1)
      BY <1>16, <1>18, <2>1
    <2>2. CASE e \in new /\ K(e.path) \in DOMAIN made
      BY <1>9, <1>18, <2>2
    <2>3. CASE e \in new /\ K(e.path) \notin DOMAIN made
      <3>1. at(K(e.path)) = e
        BY <1>10, <1>11, <1>17, <2>3
      <3> QED
        BY <1>18, <2>3, <3>1
    <2> QED
      BY <1>15, <2>1, <2>2, <2>3
  <1>21. MadeOf(made', listing.caseless, ListedTo(a, n))
    BY <1>19, <1>20 DEF MadeOf, K
  <1>22. ExtractInv'
    BY <1>2, <1>4, <1>13, <1>21 DEF ExtractInv, ExtractOK
  <1> QED
    BY <1>14, <1>22

-----------------------------------------------------------------------------
\* Before anything is restored, nothing is made of what is listed.
LEMMA NothingMadeYet ==
    ASSUME NEW l, NEW a, NEW m, l.phase = "extract", l.next = 1, a.end.count \in Nat, m = <<>>
    PROVE  ExtractOK(l, a, m)
  <1>1. 1 - 1 = 0 /\ 1..0 = {} /\ 1 \in 1..a.end.count + 1
    OBVIOUS
  <1>2. ListedTo(a, 0) = {}
    BY <1>1 DEF ListedTo
  <1>3. DOMAIN m = {}
    <2>1. DOMAIN <<>> = 1..0
      BY SeqEmpty, SeqFacts
    <2> QED
      BY <1>1, <2>1
  <1>4. MadeOf(m, l.caseless, {})
    BY <1>3 DEF MadeOf
  <1> QED
    BY <1>1, <1>2, <1>4 DEF ExtractOK

\* The restoration ends after the last record.
LEMMA ExtractedKept ==
    ASSUME ListingInv, ExtractInv, Extracted
    PROVE  ListingInv' /\ ExtractInv'
  <1>1. /\ ListingTyped(listing) /\ Scanned(listing) /\ Packed(listing, archive) /\ Begun(listing, made)
        /\ IsArchive(archive) /\ Checked(listing, archive)
    BY DEF ListingInv, ListingOK
  <1>2. /\ listing.phase = "extract" /\ archive' = archive /\ made' = made
        /\ listing.next > archive.end.count /\ listing' = [listing EXCEPT !.phase = "restored"]
    BY DEF Extracted, Phase
  <1>3. /\ listing'.phase = "restored" /\ listing'.source = listing.source
        /\ listing'.found = listing.found /\ listing'.paths = listing.paths
        /\ listing'.next = listing.next /\ listing'.caseless = listing.caseless /\ ListingTyped(listing')
    BY <1>1, <1>2 DEF ListingTyped, ListingFields, Phases, Accepting
  <1>4. /\ listing.next \in 1..archive.end.count + 1 /\ archive.end.count \in Nat
        /\ MadeOf(made, listing.caseless, ListedTo(archive, listing.next - 1))
    BY <1>1, <1>2 DEF ExtractInv, ExtractOK, Accepting, IsArchive
  <1>5. listing.next = archive.end.count + 1
    <2> DEFINE n == listing.next
               c == archive.end.count
    <2>1. c \in Nat /\ n \in 1..c + 1 /\ n > c
      BY <1>2, <1>4
    <2> HIDE DEF n, c
    <2>2. n = c + 1
      BY <2>1
    <2> QED
      BY <2>2 DEF n, c
  <1>6. Scanned(listing') /\ Packed(listing', archive) /\ Begun(listing', made) /\ Checked(listing', archive)
    BY <1>1, <1>2, <1>3 DEF Scanned, Packed, Begun, Checked, Accepting
  <1>7. ExtractOK(listing', archive, made)
    BY <1>3, <1>4, <1>5 DEF ExtractOK
  <1> QED
    BY <1>1, <1>2, <1>3, <1>6, <1>7 DEF ListingInv, ListingOK, ExtractInv

\* What is restored is what is listed so far.
LEMMA ListingStep ==
    ASSUME ListingInv, ExtractInv, ListingNext
    PROVE  ListingInv' /\ ExtractInv'
  <1>1. ASSUME NEW child \in listing.source, Scan(child) PROVE ListingInv' /\ ExtractInv'
    <2>1. listing'.phase \notin Accepting
      BY <1>1 DEF Scan, Refuses, Accepting, ListingInv, ListingOK, ListingTyped, ListingFields
    <2> QED
      BY <1>1, <2>1, ScanKept DEF ExtractInv, ExtractOK
  <1>2. ASSUME NEW child \in listing.source, Write(child) PROVE ListingInv' /\ ExtractInv'
    <2>1. listing'.phase \notin Accepting
      BY <1>2 DEF Write, Accepting
    <2> QED
      BY <1>2, <2>1, WriteKept DEF ExtractInv, ExtractOK
  <1>3. CASE Written
    <2>1. listing'.phase \notin Accepting
      BY <1>3 DEF Written, Accepting, ListingInv, ListingOK, ListingTyped, ListingFields
    <2> QED
      BY <1>3, <2>1, WrittenKept DEF ExtractInv, ExtractOK
  <1>4. CASE CheckDirectoryRecords
    <2>1. listing'.phase \notin Accepting
      BY <1>4 DEF CheckDirectoryRecords, Phase, Refuses, Accepting, ListingInv, ListingOK, ListingTyped, ListingFields
    <2> QED
      BY <1>4, <2>1, PreflightKept DEF ExtractInv, ExtractOK
  <1>5. CASE CheckEntry
    <2>1. listing'.phase \notin Accepting
      BY <1>5 DEF CheckEntry, Refuses, Accepting, ListingInv, ListingOK, ListingTyped, ListingFields
    <2> QED
      BY <1>5, <2>1, EntryKept DEF ExtractInv, ExtractOK
  <1>6. CASE CheckContents
    <2>1. ListingInv' /\ (listing'.phase \in Accepting => listing'.phase = "extract" /\ listing'.next = 1)
      BY <1>6, ContentsKept
    <2>2. archive' = archive /\ made' = made /\ listing.phase = "entries"
      BY <1>6 DEF CheckContents
    <2>3. archive.end.count \in Nat /\ made = <<>>
      BY <2>2 DEF ListingInv, ListingOK, IsArchive, Begun
    <2>4. ExtractOK(listing', archive, made)
      <3>1. CASE listing'.phase \in Accepting
        BY <2>1, <2>3, <3>1, NothingMadeYet
      <3> QED
        BY <3>1 DEF ExtractOK
    <2> QED
      BY <2>1, <2>2, <2>4 DEF ExtractInv
  <1>7. CASE Extract
    BY <1>7, ExtractKept
  <1>8. CASE Extracted
    BY <1>8, ExtractedKept
  <1> QED
    BY <1>1, <1>2, <1>3, <1>4, <1>5, <1>6, <1>7, <1>8 DEF ListingNext

\* Packing and restoring do not change it.
LEMMA ListingStutters ==
    ASSUME ListingInv, ExtractInv, UNCHANGED listingVars
    PROVE  ListingInv' /\ ExtractInv'
  <1>1. listing' = listing /\ archive' = archive /\ made' = made
    BY DEF listingVars
  <1> QED
    BY <1>1 DEF ListingInv, ExtractInv

\* At every moment the map of names is that of what was listed, the checked entries follow each
\* other from the start of the archive, and what was made is what they list.
THEOREM ListingInvariant == ArchiveSpec => [](ListingInv /\ ExtractInv)
  <1>1. ArchiveInit => ListingInv /\ ExtractInv
    <2> SUFFICES ASSUME ArchiveInit PROVE ListingInv /\ ExtractInv
      OBVIOUS
    <2>1. ListingInit \/ NoListing
      BY DEF ArchiveInit
    <2>2. listing.phase \notin Accepting
      BY <2>1 DEF ListingInit, NoListing, Begins, Accepting
    <2> QED
      BY <2>1, <2>2, ListingStarts DEF ExtractInv, ExtractOK
  <1>2. (ListingInv /\ ExtractInv) /\ [ArchiveNext]_<<packingVars, restoringVars, listingVars>>
          => (ListingInv /\ ExtractInv)'
    BY ListingStep, ListingStutters DEF ArchiveNext, Packs, Restores, Lists
  <1> QED
    BY <1>1, <1>2, PTL DEF ArchiveSpec

-----------------------------------------------------------------------------
\* A directory that holds something holds the directories that is in.
LEMMA PrefixInSource ==
    ASSUME NEW source, IsSource(source), NEW c \in source, NEW n \in 1..Len(c.path) - 1
    PROVE  \E d \in source : d.path = SubSeq(c.path, 1, n) /\ d.dir = TRUE /\ d.text = <<>>
  <1> DEFINE len == Len(c.path)
             Has(k) == \E d \in source : d.path = SubSeq(c.path, 1, k) /\ d.dir = TRUE /\ d.text = <<>>
             lacking == {k \in Nat : len - k \in 1..len - 1 /\ ~Has(len - k)}
  <1>1. len \in Nat \ {0} /\ IsSequence(c.path) /\ c.path # <<>>
    BY ChildFacts, PrefixFacts DEF IsPath
  <1>2. SUFFICES ASSUME lacking # {} PROVE FALSE
    <2>1. ASSUME ~Has(n) PROVE lacking # {}
      <3>1. len - n \in Nat /\ len - (len - n) = n /\ n \in 1..len - 1
        BY <1>1
      <3> HIDE DEF Has, len
      <3>2. len - n \in lacking
        BY <2>1, <3>1
      <3> QED
        BY <3>2
    <2> QED
      BY <1>2, <2>1
  <1> HIDE DEF len, Has
  <1>3. PICK k \in lacking : \A j \in lacking : k <= j
    BY <1>2, LeastPosition
  <1>4. k \in Nat /\ len - k \in 1..len - 1 /\ ~Has(len - k)
    OBVIOUS
  <1> HIDE DEF lacking
  <1> DEFINE m == len - k
  <1>5. m \in 1..len - 1 /\ m \in Nat /\ m + 1 \in 2..len /\ m <= m + 1 /\ m + 1 <= len /\ m <= len /\ m # 0
    BY <1>1, <1>4
  <1>6. \E d \in source : d.path = SubSeq(c.path, 1, m + 1)
    <2>1. CASE m + 1 = len
      <3>1. IsSequence(SubSeq(c.path, 1, len)) /\ Len(SubSeq(c.path, 1, len)) = len
            /\ \A i \in 1..len : SubSeq(c.path, 1, len)[i] = c.path[i]
        BY <1>1, SeqStart DEF len
      <3>2. SubSeq(c.path, 1, len) = c.path
        BY <1>1, <3>1, SeqSame DEF len
      <3> HIDE DEF m
      <3> QED
        BY <2>1, <3>2
    <2>2. CASE m + 1 # len
      <3>1. k - 1 \in Nat /\ len - (k - 1) = m + 1 /\ m + 1 \in 1..len - 1 /\ k # 0 /\ ~(k <= k - 1)
        BY <1>1, <1>4, <1>5, <2>2
      <3>2. Has(m + 1)
        <4>1. k - 1 \notin lacking
          BY <1>3, <3>1
        <4> QED
          BY <3>1, <4>1 DEF lacking
      <3> HIDE DEF m
      <3> QED
        BY <3>2 DEF Has
    <2> QED
      BY <2>1, <2>2
  <1>7. PICK d \in source : d.path = SubSeq(c.path, 1, m + 1)
    BY <1>6
  <1> HIDE DEF m
  <1>8. m + 1 \in Nat /\ m + 1 # 1 /\ (m + 1) - 1 = m
    BY <1>5
  <1>9. /\ IsSequence(d.path) /\ Len(d.path) = m + 1
        /\ \A i \in 1..m + 1 : d.path[i] = c.path[i]
    BY <1>1, <1>5, <1>7, <1>8, SeqStart DEF len
  <1>10. [path |-> Front(d.path), dir |-> TRUE, text |-> <<>>] \in source
    BY <1>8, <1>9 DEF IsSource
  <1>11. Front(d.path) = SubSeq(c.path, 1, m)
    <2>1. Front(d.path) = SubSeq(d.path, 1, m)
      BY <1>8, <1>9 DEF Front
    <2>2. /\ IsSequence(SubSeq(d.path, 1, m)) /\ Len(SubSeq(d.path, 1, m)) = m
          /\ \A i \in 1..m : SubSeq(d.path, 1, m)[i] = d.path[i]
      BY <1>5, <1>9, SeqStart
    <2>3. /\ IsSequence(SubSeq(c.path, 1, m)) /\ Len(SubSeq(c.path, 1, m)) = m
          /\ \A i \in 1..m : SubSeq(c.path, 1, m)[i] = c.path[i]
      BY <1>1, <1>5, SeqStart DEF len
    <2>4. \A i \in 1..m : i \in 1..m + 1
      BY <1>5
    <2> DEFINE s == SubSeq(d.path, 1, m)
               t == SubSeq(c.path, 1, m)
    <2>5. /\ IsSequence(s) /\ IsSequence(t) /\ Len(s) = m /\ Len(t) = m
          /\ (\A i \in 1..m : s[i] = d.path[i]) /\ \A i \in 1..m : t[i] = c.path[i]
      BY <2>2, <2>3
    <2> HIDE DEF s, t
    <2>6. \A i \in 1..m : s[i] = t[i]
      BY <1>9, <2>4, <2>5
    <2>7. s = t
      BY <2>5, <2>6, SeqSame
    <2> QED
      BY <2>1, <2>7 DEF s, t
  <1>12. Has(m)
    BY <1>10, <1>11 DEF Has
  <1> QED
    BY <1>4, <1>12 DEF m

\* A packed archive lists the directory it was made of.
LEMMA PackedLists ==
    ASSUME NEW source, IsSource(source), Inventoried(source),
           NEW a, Wrote(a, source), a.end.count = Cardinality(source)
    PROVE  ListedTo(a, a.end.count) = {EntryOf(c) : c \in source}
  <1>1. \A c, at : /\ Central(EntryOf(c), at).path = EntryOf(c).path
                   /\ Central(EntryOf(c), at).dir = EntryOf(c).dir
                   /\ Central(EntryOf(c), at).crc = EntryOf(c).text
                   /\ EntryOf(c) = Entry_(EntryOf(c).path, EntryOf(c).dir, EntryOf(c).text)
    BY DEF Central, EntryOf, Entry_
  <1>2. ASSUME NEW i \in 1..a.end.count, NEW c \in source, Info(a, i) = Central(EntryOf(c), Info(a, i).at)
        PROVE  Info(a, i).path = EntryOf(c).path /\ EntryOf(c) \in ListedBy(a, Info(a, i))
               /\ Entry_(Info(a, i).path, Info(a, i).dir, Content(a, Info(a, i))) = EntryOf(c)
    <2>1. Content(a, Info(a, i)) = Info(a, i).crc
      BY DEF Wrote
    <2>2. /\ Info(a, i).path = EntryOf(c).path /\ Info(a, i).dir = EntryOf(c).dir
          /\ Info(a, i).crc = EntryOf(c).text
      BY <1>1, <1>2
    <2> QED
      BY <1>1, <2>1, <2>2 DEF ListedBy
  <1>3. ASSUME NEW c \in source PROVE EntryOf(c) \in ListedTo(a, a.end.count)
    <2>1. PICK i \in 1..a.end.count : Info(a, i) = Central(EntryOf(c), Info(a, i).at)
      BY WroteAll
    <2> QED
      BY <1>2, <2>1 DEF ListedTo
  <1>4. ASSUME NEW e \in ListedTo(a, a.end.count) PROVE \E c \in source : e = EntryOf(c)
    <2>1. PICK i \in 1..a.end.count : e \in ListedBy(a, Info(a, i))
      BY <1>4 DEF ListedTo
    <2>2. PICK c \in source : Info(a, i) = Central(EntryOf(c), Info(a, i).at)
      BY DEF Wrote
    <2>3. Info(a, i).path = NFC(c.path)
          /\ Entry_(Info(a, i).path, Info(a, i).dir, Content(a, Info(a, i))) = EntryOf(c)
      BY <1>2, <2>2, ChildFacts
    <2>4. ASSUME NEW p \in PrefixesOf(NFC(c.path)) \ {NFC(c.path)}, e = Entry_(p, TRUE, <<>>)
          PROVE  \E d \in source : e = EntryOf(d)
      <3> DEFINE n == Len(p)
                 len == Len(c.path)
      <3>1. /\ IsPath(NFC(c.path)) /\ Len(NFC(c.path)) = len
            /\ \A k \in 1..len : SubSeq(NFC(c.path), 1, k) = NFC(SubSeq(c.path, 1, k))
        BY ChildFacts
      <3>2. n \in 1..len /\ p = SubSeq(NFC(c.path), 1, n) /\ len \in Nat
        BY <3>1, PrefixFacts
      <3>3. n # len
        <4>1. ASSUME n = len PROVE p = NFC(c.path)
          <5>1. IsSequence(NFC(c.path)) /\ NFC(c.path) \in PrefixesOf(NFC(c.path))
            BY <3>1, PrefixFacts DEF IsPath
          <5>2. NFC(c.path) = SubSeq(NFC(c.path), 1, len)
            BY <3>1, <5>1, PrefixFacts
          <5> QED
            BY <3>2, <4>1, <5>2
        <4> QED
          BY <4>1
      <3>4. n \in 1..len - 1
        BY <3>2, <3>3
      <3> HIDE DEF n
      <3>5. PICK d \in source : d.path = SubSeq(c.path, 1, n) /\ d.dir = TRUE /\ d.text = <<>>
        BY <3>4, PrefixInSource
      <3>6. NFC(d.path) = p
        BY <3>1, <3>2, <3>5
      <3> QED
        BY <2>4, <3>5, <3>6 DEF EntryOf
    <2> QED
      BY <2>1, <2>3, <2>4 DEF ListedBy
  <1> QED
    BY <1>3, <1>4

\* What was made is what is listed, when the restoration ends.
LEMMA RestoredIsListed ==
    ASSUME ListingInv, ExtractInv, listing.phase = "restored"
    PROVE  /\ InDirectory(archive) /\ CheckedAll(archive, listing.paths)
           /\ Restored = ListedTo(archive, archive.end.count) /\ Restored = Listed
  <1> DEFINE n == archive.end.count
             L == ListedTo(archive, n)
  <1>1. /\ IsArchive(archive) /\ CheckedAll(archive, listing.paths)
        /\ listing.next = n + 1 /\ MadeOf(made, listing.caseless, ListedTo(archive, listing.next - 1))
        /\ n \in Nat
    BY DEF ListingInv, ListingOK, Checked, Accepting, ExtractInv, ExtractOK, IsArchive
  <1>2. (n + 1) - 1 = n
    BY <1>1
  <1> HIDE DEF n
  <1>3. MadeOf(made, listing.caseless, L)
    BY <1>1, <1>2
  <1>4. InDirectory(archive)
    BY <1>1, PreflightFinds DEF CheckedAll, CheckedTo
  <1>5. Listed = L
    <2>1. Range(infolist(archive)) = {Info(archive, i) : i \in 1..n}
      BY <1>4, InfoFacts DEF n
    <2>2. Listed = UNION {ListedBy(archive, info) : info \in Range(infolist(archive))}
      BY DEF Listed, ListedBy
    <2> QED
      BY <2>1, <2>2 DEF ListedTo
  <1> HIDE DEF L
  <1>6. Restored = L
    BY <1>3 DEF Restored, MadeOf
  <1> QED
    BY <1>1, <1>4, <1>5, <1>6 DEF L, n

\* For any archive and any directory, whatever the file system tells apart: an archive that was
\* accepted is restored as it is listed, nothing in it is in the way of anything else in it, and
\* a directory that was packed is accepted and comes back as it was
\* (crypto_archive.py:58-106, 207-281, 352-447, 485-564).
THEOREM ArchiveRestoredAsListed == ArchiveSpec => []RestoredAsListed
  <1>1. ASSUME ListingInv, ExtractInv PROVE RestoredAsListed
    <2>1. Scanned(listing) /\ Packed(listing, archive)
      BY <1>1 DEF ListingInv, ListingOK
    <2>2. listing.phase # "stuck"
      BY <1>1 DEF ExtractInv, ExtractOK, Accepting
    <2>3. ASSUME listing.phase = "restored" PROVE Restored = Listed
      BY <1>1, <2>3, RestoredIsListed
    <2>4. ASSUME listing.source # {}, listing.found = listing.source, listing.phase = "restored"
          PROVE  Restored = {Entry_(NFC(e.path), e.dir, e.text) : e \in listing.source}
      <3>1. /\ IsSource(listing.source) /\ Inventoried(listing.source) /\ Wrote(archive, listing.source)
            /\ archive.end.count = Cardinality(listing.source)
        BY <2>1, <2>4 DEF Scanned, Packed
      <3>2. Restored = {EntryOf(c) : c \in listing.source}
        BY <1>1, <2>4, <3>1, RestoredIsListed, PackedLists
      <3> QED
        BY <3>2 DEF EntryOf
    <2> QED
      BY <2>1, <2>2, <2>3, <2>4 DEF Packed, RestoredAsListed
  <1> QED
    BY <1>1, ListingInvariant, PTL

-----------------------------------------------------------------------------
\* What Sequentially reads at position p, when g is what it reads behind p.
ReadAt(a, g, p) ==
    IF p = a.end.at + 1 THEN <<>>
    ELSE IF p > a.end.at \/ a.cells[p].is # "local" THEN <<Entry_(<<>>, FALSE, <<>>)>>
    ELSE IF p + 1 + a.cells[p].size \notin p + 1..a.end.at + 1 THEN <<Entry_(<<>>, FALSE, <<>>)>>
    ELSE <<Entry_(a.cells[p].path, a.cells[p].dir, SubSeq(a.cells, p + 1, (p + 1 + a.cells[p].size) - 1))>>
         \o g[p + 1 + a.cells[p].size]
Reads(a, g) == g = [p \in 1..Len(a.cells) + 1 |-> ReadAt(a, g, p)]
ReadsFrom(a, k, g) == g = [p \in k..Len(a.cells) + 1 |-> ReadAt(a, g, p)]

\* There is such a reading, as a record is read before what is behind it.
LEMMA ReadingExists ==
    ASSUME NEW a, Len(a.cells) \in Nat, a.end.at \in Nat, a.end.at <= Len(a.cells)
    PROVE  \E g : Reads(a, g)
  <1> DEFINE last == Len(a.cells) + 1
             lacking == {k \in Nat : k <= last /\ ~\E g : ReadsFrom(a, last + 1 - k, g)}
  <1>1. last \in Nat /\ last # 0 /\ a.end.at + 1 <= last
    OBVIOUS
  <1>2. SUFFICES ASSUME lacking # {} PROVE FALSE
    <2>1. ASSUME \A g : ~Reads(a, g) PROVE lacking # {}
      <3>1. last \in Nat /\ last <= last /\ last + 1 - last = 1
        BY <1>1
      <3>2. \A g : ~ReadsFrom(a, 1, g)
        BY <2>1 DEF Reads, ReadsFrom
      <3> HIDE DEF last
      <3>3. last \in lacking
        BY <3>1, <3>2
      <3> QED
        BY <3>3
    <2> QED
      BY <1>2, <2>1
  <1> HIDE DEF last
  <1>3. PICK k \in lacking : \A j \in lacking : k <= j
    BY <1>2, LeastPosition
  <1> DEFINE m == last + 1 - k
  <1>4. k \in Nat /\ k <= last /\ \A g : ~ReadsFrom(a, m, g)
    OBVIOUS
  <1>5. k # 0
    <2>1. ASSUME k = 0 PROVE FALSE
      <3>1. m..last = {}
        BY <1>1, <2>1
      <3> DEFINE g == [p \in {} |-> 0]
      <3> HIDE DEF m
      <3>2. g = [p \in m..last |-> ReadAt(a, g, p)]
        BY <3>1
      <3> HIDE DEF g
      <3> QED
        BY <1>4, <3>2 DEF ReadsFrom, last
    <2> QED
      BY <2>1
  <1>6. k - 1 \in Nat /\ k - 1 <= last /\ last + 1 - (k - 1) = m + 1 /\ ~(k <= k - 1) /\ m \in 1..last
    BY <1>1, <1>4, <1>5
  <1>7. PICK g : ReadsFrom(a, m + 1, g)
    <2>1. k - 1 \notin lacking
      BY <1>3, <1>6
    <2> HIDE DEF m
    <2> QED
      BY <1>6, <2>1
  <1> HIDE DEF lacking, m
  <1> DEFINE h == [p \in m..last |-> IF p = m THEN ReadAt(a, g, m) ELSE g[p]]
  <1>8. g = [p \in m + 1..last |-> ReadAt(a, g, p)]
    BY <1>7 DEF ReadsFrom, last
  <1>9. ASSUME NEW p \in m..last PROVE ReadAt(a, h, p) = ReadAt(a, g, p)
    <2> DEFINE next == p + 1 + a.cells[p].size
    <2>1. ASSUME next \in p + 1..a.end.at + 1 PROVE h[next] = g[next]
      <3> DEFINE x == next
                 e == a.end.at
      <3>1. x \in p + 1..e + 1 /\ p \in m..last /\ m \in 1..last /\ last \in Nat /\ e + 1 <= last /\ e \in Nat
        BY <1>1, <1>6, <2>1
      <3> HIDE DEF x, e, next
      <3>2. x \in m..last /\ x # m
        BY <3>1
      <3> HIDE DEF h
      <3>3. h[x] = g[x]
        BY <3>2 DEF h
      <3> QED
        BY <3>3 DEF x
    <2> HIDE DEF h
    <2> QED
      BY <2>1 DEF ReadAt
  <1>10. ASSUME NEW p \in m..last PROVE h[p] = ReadAt(a, g, p)
    <2>1. p = m \/ p \in m + 1..last
      BY <1>1, <1>6
    <2>2. h[p] = IF p = m THEN ReadAt(a, g, m) ELSE g[p]
      OBVIOUS
    <2> HIDE DEF h
    <2> QED
      BY <1>8, <2>1, <2>2
  <1>11. h = [p \in m..last |-> ReadAt(a, h, p)]
    <2>1. h = [p \in m..last |-> h[p]]
      OBVIOUS
    <2> HIDE DEF h
    <2> QED
      BY <1>9, <1>10, <2>1
  <1> HIDE DEF h
  <1> QED
    BY <1>4, <1>11 DEF ReadsFrom, last

\* So Sequentially is what is read at the first position.
LEMMA SequentiallyReads ==
    ASSUME NEW a, Len(a.cells) \in Nat, a.end.at \in Nat, a.end.at <= Len(a.cells)
    PROVE  \E g : Reads(a, g) /\ Sequentially(a) = g[1]
  <1> DEFINE g == CHOOSE g : g = [p \in 1..Len(a.cells) + 1 |-> ReadAt(a, g, p)]
  <1>1. Sequentially(a) = g[1]
    BY DEF Sequentially, ReadAt
  <1>2. \E f : f = [p \in 1..Len(a.cells) + 1 |-> ReadAt(a, f, p)]
    BY ReadingExists DEF Reads
  <1>3. g = [p \in 1..Len(a.cells) + 1 |-> ReadAt(a, g, p)]
    BY <1>2
  <1> HIDE DEF g
  <1> QED
    BY <1>1, <1>3 DEF Reads

\* The entry of the i-th record.
EntryAt(a, i) == Entry_(Info(a, i).path, Info(a, i).dir, Content(a, Info(a, i)))
Rest(a, i) == [j \in 1..a.end.count + 1 - i |-> EntryAt(a, i + j - 1)]

\* At the start of a record's entry, that entry is read, and what is behind it.
LEMMA ReadsEntry ==
    ASSUME NEW a, IsArchive(a), NEW paths, CheckedAll(a, paths), NEW g, Reads(a, g),
           NEW i \in 1..a.end.count
    PROVE  g[StartOf(a, i) + 1] = <<EntryAt(a, i)>> \o g[StartOf(a, i + 1) + 1]
  <1> DEFINE info == Info(a, i)
             at == info.at
             size == info.size
             end == a.end.at
             last == Len(a.cells) + 1
             p == at + 1
  <1>1. /\ info.at \in Nat /\ info.size \in Nat /\ info.at = StartOf(a, i)
        /\ LocalAgrees(a, info, info.at) /\ info.at + 1 + info.size <= a.end.at
    BY CheckedRecord
  <1>2. /\ a.end.at \in Nat /\ a.end.count \in Nat /\ a.end.at + a.end.count = Len(a.cells)
        /\ Len(a.cells) \in Nat
    BY CheckedRecord, InfoFacts
  <1>3. StartOf(a, i + 1) = Past(info, info.at)
    <2>1. i \in Nat \ {0}
      BY <1>2
    <2> QED
      BY <2>1, StartNext
  <1>4. /\ a.cells[p].is = "local" /\ a.cells[p].path = info.path /\ a.cells[p].dir = info.dir
        /\ a.cells[p].size = size
    <2> HIDE DEF info
    <2>1. /\ a.cells[p].is = "local" /\ a.cells[p]["path"] = info["path"]
          /\ a.cells[p]["dir"] = info["dir"] /\ a.cells[p]["size"] = info["size"]
      BY <1>1 DEF LocalAgrees
    <2> QED
      BY <2>1
  <1>5. end \in Nat /\ last \in Nat /\ end + 1 <= last /\ at \in Nat /\ size \in Nat /\ at + 1 + size <= end
    <2> DEFINE len == Len(a.cells)
               n == a.end.count
    <2>1. /\ end \in Nat /\ n \in Nat /\ len \in Nat /\ end + n = len /\ last = len + 1
          /\ at \in Nat /\ size \in Nat /\ at + 1 + size <= end
      BY <1>1, <1>2
    <2> HIDE DEF end, last, at, size, len, n
    <2> QED
      BY <2>1
  <1>6. StartOf(a, i) = at /\ StartOf(a, i + 1) = at + 1 + size
    BY <1>1, <1>3 DEF Past
  <1>7. Content(a, info) = SubSeq(a.cells, at + 2, at + 1 + size)
    BY DEF Content
  <1>8. EntryAt(a, i) = Entry_(info.path, info.dir, Content(a, info))
    BY DEF EntryAt
  <1>9. g = [q \in 1..last |-> ReadAt(a, g, q)]
    BY DEF Reads
  <1>10. \A q : ReadAt(a, g, q) =
            IF q = end + 1 THEN <<>>
            ELSE IF q > end \/ a.cells[q].is # "local" THEN <<Entry_(<<>>, FALSE, <<>>)>>
            ELSE IF q + 1 + a.cells[q].size \notin q + 1..end + 1 THEN <<Entry_(<<>>, FALSE, <<>>)>>
            ELSE <<Entry_(a.cells[q].path, a.cells[q].dir, SubSeq(a.cells, q + 1, (q + 1 + a.cells[q].size) - 1))>>
                 \o g[q + 1 + a.cells[q].size]
    BY DEF ReadAt
  <1> HIDE DEF info, at, size, end, last
  <1>11. /\ p \in 1..last /\ p # end + 1 /\ ~(p > end)
         /\ p + 1 + size \in p + 1..end + 1 /\ p + 1 = at + 2 /\ (p + 1 + size) - 1 = at + 1 + size
         /\ p + 1 + size = (at + 1 + size) + 1
    BY <1>5
  <1>12. g[p] = ReadAt(a, g, p)
    BY <1>9, <1>11
  <1> HIDE DEF p
  <1>13. ReadAt(a, g, p) =
            <<Entry_(a.cells[p].path, a.cells[p].dir, SubSeq(a.cells, p + 1, (p + 1 + a.cells[p].size) - 1))>>
            \o g[p + 1 + a.cells[p].size]
    BY <1>4, <1>10, <1>11
  <1>14. SubSeq(a.cells, p + 1, (p + 1 + a.cells[p].size) - 1) = Content(a, info)
    BY <1>4, <1>7, <1>11
  <1>15. g[p] = <<EntryAt(a, i)>> \o g[p + 1 + size]
    BY <1>4, <1>8, <1>12, <1>13, <1>14
  <1>16. StartOf(a, i) + 1 = p /\ StartOf(a, i + 1) + 1 = p + 1 + size
    BY <1>6, <1>11 DEF p
  <1> QED
    BY <1>15, <1>16

\* From the start of any record's entry, what is read are the entries from there on.
LEMMA ReadsRest ==
    ASSUME NEW a, IsArchive(a), NEW paths, CheckedAll(a, paths), NEW g, Reads(a, g),
           NEW i \in 1..a.end.count + 1
    PROVE  g[StartOf(a, i) + 1] = Rest(a, i)
  <1> DEFINE n == a.end.count
             Right(k) == g[StartOf(a, k) + 1] = Rest(a, k)
             wrong == {k \in Nat : k <= n /\ ~Right(n + 1 - k)}
  <1>1. /\ n \in Nat /\ InDirectory(a) /\ a.end.at \in Nat /\ Len(a.cells) \in Nat /\ a.end.at + n = Len(a.cells)
    BY PreflightFinds, InfoFacts DEF CheckedAll, CheckedTo
  <1>2. SUFFICES ASSUME wrong # {} PROVE FALSE
    <2>1. ASSUME ~Right(i) PROVE wrong # {}
      <3>1. n + 1 - i \in Nat /\ n + 1 - i <= n /\ n + 1 - (n + 1 - i) = i
        <4>1. n \in Nat /\ i \in 1..n + 1
          BY <1>1
        <4> HIDE DEF n
        <4> QED
          BY <4>1
      <3> HIDE DEF n, Right
      <3>2. n + 1 - i \in wrong
        BY <2>1, <3>1
      <3> QED
        BY <3>2
    <2> QED
      BY <1>2, <2>1
  <1> HIDE DEF Right
  <1>3. PICK k \in wrong : \A j \in wrong : k <= j
    BY <1>2, LeastPosition
  <1> DEFINE m == n + 1 - k
  <1>4. k \in Nat /\ k <= n /\ ~Right(m)
    OBVIOUS
  <1>5. CASE k = 0
    <2>1. m = n + 1 /\ n + 1 - m = 0 /\ 1..0 = {}
      BY <1>1, <1>5
    <2>2. StartOf(a, n + 1) = a.end.at
      BY DEF CheckedAll
    <2>3. g[a.end.at + 1] = <<>>
      <3> DEFINE e == a.end.at
                 l == Len(a.cells)
      <3>1. e \in Nat /\ n \in Nat /\ l \in Nat /\ e + n = l
        BY <1>1
      <3>2. g = [q \in 1..l + 1 |-> ReadAt(a, g, q)] /\ ReadAt(a, g, e + 1) = <<>>
        BY DEF Reads, ReadAt
      <3> HIDE DEF e, l, n
      <3>3. e + 1 \in 1..l + 1
        BY <3>1
      <3>4. g[e + 1] = <<>>
        BY <3>2, <3>3
      <3> QED
        BY <3>4 DEF e
    <2> HIDE DEF n, m
    <2>4. Rest(a, m) = [j \in {} |-> EntryAt(a, m + j - 1)]
      BY <2>1 DEF Rest, n
    <2>5. [j \in {} |-> EntryAt(a, m + j - 1)] = <<>>
      <3>1. <<>> = [j \in 1..0 |-> <<>>[j]]
        BY SeqEmpty, SeqFacts
      <3> QED
        BY <2>1, <3>1
    <2> QED
      BY <1>4, <2>1, <2>2, <2>3, <2>4, <2>5 DEF Right
  <1>6. CASE k # 0
    <2>1. /\ k - 1 \in Nat /\ k - 1 <= n /\ n + 1 - (k - 1) = m + 1 /\ ~(k <= k - 1) /\ m \in 1..n
          /\ n + 1 - m \in Nat /\ n + 1 - (m + 1) \in Nat /\ n + 1 - m = 1 + (n + 1 - (m + 1))
      <3>1. n \in Nat /\ k \in Nat /\ k <= n /\ k # 0
        BY <1>1, <1>4, <1>6
      <3> HIDE DEF n, wrong
      <3> QED
        BY <3>1
    <2>2. Right(m + 1)
      <3>1. k - 1 \notin wrong
        BY <1>3, <2>1
      <3> HIDE DEF m
      <3> QED
        BY <2>1, <3>1
    <2>3. g[StartOf(a, m) + 1] = <<EntryAt(a, m)>> \o g[StartOf(a, m + 1) + 1]
      BY <2>1, ReadsEntry
    <2> HIDE DEF m, wrong
    <2> DEFINE s == <<EntryAt(a, m)>>
               t == Rest(a, m + 1)
               u == Rest(a, m)
               c == n + 1 - (m + 1)
    <2>4. g[StartOf(a, m) + 1] = s \o t
      BY <2>2, <2>3 DEF Right
    <2>5. IsSequence(s) /\ Len(s) = 1 /\ s[1] = EntryAt(a, m)
      BY SeqSingle
    <2>6. IsSequence(t) /\ Len(t) = c /\ \A j \in 1..c : t[j] = EntryAt(a, (m + 1) + j - 1)
      <3>1. t = [j \in 1..c |-> EntryAt(a, (m + 1) + j - 1)] /\ c \in Nat
        BY <2>1 DEF Rest
      <3> HIDE DEF t, c
      <3>2. t = [j \in 1..c |-> t[j]]
        BY <3>1
      <3> QED
        BY <3>1, <3>2, SeqMade
    <2>7. IsSequence(u) /\ Len(u) = 1 + c /\ \A j \in 1..1 + c : u[j] = EntryAt(a, m + j - 1)
      <3>1. u = [j \in 1..1 + c |-> EntryAt(a, m + j - 1)] /\ 1 + c \in Nat
        BY <2>1 DEF Rest
      <3> HIDE DEF u, c
      <3>2. u = [j \in 1..1 + c |-> u[j]]
        BY <3>1
      <3> QED
        BY <3>1, <3>2, SeqMade
    <2>8. c \in Nat /\ m \in Nat
      BY <1>1, <2>1
    <2> HIDE DEF s, t, u, c
    <2>9. /\ IsSequence(s \o t) /\ Len(s \o t) = 1 + c /\ (s \o t)[1] = s[1]
          /\ \A j \in 1..c : (s \o t)[1 + j] = t[j]
      <3>1. /\ IsSequence(s \o t) /\ Len(s \o t) = Len(s) + Len(t)
            /\ (\A j \in 1..Len(s) : (s \o t)[j] = s[j])
            /\ \A j \in 1..Len(t) : (s \o t)[Len(s) + j] = t[j]
        <4>1. IsSequence(s) /\ IsSequence(t)
          BY <2>5, <2>6
        <4> QED
          BY ONLY <4>1, SeqJoined
      <3>2. 1 \in 1..Len(s)
        BY <2>5
      <3> QED
        BY <2>5, <2>6, <3>1, <3>2
    <2> DEFINE v == s \o t
    <2>10. ASSUME NEW j \in 1..1 + c PROVE v[j] = u[j]
      <3>1. CASE j = 1
        <4>1. m + j - 1 = m
          BY <2>8, <3>1
        <4> HIDE DEF v
        <4> QED
          BY <2>5, <2>7, <2>9, <3>1, <4>1 DEF v
      <3>2. CASE j # 1
        <4> DEFINE q == j - 1
        <4>1. q \in 1..c /\ j = 1 + q /\ (m + 1) + q - 1 = m + j - 1
          BY <2>8, <3>2
        <4> HIDE DEF q
        <4>2. v[1 + q] = t[q] /\ t[q] = EntryAt(a, (m + 1) + q - 1)
          BY <2>6, <2>9, <4>1
        <4> HIDE DEF v
        <4>3. u[j] = EntryAt(a, m + j - 1)
          BY <2>7
        <4> QED
          BY <4>1, <4>2, <4>3
      <3> QED
        BY <3>1, <3>2
    <2>11. IsSequence(v) /\ Len(v) = 1 + c
      BY <2>9
    <2> HIDE DEF v
    <2>12. v = u
      BY <2>7, <2>10, <2>11, SeqSame
    <2> QED
      BY <1>4, <2>4, <2>12 DEF Right, u, v
  <1> QED
    BY <1>5, <1>6

\* For any archive: one that was accepted has one reading.  Its records read in sequence and by
\* the directory at its end are the same entries, and no byte of it is outside of them
\* (crypto_archive.py:284-349, 352-447).
THEOREM ArchiveOneReading == ArchiveSpec => []OneReading
  <1>1. ASSUME ListingInv, Accepted PROVE OneReading
    <2> DEFINE a == archive
               n == archive.end.count
    <2>1. IsArchive(a) /\ CheckedAll(a, listing.paths)
      BY <1>1 DEF ListingInv, ListingOK, Checked, Accepted, Accepting
    <2>2. /\ n \in Nat /\ InDirectory(a) /\ a.end.at \in Nat /\ Len(a.cells) \in Nat /\ a.end.at <= Len(a.cells)
          /\ \A i \in 1..n : infolist(a)[i] = Info(a, i)
      <3>1. InDirectory(a)
        BY <2>1, PreflightFinds DEF CheckedAll, CheckedTo
      <3>2. /\ n \in Nat /\ a.end.at \in Nat /\ Len(a.cells) \in Nat /\ a.end.at + n = Len(a.cells)
            /\ \A i \in 1..n : infolist(a)[i] = Info(a, i)
        BY <3>1, InfoFacts
      <3>3. a.end.at <= Len(a.cells)
        <4> DEFINE e == a.end.at
                   l == Len(a.cells)
        <4>1. n \in Nat /\ e \in Nat /\ l \in Nat /\ e + n = l
          BY <3>2
        <4> HIDE DEF n, e, l
        <4>2. e <= l
          BY <4>1
        <4> QED
          BY <4>2 DEF e, l
      <3> QED
        BY <3>1, <3>2, <3>3
    <2> HIDE DEF a
    <2>3. PICK g : Reads(a, g) /\ Sequentially(a) = g[1]
      BY <2>2, SequentiallyReads
    <2>4. g[1] = Rest(a, 1)
      <3>1. StartOf(a, 1) + 1 = 1
        BY DEF StartOf
      <3>2. 1 \in 1..n + 1 /\ n = a.end.count
        BY <2>2 DEF a
      <3>3. g[StartOf(a, 1) + 1] = Rest(a, 1)
        BY <2>1, <2>3, <3>2, ReadsRest
      <3> QED
        BY <3>1, <3>3
    <2>5. Rest(a, 1) = [i \in 1..n |-> EntryAt(a, i)]
      <3>1. a.end.count = n /\ n \in Nat
        BY <2>2 DEF a
      <3> HIDE DEF n
      <3>2. n + 1 - 1 = n /\ \A j \in 1..n : 1 + j - 1 = j
        BY <3>1
      <3> QED
        BY <3>1, <3>2 DEF Rest
    <2>6. [i \in 1..n |-> EntryAt(a, i)] =
          [i \in 1..n |-> LET info == infolist(a)[i] IN Entry_(info.path, info.dir, Content(a, info))]
      BY <2>2 DEF EntryAt
    <2> QED
      BY <2>3, <2>4, <2>5, <2>6 DEF OneReading, a
  <1> QED
    BY <1>1, ListingInvariant, PTL DEF OneReading
=============================================================================
