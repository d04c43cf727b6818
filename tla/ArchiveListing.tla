---------------------------- MODULE ArchiveListing ----------------------------
(***************************************************************************)
(* What an archive lists (crypto_archive.py): which names a backup takes   *)
(* over from a directory, which archives are accepted, and what restoring  *)
(* an accepted one makes on a file system that may not tell upper from     *)
(* lower case.                                                             *)
(*                                                                         *)
(* A name is [key, form]: names with one key differ only in their form,    *)
(* "plain", "upper" (case), "decomposed" (Unicode) or "reserved" (refused: *)
(* a device name, "..", too long, ...).  A path is a sequence of names.    *)
(*                                                                         *)
(* An archive is a sequence of cells, each one record of a ZIP file or a   *)
(* unit of content, and its end record; the offset of a cell is what comes *)
(* before it.  Content may look like a record.  A checksum is the content. *)
(* Definitions that no other one uses are faulty forms of the one after    *)
(* them.                                                                   *)
(***************************************************************************)
EXTENDS Naturals, Sequences, SequencesExt, FiniteSets

CONSTANTS
    Sources,            \* directories to back up: sets of [path, dir, text]
    Archives,           \* archives from elsewhere: [cells, end]
    MAX_ARCHIVE_ENTRIES, MAX_ARCHIVE_DEPTH

IsSequence(s) == s \in Seq(Range(s))

\* A directory to back up: its names are records, everything is in a directory of it.
IsSource(s) ==
    /\ IsFiniteSet(s)
    /\ \A e \in s :
          /\ e = [path |-> e.path, dir |-> e.dir, text |-> e.text]
          /\ IsSequence(e.path) /\ e.path # <<>> /\ e.dir \in BOOLEAN
          /\ IsSequence(e.text) /\ (e.dir => e.text = <<>>)
          /\ \A i \in DOMAIN e.path : e.path[i] = [key |-> e.path[i].key, form |-> e.path[i].form]
          /\ Len(e.path) = 1 \/ [path |-> Front(e.path), dir |-> TRUE, text |-> <<>>] \in s

\* The fields of ZIP records are unsigned numbers, names and flags.
IsArchive(a) ==
    /\ IsSequence(a.cells)
    /\ a.end.count \in Nat /\ a.end.size \in Nat /\ a.end.at \in Nat
    /\ \A i \in DOMAIN a.cells : i > a.end.at /\ a.cells[i].is = "central" =>
          /\ IsSequence(a.cells[i].path) /\ a.cells[i].dir \in BOOLEAN
          /\ a.cells[i].size \in Nat /\ a.cells[i].at \in Nat

ASSUME ListingAssumption ==
    /\ MAX_ARCHIVE_ENTRIES \in Nat /\ MAX_ARCHIVE_DEPTH \in Nat
    /\ (\A s \in Sources : IsSource(s)) /\ \A a \in Archives : IsArchive(a)

VARIABLES
    archive,    \* the archive that is made or read
    listing,    \* the operation: phase, source, found, next, offset, paths
    made        \* the files restored, by what the file system tells apart

listingVars == <<archive, listing, made>>

-----------------------------------------------------------------------------
\* Names.  _portable_name, which also brings a backup's names into canonical form.
NFC(path) == [i \in DOMAIN path |-> IF path[i].form = "decomposed" THEN [path[i] EXCEPT !.form = "plain"]
                                     ELSE path[i]]
Portable(path) ==
    /\ Len(path) \in 1..MAX_ARCHIVE_DEPTH
    /\ \A i \in DOMAIN path : path[i].form # "reserved"
Canonical(path) == NFC(path) = path

casefold(path) == [i \in DOMAIN path |-> path[i].key]
PrefixesOf(path) == {SubSeq(path, 1, i) : i \in 1..Len(path)}

\* _register_path: paths[key] is the name, whether it is a directory, and whether it was
\* listed itself or only as a parent of something listed.
PathRecord(prefix, path, dir) ==
    [name |-> prefix, dir |-> dir \/ prefix # path, explicit |-> prefix = path]
CollidesExactly(old, new) ==
    old.name = new.name /\ (old.dir # new.dir \/ (old.explicit /\ new.explicit))
Collides(old, new) ==
    old.name # new.name \/ old.dir # new.dir \/ (old.explicit /\ new.explicit)

Registered(paths, path, dir) ==
    LET new == {PathRecord(p, path, dir) : p \in PrefixesOf(path)}
        at(key) == CHOOSE r \in new : casefold(r.name) = key
        had(key) == key \in DOMAIN paths /\ paths[key].explicit
        keys == {casefold(r.name) : r \in new}
    IN [key \in DOMAIN paths \cup keys |->
          IF key \in keys THEN [at(key) EXCEPT !.explicit = @ \/ had(key)] ELSE paths[key]]

Registers(paths, path, dir) ==
    /\ \A p \in PrefixesOf(path) :
          casefold(p) \in DOMAIN paths => ~Collides(paths[casefold(p)], PathRecord(p, path, dir))
    /\ Cardinality(DOMAIN Registered(paths, path, dir)) <= MAX_ARCHIVE_ENTRIES

-----------------------------------------------------------------------------
\* Records of a ZIP file.  plain: stored, without flags, extras, comments and the like.
Entry_(path, dir, content) == [path |-> path, dir |-> dir, text |-> content]
Local(e) ==
    [is |-> "local", path |-> e.path, dir |-> e.dir, size |-> Len(e.text), crc |-> e.text, plain |-> TRUE]
Central(e, at) ==
    [is |-> "central", path |-> e.path, dir |-> e.dir, size |-> Len(e.text), crc |-> e.text,
     plain |-> TRUE, at |-> at]

NoArchive == [cells |-> <<>>, end |-> [count |-> 0, size |-> 0, at |-> 0, plain |-> TRUE]]
infolist(a) == SubSeq(a.cells, a.end.at + 1, Len(a.cells))

\* ZipFile writes one more entry.  The directory, which it writes when it is closed, is kept at the end.
Added(a, e) ==
    [cells |-> SubSeq(a.cells, 1, a.end.at) \o <<Local(e)>> \o e.text
               \o infolist(a) \o <<Central(e, a.end.at)>>,
     end |-> [count |-> a.end.count + 1, size |-> a.end.count + 1,
              at |-> a.end.at + 1 + Len(e.text), plain |-> TRUE]]

\* _preflight_directory
Preflight(a) ==
    /\ a.end.plain
    /\ a.end.count <= MAX_ARCHIVE_ENTRIES
    /\ a.end.at + a.end.size = Len(a.cells)
    /\ \A i \in a.end.at + 1..Len(a.cells) : a.cells[i].is = "central"
    /\ a.end.size = a.end.count

\* One entry of _validated_archive, whose local record must come next.
Supported(info) == info.plain /\ (info.dir => info.size = 0)
LocalAgrees(a, info, offset) ==
    /\ offset < Len(a.cells) /\ a.cells[offset + 1].is = "local"
    /\ \A field \in {"path", "dir", "size", "crc", "plain"} : a.cells[offset + 1][field] = info[field]
Past(info, offset) == offset + 1 + info.size

EntryValid(a, info, offset, paths) ==
    /\ Portable(info.path) /\ Canonical(info.path)
    /\ Registers(paths, info.path, info.dir)
    /\ Supported(info)
    /\ info.at = offset
    /\ LocalAgrees(a, info, offset)
    /\ Past(info, offset) <= a.end.at

EndsAnywhere(a, offset) == TRUE
EndsAtDirectory(a, offset) == offset = a.end.at

\* ZipFile.open and reading to the end: the content under the record the entry names.
Content(a, info) == SubSeq(a.cells, info.at + 2, info.at + 1 + info.size)

-----------------------------------------------------------------------------
Begins(phase, source) ==
    [phase |-> phase, source |-> source, found |-> {}, next |-> 1, offset |-> 0, paths |-> <<>>,
     caseless |-> FALSE]

ListingInit ==
    /\ made = <<>>
    /\ \/ archive = NoArchive /\ \E s \in Sources : listing = Begins("scan", s)
       \/ archive \in Archives /\ listing = Begins("preflight", {})
NoListing == made = <<>> /\ archive = NoArchive /\ listing = Begins("off", {})

Phase(from, to) == listing.phase = from /\ listing' = [listing EXCEPT !.phase = to]
Refuses == listing' = [listing EXCEPT !.phase = "refused"]

\* _inventory looks at a child of a directory it is in.
Scan(child) ==
    /\ listing.phase = "scan"
    /\ child \notin listing.found
    /\ Len(child.path) > 1 => \E d \in listing.found : d.path = Front(child.path)
    /\ LET name == NFC(child.path)
       IN IF Portable(name) /\ Registers(listing.paths, name, child.dir)
          THEN listing' = [listing EXCEPT !.found = @ \cup {child},
                                          !.paths = Registered(@, name, child.dir)]
          ELSE Refuses
    /\ UNCHANGED <<archive, made>>

\* pack_directory writes what was found sorted by name, so a directory before what is in it.
Write(child) ==
    /\ listing.phase = "scan" /\ listing.found = listing.source
    /\ LET name == NFC(child.path)
           there == {info.path : info \in Range(infolist(archive))}
       IN /\ name \notin there /\ (Len(name) > 1 => Front(name) \in there)
          /\ archive' = Added(archive, Entry_(name, child.dir, child.text))
    /\ UNCHANGED <<listing, made>>

Written ==
    /\ listing.phase = "scan" /\ archive.end.count = Cardinality(listing.source)
    /\ listing.found = listing.source
    /\ listing' = [listing EXCEPT !.phase = "preflight", !.paths = <<>>]
    /\ UNCHANGED <<archive, made>>

CheckDirectoryRecords ==
    /\ listing.phase = "preflight"
    /\ IF Preflight(archive) THEN Phase("preflight", "entries") ELSE Refuses
    /\ UNCHANGED <<archive, made>>

CheckEntry ==
    /\ listing.phase = "entries" /\ listing.next <= archive.end.count
    /\ LET info == infolist(archive)[listing.next]
       IN IF EntryValid(archive, info, listing.offset, listing.paths)
          THEN listing' = [listing EXCEPT !.next = @ + 1, !.offset = Past(info, @),
                                          !.paths = Registered(@, info.path, info.dir)]
          ELSE Refuses
    /\ UNCHANGED <<archive, made>>

\* No data is left over, and every checksum holds; then nothing refuses the archive any more.
CheckContents ==
    /\ listing.phase = "entries" /\ listing.next > archive.end.count
    /\ IF /\ EndsAtDirectory(archive, listing.offset)
          /\ \A i \in 1..archive.end.count :
                LET info == infolist(archive)[i] IN Content(archive, info) = info.crc
       THEN \E caseless \in BOOLEAN :
               listing' = [listing EXCEPT !.phase = "extract", !.next = 1, !.caseless = caseless]
       ELSE Refuses
    /\ UNCHANGED <<archive, made>>

\* extract_archive makes the directories an entry is in, unless they are there, and then
\* the entry, which as a file must be new.
Key(path) == IF listing.caseless THEN casefold(path) ELSE path
Directories(info) == {p \in PrefixesOf(info.path) : p # info.path \/ info.dir}
InTheWay(info) ==
    \/ \E p \in Directories(info) : Key(p) \in DOMAIN made /\ ~made[Key(p)].dir
    \/ ~info.dir /\ Key(info.path) \in DOMAIN made

Extract ==
    /\ listing.phase = "extract" /\ listing.next <= archive.end.count
    /\ LET info == infolist(archive)[listing.next]
           new == {Entry_(p, TRUE, <<>>) : p \in Directories(info)}
                  \cup {Entry_(p, FALSE, Content(archive, info)) : p \in {info.path} \ Directories(info)}
           at(key) == CHOOSE e \in new : Key(e.path) = key
       IN IF InTheWay(info)
          THEN Phase("extract", "stuck") /\ UNCHANGED made
          ELSE /\ made' = [key \in DOMAIN made \cup {Key(e.path) : e \in new} |->
                             IF key \in DOMAIN made THEN made[key] ELSE at(key)]
               /\ listing' = [listing EXCEPT !.next = @ + 1]
    /\ UNCHANGED archive

Extracted ==
    /\ listing.next > archive.end.count /\ Phase("extract", "restored")
    /\ UNCHANGED <<archive, made>>

ListingNext ==
    \/ \E child \in listing.source : Scan(child) \/ Write(child)
    \/ Written \/ CheckDirectoryRecords \/ CheckEntry \/ CheckContents \/ Extract \/ Extracted

-----------------------------------------------------------------------------
Accepted == listing.phase \in {"extract", "stuck", "restored"}

\* What the directory's records list, with the directories they imply.
Listed ==
    UNION {{Entry_(info.path, info.dir, Content(archive, info))}
           \cup {Entry_(p, TRUE, <<>>) : p \in PrefixesOf(info.path) \ {info.path}} :
              info \in Range(infolist(archive))}
Restored == {made[key] : key \in DOMAIN made}

\* An archive that was accepted is restored as it is listed, whatever the file system
\* tells apart: no file takes another's place or fails to be made.  A directory that was
\* packed is accepted, and comes back as it was, under canonical names
\* (_register_path, _validated_archive, extract_archive).
RestoredAsListed ==
    /\ listing.phase # "stuck"
    /\ listing.phase = "restored" => Restored = Listed
    /\ listing.source # {} /\ listing.found = listing.source =>
         /\ listing.phase # "refused"
         /\ listing.phase = "restored" =>
               Restored = {Entry_(NFC(e.path), e.dir, e.text) : e \in listing.source}

\* Reading an archive from its start, record after record, without its directory.
Sequentially(a) ==
    LET entries[p \in 1..Len(a.cells) + 1] ==
            IF p = a.end.at + 1 THEN <<>>
            ELSE IF p > a.end.at \/ a.cells[p].is # "local" THEN <<Entry_(<<>>, FALSE, <<>>)>>
            ELSE LET next == p + 1 + a.cells[p].size
                 IN IF next \notin p + 1..a.end.at + 1 THEN <<Entry_(<<>>, FALSE, <<>>)>>
                    ELSE <<Entry_(a.cells[p].path, a.cells[p].dir, SubSeq(a.cells, p + 1, next - 1))>>
                         \o entries[next]
    IN entries[1]

\* An archive that was accepted has one reading: its records read in sequence and by the
\* directory at its end are the same entries, and no byte of it is outside of them
\* (_preflight_directory, _validated_archive).
OneReading ==
    Accepted =>
        Sequentially(archive) =
            [i \in 1..archive.end.count |->
                LET info == infolist(archive)[i] IN Entry_(info.path, info.dir, Content(archive, info))]
=============================================================================
