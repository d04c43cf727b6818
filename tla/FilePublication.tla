--------------------------- MODULE FilePublication ---------------------------
(***************************************************************************)
(* How the command line (src/pqc_agent_tools.py) puts its results under    *)
(* their names, while other commands do the same, a command is killed or   *)
(* the power fails.                                                        *)
(*                                                                         *)
(* A stream command (encryption, decryption, key maintenance, backup) goes *)
(* through _atomic_write_stream and has one output.  generate-keys writes  *)
(* the public and then the private file through _atomic_write_file: with   *)
(* --overwrite through _replace_file_atomically, without it straight under *)
(* the new name, through _write_new_file_exclusive.                        *)
(*                                                                         *)
(* Each system call is one step.  A file is named for the command that     *)
(* writes it and the output it is meant for; <<NoProc, t>> is the file     *)
(* that was at t before.  Definitions that no action uses are faulty forms *)
(* of the one after them.                                                  *)
(***************************************************************************)
EXTENDS Naturals, Sequences

CONSTANTS
    Proc,               \* commands; each runs once, and has one temporary name
    NoProc,
    Public, Private,    \* the names of outputs: of a key pair, or of any result
    NoFile              \* what a name that is free is bound to

Target == {Public, Private}

ASSUME PublicationAssumption ==
    /\ NoProc \notin Proc
    /\ Public # Private
    /\ Proc \cap Target = {}
    /\ NoFile \notin (Proc \cup {NoProc}) \X Target

VARIABLES
    cmd,        \* cmd[p]: what p was asked to do
    pc,         \* pc[p]: the system call p is about to make
    out,        \* out[p]: which of its outputs p is at
    result,     \* result[p]: the outcome p reports or is about to report
    dir,        \* dir[n]: the file n is bound to
    disk,       \* disk[n]: the bindings of n a power failure may leave
    data,       \* data[f]: how much of f has been written
    synced,     \* the files that fsync has written to the disk
    powered     \* there was no power failure

procVars == <<cmd, pc, out, result>>
fileVars == <<dir, disk, data, synced>>
pubVars == <<procVars, fileVars, powered>>

File == (Proc \cup {NoProc}) \X Target
Name == Target \cup Proc
Command == [stream : BOOLEAN, overwrite : BOOLEAN,
            outs : {<<Public>>, <<Private>>, <<Public, Private>>}]

Running == {"create", "write", "sync", "publish", "dirsync", "cleanup"}

PubTypeOK ==
    /\ cmd \in [Proc -> Command]
    /\ pc \in [Proc -> Running \cup {"idle", "ended", "dead"}]
    /\ out \in [Proc -> 1..2]
    /\ \A p \in Proc : out[p] <= Len(cmd[p].outs)
    /\ result \in [Proc -> {"none", "success", "exists", "failed", "durability"}]
    /\ dir \in [Name -> File \cup {NoFile}]
    /\ disk \in [Name -> SUBSET (File \cup {NoFile})]
    /\ data \in [File -> {"none", "partial", "whole"}]
    /\ synced \subseteq File
    /\ powered \in BOOLEAN

\* The commands a user gives: a stream has one output, generate-keys both.
Asked == {c \in Command : c.stream <=> c.outs # <<Public, Private>>}

PubInit ==
    /\ cmd \in [Proc -> Asked]
    /\ pc = [p \in Proc |-> "idle"]
    /\ out = [p \in Proc |-> 1]
    /\ result = [p \in Proc |-> "none"]
    /\ \E there \in SUBSET Target :
          /\ dir = [n \in Name |-> IF n \in there THEN <<NoProc, n>> ELSE NoFile]
          /\ synced = {<<NoProc, t>> : t \in there}
    /\ disk = [n \in Name |-> {dir[n]}]
    /\ data = [f \in File |-> IF f \in synced THEN "whole" ELSE "none"]
    /\ powered = TRUE

-----------------------------------------------------------------------------
Outputs(p) == {cmd[p].outs[i] : i \in 1..Len(cmd[p].outs)}
Goal(p) == cmd[p].outs[out[p]]
Made(p) == <<p, Goal(p)>>

\* p writes under a temporary name first.
Staged(p) == cmd[p].stream \/ cmd[p].overwrite

Goes(p, step) == pc' = [pc EXCEPT ![p] = step] /\ UNCHANGED <<cmd, out, result>>
Ends(p, step, outcome) ==
    /\ pc' = [pc EXCEPT ![p] = step]
    /\ result' = [result EXCEPT ![p] = outcome]
    /\ UNCHANGED <<cmd, out>>

\* The names are bound anew; what the disk holds of it is open until a sync.
Bindings(d) ==
    /\ dir' = d
    /\ disk' = [n \in Name |-> disk[n] \cup {d[n]}]

Taken(p) == ~cmd[p].overwrite /\ dir[Goal(p)] # NoFile

\* The handler resolves its output paths before it does any work.
Begin(p) ==
    /\ pc[p] = "idle"
    /\ IF ~cmd[p].overwrite /\ \E t \in Outputs(p) : dir[t] # NoFile
         THEN Ends(p, "ended", "exists")
         ELSE Goes(p, "create")
    /\ UNCHANGED fileVars

\* Resolves the path again, and opens the output or a temporary file with O_EXCL.
Create(p) ==
    /\ pc[p] = "create"
    /\ ~Taken(p)
    /\ Goes(p, "write")
    /\ Bindings([dir EXCEPT ![IF Staged(p) THEN p ELSE Goal(p)] = Made(p)])
    /\ data' = [data EXCEPT ![Made(p)] = "partial"]
    /\ UNCHANGED synced

Refuse(p) ==
    /\ pc[p] = "create"
    /\ Taken(p)
    /\ Ends(p, "ended", "exists")
    /\ UNCHANGED fileVars

Write(p) ==
    /\ pc[p] = "write"
    /\ Goes(p, "sync")
    /\ data' = [data EXCEPT ![Made(p)] = "whole"]
    /\ UNCHANGED <<dir, disk, synced>>

Synced(p) == Goes(p, IF Staged(p) THEN "publish" ELSE "dirsync")

SyncSkipped(p) == pc[p] = "sync" /\ Synced(p) /\ UNCHANGED fileVars
Sync(p) ==
    /\ pc[p] = "sync"
    /\ Synced(p)
    /\ synced' = synced \cup {Made(p)}
    /\ UNCHANGED <<dir, disk, data>>

\* os.replace, or os.link, which never takes a name that is bound.
PublishOver(p) ==
    /\ pc[p] = "publish"
    /\ Goes(p, "dirsync")
    /\ Bindings([dir EXCEPT ![Goal(p)] = Made(p), ![p] = NoFile])
    /\ UNCHANGED <<data, synced>>
Publish(p) ==
    /\ pc[p] = "publish"
    /\ ~Taken(p)
    /\ Goes(p, "dirsync")
    /\ Bindings([dir EXCEPT ![Goal(p)] = Made(p),
                            ![p] = IF cmd[p].overwrite THEN NoFile ELSE @])
    /\ UNCHANGED <<data, synced>>

Collide(p) ==
    /\ pc[p] = "publish"
    /\ Taken(p)
    /\ Ends(p, "cleanup", "exists")
    /\ UNCHANGED fileVars

DirSyncSkipped(p) ==
    /\ pc[p] = "dirsync"
    /\ Ends(p, "cleanup", "success")
    /\ UNCHANGED fileVars
DirSync(p) ==
    /\ pc[p] = "dirsync"
    /\ Ends(p, "cleanup", "success")
    /\ disk' = [n \in Name |-> IF n \in {p, Goal(p)} THEN {dir[n]} ELSE disk[n]]
    /\ UNCHANGED <<dir, data, synced>>

\* A system call fails.  Only a stream command tells a publication that could not be
\* made durable from one that did not happen.
Fail(p) ==
    /\ pc[p] \in Running \ {"cleanup"}
    /\ Ends(p, IF pc[p] = "create" THEN "ended" ELSE "cleanup",
               IF pc[p] = "dirsync" /\ cmd[p].stream THEN "durability" ELSE "failed")
    /\ UNCHANGED fileVars

\* The user interrupts the command: a file under its own name stays as it is.
Interrupt(p) ==
    /\ pc[p] \in Running \ {"cleanup"}
    /\ Ends(p, IF Staged(p) /\ pc[p] # "create" THEN "cleanup" ELSE "ended", "failed")
    /\ UNCHANGED fileVars

\* What p unlinks in the end, by name: its temporary file, or its new file when the
\* command failed.
UnlinksAfterFailure(p) ==
    IF result[p] = "success" THEN {} ELSE {IF Staged(p) THEN p ELSE Goal(p)}
Unlinks(p) ==
    IF Staged(p) THEN {p} ELSE IF result[p] = "success" THEN {} ELSE {Goal(p)}

\* p goes on to its next output.
GoesOnAnyway(p) == out[p] < Len(cmd[p].outs)
GoesOn(p) == result[p] = "success" /\ out[p] < Len(cmd[p].outs)

Cleanup(p) ==
    /\ pc[p] = "cleanup"
    /\ Bindings([n \in Name |-> IF n \in Unlinks(p) THEN NoFile ELSE dir[n]])
    /\ IF GoesOn(p)
         THEN /\ pc' = [pc EXCEPT ![p] = "create"]
              /\ out' = [out EXCEPT ![p] = @ + 1]
              /\ result' = [result EXCEPT ![p] = "none"]
              /\ UNCHANGED cmd
         ELSE Goes(p, "ended")
    /\ UNCHANGED <<data, synced>>

CleanupFails(p) ==
    /\ pc[p] = "cleanup"
    /\ \E n \in Unlinks(p) : dir[n] # NoFile
    /\ Ends(p, "ended", "failed")
    /\ UNCHANGED fileVars

-----------------------------------------------------------------------------
Kill(p) ==
    /\ pc[p] \in Running
    /\ Goes(p, "dead")
    /\ UNCHANGED fileVars

\* Every command stops, each name keeps one of the bindings it had since its directory
\* was last synced, and what no fsync has written may be lost.
PowerFailure ==
    /\ powered
    /\ powered' = FALSE
    /\ pc' = [p \in Proc |-> IF pc[p] = "ended" THEN "ended" ELSE "dead"]
    /\ dir' \in {d \in [Name -> UNION {disk[n] : n \in Name}] :
                    \A n \in Name : d[n] \in disk[n]}
    /\ disk' = [n \in Name |-> {dir'[n]}]
    /\ \E lost \in SUBSET {f \in File \ synced : data[f] = "whole"} :
          data' = [f \in File |-> IF f \in lost THEN "partial" ELSE data[f]]
    /\ UNCHANGED <<cmd, out, result, synced>>

ProcStep(p) ==
    \/ Begin(p) \/ Create(p) \/ Refuse(p) \/ Write(p) \/ Sync(p)
    \/ Publish(p) \/ Collide(p) \/ DirSync(p)
    \/ Fail(p) \/ Interrupt(p) \/ Cleanup(p) \/ CleanupFails(p) \/ Kill(p)

PubNext == ((\E p \in Proc : ProcStep(p)) /\ UNCHANGED powered) \/ PowerFailure

PubSpec == PubInit /\ [][PubNext]_pubVars

-----------------------------------------------------------------------------
\* The command that made a file.
Maker(f) == f[1]
MadeBy(f, S) == f # NoFile /\ Maker(f) \in S

Overwriters == {p \in Proc : cmd[p].overwrite}
Stagers == {p \in Proc : Staged(p)}

\* A command that writes straight under its new names, and failed.
Backed(p) == ~Staged(p) /\ result[p] = "failed"

\* What p has reported says that its output is there to stay.
Kept(p) ==
    /\ pc[p] = "ended"
    /\ result[p] = "success" \/ (result[p] = "durability" /\ powered')

\* A staged output is never seen, and never found after a power failure, but whole:
\* it is written and synced before it gets its name (pqc_agent_tools.py:311-326).
StagedOutputWhole ==
    \A t \in Target : \A f \in disk[t] \cup {dir[t]} :
        MadeBy(f, Stagers) => data[f] = "whole"

\* What stood under a name, or was put there by a command that did not overwrite and
\* reported success, gives way only to an overwriting command's file: not to another
\* new file, a cleanup or a power failure.  Reporting that durability failed promises
\* as much, but for the power failure (pqc_agent_tools.py:210-235, 326-346).
OnlyOverwritingTakes ==
    [][\A t \in Target :
          LET f == dir[t] IN
          /\ f # NoFile
          /\ Maker(f) = NoProc \/ (Maker(f) \in Proc \ Overwriters /\ Kept(Maker(f)))
          /\ dir'[t] # f
          => MadeBy(dir'[t], Overwriters)]_pubVars

\* A command that reports success has put its outputs beyond a power failure: none
\* brings the former file back, nor, unless a failed command unlinked the name, an
\* empty one (pqc_agent_tools.py:199-207, 225, 337).
SuccessIsDurable ==
    \A p \in Proc :
        result[p] = "success" /\ pc[p] = "ended" =>
            \A t \in Outputs(p) :
                /\ <<NoProc, t>> \notin disk[t]
                /\ (\A q \in Proc : ~Backed(q)) => NoFile \notin disk[t]

\* No private file stands, now or after a power failure, without a public file that
\* was published and made durable first (pqc_agent_tools.py:770-778).
PrivateNeverAlone ==
    \A p \in Proc :
        /\ cmd[p].outs = <<Public, Private>>
        /\ <<p, Private>> \in disk[Private]
        /\ \A q \in Proc \ {p} : ~Backed(q)
        => /\ NoFile \notin disk[Public]
           /\ data[<<p, Public>>] = "whole"

\* A command that ended in good order has left no temporary file behind, whatever it
\* reported (pqc_agent_tools.py:267-273, 347-353).  A power failure may bring one back.
NoTemporaryLeft ==
    \A p \in Proc :
        powered /\ pc[p] = "ended" /\ result[p] # "failed" => dir[p] = NoFile
=============================================================================
