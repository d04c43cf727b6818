-------------------------- MODULE ArchiveRestoring --------------------------
(***************************************************************************)
(* Restoring a directory from an archive (crypto_archive.py,               *)
(* extract_archive): privately, then under its name, while other processes *)
(* use the parent directory, a call fails, or the command is interrupted   *)
(* or killed.                                                              *)
(*                                                                         *)
(* The files are made in the directory "payload" of a box with a random    *)
(* name in the parent; the payload is then renamed to the destination.     *)
(* Definitions that no action uses are faulty forms of the one after them. *)
(***************************************************************************)
EXTENDS Naturals, FiniteSets

CONSTANTS
    Entry       \* the files of the archive

VARIABLES
    rest,       \* where the restoration stands, and what it knows
    entry,      \* entry[e]: how much of e is in the payload
    payload,    \* where the payload is: nowhere, in the box or at the destination
    box,        \* the box in the parent; others may move it away
    other,      \* another process has put something at the destination
    lasting     \* which of payload and destination a power failure would not undo

restoringVars == <<rest, entry, payload, box, other, lasting>>
fileVars == <<entry, payload, box, other, lasting>>

Working == {"box", "payload", "entries", "publish"}
Looking == {"lookbox", "lookpayload"}
Leaving == {"unbox", "syncbox", "syncparent"}
Cleaning == {"remove", "rmpayload", "rmbox"}

\* How a step before the publication fails: an error, or the user's interruption.
Failures == {"failed", "cancelled"}

Idle == [pc |-> "off", result |-> "none", tidy |-> TRUE, late |-> FALSE]

NothingMade ==
    /\ entry = [e \in Entry |-> "none"]
    /\ payload = "none"
    /\ box = "none"
    /\ lasting = {}

RestoringInit == rest = [Idle EXCEPT !.pc = "begin"] /\ other \in BOOLEAN /\ NothingMade
NoRestoring == rest = Idle /\ other = FALSE /\ NothingMade

RestoreStep(pc, next) == rest.pc = pc /\ rest' = [rest EXCEPT !.pc = next]
Returns(how) == rest' = [rest EXCEPT !.pc = "end", !.result = how]

Taken == other \/ payload = "dest"

-----------------------------------------------------------------------------
\* The destination must be free, and the archive valid, before anything is made.
CheckDestination ==
    /\ rest.pc = "begin"
    /\ IF Taken THEN Returns("exists") ELSE rest' = [rest EXCEPT !.pc = "box"]
    /\ UNCHANGED fileVars

\* _private_directory of the box: made, then looked at by its name; from then on it is
\* cleaned up, whatever happens.
MakeBox ==
    /\ RestoreStep("box", "lookbox")
    /\ box' = "here"
    /\ UNCHANGED <<entry, payload, other, lasting>>

LookAtBox ==
    /\ RestoreStep("lookbox", "payload")
    /\ box = "here"
    /\ UNCHANGED fileVars

\* ... and of the payload in it.
MakePayload ==
    /\ RestoreStep("payload", "lookpayload")
    /\ payload' = "box"
    /\ UNCHANGED <<entry, box, other, lasting>>

LookAtPayload == RestoreStep("lookpayload", "entries") /\ UNCHANGED fileVars

\* What was made and not looked at stays.
LookingFails ==
    /\ rest.pc \in Looking
    /\ \E how \in Failures :
          rest' = [rest EXCEPT !.pc = "end", !.result = how, !.tidy = FALSE]
    /\ UNCHANGED fileVars

\* A file is created, written and synced, one after the other.
Progress(e, from, to) ==
    /\ rest.pc = "entries"
    /\ entry[e] = from
    /\ entry' = [entry EXCEPT ![e] = to]
    /\ UNCHANGED <<rest, payload, box, other, lasting>>

CreateEntry(e) == (\A o \in Entry : entry[o] \in {"none", "synced"}) /\ Progress(e, "none", "made")
WriteEntry(e) == Progress(e, "made", "written")
SyncEntry(e) == Progress(e, "written", "synced")

\* _sync_tree
SyncTreeLast ==
    /\ RestoreStep("entries", "publish")
    /\ \A e \in Entry : entry[e] = "synced"
    /\ UNCHANGED fileVars
SyncTree ==
    /\ RestoreStep("entries", "publish")
    /\ \A e \in Entry : entry[e] = "synced"
    /\ lasting' = lasting \cup {"payload"}
    /\ UNCHANGED <<entry, payload, box, other>>

\* The rename, which refuses to replace.
Free == ~Taken

PublishPayload ==
    /\ RestoreStep("publish", "syncbox")
    /\ Free
    /\ payload' = "dest"
    /\ UNCHANGED <<entry, box, other, lasting>>

PublishRefused ==
    /\ rest.pc = "publish"
    /\ ~Free
    /\ rest' = [rest EXCEPT !.pc = "remove", !.result = "exists"]
    /\ UNCHANGED fileVars

\* A signal comes while the rename is made: its handler raises before published is set.
InterruptedLate ==
    /\ rest.pc = "publish" /\ Free
    /\ payload' = "dest"
    /\ rest' = [rest EXCEPT !.pc = "remove", !.result = "cancelled", !.late = TRUE]
    /\ UNCHANGED <<entry, box, other, lasting>>

\* The box is synced and taken away, unless its name is gone; then the parent is synced.
SyncBox == RestoreStep("syncbox", "unbox") /\ UNCHANGED fileVars

Unbox ==
    /\ RestoreStep("unbox", "syncparent")
    /\ box' = IF box = "here" THEN "none" ELSE box
    /\ UNCHANGED <<entry, payload, other, lasting>>

SyncParent ==
    /\ rest.pc = "syncparent"
    /\ Returns("ok")
    /\ lasting' = lasting \cup {"dest"}
    /\ UNCHANGED <<entry, payload, box, other>>

\* A call after the publication fails, which is reported as a lack of durability, or is
\* interrupted; the box is taken away if that was still to come.
LeavingFails ==
    /\ rest.pc \in Leaving
    /\ \E how \in {"durability", "cancelled"} :
          rest' = [rest EXCEPT !.pc = "end", !.result = how, !.tidy = rest.pc # "unbox"]
    /\ box' = IF rest.pc = "syncbox" /\ box = "here" THEN "none" ELSE box
    /\ UNCHANGED <<entry, payload, other, lasting>>

\* A call before it fails, the archive is damaged, or the user interrupts.
Undo ==
    IF payload = "box" THEN "remove" ELSE IF box = "none" THEN "end" ELSE "rmbox"

WorkingFails ==
    /\ rest.pc \in Working
    /\ \E how \in Failures : rest' = [rest EXCEPT !.pc = Undo, !.result = how]
    /\ UNCHANGED fileVars

-----------------------------------------------------------------------------
\* _remove_contents works through the descriptor of the payload, wherever that is by then.
RemoveEntry(e) ==
    /\ rest.pc = "remove"
    /\ entry[e] # "none"
    /\ entry' = [entry EXCEPT ![e] = "none"]
    /\ UNCHANGED <<rest, payload, box, other, lasting>>

RemoveEnds ==
    /\ RestoreStep("remove", "rmpayload")
    /\ \A e \in Entry : entry[e] = "none"
    /\ UNCHANGED fileVars

\* _remove_empty_directory by name: of the payload in the box, then of the box in the parent.
RemovePayload ==
    /\ RestoreStep("rmpayload", "rmbox")
    /\ payload' = IF payload = "box" THEN "none" ELSE payload
    /\ UNCHANGED <<entry, box, other, lasting>>

RemoveBoxNever == UNCHANGED box
RemoveBox == box' = IF box = "here" THEN "none" ELSE box

Cleaned ==
    /\ RestoreStep("rmbox", "end")
    /\ RemoveBox
    /\ UNCHANGED <<entry, payload, other, lasting>>

CleaningFails ==
    /\ rest.pc \in Cleaning
    /\ \E how \in Failures :
          rest' = [rest EXCEPT !.pc = "end", !.result = how, !.tidy = FALSE]
    /\ UNCHANGED fileVars

Killed ==
    /\ rest.pc \notin {"off", "end", "dead"}
    /\ rest' = [rest EXCEPT !.pc = "dead"]
    /\ UNCHANGED fileVars

RestoreNext ==
    \/ CheckDestination \/ MakeBox \/ LookAtBox \/ MakePayload \/ LookAtPayload
    \/ LookingFails \/ SyncTree
    \/ PublishPayload \/ PublishRefused \/ InterruptedLate
    \/ SyncBox \/ Unbox \/ SyncParent \/ LeavingFails \/ WorkingFails
    \/ RemoveEnds \/ RemovePayload \/ Cleaned \/ CleaningFails \/ Killed
    \/ \E e \in Entry : CreateEntry(e) \/ WriteEntry(e) \/ SyncEntry(e) \/ RemoveEntry(e)

\* Other processes take the destination and give it up, and move the box away.
OthersTake ==
    /\ payload # "dest"
    /\ other' = ~other
    /\ UNCHANGED <<rest, entry, payload, box, lasting>>

OthersMove ==
    /\ box = "here"
    /\ box' = "away"
    /\ UNCHANGED <<rest, entry, payload, other, lasting>>

RestoringNext == RestoreNext \/ OthersTake \/ OthersMove

-----------------------------------------------------------------------------
\* What appears at the destination is the whole directory, in a state that no power failure
\* undoes, in the place of nothing else, and it stays whole, unless the command is
\* interrupted within the rename; success means that its name lasts, too
\* (README.md:293, crypto_archive.py:513, 552-561).
DestinationWhole ==
    /\ payload = "dest" /\ ~rest.late =>
          /\ \A e \in Entry : entry[e] = "synced"
          /\ "payload" \in lasting
          /\ ~other
    /\ rest.result = "ok" => payload = "dest" /\ "dest" \in lasting

\* A restoration that ends leaves nothing but a published destination, which a failure
\* never reports; unless what cleans up failed or was not set up yet, the command was
\* interrupted, or another process moved the box (README.md:293, docs/THREAT_MODEL.md:68).
NothingLeft ==
    rest.pc = "end" /\ rest.tidy =>
        /\ box # "here"
        /\ payload # "box"
        /\ rest.result \in {"failed", "exists"} => payload = "none"
        /\ rest.result \in {"ok", "durability"} => payload = "dest"

\* The documentation says that a cancellation leaves the destination absent (README.md:293);
\* the command reports an interruption as one (pqc_agent_tools.py:1369-1371).
CancelledLeavesAbsent == rest.pc = "end" /\ rest.result = "cancelled" => payload # "dest"
=============================================================================
