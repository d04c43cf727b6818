---------------------------- MODULE JobLifecycle ----------------------------
(***************************************************************************)
(* What the large-file service promises about a job (docs/API.md, "Large-  *)
(* file jobs"), with files, threads and coroutines left out.  One job is   *)
(* retained at a time.  A job works, then its result is available or it is *)
(* over; a doomed job (cancelled, cleared, expired, shut down) never has   *)
(* its result appear, comes to its end, and only a doomed job is forgotten.*)
(***************************************************************************)
CONSTANTS Job, NoJob

VARIABLES
    stage,      \* stage[j]: "absent", "working", "available" or "over"
    doomed,     \* doomed[j]: j's cancellation was requested
    retained    \* the job a reservation collides with, or NoJob

jvars == <<stage, doomed, retained>>

LifeInit ==
    /\ stage = [j \in Job |-> "absent"]
    /\ doomed = [j \in Job |-> FALSE]
    /\ retained = NoJob

Reserved(j) ==
    /\ retained = NoJob
    /\ stage[j] = "absent"
    /\ stage' = [stage EXCEPT ![j] = "working"]
    /\ retained' = j
    /\ UNCHANGED doomed

Finished(j) ==
    /\ stage[j] = "working"
    /\ ~doomed[j]
    /\ stage' = [stage EXCEPT ![j] = "available"]
    /\ UNCHANGED <<doomed, retained>>

Doomed(j) ==
    /\ stage[j] # "absent"
    /\ doomed' = [doomed EXCEPT ![j] = TRUE]
    /\ UNCHANGED <<stage, retained>>

\* j comes to its end, perhaps by being doomed, and may then be forgotten.
Ended(j) ==
    /\ stage[j] # "absent"
    /\ stage' = [stage EXCEPT ![j] = "over"]
    /\ \E d \in BOOLEAN : doomed' = [doomed EXCEPT ![j] = @ \/ d]
    /\ retained' \in {retained} \cup {NoJob : k \in {i \in {j} : doomed'[i]}}

LifeNext ==
    \E j \in Job : Reserved(j) \/ Finished(j) \/ Doomed(j) \/ Ended(j)

LifeSpec == LifeInit /\ [][LifeNext]_jvars

\* A doomed job is brought to its end.
EndedDoomed(j) == doomed[j] /\ stage[j] # "over" /\ Ended(j)

FairLifeSpec == LifeSpec /\ \A j \in Job : WF_jvars(EndedDoomed(j))
=============================================================================
