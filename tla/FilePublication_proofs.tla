------------------------ MODULE FilePublication_proofs ------------------------
(***************************************************************************)
(* Proofs about FilePublication, for any number of commands.  PubInv says  *)
(* which file may stand where at each system call of its command; every    *)
(* system call, and a power failure at any moment, keeps it.               *)
(***************************************************************************)
EXTENDS FilePublication, TLAPS

\* The outputs p is through with, and those of them that are durable.
Earlier(p) == {cmd[p].outs[i] : i \in 1..out[p] - 1}
Safe(p) == IF result[p] = "success" THEN Earlier(p) \cup {Goal(p)} ELSE Earlier(p)

\* p writes under a new name, and unlinks it unless it succeeds.
Claims(p) ==
    /\ ~Staged(p)
    /\ pc[p] \in {"write", "sync", "dirsync"} \/ (pc[p] = "cleanup" /\ result[p] # "success")

\* What a command reports, and where it is.
Reports ==
    \A p \in Proc :
        /\ pc[p] \in {"idle", "create", "write", "sync", "publish", "dirsync"} => result[p] = "none"
        /\ pc[p] = "cleanup" => result[p] # "none"
        /\ ~Staged(p) => /\ pc[p] # "publish"
                         /\ pc[p] = "cleanup" => result[p] \in {"success", "failed"}
        /\ pc[p] = "ended" /\ result[p] = "success" => out[p] = Len(cmd[p].outs)

\* The disk has the binding a name has now; a file is bound to the name it is meant for, or
\* to the temporary name before, and not before it is made.
Placed ==
    \A n \in Name :
        /\ dir[n] \in disk[n]
        /\ \A t \in Target :
              /\ <<NoProc, t>> \in disk[n] => n = t
              /\ \A q \in Proc :
                    <<q, t>> \in disk[n] =>
                        /\ n = t \/ n = q
                        /\ t \in Earlier(q) \/ (t = Goal(q) /\ pc[q] \notin {"idle", "create"})
                        /\ n = t /\ t = Goal(q) /\ Staged(q) => pc[q] \notin {"write", "sync", "publish"}

\* What a command has written and synced; what is staged is both before it has its name.
Contents ==
    \A q \in Proc :
        /\ pc[q] \in {"sync", "publish", "dirsync"} => data[Made(q)] = "whole"
        /\ pc[q] \in {"publish", "dirsync"} => Made(q) \in synced
        /\ Staged(q) =>
              \A t \in Target : <<q, t>> \in disk[t] => data[<<q, t>>] = "whole" /\ <<q, t>> \in synced

\* A temporary name is bound while its command is at work.
Temporary ==
    \A p \in Proc :
        powered /\ dir[p] # NoFile =>
            /\ Staged(p)
            /\ \/ pc[p] \in {"write", "sync", "publish", "dirsync", "cleanup", "dead"}
               \/ pc[p] = "ended" /\ result[p] = "failed"

\* What a command unlinks when it fails is its own file or one that replaced it.
Claimed ==
    \A p \in Proc : Claims(p) =>
        /\ dir[Goal(p)] = Made(p) \/ MadeBy(dir[Goal(p)], Overwriters)
        /\ \A q \in Proc \ {p} : Claims(q) => Goal(q) # Goal(p)

\* A former file that stands is all the disk has.
Former == \A t \in Target : dir[t] = <<NoProc, t>> => disk[t] = {<<NoProc, t>>}

\* What has its name is there: over the former file, and until a failed command unlinks it.
Published ==
    \A p \in Proc : pc[p] = "dirsync" =>
        /\ dir[Goal(p)] # <<NoProc, Goal(p)>>
        /\ dir[Goal(p)] = NoFile => \E q \in Proc \ {p} : Backed(q)

\* And the disk has it, once the directory was synced.
DurableAt(p, t) ==
    /\ data[<<p, t>>] = "whole" /\ <<p, t>> \in synced
    /\ <<NoProc, t>> \notin disk[t]
    /\ NoFile \in disk[t] => \E q \in Proc \ {p} : Backed(q)
    /\ dir[t] = <<p, t>> => disk[t] = {<<p, t>>}

Durable == \A p \in Proc : \A t \in Safe(p) : DurableAt(p, t)

PubInv ==
    /\ PubTypeOK /\ Reports /\ Placed /\ Contents /\ Temporary
    /\ Claimed /\ Former /\ Published /\ Durable
-----------------------------------------------------------------------------
(* Commands, names and files.                                              *)

\* Names and files are what they are called.
LEMMA Names ==
    /\ Public \in Target /\ Private \in Target /\ Public # Private
    /\ Target \subseteq Name /\ Proc \subseteq Name
    /\ \A p \in Proc : p \notin Target /\ p # NoProc
    /\ \A p \in Proc \cup {NoProc}, t \in Target : <<p, t>> \in File /\ <<p, t>> # NoFile
  BY PublicationAssumption DEF Target, Name, File

\* The outputs of a command: those it is through with, the one it is at, and the next one.
LEMMA Outs ==
    ASSUME PubTypeOK, NEW p \in Proc
    PROVE  /\ Goal(p) \in Target /\ Earlier(p) \subseteq Target /\ Goal(p) \notin Earlier(p)
           /\ out[p] \in 1..2 /\ Len(cmd[p].outs) \in 1..2 /\ out[p] <= Len(cmd[p].outs)
           /\ out[p] = Len(cmd[p].outs) => Outputs(p) = Earlier(p) \cup {Goal(p)}
           /\ out[p] < Len(cmd[p].outs) =>
                 out[p] = 1 /\ cmd[p].outs = <<Public, Private>> /\ Goal(p) = Public /\ Earlier(p) = {}
           /\ cmd[p].outs = <<Public, Private>> =>
                 /\ Len(cmd[p].outs) = 2
                 /\ out[p] = 1 => Goal(p) = Public /\ Earlier(p) = {}
                 /\ out[p] = 2 => Goal(p) = Private /\ Earlier(p) = {Public}
           /\ cmd[p].stream \in BOOLEAN /\ cmd[p].overwrite \in BOOLEAN
  <1>1. /\ cmd[p] \in Command /\ out[p] \in 1..2 /\ out[p] <= Len(cmd[p].outs)
    BY DEF PubTypeOK
  <1>2. cmd[p].outs \in {<<Public>>, <<Private>>, <<Public, Private>>}
        /\ cmd[p].stream \in BOOLEAN /\ cmd[p].overwrite \in BOOLEAN
    BY <1>1 DEF Command
  <1>3. Earlier(p) = IF out[p] = 1 THEN {} ELSE {cmd[p].outs[1]}
    <2>1. out[p] = 1 => 1..out[p] - 1 = {}
      OBVIOUS
    <2>2. out[p] = 2 => 1..out[p] - 1 = {1}
      OBVIOUS
    <2> QED
      BY <1>1, <2>1, <2>2 DEF Earlier
  <1>4. CASE cmd[p].outs = <<Public>> \/ cmd[p].outs = <<Private>>
    <2>1. Len(cmd[p].outs) = 1 /\ out[p] = 1 /\ cmd[p].outs[1] \in Target /\ 1..1 = {1}
      <3>1. CASE cmd[p].outs = <<Public>>
        BY <1>1, <3>1, Names
      <3>2. CASE cmd[p].outs = <<Private>>
        BY <1>1, <3>2, Names
      <3> QED
        BY <1>4, <3>1, <3>2
    <2>2. Outputs(p) = {cmd[p].outs[1]}
      BY <2>1 DEF Outputs
    <2>3. cmd[p].outs # <<Public, Private>>
      BY <2>1
    <2> QED
      BY <1>2, <1>3, <2>1, <2>2, <2>3 DEF Goal
  <1>5. CASE cmd[p].outs = <<Public, Private>>
    <2>1. Len(cmd[p].outs) = 2 /\ cmd[p].outs[1] = Public /\ cmd[p].outs[2] = Private /\ 1..2 = {1, 2}
      BY <1>5
    <2>2. Outputs(p) = {Public, Private}
      BY <2>1 DEF Outputs
    <2> QED
      BY <1>1, <1>2, <1>3, <1>5, <2>1, <2>2, Names DEF Goal
  <1> QED
    BY <1>2, <1>4, <1>5

\* The files of commands are told apart.
LEMMA MadeIs ==
    ASSUME PubTypeOK, NEW p \in Proc
    PROVE  /\ Made(p) = <<p, Goal(p)>> /\ Made(p) \in File /\ Made(p) # NoFile
           /\ \A q \in Proc \cup {NoProc}, t \in Target : Made(p) = <<q, t>> => p = q /\ t = Goal(p)
  BY Names, Outs DEF Made

-----------------------------------------------------------------------------
(* Steps that change no file.                                              *)

\* One command goes from one system call to another, or reports an outcome.
LEMMA ControlKeeps ==
    ASSUME PubInv, UNCHANGED <<cmd, out, fileVars, powered>>, NEW p \in Proc,
           NEW step \in {"create", "cleanup", "ended", "dead"},
           NEW outcome \in {"none", "success", "exists", "failed", "durability"},
           pc' = [pc EXCEPT ![p] = step], result' = [result EXCEPT ![p] = outcome],
           outcome = "success" => result[p] = "success",
           result[p] = "failed" => outcome = "failed",
           step = "create" => pc[p] = "idle" /\ outcome = "none",
           step = "cleanup" => /\ pc[p] \in {"write", "sync", "publish", "dirsync"}
                               /\ outcome \notin {"none", "success"}
                               /\ ~Staged(p) => outcome = "failed",
           step = "ended" => outcome # "success",
           step = "ended" /\ powered /\ dir[p] # NoFile => outcome = "failed"
    PROVE  PubInv'
  <1>0. PubTypeOK /\ Reports /\ Placed /\ Contents /\ Temporary /\ Claimed /\ Former /\ Published /\ Durable
    BY DEF PubInv
  <1>1. /\ UNCHANGED <<cmd, out, dir, disk, data, synced, powered>>
        /\ \A q \in Proc : /\ pc'[q] = IF q = p THEN step ELSE pc[q]
                           /\ result'[q] = IF q = p THEN outcome ELSE result[q]
    BY <1>0 DEF fileVars, PubTypeOK
  <1>2. PubTypeOK'
    BY <1>0, <1>1 DEF PubTypeOK, fileVars, Running
  <1>3. \A q \in Proc :
           /\ Goal(q)' = Goal(q) /\ Made(q)' = Made(q) /\ Staged(q)' = Staged(q)
           /\ Earlier(q)' = Earlier(q)
           /\ Safe(q)' \subseteq Safe(q)
           /\ Backed(q) => Backed(q)'
           /\ Claims(q)' => Claims(q)
    BY <1>0, <1>1 DEF Goal, Made, Staged, Earlier, Safe, Backed, Claims, Reports
  <1>4. Overwriters' = Overwriters
    BY <1>1 DEF Overwriters
  <1>5. Reports'
    BY <1>0, <1>1, <1>3 DEF Reports
  <1>6. Placed'
    BY <1>0, <1>1, <1>3 DEF Placed
  <1>7. Contents'
    BY <1>0, <1>1, <1>3 DEF Contents
  <1>8. Temporary'
    BY <1>0, <1>1, <1>3 DEF Temporary
  <1>9. Claimed'
    BY <1>0, <1>1, <1>3, <1>4 DEF Claimed, MadeBy, Maker
  <1>10. Former'
    BY <1>0, <1>1 DEF Former
  <1>11. Published'
    BY <1>0, <1>1, <1>3 DEF Published
  <1>12. Durable'
    BY <1>0, <1>1, <1>3 DEF Durable, DurableAt
  <1> QED
    BY <1>2, <1>5, <1>6, <1>7, <1>8, <1>9, <1>10, <1>11, <1>12 DEF PubInv

-----------------------------------------------------------------------------
(* Steps that change files.                                                *)

\* What binding names anew does to the disk.
LEMMA BindingsAre ==
    ASSUME PubTypeOK, Placed, NEW d \in [Name -> File \cup {NoFile}], Bindings(d)
    PROVE  /\ dir' = d /\ disk' \in [Name -> SUBSET (File \cup {NoFile})]
           /\ \A n \in Name : disk'[n] = IF d[n] = dir[n] THEN disk[n] ELSE disk[n] \cup {d[n]}
           /\ \A n \in Name : d[n] \in disk'[n]
  BY DEF Bindings, PubTypeOK, Placed

\* What a step leaves that changes neither outputs nor outcomes.
LEMMA GoesIs ==
    ASSUME PubTypeOK, NEW p \in Proc, NEW step, Goes(p, step)
    PROVE  /\ UNCHANGED <<cmd, out, result>> /\ pc' = [pc EXCEPT ![p] = step]
           /\ \A q \in Proc :
                 /\ pc'[q] = IF q = p THEN step ELSE pc[q]
                 /\ Goal(q)' = Goal(q) /\ Made(q)' = Made(q) /\ Staged(q)' = Staged(q)
                 /\ Earlier(q)' = Earlier(q) /\ Safe(q)' = Safe(q) /\ Backed(q)' = Backed(q)
                 /\ q # p => Claims(q)' = Claims(q)
           /\ Overwriters' = Overwriters
  BY DEF PubTypeOK, Goes, Goal, Made, Staged, Earlier, Safe, Backed, Overwriters, Claims

\* A command makes its file: under a new name, or under its temporary one.
LEMMA CreateKeeps ==
    ASSUME PubInv, UNCHANGED powered, NEW p \in Proc, Create(p)
    PROVE  PubInv'
  <1>0. PubTypeOK /\ Reports /\ Placed /\ Contents /\ Temporary /\ Claimed /\ Former /\ Published /\ Durable
    BY DEF PubInv
  <1> DEFINE m == IF Staged(p) THEN p ELSE Goal(p)
             d == [dir EXCEPT ![m] = Made(p)]
  <1>1. /\ pc[p] = "create" /\ ~Taken(p) /\ Goes(p, "write") /\ Bindings(d)
        /\ data' = [data EXCEPT ![Made(p)] = "partial"] /\ synced' = synced
    BY DEF Create
  <1>2. /\ UNCHANGED <<cmd, out, result>> /\ pc' = [pc EXCEPT ![p] = "write"]
        /\ \A q \in Proc :
              /\ pc'[q] = IF q = p THEN "write" ELSE pc[q]
              /\ Goal(q)' = Goal(q) /\ Made(q)' = Made(q) /\ Staged(q)' = Staged(q)
              /\ Earlier(q)' = Earlier(q) /\ Safe(q)' = Safe(q) /\ Backed(q)' = Backed(q)
              /\ q # p => Claims(q)' = Claims(q)
        /\ Overwriters' = Overwriters
    BY <1>0, <1>1, GoesIs
  <1>3. /\ m \in Name /\ Goal(p) \in Target /\ Goal(p) \notin Earlier(p)
        /\ (m = p /\ Staged(p)) \/ (m = Goal(p) /\ ~Staged(p) /\ dir[Goal(p)] = NoFile)
        /\ Safe(p) = Earlier(p) /\ result[p] = "none"
        /\ \A q \in Proc : Safe(q) \subseteq Target
    BY <1>0, <1>1, Names, Outs DEF Staged, Taken, Safe, Reports
  <1>4. /\ Made(p) = <<p, Goal(p)>> /\ Made(p) \in File /\ Made(p) # NoFile
        /\ \A q \in Proc \cup {NoProc}, t \in Target : Made(p) = <<q, t>> => p = q /\ t = Goal(p)
    BY <1>0, MadeIs
  <1>5. d \in [Name -> File \cup {NoFile}] /\ \A n \in Name : d[n] = IF n = m THEN Made(p) ELSE dir[n]
    BY <1>0, <1>3, <1>4 DEF PubTypeOK
  <1> HIDE DEF d, m
  <1>8. \A n \in Name : Made(p) \notin disk[n] /\ Made(p) # dir[n]
    <2> SUFFICES ASSUME NEW n \in Name, <<p, Goal(p)>> \in disk[n] PROVE FALSE
      BY <1>0, <1>4 DEF Placed
    <2> QED
      BY <1>0, <1>1, <1>3 DEF Placed
  <1>6. /\ dir' = d /\ disk' \in [Name -> SUBSET (File \cup {NoFile})]
        /\ \A n \in Name : disk'[n] = IF n = m THEN disk[n] \cup {Made(p)} ELSE disk[n]
        /\ \A n \in Name : dir'[n] \in disk'[n]
    BY <1>0, <1>1, <1>5, <1>8, BindingsAre
  <1>7. \A q \in Proc, t \in Target :
           data'[<<q, t>>] = IF q = p /\ t = Goal(p) THEN "partial" ELSE data[<<q, t>>]
    BY <1>0, <1>1, <1>4, Names DEF PubTypeOK
  <1>18. /\ \A q \in Proc \cup {NoProc}, t \in Target : q # p \/ t # Goal(p) =>
              \A n \in Name : <<q, t>> \in disk'[n] => <<q, t>> \in disk[n]
         /\ \A n \in Name : NoFile \in disk'[n] => NoFile \in disk[n]
    BY <1>4, <1>6
  <1>9. PubTypeOK'
    BY <1>0, <1>1, <1>2, <1>4, <1>5, <1>6 DEF PubTypeOK, Running
  <1>10. Reports'
    BY <1>0, <1>1, <1>2, <1>3 DEF Reports
  <1>11. Placed'
    BY <1>0, <1>1, <1>2, <1>3, <1>4, <1>6, Names DEF Placed
  <1>12. Contents'
    <2> SUFFICES ASSUME NEW q \in Proc
                 PROVE  /\ pc'[q] \in {"sync", "publish", "dirsync"} => data'[Made(q)] = "whole"
                        /\ pc'[q] \in {"publish", "dirsync"} => Made(q) \in synced
                        /\ Staged(q) =>
                              \A t \in Target :
                                 <<q, t>> \in disk'[t] => data'[<<q, t>>] = "whole" /\ <<q, t>> \in synced
      BY <1>1, <1>2 DEF Contents
    <2>1. CASE q = p
      <3>1. \A t \in Target : Staged(p) /\ <<p, t>> \in disk'[t] => t # Goal(p)
        BY <1>3, <1>4, <1>6, <1>8, Names
      <3> QED
        BY <1>0, <1>2, <1>7, <1>18, <2>1, <3>1, Names DEF Contents
    <2>2. CASE q # p
      <3>1. Made(q) = <<q, Goal(q)>> /\ Goal(q) \in Target
        BY <1>0, Outs DEF Made
      <3> QED
        BY <1>0, <1>2, <1>7, <1>18, <2>2, <3>1, Names DEF Contents
    <2> QED
      BY <2>1, <2>2
  <1>13. Temporary'
    BY <1>0, <1>1, <1>2, <1>3, <1>5, <1>6, Names DEF Temporary
  <1>14. Claimed'
    <2>1. ASSUME NEW q \in Proc, Claims(q) PROVE dir[Goal(q)] # NoFile /\ Goal(q) \in Target
      BY <1>0, <2>1, MadeIs, Outs DEF Claimed, MadeBy
    <2>2. ASSUME NEW q \in Proc, q # p, Claims(q)'
          PROVE  /\ Claims(q) /\ dir'[Goal(q)] = dir[Goal(q)]
                 /\ ~Staged(p) => Goal(q) # Goal(p)
      BY <1>2, <1>3, <1>5, <1>6, <2>1, <2>2, Names
    <2>3. Claims(p)' => ~Staged(p) /\ dir'[Goal(p)] = Made(p)
      BY <1>2, <1>3, <1>5, <1>6, Names DEF Claims
    <2> QED
      BY <1>0, <1>2, <2>2, <2>3 DEF Claimed, MadeBy, Maker
  <1>15. Former'
    BY <1>0, <1>3, <1>4, <1>5, <1>6, Names DEF Former
  <1>16. Published'
    BY <1>0, <1>2, <1>3, <1>4, <1>5, <1>6, Names, Outs DEF Published
  <1>17. Durable'
    <2> SUFFICES ASSUME NEW q \in Proc, NEW t \in Safe(q) PROVE DurableAt(q, t)'
      BY <1>2 DEF Durable
    <2>0. DurableAt(q, t)
      BY <1>0 DEF Durable
    <2>1. t \in Target /\ t \in Name /\ (q = p => t # Goal(p))
      BY <1>3, Names
    <2>2. <<q, t>> # Made(p)
      BY <1>4, <2>1
    <2>3. dir'[t] = <<q, t>> => disk'[t] = disk[t] /\ dir[t] = <<q, t>>
      BY <1>5, <1>6, <2>1, <2>2
    <2>4. data'[<<q, t>>] = data[<<q, t>>]
      BY <1>7, <2>1
    <2> QED
      BY <1>1, <1>2, <1>18, <2>0, <2>1, <2>3, <2>4, Names DEF DurableAt
  <1> QED
    BY <1>9, <1>10, <1>11, <1>12, <1>13, <1>14, <1>15, <1>16, <1>17 DEF PubInv

\* A command writes its file.
LEMMA WriteKeeps ==
    ASSUME PubInv, UNCHANGED powered, NEW p \in Proc, Write(p)
    PROVE  PubInv'
  <1>0. PubTypeOK /\ Reports /\ Placed /\ Contents /\ Temporary /\ Claimed /\ Former /\ Published /\ Durable
    BY DEF PubInv
  <1>1. /\ pc[p] = "write" /\ Goes(p, "sync") /\ UNCHANGED <<dir, disk, synced>>
        /\ data' = [data EXCEPT ![Made(p)] = "whole"]
    BY DEF Write
  <1>2. /\ UNCHANGED <<cmd, out, result>> /\ pc' = [pc EXCEPT ![p] = "sync"]
        /\ \A q \in Proc :
              /\ pc'[q] = IF q = p THEN "sync" ELSE pc[q]
              /\ Goal(q)' = Goal(q) /\ Made(q)' = Made(q) /\ Staged(q)' = Staged(q)
              /\ Earlier(q)' = Earlier(q) /\ Safe(q)' = Safe(q) /\ Backed(q)' = Backed(q)
              /\ q # p => Claims(q)' = Claims(q)
        /\ Overwriters' = Overwriters
    BY <1>0, <1>1, GoesIs
  <1>3. Made(p) \in File /\ \A f \in File : data'[f] = IF f = Made(p) THEN "whole" ELSE data[f]
    BY <1>0, <1>1, MadeIs DEF PubTypeOK
  <1>4. \A q \in Proc : Claims(q)' = Claims(q)
    BY <1>1, <1>2 DEF Claims
  <1>5. PubTypeOK'
    BY <1>0, <1>1, <1>2, <1>3 DEF PubTypeOK, Running
  <1>6. Reports' /\ Placed' /\ Temporary' /\ Former'
    BY <1>0, <1>1, <1>2 DEF Reports, Placed, Temporary, Former
  <1>7. Contents'
    BY <1>0, <1>1, <1>2, <1>3, MadeIs, Names DEF Contents
  <1>8. Claimed'
    BY <1>0, <1>1, <1>2, <1>4 DEF Claimed, MadeBy, Maker
  <1>9. Published'
    BY <1>0, <1>1, <1>2 DEF Published
  <1>10. Durable'
    <2> SUFFICES ASSUME NEW q \in Proc, NEW t \in Safe(q) PROVE DurableAt(q, t)'
      BY <1>2 DEF Durable
    <2>1. DurableAt(q, t) /\ t \in Target
      BY <1>0, Outs DEF Durable, Safe
    <2> QED
      BY <1>1, <1>2, <1>3, <2>1, Names DEF DurableAt
  <1> QED
    BY <1>5, <1>6, <1>7, <1>8, <1>9, <1>10 DEF PubInv

\* A command syncs its file, and goes on to its directory or to give it its name.
LEMMA SyncKeeps ==
    ASSUME PubInv, UNCHANGED powered, NEW p \in Proc, Sync(p)
    PROVE  PubInv'
  <1>0. PubTypeOK /\ Reports /\ Placed /\ Contents /\ Temporary /\ Claimed /\ Former /\ Published /\ Durable
    BY DEF PubInv
  <1> DEFINE step == IF Staged(p) THEN "publish" ELSE "dirsync"
  <1>1. /\ pc[p] = "sync" /\ Goes(p, step) /\ UNCHANGED <<dir, disk, data>>
        /\ synced' = synced \cup {Made(p)}
    BY DEF Sync, Synced
  <1>2. /\ UNCHANGED <<cmd, out, result>> /\ pc' = [pc EXCEPT ![p] = step]
        /\ \A q \in Proc :
              /\ pc'[q] = IF q = p THEN step ELSE pc[q]
              /\ Goal(q)' = Goal(q) /\ Made(q)' = Made(q) /\ Staged(q)' = Staged(q)
              /\ Earlier(q)' = Earlier(q) /\ Safe(q)' = Safe(q) /\ Backed(q)' = Backed(q)
              /\ q # p => Claims(q)' = Claims(q)
        /\ Overwriters' = Overwriters
    BY <1>0, <1>1, GoesIs
  <1>3. /\ (step = "publish" /\ Staged(p)) \/ (step = "dirsync" /\ ~Staged(p))
        /\ Made(p) \in File
    <2>1. Made(p) \in File
      BY <1>0, MadeIs
    <2>2. CASE Staged(p)
      BY <2>1, <2>2
    <2>3. CASE ~Staged(p)
      BY <2>1, <2>3
    <2> QED
      BY <2>2, <2>3
  <1> HIDE DEF step
  <1>4. \A q \in Proc : Claims(q)' = Claims(q)
    BY <1>1, <1>2, <1>3 DEF Claims
  <1>5. PubTypeOK'
    BY <1>0, <1>1, <1>2, <1>3 DEF PubTypeOK, Running
  <1>6. Reports' /\ Placed' /\ Temporary' /\ Former'
    BY <1>0, <1>1, <1>2, <1>3 DEF Reports, Placed, Temporary, Former
  <1>7. Contents'
    BY <1>0, <1>1, <1>2, <1>3 DEF Contents
  <1>8. Claimed'
    BY <1>0, <1>1, <1>2, <1>4 DEF Claimed, MadeBy, Maker
  <1>9. Published'
    <2>1. step = "dirsync" => dir[Goal(p)] # <<NoProc, Goal(p)>> /\ dir[Goal(p)] # NoFile
      <3> SUFFICES ASSUME step = "dirsync"
                   PROVE  dir[Goal(p)] # <<NoProc, Goal(p)>> /\ dir[Goal(p)] # NoFile
        OBVIOUS
      <3>1. dir[Goal(p)] = Made(p) \/ MadeBy(dir[Goal(p)], Overwriters)
        BY <1>0, <1>1, <1>3 DEF Claimed, Claims
      <3>2. Overwriters \subseteq Proc /\ NoProc \notin Proc /\ p \in Proc
        BY PublicationAssumption DEF Overwriters
      <3>3. Maker(<<NoProc, Goal(p)>>) = NoProc /\ Maker(Made(p)) = p
        BY DEF Maker, Made
      <3> QED
        BY <1>0, <3>1, <3>2, <3>3, MadeIs DEF MadeBy
    <2> QED
      BY <1>0, <1>1, <1>2, <1>3, <2>1 DEF Published
  <1>10. Durable'
    <2> SUFFICES ASSUME NEW q \in Proc, NEW t \in Safe(q) PROVE DurableAt(q, t)'
      BY <1>2 DEF Durable
    <2>1. DurableAt(q, t)
      BY <1>0 DEF Durable
    <2> QED
      BY <1>1, <1>2, <2>1 DEF DurableAt
  <1> QED
    BY <1>5, <1>6, <1>7, <1>8, <1>9, <1>10 DEF PubInv

\* A staged file gets its name.
LEMMA PublishKeeps ==
    ASSUME PubInv, UNCHANGED powered, NEW p \in Proc, Publish(p)
    PROVE  PubInv'
  <1>0. PubTypeOK /\ Reports /\ Placed /\ Contents /\ Temporary /\ Claimed /\ Former /\ Published /\ Durable
    BY DEF PubInv
  <1> DEFINE d == [dir EXCEPT ![Goal(p)] = Made(p), ![p] = IF cmd[p].overwrite THEN NoFile ELSE @]
  <1>1. /\ pc[p] = "publish" /\ ~Taken(p) /\ Goes(p, "dirsync") /\ Bindings(d)
        /\ UNCHANGED <<data, synced>>
    BY DEF Publish
  <1>2. /\ UNCHANGED <<cmd, out, result>> /\ pc' = [pc EXCEPT ![p] = "dirsync"]
        /\ \A q \in Proc :
              /\ pc'[q] = IF q = p THEN "dirsync" ELSE pc[q]
              /\ Goal(q)' = Goal(q) /\ Made(q)' = Made(q) /\ Staged(q)' = Staged(q)
              /\ Earlier(q)' = Earlier(q) /\ Safe(q)' = Safe(q) /\ Backed(q)' = Backed(q)
              /\ q # p => Claims(q)' = Claims(q)
        /\ Overwriters' = Overwriters
    BY <1>0, <1>1, GoesIs
  <1>3. /\ Goal(p) \in Target /\ Goal(p) \in Name /\ p \in Name /\ p \notin Target
        /\ Goal(p) \notin Earlier(p) /\ Staged(p)
        /\ Safe(p) = Earlier(p) /\ result[p] = "none"
        /\ \A q \in Proc : Safe(q) \subseteq Target
    BY <1>0, <1>1, Names, Outs DEF Safe, Reports
  <1>4. /\ Made(p) = <<p, Goal(p)>> /\ Made(p) \in File /\ Made(p) # NoFile
        /\ \A q \in Proc \cup {NoProc}, t \in Target : Made(p) = <<q, t>> => p = q /\ t = Goal(p)
    BY <1>0, MadeIs
  <1>5. /\ d \in [Name -> File \cup {NoFile}] /\ d[Goal(p)] = Made(p)
        /\ d[p] = NoFile \/ d[p] = dir[p]
        /\ \A n \in Name : n # p /\ n # Goal(p) => d[n] = dir[n]
    BY <1>0, <1>3, <1>4 DEF PubTypeOK
  <1>6. p \in Overwriters \/ dir[Goal(p)] = NoFile
    BY <1>1 DEF Taken, Overwriters
  <1> HIDE DEF d
  <1>7. Made(p) \notin disk[Goal(p)] /\ Made(p) # dir[Goal(p)]
    <2> SUFFICES ASSUME <<p, Goal(p)>> \in disk[Goal(p)] PROVE FALSE
      BY <1>0, <1>3, <1>4 DEF Placed
    <2> QED
      BY <1>0, <1>1, <1>3 DEF Placed
  <1>8. /\ dir' = d /\ disk' \in [Name -> SUBSET (File \cup {NoFile})]
        /\ disk'[Goal(p)] = disk[Goal(p)] \cup {Made(p)}
        /\ disk'[p] = disk[p] \/ disk'[p] = disk[p] \cup {NoFile}
        /\ \A n \in Name : n # p /\ n # Goal(p) => disk'[n] = disk[n]
        /\ \A n \in Name : dir'[n] \in disk'[n]
    BY ZenonT(40), <1>0, <1>1, <1>3, <1>5, <1>7, BindingsAre
  <1>9. /\ \A q \in Proc \cup {NoProc}, t \in Target, n \in Name :
              <<q, t>> \in disk'[n] => <<q, t>> \in disk[n] \/ (q = p /\ t = Goal(p) /\ n = t)
        /\ \A t \in Target : NoFile \in disk'[t] => NoFile \in disk[t]
    <2>1. \A q \in Proc \cup {NoProc}, t \in Target : <<q, t>> # NoFile
      BY Names
    <2> QED
      BY <1>3, <1>4, <1>8, <2>1, Names
  <1>10. PubTypeOK'
    BY <1>0, <1>1, <1>2, <1>5, <1>8 DEF PubTypeOK, Running
  <1>11. Reports'
    BY <1>0, <1>2, <1>3 DEF Reports
  <1>12. Placed'
    <2>1. \A n \in Name, t \in Target :
             /\ <<NoProc, t>> \in disk'[n] => n = t
             /\ \A q \in Proc :
                   <<q, t>> \in disk'[n] =>
                       /\ n = t \/ n = q
                       /\ t \in Earlier(q) \/ (t = Goal(q) /\ pc'[q] \notin {"idle", "create"})
                       /\ n = t /\ t = Goal(q) /\ Staged(q) => pc'[q] \notin {"write", "sync", "publish"}
      BY <1>0, <1>1, <1>2, <1>9, Names DEF Placed
    <2> QED
      BY <1>2, <1>8, <2>1 DEF Placed
  <1>13. Contents'
    <2>1. data[Made(p)] = "whole" /\ Made(p) \in synced
      BY <1>0, <1>1 DEF Contents
    <2>2. ASSUME NEW q \in Proc, NEW t \in Target, Staged(q), <<q, t>> \in disk'[t]
          PROVE  data[<<q, t>>] = "whole" /\ <<q, t>> \in synced
      BY <1>0, <1>4, <1>9, <2>1, <2>2, Names DEF Contents
    <2> QED
      BY <1>0, <1>1, <1>2, <2>1, <2>2 DEF Contents
  <1>14. Temporary'
    BY <1>0, <1>1, <1>2, <1>3, <1>5, <1>8, Names DEF Temporary
  <1>15. Claimed'
    <2>1. ASSUME NEW q \in Proc, Claims(q)'
          PROVE  Claims(q) /\ q # p /\ Goal(q) \in Target /\ Goal(q) \in Name /\ Goal(q) # p
      BY <1>0, <1>2, <1>3, <2>1, Names, Outs DEF Claims
    <2>2. ASSUME NEW q \in Proc, Claims(q)'
          PROVE  dir'[Goal(q)] = Made(q) \/ MadeBy(dir'[Goal(q)], Overwriters)
      <3>1. dir[Goal(q)] = Made(q) \/ MadeBy(dir[Goal(q)], Overwriters)
        BY <1>0, <2>1, <2>2 DEF Claimed
      <3>2. CASE Goal(q) # Goal(p)
        BY <1>5, <1>8, <2>1, <2>2, <3>1, <3>2
      <3>3. CASE Goal(q) = Goal(p)
        <4>1. dir[Goal(p)] # NoFile
          BY <1>0, <3>1, <3>3, MadeIs DEF MadeBy
        <4>2. Maker(Made(p)) = p
          BY DEF Maker, Made
        <4> QED
          BY <1>4, <1>5, <1>6, <1>8, <3>3, <4>1, <4>2 DEF MadeBy
      <3> QED
        BY <3>2, <3>3
    <2>3. \A q \in Proc : Claims(q)' => \A r \in Proc \ {q} : Claims(r)' => Goal(r) # Goal(q)
      BY <1>0, <2>1 DEF Claimed
    <2>4. ASSUME NEW q \in Proc, Claims(q)'
          PROVE  /\ dir'[Goal(q)] = Made(q) \/ MadeBy(dir'[Goal(q)], Overwriters)
                 /\ \A r \in Proc \ {q} : Claims(r)' => Goal(r) # Goal(q)
      BY <2>2, <2>3, <2>4
    <2> QED
      BY <1>2, <2>4 DEF Claimed, MadeBy, Maker
  <1>16. Former'
    BY <1>0, <1>3, <1>4, <1>5, <1>8, Names DEF Former
  <1>17. Published'
    <2> SUFFICES ASSUME NEW q \in Proc, pc'[q] = "dirsync"
                 PROVE  /\ dir'[Goal(q)] # <<NoProc, Goal(q)>>
                        /\ dir'[Goal(q)] = NoFile => \E r \in Proc \ {q} : Backed(r)
      BY <1>2 DEF Published
    <2>1. Goal(q) \in Target /\ Goal(q) \in Name /\ Goal(q) # p
      BY <1>0, <1>3, Outs, Names
    <2>2. CASE Goal(q) = Goal(p)
      BY <1>4, <1>5, <1>8, <2>1, <2>2, Names
    <2>3. CASE Goal(q) # Goal(p)
      <3>1. q # p /\ pc[q] = "dirsync" /\ dir'[Goal(q)] = dir[Goal(q)]
        BY <1>2, <1>5, <1>8, <2>1, <2>3
      <3> QED
        BY <1>0, <3>1 DEF Published
    <2> QED
      BY <2>2, <2>3
  <1>18. Durable'
    <2> SUFFICES ASSUME NEW q \in Proc, NEW t \in Safe(q) PROVE DurableAt(q, t)'
      BY <1>2 DEF Durable
    <2>0. DurableAt(q, t)
      BY <1>0 DEF Durable
    <2>1. t \in Target /\ t \in Name /\ t # p /\ (q = p => t # Goal(p)) /\ NoProc # p
      BY <1>3, Names
    <2>2. <<q, t>> # Made(p)
      BY <1>4, <2>1
    <2>3. dir'[t] = <<q, t>> => disk'[t] = disk[t] /\ dir[t] = <<q, t>>
      BY <1>5, <1>8, <2>1, <2>2
    <2>4. /\ <<NoProc, t>> \in disk'[t] => <<NoProc, t>> \in disk[t]
          /\ NoFile \in disk'[t] => NoFile \in disk[t]
      BY <1>9, <2>1
    <2> QED
      BY <1>1, <1>2, <2>0, <2>3, <2>4 DEF DurableAt
  <1> QED
    BY <1>10, <1>11, <1>12, <1>13, <1>14, <1>15, <1>16, <1>17, <1>18 DEF PubInv

\* A command syncs the directory of its output, which is durable then.
LEMMA DirSyncKeeps ==
    ASSUME PubInv, UNCHANGED powered, NEW p \in Proc, DirSync(p)
    PROVE  PubInv'
  <1>0. PubTypeOK /\ Reports /\ Placed /\ Contents /\ Temporary /\ Claimed /\ Former /\ Published /\ Durable
    BY DEF PubInv
  <1>1. /\ pc[p] = "dirsync" /\ UNCHANGED <<cmd, out, dir, data, synced>>
        /\ pc' = [pc EXCEPT ![p] = "cleanup"] /\ result' = [result EXCEPT ![p] = "success"]
        /\ disk' = [n \in Name |-> IF n \in {p, Goal(p)} THEN {dir[n]} ELSE disk[n]]
    BY DEF DirSync, Ends
  <1>2. \A q \in Proc :
           /\ pc'[q] = IF q = p THEN "cleanup" ELSE pc[q]
           /\ result'[q] = IF q = p THEN "success" ELSE result[q]
    BY <1>0, <1>1 DEF PubTypeOK
  <1>3. /\ Goal(p) \in Target /\ Goal(p) \in Name /\ p \in Name /\ result[p] = "none"
        /\ Made(p) = <<p, Goal(p)>> /\ Made(p) # NoFile
    BY <1>0, <1>1, Names, Outs, MadeIs DEF Reports
  <1>4. /\ \A q \in Proc :
              /\ Goal(q)' = Goal(q) /\ Made(q)' = Made(q) /\ Staged(q)' = Staged(q)
              /\ Earlier(q)' = Earlier(q)
              /\ Safe(q)' = IF q = p THEN Safe(q) \cup {Goal(q)} ELSE Safe(q)
              /\ Backed(q)' = Backed(q)
              /\ Claims(q)' => Claims(q)
        /\ Overwriters' = Overwriters
    <2>1. \A q \in Proc :
             /\ Goal(q)' = Goal(q) /\ Made(q)' = Made(q) /\ Staged(q)' = Staged(q)
             /\ Earlier(q)' = Earlier(q)
      BY <1>1 DEF Goal, Made, Staged, Earlier
    <2>2. \A q \in Proc : Safe(q)' = IF q = p THEN Safe(q) \cup {Goal(q)} ELSE Safe(q)
      BY <1>2, <1>3, <2>1 DEF Safe
    <2>3. \A q \in Proc : Backed(q)' = Backed(q)
      BY <1>2, <1>3, <2>1 DEF Backed
    <2>4. \A q \in Proc : Claims(q)' => Claims(q)
      BY <1>1, <1>2, <2>1 DEF Claims
    <2>5. Overwriters' = Overwriters
      BY <1>1 DEF Overwriters
    <2> QED
      BY <2>1, <2>2, <2>3, <2>4, <2>5
  <1>5. /\ disk' \in [Name -> SUBSET (File \cup {NoFile})]
        /\ \A n \in Name : disk'[n] \subseteq disk[n] /\ dir[n] \in disk'[n]
        /\ disk'[Goal(p)] = {dir[Goal(p)]}
        /\ \A n \in Name : disk'[n] \in {{dir[n]}, disk[n]}
    BY <1>0, <1>1, <1>3 DEF PubTypeOK, Placed
  <1>6. PubTypeOK'
    BY <1>0, <1>1, <1>2, <1>5 DEF PubTypeOK, Running
  <1>7. Reports'
    BY <1>0, <1>1, <1>2, <1>4 DEF Reports
  <1>8. Placed'
    BY <1>0, <1>1, <1>2, <1>4, <1>5 DEF Placed
  <1>9. Contents'
    BY SMTT(20), <1>0, <1>1, <1>2, <1>4, <1>5, Names DEF Contents
  <1>10. Temporary'
    BY <1>0, <1>1, <1>2, <1>4 DEF Temporary
  <1>11. Claimed'
    BY <1>0, <1>1, <1>4 DEF Claimed, MadeBy, Maker
  <1>12. Former'
    BY <1>0, <1>1, <1>5, Names DEF Former
  <1>13. Published'
    BY <1>0, <1>1, <1>2, <1>4 DEF Published
  <1>14. Durable'
    <2> SUFFICES ASSUME NEW q \in Proc, NEW t \in Safe(q)' PROVE DurableAt(q, t)'
      BY DEF Durable
    <2>1. CASE t \in Safe(q)
      <3>1. DurableAt(q, t) /\ t \in Name
        BY <1>0, <2>1, Outs, Names DEF Durable, Safe
      <3> QED
        BY <1>1, <1>4, <1>5, <3>1 DEF DurableAt
    <2>2. CASE q = p /\ t = Goal(p)
      <3>1. data[Made(p)] = "whole" /\ Made(p) \in synced
        BY <1>0, <1>1 DEF Contents
      <3>2. /\ dir[Goal(p)] # <<NoProc, Goal(p)>>
            /\ dir[Goal(p)] = NoFile => \E r \in Proc \ {p} : Backed(r)
        BY <1>0, <1>1 DEF Published
      <3> QED
        BY <1>1, <1>3, <1>4, <1>5, <2>2, <3>1, <3>2 DEF DurableAt
    <2> QED
      BY <1>4, <2>1, <2>2
  <1> QED
    BY <1>6, <1>7, <1>8, <1>9, <1>10, <1>11, <1>12, <1>13, <1>14 DEF PubInv

\* A command unlinks its temporary file, or what it failed to write, and goes on or ends.
LEMMA CleanupKeeps ==
    ASSUME PubInv, UNCHANGED powered, NEW p \in Proc, Cleanup(p)
    PROVE  PubInv'
  <1>0. PubTypeOK /\ Reports /\ Placed /\ Contents /\ Temporary /\ Claimed /\ Former /\ Published /\ Durable
    BY DEF PubInv
  <1> DEFINE d == [n \in Name |-> IF n \in Unlinks(p) THEN NoFile ELSE dir[n]]
  <1>1. pc[p] = "cleanup" /\ Bindings(d) /\ UNCHANGED <<cmd, data, synced>>
    BY DEF Cleanup, Goes
  <1>2. /\ d \in [Name -> File \cup {NoFile}]
        /\ \A n \in Name : d[n] = IF n \in Unlinks(p) THEN NoFile ELSE dir[n]
    BY <1>0 DEF PubTypeOK
  <1> HIDE DEF d
  <1>3. /\ dir' = d /\ disk' \in [Name -> SUBSET (File \cup {NoFile})]
        /\ \A n \in Name : disk'[n] = IF d[n] = dir[n] THEN disk[n] ELSE disk[n] \cup {NoFile}
        /\ \A n \in Name : dir'[n] \in disk'[n]
    BY <1>0, <1>1, <1>2, BindingsAre
  <1>4. \/ /\ result[p] = "success" /\ out[p] < Len(cmd[p].outs)
           /\ pc' = [pc EXCEPT ![p] = "create"] /\ out' = [out EXCEPT ![p] = out[p] + 1]
           /\ result' = [result EXCEPT ![p] = "none"]
        \/ /\ ~GoesOn(p)
           /\ pc' = [pc EXCEPT ![p] = "ended"] /\ UNCHANGED <<out, result>>
    BY DEF Cleanup, GoesOn, Goes
  <1>5. /\ \A q \in Proc : q # p => /\ pc'[q] = pc[q] /\ result'[q] = result[q] /\ out'[q] = out[q]
        /\ pc'[p] \in {"create", "ended"}
    BY <1>0, <1>4 DEF PubTypeOK
  <1>6. /\ \A q \in Proc : Staged(q)' = Staged(q) /\ Safe(q)' = Safe(q)
        /\ \A q \in Proc : q # p => /\ Goal(q)' = Goal(q) /\ Made(q)' = Made(q)
                                    /\ Earlier(q)' = Earlier(q) /\ Backed(q)' = Backed(q)
                                    /\ Claims(q)' = Claims(q)
        /\ Overwriters' = Overwriters
        /\ ~Claims(p)' /\ Backed(p)' = Backed(p)
        /\ \/ /\ pc'[p] = "ended" /\ Goal(p)' = Goal(p) /\ Earlier(p)' = Earlier(p)
              /\ result'[p] = result[p]
           \/ /\ pc'[p] = "create" /\ Earlier(p)' = Earlier(p) \cup {Goal(p)} /\ result'[p] = "none"
              /\ result[p] = "success" /\ Goal(p)' \notin Earlier(p)'
    <2>1. \A q \in Proc : Staged(q)' = Staged(q)
      BY <1>1 DEF Staged
    <2>2. \A q \in Proc : q # p => /\ Goal(q)' = Goal(q) /\ Made(q)' = Made(q)
                                   /\ Earlier(q)' = Earlier(q) /\ Backed(q)' = Backed(q)
                                   /\ Claims(q)' = Claims(q) /\ Safe(q)' = Safe(q)
      BY <1>1, <1>5 DEF Goal, Made, Earlier, Staged, Backed, Claims, Safe
    <2>3. Overwriters' = Overwriters /\ ~Claims(p)'
      BY <1>1, <1>5 DEF Overwriters, Claims
    <2>4. CASE pc' = [pc EXCEPT ![p] = "ended"] /\ UNCHANGED <<out, result>>
      <3>1. /\ pc'[p] = "ended" /\ Goal(p)' = Goal(p) /\ Earlier(p)' = Earlier(p)
            /\ result'[p] = result[p] /\ Backed(p)' = Backed(p) /\ Safe(p)' = Safe(p)
        BY <1>0, <1>1, <2>4 DEF PubTypeOK, Goal, Earlier, Backed, Staged, Safe
      <3> QED
        BY <2>1, <2>2, <2>3, <3>1
    <2>5. CASE /\ result[p] = "success" /\ out[p] < Len(cmd[p].outs)
               /\ pc' = [pc EXCEPT ![p] = "create"] /\ out' = [out EXCEPT ![p] = out[p] + 1]
               /\ result' = [result EXCEPT ![p] = "none"]
      <3>1. /\ out[p] = 1 /\ cmd[p].outs = <<Public, Private>> /\ Goal(p) = Public /\ Earlier(p) = {}
        BY <1>0, <2>5, Outs
      <3>2. pc'[p] = "create" /\ out'[p] = 2 /\ result'[p] = "none" /\ cmd'[p] = cmd[p]
        BY <1>0, <1>1, <2>5, <3>1 DEF PubTypeOK
      <3>3. Goal(p)' = Private
        BY <3>1, <3>2 DEF Goal
      <3>4. Earlier(p)' = {Public}
        <4>1. 1..out'[p] - 1 = {1} /\ cmd'[p].outs[1] = Public
          BY <3>1, <3>2
        <4> QED
          BY <4>1 DEF Earlier
      <3>5. Safe(p)' = Safe(p) /\ Backed(p)' = Backed(p)
        BY <2>1, <2>5, <3>1, <3>2, <3>4 DEF Safe, Backed
      <3> QED
        BY <2>1, <2>2, <2>3, <2>5, <3>1, <3>2, <3>3, <3>4, <3>5, Names
    <2> QED
      BY <1>4, <2>4, <2>5
  <1>7. /\ Goal(p) \in Target /\ p \notin Target /\ p \in Name /\ Goal(p) \in Name /\ result[p] # "none"
        /\ Staged(p) => Unlinks(p) = {p}
        /\ ~Staged(p) => \/ Unlinks(p) = {} /\ result[p] = "success"
                         \/ Unlinks(p) = {Goal(p)} /\ Claims(p) /\ Backed(p) /\ Goal(p) \notin Safe(p)
    BY <1>0, <1>1, Names, Outs DEF Unlinks, Reports, Claims, Backed, Safe
  <1>8. \A t \in Target : /\ t \in Name
                          /\ \/ dir'[t] = dir[t] /\ disk'[t] = disk[t]
                             \/ /\ t = Goal(p) /\ Claims(p) /\ Backed(p) /\ t \notin Safe(p)
                                /\ dir'[t] = NoFile
    BY <1>2, <1>3, <1>7, Names
  <1>9. \A q \in Proc \cup {NoProc}, t \in Target, n \in Name :
           <<q, t>> \in disk'[n] => <<q, t>> \in disk[n]
    BY <1>3, Names
  <1>10. PubTypeOK'
    <2>1. /\ pc' \in [Proc -> Running \cup {"idle", "ended", "dead"}]
          /\ result' \in [Proc -> {"none", "success", "exists", "failed", "durability"}]
      BY <1>0, <1>4 DEF PubTypeOK, Running
    <2>2. out' \in [Proc -> 1..2] /\ \A q \in Proc : out'[q] <= Len(cmd[q].outs)
      <3>1. CASE out' = out
        BY <1>0, <3>1 DEF PubTypeOK
      <3>2. CASE out[p] < Len(cmd[p].outs) /\ out' = [out EXCEPT ![p] = out[p] + 1]
        <4>1. out[p] = 1 /\ Len(cmd[p].outs) = 2
          BY <1>0, <3>2, Outs
        <4>2. out'[p] = 2 /\ \A q \in Proc : q # p => out'[q] = out[q]
          BY <1>0, <3>2, <4>1 DEF PubTypeOK
        <4>3. out' \in [Proc -> 1..2]
          BY <1>0, <3>2, <4>2 DEF PubTypeOK
        <4>4. ASSUME NEW q \in Proc PROVE out'[q] <= Len(cmd[q].outs)
          <5>1. CASE q = p
            <6>1. cmd[q].outs = cmd[p].outs /\ out'[q] = 2
              BY <4>2, <5>1
            <6>2. Len(cmd[q].outs) = 2
              BY <4>1, <6>1
            <6> QED
              BY <6>1, <6>2
          <5>2. CASE q # p
            BY <1>0, <4>2, <5>2 DEF PubTypeOK
          <5> QED
            BY <5>1, <5>2
        <4> QED
          BY <4>3, <4>4
      <3> QED
        BY <1>4, <3>1, <3>2
    <2> QED
      BY <1>0, <1>1, <1>2, <1>3, <2>1, <2>2 DEF PubTypeOK
  <1>11. Reports'
    <2>1. pc'[p] = "ended" /\ result'[p] = "success" => out'[p] = Len(cmd[p].outs)
      BY <1>0, <1>4, Outs DEF PubTypeOK, GoesOn
    <2> QED
      BY <1>0, <1>1, <1>5, <1>6, <2>1 DEF Reports
  <1>12. Placed'
    <2>1. ASSUME NEW n \in Name, NEW t \in Target, NEW q \in Proc, <<q, t>> \in disk'[n]
          PROVE  /\ n = t \/ n = q
                 /\ t \in Earlier(q)' \/ (t = Goal(q)' /\ pc'[q] \notin {"idle", "create"})
                 /\ n = t /\ t = Goal(q)' /\ Staged(q)' => pc'[q] \notin {"write", "sync", "publish"}
      <3>1. /\ n = t \/ n = q
            /\ t \in Earlier(q) \/ (t = Goal(q) /\ pc[q] \notin {"idle", "create"})
            /\ n = t /\ t = Goal(q) /\ Staged(q) => pc[q] \notin {"write", "sync", "publish"}
        BY <1>0, <1>9, <2>1 DEF Placed
      <3>2. CASE q # p
        BY <1>5, <1>6, <3>1, <3>2
      <3>3. CASE q = p
        BY <1>5, <1>6, <3>1, <3>3
      <3> QED
        BY <3>2, <3>3
    <2>2. \A n \in Name, t \in Target : <<NoProc, t>> \in disk'[n] => n = t
      BY <1>0, <1>9 DEF Placed
    <2> QED
      BY <1>3, <2>1, <2>2 DEF Placed
  <1>13. Contents'
    BY <1>0, <1>1, <1>5, <1>6, <1>9, Names DEF Contents
  <1>14. Temporary'
    <2> SUFFICES ASSUME NEW q \in Proc, powered, dir'[q] # NoFile
                 PROVE  /\ Staged(q)
                        /\ \/ pc'[q] \in {"write", "sync", "publish", "dirsync", "cleanup", "dead"}
                           \/ pc'[q] = "ended" /\ result'[q] = "failed"
      BY <1>6 DEF Temporary
    <2>1. dir'[q] = dir[q] /\ q \notin Unlinks(p)
      BY <1>2, <1>3, Names
    <2>2. Staged(q) /\ q # p
      BY <1>0, <1>7, <2>1 DEF Temporary
    <2> QED
      BY <1>0, <1>5, <2>1, <2>2 DEF Temporary
  <1>15. Claimed'
    <2> SUFFICES ASSUME NEW q \in Proc, Claims(q)'
                 PROVE  /\ dir'[Goal(q)'] = Made(q)' \/ MadeBy(dir'[Goal(q)'], Overwriters)
                        /\ \A r \in Proc \ {q} : Claims(r)' => Goal(r)' # Goal(q)'
      BY <1>6 DEF Claimed, MadeBy, Maker
    <2>1. q # p /\ Claims(q) /\ Goal(q)' = Goal(q) /\ Made(q)' = Made(q) /\ Goal(q) \in Target
      BY <1>0, <1>6, Outs
    <2>2. /\ dir[Goal(q)] = Made(q) \/ MadeBy(dir[Goal(q)], Overwriters)
          /\ \A r \in Proc \ {q} : Claims(r) => Goal(r) # Goal(q)
      BY <1>0, <2>1 DEF Claimed
    <2>3. dir'[Goal(q)] = dir[Goal(q)]
      BY <1>8, <2>1, <2>2
    <2> QED
      BY <1>6, <2>1, <2>2, <2>3
  <1>16. Former'
    BY <1>0, <1>8, Names DEF Former
  <1>17. Published'
    <2> SUFFICES ASSUME NEW q \in Proc, pc'[q] = "dirsync"
                 PROVE  /\ dir'[Goal(q)'] # <<NoProc, Goal(q)'>>
                        /\ dir'[Goal(q)'] = NoFile => \E r \in Proc \ {q} : Backed(r)'
      BY DEF Published
    <2>1. q # p /\ pc[q] = "dirsync" /\ Goal(q)' = Goal(q) /\ Goal(q) \in Target
      BY <1>0, <1>5, <1>6, Outs
    <2>2. /\ dir[Goal(q)] # <<NoProc, Goal(q)>>
          /\ dir[Goal(q)] = NoFile => \E r \in Proc \ {q} : Backed(r)
      BY <1>0, <2>1 DEF Published
    <2>3. CASE dir'[Goal(q)] = dir[Goal(q)]
      BY <1>6, <2>1, <2>2, <2>3
    <2>4. CASE dir'[Goal(q)] # dir[Goal(q)]
      BY <1>6, <1>8, <2>1, <2>4, Names
    <2> QED
      BY <2>3, <2>4
  <1>18. Durable'
    <2> SUFFICES ASSUME NEW q \in Proc, NEW t \in Safe(q) PROVE DurableAt(q, t)'
      BY <1>6 DEF Durable
    <2>0. DurableAt(q, t) /\ t \in Target
      BY <1>0, Outs DEF Durable, Safe
    <2>1. \A r \in Proc : Backed(r)' = Backed(r)
      BY <1>6
    <2>2. CASE dir'[t] = dir[t] /\ disk'[t] = disk[t]
      BY <1>1, <2>0, <2>1, <2>2 DEF DurableAt
    <2>3. CASE t = Goal(p) /\ Backed(p) /\ t \notin Safe(p) /\ dir'[t] = NoFile
      <3>1. q # p /\ dir'[t] # <<q, t>> /\ (<<NoProc, t>> \in disk'[t] => <<NoProc, t>> \in disk[t])
        BY <1>9, <2>0, <2>3, Names
      <3> QED
        BY <1>1, <2>0, <2>1, <2>3, <3>1 DEF DurableAt
    <2> QED
      BY <1>8, <2>0, <2>2, <2>3
  <1> QED
    BY <1>10, <1>11, <1>12, <1>13, <1>14, <1>15, <1>16, <1>17, <1>18 DEF PubInv

\* The power fails: each name keeps a binding the disk has.
LEMMA PowerKeeps ==
    ASSUME PubInv, PowerFailure
    PROVE  PubInv'
  <1>0. PubTypeOK /\ Reports /\ Placed /\ Contents /\ Temporary /\ Claimed /\ Former /\ Published /\ Durable
    BY DEF PubInv
  <1>1. /\ powered' = FALSE /\ UNCHANGED <<cmd, out, result, synced>>
        /\ pc' = [q \in Proc |-> IF pc[q] = "ended" THEN "ended" ELSE "dead"]
        /\ dir' \in [Name -> UNION {disk[n] : n \in Name}]
        /\ \A n \in Name : dir'[n] \in disk[n]
        /\ disk' = [n \in Name |-> {dir'[n]}]
    BY DEF PowerFailure
  <1>2. PICK lost \in SUBSET {f \in File \ synced : data[f] = "whole"} :
           data' = [f \in File |-> IF f \in lost THEN "partial" ELSE data[f]]
    BY DEF PowerFailure
  <1>3. \A f \in synced : data'[f] = data[f]
    BY <1>0, <1>2 DEF PubTypeOK
  <1>4. \A q \in Proc :
           /\ Goal(q)' = Goal(q) /\ Made(q)' = Made(q) /\ Staged(q)' = Staged(q)
           /\ Earlier(q)' = Earlier(q) /\ Safe(q)' = Safe(q) /\ Backed(q)' = Backed(q)
           /\ pc'[q] \in {"ended", "dead"} /\ ~Claims(q)'
    BY <1>1 DEF Goal, Made, Staged, Earlier, Safe, Backed, Claims
  <1>5. /\ \A n \in Name : dir'[n] \in disk[n] /\ disk'[n] = {dir'[n]}
        /\ \A n \in Name : disk'[n] \subseteq disk[n]
    BY <1>1
  <1>6. PubTypeOK'
    <2>1. dir' \in [Name -> File \cup {NoFile}] /\ disk' \in [Name -> SUBSET (File \cup {NoFile})]
      BY <1>0, <1>1 DEF PubTypeOK
    <2>2. data' \in [File -> {"none", "partial", "whole"}]
      BY <1>0, <1>2 DEF PubTypeOK
    <2>3. pc' \in [Proc -> Running \cup {"idle", "ended", "dead"}]
      BY <1>1
    <2> QED
      BY <1>0, <1>1, <2>1, <2>2, <2>3 DEF PubTypeOK
  <1>7. Reports' /\ Claimed' /\ Temporary' /\ Published'
    BY <1>0, <1>1, <1>4 DEF PubTypeOK, Reports, Claimed, Temporary, Published
  <1>8. Placed'
    BY <1>0, <1>4, <1>5 DEF Placed
  <1>9. Contents'
    BY <1>0, <1>1, <1>3, <1>4, <1>5, Names DEF Contents
  <1>10. Former'
    BY <1>5, Names DEF Former
  <1>11. Durable'
    <2> SUFFICES ASSUME NEW q \in Proc, NEW t \in Safe(q) PROVE DurableAt(q, t)'
      BY <1>4 DEF Durable
    <2>0. DurableAt(q, t) /\ t \in Name
      BY <1>0, Outs, Names DEF Durable, Safe
    <2> QED
      BY <1>1, <1>3, <1>4, <1>5, <2>0 DEF DurableAt
  <1> QED
    BY <1>6, <1>7, <1>8, <1>9, <1>10, <1>11 DEF PubInv

\* The steps of a command that change no file.
LEMMA OthersKeep ==
    ASSUME PubInv, UNCHANGED powered, NEW p \in Proc,
           \/ Begin(p) \/ Refuse(p) \/ Collide(p) \/ Fail(p) \/ Interrupt(p) \/ CleanupFails(p) \/ Kill(p)
    PROVE  PubInv'
  <1>0. PubTypeOK /\ Reports /\ Temporary
    BY DEF PubInv
  <1>1. /\ pc \in [Proc -> Running \cup {"idle", "ended", "dead"}]
        /\ result \in [Proc -> {"none", "success", "exists", "failed", "durability"}]
        /\ result = [result EXCEPT ![p] = result[p]]
        /\ pc[p] \in (Running \ {"cleanup"}) \cup {"idle"} => result[p] = "none"
        /\ pc[p] \in {"idle", "create"} => ~powered \/ dir[p] = NoFile
    BY <1>0 DEF PubTypeOK, Reports, Temporary, Running
  <1>2. CASE Begin(p)
    <2>1. pc[p] = "idle" /\ UNCHANGED fileVars
      BY <1>2 DEF Begin
    <2>2. \/ Ends(p, "ended", "exists")
          \/ Goes(p, "create")
      BY <1>2 DEF Begin
    <2>3. CASE Ends(p, "ended", "exists")
      <3>1. /\ UNCHANGED <<cmd, out, fileVars, powered>>
            /\ pc' = [pc EXCEPT ![p] = "ended"] /\ result' = [result EXCEPT ![p] = "exists"]
        BY <2>1, <2>3 DEF Ends
      <3>2. result[p] = "none" /\ (powered => dir[p] = NoFile)
        BY <1>1, <2>1
      <3> QED
        BY <2>1, <3>1, <3>2, ControlKeeps
    <2>4. CASE Goes(p, "create")
      <3>1. result[p] = "none"
        BY <1>1, <2>1
      <3>2. /\ UNCHANGED <<cmd, out, fileVars, powered>>
            /\ pc' = [pc EXCEPT ![p] = "create"] /\ result' = [result EXCEPT ![p] = "none"]
        BY <1>1, <2>1, <2>4, <3>1 DEF Goes
      <3> QED
        BY <2>1, <3>1, <3>2, ControlKeeps
    <2> QED
      BY <2>2, <2>3, <2>4
  <1>3. CASE Refuse(p)
    BY <1>0, <1>1, <1>3, ControlKeeps DEF Refuse, Ends, Running
  <1>4. CASE Collide(p)
    BY <1>0, <1>1, <1>4, ControlKeeps DEF Collide, Ends, Running, Reports
  <1>5. CASE Fail(p)
    BY <1>0, <1>1, <1>5, ControlKeeps DEF Fail, Ends, Running, Staged, Reports
  <1>6. CASE Interrupt(p)
    BY <1>0, <1>1, <1>6, ControlKeeps DEF Interrupt, Ends, Running
  <1>7. CASE CleanupFails(p)
    BY <1>0, <1>1, <1>7, ControlKeeps DEF CleanupFails, Ends, Running
  <1>8. CASE Kill(p)
    BY <1>0, <1>1, <1>8, ControlKeeps DEF Kill, Goes, Running
  <1> QED
    BY <1>2, <1>3, <1>4, <1>5, <1>6, <1>7, <1>8

-----------------------------------------------------------------------------
(* The invariant, and what it says.                                        *)

\* Every step keeps the invariant.
LEMMA PubInvStep == PubInv /\ [PubNext]_pubVars => PubInv'
  <1> SUFFICES ASSUME PubInv, [PubNext]_pubVars PROVE PubInv'
    OBVIOUS
  <1>1. CASE PowerFailure
    BY <1>1, PowerKeeps
  <1>2. ASSUME NEW p \in Proc, ProcStep(p), UNCHANGED powered PROVE PubInv'
    BY <1>2, CreateKeeps, WriteKeeps, SyncKeeps, PublishKeeps, DirSyncKeeps, CleanupKeeps, OthersKeep
       DEF ProcStep
  <1>3. CASE UNCHANGED pubVars
    <2>1. UNCHANGED <<cmd, pc, out, result, dir, disk, data, synced, powered>>
      BY <1>3 DEF pubVars, procVars, fileVars
    <2>2. /\ \A p \in Proc :
                /\ Goal(p)' = Goal(p) /\ Made(p)' = Made(p) /\ Staged(p)' = Staged(p)
                /\ Earlier(p)' = Earlier(p) /\ Safe(p)' = Safe(p) /\ Backed(p)' = Backed(p)
                /\ Claims(p)' = Claims(p)
          /\ Overwriters' = Overwriters
      BY <2>1 DEF Goal, Made, Staged, Earlier, Safe, Backed, Claims, Overwriters
    <2>3. PubTypeOK' /\ Former'
      BY <2>1 DEF PubInv, PubTypeOK, Former
    <2>4. Reports' /\ Placed' /\ Contents' /\ Temporary' /\ Published'
      BY <2>1, <2>2 DEF PubInv, Reports, Placed, Contents, Temporary, Published
    <2>5. Claimed'
      BY <2>1, <2>2 DEF PubInv, Claimed, MadeBy, Maker
    <2>6. Durable'
      <3> SUFFICES ASSUME NEW p \in Proc, NEW t \in Safe(p) PROVE DurableAt(p, t)'
        BY <2>2 DEF Durable
      <3>1. DurableAt(p, t)
        BY DEF PubInv, Durable
      <3> QED
        BY <2>1, <2>2, <3>1 DEF DurableAt
    <2> QED
      BY <2>3, <2>4, <2>5, <2>6 DEF PubInv
  <1> QED
    BY <1>1, <1>2, <1>3 DEF PubNext

\* Before any command began, each name has the former file or none.
LEMMA PubInvInit == PubInit => PubInv
  <1> SUFFICES ASSUME PubInit PROVE PubInv
    OBVIOUS
  <1>1. PICK there \in SUBSET Target :
           /\ dir = [n \in Name |-> IF n \in there THEN <<NoProc, n>> ELSE NoFile]
           /\ synced = {<<NoProc, t>> : t \in there}
    BY DEF PubInit
  <1>2. /\ cmd \in [Proc -> Asked] /\ pc = [p \in Proc |-> "idle"] /\ out = [p \in Proc |-> 1]
        /\ result = [p \in Proc |-> "none"] /\ disk = [n \in Name |-> {dir[n]}]
        /\ data = [f \in File |-> IF f \in synced THEN "whole" ELSE "none"] /\ powered = TRUE
    BY DEF PubInit
  <1>3. PubTypeOK
    <2>1. \A p \in Proc : cmd[p] \in Command /\ Len(cmd[p].outs) >= 1
      <3>1. \A c \in Command : Len(c.outs) >= 1
        <4>1. Len(<<Public>>) = 1 /\ Len(<<Private>>) = 1 /\ Len(<<Public, Private>>) = 2
          OBVIOUS
        <4> QED
          BY <4>1 DEF Command
      <3> QED
        BY <1>2, <3>1 DEF Asked
    <2>2. dir \in [Name -> File \cup {NoFile}] /\ synced \subseteq File
      BY <1>1, Names
    <2>3. disk \in [Name -> SUBSET (File \cup {NoFile})]
      BY <1>2, <2>2
    <2>4. cmd \in [Proc -> Command]
      BY <1>2 DEF Asked
    <2> QED
      BY <1>2, <2>1, <2>2, <2>3, <2>4 DEF PubTypeOK, Running
  <1>4. \A n \in Name : /\ disk[n] = {dir[n]}
                        /\ dir[n] = NoFile \/ (n \in Target /\ dir[n] = <<NoProc, n>>)
    BY <1>1, <1>2
  <1>9. \A q \in Proc, t \in Target, n \in Name : <<q, t>> \notin disk[n]
    BY <1>4, Names
  <1>5. Placed
    <2>2. \A t \in Target, n \in Name : <<NoProc, t>> \in disk[n] => n = t
      BY <1>4, Names
    <2> QED
      BY <1>4, <1>9, <2>2 DEF Placed
  <1>6. \A p \in Proc : pc[p] = "idle" /\ result[p] = "none" /\ Safe(p) = {} /\ ~Claims(p) /\ dir[p] = NoFile
    <2>1. 1..1 - 1 = {}
      OBVIOUS
    <2> QED
      BY <1>1, <1>2, <2>1, Names DEF Safe, Earlier, Claims
  <1>7. Contents
    BY <1>6, <1>9, Names DEF Contents
  <1>8. Former
    BY <1>4, Names DEF Former
  <1> QED
    BY <1>3, <1>5, <1>6, <1>7, <1>8 DEF PubInv, Reports, Temporary, Claimed, Published, Durable

\* At any moment, with any number of commands, the files are where the invariant says.
THEOREM PublicationInvariant == PubSpec => []PubInv
  BY PubInvInit, PubInvStep, PTL DEF PubSpec

\* A staged output is never seen but whole, nor found otherwise after a power failure
\* (pqc_agent_tools.py:311-326).
THEOREM StagedWhole == PubSpec => []StagedOutputWhole
  <1>1. PubInv => StagedOutputWhole
    <2> SUFFICES ASSUME PubInv, NEW t \in Target, NEW f \in disk[t] \cup {dir[t]}, MadeBy(f, Stagers)
                 PROVE  data[f] = "whole"
      BY DEF StagedOutputWhole
    <2>1. f \in disk[t] /\ f \in File /\ f # NoFile
      BY Names DEF PubInv, PubTypeOK, Placed, MadeBy
    <2>2. PICK q \in Proc \cup {NoProc}, s \in Target : f = <<q, s>>
      BY <2>1 DEF File
    <2>3. q \in Proc /\ Staged(q)
      BY <2>2 DEF MadeBy, Maker, Stagers
    <2>4. s = t
      <3>1. t \in Name /\ <<q, s>> \in disk[t]
        BY <2>1, <2>2, Names
      <3>2. t = s \/ t = q
        BY <2>3, <3>1 DEF PubInv, Placed
      <3> QED
        BY <2>3, <3>2, Names
    <2> QED
      BY <2>1, <2>2, <2>3, <2>4 DEF PubInv, Contents
  <1> QED
    BY <1>1, PublicationInvariant, PTL

\* What a command that reports success has published survives a power failure
\* (pqc_agent_tools.py:199-207, 225, 337).
THEOREM SuccessDurable == PubSpec => []SuccessIsDurable
  <1>1. PubInv => SuccessIsDurable
    <2> SUFFICES ASSUME PubInv, NEW p \in Proc, result[p] = "success", pc[p] = "ended",
                        NEW t \in Outputs(p)
                 PROVE  /\ <<NoProc, t>> \notin disk[t]
                        /\ (\A q \in Proc : ~Backed(q)) => NoFile \notin disk[t]
      BY DEF SuccessIsDurable
    <2>1. t \in Safe(p)
      BY Outs DEF PubInv, Reports, Safe
    <2> QED
      BY <2>1 DEF PubInv, Durable, DurableAt
  <1> QED
    BY <1>1, PublicationInvariant, PTL

\* No private file of a pair stands without its public file (pqc_agent_tools.py:770-778).
THEOREM PrivateAccompanied == PubSpec => []PrivateNeverAlone
  <1>1. PubInv => PrivateNeverAlone
    <2> SUFFICES ASSUME PubInv, NEW p \in Proc, cmd[p].outs = <<Public, Private>>,
                        <<p, Private>> \in disk[Private], \A q \in Proc \ {p} : ~Backed(q)
                 PROVE  NoFile \notin disk[Public] /\ data[<<p, Public>>] = "whole"
      BY DEF PrivateNeverAlone
    <2>1. PubTypeOK /\ Private \in Earlier(p) \cup {Goal(p)}
      BY Names DEF PubInv, Placed
    <2>2. Public \in Safe(p)
      BY <2>1, Outs, Names DEF Safe
    <2> QED
      BY <2>2 DEF PubInv, Durable, DurableAt
  <1> QED
    BY <1>1, PublicationInvariant, PTL

\* A command that ended in good order leaves no temporary file (pqc_agent_tools.py:
\* 267-273, 347-353).
THEOREM TemporaryGone == PubSpec => []NoTemporaryLeft
  <1>1. PubInv => NoTemporaryLeft
    BY DEF PubInv, Temporary, NoTemporaryLeft
  <1> QED
    BY <1>1, PublicationInvariant, PTL

\* A step lets a standing result give way only to an overwriting command's file.
TakesOnlyOver ==
    \A t \in Target :
        LET f == dir[t] IN
        /\ f # NoFile
        /\ Maker(f) = NoProc \/ (Maker(f) \in Proc \ Overwriters /\ Kept(Maker(f)))
        /\ dir'[t] # f
        => MadeBy(dir'[t], Overwriters)

\* Steps at one name: new files find none, cleanups unlink what is no one's result, and the
\* disk has what a power failure leaves.
LEMMA StepTakesOnlyOver == PubInv /\ [PubNext]_pubVars => TakesOnlyOver
  <1> SUFFICES ASSUME PubInv, [PubNext]_pubVars, NEW t \in Target, dir[t] # NoFile,
                      Maker(dir[t]) = NoProc \/ (Maker(dir[t]) \in Proc \ Overwriters /\ Kept(Maker(dir[t]))),
                      dir'[t] # dir[t]
               PROVE  MadeBy(dir'[t], Overwriters)
    BY DEF TakesOnlyOver
  <1>0. /\ PubTypeOK /\ Reports /\ Placed /\ Claimed /\ Former /\ Durable
        /\ t \in Name /\ dir[t] \in disk[t] /\ dir[t] \in File
    BY Names DEF PubInv, Placed, PubTypeOK
  <1>1. PICK q \in Proc \cup {NoProc} : dir[t] = <<q, t>> /\ Maker(dir[t]) = q
    <2>1. PICK r \in Proc \cup {NoProc}, s \in Target : dir[t] = <<r, s>>
      BY <1>0 DEF File
    <2>2. s = t
      <3>1. <<r, s>> \in disk[t]
        BY <1>0, <2>1
      <3>2. CASE r = NoProc
        <4>1. <<NoProc, s>> \in disk[t]
          BY <3>1, <3>2
        <4> QED
          BY <1>0, <2>1, <4>1 DEF Placed
      <3>3. CASE r \in Proc
        <4>1. t = s \/ t = r
          BY <1>0, <2>1, <3>1, <3>3 DEF Placed
        <4> QED
          BY <3>3, <4>1, Names
      <3> QED
        BY <2>1, <3>2, <3>3
    <2> QED
      BY <2>1, <2>2 DEF Maker
  <1>2. /\ NoProc \notin Proc /\ NoProc \notin Overwriters
        /\ \A p \in Proc : MadeBy(Made(p), Overwriters) <=> p \in Overwriters
    BY <1>0, PublicationAssumption, MadeIs DEF MadeBy, Maker, Overwriters, Made
  <1>3. CASE PowerFailure
    <2>1. dir'[t] \in disk[t] /\ powered' = FALSE
      BY <1>0, <1>3 DEF PowerFailure
    <2>2. CASE q = NoProc
      BY <1>0, <1>1, <2>1, <2>2 DEF Former
    <2>3. CASE q \in Proc
      <3>0. Kept(q)
        BY <1>1, <1>2, <2>3
      <3>1. result[q] = "success"
        BY <2>1, <3>0 DEF Kept
      <3>3. <<q, t>> \in disk[t]
        BY <1>0, <1>1
      <3>4. t \in Earlier(q) \cup {Goal(q)}
        BY <1>0, <2>3, <3>3 DEF Placed
      <3>2. t \in Safe(q)
        BY <3>1, <3>4 DEF Safe
      <3>5. DurableAt(q, t)
        BY <1>0, <2>3, <3>2 DEF Durable
      <3> QED
        BY <1>1, <2>1, <3>5 DEF DurableAt
    <2> QED
      BY <2>2, <2>3
  <1>4. ASSUME NEW p \in Proc, ProcStep(p) PROVE MadeBy(dir'[t], Overwriters)
    <2>0. p # t /\ Goal(p) \in Target
      BY <1>0, Names, Outs
    <2>1. CASE Create(p)
      <3>1. cmd[p].overwrite \/ dir[Goal(p)] = NoFile
        BY <2>1 DEF Create, Taken
      <3>2. dir' = [dir EXCEPT ![IF Staged(p) THEN p ELSE Goal(p)] = Made(p)]
        BY <2>1 DEF Create, Bindings
      <3> QED
        BY <1>0, <2>0, <3>1, <3>2 DEF Staged, PubTypeOK
    <2>2. CASE Publish(p)
      <3>1. cmd[p].overwrite \/ dir[Goal(p)] = NoFile
        BY <2>2 DEF Publish, Taken
      <3>2. dir' = [dir EXCEPT ![Goal(p)] = Made(p), ![p] = IF cmd[p].overwrite THEN NoFile ELSE @]
        BY <2>2 DEF Publish, Bindings
      <3>3. t = Goal(p) /\ dir'[t] = Made(p)
        BY <1>0, <2>0, <3>2 DEF PubTypeOK
      <3> QED
        BY <1>2, <3>1, <3>3 DEF Overwriters
    <2>3. CASE Cleanup(p)
      <3>1. pc[p] = "cleanup" /\ t \in Unlinks(p)
        BY <1>0, <2>3 DEF Cleanup, Bindings
      <3>2. Claims(p) /\ t = Goal(p)
        BY <2>0, <3>1 DEF Unlinks, Claims
      <3>3. dir[t] = Made(p) \/ MadeBy(dir[t], Overwriters)
        BY <1>0, <3>2 DEF Claimed
      <3>4. q # p
        BY <1>1, <1>2, <3>1 DEF Kept
      <3> QED
        BY <1>0, <1>1, <1>2, <3>3, <3>4, MadeIs DEF MadeBy
    <2>4. CASE UNCHANGED dir
      BY <2>4
    <2> QED
      BY <1>4, <2>1, <2>2, <2>3, <2>4 DEF ProcStep, Begin, Refuse, Write, Sync, Collide, DirSync, Fail,
         Interrupt, CleanupFails, Kill, fileVars
  <1>5. CASE UNCHANGED pubVars
    BY <1>5 DEF pubVars, fileVars
  <1> QED
    BY <1>3, <1>4, <1>5 DEF PubNext

\* The former file, and every result reported as there to stay, gives way to overwriting
\* commands only: not to another new file, a cleanup or a power failure
\* (pqc_agent_tools.py:210-235, 326-346).
THEOREM OverwritingTakes == PubSpec => OnlyOverwritingTakes
  BY PublicationInvariant, StepTakesOnlyOver, PTL DEF PubSpec, OnlyOverwritingTakes, TakesOnlyOver
=============================================================================
