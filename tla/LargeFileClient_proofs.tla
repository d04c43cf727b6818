------------------------ MODULE LargeFileClient_proofs ------------------------
(***************************************************************************)
(* Proofs about LargeFileClient, for any number of objects of the page, of *)
(* jobs, of pages hidden and of views left: ClientInv holds throughout,    *)
(* and from it the safety properties of MCLargeFileClient follow.  One     *)
(* lemma for each action, under it one step for each part of the invariant *)
(* that the action can disturb.                                            *)
(***************************************************************************)
EXTENDS LargeFileClient, TLAPS

\* A message of which nobody awaits the answer: what a reload left behind.
LeftBehind(m) ==
    m.run \in Run /\ run[m.run] = NoObject /\ m.op \in {"cancel", "clear"} /\ m.what = "sent"

\* What each function asks for, what it can be answered, and that an answer which says that
\* a job is gone is true.
Proper(m) ==
    /\ m.from = "begin" => m.op \in {"create", "upload", "start", "cancel"}
    /\ m.from \in {"user", "clean"} => m.op \in {"cancel", "clear"}
    /\ m.from = "look" => m.op = "status"
    /\ m.run = NoRun => m.from = "look"
    /\ m.op = "create" => m.what \in {"sent", "waiting", "error"}
    /\ m.op = "upload" => m.what \in {"sent", "waiting", "expired", "error"}
    /\ m.op = "clear" => m.what \in {"sent", "cleared", "error"}
    /\ m.what = "cleared" => m.op = "clear"
    /\ m.job = NoJob <=> m.op = "create" /\ m.what # "waiting"
    /\ m.what \in {"expired", "cleared"} => srv[m.job] = "gone"

\* Whoever waits for the answer to m waits for what m is about.
About(m) ==
    /\ Awaited(m) \/ LeftBehind(m)
    /\ m.from = "begin" /\ m.op # "create" /\ Current(m.run) => m.job = run[m.run].job
    /\ m.from = "user" /\ Awaited(m) => m.job = run[m.run].job
    /\ m.from = "look" => m.run = hook.look.run /\ m.job = hook.look.job

\* Every request in flight is a proper one, is awaited by whom it came from, and is the only
\* one of its function and object.
NetInv ==
    /\ \A m \in net : Proper(m) /\ About(m)
    /\ \A m, n \in net : m.from = n.from /\ m.run = n.run => m = n

\* The stage of a start that is still wanted.
StageOf(begin) ==
    CASE begin = "create" -> "reserving"
      [] begin = "upload" -> "uploading"
      [] begin = "start"  -> "starting"
      [] OTHER            -> "none"

\* What the fields of an object of useLargeFileJob.ts:60-70 say of one another: an object
\* has a job exactly where it shows a state; what the user or the cleanup asks is asked of a
\* job; a start that goes on in an object which is no longer the current one is cancelled.
RunOK(r) ==
    /\ run[r].job = NoJob <=> run[r].state = "none"
    /\ run[r].user # "none" => run[r].job # NoJob /\ run[r].job \in asked
    /\ run[r].user = "cancel" => run[r].cancelled
    /\ run[r].clean # "none" => /\ run[r].cancelled
                                /\ run[r].begin # "create"
                                /\ run[r].job = NoJob \/ run[r].job \in asked
    /\ run[r].begin = "create" => run[r].job = NoJob
    /\ run[r].begin # "none" /\ ~Current(r) => run[r].cancelled
    /\ run[r].begin = "cancel" => run[r].cancelled
    /\ run[r].secret => Current(r) /\ ~run[r].cancelled /\ run[r].begin \in {"create", "upload"}

\* The run of the hook.
CurrentOK(r) ==
    /\ hook.pendingId = NoJob
    /\ run[r].begin # "none" /\ ~run[r].cancelled =>
          /\ hook.stage = StageOf(run[r].begin)
          /\ run[r].state \in {"none", "waiting"}
          /\ ~hook.paused
    /\ run[r].job = NoJob => run[r].begin = "create"
    /\ run[r].user # "none" => hook.stage \in {"cancelling", "clearing"}
    /\ hook.recoveryPending => run[r].job # NoJob /\ run[r].cancelled
    /\ hook.hidden =>
          /\ run[r].cancelled
          /\ \/ run[r].job \in {NoJob, locator} \cup asked
             \/ srv[run[r].job] = "gone"

\* Every object is in order, and the current one is the one that the hook shows.
RunInv ==
    /\ \A r \in Run : RunOK(r)
    /\ hook.active # NoRun => CurrentOK(hook.active)

\* A status is asked for a job, on behalf of an object whose start is over or cancelled and,
\* where that object is the current one, for its own job.
LookInv ==
    /\ hook.look.step = "none" => hook.look = NoLook
    /\ hook.look.step # "none" => hook.look.job # NoJob
    /\ hook.look.run # NoRun => run[hook.look.run].cancelled \/ run[hook.look.run].begin = "none"
    /\ hook.look.run # NoRun /\ Current(hook.look.run) =>
          run[hook.look.run].job = hook.look.job /\ run[hook.look.run].user = "none"

\* What a hidden or unmounted hook has given up, and that a recovery still has a job to
\* ask about (which is what NeverStranded says of the user).
HookInv ==
    /\ ~hook.mounted => /\ hook.active = NoRun /\ hook.pendingId = NoJob /\ ~hook.hidden
                        /\ hook.look = NoLook /\ hook.restore = "none"
    /\ hook.hidden => /\ hook.look = NoLook /\ hook.restore = "none"
                      /\ hook.restoring \/ hook.active = NoRun
    /\ hook.active = NoRun /\ hook.recoveryPending => hook.pendingId # NoJob
    /\ hook.recoveryPending /\ hook.look # NoLook => StillAbout(hook.look)
    /\ hook.restore \in Run => run[hook.restore].cancelled
    /\ NeverStranded

\* A stored ID is the one the hook is about, unless its job is gone.
LocatorInv ==
    hook.mounted /\ locator # NoJob =>
        \/ srv[locator] = "gone"
        \/ hook.active = NoRun /\ hook.pendingId = locator
        \/ hook.active # NoRun /\ run[hook.active].job = locator

\* The page, its storage or a request names the job j.
Named(j) ==
    \/ \E r \in Run : run[r].job = j
    \/ j \in {locator, hook.pendingId, hook.look.job}
    \/ \E m \in net : m.op # "create" /\ m.job = j

\* The answer to a create, on its way.
Made(m) == m \in net /\ m.op = "create" /\ m.job # NoJob

\* A job is named only after the answer to its creation was heard.
FreshInv ==
    /\ \A j \in Job : Named(j) => srv[j] # "none"
    /\ \A m \in net : Made(m) => srv[m.job] # "none" /\ ~Named(m.job)
    /\ \A m, n \in net : Made(m) /\ Made(n) /\ m.job = n.job => m = n

\* What another run of the same job was asked for has settled.
SettledInv ==
    /\ hook.active # NoRun => \A q \in Run \ {hook.active} :
          run[q].job = run[hook.active].job => run[q].user = "none"
    /\ hook.look.step = "status" => ~Mutated(hook.look.job)

\* The invariant: the properties of MCLargeFileClient that a step preserves only where the
\* requests in flight, the objects and the hook agree.
ClientInv ==
    /\ ClientTypeOK /\ NetInv /\ RunInv /\ LookInv /\ HookInv /\ LocatorInv /\ FreshInv
    /\ SettledInv /\ NoOrphan

\* The types of ClientTypeOK without what it says of the requests for a status.
Types ==
    /\ srv \in [Job -> Shown \cup {"none", "gone"}]
    /\ net \subseteq Request
    /\ locator \in Job \cup {NoJob}
    /\ hook \in Hook
    /\ run \in [Run -> RunObject]
    /\ left \in [page : 0..MaxHides, view : 0..MaxLeaves]
    /\ known \subseteq Job
    /\ asked \subseteq Job

\* What Proper says of a message stays true, since a job that is gone stays gone.
LEMMA ProperKept ==
    ASSUME NEW m \in net, Proper(m),
           srv[m.job] = "gone" => srv'[m.job] = "gone"
    PROVE  Proper(m)'
  BY DEF Proper

\* What About says of a message stays true when nothing of what it is about changes.
LEMMA AboutKept ==
    ASSUME NEW m \in Request, Proper(m), About(m),
           m.from = "look" => hook'.look = hook.look,
           m.run \in Run => run'[m.run] = run[m.run],
           m.run \in Run /\ Current(m.run)' => Current(m.run)
    PROVE  About(m)'
<1>1. m.from = "look" \/ m.run \in Run
  BY DEF Proper, Request
<1>2. CASE m.from = "look"
  BY <1>2 DEF About, Awaited, LeftBehind, Proper
<1>3. CASE m.from # "look"
  <2>1. run'[m.run] = run[m.run] /\ (Current(m.run)' => Current(m.run))
    BY <1>1, <1>3
  <2>2. Awaited(m) => Awaited(m)'
    BY <2>1, <1>3 DEF Awaited, Request
  <2>3. Awaited(m)' => Awaited(m)
    BY <2>1, <1>3 DEF Awaited, Request
  <2>4. LeftBehind(m) => LeftBehind(m)'
    BY <2>1 DEF LeftBehind, NoObject, NewRun
  <2> QED BY <2>1, <2>2, <2>3, <2>4, <1>3 DEF About
<1> QED BY <1>2, <1>3

\* ... or when its run goes on in another way than the one it is about.
LEMMA AboutKeptFor ==
    ASSUME NEW m \in Request, Proper(m), About(m), m.run \in Run, m.from # "look",
           Awaited(m),
           m.from = "begin" => run'[m.run].begin = run[m.run].begin,
           m.from = "user" => run'[m.run].user = run[m.run].user,
           m.from = "clean" => run'[m.run].clean = run[m.run].clean,
           \/ run'[m.run].job = run[m.run].job
           \/ m.from = "clean"
           \/ m.from = "begin" /\ ~Current(m.run)',
           Current(m.run)' => Current(m.run)
    PROVE  About(m)'
<1>1. Awaited(m)'
  BY DEF Awaited, Request
<1> QED BY <1>1 DEF About

\* The parts of the invariant and of the assumption that nearly every step cites.
LEMMA TypesOK ==
    ASSUME ClientInv
    PROVE  Types /\ ClientTypeOK
  BY DEF ClientInv, Types, ClientTypeOK

\* An object of the page is a record of its type.
LEMMA RunStatesAre ==
    ASSUME Types, NEW r \in Run
    PROVE  run[r] \in RunObject
  BY DEF Types

\* No status asked for is a value of the field.
LEMMA LookIs == NoLook \in Look
  BY DEF NoLook, Look

\* A fresh object has no job, no request and no state.
LEMMA NoObjectIs ==
    /\ NoObject.job = NoJob /\ NoObject.state = "none" /\ NoObject.begin = "none"
    /\ NoObject.user = "none" /\ NoObject.clean = "none" /\ NoObject.cancelled = FALSE
    /\ NoObject.secret = FALSE /\ NoObject.keep = FALSE
    /\ NoObject \in RunObject
  BY DEF NoObject, NewRun, RunObject

\* What the page has is no leftover of a reload, and one function has one request at a time.
LEMMA MessageIs ==
    ASSUME ClientInv, NEW m \in net
    PROVE  /\ Proper(m) /\ About(m) /\ m \in Request
           /\ m.from # "look" => m.run \in Run
           /\ m.run \in Run /\ Current(m.run) => Awaited(m)
           /\ m.run \in Run /\ run[m.run].clean # "none" => Awaited(m)
<1>1. Proper(m) /\ About(m) /\ m \in Request
  BY TypesOK DEF ClientInv, NetInv, Types
<1>2. m.from # "look" => m.run \in Run
  BY <1>1 DEF Proper, Request
<1>3. ASSUME m.run \in Run, Current(m.run) PROVE run[m.run] # NoObject
  BY <1>3, NoObjectIs, ClientAssumption DEF ClientInv, RunInv, CurrentOK, Current
<1> QED BY <1>1, <1>2, <1>3, NoObjectIs DEF About, LeftBehind

\* A request of the user's is on its way only while the run notes that.
LEMMA UserMessage ==
    ASSUME ClientInv, NEW m \in net, m.from = "user", Current(m.run)
    PROVE  run[m.run].user = m.op /\ run[m.run].user # "none"
<1>1. m.run \in Run /\ Awaited(m) /\ Proper(m)
  BY MessageIs
<1> QED BY <1>1 DEF Awaited, Proper

\* The messages about another run than r, when only r changes.
LEMMA AboutOthers ==
    ASSUME ClientInv, NEW r \in Run, NEW m \in net, m.run # r,
           \A q \in Run \ {r} : run'[q] = run[q],
           m.from = "look" => hook'.look = hook.look,
           hook'.active \in {hook.active, r, NoRun}
    PROVE  About(m)'
<1>1. Proper(m) /\ About(m) /\ m \in Request
  BY MessageIs
<1>2. m.run \in Run /\ Current(m.run)' => Current(m.run)
  BY ClientAssumption DEF Current
<1> QED BY <1>1, <1>2, AboutKept

\* The messages after a step that adds the message new, or may remove some.
LEMMA NetStep ==
    ASSUME ClientInv, NEW new,
           \A j \in Job : srv[j] = "gone" => srv'[j] = "gone",
           \A m \in net' : m \in net \/ m = new,
           \A m \in net \cap net' : m # new => About(m)',
           new \in net' => Proper(new)' /\ About(new)',
           \A m \in net' : new \in net' /\ m.from = new.from /\ m.run = new.run => m = new
    PROVE  NetInv'
<1>1. ASSUME NEW m \in net', m # new PROVE Proper(m)' /\ About(m)'
  <2>1. m \in net /\ Proper(m) /\ m \in Request
    BY <1>1, MessageIs
  <2>2. srv[m.job] = "gone" => srv'[m.job] = "gone" \/ m.job = NoJob
    BY <2>1 DEF Request
  <2>3. Proper(m)'
    BY <2>1, <2>2 DEF Proper
  <2> QED BY <1>1, <2>1, <2>3
<1>2. \A m, n \in net' : m.from = n.from /\ m.run = n.run => m = n
  BY DEF ClientInv, NetInv
<1> QED BY <1>1, <1>2 DEF NetInv

\* ... and one that adds none.
LEMMA NetShrinks ==
    ASSUME ClientInv,
           \A j \in Job : srv[j] = "gone" => srv'[j] = "gone",
           net' \subseteq net,
           \A m \in net' : About(m)'
    PROVE  NetInv'
<1>1. ASSUME NEW m \in net' PROVE Proper(m)'
  <2>1. m \in net /\ Proper(m) /\ m \in Request
    BY <1>1, MessageIs
  <2>2. srv[m.job] = "gone" => srv'[m.job] = "gone" \/ m.job = NoJob
    BY <2>1 DEF Request
  <2> QED BY <2>1, <2>2 DEF Proper
<1> QED BY <1>1 DEF ClientInv, NetInv

\* A step that names no other job.
LEMMA FreshStep ==
    ASSUME ClientInv,
           \A j \in Job : srv[j] # "none" => srv'[j] # "none",
           \A j \in Job : Named(j)' => Named(j),
           \A m \in net' : m.op = "create" /\ m.job # NoJob => m \in net
    PROVE  FreshInv'
<1>1. \A m \in net : m.job \in Job \cup {NoJob}
  BY MessageIs DEF Request
<1> QED BY <1>1 DEF ClientInv, FreshInv, Made

\* What refresh does when it looks.
LEMMA RefreshesIs ==
    ASSUME Types, NEW h \in Hook, Refreshes(h), CanLook(h)
    PROVE  /\ /\ hook'.mounted = h.mounted /\ hook'.hidden = h.hidden
              /\ hook'.active = h.active /\ hook'.pendingId = h.pendingId
              /\ hook'.restoring = hook'.restoring
              /\ hook'.recoveryPending = h.recoveryPending /\ hook'.paused = h.paused
              /\ hook'.stage = h.stage /\ hook'.look = hook'.look
              /\ hook'.restore = h.restore
           /\ hook'.restoring \in BOOLEAN /\ (h.restoring => hook'.restoring) /\ hook' \in Hook
           /\ hook'.look.run = h.active /\ hook'.look.job = Target(h) /\ hook'.look # NoLook
           /\ hook'.look.step = (IF Mutated(Target(h)) THEN "wait" ELSE "status")
           /\ h.look = NoLook /\ ~Changing /\ Target(h) \in Job
           /\ \E new \in Request :
                 /\ new = Sent("look", h.active, "status", Target(h))
                 /\ \A n : n \in net' <=> n \in net \/ (hook'.look.step = "status" /\ n = new)
<1> DEFINE l == [run |-> h.active, job |-> Target(h),
                 step |-> IF LooksNow(Target(h)) THEN "status" ELSE "wait"]
           b == h.restoring \/ h.active = NoRun \/ h.pendingRestoration
           new == Sent("look", h.active, "status", Target(h))
<1>1. h.look = NoLook /\ ~Changing /\ Target(h) \in Job
  BY ClientAssumption DEF CanLook, Types, Target, Hook, RunObject
<1>2. l \in Look /\ l.run = h.active /\ l.job = Target(h)
      /\ l.step = (IF Mutated(Target(h)) THEN "wait" ELSE "status") /\ l # NoLook
  BY <1>1 DEF Look, LooksNow, Hook, NoLook
<1>3. b \in BOOLEAN /\ (h.restoring => b)
  BY DEF Hook
<1>4. /\ hook' = [h EXCEPT !.look = l, !.restoring = b]
      /\ net' = net \cup StatusOf(Looking(h).look)
  BY DEF Refreshes, Looking
<1>5. Looking(h) = [h EXCEPT !.look = l, !.restoring = b]
  BY DEF Looking
<1> HIDE DEF l, b
<1>6. /\ /\ hook'.mounted = h.mounted /\ hook'.hidden = h.hidden
         /\ hook'.active = h.active /\ hook'.pendingId = h.pendingId
         /\ hook'.restoring = b /\ hook'.recoveryPending = h.recoveryPending
         /\ hook'.paused = h.paused /\ hook'.stage = h.stage /\ hook'.look = l
         /\ hook'.restore = h.restore
      /\ hook' \in Hook /\ Looking(h).look = l
  BY <1>2, <1>3, <1>4, <1>5 DEF Hook
<1>7. new \in Request /\ new = Sent("look", h.active, "status", Target(h))
  BY <1>1 DEF Sent, Request, Hook
<1>8. \A n : n \in StatusOf(l) <=> l.step = "status" /\ n = Sent("look", l.run, "status", l.job)
  BY DEF StatusOf
<1>9. \A n : n \in net' <=> n \in net \/ (l.step = "status" /\ n = new)
  BY <1>2, <1>4, <1>6, <1>8
<1> QED BY <1>1, <1>2, <1>3, <1>6, <1>7, <1>9

\* An answer to the request for a status is the only message of its kind.
LEMMA LookMessage ==
    ASSUME ClientInv, NEW m \in net, m.from = "look"
    PROVE  /\ m.run = hook.look.run /\ m.job = hook.look.job /\ m.op = "status" /\ m.job \in Job
           /\ hook.look.step = "status" /\ hook.look # NoLook /\ ~Mutated(m.job)
           /\ ~hook.hidden
           /\ \A n \in net : n.from = "look" => n = m
           /\ m.run # NoRun => m.run \in Run
           /\ m.what = "expired" => srv[m.job] = "gone"
<1>1. Proper(m) /\ About(m) /\ m \in Request
  BY MessageIs
<1>2. m.run = hook.look.run /\ m.job = hook.look.job /\ m.op = "status" /\ m.job \in Job
  BY <1>1, ClientAssumption DEF Proper, About, Request
<1>3. hook.look.step = "status"
  BY DEF ClientInv, ClientTypeOK
<1>4. \A n \in net : n.from = "look" => n = m
  BY <1>2 DEF ClientInv, NetInv, About
<1> QED BY <1>1, <1>2, <1>3, <1>4 DEF ClientInv, SettledInv, HookInv, NoLook, Request, Proper

\* The rest of the messages after the answer to a look.
LEMMA LookGone ==
    ASSUME ClientInv, NEW m \in net, m.from = "look", net' = net \ {m},
           UNCHANGED <<srv, run>>, hook'.active \in {hook.active, NoRun}
    PROVE  NetInv' /\ \A n \in net' : n.from # "look"
<1>1. \A n \in net' : n \in net /\ n.from # "look"
  BY LookMessage
<1>2. ASSUME NEW n \in net' PROVE About(n)'
  <2>1. n \in net /\ Proper(n) /\ About(n) /\ n \in Request /\ n.from # "look" /\ n.run \in Run
    BY <1>1, MessageIs
  <2> QED BY <2>1, AboutKept, ClientAssumption DEF Current
<1> QED BY <1>1, <1>2, NetShrinks

\* What the end of start leaves.
LEMMA EndsIs ==
    ASSUME Types, NEW h \in Hook, NEW r \in Run, NEW rr \in RunObject, Ends(h, r, rr)
    PROVE  /\ \A q \in Run \ {r} : run'[q] = run[q]
           /\ run'[r].job = rr.job /\ run'[r].state = rr.state /\ run'[r].begin = "none"
           /\ run'[r].user = rr.user /\ run'[r].clean = rr.clean
           /\ run'[r].cancelled = rr.cancelled /\ ~run'[r].secret
           /\ run' \in [Run -> RunObject]
           /\ /\ hook'.mounted = h.mounted /\ hook'.hidden = h.hidden
              /\ hook'.active = hook'.active /\ hook'.pendingId = h.pendingId
              /\ hook'.restoring = h.restoring
              /\ hook'.recoveryPending = h.recoveryPending /\ hook'.paused = h.paused
              /\ hook'.stage = hook'.stage /\ hook'.look = h.look
              /\ hook'.restore = h.restore
           /\ hook' \in Hook
           /\ hook'.active = (IF h.active = r /\ rr.cancelled /\ rr.job = NoJob THEN NoRun ELSE h.active)
           /\ hook'.stage = (IF h.active = r /\ ~(rr.cancelled /\ rr.user # "none") THEN "none" ELSE h.stage)
<1> DEFINE over == [rr EXCEPT !.begin = "none", !.secret = FALSE]
           s == IF over.cancelled /\ over.user # "none" THEN h.stage ELSE "none"
           a == IF over.cancelled /\ over.job = NoJob THEN NoRun ELSE h.active
<1>1. /\ run' = [run EXCEPT ![r] = over]
      /\ hook' = Ended(h, r, over)
  BY DEF Ends
<1>2. /\ over \in RunObject
      /\ over.job = rr.job /\ over.state = rr.state /\ over.begin = "none" /\ over.user = rr.user
      /\ over.clean = rr.clean /\ over.cancelled = rr.cancelled /\ over.secret = FALSE
  BY DEF RunObject
<1>3. Ended(h, r, over) = IF h.active # r THEN h ELSE [h EXCEPT !.stage = s, !.active = a]
  BY DEF Ended
<1>4. s = (IF ~(rr.cancelled /\ rr.user # "none") THEN "none" ELSE h.stage)
      /\ a = (IF rr.cancelled /\ rr.job = NoJob THEN NoRun ELSE h.active)
  BY <1>2
<1>5. s \in {"none", "reserving", "uploading", "starting", "cancelling", "clearing"}
      /\ a \in Run \cup {NoRun}
  BY <1>4 DEF Hook
<1> HIDE DEF over, s, a
<1>6. \A q \in Run \ {r} : run'[q] = run[q]
  BY <1>1 DEF Types
<1>7. run'[r] = over /\ run' \in [Run -> RunObject]
  BY <1>1, <1>2 DEF Types
<1>8. CASE h.active # r
  BY <1>1, <1>2, <1>3, <1>6, <1>7, <1>8
<1>9. CASE h.active = r
  <2>1. hook' = [h EXCEPT !.stage = s, !.active = a]
    BY <1>1, <1>3, <1>9
  <2>2. /\ /\ hook'.mounted = h.mounted /\ hook'.hidden = h.hidden /\ hook'.active = a
           /\ hook'.pendingId = h.pendingId /\ hook'.restoring = h.restoring
           /\ hook'.recoveryPending = h.recoveryPending /\ hook'.paused = h.paused
           /\ hook'.stage = s /\ hook'.look = h.look /\ hook'.restore = h.restore
        /\ hook' \in Hook
    BY <1>5, <2>1 DEF Hook
  <2> QED BY <1>2, <1>4, <1>6, <1>7, <1>9, <2>2
<1> QED BY <1>8, <1>9

\* A run that start works on is no leftover.
LEMMA BeginMessage ==
    ASSUME ClientInv, NEW m \in net, NEW r \in Run, m.run = r, run[r].begin # "none"
    PROVE  \/ Awaited(m) /\ Proper(m) /\ About(m) /\ m \in Request /\ m.from # "look"
           \/ m.from = "look"
  BY MessageIs, NoObjectIs DEF About, LeftBehind

\* start ends and leaves the hook alone, apart from the stage and from a run that has no job.
LEMMA BeginEndsStep ==
    ASSUME ClientInv, NEW r \in Run, NEW h \in Hook, NEW rr \in RunObject, Ends(h, r, rr),
           run[r].begin # "none", run[r].begin # "create" \/ run[r].cancelled,
           rr.job = run[r].job, rr.user = run[r].user, rr.clean = run[r].clean,
           rr.cancelled = run[r].cancelled,
           rr.state = run[r].state \/ (run[r].job # NoJob /\ rr.state \in Shown),
           /\ h.mounted = hook.mounted /\ h.hidden = hook.hidden /\ h.active = hook.active
           /\ h.pendingId = hook.pendingId /\ h.restoring = hook.restoring
           /\ h.recoveryPending = hook.recoveryPending /\ h.paused = h.paused
           /\ h.stage = hook.stage /\ h.look = hook.look /\ h.restore = hook.restore,
           h.paused = hook.paused \/ (Current(r) /\ h.paused),
           net' \subseteq net,
           \A m \in net' : ~(m.from = "begin" /\ m.run = r),
           UNCHANGED <<srv, locator, known, asked, left>>
    PROVE  ClientInv'
<1>0. Types /\ ClientTypeOK
  BY TypesOK
<1>1. /\ \A q \in Run \ {r} : run'[q] = run[q]
      /\ run'[r].job = run[r].job /\ run'[r].state = rr.state /\ run'[r].begin = "none"
      /\ run'[r].user = run[r].user /\ run'[r].clean = run[r].clean
      /\ run'[r].cancelled = run[r].cancelled /\ ~run'[r].secret
      /\ run' \in [Run -> RunObject]
  BY <1>0, EndsIs
<1>2. /\ /\ hook'.mounted = hook.mounted /\ hook'.hidden = hook.hidden
         /\ hook'.active = hook'.active /\ hook'.pendingId = hook.pendingId
         /\ hook'.restoring = hook.restoring
         /\ hook'.recoveryPending = hook.recoveryPending /\ hook'.paused = h.paused
         /\ hook'.stage = hook'.stage /\ hook'.look = hook.look
         /\ hook'.restore = hook.restore
      /\ hook' \in Hook
      /\ hook'.active = (IF hook.active = r /\ run[r].cancelled /\ run[r].job = NoJob THEN NoRun ELSE hook.active)
      /\ hook'.stage = (IF hook.active = r /\ ~(run[r].cancelled /\ run[r].user # "none") THEN "none" ELSE hook.stage)
  BY <1>0, EndsIs
<1>3. /\ net' \subseteq net /\ \A m \in net' : ~(m.from = "begin" /\ m.run = r)
      /\ UNCHANGED <<srv, locator, known, asked, left>>
  OBVIOUS
<1>4. ClientTypeOK'
  BY <1>0, <1>1, <1>2, <1>3 DEF ClientTypeOK
<1>5. NetInv'
  <2>1. ASSUME NEW m \in net', m.run = r PROVE About(m)'
    <3>1. Proper(m) /\ About(m) /\ m \in Request /\ m.from # "begin"
      BY <1>3, <2>1, MessageIs
    <3>2. CASE m.from = "look"
      BY <1>2, <3>1, <3>2 DEF About, Awaited, LeftBehind, Proper
    <3>3. CASE m.from # "look"
      <4>1. Awaited(m) /\ (Current(m.run)' => Current(m.run))
        BY <1>2, <1>3, <2>1, <3>3, BeginMessage, ClientAssumption DEF Current
      <4> QED BY <1>1, <2>1, <3>1, <3>3, <4>1, AboutKeptFor
    <3> QED BY <3>2, <3>3
  <2>2. ASSUME NEW m \in net', m.run # r PROVE About(m)'
    <3>1. hook'.active \in {hook.active, r, NoRun}
      BY <1>2
    <3> QED BY <1>1, <1>2, <1>3, <2>2, <3>1, AboutOthers
  <2> QED BY <2>1, <2>2, <1>3, NetShrinks
<1>6. RunInv'
  <2>1. ASSUME NEW q \in Run PROVE RunOK(q)'
    <3>1. CASE q = r
      BY <1>0, <1>1, <1>2, <1>3, <3>1, ClientAssumption DEF ClientInv, RunInv, RunOK, Current,
         Types, RunObject, Shown
    <3>2. CASE q # r
      BY <1>1, <1>2, <1>3, <3>2, ClientAssumption DEF ClientInv, RunInv, RunOK, Current
    <3> QED BY <3>1, <3>2
  <2>2. hook'.active # NoRun => CurrentOK(hook.active)'
    <3>1. CASE hook.active = r /\ hook'.active # NoRun
      <4>1. CurrentOK(r)
        BY <3>1, ClientAssumption DEF ClientInv, RunInv
      <4>2. run[r].user # "none" => run[r].cancelled
        <5>1. run[r].begin \in {"create", "upload", "start", "cancel"}
          BY <1>0 DEF Types, RunObject
        <5> QED BY <4>1, <5>1 DEF CurrentOK, StageOf
      <4> QED BY <1>1, <1>2, <1>3, <3>1, <4>1, <4>2 DEF CurrentOK
    <3>2. CASE hook.active # r /\ hook'.active # NoRun
      <4>1. hook.active \in Run /\ CurrentOK(hook.active)
        BY <1>0, <1>2, <3>2 DEF ClientInv, RunInv, Types, Hook
      <4> QED BY <1>1, <1>2, <1>3, <3>2, <4>1 DEF CurrentOK, Current
    <3> QED BY <3>1, <3>2
  <2> QED BY <2>1, <2>2, <1>2 DEF RunInv
<1>7. LookInv'
  BY <1>0, <1>1, <1>2, <1>3, ClientAssumption DEF ClientInv, LookInv, Current, NoLook, Types,
     Hook, Look
<1>8. HookInv'
  <2>1. hook.active = r => CurrentOK(r) /\ hook.mounted
    BY ClientAssumption DEF ClientInv, RunInv, HookInv
  <2> QED BY <1>0, <1>1, <1>2, <1>3, <2>1, ClientAssumption DEF ClientInv, HookInv,
             NeverStranded, StillAbout, CurrentOK
<1>9. LocatorInv'
  <2>1. hook.active = r => CurrentOK(r)
    BY ClientAssumption DEF ClientInv, RunInv
  <2> QED BY <1>0, <1>1, <1>2, <1>3, <2>1, ClientAssumption DEF ClientInv, LocatorInv,
             CurrentOK, Types, Hook
<1>10. FreshInv'
  <2>1. \A j \in Job : Named(j)' => Named(j)
    BY <1>1, <1>2, <1>3 DEF Named
  <2> QED BY <2>1, <1>3, FreshStep
<1>11. SettledInv'
  <2>1. \A j : Mutated(j)' => Mutated(j)
    BY <1>1 DEF Mutated
  <2>2. \A q \in Run : run'[q].job = run[q].job /\ run'[q].user = run[q].user
    BY <1>1
  <2> QED BY <1>0, <1>2, <2>1, <2>2, ClientAssumption DEF ClientInv, SettledInv, Types, Hook
<1>12. NoOrphan'
  BY <1>0, <1>1, <1>2, <1>3, ClientAssumption DEF ClientInv, NoOrphan, Live, Types, Hook
<1> QED BY <1>4, <1>5, <1>6, <1>7, <1>8, <1>9, <1>10, <1>11, <1>12 DEF ClientInv

\* The answer that start awaits.
LEMMA BeginAnswer ==
    ASSUME ClientInv, NEW r \in Run, NEW m \in net, Answered(m, "begin", r)
    PROVE  /\ m.from = "begin" /\ m.run = r /\ m.what # "sent" /\ run[r].begin = m.op
           /\ run[r].begin # "none" /\ Proper(m) /\ About(m) /\ m \in Request
           /\ \A n \in net \ {m} : ~(n.from = "begin" /\ n.run = r)
           /\ run[r] \in RunObject /\ RunOK(r) /\ (Current(r) => CurrentOK(r))
           /\ m.op = "create" => run[r].job = NoJob
           /\ m.op # "create" /\ Current(r) => run[r].job = m.job /\ m.job \in Job
<1>1. /\ m.from = "begin" /\ m.run = r /\ m.what # "sent" /\ run[r].begin = m.op
      /\ Proper(m) /\ About(m) /\ m \in Request
  BY MessageIs DEF Answered, Awaited
<1>2. m.op \in {"create", "upload", "start", "cancel"}
  BY <1>1 DEF Proper
<1>3. \A n \in net \ {m} : ~(n.from = "begin" /\ n.run = r)
  BY <1>1 DEF ClientInv, NetInv
<1>4. run[r] \in RunObject /\ RunOK(r) /\ (Current(r) => CurrentOK(r))
  BY TypesOK, RunStatesAre, ClientAssumption DEF ClientInv, RunInv, Current
<1>5. m.op # "create" /\ Current(r) => run[r].job = m.job /\ m.job \in Job
  BY <1>1, ClientAssumption DEF About, Proper, Request
<1> QED BY <1>1, <1>2, <1>3, <1>4, <1>5 DEF RunOK

\* What requestCleanup does to the run r of the hook.
LEMMA CleanupIs ==
    ASSUME ClientInv, NEW r \in Run, Current(r), NEW h, RequestCleanup(r, h)
    PROVE  /\ \A q \in Run \ {r} : run'[q] = run[q]
           /\ run'[r].job = run[r].job /\ run'[r].state = run[r].state
           /\ run'[r].begin = run[r].begin /\ run'[r].user = run[r].user
           /\ run'[r].cancelled = TRUE /\ run'[r].secret = FALSE /\ run'[r].keep = run[r].keep
           /\ run'[r].clean = (IF Sends(r) THEN CleanupOp(r)
                               ELSE IF MustClean(r) THEN "wait" ELSE run[r].clean)
           /\ run' \in [Run -> RunObject]
           /\ \A n \in net' : \/ n \in net /\ n.from # "look"
                              \/ Sends(r) /\ n = Sent("clean", r, CleanupOp(r), run[r].job)
           /\ asked \subseteq asked'
           /\ asked' \subseteq asked \cup {run[r].job}
           /\ Sends(r) => run[r].job \in asked'
           /\ asked' \subseteq Job
<1> DEFINE c == IF Sends(r) THEN CleanupOp(r) ELSE IF MustClean(r) THEN "wait" ELSE run[r].clean
           rr == [run[r] EXCEPT !.cancelled = TRUE, !.secret = FALSE, !.clean = c]
<1>0. Types /\ run[r] \in RunObject
  BY TypesOK, RunStatesAre
<1>1. c \in {"none", "wait", "cancel", "clear", "done"}
  BY <1>0 DEF CleanupOp, RunObject
<1>2. run' = [q \in Run |-> IF q # r THEN run[q] ELSE rr]
  <2>1. run' = [q \in Run |->
                  IF q # r THEN run[q]
                  ELSE [run[q] EXCEPT !.cancelled = TRUE, !.secret = FALSE,
                                      !.clean = IF Sends(q) THEN CleanupOp(q)
                                                ELSE IF MustClean(q) THEN "wait" ELSE run[q].clean]]
    BY DEF RequestCleanup
  <2> QED BY <2>1
<1>3. c = (IF Sends(r) THEN CleanupOp(r) ELSE IF MustClean(r) THEN "wait" ELSE run[r].clean)
  OBVIOUS
<1> HIDE DEF c
<1>4. /\ rr.job = run[r].job /\ rr.state = run[r].state /\ rr.begin = run[r].begin
      /\ rr.user = run[r].user /\ rr.cancelled = TRUE /\ rr.secret = FALSE
      /\ rr.keep = run[r].keep /\ rr.clean = c /\ rr \in RunObject
  BY <1>0, <1>1 DEF RunObject
<1> HIDE DEF rr
<1>5. run'[r] = rr /\ (\A q \in Run \ {r} : run'[q] = run[q]) /\ run' \in [Run -> RunObject]
  BY <1>0, <1>2, <1>4 DEF Types
<1>6. \A n \in net' : \/ n \in net /\ n.from # "look"
                      \/ Sends(r) /\ n = Sent("clean", r, CleanupOp(r), run[r].job)
  BY DEF RequestCleanup, Unlooks
<1>7. asked' = asked \cup {run[q].job : q \in {i \in Run \cap {r} : Sends(i)}}
  BY DEF RequestCleanup
<1>8. asked \subseteq asked' /\ asked' \subseteq asked \cup {run[r].job}
      /\ (Sends(r) => run[r].job \in asked')
  BY <1>7
<1>9. Sends(r) => run[r].job \in Job
  BY <1>0 DEF Sends, MustClean, RunObject
<1>10. asked' \subseteq Job
  BY <1>0, <1>7, <1>9 DEF Types
<1> QED BY <1>3, <1>4, <1>5, <1>6, <1>8, <1>10

\* Whoever leaves has nothing in hand that is not stored or about to end.
LEMMA CleanupAsks ==
    ASSUME ClientInv, NEW r \in Run, Current(r), NEW h, RequestCleanup(r, h)
    PROVE  run[r].job \in {NoJob, locator} \cup asked'
<1>1. RunOK(r)
  BY DEF ClientInv, RunInv
<1>2. asked \subseteq asked' /\ (Sends(r) => run[r].job \in asked')
  BY CleanupIs
<1>3. CASE Sends(r)
  BY <1>2, <1>3
<1>4. CASE MustClean(r) /\ ~Sends(r)
  BY <1>1, <1>2, <1>4 DEF Sends, RunOK
<1>5. CASE ~MustClean(r)
  BY <1>1, <1>2, <1>5 DEF MustClean, KeepsIt, RunOK
<1> QED BY <1>3, <1>4, <1>5

\* The parts of the invariant that leaving the page and leaving the view have in common.
LEMMA CleanupStep ==
    ASSUME ClientInv, NEW r \in Run, Current(r), NEW h, RequestCleanup(r, h),
           hook'.active \in {r, NoRun}, hook'.look = NoLook,
           hook'.pendingId \in {hook.pendingId, NoJob},
           UNCHANGED <<srv, locator, known>>
    PROVE  NetInv' /\ FreshInv' /\ \A q \in Run : RunOK(q)'
<1>0. Types /\ run[r] \in RunObject /\ RunOK(r) /\ CurrentOK(r)
  BY TypesOK, RunStatesAre, ClientAssumption DEF ClientInv, RunInv, Current
<1>1. /\ \A q \in Run \ {r} : run'[q] = run[q]
      /\ run'[r].job = run[r].job /\ run'[r].state = run[r].state
      /\ run'[r].begin = run[r].begin /\ run'[r].user = run[r].user
      /\ run'[r].cancelled = TRUE /\ run'[r].secret = FALSE
      /\ run'[r].clean = (IF Sends(r) THEN CleanupOp(r)
                          ELSE IF MustClean(r) THEN "wait" ELSE run[r].clean)
      /\ \A n \in net' : \/ n \in net /\ n.from # "look"
                         \/ Sends(r) /\ n = Sent("clean", r, CleanupOp(r), run[r].job)
      /\ asked \subseteq asked'
      /\ run[r].job \in {NoJob, locator} \cup asked'
      /\ Sends(r) => run[r].job \in asked'
  BY CleanupIs, CleanupAsks
<1>2. PICK new : new = Sent("clean", r, CleanupOp(r), run[r].job)
  OBVIOUS
<1>3. /\ new.from = "clean" /\ new.run = r /\ new.op = CleanupOp(r) /\ new.job = run[r].job
      /\ new.what = "sent" /\ CleanupOp(r) \in {"cancel", "clear"}
  BY <1>2 DEF Sent, CleanupOp
<1>4. NetInv'
  <2>1. ASSUME NEW n \in net, n.run = r, n.from # "look" PROVE About(n)' /\ (Sends(r) => n.from # "clean")
    <3>1. Proper(n) /\ About(n) /\ n \in Request /\ Awaited(n)
      BY <2>1, MessageIs
    <3>2. n.from = "clean" => run[r].clean \in {"cancel", "clear"}
      BY <2>1, <3>1 DEF Awaited, Proper
    <3>3. n.from = "clean" => run'[r].clean = run[r].clean /\ ~Sends(r)
      BY <1>1, <3>2 DEF Sends, MustClean
    <3>4. Current(r)' => Current(r)
      OBVIOUS
    <3>5. About(n)'
      BY <1>1, <2>1, <3>1, <3>3, AboutKeptFor
    <3> QED BY <3>3, <3>5
  <2>2. ASSUME NEW n \in net, n.run # r, n.from # "look" PROVE About(n)'
    <3>1. hook'.active \in {hook.active, r, NoRun}
      OBVIOUS
    <3> QED BY <1>1, <2>2, <3>1, AboutOthers
  <2>3. Sends(r) => Proper(new)' /\ About(new)'
    <3>1. Sends(r) => run[r].job # NoJob /\ run'[r].clean = CleanupOp(r)
      BY <1>1 DEF Sends, MustClean
    <3> QED BY <1>3, <3>1, ClientAssumption DEF Proper, About, Awaited
  <2>4. \A m \in net' : (m \in net /\ m.from # "look") \/ m = new
    BY <1>1, <1>2
  <2>5. new \in net' => Sends(r) \/ new \in net
    BY <1>1
  <2>6. CASE Sends(r)
    BY <2>1, <2>2, <2>3, <2>4, <2>6, <1>3, NetStep
  <2>7. CASE ~Sends(r)
    <3>1. net' \subseteq net /\ \A m \in net' : About(m)'
      BY <1>1, <2>1, <2>2, <2>7
    <3> QED BY <3>1, NetShrinks
  <2> QED BY <2>6, <2>7
<1>5. FreshInv'
  <2>1. \A n \in net' : n \in net \/ (n.job = run[r].job /\ n.op # "create")
    BY <1>1, <1>2, <1>3
  <2>2. \A q \in Run : run'[q].job = run[q].job
    BY <1>1
  <2>3. \A j \in Job : Named(j)' => Named(j)
    BY <2>1, <2>2, ClientAssumption DEF Named, NoLook
  <2> QED BY <2>1, <2>3, FreshStep
<1>6. ASSUME NEW q \in Run PROVE RunOK(q)'
  <2>1. CASE q = r
    <3>1. run'[r].clean # "none" => run[r].begin # "create"
      BY <1>0, <1>1 DEF RunOK, Sends, MustClean
    <3>2. run'[r].clean # "none" => run[r].job = NoJob \/ run[r].job \in asked'
      BY <1>0, <1>1 DEF RunOK, Sends, MustClean, KeepsIt
    <3> QED BY <1>0, <1>1, <2>1, <3>1, <3>2 DEF RunOK
  <2>2. CASE q # r
    <3>1. RunOK(q) /\ run'[q] = run[q] /\ ~Current(q) /\ ~Current(q)'
      BY <1>1, <2>2, ClientAssumption DEF ClientInv, RunInv, Current
    <3> QED BY <1>1, <3>1 DEF RunOK
  <2> QED BY <2>1, <2>2
<1> QED BY <1>4, <1>5, <1>6

\* Nothing but a status is awaited when the hook has no run.
LEMMA CleanupOfNothing ==
    ASSUME ClientInv, hook.active = NoRun, NEW h, RequestCleanup(hook.active, h),
           hook'.active = NoRun, hook'.look = NoLook,
           hook'.pendingId \in {hook.pendingId, NoJob},
           UNCHANGED <<srv, locator, known>>
    PROVE  NetInv' /\ FreshInv' /\ run' = run /\ asked' = asked
           /\ net' \subseteq net /\ \A m \in net' : m.from # "look"
<1>0. Types
  BY TypesOK
<1>1. run' = run
  <2>1. run' = [q \in Run |-> run[q]]
    BY ClientAssumption DEF RequestCleanup
  <2> QED BY <1>0, <2>1 DEF Types
<1>2. net' \subseteq net /\ (\A m \in net' : m.from # "look") /\ asked' = asked
  BY ClientAssumption DEF RequestCleanup, Unlooks
<1>3. ASSUME NEW n \in net' PROVE About(n)'
  <2>1. n \in net /\ Proper(n) /\ About(n) /\ n \in Request /\ n.from # "look" /\ n.run \in Run
    BY <1>2, MessageIs
  <2> QED BY <1>1, <2>1, AboutKept DEF Current
<1>4. NetInv'
  BY <1>2, <1>3, NetShrinks
<1>5. FreshInv'
  <2>1. \A j \in Job : Named(j)' => Named(j)
    BY <1>1, <1>2, ClientAssumption DEF Named, NoLook
  <2> QED BY <1>2, <2>1, FreshStep
<1> QED BY <1>1, <1>2, <1>4, <1>5

\* A function that is not refresh has had its answer: the other messages about its run.
LEMMA AnswerGone ==
    ASSUME ClientInv, NEW r \in Run, NEW m \in net, m.run = r, m.from \in {"user", "clean"},
           Awaited(m),
           \A q \in Run \ {r} : run'[q] = run[q],
           run'[r].begin = run[r].begin,
           m.from = "clean" => run'[r].user = run[r].user,
           m.from = "user" => run'[r].clean = run[r].clean,
           run'[r].job = run[r].job \/ (m.from = "user" /\ ~Current(r)'),
           hook'.active \in {hook.active, NoRun}, hook'.look = hook.look,
           net' = net \ {m}, UNCHANGED srv
    PROVE  NetInv'
<1>1. run[r] # NoObject
  <2>1. Proper(m)
    BY MessageIs
  <2> QED BY <2>1, NoObjectIs DEF Awaited, Proper
<1>2. ASSUME NEW n \in net' PROVE About(n)'
  <2>1. n \in net /\ n # m /\ Proper(n) /\ About(n) /\ n \in Request
        /\ (n.run = r => n.from # m.from)
    BY MessageIs DEF ClientInv, NetInv
  <2>2. \A q : Current(q)' /\ q \in Run => Current(q)
    BY ClientAssumption DEF Current
  <2>3. CASE n.run # r
    BY <2>1, <2>2, <2>3, AboutKept
  <2>4. CASE n.run = r /\ n.from = "look"
    BY <2>1, <2>4 DEF About, Awaited, LeftBehind, Proper
  <2>5. CASE n.run = r /\ n.from # "look"
    <3>1. Awaited(n)
      BY <1>1, <2>1, <2>5 DEF About, LeftBehind
    <3>2. Current(n.run)' => Current(n.run)
      BY <2>2, <2>5
    <3>3. n.from \in {"begin", "user", "clean"}
      BY <2>1, <2>5 DEF Request
    <3>4. CASE m.from = "user"
      <4>1. n.from # "user" /\ run'[r].begin = run[r].begin /\ run'[r].clean = run[r].clean
        BY <2>1, <2>5, <3>4
      <4>2. run'[r].job = run[r].job \/ n.from = "clean" \/ (n.from = "begin" /\ ~Current(r)')
        BY <3>3, <4>1
      <4> QED BY <2>1, <2>5, <3>1, <3>2, <4>1, <4>2, AboutKeptFor
    <3>5. CASE m.from = "clean"
      BY <2>1, <2>5, <3>1, <3>2, <3>5, AboutKeptFor
    <3> QED BY <3>4, <3>5
  <2> QED BY <2>3, <2>4, <2>5
<1> QED BY <1>2, NetShrinks

\* The answer that a cancel or clear of the user's awaits.
LEMMA UserAnswer ==
    ASSUME ClientInv, NEW r \in Run, NEW m \in net, Answered(m, "user", r)
    PROVE  /\ m.from = "user" /\ m.run = r /\ m.what # "sent" /\ run[r].user = m.op
           /\ m.op \in {"cancel", "clear"} /\ Awaited(m) /\ Proper(m) /\ m \in Request
           /\ run[r] \in RunObject /\ RunOK(r) /\ (Current(r) => CurrentOK(r))
           /\ m.job = run[r].job /\ m.job \in Job
           /\ m.what \in {"expired", "cleared"} => srv[m.job] = "gone"
           /\ m.op = "cancel" => m.what \in Shown \cup {"expired", "error"}
<1>1. /\ m.from = "user" /\ m.run = r /\ m.what # "sent" /\ run[r].user = m.op
      /\ Proper(m) /\ About(m) /\ m \in Request /\ Awaited(m)
  BY MessageIs DEF Answered, Awaited
<1>2. run[r] \in RunObject /\ RunOK(r) /\ (Current(r) => CurrentOK(r))
  BY TypesOK, RunStatesAre, ClientAssumption DEF ClientInv, RunInv, Current
<1>3. m.op \in {"cancel", "clear"}
  BY <1>1 DEF Proper
<1>4. m.job = run[r].job /\ m.job \in Job
  BY <1>1, <1>2, <1>3, ClientAssumption DEF About, Proper, Request
<1>5. m.op = "cancel" => m.what \in Shown \cup {"expired", "error"}
  BY <1>1 DEF Proper, Request
<1> QED BY <1>1, <1>2, <1>3, <1>4, <1>5 DEF Proper

\* A cancel or clear ends; the hook lets go of its run only when the job is gone.
LEMMA UserEndsStep ==
    ASSUME ClientInv, NEW r \in Run, NEW m \in net, Answered(m, "user", r),
           \A q \in Run \ {r} : run'[q] = run[q], run' \in [Run -> RunObject],
           run'[r].begin = run[r].begin, run'[r].clean = run[r].clean, run'[r].user = "none",
           run'[r].cancelled = run[r].cancelled, run'[r].secret = run[r].secret,
           \/ run'[r].job = run[r].job /\ run'[r].state = run[r].state
           \/ run'[r].job = run[r].job /\ run'[r].state \in Shown
           \/ run'[r].job = NoJob /\ run'[r].state = "none" /\ ~Current(r)' /\ srv[m.job] = "gone",
           run'[r].state = run[r].state \/ run[r].cancelled \/ ~Current(r)',
           hook' \in Hook, hook'.mounted = hook.mounted, hook'.hidden = hook.hidden,
           hook'.look = hook.look, hook'.restore = hook.restore, hook'.pendingId = hook.pendingId,
           \/ /\ hook'.active = hook.active /\ hook'.restoring = hook.restoring
              /\ hook'.recoveryPending = hook.recoveryPending
              /\ hook'.paused = hook.paused \/ (Current(r) /\ hook'.paused)
              /\ hook'.stage = (IF Current(r) THEN "none" ELSE hook.stage)
           \/ /\ Current(r) /\ srv[m.job] = "gone" /\ hook'.active = NoRun
              /\ hook'.restoring = FALSE /\ hook'.recoveryPending = FALSE,
           locator' = locator \/ (locator' = NoJob /\ locator = m.job /\ srv[m.job] = "gone"),
           ~Current(r)' /\ Current(r) => locator' # m.job,
           net' = net \ {m},
           UNCHANGED <<srv, known, asked, left>>
    PROVE  ClientInv'
<1>0. Types /\ ClientTypeOK /\ hook \in Hook
  BY TypesOK DEF Types
<1>1. /\ m.from = "user" /\ m.run = r /\ run[r].user = m.op /\ m.op \in {"cancel", "clear"}
      /\ Awaited(m) /\ run[r] \in RunObject /\ RunOK(r) /\ (Current(r) => CurrentOK(r))
      /\ m.job = run[r].job /\ m.job \in Job
  BY UserAnswer
<1>2. ClientTypeOK'
  BY <1>0 DEF ClientTypeOK
<1>3. NetInv'
  <2>1. hook'.active \in {hook.active, NoRun}
    OBVIOUS
  <2> QED BY <1>1, <2>1, AnswerGone
<1>4. \A q : Current(q)' /\ q # NoRun => Current(q)
  BY DEF Current
<1>5. RunInv'
  <2>1. ASSUME NEW q \in Run PROVE RunOK(q)'
    <3>1. CASE q = r
      <4>1. run'[r].job = NoJob <=> run'[r].state = "none"
        BY <1>1 DEF RunOK, Shown
      <4>2. Current(r)' \/ (run[r].begin # "none" => run[r].cancelled) \/ Current(r)
        BY <1>1 DEF RunOK
      <4>3. Current(r) => run[r].cancelled \/ run[r].begin = "none"
        BY <1>1 DEF CurrentOK, StageOf, RunObject
      <4>4. run[r].secret => FALSE
        BY <1>1, <4>3 DEF RunOK
      <4> QED BY <1>1, <3>1, <4>1, <4>2, <4>3, <4>4 DEF RunOK
    <3>2. CASE q # r
      <4>1. RunOK(q) /\ run'[q] = run[q]
        BY <3>2 DEF ClientInv, RunInv
      <4>2. Current(q)' <=> Current(q)
        BY <3>2, <1>4, ClientAssumption DEF Current
      <4> QED BY <4>1, <4>2 DEF RunOK
    <3> QED BY <2>1, <3>1, <3>2
  <2>2. hook'.active # NoRun => CurrentOK(hook.active)'
    <3>1. CASE hook.active = r /\ hook'.active # NoRun
      <4>1. CurrentOK(r) /\ Current(r) /\ Current(r)'
        BY <1>1, <3>1, ClientAssumption DEF Current
      <4>2. run[r].cancelled \/ run[r].begin = "none"
        BY <1>1, <4>1 DEF CurrentOK, StageOf, RunObject
      <4> QED BY <1>1, <3>1, <4>1, <4>2, ClientAssumption DEF CurrentOK
    <3>2. CASE hook.active # r /\ hook'.active # NoRun
      <4>1. hook.active \in Run /\ CurrentOK(hook.active) /\ hook'.active = hook.active /\ ~Current(r)
        BY <1>0, <3>2 DEF ClientInv, RunInv, Hook, Current
      <4>2. run'[hook.active] = run[hook.active]
        BY <3>2, <4>1
      <4> QED BY <3>2, <4>1, <4>2 DEF CurrentOK
    <3> QED BY <3>1, <3>2
  <2> QED BY <2>1, <2>2 DEF RunInv
<1>6. LookInv'
  <2>1. hook.look.run # NoRun => hook.look.run \in Run
    BY <1>0 DEF Hook, Look
  <2>2. CASE hook.look.run = r
    BY <1>1, <1>4, <2>2, ClientAssumption DEF ClientInv, LookInv, Current
  <2>3. CASE hook.look.run # r
    BY <1>4, <2>1, <2>3 DEF ClientInv, LookInv, Current
  <2> QED BY <2>2, <2>3
<1>7. HookInv'
  <2>1. \A q \in Run : run'[q].cancelled = run[q].cancelled
    OBVIOUS
  <2>2. Current(r) => CurrentOK(r) /\ hook.mounted
    BY <1>1, ClientAssumption DEF ClientInv, HookInv, Current
  <2> QED BY <1>0, <2>1, <2>2, ClientAssumption DEF ClientInv, HookInv, NeverStranded,
             StillAbout, Hook
<1>8. LocatorInv'
  <2>1. CASE hook.active = r
    BY <1>1, <2>1, ClientAssumption DEF ClientInv, LocatorInv, Current
  <2>2. CASE hook.active # r
    <3>1. hook'.active = hook.active /\ (hook.active # NoRun => run'[hook.active] = run[hook.active])
      BY <1>0, <2>2 DEF Current, Hook
    <3> QED BY <3>1, <2>2 DEF ClientInv, LocatorInv
  <2> QED BY <2>1, <2>2
<1>9. FreshInv'
  <2>1. \A j \in Job : Named(j)' => Named(j)
    BY ClientAssumption DEF Named
  <2> QED BY <2>1, FreshStep
<1>10. SettledInv'
  <2>1. \A q \in Run : run'[q].user # "none" => run'[q] = run[q]
    OBVIOUS
  <2>2. \A j \in Job : Mutated(j)' => Mutated(j)
    BY <2>1 DEF Mutated
  <2>3. hook.look.step = "status" => hook.look.job \in Job
    BY <1>0, ClientAssumption DEF ClientInv, LookInv, Hook, Look
  <2>4. hook'.active # NoRun => hook'.active = hook.active /\ run'[hook.active].job = run[hook.active].job
    BY <1>0 DEF Current, Hook
  <2> QED BY <2>1, <2>2, <2>3, <2>4 DEF ClientInv, SettledInv
<1>11. NoOrphan'
  <2>1. CASE hook.active = r
    BY <1>1, <2>1, ClientAssumption DEF ClientInv, NoOrphan, Live, Current
  <2>2. CASE hook.active # r
    <3>1. hook'.active = hook.active /\ (hook.active # NoRun => run'[hook.active] = run[hook.active])
      BY <1>0, <2>2 DEF Current, Hook
    <3> QED BY <3>1, <2>2 DEF ClientInv, NoOrphan, Live
  <2> QED BY <2>1, <2>2
<1> QED BY <1>2, <1>3, <1>5, <1>6, <1>7, <1>8, <1>9, <1>10, <1>11 DEF ClientInv

\* The user starts a job: the new object waits for its reservation.
LEMMA StartStep ==
    ASSUME ClientInv, NEW r \in Run, Start(r), UNCHANGED left
    PROVE  ClientInv'
<1>0. Types /\ ClientTypeOK
  BY TypesOK
<1>1. /\ hook.mounted /\ ~hook.hidden /\ hook.active = NoRun /\ hook.pendingId = NoJob /\ ~Locked
      /\ Free(r)
      /\ UNCHANGED <<srv, locator, known, asked, left>>
  BY DEF Start, history
<1>2. /\ /\ hook'.mounted = hook.mounted /\ hook'.hidden = hook.hidden /\ hook'.active = r
         /\ hook'.pendingId = hook.pendingId /\ hook'.restoring = hook.restoring
         /\ hook'.recoveryPending = hook.recoveryPending /\ hook'.paused = FALSE
         /\ hook'.stage = "reserving" /\ hook'.look = hook.look
         /\ hook'.restore = hook.restore
         /\ hook' \in Hook
  BY <1>0 DEF Start, Types, Hook
<1>3. /\ \A q \in Run \ {r} : run'[q] = run[q]
      /\ run'[r] = NewRun /\ run' \in [Run -> RunObject]
  BY <1>0, ClientAssumption DEF Start, Types, NewRun, RunObject
<1>4. PICK new : new = Sent("begin", r, "create", NoJob)
  OBVIOUS
<1>5. /\ new.from = "begin" /\ new.run = r /\ new.op = "create" /\ new.job = NoJob /\ new.what = "sent"
      /\ new \in Request /\ net' = net \cup {new}
  BY <1>4, ClientAssumption DEF Start, Sent, Request
<1>6. ClientTypeOK'
  BY <1>0, <1>1, <1>2, <1>3, <1>5 DEF ClientTypeOK
<1>7. NetInv'
  <2>1. ASSUME NEW m \in net PROVE About(m)' /\ m.run # r
    BY <1>1, <1>2, <1>3, AboutOthers DEF Free
  <2>2. Proper(new)' /\ About(new)'
    BY <1>2, <1>3, <1>5, ClientAssumption DEF Proper, About, Awaited, Current, NewRun
  <2> QED BY <2>1, <2>2, <1>1, <1>5, NetStep
<1>8. RunInv'
  BY <1>0, <1>1, <1>2, <1>3, ClientAssumption DEF ClientInv, RunInv, RunOK, CurrentOK,
     Current, Free, NewRun, StageOf, Locked
<1>9. LookInv'
  BY <1>0, <1>1, <1>2, <1>3, ClientAssumption DEF ClientInv, LookInv, Current, Free, Types,
     Hook, Look
<1>10. HookInv'
  BY <1>0, <1>1, <1>2, <1>3, ClientAssumption DEF ClientInv, HookInv, Current, Free,
     NeverStranded, Locked, StillAbout
<1>11. LocatorInv'
  BY <1>1, <1>2, <1>3, ClientAssumption DEF ClientInv, LocatorInv
<1>12. FreshInv'
  <2>1. \A j \in Job : Named(j)' => Named(j)
    BY <1>1, <1>2, <1>3, <1>5, ClientAssumption DEF Named, NewRun
  <2> QED BY <2>1, <1>1, <1>5, FreshStep
<1>13. SettledInv'
  BY <1>0, <1>1, <1>2, <1>3, ClientAssumption DEF ClientInv, SettledInv, Mutated, NewRun,
     RunInv, RunOK
<1>14. NoOrphan'
  BY <1>1, <1>2 DEF ClientInv, NoOrphan, Live
<1> QED BY <1>6, <1>7, <1>8, <1>9, <1>10, <1>11, <1>12, <1>13, <1>14 DEF ClientInv

\* The user cancels: with a job the cancellation is asked for, without one the start is told.
LEMMA CancelStep ==
    ASSUME ClientInv, NEW r \in Run, Cancel(r), UNCHANGED left
    PROVE  ClientInv'
<1> DEFINE sends == run[r].job # NoJob
<1>0. Types /\ ClientTypeOK /\ run[r] \in RunObject
  BY TypesOK, RunStatesAre
<1>1. /\ Current(r) /\ ~hook.hidden /\ run[r].user = "none"
      /\ ~hook.restoring /\ ~hook.recoveryPending /\ hook.active = r
      /\ UNCHANGED <<srv, locator, known, left>>
  BY ClientAssumption DEF Cancel, Current, Changing
<1>2. /\ /\ hook'.mounted = hook.mounted /\ hook'.hidden = hook.hidden
         /\ hook'.active = hook.active /\ hook'.pendingId = hook.pendingId
         /\ hook'.restoring = hook.restoring
         /\ hook'.recoveryPending = hook.recoveryPending /\ hook'.paused = FALSE
         /\ hook'.stage = "cancelling" /\ hook'.look = NoLook
         /\ hook'.restore = hook.restore
         /\ hook' \in Hook
  BY <1>0, LookIs DEF Cancel, Unlooks, Types, Hook
<1>3. /\ /\ \A q \in Run \ {r} : run'[q] = run[q]
         /\ run'[r].job = run[r].job /\ run'[r].state = run[r].state
         /\ run'[r].begin = run[r].begin
         /\ run'[r].user = IF sends THEN "cancel" ELSE "none"
         /\ run'[r].clean = run[r].clean /\ run'[r].cancelled = TRUE
         /\ run'[r].secret = FALSE /\ run'[r].keep = run[r].keep
         /\ run' \in [Run -> RunObject]
  <2>1. CASE sends
    BY <1>0, <1>1, <2>1 DEF Cancel, Types, RunObject
  <2>2. CASE ~sends
    BY <1>0, <1>1, <2>2 DEF Cancel, Types, RunObject
  <2> QED BY <2>1, <2>2
<1>4. PICK new : new = Sent("user", r, "cancel", run[r].job)
  OBVIOUS
<1>5. /\ new.from = "user" /\ new.run = r /\ new.op = "cancel" /\ new.job = run[r].job /\ new.what = "sent"
      /\ new \in Request
  BY <1>0, <1>4, ClientAssumption DEF Sent, Request, RunObject
<1>6. \A n : n \in net' <=> (n \in net /\ n.from # "look") \/ (sends /\ n = new)
  <2>1. net' = {m \in net : m.from # "look"} \cup
               {Sent("user", i, "cancel", run[i].job) : i \in {k \in {r} : sends}}
    BY DEF Cancel, Unlooks
  <2>2. \A n : n \in {Sent("user", i, "cancel", run[i].job) : i \in {k \in {r} : sends}}
                <=> (sends /\ n = new)
    BY <1>4
  <2> QED BY <2>1, <2>2
<1>7. asked \subseteq asked' /\ (sends => run[r].job \in asked') /\ asked' \subseteq Job
  BY <1>0 DEF Cancel, Types, RunObject
<1>8. ClientTypeOK'
  BY <1>0, <1>1, <1>2, <1>3, <1>5, <1>6, <1>7 DEF ClientTypeOK, NoLook
<1>9. NetInv'
  <2>1. ASSUME NEW m \in net, m.from # "look", m.run = r PROVE About(m)' /\ m.from # "user"
    <3>1. Proper(m) /\ About(m) /\ m \in Request /\ Awaited(m) /\ m.from # "user"
      BY <2>1, <1>1, MessageIs, UserMessage
    <3> QED BY <3>1, <2>1, <1>1, <1>3, AboutKeptFor
  <2>2. ASSUME sends PROVE Proper(new)' /\ About(new)'
    <3>1. Proper(new)'
      BY <2>2, <1>5, <1>0, ClientAssumption DEF Proper
    <3>2. run'[r].user = "cancel" /\ run'[r].job = run[r].job
      BY <2>2, <1>3
    <3> QED BY <3>1, <3>2, <1>5 DEF About, Awaited
  <2>3. \A m \in net : m.from # "look" => About(m)'
    BY <2>1, <1>2, <1>3, AboutOthers
  <2> QED BY <2>1, <2>2, <2>3, <1>1, <1>5, <1>6, NetStep
<1>10. RunInv'
  BY <1>0, <1>1, <1>2, <1>3, <1>7, ClientAssumption DEF ClientInv, RunInv, RunOK, CurrentOK,
     Current, StageOf
<1>11. LookInv'
  BY <1>2, ClientAssumption DEF LookInv, NoLook
<1>12. HookInv'
  BY <1>0, <1>1, <1>2, <1>3, ClientAssumption DEF ClientInv, HookInv, Current, NeverStranded,
     StillAbout
<1>13. LocatorInv'
  BY <1>1, <1>2, <1>3, ClientAssumption DEF ClientInv, LocatorInv
<1>14. FreshInv'
  <2>1. \A j \in Job : Named(j)' => Named(j)
    BY <1>1, <1>2, <1>3, <1>5, <1>6, ClientAssumption DEF Named, NoLook
  <2> QED BY <2>1, <1>1, <1>5, <1>6, FreshStep
<1>15. SettledInv'
  BY <1>0, <1>1, <1>2, <1>3, ClientAssumption DEF ClientInv, SettledInv, NoLook
<1>16. NoOrphan'
  BY <1>1, <1>2, <1>3, <1>7 DEF ClientInv, NoOrphan, Live
<1> QED BY <1>8, <1>9, <1>10, <1>11, <1>12, <1>13, <1>14, <1>15, <1>16 DEF ClientInv

\* The user clears the job: its removal is asked for.
LEMMA ClearStep ==
    ASSUME ClientInv, NEW r \in Run, Clear(r), UNCHANGED left
    PROVE  ClientInv'
<1>0. Types /\ ClientTypeOK /\ run[r] \in RunObject
  BY TypesOK, RunStatesAre
<1>1. /\ Current(r) /\ ~hook.hidden /\ run[r].user = "none" /\ ~Locked /\ hook.active = r
      /\ run[r].job # NoJob
      /\ UNCHANGED <<srv, locator, known, left>>
  BY ClientAssumption DEF Clear, Current, Changing, ClientInv, RunInv, RunOK
<1>2. /\ /\ hook'.mounted = hook.mounted /\ hook'.hidden = hook.hidden
         /\ hook'.active = hook.active /\ hook'.pendingId = hook.pendingId
         /\ hook'.restoring = hook.restoring
         /\ hook'.recoveryPending = hook.recoveryPending /\ hook'.paused = hook.paused
         /\ hook'.stage = "clearing" /\ hook'.look = NoLook
         /\ hook'.restore = hook.restore
         /\ hook' \in Hook
  BY <1>0, LookIs DEF Clear, Unlooks, Types, Hook
<1>3. /\ /\ \A q \in Run \ {r} : run'[q] = run[q]
         /\ run'[r].job = run[r].job /\ run'[r].state = run[r].state
         /\ run'[r].begin = run[r].begin /\ run'[r].user = "clear"
         /\ run'[r].clean = run[r].clean /\ run'[r].cancelled = run[r].cancelled
         /\ run'[r].secret = run[r].secret /\ run'[r].keep = run[r].keep
         /\ run' \in [Run -> RunObject]
  BY <1>0 DEF Clear, Types, RunObject
<1>4. PICK new : new = Sent("user", r, "clear", run[r].job)
  OBVIOUS
<1>5. /\ new.from = "user" /\ new.run = r /\ new.op = "clear" /\ new.job = run[r].job /\ new.what = "sent"
      /\ new \in Request
  BY <1>0, <1>4, ClientAssumption DEF Sent, Request, RunObject
<1>6. \A n : n \in net' <=> (n \in net /\ n.from # "look") \/ n = new
  BY <1>4 DEF Clear, Unlooks
<1>7. asked \subseteq asked' /\ run[r].job \in asked' /\ asked' \subseteq Job
  BY <1>0, <1>1 DEF Clear, Types, RunObject
<1>8. ClientTypeOK'
  BY <1>0, <1>1, <1>2, <1>3, <1>5, <1>6, <1>7 DEF ClientTypeOK, NoLook
<1>9. NetInv'
  <2>1. ASSUME NEW m \in net, m.from # "look", m.run = r PROVE About(m)' /\ m.from # "user"
    <3>1. Proper(m) /\ About(m) /\ m \in Request /\ Awaited(m) /\ m.from # "user"
      BY <2>1, <1>1, MessageIs, UserMessage
    <3> QED BY <3>1, <2>1, <1>1, <1>3, AboutKeptFor
  <2>2. Proper(new)' /\ About(new)'
    BY <1>1, <1>3, <1>5, ClientAssumption DEF Proper, About, Awaited
  <2>3. \A m \in net : m.from # "look" => About(m)'
    BY <2>1, <1>2, <1>3, AboutOthers
  <2> QED BY <2>1, <2>2, <2>3, <1>1, <1>5, <1>6, NetStep
<1>10. RunInv'
  BY <1>0, <1>1, <1>2, <1>3, <1>7, ClientAssumption DEF ClientInv, RunInv, RunOK, CurrentOK,
     Current, StageOf, Locked, RunObject
<1>11. LookInv'
  BY <1>2, ClientAssumption DEF LookInv, NoLook
<1>12. HookInv'
  BY <1>0, <1>1, <1>2, <1>3, ClientAssumption DEF ClientInv, HookInv, Current, NeverStranded,
     StillAbout, Locked
<1>13. LocatorInv'
  BY <1>1, <1>2, <1>3, ClientAssumption DEF ClientInv, LocatorInv
<1>14. FreshInv'
  <2>1. \A j \in Job : Named(j)' => Named(j)
    BY <1>1, <1>2, <1>3, <1>5, <1>6, ClientAssumption DEF Named, NoLook
  <2> QED BY <2>1, <1>1, <1>5, <1>6, FreshStep
<1>15. SettledInv'
  BY <1>0, <1>1, <1>2, <1>3, ClientAssumption DEF ClientInv, SettledInv, NoLook
<1>16. NoOrphan'
  BY <1>1, <1>2, <1>3, <1>7 DEF ClientInv, NoOrphan, Live
<1> QED BY <1>8, <1>9, <1>10, <1>11, <1>12, <1>13, <1>14, <1>15, <1>16 DEF ClientInv

\* The page is shown again: the hook restores its status.
LEMMA PageShowStep ==
    ASSUME ClientInv, PageShow, UNCHANGED left
    PROVE  ClientInv'
<1>0. Types /\ ClientTypeOK
  BY TypesOK
<1>1. /\ hook.hidden
      /\ UNCHANGED <<srv, net, locator, run, known, asked, left>>
  BY DEF PageShow, history
<1>2. /\ /\ hook'.mounted = hook.mounted /\ hook'.hidden = FALSE
         /\ hook'.active = hook.active /\ hook'.pendingId = hook.pendingId
         /\ hook'.restoring = hook.restoring
         /\ hook'.recoveryPending = hook.recoveryPending /\ hook'.paused = hook.paused
         /\ hook'.stage = hook.stage /\ hook'.look = hook.look
         /\ hook'.restore = hook.active
         /\ hook' \in Hook
  BY <1>0 DEF PageShow, Types, Hook
<1>3. ClientTypeOK'
  BY <1>0, <1>1, <1>2 DEF ClientTypeOK
<1>4. NetInv'
  <2>1. ASSUME NEW m \in net PROVE About(m)'
    BY <1>1, <1>2, MessageIs, AboutKept DEF Current
  <2> QED BY <2>1, <1>1, NetShrinks
<1>5. RunInv'
  BY <1>1, <1>2 DEF ClientInv, RunInv, RunOK, CurrentOK, Current
<1>6. LookInv'
  BY <1>1, <1>2 DEF ClientInv, LookInv, Current, NoLook
<1>7. HookInv'
  BY <1>0, <1>1, <1>2, ClientAssumption DEF ClientInv, HookInv, RunInv, CurrentOK,
     NeverStranded, StillAbout, Types, Hook
<1>8. LocatorInv'
  BY <1>1, <1>2 DEF ClientInv, LocatorInv
<1>9. FreshInv'
  BY <1>1, <1>2, FreshStep DEF Named
<1>10. SettledInv'
  BY <1>1, <1>2 DEF ClientInv, SettledInv, Mutated
<1>11. NoOrphan'
  BY <1>1, <1>2 DEF ClientInv, NoOrphan, Live
<1> QED BY <1>3, <1>4, <1>5, <1>6, <1>7, <1>8, <1>9, <1>10, <1>11 DEF ClientInv

\* Somebody empties the session storage: every live job that was there is one that a request
\* names, or it is lost with what the user removed.
LEMMA StorageClearedStep ==
    ASSUME ClientInv, StorageCleared, UNCHANGED left
    PROVE  ClientInv'
<1>0. Types /\ ClientTypeOK
  BY TypesOK
<1>1. /\ ~hook.hidden /\ hook.active # NoRun /\ locator # NoJob
      /\ locator' = NoJob
      /\ UNCHANGED <<srv, net, hook, run, known, asked, left>>
  BY DEF StorageCleared, history
<1>2. ClientTypeOK'
  BY <1>0, <1>1 DEF ClientTypeOK
<1>3. NetInv'
  <2>1. ASSUME NEW m \in net PROVE About(m)'
    BY <1>1, MessageIs, AboutKept DEF Current
  <2> QED BY <2>1, <1>1, NetShrinks
<1>4. RunInv'
  BY <1>1 DEF ClientInv, RunInv, RunOK, CurrentOK, Current
<1>5. LookInv'
  BY <1>1 DEF ClientInv, LookInv, Current, NoLook
<1>6. HookInv'
  BY <1>1 DEF ClientInv, HookInv, NeverStranded, StillAbout
<1>7. LocatorInv'
  BY <1>1 DEF LocatorInv
<1>8. FreshInv'
  BY <1>1, ClientAssumption, FreshStep DEF Named
<1>9. SettledInv'
  BY <1>1 DEF ClientInv, SettledInv, Mutated
<1>10. NoOrphan'
  <2>1. hook.mounted /\ hook.active \in Run
    BY <1>0, <1>1 DEF ClientInv, HookInv, Types, Hook
  <2> QED BY <2>1, <1>1, ClientAssumption DEF ClientInv, NoOrphan, Live, LocatorInv
<1> QED BY <1>2, <1>3, <1>4, <1>5, <1>6, <1>7, <1>8, <1>9, <1>10 DEF ClientInv

\* The page is reloaded: nothing of it remains but the storage and the requests sent.
LEMMA ReloadStep ==
    ASSUME ClientInv, Reload, UNCHANGED left
    PROVE  ClientInv'
<1>0. Types /\ ClientTypeOK
  BY TypesOK
<1>1. /\ ~hook.mounted \/ hook.hidden
      /\ hook' = Unmounted
      /\ net' \subseteq net
      /\ \A m \in net' : m.op \in {"cancel", "clear"} /\ m.what = "sent"
      /\ UNCHANGED <<srv, locator, known, asked, left>>
  BY DEF Reload, history
<1>2. /\ \A q \in Run : run'[q] = NoObject
      /\ run' \in [Run -> RunObject]
  BY NoObjectIs DEF Reload
<1>3. /\ hook'.active = NoRun /\ hook'.pendingId = NoJob /\ hook'.look = NoLook /\ hook'.restore = "none"
      /\ ~hook'.mounted /\ ~hook'.hidden /\ ~hook'.recoveryPending /\ ~hook'.restoring
      /\ hook' \in Hook
  BY <1>1, LookIs DEF Unmounted, Hook
<1>4. \A m \in net' : m.from # "look" /\ m.run \in Run
  BY <1>1, MessageIs DEF Proper
<1>5. ClientTypeOK'
  BY <1>0, <1>1, <1>2, <1>3, <1>4 DEF ClientTypeOK
<1>6. NetInv'
  <2>1. ASSUME NEW m \in net' PROVE About(m)'
    <3>1. LeftBehind(m)' /\ ~Current(m.run)'
      BY <1>1, <1>2, <1>3, <1>4, NoObjectIs, ClientAssumption DEF LeftBehind, Current,
         NoObject, NewRun
    <3>2. m.from = "user" => ~Awaited(m)'
      BY <1>1, <1>2, <1>4, NoObjectIs DEF Awaited
    <3> QED BY <3>1, <3>2, <1>4 DEF About
  <2> QED BY <2>1, <1>1, NetShrinks
<1>7. RunInv'
  BY <1>2, <1>3, NoObjectIs DEF RunInv, RunOK, Current
<1>8. LookInv'
  BY <1>3 DEF LookInv, NoLook
<1>9. HookInv'
  BY <1>1, <1>3, ClientAssumption DEF HookInv, NeverStranded
<1>10. LocatorInv'
  BY <1>3 DEF LocatorInv
<1>11. FreshInv'
  <2>1. \A j \in Job : Named(j)' => Named(j)
    BY <1>1, <1>2, <1>3, NoObjectIs, ClientAssumption DEF Named, NoLook
  <2> QED BY <2>1, <1>1, FreshStep
<1>12. SettledInv'
  BY <1>3 DEF SettledInv, NoLook
<1>13. NoOrphan'
  <2>1. hook.active # NoRun => hook.hidden
    BY <1>1 DEF ClientInv, HookInv
  <2> QED BY <2>1, <1>0, <1>1, <1>3, ClientAssumption DEF ClientInv, NoOrphan, Live, RunInv,
             CurrentOK
<1> QED BY <1>5, <1>6, <1>7, <1>8, <1>9, <1>10, <1>11, <1>12, <1>13 DEF ClientInv

\* Poll and Retry look in the same way.
LEMMA LooksStep ==
    ASSUME ClientInv, CanLook(hook), Refreshes(hook), ~hook.hidden,
           hook.active # NoRun => run[hook.active].cancelled \/ run[hook.active].begin = "none",
           UNCHANGED <<srv, locator, run, known, asked, left>>
    PROVE  ClientInv'
<1>0. Types /\ ClientTypeOK /\ hook \in Hook
  BY TypesOK DEF Types
<1>1. UNCHANGED <<srv, locator, run, known, asked, left>>
  OBVIOUS
<1>2. /\ /\ hook'.mounted = hook.mounted /\ hook'.hidden = hook.hidden
         /\ hook'.active = hook.active /\ hook'.pendingId = hook.pendingId
         /\ hook'.restoring = hook'.restoring
         /\ hook'.recoveryPending = hook.recoveryPending /\ hook'.paused = hook.paused
         /\ hook'.stage = hook.stage /\ hook'.look = hook'.look
         /\ hook'.restore = hook.restore
      /\ hook'.restoring \in BOOLEAN /\ hook' \in Hook
      /\ hook'.look.run = hook.active /\ hook'.look.job = Target(hook) /\ hook'.look # NoLook
      /\ hook'.look.step = (IF Mutated(Target(hook)) THEN "wait" ELSE "status")
      /\ hook.look = NoLook /\ ~Changing /\ Target(hook) \in Job
  BY <1>0, RefreshesIs
<1>3. PICK new \in Request :
         /\ new = Sent("look", hook.active, "status", Target(hook))
         /\ \A n : n \in net' <=> n \in net \/ (hook'.look.step = "status" /\ n = new)
  BY <1>0, RefreshesIs
<1>4. /\ new.from = "look" /\ new.run = hook.active /\ new.op = "status" /\ new.job = Target(hook)
      /\ new.what = "sent"
  BY <1>3 DEF Sent
<1>5. \A m \in net : m.from # "look"
  BY <1>0, <1>2 DEF ClientTypeOK, NoLook
<1>6. ClientTypeOK'
  BY <1>0, <1>1, <1>2, <1>3, <1>4, <1>5 DEF ClientTypeOK
<1>7. NetInv'
  <2>1. ASSUME NEW m \in net PROVE About(m)'
    BY <1>1, <1>2, <1>5, MessageIs, AboutKept DEF Current
  <2>2. ASSUME new \in net' PROVE Proper(new)' /\ About(new)'
    <3>1. hook'.look.step = "status"
      BY <2>2, <1>3, <1>4, <1>5
    <3> QED BY <3>1, <1>2, <1>4, ClientAssumption DEF Proper, About, Awaited
  <2> QED BY <2>1, <2>2, <1>1, <1>3, <1>4, <1>5, NetStep
<1>8. RunInv'
  BY <1>1, <1>2 DEF ClientInv, RunInv, RunOK, CurrentOK, Current
<1>9. LookInv'
  BY <1>1, <1>2, ClientAssumption DEF LookInv, Current, NoLook, Changing, Target
<1>10. HookInv'
  BY <1>1, <1>2, ClientAssumption DEF ClientInv, HookInv, NeverStranded, StillAbout, Target
<1>11. LocatorInv'
  BY <1>1, <1>2 DEF ClientInv, LocatorInv
<1>12. FreshInv'
  <2>1. \A j \in Job : Named(j)' => Named(j)
    <3>1. Named(Target(hook))
      BY <1>0, <1>2 DEF Named, Target, Types, Hook
    <3> QED BY <3>1, <1>1, <1>2, <1>3, <1>4 DEF Named
  <2> QED BY <2>1, <1>1, <1>3, <1>4, FreshStep
<1>13. SettledInv'
  BY <1>1, <1>2 DEF ClientInv, SettledInv, Mutated
<1>14. NoOrphan'
  BY <1>1, <1>2 DEF ClientInv, NoOrphan, Live
<1> QED BY <1>6, <1>7, <1>8, <1>9, <1>10, <1>11, <1>12, <1>13, <1>14 DEF ClientInv

\* The timer asks for the status of the current job.
LEMMA PollStep ==
    ASSUME ClientInv, Poll, UNCHANGED left
    PROVE  ClientInv'
<1>1. run[hook.active].cancelled \/ run[hook.active].begin = "none"
  <2>1. run[hook.active] \in RunObject
    BY TypesOK, ClientAssumption DEF Poll, Types, Hook
  <2> QED BY <2>1, ClientAssumption, TypesOK DEF Poll, ClientInv, RunInv, RunOK, CurrentOK,
             StageOf, RunObject, Types, Hook
<1>2. ~hook.hidden
  BY DEF Poll, ClientInv, HookInv
<1> QED BY <1>1, <1>2, LooksStep DEF Poll, history

\* The user retries the recovery.
LEMMA RetryStep ==
    ASSUME ClientInv, Retry, UNCHANGED left
    PROVE  ClientInv'
<1>1. hook.active # NoRun => run[hook.active].cancelled \/ run[hook.active].begin = "none"
  BY DEF Retry, ClientInv, RunInv, CurrentOK
<1> QED BY <1>1, LooksStep DEF Retry, history

\* A new hook takes the job of the storage.
LEMMA MountStep ==
    ASSUME ClientInv, Mount, UNCHANGED left
    PROVE  ClientInv'
<1> DEFINE there == locator # NoJob
           h == [Unmounted EXCEPT !.mounted = TRUE, !.pendingId = locator,
                                  !.pendingRestoration = there, !.recoveryPending = there]
<1>0. Types /\ ClientTypeOK
  BY TypesOK
<1>1. /\ ~hook.mounted /\ Refreshes(h)
      /\ UNCHANGED <<srv, locator, run, known, asked, left>>
  BY DEF Mount, history
<1>2. /\ h \in Hook
      /\ h.mounted /\ ~h.hidden /\ h.active = NoRun /\ h.pendingId = locator /\ ~h.restoring
      /\ ~h.paused /\ h.stage = "none" /\ h.look = NoLook /\ h.restore = "none"
      /\ h.recoveryPending = there
  <2>1. there \in BOOLEAN /\ locator \in Job \cup {NoJob}
    BY <1>0 DEF Types
  <2> HIDE DEF there
  <2> QED BY <2>1, LookIs DEF Unmounted, Hook
<1>3. hook.active = NoRun /\ hook.look = NoLook
  BY <1>1 DEF ClientInv, HookInv
<1>4. \A m \in net : m.from # "look"
  BY <1>0, <1>3 DEF ClientTypeOK, NoLook
<1>5. CanLook(h) <=> there
  BY <1>2, <1>3 DEF CanLook, Target, Changing
<1> HIDE DEF h
<1>6. CASE ~there
  <2>1. hook' = h /\ net' = net
    BY <1>1, <1>5, <1>6 DEF Refreshes
  <2>2. ClientTypeOK'
    BY <1>0, <1>1, <1>2, <1>4, <2>1 DEF ClientTypeOK
  <2>3. NetInv'
    <3>1. ASSUME NEW m \in net PROVE About(m)'
      <4>1. Proper(m) /\ About(m) /\ m \in Request
        BY MessageIs
      <4> QED BY <4>1, <1>1, <1>2, <1>3, <1>4, <2>1, AboutKept DEF Current
    <3> QED BY <3>1, <2>1, <1>1, NetShrinks
  <2>4. RunInv'
    BY <1>1, <1>2, <1>3, <2>1 DEF ClientInv, RunInv, RunOK, Current
  <2>5. LookInv' /\ LocatorInv' /\ SettledInv'
    BY <1>1, <1>2, <1>6, <2>1, ClientAssumption DEF LookInv, LocatorInv, SettledInv, NoLook
  <2>8. HookInv'
    BY <1>1, <1>2, <1>6, <2>1, ClientAssumption DEF HookInv, NeverStranded
  <2>6. FreshInv'
    <3>1. \A j \in Job : Named(j)' => Named(j)
      BY <1>1, <1>2, <2>1, ClientAssumption DEF Named, NoLook
    <3> QED BY <3>1, <1>1, <2>1, FreshStep
  <2>7. NoOrphan'
    BY <1>1, <1>2, <1>3, <2>1 DEF ClientInv, NoOrphan, Live
  <2> QED BY <2>2, <2>3, <2>4, <2>5, <2>6, <2>7, <2>8 DEF ClientInv
<1>7. CASE there
  <2>1. /\ /\ hook'.mounted = h.mounted /\ hook'.hidden = h.hidden
           /\ hook'.active = h.active /\ hook'.pendingId = h.pendingId
           /\ hook'.restoring = hook'.restoring
           /\ hook'.recoveryPending = h.recoveryPending /\ hook'.paused = h.paused
           /\ hook'.stage = h.stage /\ hook'.look = hook'.look
           /\ hook'.restore = h.restore
        /\ hook'.restoring \in BOOLEAN /\ hook' \in Hook
        /\ hook'.look.run = NoRun /\ hook'.look.job = locator /\ hook'.look # NoLook
        /\ hook'.look.step = (IF Mutated(locator) THEN "wait" ELSE "status")
        /\ locator \in Job /\ Target(h) = locator
    BY <1>0, <1>1, <1>2, <1>5, <1>7, RefreshesIs DEF Target
  <2>2. PICK new \in Request :
           /\ new = Sent("look", h.active, "status", Target(h))
           /\ \A n : n \in net' <=> n \in net \/ (hook'.look.step = "status" /\ n = new)
    BY <1>0, <1>1, <1>2, <1>5, <1>7, RefreshesIs
  <2>3. /\ new.from = "look" /\ new.run = NoRun /\ new.op = "status" /\ new.job = locator
        /\ new.what = "sent"
    BY <2>1, <2>2, <1>2 DEF Sent
  <2>4. ClientTypeOK'
    BY <1>0, <1>1, <1>4, <2>1, <2>2, <2>3 DEF ClientTypeOK
  <2>5. NetInv'
    <3>1. ASSUME NEW m \in net PROVE About(m)'
      <4>1. Proper(m) /\ About(m) /\ m \in Request
        BY MessageIs
      <4> QED BY <4>1, <1>1, <1>2, <1>3, <1>4, <2>1, AboutKept DEF Current
    <3>2. ASSUME new \in net' PROVE Proper(new)' /\ About(new)'
      <4>1. hook'.look.step = "status"
        BY <3>2, <1>4, <2>2, <2>3
      <4> QED BY <4>1, <2>1, <2>3, ClientAssumption DEF Proper, About, Awaited
    <3> QED BY <3>1, <3>2, <1>1, <1>4, <2>2, <2>3, NetStep
  <2>6. RunInv'
    BY <1>1, <1>2, <1>3, <2>1 DEF ClientInv, RunInv, RunOK, Current
  <2>7. LookInv' /\ HookInv' /\ LocatorInv'
    BY <1>1, <1>2, <2>1, ClientAssumption DEF LookInv, HookInv, LocatorInv, NeverStranded,
       NoLook, StillAbout
  <2>8. FreshInv'
    <3>1. \A j \in Job : Named(j)' => Named(j)
      BY <1>1, <1>2, <2>1, <2>2, <2>3, ClientAssumption DEF Named
    <3> QED BY <3>1, <1>1, <2>2, <2>3, FreshStep
  <2>9. SettledInv'
    BY <1>1, <1>2, <2>1 DEF SettledInv, Mutated
  <2>10. NoOrphan'
    BY <1>1, <1>2, <1>3, <2>1 DEF ClientInv, NoOrphan, Live
  <2> QED BY <2>4, <2>5, <2>6, <2>7, <2>8, <2>9, <2>10 DEF ClientInv
<1> QED BY <1>6, <1>7

\* A status begins to be asked for once its cleanup and the user are done.
LEMMA LookGoesOnStep ==
    ASSUME ClientInv, LookGoesOn, UNCHANGED left
    PROVE  ClientInv'
<1> DEFINE goes == StillAbout(hook.look)
<1>0. Types /\ ClientTypeOK
  BY TypesOK
<1>1. /\ hook.look.step = "wait" /\ ~Mutated(hook.look.job)
      /\ UNCHANGED <<srv, locator, run, known, asked, left>>
  BY DEF LookGoesOn, history
<1>2. /\ \A m \in net : m.from # "look"
      /\ hook.look # NoLook /\ hook.look.job # NoJob /\ ~hook.hidden
  BY <1>0, <1>1 DEF ClientTypeOK, NoLook, ClientInv, LookInv, HookInv
<1>3. CASE goes
  <2>1. /\ /\ hook'.mounted = hook.mounted /\ hook'.hidden = hook.hidden
           /\ hook'.active = hook.active /\ hook'.pendingId = hook.pendingId
           /\ hook'.restoring = hook.restoring
           /\ hook'.recoveryPending = hook.recoveryPending /\ hook'.paused = hook.paused
           /\ hook'.stage = hook.stage /\ hook'.look = hook'.look
           /\ hook'.restore = hook.restore
        /\ hook' \in Hook
        /\ hook'.look.run = hook.look.run /\ hook'.look.job = hook.look.job
        /\ hook'.look.step = "status" /\ hook'.look # NoLook
    BY <1>0, <1>1, <1>3 DEF LookGoesOn, Types, Hook, Look, NoLook
  <2>2. PICK new : new = Sent("look", hook.look.run, "status", hook.look.job)
    OBVIOUS
  <2>3. /\ new.from = "look" /\ new.run = hook.look.run /\ new.op = "status" /\ new.job = hook.look.job
        /\ new.what = "sent" /\ new \in Request
    BY <1>0, <2>2 DEF Sent, Request, Types, Hook, Look
  <2>4. \A n : n \in net' <=> n \in net \/ n = new
    <3>1. net' = net \cup StatusOf(hook'.look)
      BY <1>3 DEF LookGoesOn
    <3> QED BY <3>1, <2>1, <2>2 DEF StatusOf
  <2>5. ClientTypeOK'
    BY <1>0, <1>1, <2>1, <2>3, <2>4 DEF ClientTypeOK
  <2>6. NetInv'
    <3>1. ASSUME NEW m \in net PROVE About(m)'
      <4>1. Proper(m) /\ About(m) /\ m \in Request
        BY MessageIs
      <4> QED BY <4>1, <1>1, <1>2, <2>1, AboutKept DEF Current
    <3>2. Proper(new)' /\ About(new)'
      BY <1>2, <2>1, <2>3, ClientAssumption DEF Proper, About, Awaited
    <3> QED BY <3>1, <3>2, <1>1, <1>2, <2>3, <2>4, NetStep
  <2>7. RunInv'
    BY <1>1, <2>1 DEF ClientInv, RunInv, RunOK, CurrentOK, Current
  <2>8. LookInv'
    BY <1>1, <1>2, <2>1 DEF ClientInv, LookInv, Current, NoLook
  <2>9. HookInv'
    BY <1>1, <1>2, <2>1 DEF ClientInv, HookInv, NeverStranded, StillAbout, NoLook
  <2>10. LocatorInv' /\ SettledInv' /\ NoOrphan'
    BY <1>1, <2>1 DEF ClientInv, LocatorInv, SettledInv, Mutated, NoOrphan, Live
  <2>11. FreshInv'
    <3>1. \A j \in Job : Named(j)' => Named(j)
      BY <1>1, <2>1, <2>3, <2>4 DEF Named
    <3> QED BY <3>1, <1>1, <2>3, <2>4, FreshStep
  <2> QED BY <2>5, <2>6, <2>7, <2>8, <2>9, <2>10, <2>11 DEF ClientInv
<1>4. CASE ~goes
  <2>1. /\ /\ hook'.mounted = hook.mounted /\ hook'.hidden = hook.hidden
           /\ hook'.active = hook.active /\ hook'.pendingId = hook.pendingId
           /\ hook'.restoring = FALSE /\ hook'.recoveryPending = hook.recoveryPending
           /\ hook'.paused = hook.paused /\ hook'.stage = hook.stage
           /\ hook'.look = NoLook /\ hook'.restore = hook.restore
           /\ hook' \in Hook
        /\ net' = net
    <3>1. hook' = LookEnds(hook) /\ net' = net
      BY <1>4 DEF LookGoesOn
    <3> QED BY <1>0, <3>1, LookIs DEF LookEnds, Types, Hook
  <2>2. ~hook.recoveryPending
    BY <1>2, <1>4 DEF ClientInv, HookInv
  <2>5. ClientTypeOK'
    BY <1>0, <1>1, <2>1, <1>2 DEF ClientTypeOK
  <2>6. NetInv'
    <3>1. ASSUME NEW m \in net PROVE About(m)'
      <4>1. Proper(m) /\ About(m) /\ m \in Request
        BY MessageIs
      <4> QED BY <4>1, <1>1, <1>2, <2>1, AboutKept DEF Current
    <3> QED BY <3>1, <1>1, <2>1, NetShrinks
  <2>7. RunInv'
    BY <1>1, <2>1 DEF ClientInv, RunInv, RunOK, CurrentOK, Current
  <2>8. LookInv'
    BY <2>1 DEF LookInv, NoLook
  <2>9. HookInv'
    BY <1>1, <1>2, <2>1, <2>2 DEF ClientInv, HookInv, NeverStranded
  <2>10. LocatorInv' /\ SettledInv' /\ NoOrphan'
    BY <1>1, <2>1 DEF ClientInv, LocatorInv, SettledInv, Mutated, NoOrphan, Live, NoLook
  <2>11. FreshInv'
    <3>1. \A j \in Job : Named(j)' => Named(j)
      BY <1>1, <2>1, ClientAssumption DEF Named, NoLook
    <3> QED BY <3>1, <1>1, <2>1, FreshStep
  <2> QED BY <2>5, <2>6, <2>7, <2>8, <2>9, <2>10, <2>11 DEF ClientInv
<1> QED BY <1>3, <1>4

\* A status cannot be had.
LEMMA LookFailsStep ==
    ASSUME ClientInv, NEW m \in net, LookFails(m), UNCHANGED left
    PROVE  ClientInv'
<1>0. Types /\ ClientTypeOK
  BY TypesOK
<1>1. /\ m.from = "look" /\ m.what \in {"expired", "error"} /\ StillAbout(hook.look)
      /\ net' = net \ {m}
      /\ hook' = LookEnds(Missed(hook, m.what))
      /\ locator' = After(m.what, m.job)
      /\ UNCHANGED <<srv, run, known, asked, left>>
  BY DEF LookFails, history
<1>2. /\ m.run = hook.look.run /\ m.job = hook.look.job /\ m.job \in Job /\ ~hook.hidden
      /\ m.what = "expired" => srv[m.job] = "gone"
      /\ hook.mounted
  BY <1>1, LookMessage DEF ClientInv, HookInv
<1>3. hook.active \in Run => run[hook.active].job = m.job /\ hook.pendingId = NoJob
  BY <1>1, <1>2, ClientAssumption DEF ClientInv, LookInv, StillAbout, Current, RunInv, CurrentOK
<1>4. hook.active = NoRun => hook.pendingId = m.job
  BY <1>1, <1>2 DEF StillAbout
<1>5. CASE m.what = "error"
  <2>1. /\ /\ hook'.mounted = hook.mounted /\ hook'.hidden = hook.hidden
           /\ hook'.active = hook.active /\ hook'.pendingId = hook.pendingId
           /\ hook'.restoring = FALSE /\ hook'.recoveryPending = hook.recoveryPending
           /\ hook'.paused = TRUE /\ hook'.stage = hook.stage /\ hook'.look = NoLook
           /\ hook'.restore = hook.restore
           /\ hook' \in Hook
    BY <1>0, <1>1, <1>5, LookIs DEF LookEnds, Missed, Failed, Types, Hook
  <2>2. locator' = locator
    BY <1>1, <1>5 DEF After
  <2>3. NetInv' /\ \A n \in net' : n.from # "look"
    BY <1>1, <2>1, LookGone
  <2>4. ClientTypeOK'
    BY <1>0, <1>1, <2>1, <2>2, <2>3 DEF ClientTypeOK
  <2>5. RunInv'
    <3>1. hook.active # NoRun => run[hook.active].begin = "none" \/ run[hook.active].cancelled
      BY <1>1, <1>2 DEF StillAbout, ClientInv, LookInv
    <3> QED BY <3>1, <1>1, <2>1, <2>2 DEF ClientInv, RunInv, RunOK, CurrentOK, Current
  <2>6. LookInv' /\ SettledInv'
    BY <1>1, <2>1 DEF ClientInv, LookInv, SettledInv, NoLook
  <2>7. HookInv'
    BY <1>1, <1>2, <2>1 DEF ClientInv, HookInv, NeverStranded
  <2>8. LocatorInv' /\ NoOrphan'
    BY <1>1, <2>1, <2>2 DEF ClientInv, LocatorInv, NoOrphan, Live
  <2>9. FreshInv'
    <3>1. \A j \in Job : Named(j)' => Named(j)
      BY <1>1, <2>1, <2>2, ClientAssumption DEF Named, NoLook
    <3> QED BY <3>1, <1>1, <2>1, FreshStep
  <2> QED BY <2>3, <2>4, <2>5, <2>6, <2>7, <2>8, <2>9 DEF ClientInv
<1>6. CASE m.what = "expired"
  <2>1. /\ /\ hook'.mounted = hook.mounted /\ hook'.hidden = hook.hidden
           /\ hook'.active = NoRun /\ hook'.pendingId = NoJob /\ hook'.restoring = FALSE
           /\ hook'.recoveryPending = FALSE /\ hook'.paused = FALSE
           /\ hook'.stage = "none" /\ hook'.look = NoLook /\ hook'.restore = hook.restore
           /\ hook' \in Hook
    BY <1>0, <1>1, <1>6, LookIs DEF LookEnds, Missed, Failed, LetGo, Types, Hook
  <2>2. locator' = (IF locator = m.job THEN NoJob ELSE locator) /\ srv[m.job] = "gone"
    BY <1>1, <1>2, <1>6 DEF After, Without
  <2>3. NetInv' /\ \A n \in net' : n.from # "look"
    BY <1>1, <2>1, LookGone
  <2>4. ClientTypeOK'
    BY <1>0, <1>1, <2>1, <2>2, <2>3 DEF ClientTypeOK
  <2>5. RunInv'
    <3>1. hook.active \in Run => run[hook.active].begin = "none" \/ run[hook.active].cancelled
      BY <1>1, <1>2, ClientAssumption DEF StillAbout, ClientInv, LookInv
    <3>2. hook.active \in Run => ~run[hook.active].secret
      BY <3>1, ClientAssumption DEF ClientInv, RunInv, RunOK
    <3> QED BY <3>1, <3>2, <1>1, <2>1, <2>2, ClientAssumption DEF ClientInv, RunInv, RunOK,
               Current
  <2>6. LookInv' /\ SettledInv'
    BY <1>1, <2>1 DEF ClientInv, LookInv, SettledInv, NoLook
  <2>7. HookInv'
    BY <1>1, <1>2, <2>1 DEF ClientInv, HookInv, NeverStranded
  <2>8. LocatorInv'
    BY <1>0, <1>1, <1>2, <1>3, <1>4, <2>1, <2>2, ClientAssumption DEF ClientInv, LocatorInv,
       Types, Hook
  <2>9. FreshInv'
    <3>1. \A j \in Job : Named(j)' => Named(j)
      BY <1>1, <2>1, <2>2, ClientAssumption DEF Named, NoLook
    <3> QED BY <3>1, <1>1, <2>1, FreshStep
  <2>10. NoOrphan'
    BY <1>0, <1>1, <1>3, <2>1, <2>2, ClientAssumption DEF ClientInv, NoOrphan, Live, Types, Hook
  <2> QED BY <2>3, <2>4, <2>5, <2>6, <2>7, <2>8, <2>9, <2>10 DEF ClientInv
<1> QED BY <1>1, <1>5, <1>6

\* A status arrives for a hook that has moved on.
LEMMA LookIsLateStep ==
    ASSUME ClientInv, NEW m \in net, LookIsLate(m), UNCHANGED left
    PROVE  ClientInv'
<1>0. Types /\ ClientTypeOK
  BY TypesOK
<1>1. /\ m.from = "look" /\ ~StillAbout(hook.look)
      /\ net' = net \ {m}
      /\ UNCHANGED <<srv, locator, run, known, asked, left>>
  BY DEF LookIsLate, history
<1>2. /\ /\ hook'.mounted = hook.mounted /\ hook'.hidden = hook.hidden
         /\ hook'.active = hook.active /\ hook'.pendingId = hook.pendingId
         /\ hook'.restoring = FALSE /\ hook'.recoveryPending = hook.recoveryPending
         /\ hook'.paused = hook.paused /\ hook'.stage = hook.stage /\ hook'.look = NoLook
         /\ hook'.restore = hook.restore
         /\ hook' \in Hook
  BY <1>0, LookIs DEF LookIsLate, LookEnds, Types, Hook
<1>3. ~hook.recoveryPending /\ ~hook.hidden /\ hook.mounted
  BY <1>1, LookMessage DEF ClientInv, HookInv
<1>4. NetInv' /\ \A n \in net' : n.from # "look"
  BY <1>1, <1>2, LookGone
<1>5. ClientTypeOK'
  BY <1>0, <1>1, <1>2, <1>4 DEF ClientTypeOK
<1>6. RunInv'
  BY <1>1, <1>2 DEF ClientInv, RunInv, RunOK, CurrentOK, Current
<1>7. LookInv' /\ SettledInv'
  BY <1>1, <1>2 DEF ClientInv, LookInv, SettledInv, NoLook
<1>8. HookInv'
  BY <1>1, <1>2, <1>3 DEF ClientInv, HookInv, NeverStranded
<1>9. LocatorInv' /\ NoOrphan'
  BY <1>1, <1>2 DEF ClientInv, LocatorInv, NoOrphan, Live
<1>10. FreshInv'
  <2>1. \A j \in Job : Named(j)' => Named(j)
    BY <1>1, <1>2, ClientAssumption DEF Named, NoLook
  <2> QED BY <2>1, <1>1, FreshStep
<1> QED BY <1>4, <1>5, <1>6, <1>7, <1>8, <1>9, <1>10 DEF ClientInv

\* A status arrives for the job that the hook still shows or recovers.
LEMMA AttachedStep ==
    ASSUME ClientInv, NEW m \in net, NEW r \in Run, Attached(r, m), UNCHANGED left
    PROVE  ClientInv'
<1>0. Types /\ ClientTypeOK /\ run[r] \in RunObject
  BY TypesOK, RunStatesAre
<1>1. /\ m.from = "look" /\ m.what \in Shown /\ StillAbout(hook.look)
      /\ net' = net \ {m} /\ known' = known \cup {m.job}
      /\ UNCHANGED <<srv, locator, asked, left>>
  BY DEF Attached
<1>2. /\ m.run = hook.look.run /\ m.job = hook.look.job /\ m.job \in Job /\ m.job # NoJob
      /\ ~Mutated(m.job) /\ ~hook.hidden /\ m.op = "status"
      /\ \A n \in net : n.from = "look" => n = m
      /\ hook.mounted
  BY <1>1, LookMessage, ClientAssumption DEF ClientInv, HookInv
<1>3. /\ /\ hook'.mounted = hook.mounted /\ hook'.hidden = hook.hidden /\ hook'.active = r
         /\ hook'.pendingId = NoJob /\ hook'.restoring = FALSE
         /\ hook'.recoveryPending = FALSE /\ hook'.paused = FALSE
         /\ hook'.stage = hook.stage /\ hook'.look = NoLook
         /\ hook'.restore = hook.restore
         /\ hook' \in Hook
  BY <1>0, LookIs DEF Attached, LookEnds, Types, Hook
<1>4. \/ m.run = NoRun /\ Free(r) /\ hook.active = NoRun /\ hook.pendingId = m.job
      \/ r = m.run /\ hook.active = r /\ run[r].job = m.job /\ hook.pendingId = NoJob
  BY <1>1, <1>2, ClientAssumption DEF Attached, StillAbout, ClientInv, LookInv, Current,
     RunInv, CurrentOK
<1>5. /\ \A q \in Run \ {r} : run'[q] = run[q]
      /\ run'[r].job = m.job /\ run'[r].state = m.what /\ run'[r].user = "none" /\ ~run'[r].secret
      /\ run' \in [Run -> RunObject]
      /\ \/ /\ Free(r) /\ hook.active = NoRun
            /\ run'[r].begin = "none" /\ run'[r].clean = "none" /\ run'[r].cancelled
         \/ /\ hook.active = r /\ r = m.run
            /\ run'[r].begin = run[r].begin /\ run'[r].clean = run[r].clean
            /\ run'[r].cancelled = run[r].cancelled /\ run'[r].user = run[r].user
            /\ run[r].cancelled \/ run[r].begin = "none"
            /\ run[r].job = m.job
  <2>1. CASE m.run = NoRun
    <3>1. Free(r) /\ hook.active = NoRun /\ run' = [run EXCEPT ![r] = RecoveredRun(m.job, m.what)]
      BY <1>4, <2>1, ClientAssumption DEF Attached
    <3>2. RecoveredRun(m.job, m.what) \in RunObject
      BY <1>1, <1>2 DEF RecoveredRun, RunObject
    <3> QED BY <1>0, <3>1, <3>2 DEF Types, RecoveredRun
  <2>2. CASE m.run # NoRun
    <3>1. r = m.run /\ hook.active = r /\ run[r].job = m.job /\ run' = [run EXCEPT ![r].state = m.what]
      BY <1>4, <2>2 DEF Attached
    <3>2. (run[r].cancelled \/ run[r].begin = "none") /\ run[r].user = "none"
      BY <1>2, <2>2, <3>1 DEF ClientInv, LookInv, Current
    <3>3. ~run[r].secret
      BY <3>2 DEF ClientInv, RunInv, RunOK
    <3> QED BY <1>0, <1>1, <3>1, <3>2, <3>3 DEF Types, RunObject
  <2> QED BY <2>1, <2>2
<1>6. /\ \A n \in net' : n \in net /\ n.from # "look"
      /\ known' \subseteq Job
  BY <1>0, <1>1, <1>2 DEF Types
<1>7. ClientTypeOK'
  BY <1>0, <1>1, <1>3, <1>5, <1>6 DEF ClientTypeOK
<1>8. NetInv'
  <2>1. ASSUME NEW n \in net', n.run = r PROVE About(n)'
    <3>1. Proper(n) /\ About(n) /\ n \in Request /\ n.from # "look" /\ ~Free(r)
      BY <1>6, <2>1, MessageIs DEF Free
    <3>2. Awaited(n) /\ hook.active = r
      BY <1>5, <1>6, <2>1, <3>1, MessageIs DEF Current
    <3> QED BY <1>3, <1>5, <2>1, <3>1, <3>2, AboutKeptFor DEF Current
  <2>2. ASSUME NEW n \in net', n.run # r PROVE About(n)'
    BY <1>3, <1>5, <1>6, <2>2, AboutOthers
  <2> QED BY <2>1, <2>2, <1>1, NetShrinks
<1>9. RunInv'
  <2>1. \A q \in Run : RunOK(q)'
    BY <1>0, <1>1, <1>2, <1>3, <1>5, ClientAssumption DEF ClientInv, RunInv, RunOK, Current,
       Free, Shown
  <2>2. CurrentOK(r)'
    BY <1>0, <1>1, <1>2, <1>3, <1>5, ClientAssumption DEF ClientInv, RunInv, CurrentOK, Free
  <2> QED BY <2>1, <2>2, <1>3 DEF RunInv
<1>10. LookInv'
  BY <1>3 DEF LookInv, NoLook
<1>11. HookInv'
  BY <1>0, <1>1, <1>2, <1>3, <1>5, ClientAssumption DEF ClientInv, HookInv, NeverStranded, Free
<1>12. LocatorInv'
  BY <1>1, <1>2, <1>3, <1>4, <1>5, ClientAssumption DEF ClientInv, LocatorInv
<1>13. FreshInv'
  <2>1. \A j \in Job : Named(j)' => Named(j)
    BY <1>1, <1>2, <1>3, <1>5, ClientAssumption DEF Named, NoLook
  <2> QED BY <2>1, <1>1, FreshStep
<1>14. SettledInv'
  BY <1>2, <1>3, <1>5 DEF SettledInv, NoLook, Mutated
<1>15. NoOrphan'
  BY <1>1, <1>3, <1>4, <1>5, ClientAssumption DEF ClientInv, NoOrphan, Live
<1> QED BY <1>7, <1>8, <1>9, <1>10, <1>11, <1>12, <1>13, <1>14, <1>15 DEF ClientInv

\* The page that came back asks for the status of what it shows, or has nothing to show.
LEMMA RestoreStep ==
    ASSUME ClientInv, Restore, UNCHANGED left
    PROVE  ClientInv'
<1> DEFINE r == hook.restore
           held == IF r = NoRun THEN FALSE ELSE run[r].job # NoJob
           over == hook.active # r \/ (~held /\ hook.pendingId = NoJob)
           h == [hook EXCEPT !.restore = "none"]
           g == [h EXCEPT !.stage = "none"]
<1>0. Types /\ ClientTypeOK /\ hook \in Hook
  BY TypesOK DEF Types
<1>1. /\ r \in Run \cup {NoRun} /\ ~hook.hidden
      /\ r \in Run => run[r].clean \in {"none", "done"} /\ run[r].user = "none" /\ run[r].cancelled
      /\ UNCHANGED <<srv, locator, known, asked, left>>
  BY <1>0 DEF Restore, Restored, history, Types, Hook, ClientInv, HookInv
<1>2. CASE over
  <2>1. hook' = [h EXCEPT !.pendingRestoration = FALSE, !.restoring = FALSE, !.recoveryPending = FALSE]
        /\ UNCHANGED <<net, run>>
    BY <1>2 DEF Restore
  <2>2. /\ /\ hook'.mounted = hook.mounted /\ hook'.hidden = hook.hidden
           /\ hook'.active = hook.active /\ hook'.pendingId = hook.pendingId
           /\ hook'.restoring = FALSE /\ hook'.recoveryPending = FALSE
           /\ hook'.paused = hook.paused /\ hook'.stage = hook.stage
           /\ hook'.look = hook.look /\ hook'.restore = "none"
           /\ hook' \in Hook
    BY <1>0, <2>1 DEF Hook
  <2>3. ClientTypeOK'
    BY <1>0, <1>1, <2>1, <2>2 DEF ClientTypeOK
  <2>4. NetInv'
    <3>1. ASSUME NEW m \in net PROVE About(m)'
      <4>1. Proper(m) /\ About(m) /\ m \in Request
        BY MessageIs
      <4> QED BY <4>1, <2>1, <2>2, AboutKept DEF Current
    <3> QED BY <3>1, <1>1, <2>1, NetShrinks
  <2>5. RunInv'
    BY <1>1, <2>1, <2>2 DEF ClientInv, RunInv, RunOK, CurrentOK, Current
  <2>6. LookInv'
    BY <2>1, <2>2 DEF ClientInv, LookInv, NoLook, Current
  <2>7. HookInv'
    BY <1>0, <1>1, <2>1, <2>2, ClientAssumption DEF ClientInv, HookInv, NeverStranded
  <2>8. LocatorInv' /\ SettledInv' /\ NoOrphan'
    BY <1>1, <2>1, <2>2 DEF ClientInv, LocatorInv, SettledInv, Mutated, NoOrphan, Live
  <2>9. FreshInv'
    BY <1>1, <2>1, <2>2, FreshStep DEF Named
  <2> QED BY <2>3, <2>4, <2>5, <2>6, <2>7, <2>8, <2>9 DEF ClientInv
<1>3. CASE ~over
  <2>1. /\ run' = [q \in Run |-> IF q # r THEN run[q] ELSE [run[q] EXCEPT !.clean = "none"]]
        /\ Refreshes(g) /\ hook.active = r /\ (r = NoRun => hook.pendingId # NoJob)
        /\ hook.mounted
    BY <1>1, <1>3, ClientAssumption DEF Restore, ClientInv, HookInv
  <2>2. /\ /\ g.mounted = hook.mounted /\ g.hidden = hook.hidden /\ g.active = hook.active
           /\ g.pendingId = hook.pendingId /\ g.restoring = hook.restoring
           /\ g.recoveryPending = hook.recoveryPending /\ g.paused = hook.paused
           /\ g.stage = "none" /\ g.look = hook.look /\ g.restore = "none"
        /\ g \in Hook
    BY <1>0 DEF Hook
  <2>3. /\ \A q \in Run : /\ q # r => run'[q] = run[q]
                          /\ run'[q].job = run[q].job /\ run'[q].state = run[q].state
                          /\ run'[q].begin = run[q].begin /\ run'[q].user = run[q].user
                          /\ run'[q].cancelled = run[q].cancelled /\ run'[q].secret = run[q].secret
                          /\ run'[q].clean = (IF q = r THEN "none" ELSE run[q].clean)
        /\ run' \in [Run -> RunObject]
    BY <1>0, <2>1 DEF Types, RunObject
  <2>4. r \in Run => run[r].job # NoJob /\ hook.pendingId = NoJob
    BY <1>1, <1>3, <2>1, ClientAssumption DEF ClientInv, RunInv, CurrentOK
  <2>5. Target(g) = Target(hook) /\ Target(hook) # NoJob /\ ~Changing /\ Target(hook) \in Job
    <3>1. Target(g) = Target(hook) /\ Target(hook) # NoJob /\ ~Changing
      BY <1>1, <2>1, <2>2, <2>4, ClientAssumption DEF Target, Changing
    <3> QED BY <1>0, <3>1, ClientAssumption DEF Target, Types, Hook, RunObject
  <2> HIDE DEF g
  <2>6. \E new \in Request :
          /\ new = Sent("look", hook.active, "status", Target(hook))
          /\ \/ /\ hook.look = NoLook
                /\ /\ hook'.mounted = hook.mounted /\ hook'.hidden = hook.hidden
                   /\ hook'.active = hook.active /\ hook'.pendingId = hook.pendingId
                   /\ hook'.restoring = hook'.restoring
                   /\ hook'.recoveryPending = hook.recoveryPending
                   /\ hook'.paused = hook.paused /\ hook'.stage = "none"
                   /\ hook'.look = hook'.look /\ hook'.restore = "none"
                /\ hook'.restoring \in BOOLEAN /\ hook' \in Hook
                /\ hook'.look.run = hook.active /\ hook'.look.job = Target(hook) /\ hook'.look # NoLook
                /\ hook'.look.step = (IF Mutated(Target(hook)) THEN "wait" ELSE "status")
                /\ \A n : n \in net' <=> n \in net \/ (hook'.look.step = "status" /\ n = new)
             \/ /\ hook.look # NoLook
                /\ /\ hook'.mounted = hook.mounted /\ hook'.hidden = hook.hidden
                   /\ hook'.active = hook.active /\ hook'.pendingId = hook.pendingId
                   /\ hook'.restoring = hook.restoring
                   /\ hook'.recoveryPending = hook.recoveryPending
                   /\ hook'.paused = hook.paused /\ hook'.stage = "none"
                   /\ hook'.look = hook.look /\ hook'.restore = "none"
                   /\ hook' \in Hook
                /\ net' = net
    <3>1. CASE hook.look = NoLook
      <4>1. CanLook(g)
        BY <2>2, <2>5, <3>1 DEF CanLook
      <4>2. /\ /\ hook'.mounted = g.mounted /\ hook'.hidden = g.hidden
               /\ hook'.active = g.active /\ hook'.pendingId = g.pendingId
               /\ hook'.restoring = hook'.restoring
               /\ hook'.recoveryPending = g.recoveryPending /\ hook'.paused = g.paused
               /\ hook'.stage = g.stage /\ hook'.look = hook'.look
               /\ hook'.restore = g.restore
            /\ hook'.restoring \in BOOLEAN /\ hook' \in Hook
            /\ hook'.look.run = g.active /\ hook'.look.job = Target(g) /\ hook'.look # NoLook
            /\ hook'.look.step = (IF Mutated(Target(g)) THEN "wait" ELSE "status")
        BY <1>0, <2>1, <2>2, <4>1, RefreshesIs
      <4>3. \E new \in Request :
               /\ new = Sent("look", g.active, "status", Target(g))
               /\ \A n : n \in net' <=> n \in net \/ (hook'.look.step = "status" /\ n = new)
        BY <1>0, <2>1, <2>2, <4>1, RefreshesIs
      <4> QED BY <2>2, <2>5, <3>1, <4>2, <4>3
    <3>2. CASE hook.look # NoLook
      <4>1. hook' = g /\ net' = net
        BY <2>1, <2>2, <3>2 DEF Refreshes, CanLook
      <4>2. Sent("look", hook.active, "status", Target(hook)) \in Request
        BY <1>0, <2>5 DEF Sent, Request, Hook
      <4> QED BY <2>2, <3>2, <4>1, <4>2
    <3> QED BY <3>1, <3>2
  <2>7. PICK new \in Request :
          /\ new = Sent("look", hook.active, "status", Target(hook))
          /\ \/ /\ hook.look = NoLook
                /\ /\ hook'.mounted = hook.mounted /\ hook'.hidden = hook.hidden
                   /\ hook'.active = hook.active /\ hook'.pendingId = hook.pendingId
                   /\ hook'.restoring = hook'.restoring
                   /\ hook'.recoveryPending = hook.recoveryPending
                   /\ hook'.paused = hook.paused /\ hook'.stage = "none"
                   /\ hook'.look = hook'.look /\ hook'.restore = "none"
                /\ hook'.restoring \in BOOLEAN /\ hook' \in Hook
                /\ hook'.look.run = hook.active /\ hook'.look.job = Target(hook) /\ hook'.look # NoLook
                /\ hook'.look.step = (IF Mutated(Target(hook)) THEN "wait" ELSE "status")
                /\ \A n : n \in net' <=> n \in net \/ (hook'.look.step = "status" /\ n = new)
             \/ /\ hook.look # NoLook
                /\ /\ hook'.mounted = hook.mounted /\ hook'.hidden = hook.hidden
                   /\ hook'.active = hook.active /\ hook'.pendingId = hook.pendingId
                   /\ hook'.restoring = hook.restoring
                   /\ hook'.recoveryPending = hook.recoveryPending
                   /\ hook'.paused = hook.paused /\ hook'.stage = "none"
                   /\ hook'.look = hook.look /\ hook'.restore = "none"
                   /\ hook' \in Hook
                /\ net' = net
    BY <2>6
  <2>8. /\ new.from = "look" /\ new.run = hook.active /\ new.op = "status" /\ new.job = Target(hook)
        /\ new.what = "sent"
    BY <2>7 DEF Sent
  <2>9. hook.look = NoLook => \A m \in net : m.from # "look"
    BY <1>0 DEF ClientTypeOK, NoLook
  <2>10. ClientTypeOK'
    BY <1>0, <1>1, <2>3, <2>7, <2>8, <2>9 DEF ClientTypeOK
  <2>11. NetInv'
    <3>1. ASSUME NEW m \in net PROVE About(m)'
      <4>1. Proper(m) /\ About(m) /\ m \in Request /\ (m.from # "look" => m.run \in Run)
        BY MessageIs
      <4>2. (m.run \in Run /\ Current(m.run)' => Current(m.run)) /\ (m.from = "look" => hook'.look = hook.look)
        BY <2>7, <2>9 DEF Current
      <4>3. CASE m.from = "look" \/ m.run # r
        <5>1. CASE m.run \in Run /\ m.run # r
          BY <2>3, <4>1, <4>2, <5>1, AboutKept
        <5>2. CASE m.from = "look"
          BY <4>1, <4>2, <5>2 DEF About, Awaited, LeftBehind, Proper
        <5> QED BY <4>1, <4>3, <5>1, <5>2
      <4>4. CASE m.from # "look" /\ m.run = r
        <5>1. Awaited(m)
          BY <2>1, <4>1, <4>4, MessageIs DEF Current
        <5>2. m.from # "clean"
          BY <1>1, <4>1, <4>4, <5>1 DEF Awaited, Proper
        <5> QED BY <2>3, <4>1, <4>2, <4>4, <5>1, <5>2, AboutKeptFor
      <4> QED BY <4>3, <4>4
    <3>2. ASSUME new \in net', new \notin net PROVE Proper(new)' /\ About(new)'
      <4>1. hook'.look.step = "status" /\ hook'.look.run = hook.active /\ hook'.look.job = Target(hook)
        BY <2>7, <3>2
      <4> QED BY <4>1, <2>5, <2>8, ClientAssumption DEF Proper, About, Awaited
    <3>3. CASE new \in net
      <4>1. net' \subseteq net
        BY <2>7, <3>3
      <4> QED BY <4>1, <3>1, <1>1, NetShrinks
    <3>4. CASE new \notin net
      BY <3>1, <3>2, <3>4, <1>1, <2>7, <2>8, <2>9, NetStep
    <3> QED BY <3>3, <3>4
  <2>12. RunInv'
    <3>1. \A q \in Run : RunOK(q)'
      BY <1>1, <2>3, <2>7 DEF ClientInv, RunInv, RunOK, Current
    <3>2. hook'.active # NoRun => CurrentOK(hook.active)'
      <4>1. ASSUME hook'.active # NoRun PROVE r \in Run /\ CurrentOK(r) /\ hook'.active = r
        BY <1>1, <2>1, <2>7, <4>1 DEF ClientInv, RunInv
      <4>2. /\ hook'.pendingId = hook.pendingId /\ hook'.stage = "none" /\ hook'.hidden = hook.hidden
            /\ hook'.recoveryPending = hook.recoveryPending
        BY <2>7
      <4> QED BY <1>1, <2>3, <4>1, <4>2 DEF CurrentOK
    <3> QED BY <3>1, <3>2 DEF RunInv
  <2>13. LookInv'
    <3>1. CASE hook.look = NoLook
      BY <1>1, <2>1, <2>3, <2>4, <2>5, <2>7, <3>1, ClientAssumption DEF LookInv, NoLook,
         Target, Current
    <3>2. CASE hook.look # NoLook
      BY <1>0, <2>3, <2>7, <3>2, ClientAssumption DEF ClientInv, LookInv, Current, Hook, Look
    <3> QED BY <3>1, <3>2
  <2>14. HookInv'
    <3>1. hook'.recoveryPending /\ hook'.look # NoLook => StillAbout(hook.look)'
      BY <2>1, <2>5, <2>7, ClientAssumption DEF ClientInv, HookInv, StillAbout, Target
    <3> QED BY <3>1, <1>1, <2>1, <2>7, ClientAssumption DEF ClientInv, HookInv, NeverStranded
  <2>15. LocatorInv' /\ NoOrphan'
    BY <1>0, <1>1, <2>3, <2>7, ClientAssumption DEF ClientInv, LocatorInv, NoOrphan, Live, Hook
  <2>16. SettledInv'
    <3>1. \A j : Mutated(j)' => Mutated(j)
      BY <2>3 DEF Mutated
    <3> QED BY <1>0, <2>3, <2>7, <3>1, ClientAssumption DEF ClientInv, SettledInv, Hook
  <2>17. FreshInv'
    <3>1. \A j \in Job : Named(j)' => Named(j)
      <4>1. Named(Target(hook))
        BY <1>0, <2>5, ClientAssumption DEF Named, Target, Types, Hook
      <4> QED BY <4>1, <1>1, <2>3, <2>7, <2>8 DEF Named
    <3> QED BY <3>1, <1>1, <2>7, <2>8, FreshStep
  <2> QED BY <2>10, <2>11, <2>12, <2>13, <2>14, <2>15, <2>16, <2>17 DEF ClientInv
<1> QED BY <1>2, <1>3

\* start ends with an error that takes the run from the hook.
LEMMA BeginGivesUpStep ==
    ASSUME ClientInv, NEW r \in Run, Current(r), run[r].begin # "none",
           \A q \in Run \ {r} : run'[q] = run[q],
           run'[r].job = run[r].job, run'[r].state = run[r].state, run'[r].begin = "none",
           run'[r].user = run[r].user, run'[r].clean = run[r].clean,
           run'[r].cancelled = run[r].cancelled, ~run'[r].secret, run' \in [Run -> RunObject],
           hook' \in Hook, hook'.active = NoRun, hook'.pendingId = NoJob,
           ~hook'.recoveryPending, hook'.restoring = hook.restoring \/ ~hook'.restoring,
           hook'.look = hook.look, hook'.restore = hook.restore,
           hook'.mounted = hook.mounted, hook'.hidden = hook.hidden,
           run[r].job = NoJob \/ srv[run[r].job] = "gone",
           locator' = locator \/ (locator' = NoJob /\ srv[locator] = "gone"),
           net' \subseteq net,
           \A m \in net' : ~(m.from = "begin" /\ m.run = r),
           UNCHANGED <<srv, known, asked, left>>
    PROVE  ClientInv'
<1>0. Types /\ ClientTypeOK /\ hook.active = r /\ CurrentOK(r) /\ RunOK(r)
  BY TypesOK, ClientAssumption DEF Current, ClientInv, RunInv
<1>1. /\ \A q \in Run \ {r} : run'[q] = run[q]
      /\ run'[r].job = run[r].job /\ run'[r].state = run[r].state /\ run'[r].begin = "none"
      /\ run'[r].user = run[r].user /\ run'[r].clean = run[r].clean
      /\ run'[r].cancelled = run[r].cancelled /\ ~run'[r].secret
      /\ run' \in [Run -> RunObject]
  OBVIOUS
<1>2. /\ hook'.active = NoRun /\ hook'.pendingId = NoJob /\ ~hook'.recoveryPending
      /\ hook'.restoring = hook.restoring \/ ~hook'.restoring
      /\ hook'.look = hook.look /\ hook'.restore = hook.restore
      /\ hook'.mounted = hook.mounted /\ hook'.hidden = hook.hidden /\ hook' \in Hook
  OBVIOUS
<1>3. /\ net' \subseteq net /\ \A m \in net' : ~(m.from = "begin" /\ m.run = r)
      /\ UNCHANGED <<srv, known, asked, left>>
      /\ run[r].job = NoJob \/ srv[run[r].job] = "gone"
      /\ locator' = locator \/ (locator' = NoJob /\ srv[locator] = "gone")
  OBVIOUS
<1>4. ClientTypeOK'
  BY <1>0, <1>1, <1>2, <1>3 DEF ClientTypeOK
<1>5. NetInv'
  <2>1. ASSUME NEW m \in net', m.run = r PROVE About(m)'
    <3>1. Proper(m) /\ About(m) /\ m \in Request /\ m.from # "begin"
      BY <1>3, <2>1, MessageIs
    <3>2. CASE m.from = "look"
      BY <1>2, <3>1, <3>2 DEF About, Awaited, LeftBehind, Proper
    <3>3. CASE m.from # "look"
      <4>1. Awaited(m) /\ (Current(m.run)' => Current(m.run))
        BY <1>0, <1>3, <2>1, <3>3, BeginMessage DEF Current
      <4> QED BY <1>1, <2>1, <3>1, <3>3, <4>1, AboutKeptFor
    <3> QED BY <3>2, <3>3
  <2>2. ASSUME NEW m \in net', m.run # r PROVE About(m)'
    BY <1>1, <1>2, <1>3, <2>2, AboutOthers
  <2> QED BY <2>1, <2>2, <1>3, NetShrinks
<1>6. RunInv'
  BY <1>0, <1>1, <1>2, <1>3, ClientAssumption DEF ClientInv, RunInv, RunOK, Current
<1>7. LookInv'
  BY <1>0, <1>1, <1>2, ClientAssumption DEF ClientInv, LookInv, Current, NoLook, Types, Hook,
     Look
<1>8. HookInv'
  BY <1>0, <1>1, <1>2, ClientAssumption DEF ClientInv, HookInv, NeverStranded
<1>9. LocatorInv'
  BY <1>0, <1>2, <1>3, ClientAssumption DEF ClientInv, LocatorInv
<1>10. FreshInv'
  <2>1. \A j \in Job : Named(j)' => Named(j)
    BY <1>1, <1>2, <1>3, ClientAssumption DEF Named
  <2> QED BY <2>1, <1>3, FreshStep
<1>11. SettledInv'
  BY <1>1, <1>2 DEF ClientInv, SettledInv, Mutated
<1>12. NoOrphan'
  BY <1>0, <1>2, <1>3, ClientAssumption DEF ClientInv, NoOrphan, Live
<1> QED BY <1>4, <1>5, <1>6, <1>7, <1>8, <1>9, <1>10, <1>11, <1>12 DEF ClientInv

\* The start of a job is answered.
LEMMA StartedStep ==
    ASSUME ClientInv, NEW r \in Run, NEW m \in net, Started(r, m), UNCHANGED left
    PROVE  ClientInv'
<1> DEFINE rr == IF Current(r) /\ ~run[r].cancelled THEN [run[r] EXCEPT !.state = m.what] ELSE run[r]
<1>1. Answered(m, "begin", r) /\ m.op = "start" /\ m.what \in Shown /\ Ends(hook, r, rr)
      /\ net' = net \ {m} /\ UNCHANGED <<srv, locator, known, asked, left>>
  BY DEF Started, history
<1>2. hook \in Hook
  BY TypesOK DEF Types
<1>3. /\ rr \in RunObject /\ rr.job = run[r].job /\ rr.user = run[r].user
      /\ rr.clean = run[r].clean /\ rr.cancelled = run[r].cancelled
      /\ rr.state = run[r].state \/ (run[r].job # NoJob /\ rr.state \in Shown)
  <2>1. run[r] \in RunObject /\ (Current(r) => run[r].job # NoJob)
    BY <1>1, BeginAnswer, ClientAssumption
  <2> QED BY <1>1, <2>1 DEF RunObject
<1> HIDE DEF rr
<1> QED BY <1>1, <1>2, <1>3, BeginAnswer, BeginEndsStep

\* The cancellation that a start asked for itself is answered.
LEMMA LateCancelledStep ==
    ASSUME ClientInv, NEW r \in Run, NEW m \in net, LateCancelled(r, m), UNCHANGED left
    PROVE  ClientInv'
<1> DEFINE rr == IF Current(r) THEN [run[r] EXCEPT !.state = m.what] ELSE run[r]
<1>1. Answered(m, "begin", r) /\ m.op = "cancel" /\ m.what \in Shown /\ Ends(hook, r, rr)
      /\ net' = net \ {m} /\ UNCHANGED <<srv, locator, known, asked, left>>
  BY DEF LateCancelled, history
<1>2. hook \in Hook
  BY TypesOK DEF Types
<1>3. /\ rr \in RunObject /\ rr.job = run[r].job /\ rr.user = run[r].user
      /\ rr.clean = run[r].clean /\ rr.cancelled = run[r].cancelled
      /\ rr.state = run[r].state \/ (run[r].job # NoJob /\ rr.state \in Shown)
  <2>1. run[r] \in RunObject /\ (Current(r) => run[r].job # NoJob)
    BY <1>1, BeginAnswer, ClientAssumption
  <2> QED BY <1>1, <2>1 DEF RunObject
<1> HIDE DEF rr
<1> QED BY <1>1, <1>2, <1>3, BeginAnswer, BeginEndsStep

\* A start that was cancelled ends without an answer.
LEMMA AbortsStep ==
    ASSUME ClientInv, NEW r \in Run, Aborts(r), UNCHANGED left
    PROVE  ClientInv'
<1>1. /\ run[r].begin # "none" /\ run[r].cancelled /\ Ends(hook, r, run[r])
      /\ net' \subseteq net
      /\ \A m \in net' : ~(m.from = "begin" /\ m.run = r)
      /\ UNCHANGED <<srv, locator, known, asked, left>>
  BY DEF Aborts, history
<1>2. hook \in Hook /\ run[r] \in RunObject
  BY TypesOK DEF Types
<1> QED BY <1>1, <1>2, BeginEndsStep

\* A request of a start fails.
LEMMA StartFailsStep ==
    ASSUME ClientInv, NEW r \in Run, NEW m \in net, StartFails(r, m), UNCHANGED left
    PROVE  ClientInv'
<1> DEFINE noticed == Current(r) /\ (m.op = "cancel" \/ ~run[r].cancelled)
           h == Missed(hook, m.what)
           g == IF ~noticed THEN hook
                ELSE IF m.op = "create" THEN [h EXCEPT !.active = NoRun, !.stage = "none"]
                ELSE h
<1>1. /\ Answered(m, "begin", r) /\ m.what \in {"expired", "error"} /\ Ends(g, r, run[r])
      /\ locator' = (IF noticed THEN After(m.what, m.job) ELSE locator)
      /\ net' = net \ {m} /\ UNCHANGED <<srv, known, asked, left>>
  BY DEF StartFails, history
<1>2. hook \in Hook /\ run[r] \in RunObject /\ Types
  BY TypesOK DEF Types
<1>3. /\ m.from = "begin" /\ run[r].begin = m.op /\ run[r].begin # "none" /\ Proper(m)
      /\ \A n \in net' : ~(n.from = "begin" /\ n.run = r)
      /\ m.op = "create" => run[r].job = NoJob
      /\ m.op # "create" /\ Current(r) => run[r].job = m.job /\ m.job \in Job
      /\ RunOK(r) /\ (Current(r) => CurrentOK(r))
  BY <1>1, BeginAnswer
<1>4. CASE ~noticed
  <2>1. g = hook /\ locator' = locator
    BY <1>1, <1>4
  <2>2. m.op # "create" \/ run[r].cancelled
    BY <1>3, <1>4 DEF RunOK
  <2> HIDE DEF g, noticed
  <2> QED BY <1>1, <1>2, <1>3, <2>1, <2>2, BeginEndsStep
<1>5. CASE noticed /\ m.what = "error" /\ m.op # "create"
  <2>1. g = [hook EXCEPT !.paused = TRUE] /\ locator' = locator
    BY <1>1, <1>5 DEF Missed, Failed, After
  <2>2. Current(r)
    BY <1>5
  <2> HIDE DEF g, noticed
  <2>3. /\ /\ g.mounted = hook.mounted /\ g.hidden = hook.hidden /\ g.active = hook.active
           /\ g.pendingId = hook.pendingId /\ g.restoring = hook.restoring
           /\ g.recoveryPending = hook.recoveryPending /\ g.paused = TRUE
           /\ g.stage = hook.stage /\ g.look = hook.look /\ g.restore = hook.restore
        /\ g \in Hook
    BY <1>2, <2>1 DEF Hook
  <2> QED BY <1>1, <1>2, <1>3, <1>5, <2>1, <2>2, <2>3, BeginEndsStep
<1>6. CASE noticed /\ (m.what = "expired" \/ m.op = "create")
  <2>1. /\ /\ g.mounted = hook.mounted /\ g.hidden = hook.hidden /\ g.active = NoRun
           /\ g.pendingId = g.pendingId /\ g.restoring = g.restoring
           /\ g.recoveryPending = g.recoveryPending /\ g.paused = g.paused
           /\ g.stage = "none" /\ g.look = hook.look /\ g.restore = hook.restore
        /\ g \in Hook /\ g.pendingId \in {NoJob, hook.pendingId}
        /\ g.restoring = hook.restoring \/ ~g.restoring
        /\ ~g.recoveryPending \/ (g.recoveryPending = hook.recoveryPending /\ m.op = "create")
    <3>1. CASE m.what = "expired"
      <4>1. m.op # "create"
        BY <1>3, <3>1 DEF Proper
      <4>2. g = LetGo([hook EXCEPT !.paused = TRUE])
        BY <1>6, <3>1, <4>1 DEF Missed, Failed
      <4> QED BY ZenonT(40), <1>2, <4>2 DEF LetGo, Hook
    <3>2. CASE m.what # "expired"
      <4>1. g = [[hook EXCEPT !.paused = TRUE] EXCEPT !.active = NoRun, !.stage = "none"] /\ m.op = "create"
        BY <1>6, <3>2 DEF Missed, Failed
      <4> QED BY ZenonT(40), <1>2, <4>1 DEF Hook
    <3> QED BY <3>1, <3>2
  <2>2. Current(r) /\ CurrentOK(r) /\ g.pendingId = NoJob
    BY <1>3, <1>6, <2>1 DEF CurrentOK
  <2>3. ~g.recoveryPending
    BY <1>3, <1>6, <2>1, <2>2 DEF CurrentOK
  <2>4. run[r].job = NoJob \/ srv[run[r].job] = "gone"
    BY <1>3, <1>6 DEF Proper
  <2>5. locator' = locator \/ (locator' = NoJob /\ srv[locator] = "gone")
    BY <1>1, <1>3 DEF After, Without, Proper
  <2> HIDE DEF g, noticed
  <2>6. /\ \A q \in Run \ {r} : run'[q] = run[q]
        /\ run'[r].job = run[r].job /\ run'[r].state = run[r].state /\ run'[r].begin = "none"
        /\ run'[r].user = run[r].user /\ run'[r].clean = run[r].clean
        /\ run'[r].cancelled = run[r].cancelled /\ ~run'[r].secret
        /\ run' \in [Run -> RunObject]
    BY <1>1, <1>2, <2>1, EndsIs
  <2>7. /\ /\ hook'.mounted = g.mounted /\ hook'.hidden = g.hidden
           /\ hook'.active = hook'.active /\ hook'.pendingId = g.pendingId
           /\ hook'.restoring = g.restoring /\ hook'.recoveryPending = g.recoveryPending
           /\ hook'.paused = g.paused /\ hook'.stage = hook'.stage /\ hook'.look = g.look
           /\ hook'.restore = g.restore
        /\ hook' \in Hook /\ hook'.active = NoRun
    BY <1>1, <1>2, <2>1, EndsIs
  <2> QED BY <1>1, <1>3, <2>1, <2>2, <2>3, <2>4, <2>5, <2>6, <2>7, BeginGivesUpStep
<1> QED BY <1>1, <1>4, <1>5, <1>6

\* The upload is answered: the job is started, or cancelled where the user asked meanwhile.
LEMMA UploadedStep ==
    ASSUME ClientInv, NEW r \in Run, NEW m \in net, Uploaded(r, m), UNCHANGED left
    PROVE  ClientInv'
<1> DEFINE goes == Current(r) /\ ~run[r].cancelled
<1>0. Types /\ ClientTypeOK /\ hook \in Hook
  BY TypesOK DEF Types
<1>1. /\ Answered(m, "begin", r) /\ m.op = "upload" /\ m.what \in Shown
      /\ UNCHANGED <<srv, locator, known, left>>
  BY DEF Uploaded
<1>2. /\ m.from = "begin" /\ m.run = r /\ run[r].begin = "upload" /\ Proper(m) /\ run[r] \in RunObject
      /\ \A n \in net \ {m} : ~(n.from = "begin" /\ n.run = r)
      /\ RunOK(r) /\ (Current(r) => CurrentOK(r) /\ run[r].job = m.job /\ m.job \in Job)
  BY <1>1, BeginAnswer
<1>3. CASE ~goes
  <2>1. Ends(hook, r, run[r]) /\ net' = net \ {m} /\ UNCHANGED asked
    BY <1>3 DEF Uploaded
  <2> HIDE DEF goes
  <2> QED BY <1>0, <1>1, <1>2, <2>1, BeginEndsStep
<1>4. CASE goes
  <2>0. Current(r) /\ ~run[r].cancelled /\ CurrentOK(r) /\ m.what = "waiting" /\ m.job \in Job
        /\ hook.active = r /\ run[r].user = "none"
    <3>1. Current(r) /\ ~run[r].cancelled /\ CurrentOK(r) /\ hook.active = r
      BY <1>2, <1>4 DEF Current
    <3> QED BY <1>1, <1>2, <3>1 DEF Proper, Shown, CurrentOK, StageOf
  <2>1. Awaits(m, [hook EXCEPT !.stage = "starting"], r,
               [run[r] EXCEPT !.state = m.what, !.secret = FALSE], "start")
    BY <1>4 DEF Uploaded
  <2>2. /\ /\ hook'.mounted = hook.mounted /\ hook'.hidden = hook.hidden
           /\ hook'.active = hook.active /\ hook'.pendingId = hook.pendingId
           /\ hook'.restoring = hook.restoring
           /\ hook'.recoveryPending = hook.recoveryPending /\ hook'.paused = hook.paused
           /\ hook'.stage = "starting" /\ hook'.look = hook.look
           /\ hook'.restore = hook.restore
           /\ hook' \in Hook
    BY <1>0, <2>1 DEF Awaits, Hook
  <2>3. /\ /\ \A q \in Run \ {r} : run'[q] = run[q]
           /\ run'[r].job = run[r].job /\ run'[r].state = "waiting"
           /\ run'[r].begin = "start" /\ run'[r].user = run[r].user
           /\ run'[r].clean = run[r].clean /\ run'[r].cancelled = run[r].cancelled
           /\ run'[r].secret = FALSE /\ run'[r].keep = run[r].keep
           /\ run' \in [Run -> RunObject]
    BY <1>0, <1>2, <2>0, <2>1 DEF Awaits, Types, RunObject, Shown
  <2>4. PICK new : new = Sent("begin", r, "start", run[r].job)
    OBVIOUS
  <2>5. /\ new.from = "begin" /\ new.run = r /\ new.op = "start" /\ new.job = m.job /\ new.what = "sent"
        /\ new \in Request /\ net' = (net \ {m}) \cup {new} /\ asked' = asked
    BY <1>2, <2>0, <2>1, <2>4 DEF Awaits, Sent, Request
  <2>6. ClientTypeOK'
    BY <1>0, <1>1, <2>2, <2>3, <2>5 DEF ClientTypeOK
  <2>7. NetInv'
    <3>1. ASSUME NEW n \in net \ {m}, n.run = r PROVE About(n)'
      <4>1. Proper(n) /\ About(n) /\ n \in Request /\ n.from # "begin" /\ Awaited(n)
        BY <1>2, <2>0, <3>1, MessageIs DEF Current
      <4>2. CASE n.from = "look"
        BY <2>2, <4>1, <4>2 DEF About, Awaited, LeftBehind, Proper
      <4>3. CASE n.from # "look"
        BY <2>0, <2>2, <2>3, <3>1, <4>1, <4>3, AboutKeptFor DEF Current
      <4> QED BY <4>2, <4>3
    <3>2. ASSUME NEW n \in net, n.run # r PROVE About(n)'
      BY <2>2, <2>3, <3>2, AboutOthers
    <3>3. Proper(new)' /\ About(new)'
      BY <1>2, <2>0, <2>3, <2>5, ClientAssumption DEF Proper, About, Awaited
    <3> QED BY <1>1, <1>2, <2>5, <3>1, <3>2, <3>3, NetStep
  <2>8. RunInv'
    <3>1. \A q \in Run : RunOK(q)'
      BY <1>1, <1>2, <2>0, <2>2, <2>3, <2>5, ClientAssumption DEF ClientInv, RunInv, RunOK,
         Current
    <3>2. CurrentOK(r)'
      BY <1>1, <1>2, <2>0, <2>2, <2>3, <2>5, ClientAssumption DEF CurrentOK, StageOf
    <3> QED BY <2>0, <2>2, <3>1, <3>2 DEF RunInv
  <2>9. LookInv'
    BY <1>0, <1>2, <2>0, <2>2, <2>3, ClientAssumption DEF ClientInv, LookInv, Current, NoLook,
       Types, Hook, Look
  <2>10. HookInv'
    BY <1>0, <1>2, <2>0, <2>2, <2>3, ClientAssumption DEF ClientInv, HookInv, NeverStranded,
       StillAbout
  <2>11. LocatorInv' /\ NoOrphan'
    BY <1>1, <2>0, <2>2, <2>3, <2>5 DEF ClientInv, LocatorInv, NoOrphan, Live
  <2>12. FreshInv'
    <3>1. \A j \in Job : Named(j)' => Named(j)
      BY <1>1, <1>2, <2>0, <2>2, <2>3, <2>5 DEF Named
    <3> QED BY <3>1, <1>1, <2>5, FreshStep
  <2>13. SettledInv'
    BY <2>0, <2>2, <2>3, ClientAssumption DEF ClientInv, SettledInv, Mutated
  <2> QED BY <2>6, <2>7, <2>8, <2>9, <2>10, <2>11, <2>12, <2>13 DEF ClientInv
<1> QED BY <1>3, <1>4

\* The answer to a create is about a job that nothing else names.
LEMMA CreatedIs ==
    ASSUME ClientInv, NEW r \in Run, NEW m \in net, Answered(m, "begin", r), m.op = "create",
           m.what = "waiting"
    PROVE  /\ m.from = "begin" /\ m.run = r /\ run[r].begin = "create" /\ Proper(m)
           /\ run[r] \in RunObject
           /\ \A n \in net \ {m} : ~(n.from = "begin" /\ n.run = r)
           /\ RunOK(r) /\ (Current(r) => CurrentOK(r)) /\ run[r].job = NoJob
           /\ run[r].user = "none" /\ run[r].clean = "none" /\ run[r].state = "none"
           /\ m.job \in Job /\ m.job # NoJob
           /\ ~Named(m.job) /\ srv[m.job] # "none"
           /\ \A n \in net : n.op = "create" /\ n.job = m.job => n = m
<1>1. m \in Request /\ Proper(m)
  BY MessageIs
<1>2. m.job \in Job /\ m.job # NoJob
  BY <1>1, ClientAssumption DEF Proper, Request
<1>3. ~Named(m.job) /\ srv[m.job] # "none" /\ \A n \in net : n.op = "create" /\ n.job = m.job => n = m
  BY <1>2 DEF ClientInv, FreshInv, Made
<1> QED BY <1>1, <1>2, <1>3, BeginAnswer DEF RunOK

\* What becomes of the jobs that are named, when r gets the job of m.
LEMMA NamedAfter ==
    ASSUME ClientInv, NEW r \in Run, NEW m \in net, m.op = "create", m.job \in Job,
           ~Named(m.job), srv[m.job] # "none",
           \A n \in net : n.op = "create" /\ n.job = m.job => n = m,
           \A q \in Run : run'[q].job = run[q].job \/ run'[q].job = m.job,
           locator' \in {locator, m.job},
           hook'.pendingId = hook.pendingId, hook'.look = hook.look,
           \A n \in net' : (n \in net /\ n # m) \/ (n.op # "create" /\ n.job = m.job),
           UNCHANGED srv
    PROVE  FreshInv'
<1>1. \A j \in Job : Named(j)' => Named(j) \/ j = m.job
  BY DEF Named
<1>2. \A n \in net' : n.op = "create" => n \in net /\ n.job # m.job
  OBVIOUS
<1>3. \A n \in net : n.job \in Job \cup {NoJob}
  BY MessageIs DEF Request
<1> QED BY <1>1, <1>2, <1>3 DEF ClientInv, FreshInv, Made

\* A reservation arrives for an object that is no longer wanted: its job is cancelled.
LEMMA ReservedLateStep ==
    ASSUME ClientInv, NEW r \in Run, NEW m \in net, Reserved(r, m), UNCHANGED left,
           ~Current(r) \/ run[r].cancelled
    PROVE  ClientInv'
<1>0. Types /\ ClientTypeOK /\ hook \in Hook
  BY TypesOK DEF Types
<1>1. /\ Answered(m, "begin", r) /\ m.op = "create" /\ m.what = "waiting"
      /\ known' = known \cup {m.job}
      /\ UNCHANGED <<srv, left>>
  BY DEF Reserved
<1>2. /\ m.from = "begin" /\ m.run = r /\ run[r].begin = "create" /\ Proper(m) /\ run[r] \in RunObject
      /\ \A n \in net \ {m} : ~(n.from = "begin" /\ n.run = r)
      /\ RunOK(r) /\ (Current(r) => CurrentOK(r)) /\ run[r].job = NoJob
      /\ run[r].user = "none" /\ run[r].clean = "none" /\ run[r].state = "none"
      /\ m.job \in Job /\ m.job # NoJob
      /\ ~Named(m.job) /\ srv[m.job] # "none"
      /\ \A n \in net : n.op = "create" /\ n.job = m.job => n = m
  BY <1>1, CreatedIs
<1>3. run[r].cancelled /\ ~run[r].secret
  BY <1>2 DEF RunOK
<1>4. PICK rr \in RunObject : rr = [run[r] EXCEPT !.job = m.job, !.state = m.what]
  BY <1>1, <1>2 DEF RunObject, Shown
<1>5. rr.job = m.job
  BY <1>2, <1>4 DEF RunObject
<1>6. Awaits(m, hook, r, rr, "cancel") /\ UNCHANGED locator
  <2>1. ~Current(r) \/ rr.cancelled
    BY <1>3, <1>4 DEF RunObject
  <2> QED BY <1>4, <2>1 DEF Reserved
<1>7. /\ /\ \A q \in Run \ {r} : run'[q] = run[q]
         /\ run'[r].job = m.job /\ run'[r].state = "waiting" /\ run'[r].begin = "cancel"
         /\ run'[r].user = run[r].user /\ run'[r].clean = run[r].clean
         /\ run'[r].cancelled = run[r].cancelled /\ run'[r].secret = run[r].secret
         /\ run'[r].keep = run[r].keep
         /\ run' \in [Run -> RunObject]
  <2>1. PICK r2 \in RunObject : r2 = [rr EXCEPT !.begin = "cancel"]
    BY DEF RunObject
  <2>2. run' = [run EXCEPT ![r] = r2]
    BY <1>6, <2>1 DEF Awaits
  <2>3. /\ r2.job = m.job /\ r2.state = "waiting" /\ r2.begin = "cancel" /\ r2.user = run[r].user
        /\ r2.clean = run[r].clean /\ r2.cancelled = run[r].cancelled
        /\ r2.secret = run[r].secret /\ r2.keep = run[r].keep
    BY <1>1, <1>2, <1>4, <2>1 DEF RunObject
  <2>4. run'[r] = r2 /\ (\A q \in Run \ {r} : run'[q] = run[q]) /\ run' \in [Run -> RunObject]
    BY <1>0, <2>2 DEF Types
  <2> QED BY <2>3, <2>4
<1>8. hook' = hook /\ locator' = locator /\ asked' = asked \cup {m.job} /\ asked' \subseteq Job /\ known' \subseteq Job
  BY <1>0, <1>1, <1>2, <1>5, <1>6 DEF Awaits, Types
<1>9. PICK new : new = Sent("begin", r, "cancel", m.job)
  OBVIOUS
<1>10. /\ new.from = "begin" /\ new.run = r /\ new.op = "cancel" /\ new.job = m.job /\ new.what = "sent"
       /\ new \in Request /\ net' = (net \ {m}) \cup {new}
  BY <1>2, <1>5, <1>6, <1>9 DEF Awaits, Sent, Request
<1>11. ClientTypeOK'
  BY <1>0, <1>1, <1>7, <1>8, <1>10 DEF ClientTypeOK
<1>12. NetInv'
  <2>1. ASSUME NEW n \in net \ {m}, n.run = r PROVE About(n)'
    <3>1. Proper(n) /\ About(n) /\ n \in Request /\ n.from # "begin"
      BY <1>2, <2>1, MessageIs
    <3>2. CASE n.from = "look"
      BY <1>8, <3>1, <3>2 DEF About, Awaited, LeftBehind, Proper
    <3>3. CASE n.from # "look"
      <4>1. Awaited(n)
        BY <1>2, <2>1, <3>3, BeginMessage
      <4>2. n.from = "clean"
        BY <1>2, <2>1, <3>1, <3>3, <4>1 DEF Awaited, Proper, Request
      <4> QED BY <1>7, <1>8, <2>1, <3>1, <4>1, <4>2, AboutKeptFor DEF Current
    <3> QED BY <3>2, <3>3
  <2>2. ASSUME NEW n \in net, n.run # r PROVE About(n)'
    BY <1>7, <1>8, <2>2, AboutOthers
  <2>3. Proper(new)' /\ About(new)'
    BY <1>2, <1>7, <1>10, ClientAssumption DEF Proper, About, Awaited
  <2> QED BY <1>1, <1>2, <1>10, <2>1, <2>2, <2>3, NetStep
<1>13. RunInv'
  <2>1. ASSUME NEW q \in Run PROVE RunOK(q)'
    <3>1. CASE q = r
      BY <1>1, <1>2, <1>3, <1>7, <1>8, <3>1, ClientAssumption DEF RunOK, Current
    <3>2. CASE q # r
      <4>1. RunOK(q) /\ run'[q] = run[q]
        BY <1>7, <3>2 DEF ClientInv, RunInv
      <4> QED BY <1>8, <3>2, <4>1 DEF RunOK, Current
    <3> QED BY <3>1, <3>2
  <2>2. hook.active # NoRun => CurrentOK(hook.active)'
    <3>1. CASE hook.active = r
      BY <1>1, <1>2, <1>3, <1>7, <1>8, <3>1 DEF CurrentOK, Current
    <3>2. CASE hook.active # r
      BY <1>0, <1>1, <1>7, <1>8, <3>2 DEF ClientInv, RunInv, CurrentOK, Types, Hook
    <3> QED BY <3>1, <3>2
  <2> QED BY <1>8, <2>1, <2>2 DEF RunInv
<1>14. LookInv'
  <2>1. hook.look.step = "none" \/ hook.look.run # r \/ ~Current(r)
    BY <1>2, ClientAssumption DEF ClientInv, LookInv
  <2>2. hook.look.run = r => run[r].cancelled
    BY <1>2, ClientAssumption DEF ClientInv, LookInv
  <2>3. NoLook.run = NoRun
    BY DEF NoLook
  <2>4. hook.look.run # NoRun => hook.look.run \in Run
    BY <1>0 DEF Hook, Look
  <2>5. CASE hook.look.run = r
    BY <1>7, <1>8, <2>1, <2>2, <2>3, <2>5, ClientAssumption DEF ClientInv, LookInv, Current
  <2>6. CASE hook.look.run # r
    BY <1>7, <1>8, <2>4, <2>6 DEF ClientInv, LookInv, Current
  <2> QED BY <2>5, <2>6
<1>15. HookInv'
  BY <1>0, <1>2, <1>3, <1>7, <1>8, ClientAssumption DEF ClientInv, HookInv, NeverStranded,
     StillAbout
<1>16. LocatorInv' /\ NoOrphan'
  BY <1>0, <1>1, <1>2, <1>7, <1>8, ClientAssumption DEF ClientInv, LocatorInv, NoOrphan, Live,
     Types, Hook
<1>17. FreshInv'
  BY <1>1, <1>2, <1>7, <1>8, <1>10, NamedAfter
<1>18. SettledInv'
  <2>1. \A q \in Run \ {r} : run[q].job # m.job
    BY <1>2 DEF Named
  <2>2. \A j : Mutated(j)' => Mutated(j)
    BY <1>2, <1>7 DEF Mutated
  <2> QED BY <1>0, <1>2, <1>7, <1>8, <2>1, <2>2, ClientAssumption DEF ClientInv, SettledInv,
             Types, Hook
<1> QED BY <1>11, <1>12, <1>13, <1>14, <1>15, <1>16, <1>17, <1>18 DEF ClientInv

\* A reservation arrives in time: the job is stored and its upload begins.
LEMMA ReservedInTimeStep ==
    ASSUME ClientInv, NEW r \in Run, NEW m \in net, Reserved(r, m), UNCHANGED left,
           Current(r), ~run[r].cancelled
    PROVE  ClientInv'
<1>0. Types /\ ClientTypeOK /\ hook \in Hook
  BY TypesOK DEF Types
<1>1. /\ Answered(m, "begin", r) /\ m.op = "create" /\ m.what = "waiting"
      /\ known' = known \cup {m.job}
      /\ UNCHANGED <<srv, left>>
  BY DEF Reserved
<1>2. /\ m.from = "begin" /\ m.run = r /\ run[r].begin = "create" /\ Proper(m) /\ run[r] \in RunObject
      /\ \A n \in net \ {m} : ~(n.from = "begin" /\ n.run = r)
      /\ RunOK(r) /\ (Current(r) => CurrentOK(r)) /\ run[r].job = NoJob
      /\ run[r].user = "none" /\ run[r].clean = "none" /\ run[r].state = "none"
      /\ m.job \in Job /\ m.job # NoJob
      /\ ~Named(m.job) /\ srv[m.job] # "none"
      /\ \A n \in net : n.op = "create" /\ n.job = m.job => n = m
  BY <1>1, CreatedIs
<1>3. hook.active = r /\ CurrentOK(r)
  BY <1>2 DEF Current
<1> DEFINE r1 == [run[r] EXCEPT !.job = m.job, !.state = m.what]
<1>20. r1 \in RunObject /\ r1.cancelled = run[r].cancelled
  BY <1>1, <1>2 DEF RunObject, Shown
<1>4. PICK saved \in BOOLEAN :
         /\ locator' = (IF saved THEN m.job ELSE locator)
         /\ Awaits(m, [hook EXCEPT !.stage = "uploading"], r, [r1 EXCEPT !.keep = saved], "upload")
  <2>1. Current(r) /\ ~r1.cancelled
    BY <1>3, <1>20
  <2> QED BY <2>1 DEF Reserved
<1>21. PICK rr \in RunObject : rr = [r1 EXCEPT !.keep = saved]
  BY ZenonT(40), <1>20 DEF RunObject
<1>22. Awaits(m, [hook EXCEPT !.stage = "uploading"], r, rr, "upload")
  BY <1>4, <1>21
<1>23. /\ rr.job = m.job /\ rr.state = "waiting" /\ rr.user = run[r].user
       /\ rr.clean = run[r].clean /\ rr.cancelled = run[r].cancelled
       /\ rr.secret = run[r].secret /\ rr.begin = run[r].begin
  BY <1>1, <1>2, <1>20, <1>21 DEF RunObject
<1> HIDE DEF r1
<1>5. rr \in RunObject /\ rr.job = m.job
  BY <1>23
<1>6. locator' \in {locator, m.job} /\ locator' \in Job \cup {NoJob}
  BY <1>0, <1>2, <1>4 DEF Types
<1>7. /\ /\ \A q \in Run \ {r} : run'[q] = run[q]
         /\ run'[r].job = m.job /\ run'[r].state = "waiting" /\ run'[r].begin = "upload"
         /\ run'[r].user = run[r].user /\ run'[r].clean = run[r].clean
         /\ run'[r].cancelled = run[r].cancelled /\ run'[r].secret = run[r].secret
         /\ run'[r].keep = rr.keep
         /\ run' \in [Run -> RunObject]
  <2>1. PICK r2 \in RunObject : r2 = [rr EXCEPT !.begin = "upload"]
    BY DEF RunObject
  <2>2. run' = [run EXCEPT ![r] = r2]
    BY <1>22, <2>1 DEF Awaits
  <2>3. /\ r2.job = m.job /\ r2.state = "waiting" /\ r2.begin = "upload" /\ r2.user = run[r].user
        /\ r2.clean = run[r].clean /\ r2.cancelled = run[r].cancelled
        /\ r2.secret = run[r].secret /\ r2.keep = rr.keep
    BY <1>23, <2>1 DEF RunObject
  <2>4. run'[r] = r2 /\ (\A q \in Run \ {r} : run'[q] = run[q]) /\ run' \in [Run -> RunObject]
    BY <1>0, <2>2 DEF Types
  <2> QED BY <2>3, <2>4
<1>8. /\ /\ hook'.mounted = hook.mounted /\ hook'.hidden = hook.hidden
         /\ hook'.active = hook.active /\ hook'.pendingId = hook.pendingId
         /\ hook'.restoring = hook.restoring
         /\ hook'.recoveryPending = hook.recoveryPending /\ hook'.paused = hook.paused
         /\ hook'.stage = "uploading" /\ hook'.look = hook.look
         /\ hook'.restore = hook.restore
         /\ hook' \in Hook
      /\ asked' = asked /\ known' \subseteq Job
  BY <1>0, <1>1, <1>2, <1>22 DEF Awaits, Types, Hook
<1>9. PICK new : new = Sent("begin", r, "upload", m.job)
  OBVIOUS
<1>10. /\ new.from = "begin" /\ new.run = r /\ new.op = "upload" /\ new.job = m.job /\ new.what = "sent"
       /\ new \in Request /\ net' = (net \ {m}) \cup {new}
  BY <1>2, <1>5, <1>9, <1>22 DEF Awaits, Sent, Request
<1>11. ClientTypeOK'
  BY <1>0, <1>1, <1>6, <1>7, <1>8, <1>10 DEF ClientTypeOK
<1>12. NetInv'
  <2>1. ASSUME NEW n \in net \ {m}, n.run = r PROVE About(n)'
    <3>1. Proper(n) /\ About(n) /\ n \in Request /\ n.from # "begin"
      BY <1>2, <2>1, MessageIs
    <3>2. CASE n.from = "look"
      BY <1>8, <3>1, <3>2 DEF About, Awaited, LeftBehind, Proper
    <3>3. CASE n.from # "look"
      <4>1. Awaited(n)
        BY <1>2, <2>1, <3>3, BeginMessage
      <4>2. n.from = "clean"
        BY <1>2, <2>1, <3>1, <3>3, <4>1 DEF Awaited, Proper, Request
      <4> QED BY <1>7, <1>8, <2>1, <3>1, <4>1, <4>2, AboutKeptFor DEF Current
    <3> QED BY <3>2, <3>3
  <2>2. ASSUME NEW n \in net, n.run # r PROVE About(n)'
    BY <1>7, <1>8, <2>2, AboutOthers
  <2>3. Proper(new)' /\ About(new)'
    BY <1>2, <1>7, <1>10, ClientAssumption DEF Proper, About, Awaited
  <2> QED BY <1>1, <1>2, <1>10, <2>1, <2>2, <2>3, NetStep
<1>13. RunInv'
  <2>1. \A q \in Run : RunOK(q)'
    BY <1>1, <1>2, <1>3, <1>7, <1>8, ClientAssumption DEF ClientInv, RunInv, RunOK, Current
  <2>2. CurrentOK(r)'
    BY <1>1, <1>2, <1>3, <1>7, <1>8 DEF CurrentOK, StageOf
  <2> QED BY <1>3, <1>8, <2>1, <2>2 DEF RunInv
<1>14. LookInv'
  BY <1>0, <1>2, <1>3, <1>7, <1>8, ClientAssumption DEF ClientInv, LookInv, Current, NoLook,
     Types, Hook, Look
<1>15. HookInv'
  BY <1>0, <1>2, <1>3, <1>7, <1>8, ClientAssumption DEF ClientInv, HookInv, NeverStranded,
     StillAbout
<1>16. locator = NoJob \/ srv[locator] = "gone"
  BY <1>2, <1>3, ClientAssumption DEF ClientInv, LocatorInv, HookInv
<1>17. LocatorInv' /\ NoOrphan'
  BY <1>0, <1>1, <1>2, <1>3, <1>6, <1>7, <1>8, <1>16, ClientAssumption DEF ClientInv,
     LocatorInv, NoOrphan, Live
<1>18. FreshInv'
  BY <1>1, <1>2, <1>6, <1>7, <1>8, <1>10, NamedAfter
<1>19. SettledInv'
  <2>1. \A q \in Run \ {r} : run[q].job # m.job
    BY <1>2 DEF Named
  <2>2. \A j : Mutated(j)' => Mutated(j)
    BY <1>2, <1>7 DEF Mutated
  <2> QED BY <1>0, <1>2, <1>3, <1>7, <1>8, <2>1, <2>2, ClientAssumption DEF ClientInv,
             SettledInv, Types, Hook
<1> QED BY <1>11, <1>12, <1>13, <1>14, <1>15, <1>17, <1>18, <1>19 DEF ClientInv

\* A reservation arrives.
LEMMA ReservedStep ==
    ASSUME ClientInv, NEW r \in Run, NEW m \in net, Reserved(r, m), UNCHANGED left
    PROVE  ClientInv'
  BY ReservedLateStep, ReservedInTimeStep

\* The page is hidden: its object is cleaned up, its status request forgotten.
LEMMA PageHideStep ==
    ASSUME ClientInv, PageHide
    PROVE  ClientInv'
<1> DEFINE held == Target(hook) # NoJob
           p == hook.pendingRestoration \/ held
           v == hook.recoveryPending \/ held
           h == [hook EXCEPT !.hidden = TRUE, !.restoring = TRUE, !.restore = "none",
                             !.pendingRestoration = p, !.recoveryPending = v]
<1>0. Types /\ ClientTypeOK /\ hook \in Hook
  BY TypesOK DEF Types
<1>1. /\ hook.mounted /\ ~hook.hidden
      /\ RequestCleanup(hook.active, h)
      /\ left.page < MaxHides /\ left' = [left EXCEPT !.page = @ + 1]
      /\ UNCHANGED <<srv, locator, known>>
  BY DEF PageHide
<1>2. hook' = [h EXCEPT !.look = NoLook]
  BY <1>1 DEF RequestCleanup, Unlooks
<1>3. p \in BOOLEAN /\ v \in BOOLEAN /\ (v <=> hook.recoveryPending \/ Target(hook) # NoJob)
  BY <1>0 DEF Hook
<1> HIDE DEF p, v
<1>4. /\ /\ hook'.mounted = hook.mounted /\ hook'.hidden = TRUE
         /\ hook'.active = hook.active /\ hook'.pendingId = hook.pendingId
         /\ hook'.restoring = TRUE /\ hook'.recoveryPending = v
         /\ hook'.paused = hook.paused /\ hook'.stage = hook.stage /\ hook'.look = NoLook
         /\ hook'.restore = "none"
         /\ hook' \in Hook
  BY <1>0, <1>2, <1>3, LookIs DEF Hook
<1>5. left' \in [page : 0..MaxHides, view : 0..MaxLeaves]
  BY <1>0, <1>1, ClientAssumption DEF Types
<1> HIDE DEF h
<1>6. hook.active = NoRun \/ hook.active \in Run
  BY <1>0 DEF Hook
<1>7. CASE hook.active = NoRun
  <2>1. NetInv' /\ FreshInv' /\ run' = run /\ asked' = asked
        /\ net' \subseteq net /\ \A m \in net' : m.from # "look"
    BY <1>1, <1>4, <1>7, CleanupOfNothing
  <2>2. ClientTypeOK'
    BY <1>0, <1>1, <1>4, <1>5, <2>1 DEF ClientTypeOK
  <2>3. RunInv'
    BY <1>1, <1>4, <1>7, <2>1 DEF ClientInv, RunInv, RunOK, Current
  <2>4. LookInv' /\ SettledInv'
    BY <1>4, <1>7, ClientAssumption DEF LookInv, SettledInv, NoLook
  <2>5. HookInv'
    BY <1>1, <1>3, <1>4, <1>7, ClientAssumption DEF ClientInv, HookInv, NeverStranded, Target
  <2>6. LocatorInv' /\ NoOrphan'
    BY <1>1, <1>4, <1>7, <2>1 DEF ClientInv, LocatorInv, NoOrphan, Live
  <2> QED BY <2>1, <2>2, <2>3, <2>4, <2>5, <2>6 DEF ClientInv
<1>8. ASSUME NEW r \in Run, hook.active = r PROVE ClientInv'
  <2>0. Current(r) /\ CurrentOK(r) /\ RunOK(r) /\ RequestCleanup(r, h)
    BY <1>1, <1>8, ClientAssumption DEF ClientInv, RunInv, Current
  <2>1. /\ \A q \in Run \ {r} : run'[q] = run[q]
        /\ run'[r].job = run[r].job /\ run'[r].state = run[r].state
        /\ run'[r].begin = run[r].begin /\ run'[r].user = run[r].user
        /\ run'[r].cancelled = TRUE /\ run'[r].secret = FALSE
        /\ run' \in [Run -> RunObject]
        /\ \A n \in net' : \/ n \in net /\ n.from # "look"
                           \/ Sends(r) /\ n = Sent("clean", r, CleanupOp(r), run[r].job)
        /\ asked \subseteq asked' /\ asked' \subseteq Job
        /\ run[r].job \in {NoJob, locator} \cup asked'
    BY <2>0, CleanupIs, CleanupAsks
  <2>2. NetInv' /\ FreshInv' /\ \A q \in Run : RunOK(q)'
    BY <1>1, <1>4, <1>8, <2>0, CleanupStep
  <2>3. ClientTypeOK'
    <3>1. Sends(r) => Sent("clean", r, CleanupOp(r), run[r].job) \in Request
      BY <1>0, RunStatesAre DEF Sent, Request, CleanupOp, RunObject
    <3>2. Sent("clean", r, CleanupOp(r), run[r].job).from = "clean"
      BY DEF Sent
    <3>3. net' \subseteq Request /\ \A n \in net' : n.from # "look"
      BY <1>0, <2>1, <3>1, <3>2 DEF Types
    <3> QED BY <1>0, <1>1, <1>4, <1>5, <2>1, <3>3 DEF ClientTypeOK
  <2>4. RunInv'
    <3>1. CurrentOK(r)'
      BY <1>1, <1>3, <1>4, <1>8, <2>0, <2>1, ClientAssumption DEF CurrentOK, Target
    <3> QED BY <1>4, <1>8, <2>2, <3>1 DEF RunInv
  <2>5. LookInv'
    BY <1>4, ClientAssumption DEF LookInv, NoLook
  <2>6. HookInv'
    BY <1>1, <1>4, <1>8, ClientAssumption DEF HookInv, NeverStranded
  <2>7. LocatorInv' /\ NoOrphan'
    BY <1>1, <1>4, <1>8, <2>1 DEF ClientInv, LocatorInv, NoOrphan, Live
  <2>8. SettledInv'
    <3>1. \A q \in Run : run'[q].job = run[q].job /\ run'[q].user = run[q].user
      BY <2>1
    <3> QED BY <1>4, <1>8, <3>1 DEF ClientInv, SettledInv, NoLook
  <2> QED BY <2>2, <2>3, <2>4, <2>5, <2>6, <2>7, <2>8 DEF ClientInv
<1> QED BY <1>6, <1>7, <1>8

\* The view is left: its object is cleaned up and the hook is over.
LEMMA UnmountStep ==
    ASSUME ClientInv, Unmount
    PROVE  ClientInv'
<1>0. Types /\ ClientTypeOK /\ hook \in Hook
  BY TypesOK DEF Types
<1>1. /\ hook.mounted /\ ~hook.hidden
      /\ RequestCleanup(hook.active, Unmounted)
      /\ left.view < MaxLeaves /\ left' = [left EXCEPT !.view = @ + 1]
      /\ UNCHANGED <<srv, locator, known>>
  BY DEF Unmount
<1>2. hook' = [Unmounted EXCEPT !.look = NoLook]
  BY <1>1 DEF RequestCleanup, Unlooks
<1>4. /\ ~hook'.mounted /\ ~hook'.hidden /\ hook'.active = NoRun /\ hook'.pendingId = NoJob
      /\ hook'.look = NoLook /\ hook'.restore = "none" /\ ~hook'.restoring
      /\ ~hook'.recoveryPending /\ hook' \in Hook
  BY <1>2, LookIs DEF Unmounted, Hook
<1>5. left' \in [page : 0..MaxHides, view : 0..MaxLeaves]
  BY <1>0, <1>1, ClientAssumption DEF Types
<1>6. hook.active = NoRun \/ hook.active \in Run
  BY <1>0 DEF Hook
<1>9. LookInv' /\ SettledInv' /\ HookInv' /\ LocatorInv'
  BY <1>4, ClientAssumption DEF LookInv, SettledInv, HookInv, LocatorInv, NeverStranded, NoLook
<1>7. CASE hook.active = NoRun
  <2>1. NetInv' /\ FreshInv' /\ run' = run /\ asked' = asked
        /\ net' \subseteq net /\ \A m \in net' : m.from # "look"
    BY <1>1, <1>4, <1>7, CleanupOfNothing
  <2>2. ClientTypeOK'
    BY <1>0, <1>1, <1>4, <1>5, <2>1 DEF ClientTypeOK
  <2>3. RunInv'
    BY <1>1, <1>4, <1>7, <2>1 DEF ClientInv, RunInv, RunOK, Current
  <2>6. NoOrphan'
    BY <1>1, <1>4, <1>7, <2>1 DEF ClientInv, NoOrphan, Live
  <2> QED BY <1>9, <2>1, <2>2, <2>3, <2>6 DEF ClientInv
<1>8. ASSUME NEW r \in Run, hook.active = r PROVE ClientInv'
  <2>0. Current(r) /\ CurrentOK(r) /\ RunOK(r) /\ RequestCleanup(r, Unmounted)
    BY <1>1, <1>8, ClientAssumption DEF ClientInv, RunInv, Current
  <2>1. /\ \A q \in Run \ {r} : run'[q] = run[q]
        /\ run'[r].job = run[r].job
        /\ run' \in [Run -> RunObject]
        /\ \A n \in net' : \/ n \in net /\ n.from # "look"
                           \/ Sends(r) /\ n = Sent("clean", r, CleanupOp(r), run[r].job)
        /\ asked \subseteq asked' /\ asked' \subseteq Job
        /\ run[r].job \in {NoJob, locator} \cup asked'
    BY <2>0, CleanupIs, CleanupAsks
  <2>2. NetInv' /\ FreshInv' /\ \A q \in Run : RunOK(q)'
    BY <1>1, <1>4, <1>8, <2>0, CleanupStep
  <2>3. ClientTypeOK'
    <3>1. Sends(r) => Sent("clean", r, CleanupOp(r), run[r].job) \in Request
      BY <1>0, RunStatesAre DEF Sent, Request, CleanupOp, RunObject
    <3>2. Sent("clean", r, CleanupOp(r), run[r].job).from = "clean"
      BY DEF Sent
    <3>3. net' \subseteq Request /\ \A n \in net' : n.from # "look"
      BY <1>0, <2>1, <3>1, <3>2 DEF Types
    <3> QED BY <1>0, <1>1, <1>4, <1>5, <2>1, <3>3 DEF ClientTypeOK
  <2>4. RunInv'
    BY <1>4, <2>2 DEF RunInv
  <2>7. NoOrphan'
    BY <1>1, <1>4, <1>8, <2>1, ClientAssumption DEF ClientInv, NoOrphan, Live
  <2> QED BY <1>9, <2>2, <2>3, <2>4, <2>7 DEF ClientInv
<1> QED BY <1>6, <1>7, <1>8

\* The user's cancellation is answered.
LEMMA CancelledStep ==
    ASSUME ClientInv, NEW r \in Run, NEW m \in net, Cancelled(r, m), UNCHANGED left
    PROVE  ClientInv'
<1> DEFINE s == IF Current(r) /\ m.what \in Shown THEN m.what ELSE run[r].state
<1>0. Types /\ hook \in Hook
  BY TypesOK DEF Types
<1>1. /\ Answered(m, "user", r) /\ m.op = "cancel" /\ net' = net \ {m}
      /\ run' = [run EXCEPT ![r].user = "none", ![r].state = s]
      /\ locator' = After(m.what, m.job)
      /\ UNCHANGED <<srv, known, asked, left>>
  BY DEF Cancelled, history
<1>2. /\ run[r].user = "cancel" /\ run[r] \in RunObject /\ RunOK(r) /\ (Current(r) => CurrentOK(r))
      /\ m.job = run[r].job /\ m.job \in Job
      /\ m.what \in {"expired", "cleared"} => srv[m.job] = "gone"
      /\ m.what \in Shown \cup {"expired", "error"}
  BY <1>1, UserAnswer
<1>3. s \in Shown \cup {"none"} /\ (s = run[r].state \/ s \in Shown)
  BY <1>2 DEF RunObject
<1> HIDE DEF s
<1>4. /\ /\ \A q \in Run \ {r} : run'[q] = run[q]
         /\ run'[r].job = run[r].job /\ run'[r].state = s /\ run'[r].begin = run[r].begin
         /\ run'[r].user = "none" /\ run'[r].clean = run[r].clean
         /\ run'[r].cancelled = run[r].cancelled /\ run'[r].secret = run[r].secret
         /\ run'[r].keep = run[r].keep
         /\ run' \in [Run -> RunObject]
  <2>1. PICK rr \in RunObject : rr = [run[r] EXCEPT !.user = "none", !.state = s]
    BY <1>2, <1>3 DEF RunObject
  <2>2. run' = [run EXCEPT ![r] = rr]
    BY <1>0, <1>1, <2>1 DEF Types
  <2>3. /\ rr.job = run[r].job /\ rr.state = s /\ rr.begin = run[r].begin /\ rr.user = "none"
        /\ rr.clean = run[r].clean /\ rr.cancelled = run[r].cancelled
        /\ rr.secret = run[r].secret /\ rr.keep = run[r].keep
    BY <1>2, <2>1 DEF RunObject
  <2> QED BY <1>0, <2>2, <2>3 DEF Types
<1>5. run[r].cancelled
  BY <1>2 DEF RunOK
<1>6. locator' = locator \/ (locator' = NoJob /\ locator = m.job /\ srv[m.job] = "gone")
  BY <1>1, <1>2 DEF After, Without
<1>7. m.what = "expired" => locator' # m.job
  BY <1>1, <1>2, ClientAssumption DEF After, Without
<1>8. CASE ~Current(r)
  <2>1. hook' = hook
    BY <1>8 DEF Cancelled
  <2> QED BY <1>0, <1>1, <1>2, <1>3, <1>4, <1>5, <1>6, <1>8, <2>1, UserEndsStep DEF Current
<1>9. CASE Current(r) /\ m.what # "expired"
  <2>1. PICK p \in BOOLEAN : hook' = [hook EXCEPT !.stage = "none", !.paused = p] /\ (hook.paused => p)
    <3>1. CASE m.what \in Shown
      <4>1. hook' = [hook EXCEPT !.stage = "none"]
        BY <1>9, <3>1 DEF Cancelled
      <4> QED BY <1>0, <4>1 DEF Hook
    <3>2. CASE m.what = "error"
      <4>1. hook' = [[hook EXCEPT !.paused = TRUE] EXCEPT !.stage = "none"]
        BY <1>9, <3>2 DEF Cancelled, Missed, Failed, Shown
      <4> QED BY <1>0, <4>1 DEF Hook
    <3> QED BY <1>2, <1>9, <3>1, <3>2
  <2>2. /\ /\ hook'.mounted = hook.mounted /\ hook'.hidden = hook.hidden
           /\ hook'.active = hook.active /\ hook'.pendingId = hook.pendingId
           /\ hook'.restoring = hook.restoring
           /\ hook'.recoveryPending = hook.recoveryPending /\ hook'.paused = p
           /\ hook'.stage = "none" /\ hook'.look = hook.look
           /\ hook'.restore = hook.restore
           /\ hook' \in Hook
    BY <1>0, <2>1 DEF Hook
  <2>3. hook.paused \in BOOLEAN
    BY <1>0 DEF Hook
  <2>5. Current(r)'
    BY <1>9, <2>2 DEF Current
  <2>6. hook'.paused = hook.paused \/ (Current(r) /\ hook'.paused)
    BY <1>9, <2>1, <2>2, <2>3
  <2>7. \/ run'[r].job = run[r].job /\ run'[r].state = run[r].state
        \/ run'[r].job = run[r].job /\ run'[r].state \in Shown
    BY <1>3, <1>4
  <2> QED BY <1>1, <1>4, <1>5, <1>6, <1>9, <2>2, <2>5, <2>6, <2>7, UserEndsStep
<1>10. CASE Current(r) /\ m.what = "expired"
  <2>1. hook' = [LetGo([hook EXCEPT !.paused = TRUE]) EXCEPT !.stage = "none"]
    BY <1>10 DEF Cancelled, Missed, Failed, Shown
  <2>2. /\ /\ hook'.mounted = hook.mounted /\ hook'.hidden = hook.hidden
           /\ hook'.active = NoRun /\ hook'.pendingId = NoJob /\ hook'.restoring = FALSE
           /\ hook'.recoveryPending = FALSE /\ hook'.paused = FALSE
           /\ hook'.stage = "none" /\ hook'.look = hook.look
           /\ hook'.restore = hook.restore
           /\ hook' \in Hook
    BY <1>0, <2>1 DEF LetGo, Hook
  <2>3. hook.pendingId = NoJob
    BY <1>2, <1>10 DEF CurrentOK
  <2>4. hook'.pendingId = hook.pendingId /\ srv[m.job] = "gone"
    BY <1>2, <1>10, <2>2, <2>3
  <2>5. ~Current(r)'
    BY <2>2, ClientAssumption DEF Current
  <2>6. locator' # m.job
    BY <1>7, <1>10
  <2>7. \/ run'[r].job = run[r].job /\ run'[r].state = run[r].state
        \/ run'[r].job = run[r].job /\ run'[r].state \in Shown
    BY <1>3, <1>4
  <2> QED BY <1>1, <1>4, <1>5, <1>6, <1>10, <2>2, <2>4, <2>5, <2>6, <2>7, UserEndsStep
<1> QED BY <1>8, <1>9, <1>10

\* The job that the user cleared is gone.
LEMMA ClearedStep ==
    ASSUME ClientInv, NEW r \in Run, NEW m \in net, Cleared(r, m), UNCHANGED left
    PROVE  ClientInv'
<1>0. Types /\ hook \in Hook
  BY TypesOK DEF Types
<1>1. /\ Answered(m, "user", r) /\ m.what = "cleared" /\ net' = net \ {m}
      /\ run' = [run EXCEPT ![r].user = "none", ![r].job = NoJob, ![r].state = "none"]
      /\ hook' = (IF Current(r) THEN LetGo(hook) ELSE hook)
      /\ locator' = After(m.what, m.job)
      /\ UNCHANGED <<srv, known, asked, left>>
  BY DEF Cleared, history
<1>2. /\ run[r] \in RunObject /\ (Current(r) => CurrentOK(r))
      /\ m.job \in Job /\ srv[m.job] = "gone"
  BY <1>1, UserAnswer
<1>4. /\ /\ \A q \in Run \ {r} : run'[q] = run[q]
         /\ run'[r].job = NoJob /\ run'[r].state = "none" /\ run'[r].begin = run[r].begin
         /\ run'[r].user = "none" /\ run'[r].clean = run[r].clean
         /\ run'[r].cancelled = run[r].cancelled /\ run'[r].secret = run[r].secret
         /\ run'[r].keep = run[r].keep
         /\ run' \in [Run -> RunObject]
  <2>1. PICK rr \in RunObject : rr = [run[r] EXCEPT !.user = "none", !.job = NoJob, !.state = "none"]
    BY <1>2 DEF RunObject
  <2>2. run' = [run EXCEPT ![r] = rr]
    BY <1>0, <1>1, <2>1 DEF Types
  <2>3. /\ rr.job = NoJob /\ rr.state = "none" /\ rr.begin = run[r].begin /\ rr.user = "none"
        /\ rr.clean = run[r].clean /\ rr.cancelled = run[r].cancelled
        /\ rr.secret = run[r].secret /\ rr.keep = run[r].keep
    BY <1>2, <2>1 DEF RunObject
  <2> QED BY <1>0, <2>2, <2>3 DEF Types
<1>6. /\ locator' = locator \/ (locator' = NoJob /\ locator = m.job /\ srv[m.job] = "gone")
      /\ locator' # m.job
  BY <1>1, <1>2, ClientAssumption DEF After, Without
<1>8. CASE ~Current(r)
  <2>1. hook' = hook
    BY <1>1, <1>8
  <2>2. ~Current(r)'
    BY <1>8, <2>1 DEF Current
  <2> QED BY <1>0, <1>1, <1>2, <1>4, <1>6, <1>8, <2>1, <2>2, UserEndsStep
<1>10. CASE Current(r)
  <2>1. hook' = LetGo(hook)
    BY <1>1, <1>10
  <2>2. /\ /\ hook'.mounted = hook.mounted /\ hook'.hidden = hook.hidden
           /\ hook'.active = NoRun /\ hook'.pendingId = NoJob /\ hook'.restoring = FALSE
           /\ hook'.recoveryPending = FALSE /\ hook'.paused = FALSE
           /\ hook'.stage = "none" /\ hook'.look = hook.look
           /\ hook'.restore = hook.restore
           /\ hook' \in Hook
    BY <1>0, <2>1 DEF LetGo, Hook
  <2>3. hook'.pendingId = hook.pendingId
    BY <1>2, <1>10, <2>2 DEF CurrentOK
  <2>4. ~Current(r)'
    BY <2>2, ClientAssumption DEF Current
  <2> QED BY <1>0, <1>1, <1>2, <1>4, <1>6, <1>10, <2>2, <2>3, <2>4, UserEndsStep
<1> QED BY <1>8, <1>10

\* A removal that the user asked for fails.
LEMMA NotClearedStep ==
    ASSUME ClientInv, NEW r \in Run, NEW m \in net, NotCleared(r, m), UNCHANGED left
    PROVE  ClientInv'
<1>0. Types /\ hook \in Hook
  BY TypesOK DEF Types
<1>1. /\ Answered(m, "user", r) /\ net' = net \ {m}
      /\ run' = [run EXCEPT ![r].user = "none"]
      /\ hook' = (IF Current(r) THEN [hook EXCEPT !.stage = "none"] ELSE hook)
      /\ UNCHANGED <<srv, locator, known, asked, left>>
  BY DEF NotCleared, history
<1>2. run[r] \in RunObject
  BY <1>1, UserAnswer
<1>4. /\ /\ \A q \in Run \ {r} : run'[q] = run[q]
         /\ run'[r].job = run[r].job /\ run'[r].state = run[r].state
         /\ run'[r].begin = run[r].begin /\ run'[r].user = "none"
         /\ run'[r].clean = run[r].clean /\ run'[r].cancelled = run[r].cancelled
         /\ run'[r].secret = run[r].secret /\ run'[r].keep = run[r].keep
         /\ run' \in [Run -> RunObject]
  BY <1>0, <1>1, <1>2 DEF Types, RunObject
<1>8. CASE ~Current(r)
  <2>1. hook' = hook
    BY <1>1, <1>8
  <2> QED BY <1>0, <1>1, <1>4, <1>8, <2>1, UserEndsStep DEF Current
<1>10. CASE Current(r)
  <2>1. /\ /\ hook'.mounted = hook.mounted /\ hook'.hidden = hook.hidden
           /\ hook'.active = hook.active /\ hook'.pendingId = hook.pendingId
           /\ hook'.restoring = hook.restoring
           /\ hook'.recoveryPending = hook.recoveryPending /\ hook'.paused = hook.paused
           /\ hook'.stage = "none" /\ hook'.look = hook.look
           /\ hook'.restore = hook.restore
           /\ hook' \in Hook
    BY <1>0, <1>1, <1>10 DEF Hook
  <2>2. Current(r)'
    BY <1>10, <2>1 DEF Current
  <2>3. run'[r].state = run[r].state /\ run'[r].job = run[r].job
    BY <1>4
  <2> QED BY <1>1, <1>4, <1>10, <2>1, <2>2, <2>3, UserEndsStep
<1> QED BY <1>8, <1>10

\* A cleanup that waited for the user's request goes on.
LEMMA CleanupGoesOnStep ==
    ASSUME ClientInv, NEW r \in Run, CleanupGoesOn(r), UNCHANGED left
    PROVE  ClientInv'
<1>0. Types /\ ClientTypeOK /\ hook \in Hook /\ run[r] \in RunObject /\ RunOK(r)
  BY TypesOK, RunStatesAre DEF Types, ClientInv, RunInv
<1>1. /\ run[r].clean = "wait" /\ run[r].user = "none"
      /\ UNCHANGED <<srv, locator, hook, known, left>>
  BY DEF CleanupGoesOn
<1>2. PICK new : new = Sent("clean", r, CleanupOp(r), run[r].job)
  OBVIOUS
<1>3. PICK c \in {"cancel", "clear", "done"} :
         /\ run' = [run EXCEPT ![r].clean = c]
         /\ c = "done" => run[r].job = NoJob
         /\ c = "done" => net' = net /\ asked' = asked
         /\ c # "done" => /\ run[r].job # NoJob /\ c = CleanupOp(r)
                          /\ net' = net \cup {new} /\ asked' = asked \cup {run[r].job}
  <2>1. CASE run[r].job = NoJob
    BY <2>1 DEF CleanupGoesOn
  <2>2. CASE run[r].job # NoJob
    BY <1>2, <2>2 DEF CleanupGoesOn, CleanupOp
  <2> QED BY <2>1, <2>2
<1>4. /\ /\ \A q \in Run \ {r} : run'[q] = run[q]
         /\ run'[r].job = run[r].job /\ run'[r].state = run[r].state
         /\ run'[r].begin = run[r].begin /\ run'[r].user = run[r].user
         /\ run'[r].clean = c /\ run'[r].cancelled = run[r].cancelled
         /\ run'[r].secret = run[r].secret /\ run'[r].keep = run[r].keep
         /\ run' \in [Run -> RunObject]
  BY <1>0, <1>3 DEF Types, RunObject
<1>5. /\ new.from = "clean" /\ new.run = r /\ new.op = CleanupOp(r) /\ new.job = run[r].job
      /\ new.what = "sent" /\ new \in Request
  BY <1>0, <1>2 DEF Sent, CleanupOp, Request, RunObject
<1>6. asked \subseteq asked' /\ asked' \subseteq Job /\ run[r].job \in asked' \cup {NoJob}
      /\ \A n \in net' : n \in net \/ (n = new /\ c # "done")
  BY <1>0, <1>3 DEF Types, RunObject
<1>7. ClientTypeOK'
  BY <1>0, <1>1, <1>4, <1>5, <1>6 DEF ClientTypeOK
<1>8. NetInv'
  <2>1. ASSUME NEW n \in net, n.run = r PROVE About(n)' /\ n.from # "clean"
    <3>1. Proper(n) /\ About(n) /\ n \in Request /\ Awaited(n)
      BY <1>1, <2>1, MessageIs
    <3>2. n.from # "clean"
      BY <1>1, <2>1, <3>1 DEF Awaited, Proper
    <3>3. CASE n.from = "look"
      BY <1>1, <3>1, <3>3 DEF About, Awaited, LeftBehind, Proper
    <3>4. CASE n.from # "look"
      BY <1>1, <1>4, <2>1, <3>1, <3>2, <3>4, AboutKeptFor DEF Current
    <3> QED BY <3>2, <3>3, <3>4
  <2>2. ASSUME NEW n \in net, n.run # r PROVE About(n)'
    BY <1>1, <1>4, <2>2, AboutOthers
  <2>3. c # "done" => Proper(new)' /\ About(new)'
    BY <1>3, <1>4, <1>5, ClientAssumption DEF Proper, About, Awaited, CleanupOp
  <2>4. CASE c = "done"
    <3>1. net' \subseteq net
      BY <1>3, <2>4
    <3> QED BY <1>1, <2>1, <2>2, <3>1, NetShrinks
  <2>5. CASE c # "done"
    BY <1>1, <1>5, <1>6, <2>1, <2>2, <2>3, <2>5, NetStep
  <2> QED BY <2>4, <2>5
<1>9. RunInv'
  <2>1. ASSUME NEW q \in Run PROVE RunOK(q)'
    <3>1. CASE q = r
      BY <1>0, <1>1, <1>4, <1>6, <3>1 DEF RunOK, Current
    <3>2. CASE q # r
      BY <1>1, <1>4, <1>6, <3>2 DEF ClientInv, RunInv, RunOK, Current
    <3> QED BY <3>1, <3>2
  <2>2. ASSUME hook.active # NoRun PROVE CurrentOK(hook.active)'
    <3>1. hook.active \in Run /\ CurrentOK(hook.active)
      BY <1>0, <2>2 DEF ClientInv, RunInv, Hook
    <3>2. CASE hook.active = r
      BY <1>1, <1>4, <1>6, <3>1, <3>2 DEF CurrentOK
    <3>3. CASE hook.active # r
      BY <1>1, <1>4, <1>6, <3>1, <3>3 DEF CurrentOK
    <3> QED BY <3>2, <3>3
  <2> QED BY <1>1, <2>1, <2>2 DEF RunInv
<1>10. \A q \in Run : /\ run'[q].job = run[q].job /\ run'[q].user = run[q].user
                     /\ run'[q].cancelled = run[q].cancelled /\ run'[q].begin = run[q].begin
  BY <1>4
<1>11. LookInv'
  <2>1. hook.look.run # NoRun => hook.look.run \in Run
    BY <1>0 DEF Hook, Look
  <2> QED BY <1>1, <1>10, <2>1 DEF ClientInv, LookInv, Current
<1>12. HookInv'
  BY <1>1, <1>10 DEF ClientInv, HookInv, NeverStranded, StillAbout
<1>13. LocatorInv' /\ NoOrphan'
  BY <1>0, <1>1, <1>6, <1>10 DEF ClientInv, LocatorInv, NoOrphan, Live, Hook
<1>14. FreshInv'
  <2>1. \A n \in net' : n \in net \/ (n.op # "create" /\ n.job = run[r].job)
    BY <1>5, <1>6 DEF CleanupOp
  <2>2. \A j \in Job : Named(j)' => Named(j)
    BY <1>1, <1>10, <2>1 DEF Named
  <2> QED BY <1>1, <2>1, <2>2, FreshStep
<1>15. SettledInv'
  <2>1. \A j : Mutated(j)' <=> Mutated(j)
    BY <1>10 DEF Mutated
  <2> QED BY <1>0, <1>1, <1>10, <2>1 DEF ClientInv, SettledInv, Hook
<1> QED BY <1>7, <1>8, <1>9, <1>11, <1>12, <1>13, <1>14, <1>15 DEF ClientInv

\* The request of a cleanup is answered or fails.
LEMMA CleanupEndsStep ==
    ASSUME ClientInv, NEW r \in Run, NEW m \in net, CleanupEnds(r, m), UNCHANGED left
    PROVE  ClientInv'
<1>0. Types /\ ClientTypeOK /\ hook \in Hook /\ run[r] \in RunObject /\ RunOK(r)
  BY TypesOK, RunStatesAre DEF Types, ClientInv, RunInv
<1>1. /\ Answered(m, "clean", r) /\ run' = [run EXCEPT ![r].clean = "done"]
      /\ locator' = After(m.what, m.job) /\ net' = net \ {m}
      /\ UNCHANGED <<srv, hook, known, asked, left>>
  BY DEF CleanupEnds, history
<1>2. /\ m.from = "clean" /\ m.run = r /\ Awaited(m) /\ run[r].clean = m.op
      /\ m.op \in {"cancel", "clear"} /\ (m.what \in {"expired", "cleared"} => srv[m.job] = "gone")
      /\ m.job \in Job
  BY <1>1, MessageIs, ClientAssumption DEF Answered, Awaited, Proper, Request
<1>3. locator' = locator \/ (locator' = NoJob /\ locator = m.job /\ srv[m.job] = "gone")
  BY <1>1, <1>2 DEF After, Without
<1>4. /\ /\ \A q \in Run \ {r} : run'[q] = run[q]
         /\ run'[r].job = run[r].job /\ run'[r].state = run[r].state
         /\ run'[r].begin = run[r].begin /\ run'[r].user = run[r].user
         /\ run'[r].clean = "done" /\ run'[r].cancelled = run[r].cancelled
         /\ run'[r].secret = run[r].secret /\ run'[r].keep = run[r].keep
         /\ run' \in [Run -> RunObject]
  BY <1>0, <1>1 DEF Types, RunObject
<1>7. ClientTypeOK'
  BY <1>0, <1>1, <1>3, <1>4 DEF ClientTypeOK
<1>8. NetInv'
  <2>1. hook'.active \in {hook.active, NoRun} /\ hook'.look = hook.look
    BY <1>1
  <2> QED BY <1>1, <1>2, <1>4, <2>1, AnswerGone
<1>9. RunInv'
  <2>1. ASSUME NEW q \in Run PROVE RunOK(q)'
    <3>1. CASE q = r
      BY <1>0, <1>1, <1>2, <1>4, <3>1 DEF RunOK, Current
    <3>2. CASE q # r
      BY <1>1, <1>4, <3>2 DEF ClientInv, RunInv, RunOK, Current
    <3> QED BY <3>1, <3>2
  <2>2. ASSUME hook.active # NoRun PROVE CurrentOK(hook.active)'
    <3>1. hook.active \in Run /\ CurrentOK(hook.active)
      BY <1>0, <2>2 DEF ClientInv, RunInv, Hook
    <3>2. /\ run'[hook.active].job = run[hook.active].job /\ run'[hook.active].state = run[hook.active].state
          /\ run'[hook.active].begin = run[hook.active].begin /\ run'[hook.active].user = run[hook.active].user
          /\ run'[hook.active].cancelled = run[hook.active].cancelled
      BY <1>4, <3>1
    <3> QED BY <1>1, <1>3, <3>1, <3>2 DEF CurrentOK
  <2> QED BY <1>1, <2>1, <2>2 DEF RunInv
<1>10. \A q \in Run : /\ run'[q].job = run[q].job /\ run'[q].user = run[q].user
                     /\ run'[q].cancelled = run[q].cancelled /\ run'[q].begin = run[q].begin
  BY <1>4
<1>11. LookInv'
  <2>1. hook.look.run # NoRun => hook.look.run \in Run
    BY <1>0 DEF Hook, Look
  <2> QED BY <1>1, <1>10, <2>1 DEF ClientInv, LookInv, Current
<1>12. HookInv'
  BY <1>1, <1>10 DEF ClientInv, HookInv, NeverStranded, StillAbout
<1>13. LocatorInv' /\ NoOrphan'
  BY <1>0, <1>1, <1>3, <1>10 DEF ClientInv, LocatorInv, NoOrphan, Live, Hook
<1>14. FreshInv'
  <2>2. \A j \in Job : Named(j)' => Named(j)
    BY <1>1, <1>3, <1>10, ClientAssumption DEF Named
  <2> QED BY <1>1, <2>2, FreshStep
<1>15. SettledInv'
  <2>1. \A j : Mutated(j)' <=> Mutated(j)
    BY <1>10 DEF Mutated
  <2> QED BY <1>0, <1>1, <1>10, <2>1 DEF ClientInv, SettledInv, Hook
<1> QED BY <1>7, <1>8, <1>9, <1>11, <1>12, <1>13, <1>14, <1>15 DEF ClientInv

\* What the service or the connection makes of the messages.
LEMMA AnswerIs ==
    ASSUME ClientInv, NEW m \in net, NEW what \in Shown \cup {"sent", "expired", "cleared", "error"},
           NEW j \in Job \cup {NoJob}, Answer(m, what, j)
    PROVE  /\ \E new \in Request :
                 /\ new.from = m.from /\ new.run = m.run /\ new.op = m.op
                 /\ new.what = what /\ new.job = j
                 /\ \A n \in net' : (n \in net /\ n # m) \/ (n = new /\ Awaited(m))
           /\ UNCHANGED <<locator, hook, run, known, asked>>
<1>1. m \in Request
  BY MessageIs
<1>2. PICK new \in Request : new = [m EXCEPT !.what = what, !.job = j]
  BY <1>1 DEF Request
<1>3. new.from = m.from /\ new.run = m.run /\ new.op = m.op /\ new.what = what /\ new.job = j
  BY <1>1, <1>2 DEF Request
<1>4. net' = (net \ {m}) \cup {[a EXCEPT !.what = what, !.job = j] : a \in {i \in {m} : Awaited(i)}}
      /\ UNCHANGED <<locator, hook, run, known, asked>>
  BY DEF Answer, history
<1>5. \A n \in net' : (n \in net /\ n # m) \/ (n = new /\ Awaited(m))
  BY <1>2, <1>4
<1> QED BY <1>2, <1>3, <1>4, <1>5

\* A step at the service: a job that is gone stays so, what has no name gets none, and the
\* page is as it was.
LEMMA ServiceKeeps ==
    ASSUME ClientInv, srv' \in [Job -> Shown \cup {"none", "gone"}],
           \A j \in Job : srv[j] = "gone" => srv'[j] = "gone",
           \A j \in Job : srv[j] # "none" => srv'[j] # "none",
           \A j \in known : srv[j] # "none",
           net' \subseteq Request,
           hook.look.step # "status" => \A n \in net' : n.from # "look",
           UNCHANGED <<locator, hook, run, known, asked, left>>,
           NetInv', FreshInv'
    PROVE  ClientInv'
<1>0. ClientTypeOK /\ Types
  BY TypesOK
<1>1. ClientTypeOK'
  BY <1>0 DEF ClientTypeOK
<1>2. RunInv'
  <2>1. \A q \in Run : RunOK(q)'
    BY DEF ClientInv, RunInv, RunOK, Current
  <2>2. hook.active # NoRun => CurrentOK(hook.active)'
    <3>1. hook.active # NoRun => run[hook.active].job \in Job \cup {NoJob}
      BY <1>0 DEF Types, Hook, RunObject
    <3> QED BY <3>1 DEF ClientInv, RunInv, CurrentOK
  <2> QED BY <2>1, <2>2 DEF RunInv
<1>3. LookInv' /\ HookInv' /\ SettledInv'
  BY DEF ClientInv, LookInv, HookInv, SettledInv, NeverStranded, StillAbout, Current, Mutated
<1>4. LocatorInv'
  <2>1. locator \in Job \cup {NoJob}
    BY <1>0 DEF Types
  <2> QED BY <2>1 DEF ClientInv, LocatorInv
<1>5. NoOrphan'
  <2>1. \A j \in known' \cap Live' : j \in known \cap Live
    BY <1>0 DEF Live, Types
  <2> QED BY <2>1 DEF ClientInv, NoOrphan
<1> QED BY <1>1, <1>2, <1>3, <1>4, <1>5 DEF ClientInv
\* A job whose reservation was learnt of exists.
KnownInv == \A j \in known : srv[j] # "none"

\* The messages after m was answered with new, or dropped.
LEMMA AnswerStep ==
    ASSUME ClientInv, NEW m \in net, NEW new,
           new.from = m.from, new.run = m.run, new.op = m.op,
           new.job = m.job \/ m.op = "create",
           \A j \in Job : srv[j] = "gone" => srv'[j] = "gone",
           \A n \in net' : (n \in net /\ n # m) \/ (n = new /\ Awaited(m)),
           Awaited(m) => Proper(new)',
           UNCHANGED <<hook, run>>
    PROVE  NetInv'
<1>1. \A n \in net : Proper(n) /\ About(n) /\ n \in Request
  BY MessageIs
<1>2. ASSUME NEW n \in net PROVE About(n)'
  BY <1>1 DEF About, Awaited, LeftBehind, Current
<1>3. Awaited(m) => About(new)'
  BY <1>1 DEF About, Awaited, Current, Proper
<1>4. CASE new \in net' /\ Awaited(m)
  <2>1. \A n \in net' : n.from = new.from /\ n.run = new.run => n = new
    BY DEF ClientInv, NetInv
  <2> QED BY <1>2, <1>3, <1>4, <2>1, NetStep
<1>5. CASE ~(new \in net' /\ Awaited(m))
  <2>1. net' \subseteq net
    BY <1>5
  <2> QED BY <1>2, <2>1, NetShrinks
<1> QED BY <1>4, <1>5

\* No status is asked for out of turn.
LEMMA NoOtherLook ==
    ASSUME ClientInv, NEW m \in net, NEW new, new.from = m.from,
           \A n \in net' : (n \in net /\ n # m) \/ n = new,
           UNCHANGED hook
    PROVE  hook.look.step # "status" => \A n \in net' : n.from # "look"
  BY DEF ClientInv, ClientTypeOK

\* The service reserves a job that nobody has named yet.
LEMMA ReservesStep ==
    ASSUME ClientInv, KnownInv, NEW m \in net, m.what = "sent", Reserves(m), UNCHANGED left
    PROVE  ClientInv'
<1>0. Types /\ Proper(m) /\ m \in Request
  BY TypesOK, MessageIs
<1>1. PICK j \in Job : /\ m.op = "create" /\ srv[j] = "none"
                       /\ srv' = [srv EXCEPT ![j] = "waiting"]
                       /\ Answer(m, "waiting", j)
  BY DEF Reserves
<1>2. "waiting" \in Shown \cup {"sent", "expired", "cleared", "error"}
  BY DEF Shown
<1>3. PICK new \in Request :
         /\ new.from = m.from /\ new.run = m.run /\ new.op = m.op
         /\ new.what = "waiting" /\ new.job = j
         /\ \A n \in net' : (n \in net /\ n # m) \/ (n = new /\ Awaited(m))
  BY <1>1, <1>2, AnswerIs
<1>4. UNCHANGED <<locator, hook, run, known, asked, left>>
  BY <1>1, <1>2, AnswerIs
<1>5. srv'[j] = "waiting" /\ (\A i \in Job \ {j} : srv'[i] = srv[i])
      /\ srv' \in [Job -> Shown \cup {"none", "gone"}]
  BY <1>0, <1>1, <1>2 DEF Types, Shown
<1>6. Proper(new)'
  BY <1>0, <1>1, <1>3, ClientAssumption DEF Proper
<1>7. NetInv'
  BY <1>1, <1>3, <1>4, <1>5, <1>6, AnswerStep
<1>8. FreshInv'
  <2>1. \A i \in Job : Named(i)' => Named(i)
    BY <1>1, <1>3, <1>4 DEF Named
  <2>2. ~Named(j) /\ \A n \in net : n.op = "create" => n.job # j
    BY <1>1, ClientAssumption DEF ClientInv, FreshInv, Made
  <2>3. \A n \in net' : Made(n)' => (Made(n) /\ n # m /\ n.job # j) \/ n = new
    BY <1>3, <2>2 DEF Made
  <2>4. \A n \in net : n.job \in Job \cup {NoJob}
    BY MessageIs DEF Request
  <2>5. \A i \in Job : Named(i)' => srv'[i] # "none"
    BY <1>5, <2>1 DEF ClientInv, FreshInv
  <2>6. \A n \in net' : Made(n)' => srv'[n.job] # "none" /\ ~Named(n.job)'
    BY <1>3, <1>5, <2>1, <2>2, <2>3, <2>4 DEF ClientInv, FreshInv, Made
  <2>7. \A n, k \in net' : Made(n)' /\ Made(k)' /\ n.job = k.job => n = k
    BY <1>3, <2>3 DEF ClientInv, FreshInv
  <2> QED BY <2>5, <2>6, <2>7 DEF FreshInv, Made
<1>9. hook.look.step # "status" => \A n \in net' : n.from # "look"
  BY <1>3, <1>4, NoOtherLook
<1>10. net' \subseteq Request
  BY <1>0, <1>3 DEF Types
<1> QED BY <1>1, <1>4, <1>5, <1>7, <1>8, <1>9, <1>10, ServiceKeeps DEF KnownInv

\* The service does what a request asks and answers it.
LEMMA DoesStep ==
    ASSUME ClientInv, KnownInv, NEW m \in net, m.what = "sent", Does(m), UNCHANGED left
    PROVE  ClientInv'
<1> DEFINE s == srv[m.job]
           w == IF s = "gone" /\ m.op # "clear" THEN "expired"
                ELSE IF Refuses(m.op, s) THEN "error"
                ELSE IF m.op = "clear" THEN "cleared" ELSE Served(m.op, s)
<1>0. Types /\ Proper(m) /\ m \in Request
  BY TypesOK, MessageIs
<1>1. /\ m.op # "create"
      /\ srv' = [srv EXCEPT ![m.job] = Served(m.op, s)]
      /\ Answer(m, w, m.job)
  BY DEF Does
<1>2. m.job \in Job
  BY <1>0, <1>1, ClientAssumption DEF Proper, Request
<1>3. s \in Shown \cup {"gone"}
  <2>1. Named(m.job)
    BY <1>1 DEF Named
  <2> QED BY <1>0, <1>2, <2>1 DEF Types, ClientInv, FreshInv
<1>4. Served(m.op, s) \in Shown \cup {"gone"} /\ (s = "gone" => Served(m.op, s) = "gone")
  BY <1>3 DEF Served, Shown
<1>5. /\ w \in Shown \cup {"sent", "expired", "cleared", "error"}
      /\ w # "sent"
      /\ w \in {"expired", "cleared"} => Served(m.op, s) = "gone"
      /\ m.op = "upload" => w \in {"waiting", "expired", "error"}
      /\ m.op = "clear" <=> w \in {"cleared"} \/ (m.op = "clear" /\ w = "error")
  <2>1. CASE s = "gone"
    BY <2>1, <1>4 DEF Refuses, Served
  <2>2. CASE s # "gone" /\ Refuses(m.op, s)
    BY <2>2
  <2>3. CASE s # "gone" /\ ~Refuses(m.op, s)
    BY <1>3, <1>4, <2>3 DEF Refuses, Served, Shown
  <2> QED BY <2>1, <2>2, <2>3
<1> HIDE DEF w, s
<1>15. w \in Shown \cup {"sent", "expired", "cleared", "error"} /\ m.job \in Job \cup {NoJob}
  BY <1>2, <1>5
<1>6. PICK new \in Request :
         /\ new.from = m.from /\ new.run = m.run /\ new.op = m.op
         /\ new.what = w /\ new.job = m.job
         /\ \A n \in net' : (n \in net /\ n # m) \/ (n = new /\ Awaited(m))
  BY <1>1, <1>15, AnswerIs
<1>7. UNCHANGED <<locator, hook, run, known, asked, left>>
  BY <1>1, <1>15, AnswerIs
<1>8. srv'[m.job] = Served(m.op, s) /\ (\A i \in Job \ {m.job} : srv'[i] = srv[i])
      /\ srv' \in [Job -> Shown \cup {"none", "gone"}]
  BY <1>0, <1>1, <1>2, <1>4 DEF Types, Shown
<1>9. \A j \in Job : /\ srv[j] = "gone" => srv'[j] = "gone"
                     /\ srv[j] # "none" => srv'[j] # "none"
  BY <1>4, <1>8 DEF s, Shown
<1>10. Proper(new)'
  BY <1>0, <1>1, <1>2, <1>5, <1>6, <1>8, ClientAssumption DEF Proper
<1>11. NetInv'
  BY <1>6, <1>7, <1>9, <1>10, AnswerStep
<1>12. FreshInv'
  <2>1. \A j \in Job : Named(j)' => Named(j)
    BY <1>1, <1>6, <1>7 DEF Named
  <2>2. \A n \in net' : n.op = "create" /\ n.job # NoJob => n \in net
    BY <1>1, <1>6
  <2> QED BY <1>9, <2>1, <2>2, FreshStep
<1>13. hook.look.step # "status" => \A n \in net' : n.from # "look"
  BY <1>6, <1>7, NoOtherLook
<1>14. net' \subseteq Request
  BY <1>0, <1>6 DEF Types
<1> QED BY <1>7, <1>8, <1>9, <1>11, <1>12, <1>13, <1>14, ServiceKeeps DEF KnownInv

\* A request or its answer is lost.
LEMMA LosesStep ==
    ASSUME ClientInv, KnownInv, NEW m \in net, m.what = "sent", Loses(m), UNCHANGED left
    PROVE  ClientInv'
<1>0. Types /\ Proper(m) /\ m \in Request /\ m.job \in Job \cup {NoJob}
  BY TypesOK, MessageIs DEF Request
<1>1. Answer(m, "error", m.job) /\ srv' = srv
  BY DEF Loses
<1>5. "error" \in Shown \cup {"sent", "expired", "cleared", "error"}
  OBVIOUS
<1>6. PICK new \in Request :
         /\ new.from = m.from /\ new.run = m.run /\ new.op = m.op
         /\ new.what = "error" /\ new.job = m.job
         /\ \A n \in net' : (n \in net /\ n # m) \/ (n = new /\ Awaited(m))
  BY <1>0, <1>1, <1>5, AnswerIs
<1>7. UNCHANGED <<locator, hook, run, known, asked, left>>
  BY <1>0, <1>1, <1>5, AnswerIs
<1>10. Proper(new)'
  BY <1>0, <1>1, <1>6 DEF Proper
<1>11. NetInv'
  BY <1>1, <1>6, <1>7, <1>10, AnswerStep
<1>12. FreshInv'
  <2>1. \A j \in Job : Named(j)' => Named(j)
    BY <1>6, <1>7 DEF Named
  <2>2. \A n \in net' : n.op = "create" /\ n.job # NoJob => n \in net
    BY <1>0, <1>6 DEF Proper
  <2> QED BY <1>1, <2>1, <2>2, FreshStep
<1>13. hook.look.step # "status" => \A n \in net' : n.from # "look"
  BY <1>6, <1>7, NoOtherLook
<1>14. net' \subseteq Request
  BY <1>0, <1>6 DEF Types
<1> QED BY <1>0, <1>1, <1>7, <1>11, <1>12, <1>13, <1>14, ServiceKeeps DEF KnownInv, Types

\* The service goes on by itself with a live job.
LEMMA AdvanceStep ==
    ASSUME ClientInv, KnownInv, NEW j \in Job, Advance(j), UNCHANGED left
    PROVE  ClientInv'
<1>0. Types
  BY TypesOK
<1>1. PICK s \in {"terminal", "gone"} : srv' = [srv EXCEPT ![j] = s]
  BY DEF Advance
<1>2. j \in Live /\ UNCHANGED <<net, locator, hook, run, known, asked, left>>
  BY DEF Advance, history
<1>3. srv' \in [Job -> Shown \cup {"none", "gone"}]
      /\ \A i \in Job : /\ srv[i] = "gone" => srv'[i] = "gone"
                        /\ srv[i] # "none" => srv'[i] # "none"
  BY <1>0, <1>1, <1>2 DEF Types, Shown, Live
<1>4. ASSUME NEW m \in net' PROVE About(m)'
  <2>1. m \in net /\ About(m)
    BY <1>2, MessageIs
  <2> QED BY <1>2, <2>1 DEF About, Awaited, LeftBehind, Current
<1>5. NetInv'
  BY <1>2, <1>3, <1>4, NetShrinks
<1>6. FreshInv'
  <2>1. \A i \in Job : Named(i)' => Named(i)
    BY <1>2 DEF Named
  <2> QED BY <1>2, <1>3, <2>1, FreshStep
<1>7. net' \subseteq Request /\ (hook.look.step # "status" => \A n \in net' : n.from # "look")
  BY <1>0, <1>2 DEF Types, ClientInv, ClientTypeOK
<1> QED BY <1>2, <1>3, <1>5, <1>6, <1>7, ServiceKeeps DEF KnownInv

\* Every function of the page that goes on with an answer.
LEMMA ResumesStep ==
    ASSUME ClientInv, NEW r \in Run, NEW m \in net, Resumes(r, m), UNCHANGED left
    PROVE  ClientInv'
  BY ReservedStep, UploadedStep, StartedStep, LateCancelledStep, StartFailsStep, CancelledStep,
     ClearedStep, NotClearedStep, CleanupEndsStep DEF Resumes

\* Every step of the user.
LEMMA UserStepKeeps ==
    ASSUME ClientInv, UserStep, UNCHANGED left
    PROVE  ClientInv'
  BY StartStep, CancelStep, ClearStep, RetryStep, PageShowStep, MountStep, ReloadStep,
     StorageClearedStep DEF UserStep

\* Every step of the page.
LEMMA PageStepKeeps ==
    ASSUME ClientInv, PageStep, UNCHANGED left
    PROVE  ClientInv'
  BY AbortsStep, CleanupGoesOnStep, ResumesStep, LookFailsStep, LookIsLateStep, AttachedStep,
     LookGoesOnStep, RestoreStep DEF PageStep, LookReturns

\* Every step of the service.
LEMMA ServiceStepKeeps ==
    ASSUME ClientInv, KnownInv, ServiceStep, UNCHANGED left
    PROVE  ClientInv'
  BY ReservesStep, DoesStep, LosesStep, AdvanceStep DEF ServiceStep, Serve

\* Nothing happens.
LEMMA ClientStutters ==
    ASSUME ClientInv, KnownInv, UNCHANGED clientVars
    PROVE  ClientInv' /\ KnownInv'
<1>1. \A m : Proper(m)' <=> Proper(m)
  BY DEF clientVars, Proper
<1>2. \A m : About(m)' <=> About(m)
  BY DEF clientVars, About, Awaited, LeftBehind, Current
<1>3. NetInv'
  BY <1>1, <1>2 DEF clientVars, ClientInv, NetInv
<1>4. RunInv'
  BY DEF clientVars, ClientInv, RunInv, RunOK, CurrentOK, Current
<1>5. LookInv' /\ HookInv' /\ LocatorInv' /\ SettledInv' /\ NoOrphan'
  BY DEF clientVars, ClientInv, LookInv, HookInv, LocatorInv, SettledInv, NoOrphan, Live,
     NeverStranded,
         StillAbout, Mutated, Current
<1>6. FreshInv'
  BY DEF clientVars, ClientInv, FreshInv, Named, Made
<1>7. ClientTypeOK' /\ KnownInv'
  BY DEF clientVars, ClientInv, ClientTypeOK, KnownInv
<1> QED BY <1>3, <1>4, <1>5, <1>6, <1>7 DEF ClientInv

\* No action but the service's changes what the service knows of the jobs.
LEMMA OnlyServiceServes ==
    ASSUME [ClientNext]_clientVars
    PROVE  UNCHANGED srv \/ ServiceStep
<1>1. CASE UserStep
  <2>1. UserStep => srv' = srv
    <3>1. \A r \in Run : (Start(r) => srv' = srv) /\ (Cancel(r) => srv' = srv) /\ (Clear(r) => srv' = srv)
      BY DEF Start, Cancel, Clear
    <3>2. Retry \/ PageShow \/ Mount \/ Reload \/ StorageCleared => srv' = srv
      BY DEF Retry, PageShow, Mount, Reload, StorageCleared
    <3> QED BY <3>1, <3>2 DEF UserStep
  <2> QED BY <1>1, <2>1
<1>2. CASE PageStep
  <2>1. \A r \in Run, m \in net :
           /\ Uploaded(r, m) => srv' = srv
           /\ Started(r, m) => srv' = srv
           /\ LateCancelled(r, m) => srv' = srv
           /\ StartFails(r, m) => srv' = srv
           /\ Cancelled(r, m) => srv' = srv
           /\ Cleared(r, m) => srv' = srv
           /\ NotCleared(r, m) => srv' = srv
           /\ CleanupEnds(r, m) => srv' = srv
    BY DEF Uploaded, Started, LateCancelled, StartFails, Cancelled, Cleared, NotCleared,
       CleanupEnds
  <2>2. \A r \in Run : (Aborts(r) => srv' = srv) /\ (CleanupGoesOn(r) => srv' = srv)
    BY DEF Aborts, CleanupGoesOn
  <2>3. \A m \in net : (LookFails(m) => srv' = srv) /\ (LookIsLate(m) => srv' = srv)
    BY DEF LookFails, LookIsLate
  <2>4. LookGoesOn \/ Restore => srv' = srv
    BY DEF LookGoesOn, Restore
  <2>5. \A r \in Run, m \in net : Reserved(r, m) => srv' = srv
    BY DEF Reserved
  <2>6. \A r \in Run, m \in net : Attached(r, m) => srv' = srv
    BY DEF Attached
  <2> QED BY <1>2, <2>1, <2>2, <2>3, <2>4, <2>5, <2>6 DEF PageStep, Resumes, LookReturns
<1>3. CASE Poll
  BY <1>3 DEF Poll
<1>4. CASE Leave
  BY <1>4 DEF Leave, PageHide, Unmount
<1>5. CASE UNCHANGED clientVars
  BY <1>5 DEF clientVars
<1> QED BY <1>1, <1>2, <1>3, <1>4, <1>5 DEF ClientNext

\* The service forgets no job and never takes back that one is gone.
LEMMA ServiceRemembers ==
    ASSUME ClientInv, [ClientNext]_clientVars
    PROVE  \A j \in Job : /\ srv[j] = "gone" => srv'[j] = "gone"
                          /\ srv[j] # "none" => srv'[j] # "none"
<1>0. Types
  BY TypesOK
<1>1. ASSUME NEW m \in net, Reserves(m)
      PROVE  \A j \in Job : /\ srv[j] = "gone" => srv'[j] = "gone"
                            /\ srv[j] # "none" => srv'[j] # "none"
  BY <1>0, <1>1 DEF Reserves, Types
<1>2. ASSUME NEW m \in net, Does(m)
      PROVE  \A j \in Job : /\ srv[j] = "gone" => srv'[j] = "gone"
                            /\ srv[j] # "none" => srv'[j] # "none"
  <2>1. srv' = [srv EXCEPT ![m.job] = Served(m.op, srv[m.job])]
    BY <1>2 DEF Does
  <2>2. /\ Served(m.op, "gone") = "gone"
        /\ srv[m.job] # "none" => Served(m.op, srv[m.job]) # "none"
    BY DEF Served
  <2> QED BY <1>0, <2>1, <2>2 DEF Types
<1>3. ASSUME NEW m \in net, Serve(m)
      PROVE  \A j \in Job : /\ srv[j] = "gone" => srv'[j] = "gone"
                            /\ srv[j] # "none" => srv'[j] # "none"
  BY <1>1, <1>2, <1>3 DEF Serve, Loses
<1>4. ASSUME NEW i \in Job, Advance(i)
      PROVE  \A j \in Job : /\ srv[j] = "gone" => srv'[j] = "gone"
                            /\ srv[j] # "none" => srv'[j] # "none"
  BY <1>0, <1>4 DEF Advance, Live, Types
<1>5. CASE ServiceStep
  BY <1>3, <1>4, <1>5 DEF ServiceStep
<1> QED BY <1>5, OnlyServiceServes

\* The page learns only of jobs that exist.
LEMMA KnownStep ==
    ASSUME ClientInv, KnownInv, [ClientNext]_clientVars
    PROVE  KnownInv'
<1>0. Types
  BY TypesOK
<1>1. ASSUME NEW r \in Run, NEW m \in net, Reserved(r, m) PROVE KnownInv'
  <2>1. /\ Answered(m, "begin", r) /\ m.op = "create" /\ m.what = "waiting"
        /\ known' = known \cup {m.job} /\ srv' = srv
    BY <1>1 DEF Reserved
  <2>2. srv[m.job] # "none"
    BY <2>1, CreatedIs
  <2> QED BY <2>1, <2>2 DEF KnownInv
<1>2. ASSUME NEW r \in Run, NEW m \in net, Attached(r, m) PROVE KnownInv'
  <2>1. m.from = "look" /\ known' = known \cup {m.job} /\ srv' = srv
    BY <1>2 DEF Attached
  <2>2. m.job \in Job /\ Named(m.job)
    BY <2>1, LookMessage DEF Named
  <2> QED BY <2>1, <2>2 DEF KnownInv, ClientInv, FreshInv
<1>3. known' = known \/ \E r \in Run, m \in net : Reserved(r, m) \/ Attached(r, m)
  <2>1. CASE ServiceStep
    BY <2>1 DEF ServiceStep, Serve, Reserves, Does, Loses, Answer, Advance, history
  <2>2. CASE UserStep
    <3>1. \A r \in Run : /\ Start(r) => known' = known
                         /\ Cancel(r) => known' = known
                         /\ Clear(r) => known' = known
      BY DEF Start, Cancel, Clear, history
    <3>2. Retry \/ PageShow \/ Mount \/ Reload \/ StorageCleared => known' = known
      BY DEF Retry, PageShow, Mount, Reload, StorageCleared, history
    <3> QED BY <2>2, <3>1, <3>2 DEF UserStep
  <2>3. CASE PageStep
    <3>1. \A r \in Run, m \in net :
             /\ Uploaded(r, m) => known' = known
             /\ Started(r, m) => known' = known
             /\ LateCancelled(r, m) => known' = known
             /\ StartFails(r, m) => known' = known
             /\ Cancelled(r, m) => known' = known
             /\ Cleared(r, m) => known' = known
             /\ NotCleared(r, m) => known' = known
             /\ CleanupEnds(r, m) => known' = known
      BY DEF Uploaded, Started, LateCancelled, StartFails, Cancelled, Cleared, NotCleared,
       CleanupEnds, history
    <3>2. \A r \in Run : (Aborts(r) => known' = known) /\ (CleanupGoesOn(r) => known' = known)
      BY DEF Aborts, CleanupGoesOn, history
    <3>3. \A m \in net : (LookFails(m) => known' = known) /\ (LookIsLate(m) => known' = known)
      BY DEF LookFails, LookIsLate, history
    <3>4. LookGoesOn \/ Restore => known' = known
      BY DEF LookGoesOn, Restore, history
    <3> QED BY <2>3, <3>1, <3>2, <3>3, <3>4 DEF PageStep, Resumes, LookReturns
  <2>4. CASE Poll
    BY <2>4 DEF Poll, history
  <2>5. CASE Leave
    BY <2>5 DEF Leave, PageHide, Unmount
  <2>6. CASE UNCHANGED clientVars
    BY <2>6 DEF clientVars
  <2> QED BY <2>1, <2>2, <2>3, <2>4, <2>5, <2>6 DEF ClientNext
<1>4. known \subseteq Job /\ \A j \in Job : srv[j] # "none" => srv'[j] # "none"
  BY <1>0, ServiceRemembers DEF Types
<1> QED BY <1>1, <1>2, <1>3, <1>4 DEF KnownInv

\* The page as it is opened.
LEMMA ClientStarts == ClientInit => ClientInv /\ KnownInv
<1> SUFFICES ASSUME ClientInit PROVE ClientInv /\ KnownInv
  OBVIOUS
<1>1. /\ srv = [j \in Job |-> "none"] /\ net = {} /\ locator = NoJob /\ hook = Unmounted
      /\ run = [r \in Run |-> NoObject] /\ left = [page |-> 0, view |-> 0]
      /\ known = {} /\ asked = {}
  BY DEF ClientInit
<1>2. /\ ~hook.mounted /\ ~hook.hidden /\ hook.active = NoRun /\ hook.pendingId = NoJob
      /\ hook.look = NoLook /\ hook.restore = "none" /\ ~hook.restoring /\ ~hook.recoveryPending
      /\ hook \in Hook
  BY <1>1, LookIs DEF Unmounted, Hook
<1>3. NoLook.run = NoRun /\ NoLook.job = NoJob /\ NoLook.step = "none"
  BY DEF NoLook
<1>4. \A r \in Run : run[r] = NoObject
  BY <1>1
<1>5. ClientTypeOK
  BY <1>1, <1>2, NoObjectIs, ClientAssumption DEF ClientTypeOK
<1>6. NetInv /\ LocatorInv /\ NoOrphan /\ KnownInv
  BY <1>1, <1>2 DEF NetInv, LocatorInv, NoOrphan, KnownInv
<1>7. RunInv
  BY <1>2, <1>4, NoObjectIs DEF RunInv, RunOK
<1>8. LookInv /\ HookInv /\ SettledInv
  BY <1>2, <1>3, ClientAssumption DEF LookInv, HookInv, SettledInv, NeverStranded
<1>9. FreshInv
  BY <1>1, <1>2, <1>3, <1>4, NoObjectIs, ClientAssumption DEF FreshInv, Named, Made
<1> QED BY <1>5, <1>6, <1>7, <1>8, <1>9 DEF ClientInv

\* The state that ClientInv and KnownInv describe is the only one the page gets into
\* (useLargeFileJob.ts).
THEOREM ClientInvariant == ClientSpec => [](ClientInv /\ KnownInv)
<1>1. ClientInv /\ KnownInv /\ [ClientNext]_clientVars => (ClientInv /\ KnownInv)'
  <2> SUFFICES ASSUME ClientInv, KnownInv, [ClientNext]_clientVars PROVE ClientInv' /\ KnownInv'
    OBVIOUS
  <2>1. CASE UserStep /\ UNCHANGED left
    BY <2>1, UserStepKeeps, KnownStep
  <2>2. CASE PageStep /\ UNCHANGED left
    BY <2>2, PageStepKeeps, KnownStep
  <2>3. CASE Poll /\ UNCHANGED left
    BY <2>3, PollStep, KnownStep
  <2>4. CASE ServiceStep /\ UNCHANGED left
    BY <2>4, ServiceStepKeeps, KnownStep
  <2>5. CASE Leave
    BY <2>5, PageHideStep, UnmountStep, KnownStep DEF Leave
  <2>6. CASE UNCHANGED clientVars
    BY <2>6, ClientStutters
  <2> QED BY <2>1, <2>2, <2>3, <2>4, <2>5, <2>6 DEF ClientNext
<1> QED BY <1>1, ClientStarts, PTL DEF ClientSpec

\* The page, its objects, its requests and the service's jobs keep their types
\* (useLargeFileJob.ts:16-67).
THEOREM ClientTypes == ClientSpec => []ClientTypeOK
  BY ClientInvariant, PTL DEF ClientInv

\* Whatever the user does and whichever answers are lost or late, a job the tab learnt of is
\* in its hands, can be found by its stored ID, is gone, or was asked to end
\* (useLargeFileJob.ts:133-157, 237-243).
THEOREM ClientNoOrphan == ClientSpec => []NoOrphan
  BY ClientInvariant, PTL DEF ClientInv

\* Key and password are held by the current run only, on a page that is shown, and only
\* until the upload is answered (useLargeFileJob.ts:139, 259, 273, 288).
THEOREM ClientCredentialsShortLived == ClientSpec => []CredentialsShortLived
<1>1. ClientInv => CredentialsShortLived
  <2> SUFFICES ASSUME ClientInv, NEW r \in Run, run[r].secret
               PROVE  /\ Current(r) /\ ~hook.hidden /\ ~run[r].cancelled
                      /\ run[r].begin \in {"create", "upload"}
    BY DEF CredentialsShortLived
  <2>1. Current(r) /\ ~run[r].cancelled /\ run[r].begin \in {"create", "upload"}
    BY DEF ClientInv, RunInv, RunOK
  <2>2. CurrentOK(r)
    BY <2>1, ClientAssumption DEF ClientInv, RunInv, Current
  <2> QED BY <2>1, <2>2 DEF CurrentOK
<1> QED BY <1>1, ClientInvariant, PTL

\* A job that is shown as settled is not about to be cancelled or cleared by an earlier
\* request of the user's, whatever view it was made in (useLargeFileJob.ts:21, 97-99, 173).
THEOREM ClientSettledIsUntouched == ClientSpec => []SettledIsUntouched
<1>1. ClientInv => SettledIsUntouched
  <2> SUFFICES ASSUME ClientInv, NEW r \in Run, Current(r), run[r].job # NoJob, ~Locked,
                      NEW q \in Run, run[q].job = run[r].job, run[q].user # "none"
               PROVE  FALSE
    BY DEF SettledIsUntouched, Mutated
  <2>1. hook.active = r /\ hook.active # NoRun /\ CurrentOK(r)
    BY ClientAssumption DEF ClientInv, RunInv, Current
  <2>2. CASE q = r
    BY <2>1, <2>2 DEF CurrentOK, Locked
  <2>3. CASE q # r
    BY <2>1, <2>3 DEF ClientInv, SettledInv
  <2> QED BY <2>2, <2>3
<1> QED BY <1>1, ClientInvariant, PTL

\* A view that restores or awaits a status has a function at work on that, or the retry
\* button (useLargeFileJob.ts:118-125, 169-183).
THEOREM ClientNeverStranded == ClientSpec => []NeverStranded
<1>1. ClientInv => NeverStranded
  BY DEF ClientInv, HookInv
<1> QED BY <1>1, ClientInvariant, PTL

\* An answer that says that its job is gone takes away that job's ID only.
LEMMA AfterKeeps ==
    ASSUME ClientInv, NEW m \in net, locator' = After(m.what, m.job), locator' # locator,
           locator # NoJob
    PROVE  srv[locator] = "gone"
  BY MessageIs DEF After, Without, Proper

\* An upload whose ID is stored replaces no ID of a job that is still there.
LEMMA ReservedKeeps ==
    ASSUME ClientInv, NEW r \in Run, NEW m \in net, Reserved(r, m), locator' # locator,
           locator # NoJob
    PROVE  srv[locator] = "gone"
<1>1. Answered(m, "begin", r) /\ m.op = "create" /\ m.what = "waiting"
  BY DEF Reserved
<1>2. Current(r)
  <2>1. ASSUME ~Current(r) PROVE FALSE
    BY <2>1 DEF Reserved
  <2> QED BY <2>1
<1>3. run[r].job = NoJob /\ hook.active = r /\ hook.mounted
  BY <1>1, <1>2, CreatedIs, ClientAssumption DEF ClientInv, HookInv, Current
<1> QED BY <1>3, ClientAssumption DEF ClientInv, LocatorInv

\* The stored ID of a job is given up only when the job is gone at the service or the
\* storage is emptied, never for the late end of another job (largeFileRecovery.ts:26).
THEOREM ClientLocatorKept == ClientSpec => LocatorKept
<1> DEFINE Kept == locator # NoJob /\ locator' # locator => srv[locator] = "gone" \/ StorageCleared
<1>1. ClientInv /\ [ClientNext]_clientVars => Kept
  <2> SUFFICES ASSUME ClientInv, [ClientNext]_clientVars, locator # NoJob, locator' # locator
               PROVE  srv[locator] = "gone" \/ StorageCleared
    OBVIOUS
  <2>1. CASE UserStep
    <3>1. \A r \in Run : /\ Start(r) => locator' = locator
                         /\ Cancel(r) => locator' = locator
                         /\ Clear(r) => locator' = locator
      BY DEF Start, Cancel, Clear
    <3>2. Retry \/ PageShow \/ Mount \/ Reload => locator' = locator
      BY DEF Retry, PageShow, Mount, Reload
    <3> QED BY <2>1, <3>1, <3>2 DEF UserStep
  <2>2. CASE PageStep
    <3>1. ASSUME NEW r \in Run, NEW m \in net,
                 Cancelled(r, m) \/ Cleared(r, m) \/ CleanupEnds(r, m)
          PROVE  srv[locator] = "gone"
      <4>1. locator' = After(m.what, m.job)
        BY <3>1 DEF Cancelled, Cleared, CleanupEnds
      <4> QED BY <4>1, AfterKeeps
    <3>2. ASSUME NEW r \in Run, NEW m \in net, StartFails(r, m) PROVE srv[locator] = "gone"
      <4>1. locator' = After(m.what, m.job)
        BY <3>2 DEF StartFails
      <4> QED BY <4>1, AfterKeeps
    <3>3. ASSUME NEW m \in net, LookFails(m) PROVE srv[locator] = "gone"
      <4>1. locator' = After(m.what, m.job)
        BY <3>3 DEF LookFails
      <4> QED BY <4>1, AfterKeeps
    <3>4. \A r \in Run, m \in net : /\ Uploaded(r, m) => locator' = locator
                                    /\ Started(r, m) => locator' = locator
                                    /\ LateCancelled(r, m) => locator' = locator
                                    /\ NotCleared(r, m) => locator' = locator
      BY DEF Uploaded, Started, LateCancelled, NotCleared
    <3>5. \A r \in Run, m \in net : Attached(r, m) => locator' = locator
      BY DEF Attached
    <3>6. \A r \in Run : (Aborts(r) => locator' = locator) /\ (CleanupGoesOn(r) => locator' = locator)
      BY DEF Aborts, CleanupGoesOn
    <3>7. \A m \in net : LookIsLate(m) => locator' = locator
      BY DEF LookIsLate
    <3>8. LookGoesOn \/ Restore => locator' = locator
      BY DEF LookGoesOn, Restore
    <3> QED BY <2>2, <3>1, <3>2, <3>3, <3>4, <3>5, <3>6, <3>7, <3>8, ReservedKeeps
            DEF PageStep, Resumes, LookReturns
  <2>3. CASE Poll
    BY <2>3 DEF Poll
  <2>4. CASE ServiceStep
    BY <2>4 DEF ServiceStep, Serve, Reserves, Does, Loses, Answer, Advance
  <2>5. CASE Leave
    BY <2>5 DEF Leave, PageHide, Unmount
  <2>6. CASE UNCHANGED clientVars
    BY <2>6 DEF clientVars
  <2> QED BY <2>1, <2>2, <2>3, <2>4, <2>5, <2>6 DEF ClientNext
<1> QED BY <1>1, ClientInvariant, PTL DEF ClientSpec, LocatorKept

\* The service is no further back with job j than the state s, or has let go of it.
NotAhead(s, j) == srv[j] = "gone" \/ Order[s] <= Order[srv[j]]

\* What ShownNeverGoesBack needs when no aborted request is answered.
ShownInv ==
    /\ \A r \in Run : run[r].begin # "cancel"
    /\ \A m \in net : m.what \in Shown => NotAhead(m.what, m.job)
    /\ \A r \in Run : run[r].job # NoJob => NotAhead(run[r].state, run[r].job)
    /\ \A m \in net :
          m.what \in Shown /\ m.from \in {"user", "look"} /\ m.run \in Run /\ Current(m.run)
          => Order[run[m.run].state] <= Order[m.what]

\* The states in the order in which a job goes through them.
LEMMA OrderIs ==
    /\ Order["waiting"] = 0 /\ Order["running"] = 1
    /\ Order["cancelling"] = 2 /\ Order["terminal"] = 3
    /\ \A s \in Shown : Order[s] \in 0..3
  BY DEF Order, Shown

\* What the hook shows of its run's job does not go back in this step.
Onward == \A r \in Run : Current(r) /\ Current(r)' /\ run[r].job # NoJob /\ run'[r].job = run[r].job
             => Order[run'[r].state] >= Order[run[r].state]

\* A step of the page that shows nothing new.
LEMMA ShownSame ==
    ASSUME ClientInv, ShownInv, UNCHANGED srv,
           \A n \in net' : n \in net \/ n.what = "sent",
           \A q \in Run : run'[q].begin = run[q].begin \/ run'[q].begin # "cancel",
           \A q \in Run : \/ run'[q].job = NoJob
                          \/ run'[q].job = run[q].job /\ run'[q].state = run[q].state,
           \A q \in Run : Current(q)' => \/ Current(q) /\ run'[q].state = run[q].state
                                         \/ \A n \in net : n.run # q
    PROVE  ShownInv' /\ Onward
<1>0. "sent" \notin Shown
  BY DEF Shown
<1>1. \A r \in Run : run'[r].begin # "cancel"
  BY DEF ShownInv
<1>2. \A m \in net' : m.what \in Shown => m \in net /\ NotAhead(m.what, m.job)
  BY <1>0 DEF ShownInv
<1>3. \A r \in Run : run'[r].job # NoJob => NotAhead(run'[r].state, run'[r].job)
  BY DEF ShownInv
<1>4. \A m \in net' :
         m.what \in Shown /\ m.from \in {"user", "look"} /\ m.run \in Run /\ Current(m.run)'
         => Order[run'[m.run].state] <= Order[m.what]
  BY <1>2 DEF ShownInv
<1>5. ShownInv'
  <2>1. \A s, j : NotAhead(s, j)' <=> NotAhead(s, j)
    BY DEF NotAhead
  <2>2. \A m \in net' : m.what \in Shown => NotAhead(m.what, m.job)'
    BY <1>2, <2>1
  <2>3. \A r \in Run : run'[r].job # NoJob => NotAhead(run[r].state, run[r].job)'
    <3>1. ASSUME NEW r \in Run, run'[r].job # NoJob PROVE NotAhead(run[r].state, run[r].job)'
      <4>1. NotAhead(run'[r].state, run'[r].job)
        BY <1>3, <3>1
      <4> QED BY <4>1 DEF NotAhead
    <3> QED BY <3>1
  <2> QED BY <1>1, <1>4, <2>2, <2>3 DEF ShownInv
<1>6. Onward
  <2> SUFFICES ASSUME NEW r \in Run, Current(r), Current(r)', run[r].job # NoJob,
                      run'[r].job = run[r].job
               PROVE  Order[run'[r].state] >= Order[run[r].state]
    BY DEF Onward
  <2>1. run'[r].state = run[r].state
    OBVIOUS
  <2>2. run[r].state \in Shown
    BY TypesOK DEF ClientInv, RunInv, RunOK, Types, RunObject
  <2> QED BY <2>1, <2>2, OrderIs
<1> QED BY <1>5, <1>6

\* A step of the page that shows what the message m says.
LEMMA ShownAnswer ==
    ASSUME ClientInv, ShownInv, NEW r \in Run, NEW m \in net, m.what \in Shown, UNCHANGED srv,
           \A n \in net' : n \in net \/ n.what = "sent",
           \A q \in Run \ {r} : run'[q] = run[q] /\ (Current(q)' => Current(q)),
           run'[r].begin # "cancel", run'[r].job = m.job, run'[r].state = m.what,
           Current(r)' => \A n \in net' :
                             n.run = r /\ n.what # "sent" => n.from \notin {"user", "look"},
           Current(r) /\ run[r].job # NoJob => Order[m.what] >= Order[run[r].state]
    PROVE  ShownInv' /\ Onward
<1>0. "sent" \notin Shown
  BY DEF Shown
<1>1. \A q \in Run : run'[q].begin # "cancel"
  BY DEF ShownInv
<1>2. \A n \in net' : n.what \in Shown => n \in net /\ NotAhead(n.what, n.job)
  BY <1>0 DEF ShownInv
<1>3. \A q \in Run : run'[q].job # NoJob => NotAhead(run'[q].state, run'[q].job)
  BY DEF ShownInv
<1>4. \A n \in net' :
         n.what \in Shown /\ n.from \in {"user", "look"} /\ n.run \in Run /\ Current(n.run)'
         => Order[run'[n.run].state] <= Order[n.what]
  BY <1>0, <1>2 DEF ShownInv
<1>5. ShownInv'
  <2>2. ASSUME NEW n \in net', n.what \in Shown PROVE NotAhead(n.what, n.job)'
    BY <1>2, <2>2 DEF NotAhead
  <2>3. ASSUME NEW q \in Run, run'[q].job # NoJob PROVE NotAhead(run[q].state, run[q].job)'
    <3>1. NotAhead(run'[q].state, run'[q].job)
      BY <1>3, <2>3
    <3> QED BY <3>1 DEF NotAhead
  <2> QED BY <1>1, <1>4, <2>2, <2>3 DEF ShownInv
<1>6. Onward
  <2> SUFFICES ASSUME NEW q \in Run, Current(q), Current(q)', run[q].job # NoJob,
                      run'[q].job = run[q].job
               PROVE  Order[run'[q].state] >= Order[run[q].state]
    BY DEF Onward
  <2>1. CASE q = r
    BY <2>1
  <2>2. CASE q # r
    <3>1. run[q].state \in Shown
      BY TypesOK DEF ClientInv, RunInv, RunOK, Types, RunObject
    <3> QED BY <2>2, <3>1, OrderIs
  <2> QED BY <2>1, <2>2
<1> QED BY <1>5, <1>6

\* No answer to the user or to refresh is about a run that start still works on.
LEMMA NoneForStart ==
    ASSUME ClientInv, NEW r \in Run, Current(r), run[r].begin \in {"create", "upload", "start"},
           ~run[r].cancelled
    PROVE  /\ run[r].user = "none" /\ hook.look.run # r
           /\ \A n \in net : n.run = r => n.from \notin {"user", "look"}
<1>1. CurrentOK(r) /\ hook.active = r
  BY ClientAssumption DEF ClientInv, RunInv, Current
<1>2. run[r].user = "none"
  BY <1>1 DEF CurrentOK, StageOf
<1>3. hook.look.run # r
  BY ClientAssumption DEF ClientInv, LookInv
<1>4. ASSUME NEW n \in net, n.run = r PROVE n.from \notin {"user", "look"}
  <2>1. n.from = "look" => FALSE
    BY <1>3, <1>4, LookMessage
  <2>2. n.from = "user" => FALSE
    BY <1>2, <1>4, UserMessage
  <2> QED BY <2>1, <2>2
<1> QED BY <1>2, <1>3, <1>4

\* The service goes on with a job, never back.
LEMMA ServiceForward ==
    ASSUME ClientInv, ServiceStep, NEW j \in Job, NEW s \in Shown, srv[j] # "none", NotAhead(s, j)
    PROVE  NotAhead(s, j)'
<1>0. Types /\ srv[j] \in Shown \cup {"gone"}
  BY TypesOK DEF Types
<1>1. ASSUME NEW m \in net, Reserves(m) PROVE NotAhead(s, j)'
  BY <1>0, <1>1 DEF Reserves, Types, NotAhead
<1>2. ASSUME NEW m \in net, Does(m) PROVE NotAhead(s, j)'
  <2>1. srv' = [srv EXCEPT ![m.job] = Served(m.op, srv[m.job])]
    BY <1>2 DEF Does
  <2>2. CASE m.job # j
    BY <1>0, <2>1, <2>2 DEF Types, NotAhead
  <2>3. CASE m.job = j
    <3>1. srv'[j] = Served(m.op, srv[j])
      BY <1>0, <2>1, <2>3 DEF Types
    <3>2. CASE srv[j] = "gone"
      BY <3>1, <3>2 DEF Served, NotAhead
    <3>3. CASE srv[j] \in Shown
      <4>1. Served(m.op, srv[j]) = "gone" \/ Order[srv[j]] <= Order[Served(m.op, srv[j])]
        BY <3>3, OrderIs DEF Served, Shown
      <4>2. Served(m.op, srv[j]) \in Shown \cup {"gone"}
        BY <3>3 DEF Served, Shown
      <4>3. Order[s] \in 0..3 /\ Order[srv[j]] \in 0..3
        BY <3>3, OrderIs
      <4>4. Served(m.op, srv[j]) # "gone" => Order[Served(m.op, srv[j])] \in 0..3
        BY <4>2, OrderIs
      <4>5. Order[s] <= Order[srv[j]]
        BY <3>3 DEF NotAhead, Shown
      <4> QED BY <3>1, <4>1, <4>3, <4>4, <4>5 DEF NotAhead
    <3> QED BY <1>0, <3>2, <3>3
  <2> QED BY <2>2, <2>3
<1>3. ASSUME NEW m \in net, Serve(m) PROVE NotAhead(s, j)'
  BY <1>1, <1>2, <1>3 DEF Serve, Loses, NotAhead
<1>4. ASSUME NEW i \in Job, Advance(i) PROVE NotAhead(s, j)'
  <2>1. PICK t \in {"terminal", "gone"} : srv' = [srv EXCEPT ![i] = t]
    BY <1>4 DEF Advance
  <2>2. srv'[j] = "gone" \/ srv'[j] = "terminal" \/ srv'[j] = srv[j]
    BY <1>0, <2>1 DEF Types
  <2>3. srv[j] = "gone" => srv'[j] = "gone"
    BY <1>0, <1>4, <2>1 DEF Advance, Live, Types
  <2>4. Order[s] <= 3
    BY OrderIs
  <2> QED BY <2>2, <2>3, <2>4, OrderIs DEF NotAhead
<1> QED BY <1>3, <1>4 DEF ServiceStep

\* What an answer on its way says of its job.
LEMMA AnswerNamesJob ==
    ASSUME ClientInv, NEW m \in net, m.what \in Shown
    PROVE  m.job \in Job /\ srv[m.job] # "none"
<1>1. Proper(m) /\ m \in Request
  BY MessageIs
<1>2. m.job \in Job /\ m.job # NoJob
  BY <1>1, ClientAssumption DEF Proper, Request, Shown
<1>3. CASE m.op = "create"
  BY <1>2, <1>3 DEF ClientInv, FreshInv, Made
<1>4. CASE m.op # "create"
  BY <1>2, <1>4 DEF ClientInv, FreshInv, Named
<1> QED BY <1>2, <1>3, <1>4

\* An object that has a job names one the service has made, in a state.
LEMMA RunNamesJob ==
    ASSUME ClientInv, NEW r \in Run, run[r].job # NoJob
    PROVE  run[r].job \in Job /\ srv[run[r].job] # "none" /\ run[r].state \in Shown
<1>1. run[r] \in RunObject /\ RunOK(r)
  BY TypesOK, RunStatesAre DEF ClientInv, RunInv
<1>2. run[r].job \in Job
  BY <1>1 DEF RunObject
<1> QED BY <1>1, <1>2 DEF ClientInv, FreshInv, Named, RunOK, RunObject

\* The service answers what it has come to.
LEMMA ShownByService ==
    ASSUME ClientInv, KnownInv, ShownInv, ServiceStep, ClientInv'
    PROVE  ShownInv' /\ Onward
<1>1. UNCHANGED <<hook, run>>
  BY DEF ServiceStep, Serve, Reserves, Does, Loses, Answer, Advance
<1>2. ASSUME NEW r \in Run, run[r].job # NoJob PROVE NotAhead(run[r].state, run[r].job)'
  <2>1. run[r].job \in Job /\ srv[run[r].job] # "none" /\ run[r].state \in Shown
        /\ NotAhead(run[r].state, run[r].job)
    BY <1>2, RunNamesJob DEF ShownInv
  <2>2. PICK j \in Job, s \in Shown : j = run[r].job /\ s = run[r].state
    BY <2>1
  <2>3. NotAhead(s, j)'
    BY <2>1, <2>2, ServiceForward
  <2> QED BY <1>1, <2>2, <2>3 DEF NotAhead
<1>3. ASSUME NEW n \in net, n.what \in Shown PROVE NotAhead(n.what, n.job)'
  <2>1. n.job \in Job /\ srv[n.job] # "none" /\ NotAhead(n.what, n.job)
    BY <1>3, AnswerNamesJob DEF ShownInv
  <2> QED BY <1>3, <2>1, ServiceForward
<1>4. ASSUME NEW m \in net, Serve(m), NEW n \in net', n \notin net, n.what \in Shown
      PROVE  /\ srv'[n.job] = n.what
             /\ n.from \in {"user", "look"} => n.from = m.from /\ n.run = m.run /\ n.job = m.job /\ Awaited(m)
  <2>0. Proper(m) /\ m \in Request /\ m.job \in Job \cup {NoJob} /\ Types
    BY MessageIs, TypesOK DEF Request
  <2>1. CASE Reserves(m)
    <3>1. PICK j \in Job : m.op = "create" /\ srv' = [srv EXCEPT ![j] = "waiting"] /\ Answer(m, "waiting", j)
      BY <2>1 DEF Reserves
    <3>2. "waiting" \in Shown \cup {"sent", "expired", "cleared", "error"}
      BY DEF Shown
    <3>3. PICK new \in Request : /\ new.from = m.from /\ new.what = "waiting" /\ new.job = j
                                 /\ \A k \in net' : (k \in net /\ k # m) \/ (k = new /\ Awaited(m))
      BY <3>1, <3>2, AnswerIs
    <3>4. m.from \notin {"user", "look"}
      BY <2>0, <3>1 DEF Proper
    <3> QED BY <1>4, <2>0, <3>1, <3>3, <3>4 DEF Types
  <2>2. CASE Does(m)
    <3> DEFINE s == srv[m.job]
               w == IF s = "gone" /\ m.op # "clear" THEN "expired"
                    ELSE IF Refuses(m.op, s) THEN "error"
                    ELSE IF m.op = "clear" THEN "cleared" ELSE Served(m.op, s)
    <3>1. m.op # "create" /\ srv' = [srv EXCEPT ![m.job] = Served(m.op, s)] /\ Answer(m, w, m.job)
      BY <2>2 DEF Does
    <3>2. m.job \in Job
      BY <2>0, <3>1, ClientAssumption DEF Proper
    <3>3. s \in Shown \cup {"gone"}
      BY <2>0, <3>1, <3>2 DEF Types, ClientInv, FreshInv, Named
    <3>4. Served(m.op, s) \in Shown \cup {"gone"}
      BY <3>3 DEF Served, Shown
    <3>5. w \in Shown \cup {"sent", "expired", "cleared", "error"} /\ (w \in Shown => w = Served(m.op, s))
      <4>1. CASE s = "gone"
        BY <4>1 DEF Refuses, Shown
      <4>2. CASE s # "gone" /\ Refuses(m.op, s)
        BY <4>2 DEF Shown
      <4>3. CASE s # "gone" /\ ~Refuses(m.op, s)
        BY <3>3, <3>4, <4>3 DEF Refuses, Served, Shown
      <4> QED BY <4>1, <4>2, <4>3
    <3> HIDE DEF w, s
    <3>6. PICK new \in Request : /\ new.from = m.from /\ new.run = m.run /\ new.what = w /\ new.job = m.job
                                 /\ \A k \in net' : (k \in net /\ k # m) \/ (k = new /\ Awaited(m))
      <4>1. m.job \in Job \cup {NoJob}
        BY <3>2
      <4> QED BY <3>1, <3>5, <4>1, AnswerIs
    <3>7. n = new /\ Awaited(m)
      BY <1>4, <3>6
    <3> QED BY <1>4, <2>0, <3>1, <3>2, <3>5, <3>6, <3>7 DEF Types
  <2>3. CASE Loses(m)
    <3>1. Answer(m, "error", m.job) /\ "error" \in Shown \cup {"sent", "expired", "cleared", "error"}
      BY <2>3 DEF Loses
    <3>2. PICK new \in Request : /\ new.what = "error"
                                 /\ \A k \in net' : (k \in net /\ k # m) \/ (k = new /\ Awaited(m))
      BY <2>0, <3>1, AnswerIs
    <3> QED BY <1>4, <3>2 DEF Shown
  <2> QED BY <1>4, <2>1, <2>2, <2>3 DEF Serve
<1>5. ASSUME NEW n \in net', n \notin net
      PROVE  \E m \in net : Serve(m)
  BY <1>5 DEF ServiceStep, Serve, Advance
<1>6. \A n \in net' : n.what \in Shown => NotAhead(n.what, n.job)'
  <2> SUFFICES ASSUME NEW n \in net', n.what \in Shown PROVE NotAhead(n.what, n.job)'
    OBVIOUS
  <2>1. CASE n \in net
    BY <1>3, <2>1
  <2>2. CASE n \notin net
    BY <1>4, <1>5, <2>2, OrderIs DEF NotAhead
  <2> QED BY <2>1, <2>2
<1>7. ASSUME NEW n \in net', n.what \in Shown, n.from \in {"user", "look"}, n.run \in Run, Current(n.run)'
      PROVE  Order[run'[n.run].state] <= Order[n.what]
  <2>0. Current(n.run)
    BY <1>1, <1>7 DEF Current
  <2>1. CASE n \in net
    BY <1>1, <1>7, <2>0, <2>1 DEF ShownInv
  <2>2. CASE n \notin net
    <3>1. PICK m \in net : Serve(m)
      BY <1>5, <2>2
    <3>2. srv'[n.job] = n.what /\ n.from = m.from /\ n.run = m.run /\ n.job = m.job /\ Awaited(m)
      BY <1>4, <1>7, <2>2, <3>1
    <3>3. About(m) /\ m.job \in Job \cup {NoJob} /\ Proper(m)
      BY MessageIs DEF Request
    <3>4. run[n.run].job = n.job /\ n.job # NoJob
      <4>1. CASE m.from = "user"
        BY <1>7, <3>2, <3>3, <4>1 DEF About, Proper
      <4>2. CASE m.from = "look"
        BY <1>7, <2>0, <3>2, <3>3, <4>2, LookMessage, ClientAssumption DEF ClientInv, LookInv
      <4> QED BY <1>7, <3>2, <4>1, <4>2
    <3>5. NotAhead(run[n.run].state, n.job)' /\ n.what # "gone"
      BY <1>1, <1>2, <1>7, <3>4 DEF NotAhead, Shown
    <3> QED BY <1>1, <3>2, <3>5 DEF NotAhead
  <2> QED BY <2>1, <2>2
<1>8. ShownInv'
  BY <1>1, <1>2, <1>6, <1>7 DEF ShownInv
<1>9. Onward
  <2> SUFFICES ASSUME NEW r \in Run, run[r].job # NoJob
               PROVE  Order[run'[r].state] >= Order[run[r].state]
    BY DEF Onward
  <2> QED BY <1>1, RunNamesJob, OrderIs
<1> QED BY <1>8, <1>9

\* refresh sends its request at most.
LEMMA RefreshSends ==
    ASSUME NEW h \in Hook, Refreshes(h)
    PROVE  hook'.active = h.active /\ \A n \in net' : n \in net \/ n.what = "sent"
<1>1. CASE CanLook(h)
  <2>1. hook' = Looking(h) /\ net' = net \cup StatusOf(Looking(h).look)
    BY <1>1 DEF Refreshes
  <2>2. Looking(h).active = h.active
    BY DEF Looking, Hook
  <2>3. \A l : \A n \in StatusOf(l) : n.what = "sent"
    BY DEF StatusOf, Sent
  <2> QED BY <2>1, <2>2, <2>3
<1>2. CASE ~CanLook(h)
  BY <1>2 DEF Refreshes
<1> QED BY <1>1, <1>2

\* A status that is asked for shows nothing new yet.
LEMMA ShownByLooking ==
    ASSUME ClientInv, ShownInv, Refreshes(hook), UNCHANGED <<srv, run>>
    PROVE  ShownInv' /\ Onward
  <1>1. hook \in Hook
  BY TypesOK DEF Types
<1> QED BY <1>1, RefreshSends, ShownSame DEF Current

\* What the user does shows nothing new.
LEMMA ShownByUser ==
    ASSUME ClientInv, ShownInv, UserStep
    PROVE  ShownInv' /\ Onward
<1>0. Types /\ hook \in Hook /\ \A r \in Run : run[r] \in RunObject
  BY TypesOK, RunStatesAre DEF Types
<1>1. ASSUME NEW r \in Run, Start(r) PROVE ShownInv' /\ Onward
  <2>1. /\ Free(r) /\ srv' = srv /\ run' = [run EXCEPT ![r] = NewRun]
        /\ net' = net \cup {Sent("begin", r, "create", NoJob)}
        /\ hook'.active = r
    BY <1>0, <1>1 DEF Start, Hook
  <2>2. NewRun.begin = "create" /\ NewRun.job = NoJob
    BY DEF NewRun
  <2>3. run'[r] = NewRun /\ \A q \in Run \ {r} : run'[q] = run[q]
    BY <1>0, <2>1 DEF Types
  <2>4. \A n \in net' : n \in net \/ n.what = "sent"
    BY <2>1 DEF Sent
  <2>5. \A n \in net : n.run # r
    BY <2>1 DEF Free
  <2>6. \A q \in Run : Current(q)' => q = r
    BY <2>1 DEF Current
  <2>7. \A q \in Run : \/ run'[q].job = NoJob
                       \/ run'[q].job = run[q].job /\ run'[q].state = run[q].state
    BY <2>2, <2>3
  <2>8. \A q \in Run : run'[q].begin = run[q].begin \/ run'[q].begin # "cancel"
    BY <2>2, <2>3
  <2> QED BY <2>1, <2>4, <2>5, <2>6, <2>7, <2>8, ShownSame
<1>2. ASSUME NEW r \in Run, Cancel(r) PROVE ShownInv' /\ Onward
  <2>1. PICK u : /\ run' = [run EXCEPT ![r].cancelled = TRUE, ![r].secret = FALSE, ![r].user = u]
                 /\ srv' = srv
    BY <1>2 DEF Cancel
  <2>2. hook'.active = hook.active /\ \A n \in net' : n \in net \/ n.what = "sent"
    BY <1>0, <1>2 DEF Cancel, Unlooks, Sent, Hook
  <2>3. \A q \in Run : /\ run'[q].job = run[q].job /\ run'[q].state = run[q].state
                       /\ run'[q].begin = run[q].begin
    BY <1>0, <2>1 DEF Types, RunObject
  <2> QED BY <2>1, <2>2, <2>3, ShownSame DEF Current
<1>3. ASSUME NEW r \in Run, Clear(r) PROVE ShownInv' /\ Onward
  <2>1. run' = [run EXCEPT ![r].user = "clear"] /\ srv' = srv
    BY <1>3 DEF Clear
  <2>2. hook'.active = hook.active /\ \A n \in net' : n \in net \/ n.what = "sent"
    BY <1>0, <1>3 DEF Clear, Unlooks, Sent, Hook
  <2>3. \A q \in Run : /\ run'[q].job = run[q].job /\ run'[q].state = run[q].state
                       /\ run'[q].begin = run[q].begin
    BY <1>0, <2>1 DEF Types, RunObject
  <2> QED BY <2>1, <2>2, <2>3, ShownSame DEF Current
<1>4. CASE Retry
  BY <1>4, ShownByLooking DEF Retry
<1>5. CASE PageShow
  <2>1. hook'.active = hook.active /\ run' = run /\ net' = net /\ srv' = srv
    BY <1>0, <1>5 DEF PageShow, Hook
  <2> QED BY <2>1, ShownSame DEF Current
<1>6. CASE Mount
  <2>1. ~hook.mounted /\ run' = run /\ srv' = srv
    BY <1>6 DEF Mount
  <2>2. PICK h \in Hook : h.active = NoRun /\ Refreshes(h)
    <3>1. PICK h : /\ h = [Unmounted EXCEPT !.mounted = TRUE, !.pendingId = locator,
                                   !.pendingRestoration = (locator # NoJob),
                                   !.recoveryPending = (locator # NoJob)]
                   /\ Refreshes(h)
      BY <1>6 DEF Mount
    <3> DEFINE there == locator # NoJob
    <3>2. there \in BOOLEAN /\ h = [Unmounted EXCEPT !.mounted = TRUE, !.pendingId = locator,
                                   !.pendingRestoration = there, !.recoveryPending = there]
      BY <3>1
    <3> HIDE DEF there
    <3>3. h \in Hook /\ h.active = NoRun
      BY ZenonT(40), <1>0, <3>2, LookIs DEF Unmounted, Hook, Types
    <3> QED BY <3>1, <3>3
  <2>3. hook'.active = NoRun /\ \A n \in net' : n \in net \/ n.what = "sent"
    BY <1>0, <2>2, RefreshSends DEF ClientInv, HookInv
  <2> QED BY <2>1, <2>3, ShownSame, ClientAssumption DEF Current
<1>7. CASE Reload
  <2>1. /\ \A r \in Run : run'[r] = NoObject
        /\ net' \subseteq net /\ srv' = srv /\ hook'.active = NoRun
    BY <1>7 DEF Reload, Unmounted
  <2> QED BY <2>1, ShownSame, NoObjectIs, ClientAssumption DEF Current
<1>8. CASE StorageCleared
  BY <1>8, ShownSame DEF StorageCleared, Current
<1> QED BY <1>1, <1>2, <1>3, <1>4, <1>5, <1>6, <1>7, <1>8 DEF UserStep

\* A step of the page that leaves all runs and the choice of the hook as they are, or lets go.
LEMMA ShownQuietly ==
    ASSUME ClientInv, ShownInv, UNCHANGED srv,
           \A n \in net' : n \in net \/ n.what = "sent",
           \A q \in Run : /\ run'[q].begin \in {run[q].begin, "none"}
                          /\ run'[q].job = run[q].job /\ run'[q].state = run[q].state,
           hook'.active \in {hook.active, NoRun}
    PROVE  ShownInv' /\ Onward
<1>1. \A q \in Run : Current(q)' => Current(q)
  BY ClientAssumption DEF Current
<1> QED BY <1>1, ShownSame

\* The end of start shows nothing new.
LEMMA ShownByEnd ==
    ASSUME ClientInv, ShownInv, NEW r \in Run, NEW h \in Hook, Ends(h, r, run[r]),
           h.active \in {hook.active, NoRun}, net' \subseteq net, UNCHANGED srv
    PROVE  ShownInv' /\ Onward
<1>1. Types /\ run[r] \in RunObject
  BY TypesOK, RunStatesAre
<1>2. /\ \A q \in Run \ {r} : run'[q] = run[q]
      /\ run'[r].job = run[r].job /\ run'[r].state = run[r].state /\ run'[r].begin = "none"
      /\ hook'.active = (IF h.active = r /\ run[r].cancelled /\ run[r].job = NoJob THEN NoRun ELSE h.active)
  BY <1>1, EndsIs
<1> QED BY <1>2, ShownQuietly

\* What start was answered is no step back.
LEMMA ShownByStart ==
    ASSUME ClientInv, ShownInv, LateAnswers = FALSE, NEW r \in Run, NEW m \in net,
           Reserved(r, m) \/ Uploaded(r, m) \/ Started(r, m) \/ LateCancelled(r, m) \/ StartFails(r, m)
    PROVE  ShownInv' /\ Onward
<1>0. Types /\ hook \in Hook
  BY TypesOK DEF Types
<1>1. /\ Answered(m, "begin", r) /\ srv' = srv
  BY DEF Reserved, Uploaded, Started, LateCancelled, StartFails
<1>2. /\ m.from = "begin" /\ m.run = r /\ run[r].begin = m.op
      /\ Proper(m) /\ run[r] \in RunObject /\ RunOK(r) /\ (Current(r) => CurrentOK(r))
      /\ m.op = "create" => run[r].job = NoJob
      /\ m.op # "create" /\ Current(r) => run[r].job = m.job
  BY <1>1, BeginAnswer
<1>3. m.op \in {"create", "upload", "start"} /\ ~run[r].cancelled
  BY <1>1, <1>2 DEF Answered, ShownInv, Proper
<1>4. Current(r) /\ CurrentOK(r) /\ run[r].state \in {"none", "waiting"} /\ hook.active = r
  BY <1>2, <1>3 DEF RunOK, CurrentOK, Current
<1>5. \A n \in net : n.run = r => n.from \notin {"user", "look"}
  BY <1>2, <1>3, <1>4, NoneForStart
<1>6. run[r].job # NoJob => Order[run[r].state] = 0
  BY <1>2, <1>4, OrderIs DEF RunOK
<1>7. ASSUME m.what \in Shown, \A q \in Run \ {r} : run'[q] = run[q], hook'.active = r,
             run'[r].begin # "cancel", run'[r].job = m.job, run'[r].state = m.what,
             \A n \in net' : n \in net \/ n.what = "sent"
      PROVE  ShownInv' /\ Onward
  <2>1. \A q \in Run \ {r} : ~Current(q)'
    BY <1>7 DEF Current
  <2>2. \A n \in net' : n.run = r /\ n.what # "sent" => n.from \notin {"user", "look"}
    BY <1>5, <1>7
  <2>3. run[r].job # NoJob => Order[m.what] >= Order[run[r].state]
    BY <1>6, <1>7, OrderIs
  <2> QED BY <1>1, <1>7, <2>1, <2>2, <2>3, ShownAnswer
<1>8. CASE Reserved(r, m)
  <2> DEFINE r1 == [run[r] EXCEPT !.job = m.job, !.state = m.what]
  <2>1. m.what = "waiting"
    BY <1>8 DEF Reserved
  <2>2. r1 \in RunObject /\ r1.job = m.job /\ r1.state = m.what /\ r1.cancelled = run[r].cancelled
    BY <1>2, <2>1, MessageIs DEF RunObject, Shown, Request
  <2>3. PICK saved \in BOOLEAN :
           Awaits(m, [hook EXCEPT !.stage = "uploading"], r, [r1 EXCEPT !.keep = saved], "upload")
    <3>1. Current(r) /\ ~r1.cancelled
      BY <1>3, <1>4, <2>2
    <3> QED BY <1>8, <3>1 DEF Reserved
  <2>4. PICK rr \in RunObject : rr = [r1 EXCEPT !.keep = saved]
    BY ZenonT(40), <2>2 DEF RunObject
  <2>5. rr.job = m.job /\ rr.state = m.what
    BY <2>2, <2>4 DEF RunObject
  <2>6. /\ run' = [run EXCEPT ![r] = [rr EXCEPT !.begin = "upload"]]
        /\ hook' = [hook EXCEPT !.stage = "uploading"]
        /\ net' = (net \ {m}) \cup {Sent("begin", r, "upload", rr.job)}
    BY <2>3, <2>4 DEF Awaits
  <2> HIDE DEF r1
  <2>7. run'[r].begin = "upload" /\ run'[r].job = m.job /\ run'[r].state = m.what
        /\ \A q \in Run \ {r} : run'[q] = run[q]
    BY <1>0, <2>5, <2>6 DEF Types, RunObject
  <2>8. hook'.active = r /\ \A n \in net' : n \in net \/ n.what = "sent"
    BY <1>0, <1>4, <2>6 DEF Hook, Sent
  <2>9. m.what \in Shown
    BY <2>1 DEF Shown
  <2> QED BY <1>7, <2>7, <2>8, <2>9
<1>9. CASE Uploaded(r, m)
  <2>1. m.what \in Shown /\ m.op = "upload"
        /\ Awaits(m, [hook EXCEPT !.stage = "starting"], r,
                  [run[r] EXCEPT !.state = m.what, !.secret = FALSE], "start")
    BY <1>3, <1>4, <1>9 DEF Uploaded
  <2>2. PICK rr \in RunObject : rr = [run[r] EXCEPT !.state = m.what, !.secret = FALSE]
    BY <1>2, <2>1 DEF RunObject
  <2>3. rr.job = m.job /\ rr.state = m.what
    BY <1>2, <1>4, <2>1, <2>2 DEF RunObject
  <2>4. /\ run' = [run EXCEPT ![r] = [rr EXCEPT !.begin = "start"]]
        /\ hook' = [hook EXCEPT !.stage = "starting"]
        /\ net' = (net \ {m}) \cup {Sent("begin", r, "start", rr.job)}
    BY <2>1, <2>2 DEF Awaits
  <2>7. run'[r].begin = "start" /\ run'[r].job = m.job /\ run'[r].state = m.what
        /\ \A q \in Run \ {r} : run'[q] = run[q]
    BY <1>0, <2>3, <2>4 DEF Types, RunObject
  <2>8. hook'.active = r /\ \A n \in net' : n \in net \/ n.what = "sent"
    BY <1>0, <1>4, <2>4 DEF Hook, Sent
  <2> QED BY <1>7, <2>1, <2>7, <2>8
<1>10. CASE Started(r, m)
  <2>1. m.what \in Shown /\ m.op = "start" /\ net' = net \ {m}
        /\ Ends(hook, r, [run[r] EXCEPT !.state = m.what])
    BY <1>3, <1>4, <1>10 DEF Started
  <2>2. PICK rr \in RunObject : rr = [run[r] EXCEPT !.state = m.what]
    BY <1>2, <2>1 DEF RunObject
  <2>3. rr.job = m.job /\ rr.state = m.what /\ ~rr.cancelled /\ Ends(hook, r, rr)
    BY <1>2, <1>3, <1>4, <2>1, <2>2 DEF RunObject
  <2>4. /\ \A q \in Run \ {r} : run'[q] = run[q]
        /\ run'[r].job = m.job /\ run'[r].state = m.what /\ run'[r].begin = "none"
        /\ hook'.active = (IF hook.active = r /\ rr.cancelled /\ rr.job = NoJob THEN NoRun ELSE hook.active)
    BY <1>0, <2>3, EndsIs
  <2> QED BY <1>4, <1>7, <2>1, <2>3, <2>4
<1>11. CASE LateCancelled(r, m)
  BY <1>3, <1>11 DEF LateCancelled
<1>12. CASE StartFails(r, m)
  <2> DEFINE h == Missed(hook, m.what)
             g == IF m.op = "create" THEN [h EXCEPT !.active = NoRun, !.stage = "none"] ELSE h
  <2>1. Ends(g, r, run[r]) /\ net' = net \ {m}
    BY <1>3, <1>4, <1>12 DEF StartFails
  <2>2. h \in Hook /\ h.active \in {hook.active, NoRun}
    BY <1>0 DEF Missed, Failed, LetGo, Hook
  <2> HIDE DEF h
  <2>3. g \in Hook /\ g.active \in {hook.active, NoRun}
    <3>1. CASE m.op = "create"
      <4>1. g = [h EXCEPT !.active = NoRun, !.stage = "none"]
        BY <3>1
      <4> HIDE DEF g
      <4> QED BY <2>2, <4>1 DEF Hook
    <3>2. CASE m.op # "create"
      BY <2>2, <3>2
    <3> QED BY <3>1, <3>2
  <2> HIDE DEF g
  <2> QED BY <1>1, <2>1, <2>3, ShownByEnd
<1> QED BY <1>8, <1>9, <1>10, <1>11, <1>12

\* What a cancel or clear was answered is no step back.
LEMMA ShownByUserAnswer ==
    ASSUME ClientInv, ShownInv, NEW r \in Run, NEW m \in net,
           Cancelled(r, m) \/ Cleared(r, m) \/ NotCleared(r, m)
    PROVE  ShownInv' /\ Onward
<1>0. Types /\ hook \in Hook
  BY TypesOK DEF Types
<1>1. Answered(m, "user", r) /\ srv' = srv /\ net' = net \ {m}
  BY DEF Cancelled, Cleared, NotCleared
<1>2. /\ m.from = "user" /\ m.run = r /\ run[r].user = m.op /\ m.op \in {"cancel", "clear"}
      /\ run[r] \in RunObject /\ RunOK(r) /\ m.job = run[r].job /\ m.job \in Job
  BY <1>1, UserAnswer
<1>3. CASE Cancelled(r, m)
  <2> DEFINE s == IF Current(r) /\ m.what \in Shown THEN m.what ELSE run[r].state
  <2>1. run' = [run EXCEPT ![r].user = "none", ![r].state = s]
    BY <1>3 DEF Cancelled
  <2>2. s \in Shown \cup {"none"}
    BY <1>2 DEF RunObject
  <2>3. (Current(r) /\ m.what \in Shown => s = m.what) /\ (~(Current(r) /\ m.what \in Shown) => s = run[r].state)
    OBVIOUS
  <2> HIDE DEF s
  <2>4. /\ \A q \in Run \ {r} : run'[q] = run[q]
        /\ run'[r].job = run[r].job /\ run'[r].state = s /\ run'[r].begin = run[r].begin
    BY <1>0, <1>2, <2>1, <2>2 DEF Types, RunObject
  <2>5. hook'.active \in {hook.active, NoRun}
    BY <1>0, <1>3 DEF Cancelled, Missed, Failed, LetGo, Hook
  <2>6. CASE Current(r) /\ m.what \in Shown
    <3>1. Order[run[r].state] <= Order[m.what] /\ run[r].state \in Shown
      BY <1>2, <2>6, RunNamesJob, ClientAssumption DEF ShownInv
    <3>2. hook.look.run # r
      BY <1>2, <2>6, ClientAssumption DEF ClientInv, LookInv
    <3>3. \A n \in net' : n.run = r => n.from \notin {"user", "look"}
      <4>1. \A n \in net' : n.run = r => n.from # "user"
        BY <1>1, <1>2 DEF ClientInv, NetInv
      <4>2. \A n \in net : n.run = r => n.from # "look"
        BY <3>2, LookMessage
      <4> QED BY <1>1, <4>1, <4>2
    <3>4. run'[r].begin # "cancel"
      BY <2>4 DEF ShownInv
    <3>5. \A q \in Run \ {r} : run'[q] = run[q] /\ (Current(q)' => Current(q))
      BY <2>4, <2>5, ClientAssumption DEF Current
    <3>6. Order[m.what] >= Order[run[r].state]
      BY <2>6, <3>1, OrderIs
    <3>7. run'[r].job = m.job /\ run'[r].state = m.what
      BY <1>2, <2>3, <2>4, <2>6
    <3> QED BY <1>1, <2>6, <3>3, <3>4, <3>5, <3>6, <3>7, ShownAnswer
  <2>7. CASE ~(Current(r) /\ m.what \in Shown)
    BY <1>1, <2>3, <2>4, <2>5, <2>7, ShownQuietly
  <2> QED BY <2>6, <2>7
<1>4. CASE Cleared(r, m)
  <2>1. /\ run' = [run EXCEPT ![r].user = "none", ![r].job = NoJob, ![r].state = "none"]
        /\ hook' = (IF Current(r) THEN LetGo(hook) ELSE hook)
    BY <1>4 DEF Cleared
  <2>2. /\ \A q \in Run \ {r} : run'[q] = run[q]
        /\ run'[r].job = NoJob /\ run'[r].begin = run[r].begin
    BY <1>0, <1>2, <2>1 DEF Types, RunObject
  <2>3. hook'.active = (IF Current(r) THEN NoRun ELSE hook.active)
    BY <1>0, <2>1 DEF LetGo, Hook
  <2>4. \A q \in Run : Current(q)' => q # r /\ Current(q)
    BY <2>3, ClientAssumption DEF Current
  <2> QED BY <1>1, <2>2, <2>4, ShownSame
<1>5. CASE NotCleared(r, m)
  <2>1. run' = [run EXCEPT ![r].user = "none"] /\ hook'.active = hook.active
    BY <1>0, <1>5 DEF NotCleared, Hook
  <2>2. \A q \in Run : /\ run'[q].job = run[q].job /\ run'[q].state = run[q].state
                       /\ run'[q].begin = run[q].begin
    BY <1>0, <2>1 DEF Types, RunObject
  <2> QED BY <1>1, <2>1, <2>2, ShownQuietly
<1> QED BY <1>3, <1>4, <1>5

\* What refresh was answered is no step back.
LEMMA ShownByAttached ==
    ASSUME ClientInv, ShownInv, NEW r \in Run, NEW m \in net, Attached(r, m)
    PROVE  ShownInv' /\ Onward
<1>0. Types /\ hook \in Hook /\ run[r] \in RunObject
  BY TypesOK, RunStatesAre DEF Types
<1>1. /\ m.from = "look" /\ m.what \in Shown /\ StillAbout(hook.look)
      /\ net' = net \ {m} /\ srv' = srv
  BY DEF Attached
<1>2. /\ m.run = hook.look.run /\ m.job = hook.look.job /\ m.job \in Job
      /\ \A n \in net : n.from = "look" => n = m
  BY <1>1, LookMessage
<1>3. hook'.active = r
  BY <1>0 DEF Attached, LookEnds, Hook
<1>4. \A q \in Run \ {r} : ~Current(q)'
  BY <1>3 DEF Current
<1>5. CASE m.run = NoRun
  <2>1. Free(r) /\ run' = [run EXCEPT ![r] = RecoveredRun(m.job, m.what)]
    BY <1>5 DEF Attached
  <2>2. /\ \A q \in Run \ {r} : run'[q] = run[q]
        /\ run'[r].job = m.job /\ run'[r].state = m.what /\ run'[r].begin = "none"
    BY <1>0, <2>1 DEF RecoveredRun, Types
  <2>3. ~Current(r) /\ \A n \in net : n.run # r
    BY <2>1 DEF Free
  <2> QED BY <1>1, <1>4, <2>2, <2>3, ShownAnswer
<1>6. CASE m.run # NoRun
  <2>1. r = m.run /\ run' = [run EXCEPT ![r].state = m.what]
    BY <1>6 DEF Attached
  <2>2. /\ \A q \in Run \ {r} : run'[q] = run[q]
        /\ run'[r].job = run[r].job /\ run'[r].state = m.what /\ run'[r].begin = run[r].begin
    BY <1>0, <1>1, <2>1 DEF Types, RunObject
  <2>3. Current(r) /\ run[r].job = m.job /\ run[r].user = "none"
    BY <1>1, <1>2, <1>6, <2>1 DEF StillAbout, Current, ClientInv, LookInv
  <2>4. \A n \in net' : n.run = r => n.from \notin {"user", "look"}
    <3>1. \A n \in net : n.run = r => n.from # "user"
      BY <2>3, UserMessage
    <3> QED BY <1>1, <1>2, <3>1
  <2>5. run'[r].begin # "cancel"
    BY <2>2 DEF ShownInv
  <2>6. Order[m.what] >= Order[run[r].state]
    <3>1. Order[run[r].state] <= Order[m.what] /\ run[r].state \in Shown
      BY <1>1, <1>2, <2>1, <2>3, RunNamesJob, ClientAssumption DEF ShownInv
    <3> QED BY <1>1, <3>1, OrderIs
  <2> QED BY <1>1, <1>4, <2>2, <2>3, <2>4, <2>5, <2>6, ShownAnswer
<1> QED BY <1>5, <1>6

\* The rest of what the page does by itself shows nothing new.
LEMMA ShownByPage ==
    ASSUME ClientInv, ShownInv, LateAnswers = FALSE, PageStep
    PROVE  ShownInv' /\ Onward
<1>0. Types /\ hook \in Hook
  BY TypesOK DEF Types
<1>1. ASSUME NEW r \in Run, Aborts(r) PROVE ShownInv' /\ Onward
  <2>1. Ends(hook, r, run[r]) /\ net' \subseteq net /\ srv' = srv
    BY <1>1 DEF Aborts
  <2> QED BY <1>0, <2>1, ShownByEnd
<1>2. ASSUME NEW r \in Run, CleanupGoesOn(r) PROVE ShownInv' /\ Onward
  <2>1. PICK c : run' = [run EXCEPT ![r].clean = c]
    BY <1>2 DEF CleanupGoesOn
  <2>2. \A q \in Run : /\ run'[q].job = run[q].job /\ run'[q].state = run[q].state
                       /\ run'[q].begin = run[q].begin
    BY <1>0, <2>1 DEF Types, RunObject
  <2>3. srv' = srv /\ hook' = hook /\ \A n \in net' : n \in net \/ n.what = "sent"
    BY <1>2 DEF CleanupGoesOn, Sent
  <2> QED BY <2>2, <2>3, ShownQuietly
<1>3. ASSUME NEW r \in Run, NEW m \in net, CleanupEnds(r, m) PROVE ShownInv' /\ Onward
  <2>1. run' = [run EXCEPT ![r].clean = "done"] /\ srv' = srv /\ hook' = hook /\ net' = net \ {m}
    BY <1>3 DEF CleanupEnds
  <2>2. \A q \in Run : /\ run'[q].job = run[q].job /\ run'[q].state = run[q].state
                       /\ run'[q].begin = run[q].begin
    BY <1>0, <2>1 DEF Types, RunObject
  <2> QED BY <2>1, <2>2, ShownQuietly
<1>4. ASSUME NEW r \in Run, NEW m \in net, Resumes(r, m) PROVE ShownInv' /\ Onward
  BY <1>3, <1>4, ShownByStart, ShownByUserAnswer DEF Resumes
<1>5. ASSUME NEW m \in net, LookFails(m) \/ LookIsLate(m) PROVE ShownInv' /\ Onward
  <2>1. run' = run /\ srv' = srv /\ net' = net \ {m}
    BY <1>5 DEF LookFails, LookIsLate
  <2>2. hook'.active \in {hook.active, NoRun}
    BY <1>0, <1>5 DEF LookFails, LookIsLate, LookEnds, Missed, Failed, LetGo, Hook
  <2> QED BY <2>1, <2>2, ShownQuietly
<1>6. CASE LookGoesOn
  <2>1. run' = run /\ srv' = srv
    BY <1>6 DEF LookGoesOn
  <2>2. hook'.active = hook.active /\ \A n \in net' : n \in net \/ n.what = "sent"
    <3>1. CASE StillAbout(hook.look)
      <4>1. hook' = [hook EXCEPT !.look.step = "status"] /\ net' = net \cup StatusOf(hook'.look)
        BY <1>6, <3>1 DEF LookGoesOn
      <4>2. \A l : \A n \in StatusOf(l) : n.what = "sent"
        BY DEF StatusOf, Sent
      <4> QED BY <1>0, <4>1, <4>2 DEF Hook
    <3>2. CASE ~StillAbout(hook.look)
      BY <1>0, <1>6, <3>2 DEF LookGoesOn, LookEnds, Hook
    <3> QED BY <3>1, <3>2
  <2> QED BY <2>1, <2>2, ShownQuietly
<1>7. CASE Restore
  <2>1. srv' = srv /\ hook'.active = hook.active
        /\ (\A n \in net' : n \in net \/ n.what = "sent")
        /\ \/ run' = run
           \/ run' = [q \in Run |-> IF q # hook.restore THEN run[q] ELSE [run[q] EXCEPT !.clean = "none"]]
    <3> DEFINE h == [hook EXCEPT !.restore = "none"]
               g == [h EXCEPT !.stage = "none"]
    <3>1. g \in Hook /\ g.active = hook.active /\ h \in Hook
      BY <1>0 DEF Hook
    <3>2. \/ /\ hook' = [h EXCEPT !.pendingRestoration = FALSE, !.restoring = FALSE, !.recoveryPending = FALSE]
             /\ UNCHANGED <<net, run>>
          \/ /\ Refreshes(g)
             /\ run' = [q \in Run |-> IF q # hook.restore THEN run[q] ELSE [run[q] EXCEPT !.clean = "none"]]
      BY <1>7 DEF Restore
    <3>3. srv' = srv
      BY <1>7 DEF Restore
    <3>4. CASE hook' = [h EXCEPT !.pendingRestoration = FALSE, !.restoring = FALSE, !.recoveryPending = FALSE]
               /\ UNCHANGED <<net, run>>
      BY <1>0, <3>3, <3>4 DEF Hook
    <3> HIDE DEF g, h
    <3>5. CASE Refreshes(g) /\ run' = [q \in Run |-> IF q # hook.restore THEN run[q]
                                                    ELSE [run[q] EXCEPT !.clean = "none"]]
      BY <3>1, <3>3, <3>5, RefreshSends
    <3> QED BY <3>2, <3>4, <3>5 DEF h
  <2>2. \A q \in Run : /\ run'[q].job = run[q].job /\ run'[q].state = run[q].state
                       /\ run'[q].begin = run[q].begin
    BY <1>0, <2>1 DEF Types, RunObject
  <2> QED BY <2>1, <2>2, ShownQuietly
<1> QED BY <1>1, <1>2, <1>4, <1>5, <1>6, <1>7, ShownByAttached DEF PageStep, LookReturns

\* Hiding the page or leaving the view shows nothing new.
LEMMA ShownByLeaving ==
    ASSUME ClientInv, ShownInv, Leave
    PROVE  ShownInv' /\ Onward
<1>0. Types /\ hook \in Hook
  BY TypesOK DEF Types
<1>1. PICK g : RequestCleanup(hook.active, g)
  BY DEF Leave, PageHide, Unmount
<1>2. srv' = srv
  BY DEF Leave, PageHide, Unmount
<1>3. hook'.active \in {hook.active, NoRun}
  <2>1. CASE Unmount
    <3>1. hook' = [Unmounted EXCEPT !.look = NoLook]
      BY <2>1 DEF Unmount, RequestCleanup, Unlooks
    <3> QED BY <3>1 DEF Unmounted
  <2>2. CASE PageHide
    <3> DEFINE p == hook.pendingRestoration \/ Target(hook) # NoJob
               v == hook.recoveryPending \/ Target(hook) # NoJob
               h == [hook EXCEPT !.hidden = TRUE, !.restoring = TRUE, !.restore = "none",
                                 !.pendingRestoration = p, !.recoveryPending = v]
    <3>1. hook' = [h EXCEPT !.look = NoLook]
      BY <2>2 DEF PageHide, RequestCleanup, Unlooks
    <3>2. p \in BOOLEAN /\ v \in BOOLEAN
      BY <1>0 DEF Hook
    <3> HIDE DEF p, v
    <3> QED BY <1>0, <3>1, <3>2, LookIs DEF Hook
  <2> QED BY <2>1, <2>2 DEF Leave
<1>4. \A n \in net' : n \in net \/ n.what = "sent"
  <2>1. net' = {m \in net : m.from # "look"}
               \cup {Sent("clean", q, CleanupOp(q), run[q].job) :
                        q \in {i \in Run \cap {hook.active} : Sends(i)}}
    BY <1>1 DEF RequestCleanup, Unlooks
  <2>2. \A q : Sent("clean", q, CleanupOp(q), run[q].job).what = "sent"
    BY DEF Sent
  <2> QED BY <2>1, <2>2
<1>5. \A q \in Run : /\ run'[q].job = run[q].job /\ run'[q].state = run[q].state
                     /\ run'[q].begin = run[q].begin
  <2>1. CASE hook.active \in Run
    BY <1>1, <2>1, CleanupIs DEF Current
  <2>2. CASE hook.active = NoRun
    <3>1. run' = [q \in Run |-> run[q]]
      BY <1>1, <2>2, ClientAssumption DEF RequestCleanup
    <3> QED BY <3>1
  <2> QED BY <1>0, <2>1, <2>2 DEF Hook
<1> QED BY <1>2, <1>3, <1>4, <1>5, ShownQuietly

\* Where no answer to an aborted request arrives, no step shows an earlier state.
LEMMA ShownStep ==
    ASSUME ClientInv, KnownInv, ShownInv, LateAnswers = FALSE, [ClientNext]_clientVars, ClientInv'
    PROVE  ShownInv' /\ Onward
<1>1. CASE Poll
  BY <1>1, ShownByLooking DEF Poll
<1>2. CASE UNCHANGED clientVars
  <2>1. hook' = hook /\ run' = run /\ srv' = srv /\ net' = net
    BY <1>2 DEF clientVars
  <2> QED BY <2>1, ShownQuietly
<1> QED BY <1>1, <1>2, ShownByUser, ShownByPage, ShownByService, ShownByLeaving DEF ClientNext

\* Where an aborted request is never answered, what the user sees of a job never goes back
\* to an earlier state, whichever answers overtake each other (useLargeFileJob.ts:93-101,
\* 255, 266, 291).
THEOREM ClientShownNeverGoesBack ==
    ASSUME LateAnswers = FALSE
    PROVE  ClientSpec => ShownNeverGoesBack
<1>1. ClientInit => ShownInv
  <2> SUFFICES ASSUME ClientInit PROVE ShownInv
    OBVIOUS
  <2>1. net = {} /\ \A r \in Run : run[r] = NoObject
    BY DEF ClientInit
  <2> QED BY <2>1, NoObjectIs DEF ShownInv
<1>2. ClientInv /\ KnownInv /\ ClientInv' /\ ShownInv /\ [ClientNext]_clientVars => ShownInv'
  BY ShownStep
<1>3. ClientSpec => []ShownInv
  BY <1>1, <1>2, ClientInvariant, PTL DEF ClientSpec
<1>4. ClientInv /\ KnownInv /\ ClientInv' /\ ShownInv /\ [ClientNext]_clientVars => Onward
  BY ShownStep
<1>5. Onward => \A r \in Run :
          Current(r) /\ Current(r)' /\ run[r].job # NoJob /\ run'[r].job = run[r].job
          => Order[run'[r].state] >= Order[run[r].state]
  BY DEF Onward
<1> QED BY <1>3, <1>4, <1>5, ClientInvariant, PTL DEF ClientSpec, ShownNeverGoesBack
=============================================================================
