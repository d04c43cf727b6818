--------------------------- MODULE LargeFileClient ---------------------------
(***************************************************************************)
(* The browser's large-file job (web/src/hooks/useLargeFileJob.ts, with    *)
(* api/largeFiles.ts and lib/largeFileRecovery.ts) in one tab: a hook that *)
(* is mounted and unmounted as the user changes the view, a page that is   *)
(* hidden, shown again or reloaded, a job ID in session storage, and a     *)
(* service that answers requests late, in any order or not at all.         *)
(*                                                                         *)
(* A run is the hook's Run object.  Up to four asynchronous functions work *)
(* on it: start (begin), cancel or clear (user), the cleanup on leaving    *)
(* (clean) and refresh (look).  Each awaits one request at a time.  What   *)
(* one does between two awaits is one action.  Definitions that no action  *)
(* uses are faulty forms of the one after them.                            *)
(***************************************************************************)
EXTENDS Naturals, FiniteSets

CONSTANTS
    Run,            \* Run objects; one that nothing refers to is used again
    Job,            \* identifiers the service gives to jobs, each once
    NoRun, NoJob,
    LateAnswers,    \* an aborted request may still be answered
    MaxHides,       \* how often the page is hidden (a bound)
    MaxLeaves       \* how often the user leaves the view (a bound)

ASSUME ClientAssumption ==
    /\ NoRun \notin Run
    /\ "none" \notin Run \cup {NoRun}     \* hook.restore is one of these or "none"
    /\ NoJob \notin Job
    /\ LateAnswers \in BOOLEAN
    /\ MaxHides \in Nat
    /\ MaxLeaves \in Nat

VARIABLES
    srv,        \* srv[j]: the state of job j at the service
    net,        \* the requests and answers on their way
    locator,    \* the job ID in the tab's session storage
    hook,       \* the state and refs of the hook that is mounted
    run,        \* run[r]: the Run object r
    left,       \* how often the user has left the page and the view
    known,      \* history: the jobs whose reservation this tab learnt of
    asked       \* history: the jobs whose cancellation or clearing was asked for

service == <<srv, net>>
history == <<known, asked>>
clientVars == <<srv, net, locator, hook, run, left, known, asked>>

\* The states of a job that the hook tells apart: "waiting" stands for awaiting_upload
\* and ready, "terminal" for complete, failed and cancelled.
Shown == {"waiting", "running", "cancelling", "terminal"}

Look == [run : Run \cup {NoRun}, job : Job \cup {NoJob}, step : {"none", "wait", "status"}]
NoLook == [run |-> NoRun, job |-> NoJob, step |-> "none"]

Hook == [mounted : BOOLEAN, hidden : BOOLEAN,
         active : Run \cup {NoRun},
         pendingId : Job \cup {NoJob}, pendingRestoration : BOOLEAN,
         restoring : BOOLEAN, recoveryPending : BOOLEAN, paused : BOOLEAN,
         stage : {"none", "reserving", "uploading", "starting", "cancelling", "clearing"},
         look : Look,
         restore : Run \cup {NoRun, "none"}]

RunObject == [job : Job \cup {NoJob}, state : Shown \cup {"none"},
              begin : {"none", "create", "upload", "start", "cancel"},
              user : {"none", "cancel", "clear"},
              clean : {"none", "wait", "cancel", "clear", "done"},
              cancelled : BOOLEAN, secret : BOOLEAN, keep : BOOLEAN]

Request == [from : {"begin", "user", "clean", "look"}, run : Run \cup {NoRun},
            op : {"create", "upload", "start", "cancel", "clear", "status"},
            job : Job \cup {NoJob},
            what : Shown \cup {"sent", "expired", "cleared", "error"}]

ClientTypeOK ==
    /\ srv \in [Job -> Shown \cup {"none", "gone"}]
    /\ net \subseteq Request
    /\ hook.look.step # "status" => \A m \in net : m.from # "look"
    /\ locator \in Job \cup {NoJob}
    /\ hook \in Hook
    /\ run \in [Run -> RunObject]
    /\ left \in [page : 0..MaxHides, view : 0..MaxLeaves]
    /\ known \subseteq Job
    /\ asked \subseteq Job

NewRun ==
    [job |-> NoJob, state |-> "none", begin |-> "create", user |-> "none",
     clean |-> "none", cancelled |-> FALSE, secret |-> TRUE, keep |-> FALSE]
RecoveredRun(j, state) ==
    [job |-> j, state |-> state, begin |-> "none", user |-> "none",
     clean |-> "none", cancelled |-> TRUE, secret |-> FALSE, keep |-> TRUE]
NoObject == [NewRun EXCEPT !.begin = "none", !.secret = FALSE]

Unmounted ==
    [mounted |-> FALSE, hidden |-> FALSE, active |-> NoRun, pendingId |-> NoJob,
     pendingRestoration |-> FALSE, restoring |-> FALSE, recoveryPending |-> FALSE,
     paused |-> FALSE, stage |-> "none", look |-> NoLook, restore |-> "none"]

ClientInit ==
    /\ srv = [j \in Job |-> "none"]
    /\ net = {}
    /\ locator = NoJob
    /\ hook = Unmounted
    /\ run = [r \in Run |-> NoObject]
    /\ left = [page |-> 0, view |-> 0]
    /\ known = {}
    /\ asked = {}

-----------------------------------------------------------------------------
\* The service and the connection to it.
Live == {j \in Job : srv[j] \notin {"none", "gone"}}

Sent(from, r, op, j) ==
    [from |-> from, run |-> r, op |-> op, job |-> j, what |-> "sent"]

\* Somebody still waits for the answer to m.
Awaited(m) ==
    CASE m.from = "begin" -> run[m.run].begin = m.op
      [] m.from = "user"  -> run[m.run].user = m.op
      [] m.from = "clean" -> run[m.run].clean = m.op
      [] m.from = "look"  -> hook.look.step = "status"

Answer(m, what, j) ==
    /\ net' = (net \ {m}) \cup {[a EXCEPT !.what = what, !.job = j] : a \in {i \in {m} : Awaited(i)}}
    /\ UNCHANGED <<locator, hook, run, history>>

Reserves(m) ==
    /\ m.op = "create"
    /\ Live = {}
    /\ \E j \in Job : /\ srv[j] = "none"
                      /\ srv' = [srv EXCEPT ![j] = "waiting"]
                      /\ Answer(m, "waiting", j)

\* What a request makes of a job in state s.
Served(op, s) ==
    CASE op = "start" /\ s = "waiting" -> "running"
      [] op = "cancel" /\ s \in {"running", "cancelling"} -> "cancelling"
      [] op = "cancel" /\ s = "waiting" -> "terminal"
      [] op = "clear" /\ s \in {"waiting", "terminal"} -> "gone"
      [] OTHER -> s

Refuses(op, s) ==
    \/ op \in {"upload", "start"} /\ s # "waiting"
    \/ op = "clear" /\ s \in {"running", "cancelling"}

Does(m) ==
    LET s == srv[m.job] IN
    /\ m.op # "create"
    /\ srv' = [srv EXCEPT ![m.job] = Served(m.op, s)]
    /\ Answer(m, IF s = "gone" /\ m.op # "clear" THEN "expired"
                 ELSE IF Refuses(m.op, s) THEN "error"
                 ELSE IF m.op = "clear" THEN "cleared" ELSE Served(m.op, s), m.job)

\* The request or its answer is lost, or the service refuses it for another reason.
Loses(m) == Answer(m, "error", m.job) /\ UNCHANGED srv

Serve(m) == m \in net /\ m.what = "sent" /\ (Reserves(m) \/ Does(m) \/ Loses(m))

\* What becomes of a job by itself: its work or upload ends, or its time is up.
Advance(j) ==
    /\ j \in Live
    /\ \E s \in {"terminal", "gone"} : srv' = [srv EXCEPT ![j] = s]
    /\ UNCHANGED <<net, locator, hook, run, history>>

-----------------------------------------------------------------------------
Current(r) == hook.active = r

\* cancel or clear of the hook is under way (its ref changing).
Changing == hook.active # NoRun /\ run[hook.active].user # "none"

\* A cancel or clear of j that this page has not seen the end of (pendingMutations).
Mutated(j) == \E r \in Run : run[r].job = j /\ run[r].user # "none"

\* Nothing refers to the object r any more.
Free(r) ==
    /\ ~Current(r)
    /\ run[r].begin = "none" /\ run[r].user = "none" /\ run[r].clean \in {"none", "done"}
    /\ \A m \in net : m.run # r
    /\ hook.restore # r
    /\ hook.look.run # r

\* removeLargeFileRecovery takes away its own job only.
WithoutAny(j) == NoJob
Without(j) == IF locator = j THEN NoJob ELSE locator

\* What the answer what tells of its job makes of the stored ID.
AfterAny(what, j) == IF what # "error" THEN Without(j) ELSE locator
After(what, j) == IF what \in {"expired", "cleared"} THEN Without(j) ELSE locator

\* The hook's state h when its job is gone, and after fail.
LetGo(h) ==
    [h EXCEPT !.active = NoRun, !.pendingId = NoJob, !.pendingRestoration = FALSE,
              !.recoveryPending = FALSE, !.restoring = FALSE, !.paused = FALSE,
              !.stage = "none"]
Failed(h, what) == IF what = "expired" THEN LetGo(h) ELSE h

\* ... and after polling was paused first.
MissedSilently(h, what) == Failed(h, what)
Missed(h, what) == Failed([h EXCEPT !.paused = TRUE], what)

\* m answers what the function from awaits about r.
Answered(m, from, r) ==
    /\ m \in net /\ m.from = from /\ m.run = r
    /\ m.what # "sent" /\ Awaited(m)
    /\ from = "begin" /\ m.op # "cancel" /\ run[r].cancelled => LateAnswers

\* The status request is aborted and forgotten, whatever is answered; the hook becomes h,
\* and new is sent.
LooksOn(h, new) == hook' = h /\ net' = net \cup new
Unlooks(h, new) ==
    /\ hook' = [h EXCEPT !.look = NoLook]
    /\ net' = {m \in net : m.from # "look"} \cup new

-----------------------------------------------------------------------------
\* The end of start: its finally clause, for the hook and for the object rr it leaves.
Ended(h, r, rr) ==
    IF h.active # r THEN h
    ELSE [h EXCEPT !.stage = IF rr.cancelled /\ rr.user # "none" THEN @ ELSE "none",
                   !.active = IF rr.cancelled /\ rr.job = NoJob THEN NoRun ELSE @]
EndsWithSecret(h, r, rr) ==
    /\ run' = [run EXCEPT ![r] = [rr EXCEPT !.begin = "none"]]
    /\ hook' = Ended(h, r, [rr EXCEPT !.begin = "none"])
Ends(h, r, rr) ==
    LET over == [rr EXCEPT !.begin = "none", !.secret = FALSE] IN
    /\ run' = [run EXCEPT ![r] = over]
    /\ hook' = Ended(h, r, over)

\* start awaits op next.
Awaits(m, h, r, rr, op) ==
    /\ run' = [run EXCEPT ![r] = [rr EXCEPT !.begin = op]]
    /\ hook' = h
    /\ net' = (net \ {m}) \cup {Sent("begin", r, op, rr.job)}
    /\ asked' = asked \cup {j \in {rr.job} : op = "cancel"}

Locked == hook.restoring \/ hook.recoveryPending \/ hook.stage # "none"

Start(r) ==
    /\ hook.mounted /\ ~hook.hidden
    /\ hook.active = NoRun /\ hook.pendingId = NoJob /\ ~Locked
    /\ Free(r)
    /\ run' = [run EXCEPT ![r] = NewRun]
    /\ hook' = [hook EXCEPT !.active = r, !.pendingRestoration = FALSE,
                            !.paused = FALSE, !.stage = "reserving"]
    /\ net' = net \cup {Sent("begin", r, "create", NoJob)}
    /\ UNCHANGED <<srv, locator, history>>

\* A reservation that comes too late is cancelled; any other is uploaded to, after
\* its ID was stored if the user wants that and the browser can (recoverable).
Reserved(r, m) ==
    /\ Answered(m, "begin", r) /\ m.op = "create" /\ m.what = "waiting"
    /\ known' = known \cup {m.job}
    /\ LET rr == [run[r] EXCEPT !.job = m.job, !.state = m.what] IN
       IF ~Current(r) \/ rr.cancelled
         THEN Awaits(m, hook, r, rr, "cancel") /\ UNCHANGED locator
         ELSE \E saved \in BOOLEAN :
                 /\ locator' = IF saved THEN m.job ELSE locator
                 /\ Awaits(m, [hook EXCEPT !.stage = "uploading"], r,
                           [rr EXCEPT !.keep = saved], "upload")
    /\ UNCHANGED srv

Uploaded(r, m) ==
    /\ Answered(m, "begin", r) /\ m.op = "upload" /\ m.what \in Shown
    /\ IF ~Current(r) \/ run[r].cancelled
         THEN Ends(hook, r, run[r]) /\ net' = net \ {m} /\ UNCHANGED asked
         ELSE Awaits(m, [hook EXCEPT !.stage = "starting"], r,
                     [run[r] EXCEPT !.state = m.what, !.secret = FALSE], "start")
    /\ UNCHANGED <<srv, locator, known>>

\* The answer to a start is shown, unless it was cancelled meanwhile.
Started(r, m) ==
    /\ Answered(m, "begin", r) /\ m.op = "start" /\ m.what \in Shown
    /\ Ends(hook, r, IF Current(r) /\ ~run[r].cancelled
                       THEN [run[r] EXCEPT !.state = m.what] ELSE run[r])
    /\ net' = net \ {m}
    /\ UNCHANGED <<srv, locator, history>>

LateCancelled(r, m) ==
    /\ Answered(m, "begin", r) /\ m.op = "cancel" /\ m.what \in Shown
    /\ Ends(hook, r, IF Current(r) THEN [run[r] EXCEPT !.state = m.what] ELSE run[r])
    /\ net' = net \ {m}
    /\ UNCHANGED <<srv, locator, history>>

\* An error, which only a run that is still wanted takes notice of.
StartFails(r, m) ==
    /\ Answered(m, "begin", r) /\ m.what \in {"expired", "error"}
    /\ LET noticed == Current(r) /\ (m.op = "cancel" \/ ~run[r].cancelled)
           h == Missed(hook, m.what)
       IN /\ Ends(IF ~noticed THEN hook
                  ELSE IF m.op = "create" THEN [h EXCEPT !.active = NoRun, !.stage = "none"]
                  ELSE h, r, run[r])
          /\ locator' = IF noticed THEN After(m.what, m.job) ELSE locator
    /\ net' = net \ {m}
    /\ UNCHANGED <<srv, history>>

\* The abort of a request settles it; the service has served it by then, or never will.
Aborts(r) ==
    /\ run[r].begin \in {"create", "upload", "start"}
    /\ run[r].cancelled
    /\ Ends(hook, r, run[r])
    /\ net' = {m \in net : ~(m.from = "begin" /\ m.run = r)}
    /\ UNCHANGED <<srv, locator, history>>

-----------------------------------------------------------------------------
Cancel(r) ==
    /\ Current(r) /\ ~hook.hidden
    /\ ~Changing /\ ~hook.restoring /\ ~hook.recoveryPending
    /\ hook.stage \notin {"cancelling", "clearing"}
    /\ run[r].state \notin {"terminal", "cancelling"}
    /\ LET sends == run[r].job # NoJob IN
       /\ run' = [run EXCEPT ![r].cancelled = TRUE, ![r].secret = FALSE,
                             ![r].user = IF sends THEN "cancel" ELSE @]
       /\ Unlooks([hook EXCEPT !.paused = FALSE, !.stage = "cancelling"],
                  {Sent("user", i, "cancel", run[i].job) : i \in {k \in {r} : sends}})
       /\ asked' = asked \cup {j \in {run[r].job} : sends}
    /\ UNCHANGED <<srv, locator, known>>

Cancelled(r, m) ==
    /\ Answered(m, "user", r) /\ m.op = "cancel"
    /\ net' = net \ {m}
    /\ run' = [run EXCEPT ![r].user = "none",
                          ![r].state = IF Current(r) /\ m.what \in Shown THEN m.what ELSE @]
    /\ hook' = IF ~Current(r) THEN hook
               ELSE [IF m.what \in Shown THEN hook ELSE Missed(hook, m.what)
                        EXCEPT !.stage = "none"]
    /\ locator' = After(m.what, m.job)
    /\ UNCHANGED <<srv, history>>

Clear(r) ==
    /\ Current(r) /\ ~hook.hidden
    /\ ~Changing /\ ~Locked
    /\ run[r].state \in {"terminal", "waiting"}
    /\ run' = [run EXCEPT ![r].user = "clear"]
    /\ Unlooks([hook EXCEPT !.stage = "clearing"], {Sent("user", r, "clear", run[r].job)})
    /\ asked' = asked \cup {run[r].job}
    /\ UNCHANGED <<srv, locator, known>>

Cleared(r, m) ==
    /\ Answered(m, "user", r) /\ m.op = "clear" /\ m.what = "cleared"
    /\ net' = net \ {m}
    /\ run' = [run EXCEPT ![r].user = "none", ![r].job = NoJob, ![r].state = "none"]
    /\ hook' = IF Current(r) THEN LetGo(hook) ELSE hook
    /\ locator' = After(m.what, m.job)
    /\ UNCHANGED <<srv, history>>

NotCleared(r, m) ==
    /\ Answered(m, "user", r) /\ m.op = "clear" /\ m.what = "error"
    /\ net' = net \ {m}
    /\ run' = [run EXCEPT ![r].user = "none"]
    /\ hook' = IF Current(r) THEN [hook EXCEPT !.stage = "none"] ELSE hook
    /\ UNCHANGED <<srv, locator, history>>

-----------------------------------------------------------------------------
\* refresh.  Its first part, with the hook in state h:
Target(h) == IF h.active = NoRun THEN h.pendingId ELSE run[h.active].job

CanLook(h) == Target(h) # NoJob /\ h.look = NoLook /\ ~Changing

LooksAtOnce(j) == TRUE
LooksNow(j) == ~Mutated(j)

Looking(h) ==
    [h EXCEPT !.look = [run |-> h.active, job |-> Target(h),
                        step |-> IF LooksNow(Target(h)) THEN "status" ELSE "wait"],
              !.restoring = @ \/ h.active = NoRun \/ h.pendingRestoration]

StatusOf(l) == {Sent("look", i.run, "status", i.job) : i \in {k \in {l} : k.step = "status"}}

Refreshes(h) ==
    IF CanLook(h)
      THEN hook' = Looking(h) /\ net' = net \cup StatusOf(Looking(h).look)
      ELSE hook' = h /\ UNCHANGED net

\* The timers of polling and of expiry.
Poll ==
    /\ hook.active # NoRun /\ run[hook.active].job # NoJob
    /\ hook.stage = "none" \/ run[hook.active].state = "terminal"
    /\ ~hook.paused /\ ~hook.restoring /\ ~hook.recoveryPending
    /\ CanLook(hook)
    /\ Refreshes(hook)
    /\ UNCHANGED <<srv, locator, run, history>>

\* The "Retry status" button.
Retry ==
    /\ ~hook.hidden /\ hook.paused
    /\ Target(hook) # NoJob
    /\ CanLook(hook)
    /\ Refreshes(hook)
    /\ UNCHANGED <<srv, locator, run, history>>

\* What refresh found is still what the hook is about.
StillAbout(l) == hook.active = l.run /\ (l.run # NoRun \/ hook.pendingId = l.job)
LookEnds(h) == [h EXCEPT !.look = NoLook, !.restoring = FALSE]

LookGoesOn ==
    /\ hook.look.step = "wait"
    /\ ~Mutated(hook.look.job)
    /\ IF StillAbout(hook.look)
         THEN /\ hook' = [hook EXCEPT !.look.step = "status"]
              /\ net' = net \cup StatusOf(hook'.look)
         ELSE hook' = LookEnds(hook) /\ UNCHANGED net
    /\ UNCHANGED <<srv, locator, run, history>>

\* A status is shown; one for a stored ID makes a new run of it.
Attached(r, m) ==
    /\ m \in net /\ m.from = "look" /\ m.what \in Shown
    /\ StillAbout(hook.look)
    /\ IF m.run = NoRun
         THEN Free(r) /\ run' = [run EXCEPT ![r] = RecoveredRun(m.job, m.what)]
         ELSE r = m.run /\ run' = [run EXCEPT ![r].state = m.what]
    /\ hook' = [LookEnds(hook) EXCEPT !.active = r, !.pendingId = NoJob, !.paused = FALSE,
                                      !.pendingRestoration = FALSE, !.recoveryPending = FALSE]
    /\ known' = known \cup {m.job}
    /\ net' = net \ {m}
    /\ UNCHANGED <<srv, locator, asked>>

LookFails(m) ==
    /\ m \in net /\ m.from = "look" /\ m.what \in {"expired", "error"}
    /\ StillAbout(hook.look)
    /\ hook' = LookEnds(Missed(hook, m.what))
    /\ locator' = After(m.what, m.job)
    /\ net' = net \ {m}
    /\ UNCHANGED <<srv, run, history>>

LookIsLate(m) ==
    /\ m \in net /\ m.from = "look" /\ m.what # "sent"
    /\ ~StillAbout(hook.look)
    /\ hook' = LookEnds(hook)
    /\ net' = net \ {m}
    /\ UNCHANGED <<srv, locator, run, history>>

-----------------------------------------------------------------------------
\* Leaving.  requestCleanup leaves a stored job alone and asks for the end of any other;
\* while a cancel or clear of the user's is under way it waits for that first.
CleanupOp(r) == IF run[r].state = "terminal" THEN "clear" ELSE "cancel"

KeepsAnything(r) == run[r].keep
KeepsIt(r) == run[r].keep /\ locator = run[r].job

MustClean(r) == run[r].job # NoJob /\ run[r].clean = "none" /\ ~KeepsIt(r)

Sends(r) == MustClean(r) /\ run[r].user = "none"

RequestCleanup(r, h) ==
    /\ run' = [q \in Run |->
                  IF q # r THEN run[q]
                  ELSE [run[q] EXCEPT !.cancelled = TRUE, !.secret = FALSE,
                                      !.clean = IF Sends(q) THEN CleanupOp(q)
                                                ELSE IF MustClean(q) THEN "wait" ELSE @]]
    /\ Unlooks(h, {Sent("clean", q, CleanupOp(q), run[q].job) :
                       q \in {i \in Run \cap {r} : Sends(i)}})
    /\ asked' = asked \cup {run[q].job : q \in {i \in Run \cap {r} : Sends(i)}}

CleanupGoesOn(r) ==
    /\ run[r].clean = "wait" /\ run[r].user = "none"
    /\ IF run[r].job = NoJob
         THEN run' = [run EXCEPT ![r].clean = "done"] /\ UNCHANGED <<net, asked>>
         ELSE /\ run' = [run EXCEPT ![r].clean = CleanupOp(r)]
              /\ net' = net \cup {Sent("clean", r, CleanupOp(r), run[r].job)}
              /\ asked' = asked \cup {run[r].job}
    /\ UNCHANGED <<srv, locator, hook, known>>

CleanupEnds(r, m) ==
    /\ Answered(m, "clean", r)
    /\ run' = [run EXCEPT ![r].clean = "done"]
    /\ locator' = After(m.what, m.job)
    /\ net' = net \ {m}
    /\ UNCHANGED <<srv, hook, history>>

PageHide ==
    /\ hook.mounted /\ ~hook.hidden
    /\ LET held == Target(hook) # NoJob IN
       RequestCleanup(hook.active, [hook EXCEPT !.hidden = TRUE, !.restoring = TRUE,
                                                !.restore = "none",
                                                !.pendingRestoration = @ \/ held,
                                                !.recoveryPending = @ \/ held])
    /\ left.page < MaxHides
    /\ left' = [left EXCEPT !.page = @ + 1]
    /\ UNCHANGED <<srv, locator, known>>

PageShow ==
    /\ hook.hidden
    /\ hook' = [hook EXCEPT !.hidden = FALSE, !.restore = hook.active]
    /\ UNCHANGED <<srv, net, locator, run, history>>

\* restoreStatus, after the cleanup and the user's cancel or clear.
RestoredIfCleaned(r) ==
    r \in Run => run[r].clean = "done" /\ run[r].user = "none"
Restored(r) ==
    r \in Run => run[r].clean \in {"none", "done"} /\ run[r].user = "none"

Restore ==
    /\ hook.restore # "none"
    /\ Restored(hook.restore)
    /\ LET r == hook.restore
           h == [hook EXCEPT !.restore = "none"]
           held == IF r = NoRun THEN FALSE ELSE run[r].job # NoJob
       IN IF hook.active # r \/ (~held /\ hook.pendingId = NoJob)
            THEN /\ hook' = [h EXCEPT !.pendingRestoration = FALSE, !.restoring = FALSE,
                                      !.recoveryPending = FALSE]
                 /\ UNCHANGED <<net, run>>
            ELSE /\ run' = [q \in Run |-> IF q # r THEN run[q] ELSE [run[q] EXCEPT !.clean = "none"]]
                 /\ Refreshes([h EXCEPT !.stage = "none"])
    /\ UNCHANGED <<srv, locator, history>>

\* The user goes to another view, and comes back.
Unmount ==
    /\ hook.mounted /\ ~hook.hidden
    /\ RequestCleanup(hook.active, Unmounted)
    /\ left.view < MaxLeaves
    /\ left' = [left EXCEPT !.view = @ + 1]
    /\ UNCHANGED <<srv, locator, known>>

Mount ==
    /\ ~hook.mounted
    /\ LET there == locator # NoJob IN
       Refreshes([Unmounted EXCEPT !.mounted = TRUE, !.pendingId = locator,
                                   !.pendingRestoration = there, !.recoveryPending = there])
    /\ UNCHANGED <<srv, locator, run, history>>

\* The page is reloaded: its functions end, only keepalive requests still arrive.
Reload ==
    /\ ~hook.mounted \/ hook.hidden
    /\ hook' = Unmounted
    /\ run' = [r \in Run |-> NoObject]
    /\ net' = {m \in net : m.op \in {"cancel", "clear"} /\ m.what = "sent"}
    /\ UNCHANGED <<srv, locator, history>>

\* The job ID disappears from the storage while a job is shown.
StorageCleared ==
    /\ ~hook.hidden /\ hook.active # NoRun
    /\ locator # NoJob
    /\ locator' = NoJob
    /\ UNCHANGED <<srv, net, hook, run, history>>

-----------------------------------------------------------------------------
UserStep ==
    \/ \E r \in Run : Start(r) \/ Cancel(r) \/ Clear(r)
    \/ Retry \/ PageShow \/ Mount \/ Reload \/ StorageCleared

Leave == PageHide \/ Unmount

Resumes(r, m) ==
    \/ Reserved(r, m) \/ Uploaded(r, m) \/ Started(r, m) \/ LateCancelled(r, m)
    \/ StartFails(r, m) \/ Cancelled(r, m) \/ Cleared(r, m) \/ NotCleared(r, m)
    \/ CleanupEnds(r, m)

LookReturns ==
    \E m \in net : LookFails(m) \/ LookIsLate(m) \/ \E r \in Run : Attached(r, m)

PageStep ==
    \/ \E r \in Run : Aborts(r) \/ CleanupGoesOn(r) \/ \E m \in net : Resumes(r, m)
    \/ LookReturns \/ LookGoesOn \/ Restore

ServiceStep ==
    \/ \E m \in net : Serve(m)
    \/ \E j \in Job : Advance(j)

ClientNext ==
    \/ (UserStep \/ PageStep \/ Poll \/ ServiceStep) /\ UNCHANGED left
    \/ Leave

ClientSpec == ClientInit /\ [][ClientNext]_clientVars

\* Every request is answered or lost in the end, and a function resumes once what it
\* awaits is settled.  Nothing is assumed of the user, the timers or the jobs.
Among(r, from) == {m \in net : m.run = r /\ m.from = from}

ClientFairness ==
    /\ \A r \in Run \cup {NoRun}, from \in {"begin", "user", "clean", "look"} :
          WF_clientVars(\E m \in Among(r, from) : Serve(m) /\ UNCHANGED left)
    /\ \A r \in Run :
          /\ \A from \in {"begin", "user", "clean"} :
                WF_clientVars(\E m \in Among(r, from) : Resumes(r, m) /\ UNCHANGED left)
          /\ WF_clientVars(Aborts(r) /\ UNCHANGED left)
          /\ WF_clientVars(CleanupGoesOn(r) /\ UNCHANGED left)
    /\ WF_clientVars(LookReturns /\ UNCHANGED left)
    /\ WF_clientVars(LookGoesOn /\ UNCHANGED left)
    /\ WF_clientVars(Restore /\ UNCHANGED left)

FairClientSpec == ClientSpec /\ ClientFairness

-----------------------------------------------------------------------------
\* The stored job ID is given up only when its job is gone at the service, never by the
\* late end of another job or for a newer one (largeFileRecovery.ts:26, docs/API.md:104).
LocatorKept ==
    [][locator # NoJob /\ locator' # locator =>
          srv[locator] = "gone" \/ StorageCleared]_clientVars

\* Whatever the user does, a job the tab learnt of is still in its hands, can be found
\* again by its ID, is gone, or was asked to end (useLargeFileJob.ts:133-157, 237-243).
NoOrphan ==
    \A j \in known \cap Live :
        \/ j \in asked
        \/ locator = j
        \/ hook.active # NoRun /\ run[hook.active].job = j

\* Key and password are kept until they are sent, and no longer than the user wants the
\* run and is on the page (useLargeFileJob.ts:139, 259, 273, 288).
CredentialsShortLived ==
    \A r \in Run :
        run[r].secret => /\ Current(r) /\ ~hook.hidden /\ ~run[r].cancelled
                         /\ run[r].begin \in {"create", "upload"}

Order == [s \in Shown |-> CASE s = "waiting" -> 0 [] s = "running" -> 1
                            [] s = "cancelling" -> 2 [] s = "terminal" -> 3]

\* What the user sees of a job never goes back to an earlier state, whichever answers
\* overtake each other (useLargeFileJob.ts:93-101, 255, 266, 291).
ShownNeverGoesBack ==
    [][\A r \in Run :
          Current(r) /\ Current(r)' /\ run[r].job # NoJob /\ run'[r].job = run[r].job
          => Order[run'[r].state] >= Order[run[r].state]]_clientVars

\* A job that is shown as settled is not about to be cancelled or cleared by what the user
\* asked for earlier, in this view or before leaving it (useLargeFileJob.ts:21, 97-99, 173).
SettledIsUntouched ==
    \A r \in Run :
        Current(r) /\ run[r].job # NoJob /\ ~Locked => ~Mutated(run[r].job)

\* The user is never left with a view that waits for nothing: while it restores or awaits
\* a status, a function is at work on that or the retry button is there
\* (useLargeFileJob.ts:118-125, 169-183; LargeFilesWorkflow.tsx:188).
NeverStranded ==
    hook.mounted /\ ~hook.hidden =>
        /\ hook.restoring => hook.look # NoLook \/ hook.restore # "none"
        /\ hook.recoveryPending => hook.look # NoLook \/ hook.restore # "none" \/ hook.paused

\* A shown page asks for the status only after the cleanup it requested when it was hidden
\* has settled (useLargeFileJob.ts:181).
RevalidatesAfterCleanup ==
    \A r \in Run :
        hook.look.run = r /\ hook.look.step = "status" =>
            run[r].clean \notin {"wait", "cancel", "clear"}

\* A view that is busy with a step or a restoration comes to rest by itself, unless the
\* user leaves it (useLargeFileJob.ts:122-125, 169-183, 272-281, 304-308, 342-346).
ViewSettles ==
    hook.mounted /\ ~hook.hidden /\ (hook.stage # "none" \/ hook.restoring)
        ~> \/ ~hook.mounted \/ hook.hidden
           \/ hook.stage = "none" /\ ~hook.restoring
=============================================================================
