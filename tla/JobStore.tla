------------------------------ MODULE JobStore ------------------------------
(***************************************************************************)
(* The large-file jobs of src/api_jobs.py and their handlers in            *)
(* src/api_app.py, on the worker of CryptoWorker.  A job's lease and its   *)
(* one submitted function (_process) bear the job's name.                  *)
(*                                                                         *)
(* Actors: the event loop, where the code between two awaits is one step;  *)
(* the executor's thread (Process...); a thread of the loop's default      *)
(* executor that performs one file operation at a time (IoDone); clocks    *)
(* and clients.  Definitions that no action uses are mutated forms of the  *)
(* one after them.                                                         *)
(***************************************************************************)
EXTENDS CryptoWorker

CONSTANTS
    Job,        \* FileJob objects
    NoJob,      \* JobStore.job when it is None
    Mode,       \* the modes clients ask for
    MaxStarts   \* bound: start requests of a job past get() at the same time

ASSUME JobAssumption ==
    /\ Job \subseteq Lease
    /\ Job \subseteq Call
    /\ NoJob \notin Job
    /\ Mode \subseteq {"encrypt", "decrypt", "verify"}
    /\ MaxStarts \in Nat

VARIABLES
    job,        \* job[j]: the attributes of the FileJob j
    co,         \* co[j]: where j's coroutines and threads are
    current,    \* JobStore.job
    closing,    \* progress of JobStore.close; JobStore.closed once not "open"
    closingJob  \* the job that JobStore.close works on

storeVars == <<job, co, current>>
closeVars == <<closing, closingJob>>
jobVars == <<storeVars, closeVars>>
vars == <<workerVars, jobVars>>

-----------------------------------------------------------------------------
(* State.                                                                  *)

\* "absent": not reserved yet.  A handle (input, output) is TRUE while open;
\* result stands for FileJob.result and FileJob.verification, which no code
\* treats differently.
JobState == {"absent", "awaiting_upload", "uploading", "ready", "running",
             "cancelling", "complete", "failed", "cancelled"}

JobRecord == [mode : {"none", "encrypt", "decrypt", "verify"},
              state : JobState,
              cancel : BOOLEAN, discard : BOOLEAN, expired : BOOLEAN,
              input : BOOLEAN, output : BOOLEAN, result : BOOLEAN,
              downloading : BOOLEAN]

\* up, run, down: the upload request, the task of _execute, the download response;
\* proc: _process, and then how it ended; io: the handle a file thread is using;
\* interrupt: task.cancel() of the upload or download task still to be raised;
\* starts: start requests that passed get() and await their form.
CoRecord == [up : {"idle", "receiving", "writing", "seeking"},
             run : {"idle", "created", "awaiting", "done"},
             proc : {"idle", "entered", "verifying", "streaming", "rewinding",
                     "ok", "cancelled", "error"},
             down : {"idle", "headers", "seeking", "reading", "sending", "final"},
             io : {"none", "input", "output"},
             interrupt : BOOLEAN,
             starts : 0..MaxStarts]

JobTypeOK ==
    /\ WorkerTypeOK
    /\ job \in [Job -> JobRecord]
    /\ co \in [Job -> CoRecord]
    /\ current \in Job \cup {NoJob}
    /\ closing \in {"open", "upload", "task", "download", "worker", "done"}
    /\ closingJob \in Job \cup {NoJob}

AbsentJob == [mode |-> "none", state |-> "absent",
              cancel |-> FALSE, discard |-> FALSE, expired |-> FALSE,
              input |-> FALSE, output |-> FALSE, result |-> FALSE,
              downloading |-> FALSE]

\* FileJob.__init__
ReservedJob(m) == [AbsentJob EXCEPT !.mode = m,
                                    !.state = "awaiting_upload",
                                    !.input = TRUE]

JobInit ==
    /\ WorkerInit
    /\ job = [j \in Job |-> AbsentJob]
    /\ co = [j \in Job |-> [up |-> "idle", run |-> "idle", proc |-> "idle",
                            down |-> "idle", io |-> "none",
                            interrupt |-> FALSE, starts |-> 0]]
    /\ current = NoJob
    /\ closing = "open"
    /\ closingJob = NoJob

-----------------------------------------------------------------------------
(* FileJob.close_files, JobStore.cancel and _discard_if_finished.          *)

\* The states in which a coroutine owns the job's files.
BusyOnceRunning == {"running", "cancelling"}
Busy == {"running", "cancelling", "uploading"}

\* close_files(keep_output=keep); fails: closing some handle raised OSError.
CloseSpareOutput(r, keep, fails) ==
    [r EXCEPT !.input = FALSE,
              !.output = @ /\ (keep \/ fails),
              !.state = IF fails THEN "failed" ELSE @,
              !.result = @ /\ ~fails]
CloseFiles(r, keep, fails) ==
    [r EXCEPT !.input = FALSE,
              !.output = @ /\ keep /\ ~fails,
              !.state = IF fails THEN "failed" ELSE @,
              !.result = @ /\ ~fails]

CloseMayFail(r, keep) == r.input \/ (r.output /\ ~keep)

Forgettable(r) == r.discard /\ ~r.downloading /\ r.state \notin Busy

\* Every path that ends a job's use of its files: close_files, lease.close and then
\* _discard_if_finished, which still runs when close_files raises.
SettleOrRaise(j, r, keep) ==
    \E fails \in {FALSE} \cup {CloseMayFail(r, keep)} :
        LET s == CloseFiles(r, keep, fails) IN
        /\ job' = [job EXCEPT ![j] = s]
        /\ current' = IF Forgettable(s) /\ current = j THEN NoJob ELSE current
        /\ IF fails THEN UNCHANGED workerVars ELSE CloseLease(j)
Settle(j, r, keep) ==
    \E fails \in {FALSE} \cup {CloseMayFail(r, keep)} :
        LET s == CloseFiles(r, keep, fails) IN
        /\ job' = [job EXCEPT ![j] = s]
        /\ current' = IF Forgettable(s) /\ current = j THEN NoJob ELSE current
        /\ CloseLease(j)

\* JobStore.cancel(job, discard=d)
CancelActive(j, r) ==
    /\ r.state \in Busy
    /\ job' = [job EXCEPT ![j] = [r EXCEPT !.state = "cancelling"]]
    /\ co' = [co EXCEPT ![j].interrupt = @ \/ co[j].up # "idle"]
    /\ UNCHANGED <<workerVars, current>>

CancelDownloadUnheard(j, r) ==
    /\ r.state \notin Busy
    /\ r.downloading
    /\ job' = [job EXCEPT ![j] = r]
    /\ UNCHANGED <<workerVars, co, current>>
CancelDownload(j, r) ==
    /\ r.state \notin Busy
    /\ r.downloading
    /\ job' = [job EXCEPT ![j] = r]
    /\ co' = [co EXCEPT ![j].interrupt = TRUE]
    /\ UNCHANGED <<workerVars, current>>

CancelUnowned(j, r) ==
    /\ r.state \notin Busy
    /\ ~r.downloading
    /\ Settle(j, [r EXCEPT !.state = "cancelled", !.result = FALSE], FALSE)
    /\ UNCHANGED co

Cancel(j, d) ==
    LET r == [job[j] EXCEPT !.cancel = TRUE, !.discard = @ \/ d] IN
    CancelActive(j, r) \/ CancelDownload(j, r) \/ CancelUnowned(j, r)

-----------------------------------------------------------------------------
(* JobStore.get, and the requests and clocks that need no more than it.    *)

Found(j) == current = j /\ ~job[j].discard /\ ~job[j].expired

\* JobStore.reserve, admitted; a refusal changes nothing.
Reserve(j, m) ==
    /\ closing = "open"
    /\ current = NoJob
    /\ Acquire(j)
    /\ job' = [job EXCEPT ![j] = ReservedJob(m)]
    /\ current' = j
    /\ UNCHANGED <<co, closeVars>>

\* The temporary file of a new job cannot be opened: its lease is given back.
ReserveFails(j) ==
    /\ closing = "open"
    /\ current = NoJob
    /\ AcquireAndClose(j)
    /\ UNCHANGED jobVars

\* The fixed deadline passes.
Expire(j) ==
    /\ current = j
    /\ ~job[j].expired
    /\ job' = [job EXCEPT ![j].expired = TRUE]
    /\ UNCHANGED <<workerVars, co, current, closeVars>>

\* JobStore.get on an expired job, before it answers 410.
GetExpired(j) ==
    /\ current = j
    /\ ~job[j].discard
    /\ job[j].expired
    /\ Cancel(j, TRUE)
    /\ UNCHANGED closeVars

\* One round of JobStore.reap; the application stops it before it closes the store.
Reap(j) ==
    /\ closing = "open"
    /\ current = j
    /\ job[j].expired
    /\ Cancel(j, TRUE)
    /\ UNCHANGED closeVars

\* cancel_job
CancelJob(j) ==
    /\ Found(j)
    /\ Cancel(j, FALSE)
    /\ UNCHANGED closeVars

\* clear_job, which finds the job without get(); refused while files are owned.
ClearJob(j) ==
    /\ current = j
    /\ ~job[j].downloading
    /\ job[j].state \notin Busy
    /\ Cancel(j, TRUE)
    /\ UNCHANGED closeVars

-----------------------------------------------------------------------------
(* JobStore.upload and finish_io.                                          *)

UploadBegin(j) ==
    /\ Found(j)
    /\ job[j].state = "awaiting_upload"
    /\ job' = [job EXCEPT ![j].state = "uploading"]
    /\ co' = [co EXCEPT ![j].up = "receiving"]
    /\ UNCHANGED <<workerVars, current, closeVars>>

Receiving(j) ==
    /\ co[j].up = "receiving"
    /\ ~co[j].interrupt
    /\ ~job[j].cancel
    /\ job[j].input

\* A chunk that fits arrives: its first slice is written by a thread.
UploadChunk(j) ==
    /\ Receiving(j)
    /\ co' = [co EXCEPT ![j].up = "writing", ![j].io = "input"]
    /\ UNCHANGED <<workerVars, job, current, closeVars>>

\* The body ends at the reserved size: a thread rewinds the file.
UploadEnd(j) ==
    /\ Receiving(j)
    /\ co' = [co EXCEPT ![j].up = "seeking", ![j].io = "input"]
    /\ UNCHANGED <<workerVars, job, current, closeVars>>

\* The thread's file operation ends, whatever became of the request.
IoDone(j) ==
    /\ co[j].io # "none"
    /\ co' = [co EXCEPT ![j].io = "none"]
    /\ UNCHANGED <<workerVars, job, current, closeVars>>

\* finish_owned gives control back only once the thread is done.
UploadResumed(j) ==
    /\ co[j].up \in {"writing", "seeking"}
    /\ co[j].io = "none"

\* The next slice of the same chunk, or the wait for the next chunk.
UploadWritten(j) ==
    /\ UploadResumed(j)
    /\ ~co[j].interrupt
    /\ co[j].up = "writing"
    /\ \/ co' = [co EXCEPT ![j].up = "receiving"]
       \/ co' = [co EXCEPT ![j].io = "input"]
    /\ UNCHANGED <<workerVars, job, current, closeVars>>

UploadReady(j) ==
    /\ UploadResumed(j)
    /\ ~co[j].interrupt
    /\ co[j].up = "seeking"
    /\ co' = [co EXCEPT ![j].up = "idle"]
    /\ job' = [job EXCEPT ![j].state = "ready"]
    /\ UNCHANGED <<workerVars, current, closeVars>>

\* Any exception in upload: cancellation seen or raised, the client gone, a wrong
\* size, a failed write.
UploadFails(j) ==
    /\ co[j].up = "receiving" \/ UploadResumed(j)
    /\ co' = [co EXCEPT ![j].up = "idle", ![j].interrupt = FALSE]
    /\ Settle(j, [job[j] EXCEPT !.state = IF job[j].cancel THEN "cancelled"
                                                           ELSE "failed"], FALSE)
    /\ UNCHANGED closeVars

-----------------------------------------------------------------------------
(* start_job, JobStore._execute and _process.                              *)

\* start_job finds the job and awaits its form and key file.
StartRequest(j) ==
    /\ Found(j)
    /\ co[j].starts < MaxStarts
    /\ co' = [co EXCEPT ![j].starts = @ + 1]
    /\ UNCHANGED <<workerVars, job, current, closeVars>>

\* The request is refused: a bad form, or a job that is not ready any more.
StartRefused(j) ==
    /\ co[j].starts > 0
    /\ co' = [co EXCEPT ![j].starts = @ - 1]
    /\ UNCHANGED <<workerVars, job, current, closeVars>>

\* The test of JobStore.start, on the job that start_job found before it waited.
StartableIfUploaded(j) == co[j].run = "idle" /\ job[j].state # "awaiting_upload"
Startable(j) == job[j].state = "ready"

Started(j) ==
    /\ co[j].starts > 0
    /\ Startable(j)
    /\ job' = [job EXCEPT ![j].state = "running"]
    /\ co' = [co EXCEPT ![j].starts = @ - 1, ![j].run = "created"]
    /\ UNCHANGED <<workerVars, current, closeVars>>

\* The task of _execute begins: run_owned submits _process.
ExecuteBegin(j) ==
    /\ co[j].run = "created"
    /\ Submit(j, j)
    /\ co' = [co EXCEPT ![j].run = "awaiting"]
    /\ UNCHANGED <<job, current, closeVars>>

ProcessStart(j) ==
    /\ Start(j)
    /\ co' = [co EXCEPT ![j].proc = "entered"]
    /\ UNCHANGED <<job, current, closeVars>>

\* The key is loaded and, unless the file is only verified, the output created.
ProcessEnter(j) ==
    /\ co[j].proc = "entered"
    /\ ~job[j].cancel
    /\ \/ /\ job[j].mode = "verify"
          /\ co' = [co EXCEPT ![j].proc = "verifying"]
          /\ UNCHANGED job
       \/ /\ job[j].mode # "verify"
          /\ co' = [co EXCEPT ![j].proc = "streaming"]
          /\ job' = [job EXCEPT ![j].output = TRUE]
    /\ UNCHANGED <<workerVars, current, closeVars>>

\* verify_stream, encrypt_stream or decrypt_stream succeeds; it need not have seen
\* a cancellation that came after its last poll.
ProcessStreamed(j) ==
    /\ co[j].proc \in {"verifying", "streaming"}
    /\ job' = [job EXCEPT ![j].result = TRUE]
    /\ co' = [co EXCEPT ![j].proc = IF @ = "verifying" THEN "ok" ELSE "rewinding"]
    /\ UNCHANGED <<workerVars, current, closeVars>>

ProcessRewound(j) ==
    /\ co[j].proc = "rewinding"
    /\ co' = [co EXCEPT ![j].proc = "ok"]
    /\ UNCHANGED <<workerVars, job, current, closeVars>>

\* OperationCancelled, at a poll of the cancel event.
ProcessCancelled(j) ==
    /\ co[j].proc \in {"entered", "verifying", "streaming"}
    /\ job[j].cancel
    /\ co' = [co EXCEPT ![j].proc = "cancelled"]
    /\ UNCHANGED <<workerVars, job, current, closeVars>>

\* A rejected key, a failed authentication, an I/O error.
ProcessError(j) ==
    /\ co[j].proc \in {"entered", "verifying", "streaming", "rewinding"}
    /\ co' = [co EXCEPT ![j].proc = "error"]
    /\ UNCHANGED <<workerVars, job, current, closeVars>>

ProcessReturn(j) ==
    /\ co[j].proc \in {"ok", "cancelled", "error"}
    /\ Return(j)
    /\ UNCHANGED jobVars

ProcessFinished(j) ==
    /\ WorkFinished(j)
    /\ UNCHANGED jobVars

\* The state _execute gives a job whose _process ended.
OutcomeIgnoringCancel(j) ==
    CASE co[j].proc = "ok" -> "complete"
      [] co[j].proc = "cancelled" -> "cancelled"
      [] OTHER -> "failed"
Outcome(j) ==
    CASE co[j].proc = "ok" -> IF job[j].cancel THEN "cancelled" ELSE "complete"
      [] co[j].proc = "cancelled" -> "cancelled"
      [] OTHER -> "failed"

\* _execute resumes after run_owned and cleans up.
ExecuteEnd(j) ==
    /\ co[j].run = "awaiting"
    /\ call[j] = "settled"
    /\ co' = [co EXCEPT ![j].run = "done"]
    /\ LET done == Outcome(j) = "complete" IN
       Settle(j, [job[j] EXCEPT !.state = Outcome(j), !.result = @ /\ done], done)
    /\ UNCHANGED closeVars

-----------------------------------------------------------------------------
(* download_job, JobDownloadResponse and JobStore.download.                *)

\* begin_download; the response's task starts to send in the same step.
DownloadBegin(j) ==
    /\ Found(j)
    /\ job[j].state = "complete"
    /\ job[j].output
    /\ job[j].result
    /\ ~job[j].downloading
    /\ job' = [job EXCEPT ![j].downloading = TRUE]
    /\ co' = [co EXCEPT ![j].down = "headers"]
    /\ UNCHANGED <<workerVars, current, closeVars>>

\* The headers are sent: the iterator is entered and rewinds the output.
DownloadSeek(j) ==
    /\ co[j].down = "headers"
    /\ ~co[j].interrupt
    /\ co' = [co EXCEPT ![j].down = "seeking", ![j].io = "output"]
    /\ UNCHANGED <<workerVars, job, current, closeVars>>

\* The iterator looks at the cancel event and reads the next chunk.
Read(j) ==
    IF job[j].cancel
      THEN co' = [co EXCEPT ![j].down = "final"]
      ELSE co' = [co EXCEPT ![j].down = "reading", ![j].io = "output"]

DownloadNext(j) ==
    /\ ~co[j].interrupt
    /\ \/ co[j].down = "sending"
       \/ co[j].down = "seeking" /\ co[j].io = "none"
    /\ Read(j)
    /\ UNCHANGED <<workerVars, job, current, closeVars>>

\* A chunk was read and is sent, or the file is at its end.
DownloadRead(j) ==
    /\ co[j].down = "reading"
    /\ co[j].io = "none"
    /\ ~co[j].interrupt
    /\ \E next \in {"sending", "final"} : co' = [co EXCEPT ![j].down = next]
    /\ UNCHANGED <<workerVars, job, current, closeVars>>

\* The client leaves while a thread reads: the response's task group is cancelled.
DownloadDisconnect(j) ==
    /\ co[j].io = "output"
    /\ co' = [co EXCEPT ![j].interrupt = TRUE]
    /\ UNCHANGED <<workerVars, job, current, closeVars>>

\* finish_download, with JobDownloadResponse's last step; the cancel in it finds the
\* job settled.
FinishDownload(j) ==
    LET r == [job[j] EXCEPT !.downloading = FALSE] IN
    /\ co' = [co EXCEPT ![j].down = "idle", ![j].interrupt = FALSE]
    /\ IF r.cancel
         THEN Settle(j, [r EXCEPT !.state = "cancelled", !.result = FALSE], FALSE)
         ELSE job' = [job EXCEPT ![j] = r] /\ UNCHANGED <<workerVars, current>>
    /\ UNCHANGED closeVars

\* The response ends after its final send, or because of an interrupt, a client
\* that left or a failed read; never while a thread reads.
DownloadEndEarly(j) == co[j].down # "idle" /\ FinishDownload(j)
DownloadEnd(j) ==
    /\ co[j].down # "idle"
    /\ co[j].io = "none"
    /\ FinishDownload(j)

-----------------------------------------------------------------------------
(* JobStore.close, which the application runs when it shuts down.          *)

CloseBegin ==
    /\ closing = "open"
    /\ \/ /\ current = NoJob
          /\ closing' = "worker"
          /\ UNCHANGED <<workerVars, storeVars, closingJob>>
       \/ \E j \in Job : /\ current = j
                         /\ Cancel(j, TRUE)
                         /\ closing' = "upload"
                         /\ closingJob' = j

\* The awaits of job.upload_task, job.task and job.download_finished, in turn.
CloseAwaited ==
    /\ \/ /\ closing = "upload"
          /\ co[closingJob].up = "idle"
          /\ closing' = "task"
       \/ /\ closing = "task"
          /\ co[closingJob].run \in {"idle", "done"}
          /\ closing' = "download"
    /\ UNCHANGED <<workerVars, storeVars, closingJob>>

CloseJobFiles ==
    /\ closing = "download"
    /\ ~job[closingJob].downloading
    /\ closing' = "worker"
    /\ Settle(closingJob, job[closingJob], FALSE)
    /\ UNCHANGED <<co, closingJob>>

CloseStoreWorker ==
    /\ closing = "worker"
    /\ CloseWorker
    /\ UNCHANGED jobVars

CloseEnd ==
    /\ closing = "worker"
    /\ stopping = "stopped"
    /\ closing' = "done"
    /\ UNCHANGED <<workerVars, storeVars, closingJob>>

-----------------------------------------------------------------------------
\* Client requests; none of them need ever come.
RequestStep(j) ==
    \/ \E m \in Mode : Reserve(j, m)
    \/ ReserveFails(j)
    \/ GetExpired(j) \/ CancelJob(j) \/ ClearJob(j)
    \/ UploadBegin(j) \/ UploadChunk(j) \/ UploadEnd(j)
    \/ StartRequest(j) \/ StartRefused(j) \/ Started(j)
    \/ DownloadBegin(j) \/ DownloadSeek(j) \/ DownloadDisconnect(j)

UploadStep(j) == UploadWritten(j) \/ UploadReady(j) \/ UploadFails(j)

DownloadStep(j) == DownloadNext(j) \/ DownloadRead(j) \/ DownloadEnd(j)

ProcessStep(j) ==
    \/ ProcessStart(j) \/ ProcessEnter(j) \/ ProcessStreamed(j)
    \/ ProcessRewound(j) \/ ProcessCancelled(j) \/ ProcessError(j)
    \/ ProcessReturn(j) \/ ProcessFinished(j)

ExecuteStep(j) == ExecuteBegin(j) \/ ExecuteEnd(j)

JobStep(j) ==
    \/ RequestStep(j)
    \/ Expire(j) \/ Reap(j)
    \/ IoDone(j)
    \/ UploadStep(j) \/ DownloadStep(j) \/ ProcessStep(j) \/ ExecuteStep(j)

CloseStep ==
    CloseBegin \/ CloseAwaited \/ CloseJobFiles \/ CloseStoreWorker \/ CloseEnd

\* The worker's other clients (the short requests of CryptoAdmissionMiddleware) and
\* the thread that empties the executor's queue.
OtherStep ==
    /\ \/ \E l \in Lease \ Job : ClientStep(l, Call \ Job)
       \/ \E c \in Call \ Job : CallStep(c)
       \/ Drained
       \/ Joined
    /\ UNCHANGED jobVars

JobNext == (\E j \in Job : JobStep(j)) \/ CloseStep \/ OtherStep

JobSpec == JobInit /\ [][JobNext]_vars

\* Fair: the loop resumes coroutines whose file operation or function ended and
\* raises pending cancellations, threads finish what they execute, the deadline
\* passes and the reaper looks, JobStore.close goes on.  Not fair: the client, who
\* may stop sending or receiving for ever.
Interrupted(j) == co[j].interrupt /\ (UploadFails(j) \/ DownloadEnd(j))
DownloadRewound(j) == co[j].down = "seeking" /\ DownloadNext(j)

JobFairness(j) ==
    /\ WF_vars(Expire(j))
    /\ WF_vars(Reap(j))
    /\ WF_vars(IoDone(j))
    /\ WF_vars(UploadWritten(j) \/ UploadReady(j))
    /\ WF_vars(DownloadRewound(j) \/ DownloadRead(j))
    /\ WF_vars(Interrupted(j))
    /\ WF_vars(ProcessStep(j))
    /\ WF_vars(ExecuteStep(j))

StoreFairness ==
    /\ \A j \in Job : JobFairness(j)
    /\ WF_vars(CloseAwaited \/ CloseJobFiles \/ CloseStoreWorker \/ CloseEnd)
    /\ WF_vars((Drained \/ Joined) /\ UNCHANGED jobVars)
    /\ \A c \in Call \ Job :
           WF_vars((Start(c) \/ Return(c) \/ WorkFinished(c)) /\ UNCHANGED jobVars)

FairJobSpec == JobSpec /\ StoreFairness

-----------------------------------------------------------------------------
\* No handle is closed while a thread uses it: not by a cancel, a clear, an expiry,
\* a shutdown or a client that leaves, at any point of an upload, of _process or of
\* a download (api_jobs.py:39-42, 172-192; docs/API.md:102).
OwnedFilesStayOpen ==
    \A j \in Job :
        /\ co[j].io = "input" => job[j].input
        /\ co[j].io = "output" => job[j].output
        /\ co[j].proc \in {"entered", "verifying", "streaming", "rewinding"} =>
              job[j].input
        /\ co[j].proc \in {"streaming", "rewinding"} => job[j].output

Working == {"awaiting_upload", "uploading", "ready", "running", "cancelling"}
Ended == {"complete", "failed", "cancelled"}

\* The job's state tells who has the worker: from its reservation until it ends, a
\* job keeps admission, and an ended job has given it back, also when its files
\* failed to close (api_jobs.py:105-129; docs/API.md:96).
AdmissionFollowsState ==
    \A j \in Job : slot = j <=> job[j].state \in Working

\* An ended job has no task and no input left; unless it is complete it has no
\* output, no result and no download either; and a job the store has let go of has
\* no handle at all: no temporary file outlives its job (api_jobs.py:194-200).
EndedJobOwnsNothing ==
    \A j \in Job :
        /\ job[j].state \in Ended =>
              /\ ~job[j].input
              /\ co[j].up = "idle"
              /\ co[j].run \in {"idle", "done"}
        /\ job[j].state \in {"failed", "cancelled"} \/ current # j =>
              ~job[j].output /\ ~job[j].result /\ co[j].down = "idle"

\* A complete job, the only one whose snapshot shows a result, went through all of
\* _process without error, and keeps that result and its output until it is
\* cancelled or discarded (api_jobs.py:93-96, 383; docs/API.md:94-96).
CompleteJobHasResult ==
    \A j \in Job :
        job[j].state = "complete" =>
            /\ co[j].proc = "ok"
            /\ job[j].result
            /\ job[j].output <=> job[j].mode # "verify"

\* A job whose cancellation was requested never becomes complete afterwards, and if
\* nothing owned its files it never works again, whatever requests found it before
\* (a start that was waiting for its key file, api_app.py:1170-1183).
CancelIsFinal ==
    [][\A j \in Job :
          job[j].cancel =>
              /\ job'[j].state = "complete" => job[j].state = "complete"
              /\ job'[j].state \in Working => job[j].state \in Busy]_vars

\* JobStore.close turns to the worker only when no job has a handle, a file operation,
\* a task or a function on the executor left, and nobody else closes the worker: its
\* shutdown never cuts a job's work short, and a task of _execute that begins is never
\* refused by the worker it was admitted to (api_jobs.py:399-416).
ClosedStoreOwnsNothing ==
    /\ closed => closing \in {"worker", "done"}
    /\ \A j \in Job : co[j].run = "created" => Accepts(j)
    /\ closing \in {"worker", "done"} =>
          \A j \in Job :
              /\ ~job[j].input /\ ~job[j].output
              /\ co[j].io = "none" /\ co[j].up = "idle" /\ co[j].down = "idle"
              /\ co[j].run \in {"idle", "done"}
              /\ call[j] \notin Outstanding

\* Every reservation ends, if only because its deadline passes: a client that stops
\* sending, never starts, or stops receiving cannot keep the store and the worker
\* for ever (api_jobs.py:172-183, 390-397; docs/API.md:100-102).
ReservationEnds == \A j \in Job : current = j ~> current # j

\* JobStore.close returns, whatever is going on when it starts (api_jobs.py:399-416).
CloseReturns == closing # "open" ~> closing = "done"

\* How far a client of the API sees a job in that state.
Stage(state) ==
    CASE state = "absent" -> "absent"
      [] state \in Working -> "working"
      [] state = "complete" -> "available"
      [] state \in {"failed", "cancelled"} -> "over"

\* The store keeps the promise of docs/API.md: one job at a time, no result after a
\* cancellation, every doomed job brought to its end, only doomed jobs forgotten.
Life == INSTANCE JobLifecycle WITH
    stage <- [j \in Job |-> Stage(job[j].state)],
    doomed <- [j \in Job |-> job[j].cancel],
    retained <- current

ImplementsLifecycle == Life!FairLifeSpec
=============================================================================
