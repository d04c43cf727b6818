# Quantum Encryptor in TLA+

Specifications of Quantum Encryptor: the background worker that runs native cryptography, the
large-file jobs built on it, the short HTTP requests that share it, how the command line publishes
its files, how a directory is backed up and restored, how a container is read and written as a stream,
what key files and containers of every format open with, and how a browser tab drives a job, encrypts a
batch and inspects a key over an unreliable connection to a service that may restart. TLC checks them on
small instances; TLAPS proves the safety of the worker, the jobs, the service, the publication of files, the
backup and restoration of a directory, the streams, the job client, the API client and the view of batch
encryption for every instance.

Paths below are relative to the repository; `api_jobs.py:172` is a line of it.

## 1. The system

| Component | Where | State it keeps | Operations | What makes it correct |
|---|---|---|---|---|
| Crypto worker, leases | `api_worker.py` | the admitted lease, per lease a closed flag and a count of unfinished functions, one executor thread | acquire, run, run_owned, close (lease), close (worker), the done callback | one lease at a time; given back exactly when its request and its functions are over; shutdown returns |
| Large-file job store | `api_jobs.py` | the retained job: state, cancel/discard flags, two file handles, result, tasks, download flag, deadline | reserve, upload, start, `_process`, `_execute`, begin/finish download, cancel, reap, close | nobody closes a file in use; admission, handles and result follow the state; cancellation is final; every reservation ends |
| HTTP service | `api_app.py` | the store and the worker, the per-process token | job handlers, short cryptographic handlers, admission middleware, guards, body limit, lifespan | the short requests and the job never run native code together; a request is refused before a handler has it; every refusal has its code |
| Command line | `pqc_agent_tools.py` | files | generate-keys, encrypt, decrypt, verify, inspect, rewrap, recover, backup, restore | a staged output is absent, old or whole, also after a power failure; no command takes another's file without `--overwrite`; no private key without its public one |
| Directory archives | `crypto_archive.py` | an inventory of a directory, a staging directory | pack, validate, extract | what is packed is what was listed; an archive has one reading and is restored as listed; an extraction appears whole or not at all |
| Streaming container | `crypto_stream.py` | reader position, withheld tail, cipher contexts | encrypt, decrypt (two passes), verify | nothing unauthenticated is released; limits hold at the boundary |
| Formats and keys | `crypto_core.py`, `crypto_config.py` | none; the files a user keeps | PEM and header parsing and writing, locks, fingerprints, in-memory encryption | a file opens with what it was written for and nothing else, whatever was edited or spliced |
| Browser | `web/src` (hooks, api, lib, features) | hook state, epochs, a recovery locator in session storage, the token's cookie, one shared health request | large-file job, batches, key inspection, API client | late answers never replace newer state; a job can be recovered or is cleared; a request is worked on at most once, and only where its fingerprint is compared |
| Tooling | `scripts/`, `.github/`, `tests/`, `docs/` | | | not part of the running program |

liboqs, `cryptography`, Starlette, asyncio and CPython's `ThreadPoolExecutor` are external.

**How they interact.** Every short cryptographic request passes `CryptoAdmissionMiddleware`, which
acquires a lease before it reads the body and closes it when the response is over. A job acquires a
lease when it is reserved and closes it when it ends. Both submit functions to the worker's single
thread through their lease. Job coroutines and handlers run on one event loop; file reads and writes
of uploads and downloads run on threads of the loop's default executor; `_process` runs on the
worker's thread. Cancelling a coroutine stops none of these threads. The application's lifespan stops
the reaper and then runs `JobStore.close`, which closes the worker last. The browser drives the job
handlers by polling; its hooks share one API client, which fetches the token's cookie with the health
request and renews it once when a restarted service refuses it. The command line uses the streaming and
archive code without the service; both front ends share the keys and containers of `crypto_core.py`.

**What is hard.** A lease is released from two threads by whichever event is last. Cancellation,
expiry, clearing and shutdown reach a job at any await and must leave its files to the thread that
uses them. `start_job` acts on a job it found before it awaited a form. Clients may stop sending or
receiving for ever. Closing a file may itself fail. The power fails between two system calls. The service
restarts, also as an older version, between a health check and the request it was for. Key files carry
their suite and lock in lines that anyone can edit. `hazards` in `PROJECT.json` lists these at their lines.

## 2. Modules

| Module | Models | Correspondence |
|---|---|---|
| `AdmissionSlot` | abstract | what the worker promises: one slot, kept exactly until request and work are over |
| `CryptoWorker` | `api_worker.py` | `slot`, `closed`, `life`, `pending` are the attributes; `call`/`owner` the futures; one action per region under `_lock`, per step of the executor's thread and per phase of `close` |
| `JobLifecycle` | abstract | what `docs/API.md:94-102` promises of a job |
| `JobStore` | `api_jobs.py`, the job handlers of `api_app.py` | `job[j]` is the `FileJob`, `co[j]` where its coroutines and threads stand, `current` is `JobStore.job`, `closing` how far `JobStore.close` is; extends `CryptoWorker` |
| `CryptoAdmission` | `CryptoAdmissionMiddleware` and the short handlers | `req[r]` is where request `r` stands; extends `CryptoWorker` |
| `CryptoService` | `create_app` | composes `JobStore` and `CryptoAdmission` on one worker |
| `FilePublication` | `pqc_agent_tools.py:152-353, 744-778` | `cmd[p]`, `pc[p]`, `out[p]`, `result[p]` are a running command; `dir`, `disk`, `data`, `synced` the file system it sees and what of it a power failure leaves |
| `LargeFileClient` | `useLargeFileJob.ts`, `largeFiles.ts`, `largeFileRecovery.ts` | `hook` holds the state and refs of the mounted hook, `run[r]` a `Run` object and where the functions that hold it stand, `locator` the stored ID, `net` the requests and answers on their way, `srv` the jobs |
| `CryptoStream` | `crypto_stream.py`, `_read_encrypted_file_header` | `reader`, `header`, `snapshot`, `tail`, `sink` are the variables of that name, `fed` what the cipher context was updated with, `source` the input another process may change |
| `ArchivePacking` | `crypto_archive.py:154-281` | `tree`, `stamp`, `text` are the file system, `pack` what `pack_directory` has seen and written, `moment` a history |
| `ArchiveRestoring` | `crypto_archive.py:412-568` | `rest` is where `extract_archive` stands, `entry`, `payload`, `box` what it has made, `other` the destination, `lasting` what was synced |
| `ArchiveListing` | `crypto_archive.py:38-152, 283-411` and what `extract_archive` makes of a listing | `archive` is a ZIP file as a sequence of cells, `listing` the operation (`paths` is the map of `_register_path`), `made` the files restored by what the file system tells apart |
| `DirectoryArchive` | `crypto_archive.py` | composes the three as exclusive scenarios: a process packs, restores or lists |
| `KeyFormats` | `crypto_core.py`, `crypto_config.py` | key files, their locks, fingerprints and containers as values; every parser as the sequence of its checks |
| `KeyWorkflows` | the key and file handlers of `api_app.py`, the opening of a job in `api_jobs.py`, the commands of `pqc_agent_tools.py` | `pems`, `boxes` are the files there are, `written`, `sealed` what the program made and for what; a handler is an operator that says its answer, and an action when it makes a file |
| `ApiClient` | `client.ts`, the requests of `largeFiles.ts`, the guard and health answer of `api_app.py` | `api` is the module state of a page (`loaded`, `health`, the cookie `jar`, the requests), `service` the running process, `wire` the copies on their way, `handled` a history |
| `BatchFiles`, `KeyInspection` | `useBatchFiles.ts`, `useKeyInspection.ts` | `batch`, `runs`: the hook and its calls of `start`; `inspection`, `effects`: the hook and its effects; both extend `ApiClient` |
| `BatchEncryption` | `BatchEncryptWorkflow.tsx` | composes the two hooks and requests of other views on one API client |
| `JobStore_proofs`, `CryptoService_proofs`, `FilePublication_proofs`, `DirectoryArchive_proofs`, `CryptoStream_proofs`, `LargeFileClient_proofs`, `BatchEncryption_proofs`, `KeyWorkflows_proofs` | | theorems about the modules they are named for and those they extend |
| `MCJobStore`, `MCCryptoService`, `MCFilePublication`, `MCLargeFileClient`, `MCCryptoStream`, `MCDirectoryArchive`, `MCKeyWorkflows`, `MCBatchEncryption` | | the instances TLC checks; the worker is checked within the store and the service |

Grain of the model:

- The event loop runs one coroutine between two awaits, so that code is one action. A `with _lock`
  region is one action. Threads interleave with all of these.
- The future of a function goes `queued`, `running`, `returned` (result set, callbacks to run),
  `settled` (`_work_finished` has run, an awaiting coroutine can resume). The executor's queue is a
  set: which queued function is next is left open, which allows more behaviours than FIFO.
- `AcquireAndClose` is one step because `reserve` does both without an await. A `submit` that the
  executor refuses undoes its count under the same lock and changes nothing.
- `Settle` is every way a job's use of its files ends: `close_files`, which may raise for either
  handle, `lease.close` in its `finally`, then `_discard_if_finished`; all of it runs without an await.
- `FileJob.result` stands for `result` and `verification`: no code treats them differently. Sizes,
  names, progress, error codes and key material are left out; a chunk fits or the upload fails.
- Time: `Expire` is the passing of the deadline. It can come at any moment.
- `finish_owned` shields a file operation: an interrupt is remembered (`interrupt`) and raised once
  `IoDone` has happened.
- A coroutine's end may always be an error (`UploadFails`, `DownloadEnd`, `ProcessError`): network,
  disk and cryptographic failures are nondeterministic.
- The mode `"encrypt"` takes the same steps as `"decrypt"` in the store, so the runs use `decrypt` and
  `verify`; the theorems hold for all three.
- If `close_files` raises inside `JobStore.close`'s own cancel, the code goes to the worker at once;
  the model goes through the three awaits, none of which then waits.
- `FilePublication`: one action per system call. A file is named for the command and the output it is
  for, a name is an output or a command's temporary file. `dir[n]` is what a name is bound to now, `disk[n]`
  the bindings a power failure may leave: all since the directory was last synced, which a sync narrows
  to the present one (for the names it was called for; other names in the same directory stay open, which
  allows more). Content is `partial` until written and may be lost until `fsync`. Streams (encryption,
  decryption, key maintenance, backup) stage their output; `generate-keys` stages each file with
  `--overwrite` and otherwise creates it under its name. Modes, path validation and symlinks are left out,
  and so is Windows, where directories are not synced.
- `LargeFileClient`: up to four asynchronous functions work on a `Run`: `start` (`begin`), `cancel` or
  `clear` (`user`), the cleanup of `requestCleanup` (`clean`) and `refresh` (`hook.look`). What one does
  between two awaits is one action. `waiting` stands for `awaiting_upload` and `ready`, `terminal` for
  `complete`, `failed` and `cancelled`; an upload is served at once or not at all. The refs `changing` and
  `mutation` and the map `pendingMutations` are read off `run[r].user`; `epoch` is left out because each
  place that raises it also aborts the status request. Whether the user wants the ID stored and whether
  the storage takes it is one choice (`saved`). The guards of the buttons
  (`LargeFilesWorkflow.tsx:55-64, 176, 188-190`) are part of the user's actions. A reload ends every
  function and keeps only the `keepalive` requests (cancel, clear). Left out: the messages and flags
  `error`, `expired`, `recovered`, `canRecover`, upload progress, response parsing, downloads.
- An aborted request (`largeFiles.ts`) settles with an abort error, whether or not the service has served
  it (`Aborts`). The hook and its tests also take an answer after an abort (`useLargeFileJob.ts:237-244`):
  `LateAnswers` allows it. With late answers and a hidden page together `ShownNeverGoesBack` fails, on a
  reservation that is answered while a later status is shown; the operations of `largeFiles.ts` do not do that.
- `CryptoStream`: a byte is a tuple. Plaintext bytes are themselves; a ciphertext byte names the key, its
  position and its plaintext; a tag byte names the key, the header and the ciphertext: AES-GCM is taken to
  be ideal. The header is reduced to the length of the suite's name and the name, which is what its length
  depends on; KEM, ephemeral key and nonce add nothing to the reading. A private key is of one suite
  (`expected_kem_alg`), and of the legacy suite it may yield two keys (`_candidate_keys`). Sources can seek
  or not, a read returns any number of bytes up to what was asked for, and the source may be replaced
  between any two reads. A cancellation or a failing read or write is `Interrupted`.
- `ArchivePacking`: one action per system call or comparison. A `stat` is the inode and its stamp, which
  every change renews: two changes of an inode are assumed not to leave the same device, inode, mode, size and
  times (a change within one tick of a coarse clock, or one that an owner hides by resetting times, would;
  `ctime` cannot be reset). Directories are nested to any depth, and a change at any of them takes all below with it
  (`Within`). A listing is not one step: each child is found and looked at by itself (`ScanChild`), in any order, and
  `ScanEnds` asks only what `readdir` promises, that an entry which was there all the time is not missed: the children
  of a directory whose stamp is still the one it was opened with have all been found. Files are copied in any order
  (the code sorts them); limits, special files, names that are not portable and the validation of the finished ZIP are
  `PackFails`. Stamps of directories change when an entry is bound or removed.
- `ArchiveRestoring`: `box` is the private directory with a random name, `payload` the directory in it that is
  renamed. A subdirectory comes with the first of its files. `InterruptedLate` is an interruption that is
  raised between the rename and the assignment of `published`. Between `mkdir` and the look at what was made
  (`LookingFails`, lines 468-471) nothing is set up yet to remove it.
- `ArchiveListing`: a cell is one record of a ZIP file or a unit of content, and content may look like a record;
  an offset counts cells. A name is a key and a form: names of one key differ in case or Unicode form, or are
  reserved. Sizes and byte limits are left out, the limits on entries and depth are 3 and 2. A backup writes
  one entry after the other, in any order that puts a directory before what is in it (the code sorts by name), and
  the ZIP directory, which `ZipFile` writes when it is closed, is kept at the end meanwhile. Whether the
  file system tells upper from lower case is a choice. When files change or calls fail is `ArchivePacking`'s and
  `ArchiveRestoring`'s part.
- `KeyFormats`: cryptography is symbolic. A derived key is the tuple of all it is derived from, a sealed value
  names its key, nonce and associated data and opens under exactly those. Salt and nonce are one fresh value.
  Key bytes do not say whether they are ML-KEM-768's or Kyber768's, which have the same lengths. A PEM file has,
  per kind of line, the sequence of its lines, so that a line may be missing or doubled. Base64, line lengths and
  file sizes are left out. A legacy suite name stands for whichever implementations the installed liboqs has
  (`enabled`), and two candidates may both answer.
- `KeyWorkflows`: checks are written in the order of the code; the answer is the code of the first that fails,
  mapped as the handler's `except` clauses do. Passwords are empty, refused by the creation policy (`Weak`), above
  4096 bytes (`TooLong`) or neither. The handlers do not treat them alike, and `OpensExactly` says so: the HTTP
  form for decryption has no 4096-byte bound, verification, recovery, the password change and the jobs have one;
  the command line applies the creation policy also when it decrypts and verifies, so a key that an earlier
  release locked with a weak password opens in the browser only. Generating keys does not apply the bound: a key that was
  given a longer password can be decrypted with, but not verified with, recovered or changed over HTTP.
- `ApiClient`: what an asynchronous function does between two awaits is one action. The functions that ask for the
  health request meanwhile share it. An abort ends a fetch at once, not the wait for the health request. Any copy
  may be lost on its way there or back; the cookie of a health answer comes with its headers, the flag with its body,
  which may be lost. `Restart` puts another process in the place of the service, of a newer or an older version.
  `App.tsx`'s own health request is left out: it only makes the cookie fresher.
- `BatchFiles`, `KeyInspection`: a hook's state after React has rendered is one with the state that was set; effects
  run some time after the render (`ran`). `unmount` and the cleanup of an effect are the code's cleanups.

Definitions no action uses (`ReleaseIgnoringWork`, `ReplaysLost`, ...) are faulty forms of the
definition after them, used to confirm that each property notices such a fault (`mutants`).

## 3. What the runs check

| Run | Instance | Distinct states | Shows |
|---|---|---|---|
| `jobs` | 2 jobs, 1 other lease, modes decrypt and verify, `MaxStarts = 1` | 1,491,168 | `OwnedFilesStayOpen`, `AdmissionFollowsState`, `EndedJobOwnsNothing`, `CancelIsFinal` |
| `service` | 1 job, 2 short requests | 140,468 | `NativeExclusive`, `NativeWorkAlone`, `ImplementsSlot`, `ReservationEnds`, `CloseReturns`, `ImplementsLifecycle`, `LeftRequestReleases` |
| `publication` | 2 commands of any kind, 2 names, free or taken | 273,100 | `StagedOutputWhole`, `SuccessIsDurable`, `PrivateNeverAlone`, `NoTemporaryLeft`, `OnlyOverwritingTakes` |
| `client` | 1 job, 2 `Run` objects, page hidden and view left at most twice each | 1,003,125 | `NoOrphan`, `CredentialsShortLived`, `SettledIsUntouched`, `NeverStranded`, `ShownNeverGoesBack` |
| `client_jobs` | 2 jobs, 2 `Run` objects, late answers, view left once, at most 3 requests and answers on their way | 1,377,675 | `LocatorKept` |
| `client_liveness` | 1 job, 2 `Run` objects, page hidden once | 140,291 | `ViewSettles` |
| `client_retry` | 1 job, 2 `Run` objects, page hidden once | stops at a violation | `RevalidatesAfterCleanup` does not hold |
| `stream` | limit 2 bytes, chunk 3, tag 2, two suites, source replaced at most twice | 2,146,257 | `ReleasedIsAuthentic`, `AcceptsExactly`, `RoomIsBounded` |
| `archive` | packing: 2 files, 2 directories, one in the other, 2 reads a file, 2 changes; restoring: 2 files; listing: up to 3 entries, one changed record | 1,052,593 | `ArchiveIsOneMoment`, `DestinationWhole`, `NothingLeft`, `RestoredAsListed`, `OneReading` |
| `archive_cancel` | the same | stops at a violation | `CancelledLeavesAbsent` does not hold |
| `keys` | an old key of each of 4 kinds, 4 passwords, 2 files made or edited, 1 of them edited | 5,274 | `UnlocksExactly`, `OpensExactly`, `ConfirmedRecipientOpens`, `RefusedByName` |
| `browser` | 2 batches of 2 files, 3 key files, 2 choices, 1 request of another view, 5 requests, 1 restart | 1,890,829 | `HandledOnce`, `ExpectationEnforced`, `BatchAlone`, `InspectionShown`, `LateResultDropped` |

Type invariants are proved (section 4) or, where nothing is proved about a module, document its state.

- **Worker.** `NativeExclusive`: one function on the thread, always the admitted lease's, so the operation lock
  of `_run_crypto_operation` (`api_app.py:737-744`) is never contended through the service. `ImplementsSlot` is the
  refinement of `AdmissionSlot` with its fairness. That the counter and the slot are exact is proved.
- **Jobs.** `OwnedFilesStayOpen` is the reason for the Busy states and for `finish_owned`: no cancel,
  clear, expiry, shutdown or lost client closes a handle a thread is using. `AdmissionFollowsState` and
  `EndedJobOwnsNothing` say that nothing leaks, also when closing fails. `CancelIsFinal` covers the
  cancel that comes between the last poll of a stream and `_execute`'s resumption, and the start
  request that still holds a job found before. `ReservationEnds`, `CloseReturns` and the fairness of
  `ImplementsLifecycle` are checked in `service`, where short requests compete and may be left behind.
- **Service.** `NativeWorkAlone`: as long as an abandoned function executes, no other request or job is
  past admission. `LeftRequestReleases`: it gives the worker back by itself.
- **Publication.** `StagedOutputWhole`: a name never shows, and never has after a power failure, a part of
  a staged file. `OnlyOverwritingTakes`: a former file, and one a command without `--overwrite` reported
  (also as `output_durability_failed`, `README.md:311`), gives way to an overwriting command alone.
  `SuccessIsDurable` and `PrivateNeverAlone` are the order of the syncs, within a file and over a key pair.
  What the code does not promise shows as the conditions of these properties. `generate-keys` without
  `--overwrite` cleans up by name, so its cleanup may unlink a file that an overwriting command has put
  there since; an interrupt leaves its new file as it was (`except Exception`, line 228); a failed private
  file does not take the public one back, so with `--overwrite` a new public key may stand beside the
  former private one; with `--overwrite` it reports `write_failed` also when only the directory sync failed.
- **Browser.** `NoOrphan`: whatever the user does and whatever is lost, a job the tab learnt of is shown,
  or its ID is stored, or it is gone, or its cancellation was requested (which may itself be lost; the
  job's deadline then ends it). `LocatorKept` is the reason for `removeLargeFileRecovery` to compare IDs.
  `ShownNeverGoesBack` and `SettledIsUntouched` are what aborting the status request and
  `pendingMutations` are for. `NeverStranded` and `ViewSettles`: a restoration never leaves a locked view
  behind; if its status request fails the retry button is there.
- **Stream.** `ReleasedIsAuthentic`: the second pass may only release what the first authenticated, so it has
  to read the snapshot and not the source. `AcceptsExactly` compares the four size checks, the header and the
  withheld tail with the container format itself, on every length up to one byte too many, cut and extended
  containers, and headers of another suite. `RoomIsBounded` is what the running count is for: a source that
  cannot seek, or grows, is stopped after one chunk.
- **Archive.** `ArchiveIsOneMoment`: though nothing is locked and `README.md:293` promises no snapshot, an
  archive that is reported is what the tree held when the inventory was complete, for any changes meanwhile.
  `DestinationWhole`: the destination appears whole and synced, in the place of nothing, wherever the command
  fails, is killed or is interrupted, except within the rename. `NothingLeft`: an ended restoration leaves no staged
  file, except where cleaning itself fails, was not set up yet, or another process moved the box (its contents are
  removed through the descriptor even then).
  `RestoredAsListed` and `OneReading` say what `_register_path` and the two validations are for: a name that only case
  or Unicode form tells from another, a file where another entry needs a directory, a record that another reader of
  ZIP files would find in a gap or within a content.
- **Keys.** `UnlocksExactly`: no dropped, doubled, relabelled or spliced line of a private key file goes unnoticed, and
  no file that the program or an earlier release wrote is locked out. `OpensExactly`: a container, whole or spliced, opens
  with the keys it was made for, and the handlers agree up to their limits on passwords. `ConfirmedRecipientOpens`: the
  fingerprint covers the algorithm, which key bytes do not show. `RefusedByName`: no error of the core escapes a handler.
- **API client and batches.** `HandledOnce`: only a request that the guard refused is sent again. `ExpectationEnforced`:
  a process that accepts the cookie is the one whose health answer was looked at. Two ways around it were found while
  checking, and the property leaves them out: a token configured in the environment (`QUANTUM_ENCRYPTOR_API_TOKEN`,
  `api_app.py:70`) is the same after a restart, so nothing is refused and `client.ts:59` never looks again
  (`configured`); and another page's health request renews the cookie they share (`elsewhere`). Both need a service that
  is replaced by an older version. `BatchAlone` and `LateResultDropped`: cancelling, clearing and leaving never let two
  loops run or an old answer into a new batch. `InspectionShown`: what is shown is about the chosen file.
- **Finding.** `archive_cancel`: `README.md:293` says that a cancellation leaves the destination absent. The
  command reports an interruption as `cancelled` wherever it comes (`pqc_agent_tools.py:1369-1371`); in the
  syncs and cleanup after the rename the restored directory stays, and between the rename and
  `published = True` an empty directory stays, whose contents the cleanup has removed. Only an `OSError` after the
  rename becomes `output_durability_failed`.
- **Finding.** `client_retry`: `useLargeFileJob.ts:181` says "Revalidate only after cleanup settles; its
  acknowledgement may remove the result." The counterexample: polling has paused after a failed status;
  the page is hidden, which requests the cleanup of a job whose ID is not stored, and shown again; while
  `restoreStatus` awaits that cleanup, the "Retry status" button, which `restoring` does not disable, sends
  a status request. Its answer ends `restoring` and shows a job that the cleanup is about to end.

**Bounds.** One job with two `Run` objects covers a run that is over in the user's eyes while its
functions still wait, beside the run recovered from the stored ID; two hidings and two departures let the
second come while what the first began is unsettled. Two jobs are what `LocatorKept` needs: the stored ID
belongs to the second while the first still ends. The hiding is left out there to keep the run small.
At most three requests and answers on their way at once keep that run small: enough for a request of each job
and the answer to an aborted one. Objects nothing refers to are reused (`Free`); the `VIEW` forgets what is
left in them, and the histories of jobs that are gone, but keeps what each invariant says of them (`Seen`); where only
`LocatorKept` is checked, which has no histories, it forgets those too (`SeenNow`). `Run` and `Job` are symmetric
there; the liveness run uses neither.
`CHECK_DEADLOCK FALSE` in the client runs: with the bounds used up and no job left nothing has to happen.

In the stream, a chunk of one byte more than the tag and a limit below the chunk make the withheld tail span
reads, and every size check meet its boundary; the `Containers` are all intact ones up to one byte over the
limit, under keys of the user and of another, and a sample with each kind of damage. In the archive a file stands two
directories deep, so a directory can be replaced with all below it; one change can touch a file, a directory or both,
and two can undo each other. Listings have colliding names at both depths, and
every record is moved, doubled, replaced, resized or relabelled once. Both runs end: `CHECK_DEADLOCK FALSE`.

In the keys, one edit takes any line or part from any other file there is, so a splice of two files needs two files
and one edit; several edits of one file are not covered. The four old keys are one of each suite and format, two
behind passwords that are refused today. In the browser, two batches are what a late result of the first needs, two
files what the loop needs, one small key beside another what `InspectionShown` needs, and one restart a refusal; the
requests of the batch are `protected`, those of other views job requests (`status`, `start`). The `VIEW` forgets a
request that is over once nobody waits for it, and keeps what the invariants say; small key files are symmetric. Both
runs end when their bounds are used up: `CHECK_DEADLOCK FALSE`.

Two commands, each run once, on two names cover every pair of a stream, an exclusive and an
overwriting key generation, each before, after and between the system calls of the other, with one power
failure. A job and two short requests let one lease be refused, one wasted and one follow another, with a
function left behind while the others ask. Two jobs let a second be reserved while requests of the first still
hold it. Each lease, call, job and request is used once, so the runs end when they are used up:
`CHECK_DEADLOCK FALSE`. `MaxStarts = 1` bounds start requests waiting for their form per job (they have
no effect on each other but through the state of the job). Type correctness bounds nothing else: no
counter of the model is unbounded. Liveness runs use no symmetry.

**Fairness.** The executor's thread takes queued functions, functions terminate and callbacks run; the
loop resumes coroutines whose operation ended and raises pending cancellations; the deadline passes
and the reaper looks (`api_jobs.py:390-397`); `JobStore.close` goes on. No fairness for clients:
uploads, starts, downloads and the sending of answers may stall for ever. In the browser every request is answered or fails in the end
(`fetch` and `XMLHttpRequest` settle) and a function resumes once what it awaits is settled; nothing is
assumed of the user, the polling timers or the jobs. `ReservationEnds` therefore
rests on expiry alone. Cryptographic functions are assumed to terminate, which the size limits justify.

## 4. What is proved

All theorems hold for any sets of leases, calls, jobs, requests, commands, files and keys and any bounds. The assumptions
are those the modules name. Most say only that sets are disjoint and bounds are numbers (`LeaseAssumption`, `JobAssumption`,
`RequestAssumption`, `ServiceAssumption`, `PublicationAssumption`, `ClientAssumption`,
`ApiAssumption`, `BatchAssumption`, `InspectionAssumption`, `ViewAssumption`); `CallAssumption` has finitely many calls,
for cardinalities. Four say more of what is outside of the program, as each of them is explained below:
`PackingAssumption`, `ListingAssumption`, `TagsUnforged` and `WorkflowAssumption`. TLC evaluates all of them in the runs.

`JobStore_proofs`, the worker. The inductive invariant `WorkerInv` adds to the type invariant that the counter
is exact, that the slot is held exactly by the live lease and that a function that was submitted has an
owner. `AdmissionExact` alone is not inductive: a
callback releases on `pending = 0`, so it needs `PendingExact`, and that needs to know the owner of
every unfinished function. From it follow `WorkerTypeCorrect`, `WorkerPendingExact`,
`WorkerAdmissionExact`, `OneLiveLease`, `WorkerNativeExclusive` and `WorkerImplementsSlot`, the
refinement of `AdmissionSlot` (its safety part).

`JobStore_proofs`, the store. The inductive invariant is `StoreInv == WorkerInv /\ JobInv`. `JobInv` has the
types, that a job's lease submits the job's function only (`OwnCalls`), for each job the predicate
`Coherent`, which relates its record, its coroutines, its function and the slot phase by phase (reserving,
uploading, running, processing, ending, downloading), and `Closing` for the shutdown. The checked
invariants are not inductive by themselves: that a cancel closes no file in use depends on which state each
coroutine leaves behind, and that in turn on the state of the future. The proof has three layers:
`StoreUsesWorker` (every store step is a worker step, so `WorkerInv` is kept by citation), `OthersKept`
(a step of one job leaves the coherence of the others alone) and one lemma per action for the job that
moves. `JobCancelIsFinal` and `StoreImplementsLifecycle` use a summary, per action, of how a job's state,
flags and `current` may move (`Moves`).

`CryptoService_proofs`. `ServiceImplementsStore`: the variables the service shares with the store take only steps of
the store, because a short request is, to the store, one of the other leases; so `StoreInv` and every theorem of the
store hold in the service. `RequestInvariant` adds that a request's lease follows where the request stands
(`LeaseFollowsRequest`) and that a request submits its own function only. With the slot of `StoreInv` it gives
`ServiceNativeWorkAlone`: a function on the thread holds the slot for its owner, and whoever is past admission holds it too.

`FilePublication_proofs`. `PubInv` says, per system call of a command, what the command reports (`Reports`), where its
file can be bound (`Placed`), how much of it is written and synced (`Contents`), who holds a temporary name
(`Temporary`), whose file a failed new file may unlink (`Claimed`), and that what is under a name, and what the disk has
of it, fit (`Former`, `Published`, `Durable`). None of the five properties is inductive: that a power failure brings
nothing half-written back needs the order of `fsync` and publication in the history of each file, and durability needs
that nobody else unlinks a claimed name, which is why the properties except failed new files (`Backed`). One lemma per
system call; those that change no file share one (`ControlKeeps`).

`BatchEncryption_proofs`. `ApiInv` has the types, that a copy is on its way only for a request that
was not handled yet, and none for one that waits for the health request or is about to be sent again (`Copies`), that no
token is of a process yet to come (`Tokens`), and that a protected request has the running process's token on its way only if
that process compares fingerprints (`Expectations`). It is proved once for what any page may do with its requests (`PageMove`), so the hooks need only show
that each of their steps is one. `ViewInv` adds that only the active run goes on and that every function of the hooks awaits a request
that exists. From it follow `ViewHandledOnce`, `ViewExpectationEnforced`, `ViewBatchAlone` and `ViewLateResultDropped`.

`ViewInspectionShown` has an invariant of its own, `InspectionInv`: the effect that runs is that of the file rendered last, with a
request of its own that nobody has aborted, and once it has settled the hook shows that file (`RunningOK`); what the
hook holds was found by an effect of the file it shows (`FoundByEffect`). An answer that is disregarded must have been
aborted, so one has to know who aborts: the request of a running effect belongs to no run and no other view, so only the
effect's own cleanup does, and then it runs no more.

`LargeFileClient_proofs`. `ClientInv` has the types and, of each part of the page, what it knows of the others: `NetInv`
(a message is a proper one, awaited by the function it came from, and the only one of that function), `RunInv` (the
stages of the functions of a `Run`, whether it was cancelled, what it holds and what the hook shows of it), `LookInv`
(whom a status request is for), `HookInv` (what a hidden or unmounted hook has given up), `LocatorInv` (the stored ID is the one
the hook is about, or its job is gone), `FreshInv` (a job is named only after the answer to its reservation was heard, by
one function) and `SettledInv`. The properties need each other: that a late end removes no other job's ID rests on
`LocatorInv`, which rests on the reservation being fresh; `NoOrphan` at the moment a view is left needs that a function
of a cancelled `Run` still holds the job and will ask for its end. Every action is shown to keep the parts for the object
it works on, and lemmas carry the others over. `ClientShownNeverGoesBack` needs `LateAnswers = FALSE`, as the run does:
section 2 says why. Its own invariant, `ShownInv`, has it that no answer on its way is ahead of the job, nor behind what
is shown if its function may still show it.

`CryptoStream_proofs`. `StreamInv` is an account of bytes. `Position` and `Contents` say that what was read is the header, what
the context took and the withheld tail, in this order (`ReadOf`), for any division into reads; `Encryption` the same of what
is written; `Taken` that the snapshot is what was counted; `Stage` which operation is at which step, and so whose bytes
these are; `Releasing` that a second pass works on a sealed snapshot. With the two properties beside them these are
inductive. At the end of a pass the tail is exactly what a tag can be. If it authenticates, it is, byte by byte,
from a container, and by `TagsUnforged` (only the holder of a key makes its tags, and only of what it encrypts: the
promise of AES-GCM, which the module's ideal ciphertexts cannot give for containers from elsewhere) what the context took is
the ciphertext of a plaintext; hence what was read is `Sealed`. The second pass reads the same snapshot, so it writes a
prefix of that plaintext and never refuses. For `StreamAcceptsExactly` every refusal is shown to contradict the container
format: a wrong total, header, count or tag is of nothing acceptable. That plaintexts, containers and key lists are
sequences (`StreamAssumption`) holds by what they stand for. The lemmas on sequences at the beginning (`SeqJoined`,
`SeqCut`, `PrefixIs`) say what joining and cutting do to the elements.

`DirectoryArchive_proofs`. `RestoreInv` says per system call where the payload and the box are (`Located`), how much is
written and synced when the name appears (`Published`) and what is reported (`Reported`). `PackInv` is about two comparisons
far apart in time: what looks the same now as when it was looked at has not been changed in between, because
every change gives a new stamp to what it changes and new inodes to what it makes (`UnchangedSince`); so it was also what it
is now when the inventory was complete, which is the moment whose content the archive must have. Paths that were never
found take an argument of their own: above each there is a first one that was not found, whose directory would have
changed if it had been there. This is where `PackingAssumption` has it that a tree is finite and no directory is within itself.
`ListingInv` and `ExtractInv` are about names and bytes. `_register_path` keeps a map that each entry changes, and the
inventory and the validation enter the same paths in different orders; so the invariant does not follow the map, it says that
the map is a function of the set of paths entered so far (`PathsAre`), which makes the order immaterial and a packed directory
acceptable (`WroteValid`). Two consequences of it are used: what is listed has keys of its own (`ListedDistinct`), so what
`extract_archive` makes next meets only directories that are there already, even where upper and lower case are one
(`NotInTheWay`); and a packed directory comes back with nothing but what it held (`PackedLists`, `PrefixInSource`).
For `OneReading` the entries that passed follow each other from offset 0 (`Follows`), and the last ends where the directory
begins. `Sequentially` is a recursive function that reads forward, so its existence (`ReadingExists`) and its value
(`ReadsRest`) are shown from the end of the archive backwards, in both cases by the last position at which the claim would
fail. `ListingAssumption` says of a source that it is finite, that its names have a key and a form and that everything is in a
directory of it, and of a foreign archive that the fields of its end record, and those of the records its directory consists
of, are unsigned numbers, names and flags; nothing is assumed of the rest of its bytes.

`KeyWorkflows_proofs`. `KeyInv` says of every file there is, edited or not, that a lock which is sound is the lock of a
recorded key file and a payload which is sound that of a recorded container, and that the records are right: what was
written or sealed has the parts its suite and format ask for. The four properties say nothing of where a file came from, so none of
them is inductive. They follow from `KeyInv` in two directions. A derived key is the tuple of what it is derived from and a lock
authenticates the lines beside it, so a file that unlocks is the recorded one, line for line (`UnlockedIsWritten`); a container that opens does so with the recorded text for the recorded pair (`OpenedIsSealed`). Conversely what is
recorded passes every check (`WrittenUnlocks`, `SealedOpens`). The answer of a handler is the first check that fails (`LeastPosition`,
`AnswerFacts`): "ok" exactly when all pass, and otherwise a code that has a name, because the handler's `except` clauses cover
what its checks may refuse (`ServiceCovers`, `AgentCovers`). `EditKept` is the step where a proof could fail: an editor that drops,
doubles, replaces or splices may take lines of any other file, so what is sound in the result must be shown to come from one
file that is already there. `WorkflowAssumption` says of the key files of earlier releases that they are of a suite and format the
program accepts, with a password that is not empty, and a suite that names its KEM has that one. "No error escapes" is proved, as the property
states it, for every set of KEM implementations.

**Only model-checked:** everything under fairness (`ReservationEnds`, `CloseReturns`, `LeftRequestReleases`, `ViewSettles`,
the fairness of `ImplementsSlot` and `ImplementsLifecycle`), since TLAPS does not reason about `ENABLED`. Every invariant that a
run checks, and every action property, is also a theorem. The two documented promises that the code does not keep (section 3) are runs that stop at a violation.

## 5. Not modelled, and the plan

Not modelled, with the reason:

- the resolution of paths and symlinks within the workspace (`pqc_agent_tools.py:96-176, 356-534, 791-833`): string and
  file-system walks without a protocol; what they decide is the choice of names in `FilePublication`;
- sizes at their boundaries (`api_jobs.py:144`, `ApiBodyLimitMiddleware`): chunks fit or do not; `CryptoStream` has the
  limits of the operations;
- security headers, serving the web files, argument parsing, messages and formats of answers;
- the browser's views beyond the conditions of their buttons, `ui_helpers.py`, release and smoke scripts;
- the primitives of liboqs and `cryptography`, which are external and symbolic.

Planned, in order of importance:

1. The refinement of an abstract file that changes from old to complete by `FilePublication`.
2. The job client composed with `JobStore` instead of its own small service.
3. The numeric limits of an upload (`api_jobs.py:144-235`) as a module of their own.
