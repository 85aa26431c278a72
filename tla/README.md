# A formal model of sshbridge

`sshbridge` (the Python package under `src/sshbridge/`) lets an editor, a
command line and an MCP client share **one** authenticated SSH connection to a
server.  A per-profile broker process owns the connection, runs remote
commands on a few worker threads, keeps their output in bounded buffers,
serves file operations over one SFTP session, and does not re-authenticate on
its own once a connection has failed or been lost.

This directory holds TLA+ modules of that program, TLC configurations that
check them on small instances, and TLAPS proofs.  Every run, property, mutant
and theorem is listed in `PROJECT.json`, together with the source lines each
definition translates.

Contents: [inventory](#inventory) · [modules](#modules-and-how-they-correspond-to-the-code) ·
[runs](#what-the-runs-check) · [fairness](#fairness) · [findings](#where-the-code-and-its-documents-disagree) ·
[proofs](#what-is-proved) · [not modelled](#what-is-only-checked-and-what-is-not-modelled) · [plan](#plan)

## Inventory

How the parts meet:

```
 editor (app.js) -- HTTP --> web.py ---+                       +-- ExecJobManager -- worker threads --> ssh children
 desktop.py (window, close) -----------+--> broker_client -->  |      (exec_jobs.py)       |
 mcp_server.py ------------------------+    socket, token      BrokerState --------- OpenSSHTransport --> ControlMaster
 cli.py -------------------------------+    (launcher)         |      (broker.py)          |
                                            daemon.py          +-- SftpSession -- ssh -s sftp
                                                               +-- RsyncManager - rsync children
```

One client thread of the broker serves one request.  Workers, client threads,
the rsync worker, output readers and terminator threads share the objects
below through the locks named there.

| Part (source) | State it keeps | Operations | What is hard | What makes it correct |
|---|---|---|---|---|
| Exec job manager (`exec_jobs.py`) | `_jobs`, `_queue`, `_running_count`, `_paused`, `_closed`, effective concurrency; per job its state, child, cancel and termination flags | submit (`start`, `run_sync`), `cancel`, dispatch, prepare, spawn, monitor, finish, `pause_dispatch`, `fail_queued`, `resume_dispatch`, `close` | a child is started and polled without the lock; cancel, timeout, close and the exit of the child race; seven paths give a slot back | slots and queue exact; one end per job, and the right one; a child is never left behind; every job, `run_sync` and `cancel` ends |
| Exec output (`exec_jobs.py:503-610`) | a deque of events with cursors, bounded by bytes | append, trim, `status(cursor, max_bytes)` | trimming and paging both cut inside an event, between characters of one to four bytes | a client that pages by `next_cursor` loses nothing silently and gets to the end |
| Broker connection state (`broker.py:34-437`) | circuit state, `last_attempt_at`, the SFTP session, `connect_lock`, `sftp_lock`, `state_lock` | `ensure_ready`, `reconnect`, `_mark_open`, SFTP requests, Exec preparation, hash, `close` | three locks and two pauses; states read and acted on later; failures reported late | once `OPEN`, only a reconnect attempts again; attempts are exclusive; no job runs while the connection is replaced; no deadlock |
| SSH transport (`transport.py`) | the ControlMaster process, `multiplexing` | `start`, `stop`, `is_alive`, fall-back to direct connections | the master dies or is unsupported at any time | at most one master, none while `OPEN` |
| Broker server (`broker.py:438-637`, `daemon.py`) | lock file, socket, metadata, listener, client threads | acquire, serve, `shutdown`, signals | crash leaves files behind; shutdown races requests | one broker per profile; clean hand-over |
| Broker client and launcher (`broker_client.py`) | metadata read from disk | `ensure_started`, request, stop | racing starters, stale metadata | all clients end up with the live instance |
| Rsync manager (`rsync.py`) | queue, active job, history, capability cache | start, cancel, status, close, capability probe | cancel before the child exists; stale cache; late failure report | one transfer at a time, one honest end each; the worker survives |
| File operations (`ops.py`) | none (remote files) | read, write, move, mkdir, delete, hash | check-then-rename; directories that change meanwhile | expectations are honoured, or the window is stated |
| SFTP session (`sftp_client.py`, `sftp_proto.py`) | child, request id, read buffer | request/response, watchdog, rename fall-back | timeout against a late reply; remove-then-rename | replies match requests; a session that failed is not used again |
| Path sandbox (`paths.py`) | none | normalise, confine to a root | `..` and links | the result stays under the root |
| Exec client (`exec_client.py`) | none | build the ssh command, classify its end | telling a lost connection from exit code 255 | a transport failure is never reported as an exit |
| Configuration (`config.py`) | none | validate a policy | bounds between fields | the registry holds a full queue and all workers |
| Workspace service (`web.py`), editor (`app.js`) | direct session; open file, dirty flag, selection | list, open, save, rename, delete | overlapping replies change one state object | an edit is never attributed to another file |
| Desktop window (`desktop.py`) | two close flags | window closing | several close events and a question under way | one question, one answer |
| MCP server, command line, errors, Windows pipe, packaging | none or Win32 handles | adapters | - | - |

The hazards, each at the line where it bites and with the property that covers
it, are in `PROJECT.json`.

## Modules and how they correspond to the code

| Module | Models |
|---|---|
| `ExecJobs` | `ExecJobManager` without output: the detailed specification |
| `ExecService` | what the manager promises its clients: each job waits, runs and ends, at most so many at once |
| `ExecJobs_proofs` | the inductive invariant of `ExecJobs` and what follows from it |
| `ExecService_proofs` | `ExecJobs` implements `ExecService`; load, registry, terminations |
| `ExecOutput` | readers, trimming and cursor pages of one job |
| `Connection` | `BrokerState`, `OpenSSHTransport` and the locks, with the threads that use them |
| `CircuitBreaker` | what the broker promises about its connection attempts |
| `BrokerLifecycle` | `BrokerServer` and `BrokerClient` of one profile over lock, socket and metadata file, with crashes |
| `Singleton` | what the brokers of a profile promise: one reachable instance at most, none that comes back |
| `Rsync` | `RsyncManager` without output and statistics |
| `FileOps` | the operations of `ops.py` that change the remote tree, request by request, with the rename of `sftp_client.py` |
| `Editor` | `app.js` over the routes of `web.py` |
| `ExecOutput_proofs`, `Connection_proofs`, `BrokerLifecycle_proofs`, `Rsync_proofs`, `FileOps_proofs`, `Editor_proofs` | the theorems about the module each is named after |
| `MC...` | symmetry sets and data for TLC |

`ExecJobs` and `ExecOutput` model one class from two sides; they share only
the moment a job becomes terminal (`FinishLocked` there, `FinishJob` here).
The other modules meet at narrow seams, and each keeps of its neighbours what
it can notice of them:

- `Connection` keeps of `ExecJobs` the pause and the waiting and dispatched
  jobs, and of `FileOps` how a file request ends;
- `Rsync` keeps of `Connection` the call of `invalidate_capabilities` and the
  failure it reports (`_mark_open`);
- `BrokerLifecycle` keeps of `BrokerState` its `close`;
- `FileOps` keeps of `Connection` `sftp_lock` and the loss of a session;
- `Editor` keeps of `FileOps` the look-up, the check and the replacement of an
  operation, which run under `sftp_lock`, one operation at a time
  (`FileOps!OneAtATime`), with changes by others in between.

### Steps

A block the code runs under one lock is one action.  What a thread does
outside its lock is one action per effect another thread can observe: birth
and exit of a child, a poll, a signal.  Locks held over several such steps
(`connect_lock`, `sftp_lock`, the transport's lock) are variables; those held
over one block are not.  Python's condition variables appear where a missed
wake-up matters: the caller of `run_sync` is `"asleep"` until some
`notify_all` (`Woken`); the other waits have timeouts.

**Time is not counted.**  A deadline may pass before any step that reads the
clock, which covers every relative speed.  `Connection` keeps one bit of it,
`cooling`: `min_connect_interval` has not passed since `last_attempt_at`.

### `ExecJobs`

| Code | Model |
|---|---|
| `ExecJob.state`, `.dispatching`, `.cancel_requested`, `.termination_reason`, `.termination_started`, `.process`, `.remote_termination_unknown` | `state`, `dispatching`, `cancelRequested`, `reason`, `terminationStarted`, `process`, `remoteUnknown` (a flag is the set of jobs that have it) |
| the ssh child, seen by `poll` | `os`; the signal last sent to it, `signal` |
| `_queue` | `queue` and the order `ahead` (a relation, because jobs leave from the middle) |
| `_jobs`, `_running_count`, `effective_concurrency`, `_paused`, `_closed` | `registry`, `runningCount`, `effective`, `paused`, `closed` |
| `_finish_locked` | `FinishLocked`, on a set of jobs; part of the calling action |
| `_clean_locked`, `_expire_queued_locked`, `_evict_terminal_locked` (expiry, TTL, eviction) | parameters `E` (expired), `T` (past their TTL) of the calling action, and `CleanedTo` |
| `_submit`, `run_sync` | `Submit`, `SubmitRegistryFull`, `SyncSleep`, `SyncReturn` |
| `_worker`, `_take_job` | `ExpireAndWait`, `TakeJob`, `WorkerExits` |
| `_run_job` | `PrepareFails`, `BeginRun`, `Spawn`, `SpawnFails`, `RegisterProcess`, `MonitorPoll`, `MonitorDecide`, `FinishRun` |
| `_terminate_process` on whatever thread calls it | `TerminationStep` of a record in `terminations` |
| `cancel` | `CancelQueued`, `CancelActive`, `CancelPoll`, `CancelMark`, `CancelSeesEnd`, `CancelGivesUp` |
| `pause_dispatch`, `fail_queued`, `resume_dispatch`, `set_effective_concurrency`, `close` | `PauseDispatch`, `FailQueued`, `ResumeDispatch`, `SetEffective`, `Close` |

Each member of `Jobs` is one call of `_submit`; the set bounds the number of
calls, and nothing else is bounded.

### `ExecOutput`

Text is a sequence of characters `[stream, n]`; `Width` gives each its number
of UTF-8 bytes.  `ReadChunk` is one turn of `_read_stream`: `_append_output`
with all of `_trim_output_locked`, in which `WholeGone` events leave whole and
the next is shortened (`Cut`).  `StatusPage` is the reply of
`_status_snapshot_locked`; its `events` is a function on the places in
`job.events` that contribute text.  `Poll` is a client that continues at
`next_cursor`.

### `Connection`

`pc` says where in `ensure_ready`, `transport.start`, `reconnect`,
`_run_sftp_op` or `_run_job` a thread stands.  The end of an ssh child, of a
file request or of an attempt is a choice among the ends the code tells apart.
Two distinctions exist for the properties only: `session` tells a session of
the present connection from one of an earlier (`"stale"`), and `undermined`
holds the reconnects under way while another one returned and lifted the pause
they share.

`CircuitBreaker` is the promise about attempts.  A request makes one only on a
broker that is `DISCONNECTED`: at the start, or after a reconnect gave up a
working connection and was then turned away by the rate limit (the state is
`DISCONNECTED` from the first block of `reconnect`, and a file request without
multiplexing may set `last_attempt_at` while it waits for `sftp_lock`).  Once
the circuit is open only a reconnect attempts.

### `BrokerLifecycle`

Every access to one file is one action, since another process may come
between: `AcquireSingleton`, `RemoveStaleSocket`, `Bind`, `WriteMetadata`,
then `serve`; `close` in the order of `BrokerServer.close`.  A client is where
it stands in `ensure_started`, `request` or `stop`.  The instance a client
launches bears the client's name; that bounds the number of brokers.
`Ghost` is a broker of the past whose files may still lie there.  `calm` says
whether the world of this behaviour is free of crashes, signals, failing
start-ups and timeouts; it is fixed at the beginning, so liveness can be
claimed of calm worlds while safety is checked in all.

### `Rsync`

`client` is where the thread of a `start` stands: capability, validation and
argv, submission.  `capability` and `resolved` are `_capability` and
`_resolved_rsync_bin`; `probing` is the holder of `_capability_lock`.
`worker` is where `_worker_loop` stands, `"lost"` after an exception that
leaves it.  `jobs` numbers the keys of `_jobs` as they were inserted, which is
the order `_prune_history_locked` goes by (`FinishedAfter`, `HistoryKept`).
A call of `_terminate_process_group` is a record in
`terminations`, on whatever thread it runs.  The worker notes that a
cancelled transfer may still run on the server in one lock block
(`MarkUnknown`) and ends it in a later one (`FinishRun`): a client may see it
running with the mark.

### `FileOps`

`pc` is the next SFTP request of each client's operation.  A request is
served, refused, or lost with its session: then it took effect, did not, or
still will (`late`).  `tree` is the server's, two levels deep; a path is
resolved anew by each request, as the server does.  `replaced`, `reported`
and `disturbers` exist for the properties: what an operation found at its
target when it acted, what it found there afterwards, and who else changed
that entry under way.

### `Editor`

`calls` holds the handlers that are suspended in an `await`, with their
request and, once served, its reply; a handler goes on at any time after.
After an error that none of its branches expects (`Heeded` lists the others) a
handler only shows the message: its `await` and its end are then one step.
`current`, `displayed`, `selected`, `dirty` are the fields of `state`,
`buffer` is the text in the editor, a textarea, whose value has no carriage
returns: after a file with CRLF line endings is opened, `buffer` is
`Normalized(content)` and not the record's `content` (and the first edit that
is saved changes the line endings of the file, of which no document says
otherwise).  The user's answers to `confirm` and `prompt` are choices.

`remote` is what the server says of each file, its stamp: mtime in whole
seconds and size.  Stamps repeat, and two versions of a file may have the same.
A request is served in the steps between which others may change the file:
`FindFile` and `ReadFile`; `CheckWrite`, `ReplaceFile` and `ReportWrite`;
`CheckMove` and `MoveFile`.  `Others` stands for whoever else writes at any
time: clients of the broker (between requests), clients in direct mode and
programs on the server (at any step).

Three variables are ghosts: `seen`, the stamps a reply told of; `base`, the
text last read from the server or sent to it for the record; `overtaken`, the
handlers whose file others changed after it was checked.

## What the runs check

Deadlock is checked wherever the model can always take a step, because some
client can still ask for something or time can still pass.  It is not checked
in `broker_endpoint` and `file_tree`, where every client makes one call and
then rests for good.

| Run | Instance | Shows |
|---|---|---|
| `exec_two_workers` | 2 workers, 2 jobs, 1 canceller, queue 1 | slots and queue are exact, no job is over while its child runs, outcomes are honest, cancel wins over timeouts, one terminator per child, terminal is final; the manager implements `ExecService` |
| `exec_full_registry` | 3 jobs (1 of `run_sync`), 2 workers, no room to queue beyond them, registry of 2 | load and registry stay within their bounds while the effective concurrency is lowered and raised under way, live jobs are never evicted, and the inductive invariant of the proofs holds |
| `exec_liveness` | 1 worker, 1 job of each kind, 1 canceller | every job ends, `run_sync` and `cancel` return, workers exit after `close` |
| `output_pages` | 7 characters of 1 to 4 bytes on 2 streams, buffer of 5 bytes, pages of 1, 2, 4 | the buffer keeps a suffix and forgets no more than it must; a page is the longest run that fits; a gap is always announced; a client that is behind gets on with every page that has room for a character |
| `connection_threads` | 2 workers, 1 file client, 1 reconnect, 1 command, with and without ControlMaster | locks and jobs follow threads; attempts are alone; sessions are current; no job runs while the connection is replaced; the broker implements `CircuitBreaker`; reconnects, file requests (a hash that waits for the Exec queue included) and commands end |
| `rsync_transfers` | 2 transfers, queue and history of 1, 1 canceller | waiting, running and ended transfers are each in one place, the history is bounded, what is reported is what happened, cancel and `close` take effect |
| `broker_endpoint` | 2 clients, so 2 brokers and a dead one | files belong to the holder of the lock or to the dead; a client finds one instance or none, never one that was gone (`Singleton`); in a calm world racing starters are all served |
| `file_tree` | 2 clients of the broker, 1 in direct mode, 2 names, 1 directory to make, both kinds of server | no torn file, no leftover after success, a tree; an expectation (version, hash, absence) is missed only where a direct client or a lost session took part; with posix-rename a write never makes its target vanish |
| `editor_replies` | 2 files, 2 suspended handlers, 2 stamps, 2 texts, one with either line ending | dirty mark, text, path and stamp agree whatever the order of replies; an unforced save replaces only a file with a stamp the editor was told of, unless others change it after the check |
| `reconnect_deadlock`, `rsync_lost_worker`, `editor_edits` | as small as shows it | TLC finds the counterexample of a [finding](#where-the-code-and-its-documents-disagree) |

**Why these bounds are enough.**  The races of a job are between its worker,
one termination, a cancelling client, `close` and the clock; two workers and
two jobs add the competition for slots and for the head of the queue.  Three
jobs over a registry of two are what it takes to make eviction refuse, evict
and be refused by a live job; with two workers the effective concurrency moves
between one and two while jobs run and wait (`exec_queue_limit` may be 0, and
`exec_max_jobs` as low as the sum of both limits).  A second canceller adds only a call that finds
`termination_started` set, which `close` and the timeout already do.  In
`ExecOutput` the widths 1 to 4 mix within each stream and together exceed the
limit three times over, so that trimming ends within a character, at the end
of an event and past it; page sizes below, at and above a character occur.
In `Connection` one thread of each kind holds every lock against every other,
and the second worker adds a failure reported during another's attempt; the
second reconnect is where the trouble starts, and has a run of its own.  (The
safety properties hold with two reconnects too, which the proofs cover; the
liveness properties do not, hence one here.)
In `Rsync` one transfer waits while the other runs, and a history of one is
exceeded by the second end.  In `BrokerLifecycle` two clients give a race for
the lock, a loser, a successor of a broker that stops or crashed, and a
request that meets the successor of the instance it read; a third client
would repeat these, at a cost beyond TLC's time here.  In `FileOps` the four
operations of the instance (a write that expects a version and a hash, a move
onto its target, a recursive mkdir below a name that a move takes away, a
delete of it) meet at the same entries; the requests of a broker's client, of
another and of a direct client interleave freely.  In `Editor` two handlers
suffice for every overtaking of one reply by another; two stamps give a file
that has the expected stamp, one that has another, and versions that share
one; nothing bounds how often files are written.

**Mutants.**  Each property is also run against a mutated operator, marked
`Mutant:` in the module: a plausible slip in the code (a dropped guard, a
forgotten `notify_all`, a slot returned twice) that the property must notice.
They are used by no other definition.

### Fairness

`ExecJobs!Fairness`: threads run; `prepare_exec` and the start of a child
return, because their ssh calls carry timeouts; a job in the queue is found
expired by some loop turn (the workers wake up every 0.1 s); a monitored job
runs into its timeout, however often the monitor polls (hence strong
fairness of `MonitorDecide(_, _, TRUE)`); a child ends on `SIGKILL`, though
not on `SIGTERM`.  Nothing is assumed of clients, of a child's own exit, or
of reconnect: paused dispatching must not keep a job alive.

`Connection!Fairness`: each thread proceeds; *strongly*, because a thread may
find a lock free and taken again for ever under weak fairness, and
`threading.Lock` does not starve a waiter in practice.  A job in the queue
times out.  Nothing is assumed of the ControlMaster or of clients.

`Rsync!Fairness`: the worker and each termination run on, and a child ends on
`SIGKILL`.  A transfer has no time limit in the code, so nothing makes one
end unless somebody asks.

`BrokerLifecycle!Fairness`: a broker that lives and a client in a call run
on.  `StartersServed` is claimed of calm worlds only: with timeouts or crashes
`ensure_started` may rightly fail.

`FileOps` and `Editor` state safety only: every request may be lost, and the
user need not do anything.

## Where the code and its documents disagree

Each is a run whose single property quotes a document or a message of the
code, and which TLC refutes.  `PROJECT.json` quotes the lines.

1. `reconnect_deadlock`: `reconnect` pauses dispatching before it takes
   `connect_lock`; a second reconnect, refused with `BROKER_BUSY`, resumes it
   under the first one.  A worker then takes the job of a hash request and
   waits for `connect_lock`, the reconnect that holds it for `sftp_lock`, and
   the hash that holds that for the worker: for ever.
2. `rsync_lost_worker`: the argv of a transfer reads the resolved executable
   after the capability check and without its lock; a reconnect in between
   sets it to `None`.  `Popen` raises a `TypeError`, which nothing catches:
   the worker thread is gone, its job runs for ever, later ones never.
3. `editor_edits`: the reply of a save records the text the editor has *then*
   as saved, while the server has the text that was sent.

The models contain further behaviour that surprises but contradicts no
document in so many words; `PROJECT.json` lists it among the hazards, each
with a note: the failure of an old connection reported after a reconnect opens
the circuit of the new one (`exec_jobs.py:481`); `stop` may report "not
running" after it stopped a broker (`broker_client.py:346`); a forced save
sends whatever file is shown by then (`app.js:427`).  `cancel` decides on a
poll it made without the lock, so a child that exited by itself just before
may be reported `CANCELED`.

## What is proved

Every invariant, action property and refinement that a passing run checks is
also a theorem, for every value of the constants that satisfies the
assumptions below.
`PROJECT.json` lists the theorems; each proof module
begins with its argument.

| Module | Theorem | States, of `Spec` |
|---|---|---|
| `ExecJobs_proofs` | `Invariance` | `[]JobInv` |
| | `TypeCorrect` | type correctness |
| | `SlotsAreExact` | `_running_count` is the number of dispatched jobs, and at most the number of workers |
| | `QueueIsExact` | the queue holds exactly the waiting jobs, in one order |
| | `OutcomesAreHonest` | the state a job ends in agrees with its child and with what was requested |
| | `CancelDecides` | a job that a cancel or close reached alive ends `CANCELED`, or `FAILED` because its child could not be started |
| | `ChildrenAreReaped` | a job reported as over has no ssh child running |
| | `NothingAfterTheEnd` | a terminal job never changes its state again |
| `ExecService_proofs` | `ManagerImplementsService` | `ExecJobs` implements `ExecService` |
| | `OneTerminator` | one of cancel, close and timeout terminates a child, and only after its reason was noted |
| | `LoadIsBounded`, `LiveJobsStayRegistered` | queue and registry keep to their limits; a live job is never evicted |
| `ExecOutput_proofs` | `OutputInvariance`, `OutputTypes` | `[]OutputInv`; type correctness |
| | `OutputRetained` | what is retained is the end of the output, and as much of it as the limit admits |
| | `ClientsMissNothing` | a client that follows `next_cursor` reads everything or is told of a gap |
| | `PollsAdvance`, `PagesAreLongestRuns` | a page with room for a character moves on; a page is the longest run that fits |
| `Connection_proofs` | `ConnectionInvariance`, `LocksAndJobsFollow` | `[]ConnectionInv`; locks and jobs follow the threads |
| | `OneAttempt` | an attempt is over before `connect_lock` is free |
| | `NoSessionOutlivesItsConnection` | no request finds a session of an earlier connection |
| | `ReconnectIsUndisturbed` | no worker holds a job while the connection is replaced, unless another reconnect returned meanwhile and lifted the pause both share |
| | `BreakerIsImplemented` | `Connection` implements `CircuitBreaker` |
| `BrokerLifecycle_proofs` | `LifecycleInvariance`, `FilesHaveOwners` | `[]LifecycleInv`; socket and metadata belong to the holder of the lock or to the dead |
| | `OneBrokerAtATime` | `BrokerLifecycle` implements `Singleton` |
| `Rsync_proofs` | `TransferInvariance`, `OneTransferAtATime` | `[]TransferInv`; a transfer is in one place, the history is bounded |
| | `OutcomesAreHonest` | the outcome a client reads is the one `rsync` had |
| `FileOps_proofs` | `TreeInvariance`, `FilesStayWhole` | `[]TreeInv`; no torn file, no leftover, one operation at a time, a tree |
| | `ExpectationsAreHonoured` | an expectation is missed only where a direct client or a lost session took part |
| | `TargetsAreKept` | with posix-rename no step of a write makes its target vanish |
| `Editor_proofs` | `PageInvariance`, `PageAgreesWithItself` | `[]PageInv`; dirty mark, text, path and stamp agree |
| | `SavesReplaceWhatWasSeen` | an unforced save replaces only a file with a stamp the editor was told of, unless others changed it after the check |

### Assumptions

None is about behaviour.  Each module names one `ASSUME` on its constants (two
in `ExecJobs`), which TLC evaluates in every run:

- the values standing for nothing (`Free`, `None`, `Nobody`, `Absent`) are no
  threads, jobs or files, and threads of different kinds are different;
- `LimitsAssumption` (`ExecJobs`) is the bound between the fields that
  `config.validate_connection_policy` enforces; `Jobs` and `Workers` are finite
  sets of any size, and there is a worker;
- `OutputAssumption` (`ExecOutput`): a character has one to four bytes, and
  `OutputLimit` is at least 4, so that at least one character can stay.
  `config.py` admits no limit below 64 KiB;
- `RsyncAssumption`: `MAX_QUEUE` and `MAX_HISTORY` are positive.

### Arguments

The invariants that TLC checks are seldom inductive.  Each component therefore
has a strengthening, which TLC was first given as an invariant on the instance
of the component's run (`JobInv` still is one).

**`JobInv` (`ExecJobs`).**  That a slot comes back once needs to know that a
job is dispatched only while one worker holds it (`HeldJobs`), that a job no
worker holds is new, waiting or over (`LooseJobs`), and that a cancel under
way aims at a job once dispatched (`CancelTargets`): otherwise `mark` could
meet a job back in the queue.  That outcomes are honest needs `RequestedEnds`:
what cancel, close and timeouts leave in `termination_reason` and
`cancel_requested` until the worker reads it.  `NextInv` has one step per
action.  Since `_finish_locked` is part of ten actions, two lemmas do its share
once: `FinishWaiting` for jobs taken out of the queue and `FinishHeld` for a
job a worker holds.

**`ExecService`.**  `JobMoves` lists what any step may do to one job (accepted,
begun, ended, its child born or dead); each is a move of `ExecService` or
none, and `RunningExact` keeps the commands that run within the slots.  `OneTerminator` needs that whoever
terminates has set `termination_started` in the same block
(`TerminationsClaimed`).  The bounds on the load are proved together: a
registry within its limit rests on live jobs being registered, and
these on eviction taking terminal jobs only.

**`ConnectionInv` (`Connection`).**  What one thread holds follows from where
it stands, whatever the others do, so the lock invariants are proved thread by
thread (`Holds`, `TurnsOver`).  The circuit follows the thread that holds
`connect_lock` (`CircuitFollowsAttempt`).  `SessionIsCurrent` is not inductive:
a new connection would make an old session look new, so an attempt has to find
no session and no request on one (`AttemptsStartFresh`).  The refinement
of `CircuitBreaker` takes each step of a thread by whether that thread holds
`connect_lock` before or after it: no other thread's step can begin or end an
attempt, and the most it can do to the circuit is to open it.  That a
reconnect is not disturbed needs `PausedForReconnect` beside: dispatching stays
paused from its first step to its last, until another reconnect returns.  What
comes of that exception is the finding `reconnect_deadlock`.

**`LifecycleInv` (`BrokerLifecycle`).**  `EndpointInv`, broker by broker
(`Owner`), is inductive once a client that launches is known not to have
launched before and a client in a request to have a broker for a peer
(`ClientsInStep`).  Then the holder of the lock is the only one that listens,
which makes the instance `Singleton` speaks of unique.

**`TransferInv` (`Rsync`).**  Honest outcomes need that nobody signals a
process that was not asked to stop and that no process exists before the worker
took the job (`JobsInPlace`), and what the worker concluded from the exit it
saw (`WorkerInPlace`).  The bound on the history needs the order of insertion
(`JobsNumbered`): pruning keeps the latest.  The queue is a sequence; the lemmas
about `RemoveFirst`, `Append` and `Tail` come first.

**`TreeInv` (`FileOps`).**  The idea is that of a target nobody disturbed:
as long as no other client changed the entry an operation aims at, it is as
the last check of the operation found it (`AsExpected`).  Whoever does change
it is recorded in `disturbers`, and cannot be a second client of the broker,
because `sftp_lock` admits one operation at a time, unless its session was lost
with a request under way.  Such a late request belongs to a call that has
already failed, or is a clean-up, which touches no name (`CallInPlace`).
`TempInPlace` says where a temporary file can be and when it is whole.

**`PageInv` (`Editor`).**  A suspended handler carries what it read of the
page, so the invariant says of each what its request and its reply are allowed
to hold (`CallInPlace`), above all that an unforced save expects a stamp in
`seen`.  `seen` only grows, so handlers need not know of each other.  A save
that passed its check found the stamp it expects; until it replaces the file
only others can change it, because one request holds the lock (`LockHeld`), and
then it is in `overtaken` (`Checked`).  `SavesOverSeen` is `Checked` at the
step that replaces.  It says nothing of a file that others changed after the
check, or replaced by one with the same stamp: such a file is replaced
unnoticed, as mtime and size are all the code compares.

**`OutputInv` (`ExecOutput`).**  The model sums the bytes of texts and events
of any length.  The library's induction theorems take an operator and cannot be
used here; induction over a *set* of natural numbers is first-order and does
instead (`SetInduction`, from the well-foundedness of `<`).  It yields what is
needed of sums: `Weight(text, c)`, the size of the first `c` characters, grows
with `c` and splits anywhere.  From there on all is said with cursors.
Retained events tile the end of the text (`Tiled`, `Bound`); trimming leaves a
shorter end, no shorter than it must (`TrimmedIs`, `TrimmedKeeps`); the
candidates of a page tile what follows its cursor (`Places`), and the texts
selected from them meet end to end up to the last cursor that fits (`Marks`,
`Fits`), which is what `PageIs` says.  That a client behind the retained text
finds something to read, rather than a cursor it can never move, needs that
something is kept whenever anything is trimmed (`SomethingKept`), hence the
limit of at least 4.

## What is only checked, and what is not modelled

Checked by TLC, not proved:

- the liveness properties: `EveryJobEnds`, `SyncCallersReturn`,
  `CancelsReturn`, `CloseDrains`, `ReconnectReturns`, `FileRequestsReturn`,
  `ExecRequestsEnd`, `StopsWhenAsked`, `StartersServed`.  Fairness and
  `ENABLED` are beyond the provers used;
- the properties of the three runs that TLC refutes.

Abstracted in what is modelled:

- the order in which eviction picks terminal jobs (left open, a superset of
  what the code does), `stderr_probe`, the text of errors, how `exec_client`
  recognises a lost connection in stderr (a choice), the polling inside
  `transport.start` (how it ends), counters shown by `snapshot`;
- of `reconnect` the wait for `_capability_lock` inside `invalidate_capabilities`
  (`broker.py:188`): `Connection` has no capability probe, and `Rsync` no
  `connect_lock`;
- of `BrokerState.close` what it stops: the children of a broker that exits
  while a client thread is still closing are not modelled;
- in `Rsync`, validation (a choice), output and statistics;
- in `FileOps`, contents and attributes, symbolic links and the sandbox
  check, and trees deeper than two levels;
- in `Editor`, directories (the cache of the tree pane, new folders, renaming
  or deleting a directory that holds the open file) and the reconnect button.
  What the files of the server say is not kept: a read returns some text.
  A look-up, a listing and a delete are one step each, and what a failed or
  late request does to a file is one of the steps of `Others`.

Not modelled, with the reason: the command line, the MCP adapter and the
errors module keep no state; Windows pipes are Win32 calls with the same
accept/send/receive as a socket; `sftp_proto.py` packs bytes; configuration
enters as assumptions on the constants; `paths.py` is a pure function over
one string; the threads of `desktop.py` are those of pywebview, which is not
in this repository; packaging and CI scripts drive builds.

## Plan

All modules of the plan are written, and all their safety properties proved.
What is left:

1. `Connection` and `Rsync` together, for the wait of `reconnect` in
   `invalidate_capabilities` (the deadlock hazard at `rsync.py:157`).
2. The progress arguments behind the liveness properties, as far as they are
   safety: for each place a thread can wait in, who will let it go on (that the
   holder of a lock is never itself waiting for that thread).
3. Proofs of the abstract specifications' own consequences (of `ExecService`
   that a command starts at most once, of `Singleton` that an instance never
   returns), so that a client of this project may cite them alone.
4. Shorter proofs where a lemma of one module would serve another: the sums
   of `ExecOutput_proofs`, the sequences of `Rsync_proofs`.
