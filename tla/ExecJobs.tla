------------------------------ MODULE ExecJobs ------------------------------
(***************************************************************************)
(* ExecJobManager (sshbridge/exec_jobs.py): the queue, the workers, the    *)
(* cancellation and the registry of remote command jobs.                   *)
(*                                                                         *)
(* One action is one block the code runs under ExecJobManager._condition,  *)
(* or one step outside it that another thread can observe: the birth and   *)
(* the exit of an ssh child, a poll of it, a signal to it.  Output is left *)
(* to module ExecOutput.                                                   *)
(*                                                                         *)
(* Time is not counted.  A deadline (queue timeout, job timeout, TTL,      *)
(* cancel grace) may pass before any step that reads the clock.            *)
(***************************************************************************)
EXTENDS Integers, FiniteSets

CONSTANTS
  Jobs,        \* requests handed to _submit, each once
  SyncJobs,    \* those of run_sync; the others come from start
  Workers,     \* the worker threads: max_concurrency of them
  Cancellers,  \* client threads that call cancel
  QueueLimit,  \* queue_limit
  MaxJobs,     \* max_jobs
  NoJob        \* a thread that holds no job

MaxConcurrency == Cardinality(Workers)

(* config.validate_connection_policy: one to three workers, a queue limit  *)
(* of zero or more, and a registry that holds at least a full queue.       *)
ASSUME ThreadsAssumption ==
  /\ IsFiniteSet(Jobs) /\ SyncJobs \subseteq Jobs
  /\ IsFiniteSet(Workers)
  /\ Workers # {}
  /\ NoJob \notin Jobs
  /\ Workers \cap Cancellers = {}
  /\ "close" \notin Workers \cup Cancellers

ASSUME LimitsAssumption ==
  /\ QueueLimit \in Nat
  /\ MaxJobs \in Nat
  /\ MaxJobs >= MaxConcurrency + QueueLimit

VARIABLES
  state,              \* job.state
  dispatching,        \* jobs with job.dispatching
  cancelRequested,    \* jobs with job.cancel_requested
  reason,             \* job.termination_reason
  terminationStarted, \* jobs with job.termination_started
  process,            \* jobs whose job.process is set
  remoteUnknown,      \* jobs with job.remote_termination_unknown
  os,                 \* the ssh child itself, as poll() would find it
  signal,             \* the last signal sent to that child
  terminations,       \* the calls of _terminate_process under way
  queue,              \* members of the deque _queue ...
  ahead,              \* ... and its order: <<a, b>> when a is left of b
  registry,           \* keys of _jobs
  runningCount,       \* _running_count
  effective,          \* effective_concurrency
  paused,             \* _paused
  closed,             \* _closed
  worker,             \* [pc, job] of each worker thread
  canceller,          \* [pc, job] of each cancelling thread
  sync,               \* where the caller of run_sync stands
  reconnect           \* where BrokerState.reconnect stands

jobVars     == <<state, dispatching, process, runningCount, sync>>
requestVars == <<cancelRequested, reason, remoteUnknown>>
killVars    == <<terminationStarted, terminations, os, signal>>
storeVars   == <<queue, ahead, registry>>
brokerVars  == <<effective, paused, closed, reconnect>>
vars == <<jobVars, requestVars, killVars, storeVars, brokerVars, worker,
          canceller>>

Terminal == {"EXITED", "TIMED_OUT", "CANCELED", "FAILED"}
Accepted == {j \in Jobs : state[j] # "NEW"}

(* Mutant: the registry evicts entries whatever their state.               *)
SettledOrLive == registry \ SyncJobs

Settled  == {j \in registry \ SyncJobs : state[j] \in Terminal}
ChildGone(j) == os[j] \in {"exited", "sshlost"}

Init ==
  /\ state = [j \in Jobs |-> "NEW"]
  /\ dispatching = {} /\ cancelRequested = {} /\ terminationStarted = {}
  /\ process = {} /\ remoteUnknown = {} /\ terminations = {}
  /\ reason = [j \in Jobs |-> "NONE"]
  /\ os = [j \in Jobs |-> "none"]
  /\ signal = [j \in Jobs |-> "none"]
  /\ queue = {} /\ ahead = {} /\ registry = {}
  /\ runningCount = 0
  /\ effective = 1
  /\ paused = FALSE /\ closed = FALSE
  /\ worker = [w \in Workers |-> [pc |-> "take", job |-> NoJob]]
  /\ canceller = [c \in Cancellers |-> [pc |-> "idle", job |-> NoJob]]
  /\ sync = [j \in Jobs |-> "idle"]
  /\ reconnect = "idle"

-----------------------------------------------------------------------------
(* Helpers that run with the lock held.                                    *)

(* Mutant: notify_all is forgotten.                                        *)
NobodyWoken == sync

(* _condition.notify_all(): only run_sync waits without a timeout, so only *)
(* its callers can depend on being woken.                                  *)
Woken == [j \in Jobs |-> IF sync[j] = "asleep" THEN "checking" ELSE sync[j]]

(* _finish_locked on every job of DOMAIN outcome; a terminal job is left   *)
(* as it is.                                                               *)
Unfinished(outcome) == {j \in DOMAIN outcome : state[j] \notin Terminal}

(* Mutant: every finished job gives a slot back, dispatched or not ...     *)
SlotsAfterAny(done) == LET left == Cardinality(done)
                       IN  IF runningCount > left THEN runningCount - left ELSE 0
(* Mutant: ... and without the floor at zero.                              *)
SlotsBelowZero(done) == runningCount - Cardinality(done)

(* _running_count after a slot has come back for each dispatched job       *)
SlotsAfter(done) == LET left == Cardinality(dispatching \cap done)
                    IN  IF runningCount > left THEN runningCount - left ELSE 0

FinishLocked(outcome) ==
  /\ state' = [j \in Jobs |-> IF j \in Unfinished(outcome) THEN outcome[j]
                              ELSE state[j]]
  /\ process' = process \ Unfinished(outcome)
  /\ dispatching' = dispatching \ Unfinished(outcome)
  /\ runningCount' = SlotsAfter(Unfinished(outcome))
  /\ sync' = IF Unfinished(outcome) = {} THEN sync ELSE Woken

All(S, outcome) == [j \in S |-> outcome]

(* _queue.remove of the jobs in S                                          *)
Dequeue(S) ==
  /\ queue' = queue \ S
  /\ ahead' = {p \in ahead : p[1] \notin S /\ p[2] \notin S}

IsHead(j, S) == j \in S /\ \A i \in S : <<i, j>> \notin ahead

(* _evict_terminal_locked: shrink reg to target as far as terminal async   *)
(* jobs allow.  Which of them leave first (finished_mono) is left open.    *)
Evictions(reg, settled, target) ==
  {V \in SUBSET settled :
     Cardinality(V) =
       LET excess == IF Cardinality(reg) > target
                     THEN Cardinality(reg) - target ELSE 0
       IN  IF excess > Cardinality(settled) THEN Cardinality(settled)
           ELSE excess}

(* The registry after _clean_locked and an eviction to target: E has just  *)
(* expired in the queue, T has outlived job_ttl.                           *)
CleanedTo(E, T, target) ==
  LET reg     == registry \ T
      settled == (Settled \cup (E \ SyncJobs)) \ T
  IN  {reg \ V : V \in Evictions(reg, settled, target)}

SetEffectiveLocked(value) ==
  effective' = IF value < 1 THEN 1
               ELSE IF value > MaxConcurrency THEN MaxConcurrency ELSE value

-----------------------------------------------------------------------------
(* Submission: start and run_sync.                                         *)

HasRoom(E) ==
  runningCount + Cardinality(queue \ E) < effective + QueueLimit

(* Mutant: the registry test is off by one.                                *)
Overfull(reg) == Cardinality(reg) > MaxJobs
Full(reg)     == Cardinality(reg) >= MaxJobs

Submit(j, E, T) ==
  /\ state[j] = "NEW" /\ ~closed
  /\ HasRoom(E)
  /\ \E reg \in CleanedTo(E, T, MaxJobs - 1) :
       /\ ~Full(reg)
       /\ registry' = reg \cup {j}
  /\ state' = [i \in Jobs |-> IF i = j THEN "QUEUED"
                              ELSE IF i \in E THEN "FAILED" ELSE state[i]]
  /\ queue' = (queue \ E) \cup {j}
  /\ ahead' = {p \in ahead : p[1] \notin E /\ p[2] \notin E}
                \cup ((queue \ E) \X {j})
  /\ sync' = [Woken EXCEPT ![j] = IF j \in SyncJobs THEN "checking" ELSE "idle"]
  /\ UNCHANGED <<requestVars, killVars, brokerVars, dispatching, process,
                 runningCount, worker, canceller>>

(* EXEC_QUEUE_FULL "job registry is full": the queue has room, but every   *)
(* entry left in _jobs is live or waits for its run_sync caller.           *)
SubmitRegistryFull(j, E, T) ==
  /\ state[j] = "NEW" /\ ~closed
  /\ HasRoom(E)
  /\ \E reg \in CleanedTo(E, T, MaxJobs - 1) :
       /\ Full(reg)
       /\ registry' = reg
  /\ FinishLocked(All(E, "FAILED"))
  /\ Dequeue(E)
  /\ UNCHANGED <<requestVars, killVars, brokerVars, worker, canceller>>

(* status, snapshot, and a submission refused with "queue is full": the    *)
(* only thing they change is what _clean_locked changes.                   *)
Clean(E, T) ==
  /\ E \cup T # {}
  /\ registry' \in CleanedTo(E, T, MaxJobs)
  /\ FinishLocked(All(E, "FAILED"))
  /\ Dequeue(E)
  /\ UNCHANGED <<requestVars, killVars, brokerVars, worker, canceller>>

(* run_sync after _submit: wait without a timeout, then drop the job.      *)
SyncSleep(j) ==
  /\ sync[j] = "checking" /\ state[j] \notin Terminal
  /\ sync' = [sync EXCEPT ![j] = "asleep"]
  /\ UNCHANGED <<requestVars, killVars, storeVars, brokerVars, state,
                 dispatching, process, runningCount, worker, canceller>>

SyncReturn(j) ==
  /\ sync[j] = "checking" /\ state[j] \in Terminal
  /\ sync' = [sync EXCEPT ![j] = "returned"]
  /\ registry' = registry \ {j}
  /\ UNCHANGED <<requestVars, killVars, brokerVars, state, dispatching, process,
                 runningCount, queue, ahead, worker, canceller>>

-----------------------------------------------------------------------------
(* The worker threads.                                                     *)

At(w, label, j) == worker[w].pc = label /\ worker[w].job = j
Goto(w, label, j) == worker' = [worker EXCEPT ![w] = [pc |-> label, job |-> j]]
Terminating(thread) == \E t \in terminations : t.by = thread


Blocked(E) == paused \/ queue \ E = {} \/ runningCount >= effective

(* Mutant: the loop does not expire queued jobs while it is paused.        *)
ExpireUnlessPaused(w, E) ==
  /\ worker[w].pc = "take" /\ ~paused
  /\ E # {} /\ Blocked(E) /\ ~(closed /\ queue \ E = {})
  /\ FinishLocked(All(E, "FAILED"))
  /\ Dequeue(E)
  /\ UNCHANGED <<requestVars, killVars, brokerVars, registry, worker,
                 canceller>>

(* one turn of the loop in _take_job that ends in wait(0.1)                *)
ExpireAndWait(w, E) ==
  /\ worker[w].pc = "take"
  /\ E # {} /\ Blocked(E) /\ ~(closed /\ queue \ E = {})
  /\ FinishLocked(All(E, "FAILED"))
  /\ Dequeue(E)
  /\ UNCHANGED <<requestVars, killVars, brokerVars, registry, worker,
                 canceller>>

(* Mutant: the head is looked up before the expired jobs are removed.      *)
TakeStaleHead(w, j, E) ==
  /\ worker[w].pc = "take"
  /\ ~Blocked(E)
  /\ IsHead(j, queue)
  /\ state' = [i \in Jobs |-> IF i \in E THEN "FAILED" ELSE state[i]]
  /\ Dequeue(E \cup {j})
  /\ dispatching' = dispatching \cup {j}
  /\ runningCount' = runningCount + 1
  /\ Goto(w, "prepare", j)
  /\ sync' = IF E = {} THEN sync ELSE Woken
  /\ UNCHANGED <<requestVars, killVars, brokerVars, process, registry,
                 canceller>>

(* the turn that takes a job                                               *)
TakeJob(w, j, E) ==
  /\ worker[w].pc = "take"
  /\ ~Blocked(E)
  /\ IsHead(j, queue \ E)
  /\ state' = [i \in Jobs |-> IF i \in E THEN "FAILED" ELSE state[i]]
  /\ Dequeue(E \cup {j})
  /\ IF state[j] = "QUEUED"
     THEN /\ dispatching' = dispatching \cup {j}
          /\ runningCount' = runningCount + 1
          /\ Goto(w, "prepare", j)
     ELSE UNCHANGED <<dispatching, runningCount, worker>>
  /\ sync' = IF E = {} THEN sync ELSE Woken
  /\ UNCHANGED <<requestVars, killVars, brokerVars, process, registry,
                 canceller>>

(* Mutant: the loop tests _paused before _closed.                          *)
WorkerExitsUnlessPaused(w, E) ==
  /\ worker[w].pc = "take"
  /\ closed /\ ~paused /\ queue \ E = {}
  /\ FinishLocked(All(E, "FAILED"))
  /\ Dequeue(E)
  /\ Goto(w, "exited", NoJob)
  /\ UNCHANGED <<requestVars, killVars, brokerVars, registry, canceller>>

WorkerExits(w, E) ==
  /\ worker[w].pc = "take"
  /\ closed /\ queue \ E = {}
  /\ FinishLocked(All(E, "FAILED"))
  /\ Dequeue(E)
  /\ Goto(w, "exited", NoJob)
  /\ UNCHANGED <<requestVars, killVars, brokerVars, registry, canceller>>

(* prepare_exec raised: _finish_prepare_failure                            *)
PrepareFails(w, j) ==
  /\ At(w, "prepare", j)
  /\ FinishLocked(All({j}, IF j \in cancelRequested \/ closed
                           THEN "CANCELED" ELSE "FAILED"))
  /\ Goto(w, "take", NoJob)
  /\ UNCHANGED <<requestVars, killVars, storeVars, brokerVars, canceller>>

(* prepare_exec returned the concurrency it allows                         *)
BeginRun(w, j, allowed) ==
  /\ At(w, "prepare", j)
  /\ SetEffectiveLocked(allowed)
  /\ IF closed \/ j \in cancelRequested
     THEN /\ FinishLocked(All({j}, "CANCELED"))
          /\ Goto(w, "take", NoJob)
     ELSE /\ state' = [state EXCEPT ![j] = "RUNNING"]
          /\ Goto(w, "spawn", j)
          /\ sync' = IF effective' # effective THEN Woken ELSE sync
          /\ UNCHANGED <<dispatching, process, runningCount>>
  /\ UNCHANGED <<requestVars, killVars, storeVars, paused, closed, canceller,
                 reconnect>>

(* process_factory started the ssh child                                   *)
Spawn(w, j) ==
  /\ At(w, "spawn", j)
  /\ os' = [os EXCEPT ![j] = "running"]
  /\ Goto(w, "register", j)
  /\ UNCHANGED <<jobVars, requestVars, storeVars, brokerVars,
                 terminationStarted, signal, terminations, canceller>>

(* process_factory raised, always an SSH_ERROR: _finish_spawn_failure      *)
SpawnFails(w, j) ==
  /\ At(w, "spawn", j)
  /\ FinishLocked(All({j}, "FAILED"))
  /\ Goto(w, "take", NoJob)
  /\ UNCHANGED <<requestVars, killVars, storeVars, brokerVars, canceller>>

(* Mutant: termination_started is never set.                               *)
ClaimUnmarked(thread, j) ==
  /\ terminations' =
       terminations \cup {[by |-> thread, job |-> j, step |-> "poll"]}
  /\ UNCHANGED terminationStarted

(* Whoever claims the termination of j calls _terminate_process.           *)
Claim(thread, j) ==
  /\ terminationStarted' = terminationStarted \cup {j}
  /\ terminations' =
       terminations \cup {[by |-> thread, job |-> j, step |-> "poll"]}

NoClaim == UNCHANGED <<terminationStarted, terminations>>

(* the child becomes visible; a termination asked for meanwhile starts now *)
RegisterProcess(w, j) ==
  /\ At(w, "register", j)
  /\ process' = process \cup {j}
  /\ IF reason[j] # "NONE" /\ j \notin terminationStarted
     THEN Claim(w, j) ELSE NoClaim
  /\ Goto(w, "monitor", j)
  /\ sync' = Woken
  /\ UNCHANGED <<requestVars, storeVars, brokerVars, state, dispatching,
                 runningCount, os, signal, canceller>>

(* process.poll() in _monitor_process; an exit leads on to the readers and *)
(* the final block.                                                        *)
MonitorPoll(w, j) ==
  /\ At(w, "monitor", j) /\ ~Terminating(w)
  /\ Goto(w, IF ChildGone(j) THEN "finish" ELSE "decide", j)
  /\ UNCHANGED <<jobVars, requestVars, killVars, storeVars, brokerVars,
                 canceller>>

(* the locked block of _monitor_process, which acts on the poll before it  *)
MonitorDecide(w, j, timedOut) ==
  /\ At(w, "decide", j)
  /\ LET why == IF reason[j] = "NONE" /\ timedOut THEN "TIMED_OUT"
                ELSE reason[j]
     IN  /\ reason' = [reason EXCEPT ![j] = why]
         /\ IF why # "NONE" /\ j \notin terminationStarted
            THEN Claim(w, j) ELSE NoClaim
  /\ Goto(w, "monitor", j)
  /\ UNCHANGED <<jobVars, storeVars, brokerVars, cancelRequested, remoteUnknown,
                 os, signal, canceller>>

(* Mutant: remote_termination_unknown is left out for a timeout.           *)
FinishForgetsTimeout(w, j) ==
  /\ At(w, "finish", j)
  /\ LET lost == reason[j] = "NONE" /\ os[j] = "sshlost"
     IN  FinishLocked(All({j}, IF reason[j] # "NONE" THEN reason[j]
                               ELSE IF lost THEN "FAILED" ELSE "EXITED"))
  /\ Goto(w, "take", NoJob)
  /\ remoteUnknown' =
       remoteUnknown \cup (IF reason[j] = "CANCELED" THEN {j} ELSE {})
  /\ UNCHANGED <<killVars, storeVars, brokerVars, cancelRequested, reason,
                 canceller>>

(* the final block of _run_job                                             *)
FinishRun(w, j) ==
  /\ At(w, "finish", j)
  /\ LET lost == reason[j] = "NONE" /\ os[j] = "sshlost"
     IN  FinishLocked(All({j}, IF reason[j] # "NONE" THEN reason[j]
                               ELSE IF lost THEN "FAILED" ELSE "EXITED"))
  /\ Goto(w, "take", NoJob)
  /\ remoteUnknown' =
       remoteUnknown \cup (IF reason[j] # "NONE" THEN {j} ELSE {})
  /\ UNCHANGED <<killVars, storeVars, brokerVars, cancelRequested, reason,
                 canceller>>

-----------------------------------------------------------------------------
(* The ssh child and _terminate_process.                                   *)

ProcessExits(j, how) ==
  /\ os[j] = "running"
  /\ signal[j] = "KILL" => how = "exited"
  /\ os' = [os EXCEPT ![j] = how]
  /\ UNCHANGED <<jobVars, requestVars, storeVars, brokerVars,
                 terminationStarted, signal, terminations, worker, canceller>>

(* Mutant: wait() without a timeout after terminate().                     *)
TerminationNeverKills(t) ==
  /\ \/ /\ ChildGone(t.job)
        /\ terminations' = terminations \ {t} /\ UNCHANGED signal
     \/ /\ t.step = "poll" /\ os[t.job] = "running"
        /\ signal' = [signal EXCEPT ![t.job] = "TERM"]
        /\ terminations' =
             (terminations \ {t}) \cup {[t EXCEPT !.step = "grace"]}
  /\ UNCHANGED <<jobVars, requestVars, storeVars, brokerVars,
                 terminationStarted, os, worker, canceller>>

(* terminate, wait out cancel_grace, kill; return as soon as poll() finds  *)
(* the child gone                                                          *)
TerminationStep(t) ==
  /\ \/ /\ ChildGone(t.job)
        /\ terminations' = terminations \ {t} /\ UNCHANGED signal
     \/ /\ t.step = "poll" /\ os[t.job] = "running"
        /\ signal' = [signal EXCEPT ![t.job] = "TERM"]
        /\ terminations' =
             (terminations \ {t}) \cup {[t EXCEPT !.step = "grace"]}
     \/ /\ t.step = "grace" /\ os[t.job] = "running"
        /\ signal' = [signal EXCEPT ![t.job] = "KILL"]
        /\ terminations' = terminations \ {t}
  /\ UNCHANGED <<jobVars, requestVars, storeVars, brokerVars,
                 terminationStarted, os, worker, canceller>>

-----------------------------------------------------------------------------
(* cancel                                                                  *)

CancelAt(c, label, j) == canceller[c].pc = label /\ canceller[c].job = j
CancelGoto(c, label, j) ==
  canceller' = [canceller EXCEPT ![c] = [pc |-> label, job |-> j]]

(* Mutant: a job cancelled in the queue stays in the deque.                *)
CancelLeavesQueued(c, j, E, T) ==
  /\ CancelAt(c, "idle", NoJob)
  /\ j \in registry \ (SyncJobs \cup T)
  /\ j \in queue \ E /\ state[j] = "QUEUED" /\ j \notin dispatching
  /\ registry' \in CleanedTo(E, T, MaxJobs)
  /\ FinishLocked([i \in E \cup {j} |-> IF i = j THEN "CANCELED" ELSE "FAILED"])
  /\ Dequeue(E)
  /\ cancelRequested' = cancelRequested \cup {j}
  /\ UNCHANGED <<killVars, brokerVars, reason, remoteUnknown, worker,
                 canceller>>

(* First block, on a job still in the queue: it never starts.  A terminal  *)
(* or unknown job changes nothing here beyond what Clean does.             *)
CancelQueued(c, j, E, T) ==
  /\ CancelAt(c, "idle", NoJob)
  /\ j \in registry \ (SyncJobs \cup T)
  /\ j \in queue \ E /\ state[j] = "QUEUED" /\ j \notin dispatching
  /\ registry' \in CleanedTo(E, T, MaxJobs)
  /\ FinishLocked([i \in E \cup {j} |-> IF i = j THEN "CANCELED" ELSE "FAILED"])
  /\ Dequeue(E \cup {j})
  /\ cancelRequested' = cancelRequested \cup {j}
  /\ UNCHANGED <<killVars, brokerVars, reason, remoteUnknown, worker,
                 canceller>>

(* First block, on a dispatched job: remember job.process, drop the lock.  *)
(* (A waiting job missing from the deque, the ValueError branch, would     *)
(* contradict QueueExact.)                                                 *)
CancelActive(c, j, E, T) ==
  /\ CancelAt(c, "idle", NoJob)
  /\ j \in registry \ (SyncJobs \cup T)
  /\ state[j] = "RUNNING" \/ (state[j] = "QUEUED" /\ j \in dispatching)
  /\ registry' \in CleanedTo(E, T, MaxJobs)
  /\ FinishLocked(All(E, "FAILED"))
  /\ Dequeue(E)
  /\ CancelGoto(c, IF j \in process THEN "poll" ELSE "mark", j)
  /\ UNCHANGED <<requestVars, killVars, brokerVars, worker>>

(* process.poll() without the lock                                         *)
CancelPoll(c, j) ==
  /\ CancelAt(c, "poll", j)
  /\ CancelGoto(c, IF ChildGone(j) THEN "ended" ELSE "mark", j)
  /\ UNCHANGED <<jobVars, requestVars, killVars, storeVars, brokerVars, worker>>

(* Mutant: a timeout already noted is kept as the reason.                  *)
CancelKeepsTimeout(c, j) ==
  /\ CancelAt(c, "mark", j) /\ state[j] \notin Terminal
  /\ cancelRequested' = cancelRequested \cup {j}
  /\ reason' = [reason EXCEPT ![j] = IF @ = "NONE" THEN "CANCELED" ELSE @]
  /\ IF j \in process /\ j \notin terminationStarted
     THEN Claim(c, j) ELSE NoClaim
  /\ CancelGoto(c, "await", j)
  /\ sync' = Woken
  /\ UNCHANGED <<storeVars, brokerVars, state, dispatching, process,
                 runningCount, remoteUnknown, os, signal, worker>>

(* Mutant: cancel reports CANCELED at once, before the child is gone.      *)
CancelFinishesAtOnce(c, j) ==
  /\ CancelAt(c, "mark", j) /\ state[j] \notin Terminal
  /\ cancelRequested' = cancelRequested \cup {j}
  /\ reason' = [reason EXCEPT ![j] = "CANCELED"]
  /\ IF j \in process /\ j \notin terminationStarted
     THEN Claim(c, j) ELSE NoClaim
  /\ FinishLocked(All({j}, "CANCELED"))
  /\ CancelGoto(c, "await", j)
  /\ UNCHANGED <<storeVars, brokerVars, remoteUnknown, os, signal, worker>>

(* the block that asks for the termination                                 *)
CancelMark(c, j) ==
  /\ CancelAt(c, "mark", j) /\ state[j] \notin Terminal
  /\ cancelRequested' = cancelRequested \cup {j}
  /\ reason' = [reason EXCEPT ![j] = "CANCELED"]
  /\ IF j \in process /\ j \notin terminationStarted
     THEN Claim(c, j) ELSE NoClaim
  /\ CancelGoto(c, "await", j)
  /\ sync' = Woken
  /\ UNCHANGED <<storeVars, brokerVars, state, dispatching, process,
                 runningCount, remoteUnknown, os, signal, worker>>

(* already terminal, or terminal at last                                   *)
CancelSeesEnd(c, j) ==
  /\ canceller[c].pc \in {"ended", "mark", "await"} /\ canceller[c].job = j
  /\ ~Terminating(c) /\ state[j] \in Terminal
  /\ CancelGoto(c, "idle", NoJob)
  /\ UNCHANGED <<jobVars, requestVars, killVars, storeVars, brokerVars, worker>>

(* cancel_grace + 5 s have passed; only the wait of a call that marked the *)
(* job has a deadline                                                      *)
CancelGivesUp(c, j) ==
  /\ CancelAt(c, "await", j) /\ ~Terminating(c)
  /\ state[j] \notin Terminal
  /\ CancelGoto(c, "idle", NoJob)
  /\ UNCHANGED <<jobVars, requestVars, killVars, storeVars, brokerVars, worker>>

-----------------------------------------------------------------------------
(* What BrokerState calls: reconnect, ensure_ready and close.              *)

(* pause_dispatch; a running job sends reconnect back with BROKER_BUSY     *)
PauseDispatch ==
  /\ reconnect = "idle"
  /\ paused' = TRUE
  /\ reconnect' = IF runningCount > 0 THEN "busy" ELSE "connecting"
  /\ UNCHANGED <<jobVars, requestVars, killVars, storeVars, effective, closed,
                 worker, canceller>>

(* fail_queued: the attempt left the broker OPEN                           *)
FailQueued ==
  /\ reconnect = "connecting"
  /\ reconnect' = "open"
  /\ FinishLocked(All(queue, "FAILED"))
  /\ Dequeue(queue)
  /\ UNCHANGED <<requestVars, killVars, registry, effective, paused, closed,
                 worker, canceller>>

(* resume_dispatch; the BROKER_BUSY path passes no concurrency             *)
ResumeDispatch(value) ==
  /\ reconnect # "idle"
  /\ IF reconnect = "busy" THEN UNCHANGED effective
     ELSE SetEffectiveLocked(value)
  /\ reconnect' = "idle"
  /\ paused' = FALSE
  /\ sync' = Woken
  /\ UNCHANGED <<requestVars, killVars, storeVars, state, dispatching, process,
                 runningCount, closed, worker, canceller>>

(* set_effective_concurrency, from ensure_ready on any thread              *)
SetEffective(value) ==
  /\ SetEffectiveLocked(value)
  /\ effective' # effective
  /\ sync' = Woken
  /\ UNCHANGED <<requestVars, killVars, storeVars, state, dispatching, process,
                 runningCount, paused, closed, worker, canceller, reconnect>>

(* close: its one locked block.  The terminator threads it starts run as   *)
(* terminations by "close".                                                *)
Close ==
  /\ ~closed
  /\ closed' = TRUE /\ paused' = TRUE
  /\ LET mine    == {j \in registry : \/ state[j] = "QUEUED" /\ j \in dispatching
                                      \/ state[j] = "RUNNING"}
         claimed == {j \in mine : /\ state[j] = "RUNNING" /\ j \in process
                                  /\ j \notin terminationStarted}
     IN  /\ cancelRequested' = cancelRequested \cup queue \cup mine
         /\ reason' = [j \in Jobs |-> IF j \in mine THEN "CANCELED"
                                      ELSE reason[j]]
         /\ terminationStarted' = terminationStarted \cup claimed
         /\ terminations' = terminations \cup
              {[by |-> "close", job |-> j, step |-> "poll"] : j \in claimed}
  /\ FinishLocked(All(queue, "CANCELED"))
  /\ Dequeue(queue)
  /\ UNCHANGED <<remoteUnknown, os, signal, registry, effective, worker,
                 canceller, reconnect>>

-----------------------------------------------------------------------------
WorkerStep(w) ==
  \E j \in Jobs :
       \/ PrepareFails(w, j)
       \/ \E allowed \in {1, MaxConcurrency} : BeginRun(w, j, allowed)
       \/ Spawn(w, j)
       \/ SpawnFails(w, j)
       \/ RegisterProcess(w, j)
       \/ MonitorPoll(w, j)
       \/ \E timedOut \in BOOLEAN : MonitorDecide(w, j, timedOut)
       \/ FinishRun(w, j)

LoopTurn(w, E) ==
  \/ ExpireAndWait(w, E)
  \/ \E j \in Jobs : TakeJob(w, j, E)
  \/ WorkerExits(w, E)

CancelStep(c) ==
  \E j \in Jobs : \/ CancelPoll(c, j)
                 \/ CancelMark(c, j)
                 \/ CancelSeesEnd(c, j)
                 \/ CancelGivesUp(c, j)

Requests(E, T) ==
  \/ \E j \in Jobs :
       \/ Submit(j, E, T)
       \/ SubmitRegistryFull(j, E, T)
       \/ \E c \in Cancellers : CancelQueued(c, j, E, T) \/ CancelActive(c, j, E, T)
  \/ Clean(E, T)

BrokerCalls ==
  \/ PauseDispatch
  \/ FailQueued
  \/ \E value \in {1, MaxConcurrency} : ResumeDispatch(value) \/ SetEffective(value)
  \/ Close

Next ==
  \/ \E E \in SUBSET queue, T \in SUBSET Settled : Requests(E, T)
  \/ \E w \in Workers :
       WorkerStep(w) \/ \E E \in SUBSET queue : LoopTurn(w, E)
  \/ \E j \in Jobs :
       \/ SyncSleep(j) \/ SyncReturn(j)
       \/ \E how \in {"exited", "sshlost"} : ProcessExits(j, how)
  \/ \E t \in terminations : TerminationStep(t)
  \/ \E c \in Cancellers : CancelStep(c)
  \/ BrokerCalls

Spec == Init /\ [][Next]_vars

(* Threads keep running, prepare_exec and process_factory return (their    *)
(* ssh calls all carry timeouts), and time passes: a job left in the queue *)
(* is found expired by some loop turn, a monitored job runs into its       *)
(* timeout, a grace period ends.  A child may ignore SIGTERM but not       *)
(* SIGKILL.  Nothing is assumed of clients or of reconnect.                *)
Fairness ==
  /\ \A w \in Workers :
       /\ WF_vars(WorkerStep(w))
       /\ SF_vars(\E j \in Jobs : MonitorDecide(w, j, TRUE))
       /\ WF_vars(WorkerExits(w, {}))
  /\ \A j \in Jobs :
       /\ WF_vars(\E w \in Workers, E \in SUBSET queue : j \in E /\ LoopTurn(w, E))
       /\ WF_vars(signal[j] = "KILL" /\ ProcessExits(j, "exited"))
       /\ WF_vars(SyncSleep(j) \/ SyncReturn(j))
       /\ \A by \in Workers \cup Cancellers \cup {"close"} :
            WF_vars(\E t \in terminations :
                      t.by = by /\ t.job = j /\ TerminationStep(t))
  /\ \A c \in Cancellers : WF_vars(CancelStep(c))

FairSpec == Spec /\ Fairness

-----------------------------------------------------------------------------
(* Properties.                                                             *)

Threads == Workers \cup Cancellers \cup {"close"}
Holding == {"prepare", "spawn", "register", "monitor", "decide", "finish"}

(* The types of the manager's fields and of the threads' positions.        *)
TypeOK ==
  /\ state \in [Jobs -> {"NEW", "QUEUED", "RUNNING"} \cup Terminal]
  /\ dispatching \subseteq Jobs /\ cancelRequested \subseteq Jobs
  /\ reason \in [Jobs -> {"NONE", "CANCELED", "TIMED_OUT"}]
  /\ terminationStarted \subseteq Jobs /\ process \subseteq Jobs
  /\ remoteUnknown \subseteq Jobs
  /\ os \in [Jobs -> {"none", "running", "exited", "sshlost"}]
  /\ signal \in [Jobs -> {"none", "TERM", "KILL"}]
  /\ terminations \subseteq [by : Threads, job : Jobs, step : {"poll", "grace"}]
  /\ queue \subseteq Jobs /\ ahead \subseteq queue \X queue
  /\ registry \subseteq Jobs
  /\ runningCount \in Nat
  /\ effective \in 1..MaxConcurrency
  /\ paused \in BOOLEAN /\ closed \in BOOLEAN
  /\ worker \in [Workers -> [pc : Holding \cup {"take", "exited"},
                             job : Jobs \cup {NoJob}]]
  /\ canceller \in [Cancellers -> [pc : {"idle", "poll", "ended", "mark", "await"},
                                   job : Jobs \cup {NoJob}]]
  /\ sync \in [Jobs -> {"idle", "checking", "asleep", "returned"}]
  /\ reconnect \in {"idle", "busy", "connecting", "open"}

(* _running_count is the number of dispatched jobs: every path out of a    *)
(* worker gives the slot back once, although cancel, close, expiry and the *)
(* worker itself all may try to finish a job.  It never exceeds the        *)
(* workers, though it may exceed a concurrency lowered under way.          *)
RunningExact ==
  runningCount = Cardinality(dispatching) /\ runningCount <= MaxConcurrency

(* The deque holds exactly the jobs that wait undispatched.  So the        *)
(* ValueError branch of cancel and the state test after popleft are dead   *)
(* code, and no job is lost between the queue and a worker.                *)
QueueExact ==
  \A j \in Jobs : j \in queue <=> state[j] = "QUEUED" /\ j \notin dispatching

(* The two bounds _submit checks hold afterwards whatever the concurrency  *)
(* does later: total load, and the size of _jobs.                          *)
BoundedLoad ==
  /\ runningCount + Cardinality(queue) <= MaxConcurrency + QueueLimit
  /\ Cardinality(registry) <= MaxJobs

(* A job that is not over is in _jobs, where close() looks for children to *)
(* terminate: eviction, TTL and run_sync's pop never drop a live one.      *)
LiveJobsRegistered ==
  \A j \in Accepted : state[j] \notin Terminal => j \in registry

(* A job reported as over has no local ssh child, and never gets one.      *)
NoOrphanChild ==
  \A j \in Jobs : state[j] \in Terminal => os[j] # "running" /\ j \notin process

(* The outcome reported is what happened to the command.  In particular    *)
(* CANCELED or TIMED_OUT without remote_termination_unknown means that the *)
(* command was never started, and FAILED that no command ran to its end.   *)
HonestOutcome ==
  \A j \in Jobs :
    /\ state[j] \in {"CANCELED", "TIMED_OUT"} =>
         (os[j] # "none" <=> j \in remoteUnknown)
    /\ state[j] = "EXITED" => os[j] # "none"
    /\ state[j] = "FAILED" => os[j] \in {"none", "sshlost"}

(* A cancel or close that reached a live job decides its outcome: it ends  *)
(* CANCELED, even if it had timed out or its child exited meanwhile.  Only *)
(* a child that could not be started takes precedence.                     *)
CancelWins ==
  \A j \in cancelRequested :
    state[j] \in Terminal =>
      state[j] = "CANCELED" \/ (state[j] = "FAILED" /\ os[j] = "none")

(* At most one thread runs _terminate_process on a child, and only after a *)
(* cancel, a close or a timeout.                                           *)
SingleTerminator ==
  /\ \A s, t \in terminations : s.job = t.job => s = t
  /\ \A j \in Jobs : signal[j] # "none" => reason[j] # "NONE"

(* A job that is over stays as it is: no later step of a worker, a cancel, *)
(* close or expiry changes its state or starts its command.                *)
TerminalIsFinal ==
  [][\A j \in Jobs : state[j] \in Terminal =>
        state'[j] = state[j] /\ os'[j] = os[j]]_vars

(* Every accepted job ends, paused or not, closed or not.                  *)
EveryJobEnds ==
  \A j \in Jobs : state[j] = "QUEUED" ~> state[j] \in Terminal

(* run_sync waits without a timeout, and is still always woken up.         *)
SyncCallersReturn ==
  \A j \in Jobs : sync[j] = "checking" ~> sync[j] = "returned"

(* Every cancel call returns, even one that waits for the end without a    *)
(* deadline.                                                               *)
CancelsReturn ==
  \A c \in Cancellers : canceller[c].pc = "poll" ~> canceller[c].pc = "idle"

(* After close every worker thread exits.                                  *)
CloseDrains == closed ~> \A w \in Workers : worker[w].pc = "exited"

-----------------------------------------------------------------------------
(* The inductive invariant: where a job stands, seen from its worker, from *)
(* outside the workers, and from whoever asked for its end.                *)

HeldBy(w, j) == worker[w].pc \in Holding /\ worker[w].job = j

(* the progress of a job is the position of the one worker that holds it   *)
HeldJobs ==
  /\ \A j \in Jobs : j \in dispatching <=> \E w \in Workers : HeldBy(w, j)
  /\ \A v, w \in Workers, j \in Jobs : HeldBy(v, j) /\ HeldBy(w, j) => v = w
  /\ \A w \in Workers, j \in Jobs : HeldBy(w, j) =>
       /\ state[j] = IF worker[w].pc = "prepare" THEN "QUEUED" ELSE "RUNNING"
       /\ os[j] = "none" <=> worker[w].pc \in {"prepare", "spawn"}
       /\ j \in process <=> worker[w].pc \in {"monitor", "decide", "finish"}
       /\ worker[w].pc = "finish" => ChildGone(j)

(* a job no worker holds is new, waiting in the deque, or over             *)
LooseJobs ==
  \A j \in Jobs \ dispatching :
    /\ state[j] \in {"NEW", "QUEUED"} \cup Terminal
    /\ j \notin process /\ os[j] # "running"
    /\ state[j] \in {"NEW", "QUEUED"} => os[j] = "none"

(* a cancel call past its first block works on a job that left the deque   *)
Targets(c, j) == canceller[c].pc # "idle" /\ canceller[c].job = j
Taken(j) == j \in dispatching \/ state[j] \in Terminal
CancelTargets == \A c \in Cancellers, j \in Jobs : Targets(c, j) => Taken(j)

(* an end asked for is not forgotten, and noted only for a started command *)
RequestedEnds ==
  /\ \A j \in cancelRequested : state[j] \notin Terminal =>
       j \in dispatching /\ reason[j] = "CANCELED"
  /\ \A j \in Jobs : state[j] \notin Terminal => j \notin remoteUnknown

JobInv ==
  /\ TypeOK
  /\ RunningExact /\ QueueExact
  /\ HeldJobs /\ LooseJobs /\ CancelTargets /\ RequestedEnds
  /\ HonestOutcome /\ CancelWins

(* What SingleTerminator needs beside: who runs a termination claimed it,  *)
(* and a reason that was noted stays.                                      *)
TerminationsClaimed ==
  /\ SingleTerminator
  /\ \A t \in terminations : t.job \in terminationStarted /\ reason[t.job] # "NONE"

-----------------------------------------------------------------------------
(* What the manager promises, told without threads: see ExecService.       *)

Phase == [j \in Jobs |->
            IF state[j] = "NEW" THEN "new"
            ELSE IF state[j] \in Terminal THEN "over"
            ELSE IF os[j] = "none" THEN "waiting" ELSE "running"]

Service == INSTANCE ExecService WITH phase <- Phase, Slots <- MaxConcurrency

ImplementsService == Service!Spec
=============================================================================
