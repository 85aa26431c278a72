-------------------------------- MODULE Rsync --------------------------------
(***************************************************************************)
(* RsyncManager (sshbridge/rsync.py): transfers wait in a queue and run    *)
(* one at a time on one worker thread, under one condition lock.  A client *)
(* thread first looks up, or probes, what rsync can do, under a lock of    *)
(* its own; a reconnect forgets that answer.                               *)
(*                                                                         *)
(* A block under a lock is one action; _capability_lock, held while the    *)
(* probe waits for its remote command, is a variable.  Each member of Jobs *)
(* is one call of start.  Paths, versions, options and output are left     *)
(* out; a transfer has no time limit, and time is not counted.             *)
(***************************************************************************)
EXTENDS Integers, FiniteSets, Sequences, SequencesExt

CONSTANTS
  Jobs,
  Cancellers,           \* client threads that call cancel
  MaxQueue, MaxHistory, \* MAX_QUEUE, MAX_HISTORY
  None                  \* no job

ASSUME RsyncAssumption ==
  /\ MaxQueue \in Nat \ {0} /\ MaxHistory \in Nat \ {0}
  /\ None \notin Jobs
  /\ Cancellers \cap {"worker", "close"} = {}

Terminal    == {"succeeded", "failed", "cancelled"}
Terminators == Cancellers \cup {"worker", "close"}
Endings     == {"ok", "error", "ssh", "cancelled", "marked"}

VARIABLES
  client,          \* where the thread of each start call stands
  capability,      \* _capability["state"]
  resolved,        \* _resolved_rsync_bin is set
  probing,         \* the job whose client holds _capability_lock
  state,           \* job["state"]
  nameless,        \* jobs whose argv has no executable
  jobs,            \* _jobs: its keys, numbered in the order of insertion
  queue,           \* _queue
  cancelRequested, \* jobs with job["cancel_requested"]
  process,         \* jobs with job["_process"]
  remoteUnknown,   \* jobs with job["remote_termination_unknown"]
  active,          \* _active_job_id
  worker,          \* where the worker stands
  closed,          \* _closed
  child,           \* the rsync process: "none", "alive", or how it ended
  signal,          \* the last signal sent to it
  terminations     \* calls of _terminate_process under way

capabilityVars == <<client, capability, resolved, probing, nameless>>
jobVars    == <<state, jobs, queue, cancelRequested, process, remoteUnknown>>
childVars  == <<child, signal>>
workerVars == <<active, worker>>
vars == <<capabilityVars, jobVars, childVars, workerVars, closed, terminations>>

Init ==
  /\ client = [j \in Jobs |-> "idle"]
  /\ capability = "unknown" /\ resolved = FALSE /\ probing = None
  /\ nameless = {} /\ jobs = [j \in {} |-> 0] /\ queue = <<>>
  /\ state = [j \in Jobs |-> "none"]
  /\ cancelRequested = {} /\ process = {} /\ remoteUnknown = {}
  /\ active = None /\ worker = "idle" /\ closed = FALSE
  /\ child = [j \in Jobs |-> "none"] /\ signal = [j \in Jobs |-> "none"]
  /\ terminations = {}

Goto(j, label) == client' = [client EXCEPT ![j] = label]

-----------------------------------------------------------------------------
(* start: the capability                                                   *)

(* _require_capability: no master, or an answer is known, or the probe     *)
(* begins under the lock                                                   *)
RequireCapability(j) ==
  /\ client[j] = "idle"
  /\ \/ Goto(j, "refused") /\ UNCHANGED probing
     \/ /\ probing = None /\ capability # "unknown"
        /\ Goto(j, IF capability = "available" THEN "validate" ELSE "refused")
        /\ UNCHANGED probing
     \/ /\ probing = None /\ capability = "unknown"
        /\ Goto(j, "probe") /\ probing' = j
  /\ UNCHANGED <<capability, resolved, nameless, jobVars, childVars,
                 workerVars, closed, terminations>>

(* _probe_capability ends: a usable rsync, an unusable one, or an error of *)
(* the remote command that leaves the answer unknown                       *)
ProbeEnds(j) ==
  /\ client[j] = "probe"
  /\ probing' = None
  /\ \/ capability' = "available" /\ resolved' = TRUE /\ Goto(j, "validate")
     \/ capability' = "unavailable" /\ Goto(j, "refused") /\ UNCHANGED resolved
     \/ Goto(j, "refused") /\ UNCHANGED <<capability, resolved>>
  /\ UNCHANGED <<nameless, jobVars, childVars, workerVars, closed, terminations>>

(* called by a reconnect                                                   *)
InvalidateCapabilities ==
  /\ probing = None
  /\ capability' = "unknown" /\ resolved' = FALSE
  /\ UNCHANGED <<client, probing, nameless, jobVars, childVars, workerVars,
                 closed, terminations>>

(* _validate_request, then _build_argv, which reads _resolved_rsync_bin    *)
(* without the lock                                                        *)
BuildArgv(j) ==
  /\ client[j] = "validate"
  /\ \/ Goto(j, "refused") /\ UNCHANGED nameless
     \/ /\ Goto(j, "submit")
        /\ nameless' = IF resolved THEN nameless ELSE nameless \cup {j}
  /\ UNCHANGED <<capability, resolved, probing, jobVars, childVars,
                 workerVars, closed, terminations>>

Accepted == {j \in Jobs : client[j] = "accepted"}

Submit(j) ==
  /\ client[j] = "submit"
  /\ IF closed \/ Len(queue) >= MaxQueue
     THEN Goto(j, "refused") /\ UNCHANGED jobVars
     ELSE /\ Goto(j, "accepted")
          /\ state' = [state EXCEPT ![j] = "queued"]
          /\ jobs' = [i \in DOMAIN jobs \cup {j} |->
                       IF i = j THEN Cardinality(Accepted) ELSE jobs[i]]
          /\ queue' = Append(queue, j)
          /\ UNCHANGED <<cancelRequested, process, remoteUnknown>>
  /\ UNCHANGED <<capability, resolved, probing, nameless, childVars,
                 workerVars, closed, terminations>>

-----------------------------------------------------------------------------
(* History, cancel, close                                                  *)

(* _prune_history_locked: the MaxHistory newest finished jobs stay         *)
FinishedAfter(j, s) == {i \in DOMAIN jobs : jobs[i] > jobs[j] /\ s[i] \in Terminal}
HistoryKept(s) ==
  Restrict(jobs, {j \in DOMAIN jobs :
    s[j] \in Terminal => Cardinality(FinishedAfter(j, s)) < MaxHistory})

Termination(by, j) == [by |-> by, job |-> j, step |-> "term"]
Busy(by) == \E t \in terminations : t.by = by

(* Mutant: a cancelled job stays in the queue.                             *)
CancelKeepsPlace(c, j) ==
  /\ ~Busy(c) /\ j \in DOMAIN jobs /\ state[j] = "queued"
  /\ cancelRequested' = cancelRequested \cup {j}
  /\ state' = [state EXCEPT ![j] = "cancelled"]
  /\ jobs' = HistoryKept(state')
  /\ UNCHANGED <<queue, process, remoteUnknown, capabilityVars, childVars,
                 workerVars, closed, terminations>>

CancelQueued(c, j) ==
  /\ ~Busy(c) /\ j \in DOMAIN jobs /\ state[j] = "queued"
  /\ cancelRequested' = cancelRequested \cup {j}
  /\ queue' = RemoveFirst(queue, j)
  /\ state' = [state EXCEPT ![j] = "cancelled"]
  /\ jobs' = HistoryKept(state')
  /\ UNCHANGED <<process, remoteUnknown, capabilityVars, childVars,
                 workerVars, closed, terminations>>

(* ... and of a running one: its process, if there is one already, is      *)
(* terminated outside the lock                                             *)
CancelRunning(c, j) ==
  /\ ~Busy(c) /\ j \in DOMAIN jobs /\ state[j] = "running"
  /\ cancelRequested' = cancelRequested \cup {j}
  /\ terminations' = terminations \cup
       {Termination(c, i) : i \in {j} \cap process}
  /\ UNCHANGED <<state, jobs, queue, process, remoteUnknown, capabilityVars,
                 childVars, workerVars, closed>>

Close ==
  LET queued == {j \in ToSet(queue) : state[j] = "queued"}
      running == {j \in Jobs : j = active /\ state[j] = "running"}
  IN /\ ~closed /\ closed' = TRUE
     /\ state' = [j \in Jobs |-> IF j \in queued THEN "cancelled" ELSE state[j]]
     /\ queue' = <<>>
     /\ cancelRequested' = cancelRequested \cup queued \cup running
     /\ terminations' = terminations \cup
          {Termination("close", j) : j \in running \cap process}
     /\ UNCHANGED <<jobs, process, remoteUnknown, capabilityVars, childVars,
                    workerVars>>

-----------------------------------------------------------------------------
(* _terminate_process_group, on the thread of whoever calls it             *)

TerminationStep(t) ==
  /\ t \in terminations
  /\ t.step \in {"term", "kill"}
  /\ IF child[t.job] # "alive"
     THEN terminations' = terminations \ {t} /\ UNCHANGED signal
     ELSE /\ signal' = [signal EXCEPT ![t.job] =
                          IF @ = "KILL" \/ t.step = "kill" THEN "KILL" ELSE "TERM"]
          /\ terminations' = (terminations \ {t}) \cup
               {[t EXCEPT !.step = IF @ = "term" THEN "kill" ELSE "reap"]}
  /\ UNCHANGED <<capabilityVars, jobVars, workerVars, closed, child>>

(* the wait after SIGKILL ends                                             *)
TerminationReturns(t) ==
  /\ t \in terminations
  /\ t.step = "reap" /\ child[t.job] # "alive"
  /\ terminations' = terminations \ {t}
  /\ UNCHANGED <<capabilityVars, jobVars, workerVars, closed, childVars>>

(* rsync exits, of its own accord or by a signal                           *)
ChildExits(j) ==
  /\ child[j] = "alive"
  /\ \E end \in {"ok", "error", "ssh"} :
       /\ signal[j] = "KILL" => end = "error"
       /\ child' = [child EXCEPT ![j] = end]
  /\ UNCHANGED <<capabilityVars, jobVars, workerVars, closed, signal, terminations>>

-----------------------------------------------------------------------------
(* The worker                                                              *)

TakeJob ==
  /\ worker = "idle" /\ queue # <<>> /\ state[Head(queue)] = "queued"
  /\ queue' = Tail(queue)
  /\ state' = [state EXCEPT ![Head(queue)] = "running"]
  /\ active' = Head(queue) /\ worker' = "spawn"
  /\ UNCHANGED <<jobs, cancelRequested, process, remoteUnknown,
                 capabilityVars, childVars, closed, terminations>>

WorkerExits ==
  /\ worker = "idle" /\ queue = <<>> /\ closed
  /\ worker' = "gone"
  /\ UNCHANGED <<active, capabilityVars, jobVars, childVars, closed, terminations>>

(* _finish_job                                                             *)
FinishJob(j, outcome) ==
  /\ state' = [state EXCEPT ![j] = outcome]
  /\ process' = process \ {j}
  /\ UNCHANGED <<jobs, queue, cancelRequested>>

Spawn ==
  /\ worker = "spawn"
  /\ \/ /\ active \notin nameless
        /\ child' = [child EXCEPT ![active] = "alive"]
        /\ worker' = "register"
        /\ UNCHANGED jobVars
     \/ /\ active \notin nameless
        /\ FinishJob(active, "failed") /\ UNCHANGED remoteUnknown
        /\ worker' = "retire"
        /\ UNCHANGED child
     \/ /\ active \in nameless  \* a TypeError leaves the worker's loop
        /\ worker' = "lost"
        /\ UNCHANGED <<jobVars, child>>
  /\ UNCHANGED <<capabilityVars, active, closed, signal, terminations>>

(* Mutant: cancel_requested is not looked at once the process is known.    *)
RegisterUnasked ==
  /\ worker = "register" /\ worker' = "waiting"
  /\ process' = process \cup {active}
  /\ UNCHANGED <<state, jobs, queue, cancelRequested, remoteUnknown, active,
                 capabilityVars, childVars, closed, terminations>>

(* the process is published, and a cancel that came before it made good    *)
RegisterProcess ==
  /\ worker = "register" /\ worker' = "waiting"
  /\ process' = process \cup {active}
  /\ terminations' = terminations \cup
       {Termination("worker", j) : j \in {active} \cap cancelRequested}
  /\ UNCHANGED <<state, jobs, queue, cancelRequested, remoteUnknown, active,
                 capabilityVars, childVars, closed>>

(* Mutant: the exit code goes before the cancel.                           *)
ExitVerdict(j) == child[j]

VerdictOf(j) == IF j \in cancelRequested THEN "cancelled" ELSE child[j]

(* wait returned; exit code and cancel_requested are read together         *)
ReadVerdict ==
  /\ worker = "waiting" /\ ~Busy("worker") /\ child[active] # "alive"
  /\ worker' = VerdictOf(active)
  /\ UNCHANGED <<active, capabilityVars, jobVars, childVars, closed, terminations>>

(* of a cancelled transfer it is first noted, in a block of its own, that  *)
(* the remote side may still run                                           *)
MarkUnknown ==
  /\ worker = "cancelled" /\ worker' = "marked"
  /\ remoteUnknown' = remoteUnknown \cup {active}
  /\ UNCHANGED <<state, jobs, queue, cancelRequested, process, active,
                 capabilityVars, childVars, closed, terminations>>

FinishRun ==
  /\ worker \in Endings \ {"cancelled"}
  /\ FinishJob(active, CASE worker = "ok" -> "succeeded"
                         [] worker = "marked" -> "cancelled"
                         [] OTHER -> "failed")
  /\ worker' = IF worker = "ssh" THEN "report" ELSE "retire"
  /\ UNCHANGED <<remoteUnknown, active, capabilityVars, childVars, closed,
                 terminations>>

(* _on_transport_error: BrokerState._mark_open (module Connection)         *)
ReportTransport ==
  /\ worker = "report" /\ worker' = "retire"
  /\ UNCHANGED <<active, capabilityVars, jobVars, childVars, closed, terminations>>

Retire ==
  /\ worker = "retire" /\ worker' = "idle"
  /\ active' = None
  /\ jobs' = HistoryKept(state)
  /\ UNCHANGED <<state, queue, cancelRequested, process, remoteUnknown,
                 capabilityVars, childVars, closed, terminations>>

-----------------------------------------------------------------------------
StartStep(j) ==
  RequireCapability(j) \/ ProbeEnds(j) \/ BuildArgv(j) \/ Submit(j)

WorkerStep ==
  TakeJob \/ WorkerExits \/ Spawn \/ RegisterProcess \/ ReadVerdict
    \/ MarkUnknown \/ FinishRun \/ ReportTransport \/ Retire

Next ==
  \/ \E j \in Jobs : StartStep(j) \/ ChildExits(j)
  \/ \E c \in Cancellers, j \in Jobs : CancelQueued(c, j) \/ CancelRunning(c, j)
  \/ \E t \in terminations : TerminationStep(t) \/ TerminationReturns(t)
  \/ Close \/ InvalidateCapabilities \/ WorkerStep

Spec == Init /\ [][Next]_vars

(* The worker and the terminations run on, and a killed child exits.       *)
(* Nothing makes a transfer end by itself, or a client ask for anything.   *)
Fairness ==
  /\ WF_vars(WorkerStep)
  /\ \A by \in Terminators :
       WF_vars(\E t \in terminations :
         t.by = by /\ (TerminationStep(t) \/ TerminationReturns(t)))
  /\ \A j \in Jobs : WF_vars(signal[j] = "KILL" /\ ChildExits(j))

FairSpec == Spec /\ Fairness
-----------------------------------------------------------------------------
(* Properties.                                                             *)

(* The types of the manager's fields and the positions of its threads.     *)
TypeOK ==
  /\ client \in [Jobs -> {"idle", "probe", "validate", "submit", "accepted", "refused"}]
  /\ capability \in {"unknown", "available", "unavailable"}
  /\ resolved \in BOOLEAN /\ closed \in BOOLEAN
  /\ {probing, active} \subseteq Jobs \cup {None}
  /\ state \in [Jobs -> {"none", "queued", "running"} \cup Terminal]
  /\ DOMAIN jobs \subseteq Jobs /\ jobs \in [DOMAIN jobs -> Nat]
  /\ queue \in Seq(Jobs)
  /\ UNION {nameless, cancelRequested, process, remoteUnknown} \subseteq Jobs
  /\ worker \in {"idle", "spawn", "register", "waiting", "report", "retire",
                 "lost", "gone"} \cup Endings
  /\ child \in [Jobs -> {"none", "alive", "ok", "error", "ssh"}]
  /\ signal \in [Jobs -> {"none", "TERM", "KILL"}]
  /\ terminations \subseteq
       [by : Terminators, job : Jobs, step : {"term", "kill", "reap"}]

(* Every job waits, runs, or has ended, in one place only: the queue holds *)
(* the waiting jobs once each, the worker the running one, and no more     *)
(* than MaxQueue wait.                                                     *)
OneAtATime ==
  /\ ToSet(queue) = {j \in Jobs : state[j] = "queued"}
  /\ IsInjective(queue) /\ Len(queue) <= MaxQueue
  /\ \A j \in Jobs : state[j] = "running" => j = active
  /\ \A j \in Jobs : child[j] = "alive" => j = active /\ state[j] = "running"
  /\ worker \in {"idle", "gone"} => active = None
  /\ worker \notin {"idle", "gone", "retire", "report"} => state[active] = "running"

(* Only finished jobs are forgotten, and one at most is kept too long, for *)
(* the moment between its end and the worker's next turn.                  *)
HistoryBounded ==
  /\ \A j \in Jobs : state[j] \in {"queued", "running"} => j \in DOMAIN jobs
  /\ ~closed => Cardinality({j \in DOMAIN jobs : state[j] \in Terminal})
                  <= MaxHistory + (IF worker \in {"report", "retire"} THEN 1 ELSE 0)

RsyncInv == TypeOK /\ OneAtATime /\ HistoryBounded

(* What a client is told of a transfer is what happened to it: it          *)
(* succeeded if rsync did, was cancelled if somebody asked, and a transfer *)
(* that was signalled is neither called succeeded nor failed.  That the    *)
(* remote side may still run is said of every transfer that was cancelled  *)
(* while it ran, by the time it is called cancelled, and of no other.      *)
HonestTransfer ==
  \A j \in Jobs :
    /\ state[j] = "succeeded" => child[j] = "ok"
    /\ state[j] = "failed" => child[j] \in {"none", "error", "ssh"}
    /\ state[j] = "cancelled" => j \in cancelRequested
    /\ state[j] \in {"succeeded", "failed"} => signal[j] = "none"
    /\ state[j] = "cancelled" /\ child[j] # "none" => j \in remoteUnknown
    /\ j \in remoteUnknown =>
         /\ j \in cancelRequested /\ child[j] \notin {"none", "alive"}
         /\ state[j] \in {"running", "cancelled"}

(* The inductive invariant.  A job has no process before the worker takes  *)
(* it, and whoever signals one was asked to.                               *)
JobsInPlace ==
  /\ \A j \in Jobs : state[j] # "none" <=> client[j] = "accepted"
  /\ \A j \in Jobs : state[j] \in {"none", "queued"} => child[j] = "none"
  /\ \A j \in Jobs : child[j] = "none" => signal[j] = "none"
  /\ \A j \in Jobs : signal[j] # "none" => j \in cancelRequested
  /\ process \subseteq {active} /\ process \subseteq Jobs
  /\ \A t \in terminations : t.job \in cancelRequested /\ child[t.job] # "none"

(* What the worker knows of the transfer it runs.                          *)
WorkerInPlace ==
  /\ active = None <=> worker \in {"idle", "gone"}
  /\ worker \in {"spawn", "lost"} => child[active] = "none"
  /\ worker = "register" => child[active] # "none" /\ signal[active] = "none"
  /\ worker = "register" => \A t \in terminations : t.job # active
  /\ process # {} => worker \in {"waiting"} \cup Endings
  /\ worker = "waiting" => child[active] # "none"
  /\ worker \in Endings => child[active] \notin {"none", "alive"}
  /\ worker \in Endings \ {"cancelled", "marked"} =>
       child[active] = worker /\ signal[active] = "none"
  /\ worker \in {"cancelled", "marked"} => active \in cancelRequested
  /\ active \in remoteUnknown => worker \in {"marked", "retire"}
  /\ worker = "marked" => active \in remoteUnknown
  /\ worker \in {"report", "retire"} => state[active] \in Terminal

(* _jobs numbers its keys as they came.                                    *)
JobsNumbered ==
  /\ IsFiniteSet(Accepted) /\ DOMAIN jobs \subseteq Accepted
  /\ \A j \in DOMAIN jobs : jobs[j] < Cardinality(Accepted)
  /\ IsInjective(jobs)

TransferInv ==
  RsyncInv /\ HonestTransfer /\ JobsInPlace /\ WorkerInPlace /\ JobsNumbered

(* Whoever is asked to stop does: a cancel that finds the transfer running *)
(* ends it, whether or not its process was known by then and even if rsync *)
(* ignores SIGTERM, and close leaves no worker behind.                     *)
StopsWhenAsked ==
  /\ \A j \in Jobs : state[j] = "running" /\ j \in cancelRequested
                      ~> state[j] \in Terminal \/ worker = "lost"
  /\ closed ~> worker \in {"gone", "lost"}

(* "_worker_loop" takes the next job whatever became of the last: no error *)
(* of a job ends the worker.                                               *)
WorkerSurvives == worker # "lost"
=============================================================================
