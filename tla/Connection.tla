----------------------------- MODULE Connection -----------------------------
(***************************************************************************)
(* BrokerState (sshbridge/broker.py) and OpenSSHTransport (transport.py):  *)
(* the circuit breaker, the one SSH connection, and the threads that use   *)
(* it.  Exec workers, file requests and reconnects meet here under         *)
(* connect_lock, sftp_lock, state_lock and the transport's own lock.       *)
(*                                                                         *)
(* A block under state_lock or under the Exec manager's lock is one        *)
(* action.  The other locks are held across several steps and are          *)
(* variables.  Of the Exec manager (module ExecJobs) only the slots and    *)
(* the waiting jobs are kept; of ops and sftp_client only how a file       *)
(* request ends.  Time is the one bit "cooling": min_connect_interval has  *)
(* not passed since last_attempt_at.                                       *)
(***************************************************************************)
EXTENDS Integers, FiniteSets

CONSTANTS
  Workers,      \* Exec worker threads
  FileThreads,  \* client threads of file requests, hash among them
  Reconnectors, \* client threads that call reconnect
  ExecRequests, \* Exec jobs of other clients
  Modes,        \* whether the transport starts with a ControlMaster
  Free          \* a lock nobody holds, a worker without a job

Threads == Workers \cup FileThreads \cup Reconnectors
Jobs    == ExecRequests \cup FileThreads  \* a hash request waits for its job

ASSUME ThreadsAssumption ==
  /\ Workers \cap FileThreads = {} /\ Workers \cap Reconnectors = {}
  /\ FileThreads \cap Reconnectors = {} /\ ExecRequests \cap FileThreads = {}
  /\ Free \notin Threads \cup Jobs
  /\ Modes \subseteq BOOLEAN

VARIABLES
  state,         \* BrokerState.state
  cooling,       \* now < last_attempt_at + min_connect_interval
  multiplexing,  \* transport.multiplexing
  master,        \* the ControlMaster process is "up" or "down"
  session,       \* BrokerState.session: "none", "up", or "stale"
  connectLock, sftpLock, transportLock,   \* their holders
  paused,        \* ExecJobManager._paused
  job,           \* "none", "queued", "dispatched", or how it ended
  serving,       \* the job each worker holds
  pc,            \* where each thread stands
  undermined     \* ghost: the reconnects under way while another resumed dispatch

lockVars == <<connectLock, sftpLock, transportLock>>
linkVars == <<multiplexing, master, session>>
pauseVars == <<paused, undermined>>
execVars == <<pauseVars, job, serving>>
vars == <<state, cooling, linkVars, lockVars, execVars, pc>>

Alive == ~multiplexing \/ master = "up"
Dispatched == {j \in Jobs : job[j] = "dispatched"}
Ended == {"ok", "error", "ssh"}  \* "ssh": failed with code SSH_ERROR

Init ==
  /\ state = "DISCONNECTED" /\ cooling = FALSE
  /\ multiplexing \in Modes /\ master = "down" /\ session = "none"
  /\ connectLock = Free /\ sftpLock = Free /\ transportLock = Free
  /\ paused = FALSE
  /\ job = [j \in Jobs |-> "none"]
  /\ serving = [w \in Workers |-> Free]
  /\ pc = [t \in Threads |-> "idle"]
  /\ undermined = {}

At(t, label)   == pc[t] = label
Goto(t, label) == pc' = [pc EXCEPT ![t] = label]

(* the thread is through with its request                                  *)
Return(t) == Goto(t, "idle")

(* where a business thread goes on when ensure_ready let it through        *)
Ready(t) == IF t \in FileThreads THEN "lock"
            ELSE IF multiplexing THEN "spawn" ELSE "begin"

(* the end of the job of worker w                                          *)
EndJob(w, outcome) ==
  /\ job' = [job EXCEPT ![serving[w]] = outcome]
  /\ serving' = [serving EXCEPT ![w] = Free]
  /\ UNCHANGED pauseVars

(* Mutant: the worker lets an error of ensure_ready pass.                  *)
EnsureErrorLost(t, outcome) == UNCHANGED execVars

(* An error left ensure_ready: a job fails, a file request is answered.    *)
EnsureRaised(t, outcome) ==
  IF t \in Workers THEN EndJob(t, outcome) ELSE UNCHANGED execVars

-----------------------------------------------------------------------------
(* ensure_ready                                                            *)

(* Mutant: a request tries to connect although the circuit is open.        *)
RefusesAttempts(s) == s \in {"CONNECTING", "HALF_OPEN"}

(* CONNECTION_PAUSED, and an attempt of another thread                     *)
Refuses(s) == s \in {"OPEN", "CONNECTING", "HALF_OPEN"}

(* its first block, called for a request                                   *)
EnsureReady(t) ==
  /\ At(t, "ensure") /\ connectLock = Free
  /\ \/ /\ state = "READY" /\ Alive
        /\ Goto(t, Ready(t))
        /\ UNCHANGED <<state, cooling, connectLock, execVars>>
     \/ /\ \/ state = "READY" /\ ~Alive /\ state' = "OPEN"
           \/ Refuses(state) /\ UNCHANGED state
        /\ Return(t)
        /\ EnsureRaised(t, "error")
        /\ UNCHANGED <<cooling, connectLock>>
     \/ /\ state # "READY" /\ ~Refuses(state)
        /\ state' = "CONNECTING"
        /\ cooling' = (cooling \/ multiplexing)
        /\ connectLock' = t
        /\ Goto(t, "connect")
        /\ UNCHANGED execVars
  /\ UNCHANGED <<linkVars, sftpLock, transportLock>>

(* transport.start: nothing to do, or the lock taken and ssh -M started    *)
StartTransport(t) ==
  /\ At(t, "connect")
  /\ multiplexing => transportLock = Free
  /\ IF multiplexing /\ ~Alive
     THEN Goto(t, "starting") /\ transportLock' = t
     ELSE /\ Goto(t, IF ~multiplexing /\ t \in Reconnectors THEN "probe"
                     ELSE "connected")
          /\ UNCHANGED transportLock
  /\ UNCHANGED <<state, cooling, linkVars, connectLock, sftpLock, execVars>>

MasterReady(t) ==
  /\ At(t, "starting")
  /\ master' = "up" /\ transportLock' = Free
  /\ Goto(t, "connected")
  /\ UNCHANGED <<state, cooling, multiplexing, session, connectLock, sftpLock,
                 execVars>>

(* _disable_multiplexing: this ssh has no ControlMaster                    *)
MasterUnsupported(t) ==
  /\ At(t, "starting")
  /\ multiplexing' = FALSE /\ transportLock' = Free
  /\ Goto(t, IF t \in Reconnectors THEN "probe" ELSE "connected")
  /\ UNCHANGED <<state, cooling, master, session, connectLock, sftpLock,
                 execVars>>

(* Mutant: the failure of ssh -M is not reported to the circuit breaker.   *)
MasterFailsUnmarked(t) ==
  /\ At(t, "starting")
  /\ transportLock' = Free
  /\ Goto(t, "marked")
  /\ UNCHANGED <<state, cooling, linkVars, connectLock, sftpLock, execVars>>

(* ssh -M exited, could not be started or did not get ready in time        *)
MasterFails(t) ==
  /\ At(t, "starting")
  /\ transportLock' = Free
  /\ Goto(t, "mark")
  /\ UNCHANGED <<state, cooling, linkVars, connectLock, sftpLock, execVars>>

(* _probe_direct_connection, of a reconnect without ControlMaster          *)
ProbeDirect(t) ==
  /\ At(t, "probe")
  /\ cooling' = TRUE
  /\ \/ Goto(t, "mark")                 \* rate limited, or the probe failed
     \/ ~cooling /\ Goto(t, "connected")
  /\ UNCHANGED <<state, linkVars, lockVars, execVars>>

(* its last block: the attempt succeeded                                   *)
Connected(t) ==
  /\ At(t, "connected")
  /\ state' = "READY"
  /\ IF t \in Reconnectors
     THEN Goto(t, "resume") /\ UNCHANGED connectLock
     ELSE Goto(t, Ready(t)) /\ connectLock' = Free
  /\ UNCHANGED <<cooling, linkVars, sftpLock, transportLock, execVars>>

-----------------------------------------------------------------------------
(* _mark_open, for the failed attempt of ensure_ready, for a failed file   *)
(* request, and as transport_failure_callback of an Exec worker.           *)

MarkOpen(t) ==
  /\ At(t, "mark")
  /\ Goto(t, IF state = "OPEN" THEN "marked" ELSE "stop")
  /\ state' = "OPEN"
  /\ UNCHANGED <<cooling, linkVars, lockVars, execVars>>

(* transport.stop                                                          *)
StopTransport ==
  /\ transportLock = Free
  /\ master' = "down"
  /\ session' = IF multiplexing /\ session = "up" THEN "stale" ELSE session

MarkOpenStops(t) ==
  /\ At(t, "stop") /\ StopTransport
  /\ Goto(t, "marked")
  /\ UNCHANGED <<state, cooling, multiplexing, lockVars, execVars>>

(* The error goes on to whoever called: out of ensure_ready, out of        *)
(* _run_sftp_op, or into the end of a worker's _run_job.  (A session that  *)
(* cannot be opened is marked twice; sftp_lock is held in between, and     *)
(* the second mark finds OPEN.)                                            *)
Marked(t) ==
  /\ At(t, "marked")
  /\ IF t \in Reconnectors
     THEN Goto(t, "failed") /\ UNCHANGED <<connectLock, execVars>>
     ELSE /\ Return(t)
          /\ connectLock' = IF connectLock = t THEN Free ELSE connectLock
          /\ IF connectLock = t THEN EnsureRaised(t, "ssh")
             ELSE UNCHANGED execVars
  /\ sftpLock' = IF sftpLock = t THEN Free ELSE sftpLock
  /\ UNCHANGED <<state, cooling, linkVars, transportLock>>

-----------------------------------------------------------------------------
(* An Exec worker, seen from the broker.                                   *)

(* exec, exec_start: the job waits                                         *)
SubmitExec(j) ==
  /\ j \in ExecRequests /\ job[j] = "none"
  /\ job' = [job EXCEPT ![j] = "queued"]
  /\ UNCHANGED <<state, cooling, linkVars, lockVars, pauseVars, serving, pc>>

(* the result is picked up; the client may come back with another command  *)
CollectExec(j) ==
  /\ j \in ExecRequests /\ job[j] \in Ended
  /\ job' = [job EXCEPT ![j] = "none"]
  /\ UNCHANGED <<state, cooling, linkVars, lockVars, pauseVars, serving, pc>>

(* Mutant: a job is expired though a worker has taken it.                  *)
QueueTimeoutLate(j) ==
  /\ job[j] \in {"queued", "dispatched"}
  /\ job' = [job EXCEPT ![j] = "error"]
  /\ UNCHANGED <<state, cooling, linkVars, lockVars, pauseVars, serving, pc>>

(* _expire_queued_locked                                                   *)
QueueTimeout(j) ==
  /\ job[j] = "queued"
  /\ job' = [job EXCEPT ![j] = "error"]
  /\ UNCHANGED <<state, cooling, linkVars, lockVars, pauseVars, serving, pc>>

TakeJob(w, j) ==
  /\ At(w, "idle") /\ ~paused /\ job[j] = "queued"
  /\ job' = [job EXCEPT ![j] = "dispatched"]
  /\ serving' = [serving EXCEPT ![w] = j]
  /\ Goto(w, "ensure")
  /\ UNCHANGED <<state, cooling, linkVars, lockVars, pauseVars>>

(* _prepare_exec without ControlMaster: _begin_direct_connection           *)
BeginDirect(w) ==
  /\ At(w, "begin")
  /\ IF cooling
     THEN Return(w) /\ EndJob(w, "error")
     ELSE Goto(w, "spawn") /\ UNCHANGED execVars
  /\ cooling' = TRUE
  /\ UNCHANGED <<state, linkVars, lockVars>>

SpawnExec(w) ==
  /\ At(w, "spawn") /\ Goto(w, "running")
  /\ UNCHANGED <<state, cooling, linkVars, lockVars, execVars>>

(* The ssh child ends.  If that was a transport failure, or ssh could not  *)
(* be started at all, the slot is given back first and _mark_open follows. *)
ExecEnds(w) ==
  /\ \/ At(w, "running") /\ EndJob(w, "ok") /\ Return(w)
     \/ pc[w] \in {"spawn", "running"} /\ EndJob(w, "ssh")
          /\ Goto(w, "mark")
  /\ UNCHANGED <<state, cooling, linkVars, lockVars>>

-----------------------------------------------------------------------------
(* A file request: _run_sftp_op.  sync_start makes its first step too.     *)

FileRequest(f) ==
  /\ At(f, "idle") /\ Goto(f, "ensure")
  /\ UNCHANGED <<state, cooling, linkVars, lockVars, execVars>>

(* Mutant: the lock is kept on the way out with an error.                  *)
FileLockKept(f) ==
  /\ At(f, "lock") /\ sftpLock = Free /\ sftpLock' = f
  /\ IF state = "READY" THEN Goto(f, "session")
     ELSE Return(f)
  /\ UNCHANGED <<state, cooling, linkVars, connectLock, transportLock, execVars>>

FileLock(f) ==
  /\ At(f, "lock") /\ sftpLock = Free
  /\ IF state = "READY"
     THEN Goto(f, "session") /\ sftpLock' = f
     ELSE Return(f) /\ UNCHANGED sftpLock
  /\ UNCHANGED <<state, cooling, linkVars, connectLock, transportLock, execVars>>

(* _session_unlocked, up to the start of the sftp child                    *)
UseSession(f) ==
  /\ At(f, "session")
  /\ \/ /\ session # "none" /\ Goto(f, "operate")
        /\ UNCHANGED <<cooling, sftpLock>>
     \/ /\ session = "none" /\ (multiplexing \/ ~cooling)
        /\ cooling' = (cooling \/ ~multiplexing)
        /\ Goto(f, "open") /\ UNCHANGED sftpLock
     \/ /\ session = "none" /\ ~multiplexing /\ cooling   \* rate limited
        /\ Return(f) /\ sftpLock' = Free /\ UNCHANGED cooling
  /\ UNCHANGED <<state, linkVars, connectLock, transportLock, execVars>>

OpenSession(f) ==
  /\ At(f, "open")
  /\ \/ Alive /\ session' = "up" /\ Goto(f, "operate")
     \/ Goto(f, "mark") /\ UNCHANGED session
  /\ UNCHANGED <<state, cooling, multiplexing, master, lockVars, execVars>>

(* The operation is answered, or it lost its connection.  hash and an      *)
(* expected_hash run a command through the Exec manager, with sftp_lock    *)
(* held.                                                                   *)
Operate(f) ==
  /\ At(f, "operate")
  /\ \/ /\ session = "up"
        /\ Return(f) /\ sftpLock' = Free /\ UNCHANGED <<session, job>>
     \/ /\ session' = "none" /\ Goto(f, "mark")
        /\ UNCHANGED <<sftpLock, job>>
     \/ /\ session = "up"
        /\ job' = [job EXCEPT ![f] = "queued"]
        /\ Goto(f, "await") /\ UNCHANGED <<session, sftpLock>>
  /\ UNCHANGED <<state, cooling, multiplexing, master, connectLock,
                 transportLock, pauseVars, serving>>

(* run_sync returned: an SSH_ERROR of the job counts as one of the session *)
AwaitHash(f) ==
  /\ At(f, "await") /\ job[f] \in Ended
  /\ job' = [job EXCEPT ![f] = "none"]
  /\ IF job[f] = "ssh"
     THEN session' = "none" /\ Goto(f, "mark") /\ UNCHANGED sftpLock
     ELSE Return(f) /\ sftpLock' = Free /\ UNCHANGED session
  /\ UNCHANGED <<state, cooling, multiplexing, master, connectLock,
                 transportLock, pauseVars, serving>>

-----------------------------------------------------------------------------
(* reconnect                                                               *)

(* Mutant: running jobs do not turn a reconnect away.                      *)
PauseWithoutCheck(r) ==
  /\ At(r, "idle")
  /\ paused' = TRUE
  /\ Goto(r, "enter")
  /\ UNCHANGED <<state, cooling, linkVars, lockVars, undermined, job, serving>>

PauseDispatch(r) ==
  /\ At(r, "idle")
  /\ paused' = TRUE
  /\ Goto(r, IF Dispatched # {} THEN "busy" ELSE "enter")
  /\ UNCHANGED <<state, cooling, linkVars, lockVars, undermined, job, serving>>

(* resume_dispatch clears the one flag, whoever else is under way.         *)
ResumeDispatch(r) ==
  /\ paused' = FALSE
  /\ undermined' = {s \in Reconnectors \ {r} : pc[s] # "idle"}

(* BROKER_BUSY                                                             *)
Busy(r) ==
  /\ At(r, "busy") /\ ResumeDispatch(r)
  /\ Return(r)
  /\ UNCHANGED <<state, cooling, linkVars, lockVars, job, serving>>

Barred == state \in {"CONNECTING", "HALF_OPEN"} \/ cooling

(* the first block under connect_lock                                      *)
EnterReconnect(r) ==
  /\ At(r, "enter") /\ connectLock = Free
  /\ connectLock' = r
  /\ IF Barred
     THEN Goto(r, "failed") /\ UNCHANGED state
     ELSE /\ Goto(r, "drop")
          /\ state' = IF state = "READY" THEN "DISCONNECTED" ELSE state
  /\ UNCHANGED <<cooling, linkVars, sftpLock, transportLock, execVars>>

(* Mutant: the session of the old connection is kept.                      *)
KeepSession(r) ==
  /\ At(r, "drop") /\ sftpLock = Free
  /\ Goto(r, "giveup")
  /\ UNCHANGED <<state, cooling, linkVars, lockVars, execVars>>

DropSession(r) ==
  /\ At(r, "drop") /\ sftpLock = Free
  /\ session' = "none"
  /\ Goto(r, "giveup")
  /\ UNCHANGED <<state, cooling, multiplexing, master, lockVars, execVars>>

(* transport.stop.  (A report of a failure of the old connection may still *)
(* come: _mark_open does not ask which connection it was about.)           *)
GiveUpTransport(r) ==
  /\ At(r, "giveup") /\ StopTransport
  /\ Goto(r, "manual")
  /\ UNCHANGED <<state, cooling, multiplexing, lockVars, execVars>>

(* ensure_ready(manual=True), its first block.  The broker has not been    *)
(* READY since connect_lock was taken (AttemptsAreAlone), so the branches  *)
(* for READY and for an attempt of another thread do not arise.            *)
EnsureManual(r) ==
  /\ At(r, "manual")
  /\ IF cooling
     THEN Goto(r, "failed") /\ UNCHANGED <<state, cooling>>
     ELSE /\ state' = "HALF_OPEN" /\ cooling' = multiplexing
          /\ Goto(r, "connect")
  /\ UNCHANGED <<linkVars, lockVars, execVars>>

(* the except branch: is the broker OPEN now?                              *)
ReconnectFails(r) ==
  /\ At(r, "failed")
  /\ Goto(r, IF state = "OPEN" THEN "purge" ELSE "resume")
  /\ UNCHANGED <<state, cooling, linkVars, lockVars, execVars>>

FailQueued(r) ==
  /\ At(r, "purge")
  /\ job' = [j \in Jobs |-> IF job[j] = "queued" THEN "error" ELSE job[j]]
  /\ Goto(r, "resume")
  /\ UNCHANGED <<state, cooling, linkVars, lockVars, pauseVars, serving>>

(* Mutant: connect_lock is not released.                                   *)
ResumeLocked(r) ==
  /\ At(r, "resume") /\ ResumeDispatch(r)
  /\ Return(r)
  /\ UNCHANGED <<state, cooling, linkVars, lockVars, job, serving>>

(* resume_dispatch, the return, and the release of connect_lock            *)
Resume(r) ==
  /\ At(r, "resume") /\ ResumeDispatch(r)
  /\ connectLock' = Free
  /\ Return(r)
  /\ UNCHANGED <<state, cooling, linkVars, sftpLock, transportLock, job, serving>>

-----------------------------------------------------------------------------
(* The world outside.                                                      *)

MasterDies ==
  /\ multiplexing /\ master = "up"
  /\ master' = "down"
  /\ session' = IF session = "up" THEN "stale" ELSE session
  /\ UNCHANGED <<state, cooling, multiplexing, lockVars, execVars, pc>>

IntervalPasses ==
  /\ cooling /\ cooling' = FALSE
  /\ UNCHANGED <<state, linkVars, lockVars, execVars, pc>>

-----------------------------------------------------------------------------
Attempt(t) ==
  \/ StartTransport(t) \/ MasterReady(t) \/ MasterUnsupported(t)
  \/ MasterFails(t) \/ ProbeDirect(t) \/ Connected(t)
  \/ MarkOpen(t) \/ MarkOpenStops(t) \/ Marked(t)

WorkerStep(w) == EnsureReady(w) \/ Attempt(w) \/ BeginDirect(w) \/ SpawnExec(w)
                   \/ ExecEnds(w)
FileStep(f) == EnsureReady(f) \/ Attempt(f) \/ FileLock(f) \/ UseSession(f)
                 \/ OpenSession(f) \/ Operate(f) \/ AwaitHash(f)
ReconnectStep(r) == Busy(r) \/ EnterReconnect(r) \/ DropSession(r)
                      \/ GiveUpTransport(r) \/ EnsureManual(r) \/ Attempt(r)
                      \/ ReconnectFails(r) \/ FailQueued(r) \/ Resume(r)

Next ==
  \/ \E w \in Workers : WorkerStep(w) \/ \E j \in Jobs : TakeJob(w, j)
  \/ \E f \in FileThreads : FileRequest(f) \/ FileStep(f)
  \/ \E r \in Reconnectors : PauseDispatch(r) \/ ReconnectStep(r)
  \/ \E j \in Jobs : SubmitExec(j) \/ CollectExec(j) \/ QueueTimeout(j)
  \/ MasterDies \/ IntervalPasses

Spec == Init /\ [][Next]_vars

(* Every thread in the middle of a request runs on; one that waits for a   *)
(* lock gets it if it is released again and again.  Commands end (timeout) *)
(* and so do connection attempts (connect_timeout).  A job left in the     *)
(* queue expires.                                                          *)
Fairness ==
  /\ \A w \in Workers : SF_vars(WorkerStep(w))
  /\ \A f \in FileThreads : SF_vars(FileStep(f))
  /\ \A r \in Reconnectors : SF_vars(ReconnectStep(r))
  /\ \A j \in Jobs : WF_vars(QueueTimeout(j))

FairSpec == Spec /\ Fairness
-----------------------------------------------------------------------------
(* Properties.                                                             *)

Replacing(r) ==
  pc[r] \in {"drop", "giveup", "manual", "connect", "starting", "probe", "connected"}

(* The types of the broker's fields and the positions of the threads.      *)
TypeOK ==
  /\ state \in {"DISCONNECTED", "CONNECTING", "READY", "OPEN", "HALF_OPEN"}
  /\ cooling \in BOOLEAN /\ multiplexing \in BOOLEAN /\ paused \in BOOLEAN
  /\ master \in {"up", "down"} /\ session \in {"none", "up", "stale"}
  /\ {connectLock, sftpLock, transportLock} \subseteq Threads \cup {Free}
  /\ job \in [Jobs -> {"none", "queued", "dispatched"} \cup Ended]
  /\ serving \in [Workers -> Jobs \cup {Free}]
  /\ undermined \subseteq Reconnectors
  /\ pc \in [Threads -> {"idle", "ensure", "connect", "starting", "probe",
       "connected", "mark", "stop", "marked", "begin", "spawn", "running",
       "lock", "session", "open", "operate", "await", "busy", "enter", "drop",
       "giveup", "manual", "failed", "purge", "resume"}]

(* Who holds a lock, and which worker a job, follows from where the threads *)
(* stand: every way out of a request, errors included, gives back what it  *)
(* took.  Only a thread that reports a failure may stand there with or     *)
(* without its attempt.                                                    *)
InAttempt    == {"connect", "starting", "probe", "connected"}
InReport     == {"mark", "stop", "marked"}
InReconnect  == {"drop", "giveup", "manual", "failed", "purge", "resume"}
WithJob      == {"ensure", "begin", "spawn", "running"} \cup InAttempt
WithSession  == {"session", "open", "operate", "await"}

Sharing(t) ==
  pc[t] \in WithSession \/ (pc[t] \in InReport /\ connectLock # t)

LocksFollowThreads ==
  /\ \A t \in Threads :
       /\ pc[t] \in InAttempt \cup InReconnect => connectLock = t
       /\ connectLock = t => pc[t] \in InAttempt \cup InReport \cup InReconnect
       /\ transportLock = t <=> pc[t] = "starting"
       /\ sftpLock = t <=> t \in FileThreads /\ Sharing(t)
  /\ \A r \in Reconnectors : pc[r] \in InReport => connectLock = r

JobsFollowWorkers ==
  /\ \A w \in Workers :
       serving[w] # Free <=>
         pc[w] \in WithJob \/ (pc[w] \in InReport /\ connectLock = w)
  /\ \A j \in Jobs : job[j] = "dispatched" <=> \E w \in Workers : serving[w] = j
  /\ \A v, w \in Workers : serving[v] = serving[w] /\ serving[v] # Free => v = w
  /\ \A f \in FileThreads : job[f] # "none" => pc[f] = "await"

BrokerInv == TypeOK /\ LocksFollowThreads /\ JobsFollowWorkers

(* "cannot reconnect while Exec jobs are running" (broker.py): from its    *)
(* busy check until it has the new connection, no job is with a worker,    *)
(* unless another reconnect returned meanwhile and resumed dispatching for *)
(* both.                                                                   *)
NoJobWhileReplacing ==
  \A r \in Reconnectors \ undermined : Replacing(r) => Dispatched = {}

(* An attempt ends before connect_lock is free again, so no request is ever *)
(* turned away by an attempt that is over; and a reconnect that gave up    *)
(* the connection finds no other one made behind its back.                 *)
AttemptsAreAlone ==
  /\ connectLock = Free => state \notin {"CONNECTING", "HALF_OPEN"}
  /\ \A r \in Reconnectors : pc[r] = "manual" => state \in {"DISCONNECTED", "OPEN"}

(* No file request finds a session of an earlier connection under a READY  *)
(* broker with a live master.                                              *)
SessionIsCurrent ==
  state = "READY" /\ multiplexing /\ master = "up" => session # "stale"

(* A reconnect returns, whatever requests and commands do meanwhile.       *)
ReconnectReturns ==
  \A r \in Reconnectors : pc[r] = "enter" ~> pc[r] = "idle"

(* A file request is answered, be it a hash that waits for the Exec queue  *)
(* while a reconnect waits for the session.                                *)
FileRequestsReturn ==
  \A f \in FileThreads : pc[f] = "ensure" ~> pc[f] = "idle"

(* A waiting command ends.                                                 *)
ExecRequestsEnd ==
  \A j \in ExecRequests : job[j] = "queued" ~> job[j] \in Ended

-----------------------------------------------------------------------------
(* The inductive invariant: what the lock, the position of the thread that *)
(* holds it, the circuit and the session have to do with each other.       *)

(* which positions each kind of thread comes through                       *)
ThreadsInPlace ==
  /\ \A w \in Workers : pc[w] \in {"idle"} \cup WithJob \cup InReport
  /\ \A f \in FileThreads :
       pc[f] \in {"idle", "ensure", "lock"} \cup InAttempt \cup InReport \cup WithSession
  /\ \A r \in Reconnectors :
       pc[r] \in {"idle", "busy", "enter"} \cup InReconnect \cup InAttempt \cup InReport

(* the circuit while connect_lock is held, and while it is not             *)
CircuitFollowsAttempt ==
  /\ state \in {"CONNECTING", "HALF_OPEN"} =>
       \E t \in Threads : connectLock = t /\ pc[t] \in InAttempt \cup {"mark"}
  /\ \A t \in Threads :
       /\ pc[t] \in InAttempt => state # "READY" /\ state # "DISCONNECTED"
       /\ connectLock = t /\ pc[t] = "mark" => state # "READY" /\ state # "DISCONNECTED"
       /\ connectLock = t /\ pc[t] \in {"stop", "marked"} => state = "OPEN"
  /\ \A r \in Reconnectors :
       pc[r] \in {"drop", "giveup", "manual"} => state \in {"DISCONNECTED", "OPEN"}

(* a connection is only made when nothing of an earlier one is in use      *)
NothingOld == session = "none" /\ \A f \in FileThreads : pc[f] \notin WithSession
AttemptsStartFresh ==
  /\ \A t \in Threads : pc[t] \in InAttempt \cup {"giveup", "manual"} => NothingOld
  /\ state = "DISCONNECTED" /\ (\A r \in Reconnectors : pc[r] # "drop") => NothingOld

ConnectionInv ==
  BrokerInv /\ ThreadsInPlace /\ CircuitFollowsAttempt /\ AttemptsStartFresh
    /\ SessionIsCurrent

(* What a reconnect needs beside: its pause lasts from its first step to   *)
(* its last, unless it is undermined.                                      *)
PausedForReconnect ==
  \A r \in Reconnectors \ undermined :
    /\ pc[r] # "idle" => paused
    /\ pc[r] \notin {"idle", "busy"} => Dispatched = {}

-----------------------------------------------------------------------------
(* The circuit breaker the broker implements: see CircuitBreaker.          *)

AttemptOf ==
  IF connectLock = Free THEN "none"
  ELSE IF pc[connectLock] \in {"connect", "starting", "probe", "connected",
                               "mark", "stop", "marked"}
       THEN IF connectLock \in Reconnectors THEN "manual" ELSE "request"
       ELSE "none"

Breaker == INSTANCE CircuitBreaker WITH circuit <- state, attempt <- AttemptOf

ImplementsBreaker == Breaker!Spec
=============================================================================
