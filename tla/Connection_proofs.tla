------------------------- MODULE Connection_proofs --------------------------
(***************************************************************************)
(* Proofs about module Connection, for any number of workers, file         *)
(* requests and reconnects: the locks and jobs follow the threads, an      *)
(* attempt to connect is alone, no session outlives its connection.        *)
(***************************************************************************)
EXTENDS Connection, TLAPS

Labels == {"idle", "ensure", "connect", "starting", "probe", "connected",
           "mark", "stop", "marked", "begin", "spawn", "running", "lock",
           "session", "open", "operate", "await", "busy", "enter", "drop",
           "giveup", "manual", "failed", "purge", "resume"}

(* What LocksFollowThreads says of one thread.                             *)
Holds(t) ==
  /\ pc[t] \in InAttempt \cup InReconnect => connectLock = t
  /\ connectLock = t => pc[t] \in InAttempt \cup InReport \cup InReconnect
  /\ transportLock = t <=> pc[t] = "starting"
  /\ sftpLock = t <=> t \in FileThreads /\ Sharing(t)
  /\ t \in Reconnectors /\ pc[t] \in InReport => connectLock = t

(* What JobsFollowWorkers says of one worker.                              *)
Engaged(w) == pc[w] \in WithJob \/ (pc[w] \in InReport /\ connectLock = w)
Serves(w) == serving[w] # Free <=> Engaged(w)

(* A lock stays as it is, or t gives it back, or takes it.                 *)
TurnsOver(t, lock, after) ==
  after = lock \/ (lock = t /\ after = Free) \/ (lock = Free /\ after = t)

(* The steps of the threads, by what they are about.                       *)
Attempts(t) == StartTransport(t) \/ MasterReady(t) \/ MasterUnsupported(t)
                 \/ MasterFails(t) \/ ProbeDirect(t) \/ Connected(t)
Reports(t)  == MarkOpen(t) \/ MarkOpenStops(t) \/ Marked(t)
Works(w)    == BeginDirect(w) \/ SpawnExec(w) \/ ExecEnds(w)
                 \/ \E j \in Jobs : TakeJob(w, j)
Files(f)    == FileRequest(f) \/ FileLock(f) \/ UseSession(f) \/ OpenSession(f)
                 \/ Operate(f) \/ AwaitHash(f)
Replaces(r) == PauseDispatch(r) \/ Busy(r) \/ EnterReconnect(r)
                 \/ DropSession(r) \/ GiveUpTransport(r) \/ EnsureManual(r)
                 \/ ReconnectFails(r) \/ FailQueued(r) \/ Resume(r)

ThreadStep(t) ==
  \/ t \notin Reconnectors /\ EnsureReady(t)
  \/ Attempts(t)
  \/ Reports(t)
  \/ t \in Workers /\ Works(t)
  \/ t \in FileThreads /\ Files(t)
  \/ t \in Reconnectors /\ Replaces(t)
OtherStep ==
  \/ \E j \in Jobs : SubmitExec(j) \/ CollectExec(j) \/ QueueTimeout(j)
  \/ MasterDies \/ IntervalPasses

(* A step of the broker is a step of one thread, or one of the world       *)
(* outside.                                                                *)
LEMMA NextIsOneStep == Next => OtherStep \/ \E t \in Threads : ThreadStep(t)
BY ThreadsAssumption
DEF Next, WorkerStep, FileStep, ReconnectStep, Attempt, Threads, ThreadStep,
    OtherStep, Attempts, Reports, Works, Files, Replaces

(* The invariant, thread by thread.                                        *)
LEMMA InvParts ==
  ConnectionInv <=>
    /\ TypeOK /\ (\A t \in Threads : Holds(t))
    /\ JobsFollowWorkers /\ ThreadsInPlace /\ CircuitFollowsAttempt
    /\ AttemptsStartFresh /\ SessionIsCurrent
BY DEF ConnectionInv, BrokerInv, LocksFollowThreads, Holds, Threads

(* A step keeps the types.                                                 *)
LEMMA TypeStep ==
  ASSUME ConnectionInv, NEW t \in Threads, ThreadStep(t)
  PROVE  TypeOK'
<1> USE DEF lockVars, linkVars, execVars, pauseVars, ResumeDispatch
<1>0. TypeOK
  BY InvParts
<1>1. pc' \in [Threads -> Labels]
  <2>1. pc \in [Threads -> Labels]
    BY <1>0 DEF TypeOK, Labels
  <2>2. \E l \in Labels : pc' = [pc EXCEPT ![t] = l]
    BY DEF ThreadStep, Attempts, Reports, Works, Files, Replaces, EnsureReady,
           StartTransport, MasterReady, MasterUnsupported, MasterFails,
           ProbeDirect, Connected, MarkOpen, MarkOpenStops, Marked,
           BeginDirect, SpawnExec, ExecEnds, TakeJob, FileRequest, FileLock,
           UseSession, OpenSession, Operate, AwaitHash, PauseDispatch, Busy,
           EnterReconnect, DropSession, GiveUpTransport, EnsureManual,
           ReconnectFails, FailQueued, Resume, Goto, Return, Ready, Labels
  <2>3. QED
    BY <2>1, <2>2
<1>2. /\ job' \in [Jobs -> {"none", "queued", "dispatched"} \cup Ended]
      /\ serving' \in [Workers -> Jobs \cup {Free}]
  <2>1. CASE EnsureReady(t) \/ Marked(t)
    BY <1>0, <2>1 DEF EnsureReady, Marked, EnsureRaised, EndJob, Ended, TypeOK
  <2>2. CASE t \in Workers /\ Works(t)
    BY <1>0, <2>2
    DEF Works, BeginDirect, SpawnExec, ExecEnds, TakeJob, EndJob, Ended, TypeOK
  <2>3. CASE t \in FileThreads /\ Files(t)
    BY <1>0, <2>3
    DEF Files, FileRequest, FileLock, UseSession, OpenSession, Operate,
        AwaitHash, TypeOK
  <2>4. CASE t \in Reconnectors /\ Replaces(t)
    BY <1>0, <2>4
    DEF Replaces, PauseDispatch, Busy, EnterReconnect, DropSession,
        GiveUpTransport, EnsureManual, ReconnectFails, FailQueued, Resume,
        Ended, TypeOK
  <2>5. CASE Attempts(t) \/ MarkOpen(t) \/ MarkOpenStops(t)
    BY <1>0, <2>5
    DEF Attempts, StartTransport, MasterReady, MasterUnsupported, MasterFails,
        ProbeDirect, Connected, MarkOpen, MarkOpenStops, TypeOK
  <2>6. QED
    BY <2>1, <2>2, <2>3, <2>4, <2>5 DEF ThreadStep, Reports
<1>3. /\ {connectLock, sftpLock, transportLock}' \subseteq Threads \cup {Free}
      /\ cooling' \in BOOLEAN /\ multiplexing' \in BOOLEAN
      /\ paused' \in BOOLEAN /\ undermined' \subseteq Reconnectors
  BY <1>0
  DEF ThreadStep, Attempts, Reports, Works, Files, Replaces, EnsureReady,
      StartTransport, MasterReady, MasterUnsupported, MasterFails, ProbeDirect,
      Connected, MarkOpen, MarkOpenStops, Marked, BeginDirect, SpawnExec,
      ExecEnds, TakeJob, FileRequest, FileLock, UseSession, OpenSession,
      Operate, AwaitHash, PauseDispatch, Busy, EnterReconnect, DropSession,
      GiveUpTransport, EnsureManual, ReconnectFails, FailQueued, Resume,
      EnsureRaised, EndJob, TypeOK
<1>4. /\ state' \in {"DISCONNECTED", "CONNECTING", "READY", "OPEN", "HALF_OPEN"}
      /\ master' \in {"up", "down"} /\ session' \in {"none", "up", "stale"}
  BY <1>0
  DEF ThreadStep, Attempts, Reports, Works, Files, Replaces, EnsureReady,
      StartTransport, StopTransport, MasterReady, MasterUnsupported,
      MasterFails, ProbeDirect, Connected, MarkOpen, MarkOpenStops, Marked,
      BeginDirect, SpawnExec, ExecEnds, TakeJob, FileRequest, FileLock,
      UseSession, OpenSession, Operate, AwaitHash, PauseDispatch, Busy,
      EnterReconnect, DropSession, GiveUpTransport, EnsureManual,
      ReconnectFails, FailQueued, Resume, TypeOK
<1>5. QED
  BY <1>1, <1>2, <1>3, <1>4 DEF TypeOK, Labels

(* What a thread does leaves every other thread where it is, with its      *)
(* locks.                                                                  *)
LEMMA OwnStep ==
  ASSUME ConnectionInv, NEW t \in Threads, ThreadStep(t)
  PROVE  /\ pc' = [pc EXCEPT ![t] = pc'[t]]
         /\ \A u \in Threads \ {t} :
              /\ pc'[u] = pc[u]
              /\ connectLock' = u <=> connectLock = u
              /\ sftpLock' = u <=> sftpLock = u
              /\ transportLock' = u <=> transportLock = u
<1> USE DEF lockVars, linkVars, execVars, pauseVars, ResumeDispatch
<1>0. TypeOK /\ Holds(t)
  BY InvParts
<1>1. pc' = [pc EXCEPT ![t] = pc'[t]]
  BY <1>0
  DEF ThreadStep, Attempts, Reports, Works, Files, Replaces, EnsureReady,
      StartTransport, MasterReady, MasterUnsupported, MasterFails, ProbeDirect,
      Connected, MarkOpen, MarkOpenStops, Marked, BeginDirect, SpawnExec,
      ExecEnds, TakeJob, FileRequest, FileLock, UseSession, OpenSession,
      Operate, AwaitHash, PauseDispatch, Busy, EnterReconnect, DropSession,
      GiveUpTransport, EnsureManual, ReconnectFails, FailQueued, Resume, Goto,
      Return, At, TypeOK
<1>2. /\ TurnsOver(t, connectLock, connectLock')
      /\ TurnsOver(t, sftpLock, sftpLock')
      /\ TurnsOver(t, transportLock, transportLock')
  BY <1>0
  DEF ThreadStep, Attempts, Reports, Works, Files, Replaces, EnsureReady,
      StartTransport, MasterReady, MasterUnsupported, MasterFails, ProbeDirect,
      Connected, MarkOpen, MarkOpenStops, Marked, BeginDirect, SpawnExec,
      ExecEnds, TakeJob, FileRequest, FileLock, UseSession, OpenSession,
      Operate, AwaitHash, PauseDispatch, Busy, EnterReconnect, DropSession,
      GiveUpTransport, EnsureManual, ReconnectFails, FailQueued, Resume, At,
      Holds, InAttempt, InReport, InReconnect, WithSession, Sharing, TurnsOver
<1>3. Free \notin Threads
  BY ThreadsAssumption
<1>4. QED
  BY <1>0, <1>1, <1>2, <1>3 DEF TypeOK, TurnsOver

(* The locks a thread holds follow from where it stands, after a step of   *)
(* its own and after one of another thread.                                *)
LEMMA HoldsStep ==
  ASSUME ConnectionInv, NEW t \in Threads, ThreadStep(t), NEW u \in Threads
  PROVE  Holds(u)'
<1> USE DEF lockVars, linkVars, execVars, pauseVars, ResumeDispatch
<1>0. TypeOK /\ Holds(t) /\ Holds(u) /\ ThreadsInPlace
  BY InvParts
<1>1. CASE u # t
  <2>1. /\ pc'[u] = pc[u]
        /\ connectLock' = u <=> connectLock = u
        /\ sftpLock' = u <=> sftpLock = u
        /\ transportLock' = u <=> transportLock = u
    BY <1>1, OwnStep
  <2>2. QED
    BY <1>0, <2>1 DEF Holds, Sharing
<1>2. CASE u = t
  <2> DEFINE here == pc[t]  there == pc'[t]
  <2>0. Free # t /\ pc \in [Threads -> Labels]
    BY <1>0, ThreadsAssumption DEF TypeOK, Labels
  <2>1. CASE EnsureReady(t) /\ t \notin Reconnectors
    BY <1>0, <2>0, <2>1, ThreadsAssumption
    DEF EnsureReady, EnsureRaised, EndJob, Goto, Return, At, Ready, Holds,
        InAttempt, InReport, InReconnect, WithSession, Sharing, Threads
  <2>2. CASE Attempts(t)
    BY <1>0, <2>0, <2>2, ThreadsAssumption
    DEF Attempts, StartTransport, MasterReady, MasterUnsupported, MasterFails,
        ProbeDirect, Connected, Goto, Return, At, Ready, Holds, InAttempt,
        InReport, InReconnect, WithSession, Sharing, Threads
  <2>3. CASE Reports(t)
    BY <1>0, <2>0, <2>3, ThreadsAssumption
    DEF Reports, MarkOpen, MarkOpenStops, StopTransport, Marked, Goto, Return,
        At, Holds, InAttempt, InReport, InReconnect, WithSession, Sharing,
        Threads
  <2>4. CASE t \in Workers /\ Works(t)
    BY <1>0, <2>0, <2>4, ThreadsAssumption
    DEF Works, BeginDirect, SpawnExec, ExecEnds, TakeJob, Goto, Return, At,
        Holds, InAttempt, InReport, InReconnect, WithSession, Sharing, Threads
  <2>5. CASE t \in FileThreads /\ Files(t)
    BY <1>0, <2>0, <2>5, ThreadsAssumption
    DEF Files, FileRequest, FileLock, UseSession, OpenSession, Operate,
        AwaitHash, Goto, Return, At, Holds, InAttempt, InReport, InReconnect,
        WithSession, Sharing, Threads
  <2>6. CASE t \in Reconnectors /\ Replaces(t)
    BY <1>0, <2>0, <2>6, ThreadsAssumption
    DEF Replaces, PauseDispatch, Busy, EnterReconnect, DropSession,
        GiveUpTransport, StopTransport, EnsureManual, ReconnectFails,
        FailQueued, Resume, Goto, Return, At, Holds, InAttempt, InReport,
        InReconnect, WithSession, Sharing, Threads
  <2>7. QED
    BY <1>2, <2>1, <2>2, <2>3, <2>4, <2>5, <2>6 DEF ThreadStep
<1>3. QED
  BY <1>1, <1>2

(* Threads go on to positions of their kind only.                          *)
LEMMA InPlaceStep ==
  ASSUME ConnectionInv, NEW t \in Threads, ThreadStep(t)
  PROVE  ThreadsInPlace'
<1> USE DEF lockVars, linkVars, execVars, pauseVars, ResumeDispatch
<1>0. TypeOK /\ Holds(t) /\ ThreadsInPlace
  BY InvParts
<1>1. \A u \in Threads \ {t} : pc'[u] = pc[u]
  BY OwnStep
<1>2. pc \in [Threads -> Labels]
  BY <1>0 DEF TypeOK, Labels
<1>3. /\ t \in Workers => pc'[t] \in {"idle"} \cup WithJob \cup InReport
      /\ t \in FileThreads =>
           pc'[t] \in {"idle", "ensure", "lock"} \cup InAttempt \cup InReport
                       \cup WithSession
      /\ t \in Reconnectors =>
           pc'[t] \in {"idle", "busy", "enter"} \cup InReconnect \cup InAttempt
                       \cup InReport
  <2>1. CASE EnsureReady(t) /\ t \notin Reconnectors
    BY <1>0, <1>2, <2>1, ThreadsAssumption
    DEF EnsureReady, Goto, Return, Ready, InAttempt, InReport, InReconnect,
        WithSession, WithJob, Threads
  <2>2. CASE Attempts(t)
    BY <1>0, <1>2, <2>2, ThreadsAssumption
    DEF ThreadsInPlace, Attempts, StartTransport, MasterReady,
        MasterUnsupported, MasterFails, ProbeDirect, Connected, Goto, At,
        Ready, InAttempt, InReport, InReconnect, WithSession, WithJob, Threads
  <2>3. CASE Reports(t)
    BY <1>0, <1>2, <2>3, ThreadsAssumption
    DEF Reports, MarkOpen, MarkOpenStops, Marked, Goto, Return, At, Holds,
        InAttempt, InReport, InReconnect, WithSession, WithJob, Threads
  <2>4. CASE t \in Workers /\ Works(t)
    BY <1>0, <1>2, <2>4, ThreadsAssumption
    DEF Works, BeginDirect, SpawnExec, ExecEnds, TakeJob, Goto, Return, At,
        InAttempt, InReport, WithJob, Threads
  <2>5. CASE t \in FileThreads /\ Files(t)
    BY <1>0, <1>2, <2>5, ThreadsAssumption
    DEF Files, FileRequest, FileLock, UseSession, OpenSession, Operate,
        AwaitHash, Goto, Return, At, InAttempt, InReport, WithSession, Threads
  <2>6. CASE t \in Reconnectors /\ Replaces(t)
    BY <1>0, <1>2, <2>6, ThreadsAssumption
    DEF Replaces, PauseDispatch, Busy, EnterReconnect, DropSession,
        GiveUpTransport, EnsureManual, ReconnectFails, FailQueued, Resume,
        Goto, Return, At, InAttempt, InReport, InReconnect, Threads
  <2>7. QED
    BY <2>1, <2>2, <2>3, <2>4, <2>5, <2>6 DEF ThreadStep
<1>4. QED
  BY <1>0, <1>1, <1>3 DEF ThreadsInPlace, Threads

-----------------------------------------------------------------------------
(* Jobs and workers.                                                       *)

(* no job changes hands                                                    *)
SameDispatch ==
  /\ UNCHANGED serving
  /\ \A j \in Jobs : job'[j] = "dispatched" <=> job[j] = "dispatched"
Ends(w) ==
  /\ serving[w] \in Jobs
  /\ \E o \in Ended : job' = [job EXCEPT ![serving[w]] = o]
  /\ serving' = [serving EXCEPT ![w] = Free]
Takes(w) ==
  \E j \in Jobs :
    /\ ~paused /\ serving[w] = Free /\ job[j] = "queued"
    /\ job' = [job EXCEPT ![j] = "dispatched"]
    /\ serving' = [serving EXCEPT ![w] = j]

(* Only a worker changes who serves a job: it takes one when it becomes    *)
(* engaged and ends it when it no longer is.                               *)
LEMMA WorkerJobStep ==
  ASSUME ConnectionInv, NEW t \in Threads, ThreadStep(t)
  PROVE  /\ t \notin Workers => UNCHANGED serving
         /\ t \in Workers =>
              \/ /\ UNCHANGED <<job, serving>>
                 /\ Engaged(t) <=> Engaged(t)'
              \/ /\ Ends(t)
                 /\ ~Engaged(t)'
              \/ Takes(t) /\ pc'[t] \in WithJob
<1> USE DEF lockVars, linkVars, execVars, pauseVars, ResumeDispatch
<1>0. TypeOK /\ ThreadsInPlace /\ Holds(t) /\ (t \in Workers => Serves(t))
  BY InvParts DEF JobsFollowWorkers, Serves, Engaged
<1>1. pc \in [Threads -> Labels] /\ t # Free
  BY <1>0, ThreadsAssumption DEF TypeOK, Labels
<1>2. t \in Workers => serving[t] \in Jobs \cup {Free}
  BY <1>0 DEF TypeOK
<1>3. CASE EnsureReady(t) /\ t \notin Reconnectors
  BY <1>0, <1>1, <1>2, <1>3, ThreadsAssumption
  DEF EnsureReady, EnsureRaised, EndJob, Ends, Ended, Goto, Return, At, Ready,
      Serves, Holds, InAttempt, InReport, InReconnect, Engaged, WithJob, Threads
<1>4. CASE Attempts(t)
  BY <1>0, <1>1, <1>4, ThreadsAssumption
  DEF Attempts, StartTransport, MasterReady, MasterUnsupported, MasterFails,
      ProbeDirect, Connected, Goto, At, Ready, Holds, InAttempt, InReport,
      InReconnect, Engaged, WithJob, Threads
<1>5. CASE Reports(t)
  BY <1>0, <1>1, <1>2, <1>5, ThreadsAssumption
  DEF Reports, MarkOpen, MarkOpenStops, StopTransport, Marked, EnsureRaised,
      EndJob, Ends, Ended, Goto, Return, At, Serves, InAttempt, InReport,
      InReconnect, Engaged, WithJob, Threads
<1>6. CASE t \in Workers /\ Works(t)
  BY <1>0, <1>1, <1>2, <1>6, ThreadsAssumption
  DEF Works, BeginDirect, SpawnExec, ExecEnds, TakeJob, EndJob, Ends, Ended,
      Takes, Goto, Return, At, Serves, Holds, InAttempt, InReport, InReconnect,
      Engaged, WithJob, Threads
<1>7. CASE t \in FileThreads /\ Files(t)
  BY <1>7, ThreadsAssumption
  DEF Files, FileRequest, FileLock, UseSession, OpenSession, Operate, AwaitHash
<1>8. CASE t \in Reconnectors /\ Replaces(t)
  BY <1>8, ThreadsAssumption
  DEF Replaces, PauseDispatch, Busy, EnterReconnect, DropSession,
      GiveUpTransport, EnsureManual, ReconnectFails, FailQueued, Resume
<1>9. QED
  BY <1>3, <1>4, <1>5, <1>6, <1>7, <1>8 DEF ThreadStep

(* Any other thread leaves the dispatched jobs alone, and a hash job is    *)
(* there only while its file request awaits it.                            *)
LEMMA OtherJobStep ==
  ASSUME ConnectionInv, NEW t \in Threads, ThreadStep(t), t \notin Workers
  PROVE  /\ SameDispatch
         /\ \A f \in FileThreads : job'[f] # "none" => pc'[f] = "await"
<1> USE DEF lockVars, linkVars, execVars, pauseVars, ResumeDispatch
<1>0. TypeOK /\ JobsFollowWorkers
  BY InvParts
<1>1. UNCHANGED serving
  BY WorkerJobStep
<1>2. \A u \in Threads \ {t} : pc'[u] = pc[u]
  BY OwnStep
<1>3. CASE UNCHANGED job /\ pc[t] # "await"
  BY <1>0, <1>1, <1>2, <1>3 DEF SameDispatch, JobsFollowWorkers, Threads, Jobs
<1>4. CASE t \in FileThreads /\ (Operate(t) \/ AwaitHash(t))
  BY <1>0, <1>1, <1>2, <1>4
  DEF SameDispatch, JobsFollowWorkers, Threads, Jobs, Operate, AwaitHash,
      Ended, Goto, Return, At, TypeOK
<1>5. CASE t \in Reconnectors /\ FailQueued(t)
  BY <1>0, <1>1, <1>2, <1>5, ThreadsAssumption
  DEF SameDispatch, JobsFollowWorkers, Threads, Jobs, FailQueued
<1>6. QED
  BY <1>3, <1>4, <1>5
  DEF ThreadStep, Attempts, Reports, Files, Replaces, EnsureReady,
      StartTransport, MasterReady, MasterUnsupported, MasterFails, ProbeDirect,
      Connected, MarkOpen, MarkOpenStops, Marked, FileRequest, FileLock,
      UseSession, OpenSession, PauseDispatch, Busy, EnterReconnect,
      DropSession, GiveUpTransport, EnsureManual, ReconnectFails, Resume,
      EnsureRaised, At

(* A step keeps jobs and workers in agreement.                             *)
LEMMA JobsStep ==
  ASSUME ConnectionInv, NEW t \in Threads, ThreadStep(t)
  PROVE  JobsFollowWorkers'
<1>0. TypeOK /\ JobsFollowWorkers
  BY InvParts
<1>1. \A u \in Threads \ {t} :
        pc'[u] = pc[u] /\ (connectLock' = u <=> connectLock = u)
  BY OwnStep
<1>2. Free \notin Jobs
  BY ThreadsAssumption
<1>3. CASE t \notin Workers
  <2>1. /\ SameDispatch
        /\ \A f \in FileThreads : job'[f] # "none" => pc'[f] = "await"
    BY <1>3, OtherJobStep
  <2>2. QED
    BY <1>0, <1>1, <1>3, <2>1 DEF SameDispatch, JobsFollowWorkers, Threads
<1>4. CASE t \in Workers
  <2>1. \A f \in FileThreads : f # t
    BY <1>4, ThreadsAssumption
  <2>2. CASE /\ UNCHANGED <<job, serving>>
             /\ Engaged(t) <=> Engaged(t)'
    BY <1>0, <1>1, <2>1, <2>2 DEF JobsFollowWorkers, Engaged, Threads
  <2>3. CASE Ends(t) /\ ~Engaged(t)'
    BY <1>0, <1>1, <1>2, <1>4, <2>1, <2>3
    DEF Ends, Ended, Engaged, JobsFollowWorkers, Threads, TypeOK, Jobs
  <2>4. CASE Takes(t) /\ pc'[t] \in WithJob
    BY <1>0, <1>1, <1>2, <1>4, <2>1, <2>4
    DEF Takes, Engaged, JobsFollowWorkers, Threads, TypeOK, Jobs
  <2>5. QED
    BY <1>4, <2>2, <2>3, <2>4, WorkerJobStep
<1>5. QED
  BY <1>3, <1>4

-----------------------------------------------------------------------------
(* The circuit and the session.                                            *)

(* The circuit follows the attempt under connect_lock.                     *)
LEMMA CircuitStep ==
  ASSUME ConnectionInv, NEW t \in Threads, ThreadStep(t)
  PROVE  CircuitFollowsAttempt'
<1> USE DEF lockVars, linkVars, execVars, pauseVars, ResumeDispatch
<1>0. /\ TypeOK /\ ThreadsInPlace /\ CircuitFollowsAttempt
      /\ \A u \in Threads : Holds(u)
  BY InvParts
<1>1. /\ \A u \in Threads \ {t} :
           pc'[u] = pc[u] /\ (connectLock' = u <=> connectLock = u)
      /\ pc \in [Threads -> Labels] /\ Free \notin Threads
  BY <1>0, OwnStep, ThreadsAssumption DEF TypeOK, Labels
<1>2. \A u \in Threads : Holds(u)'
  BY HoldsStep
<1>3. CASE EnsureReady(t) /\ t \notin Reconnectors
  BY <1>0, <1>1, <1>2, <1>3
  DEF EnsureReady, Refuses, Goto, Return, At, Ready, CircuitFollowsAttempt,
      Holds, InAttempt, InReport, InReconnect, Threads, TypeOK
<1>4. CASE Attempts(t)
  BY <1>0, <1>1, <1>2, <1>4, ThreadsAssumption
  DEF Attempts, StartTransport, MasterReady, MasterUnsupported, MasterFails,
      ProbeDirect, Connected, Goto, At, Ready, CircuitFollowsAttempt, Holds,
      InAttempt, InReport, InReconnect, Threads
<1>5. CASE Reports(t)
  BY <1>0, <1>1, <1>2, <1>5, ThreadsAssumption
  DEF Reports, MarkOpen, MarkOpenStops, StopTransport, Marked, Goto, Return,
      At, CircuitFollowsAttempt, Holds, InAttempt, InReport, InReconnect,
      Threads
<1>6. CASE t \in Workers /\ Works(t)
  BY <1>0, <1>1, <1>2, <1>6, ThreadsAssumption
  DEF Works, BeginDirect, SpawnExec, ExecEnds, TakeJob, Goto, Return, At,
      CircuitFollowsAttempt, Holds, InAttempt, InReport, InReconnect, Threads
<1>7. CASE t \in FileThreads /\ Files(t)
  BY <1>0, <1>1, <1>2, <1>7, ThreadsAssumption
  DEF Files, FileRequest, FileLock, UseSession, OpenSession, Operate,
      AwaitHash, Goto, Return, At, CircuitFollowsAttempt, Holds, InAttempt,
      InReport, InReconnect, Threads
<1>8. CASE t \in Reconnectors /\ Replaces(t)
  BY <1>0, <1>1, <1>2, <1>8, ThreadsAssumption
  DEF Replaces, PauseDispatch, Busy, EnterReconnect, Barred, DropSession,
      GiveUpTransport, StopTransport, EnsureManual, ReconnectFails, FailQueued,
      Resume, Goto, Return, At, CircuitFollowsAttempt, Holds, InAttempt,
      InReport, InReconnect, Threads, TypeOK
<1>9. QED
  BY <1>3, <1>4, <1>5, <1>6, <1>7, <1>8 DEF ThreadStep

(* A connection is made only where no session of an earlier one is left.   *)
LEMMA FreshStep ==
  ASSUME ConnectionInv, NEW t \in Threads, ThreadStep(t)
  PROVE  AttemptsStartFresh'
<1> USE DEF lockVars, linkVars, execVars, pauseVars, ResumeDispatch
<1>0. /\ TypeOK /\ ThreadsInPlace /\ CircuitFollowsAttempt /\ AttemptsStartFresh
      /\ \A u \in Threads : Holds(u)
  BY InvParts
<1>1. /\ \A u \in Threads \ {t} :
           pc'[u] = pc[u] /\ (connectLock' = u <=> connectLock = u)
      /\ pc \in [Threads -> Labels] /\ Free \notin Threads
  BY <1>0, OwnStep, ThreadsAssumption DEF TypeOK, Labels
<1>2. \A u \in Threads : Holds(u)'
  BY HoldsStep
<1>3. CASE EnsureReady(t) /\ t \notin Reconnectors
  BY <1>0, <1>1, <1>2, <1>3
  DEF EnsureReady, Refuses, Goto, Return, At, Ready, AttemptsStartFresh,
      NothingOld, Holds, InAttempt, InReconnect, WithSession, Threads, TypeOK
<1>4. CASE Attempts(t)
  BY <1>0, <1>1, <1>2, <1>4, ThreadsAssumption
  DEF Attempts, StartTransport, MasterReady, MasterUnsupported, MasterFails,
      ProbeDirect, Connected, Goto, At, Ready, AttemptsStartFresh, NothingOld,
      CircuitFollowsAttempt, InAttempt, WithSession, Threads
<1>5. CASE Reports(t)
  BY <1>0, <1>1, <1>2, <1>5, ThreadsAssumption
  DEF Reports, MarkOpen, MarkOpenStops, StopTransport, Marked, Goto, Return,
      At, AttemptsStartFresh, NothingOld, CircuitFollowsAttempt, InAttempt,
      InReport, WithSession, Threads
<1>6. CASE t \in Workers /\ Works(t)
  BY <1>0, <1>1, <1>2, <1>6, ThreadsAssumption
  DEF Works, BeginDirect, SpawnExec, ExecEnds, TakeJob, Goto, Return, At,
      AttemptsStartFresh, NothingOld, InAttempt, WithSession, Threads
<1>7. CASE t \in FileThreads /\ Files(t)
  <2>1. /\ t \notin Reconnectors /\ UNCHANGED state
        /\ pc'[t] \notin InAttempt \cup {"giveup", "manual"}
    BY <1>0, <1>1, <1>7, ThreadsAssumption
    DEF Files, FileRequest, FileLock, UseSession, OpenSession, Operate,
        AwaitHash, Goto, Return, InAttempt
  <2>2. CASE pc[t] \in WithSession
    BY <1>0, <1>1, <1>7, <2>1, <2>2 DEF AttemptsStartFresh, NothingOld, Threads
  <2>3. CASE pc[t] \notin WithSession
    <3>1. /\ session' = session
          /\ pc'[t] \in WithSession => state = "READY"
      BY <1>0, <1>1, <1>7, <2>3
      DEF Files, FileRequest, FileLock, UseSession, OpenSession, Operate,
          AwaitHash, Goto, Return, At, WithSession
    <3>2. CASE state = "READY"
      <4>1. \A u \in Threads : pc[u] \notin InAttempt \cup {"giveup", "manual"}
        BY <1>0, <3>2
        DEF ThreadsInPlace, CircuitFollowsAttempt, Threads, InAttempt,
            InReport, WithJob, WithSession
      <4>2. QED
        BY <1>1, <2>1, <3>2, <4>1 DEF AttemptsStartFresh
    <3>3. CASE state # "READY"
      <4>1. NothingOld => NothingOld'
        BY <1>1, <3>1, <3>3 DEF NothingOld, Threads
      <4>2. QED
        BY <1>0, <1>1, <1>7, <2>1, <4>1 DEF AttemptsStartFresh, Threads
    <3>4. QED
      BY <3>2, <3>3
  <2>4. QED
    BY <2>2, <2>3
<1>8. CASE t \in Reconnectors /\ Replaces(t)
  BY <1>0, <1>1, <1>2, <1>8, ThreadsAssumption
  DEF Replaces, PauseDispatch, Busy, EnterReconnect, Barred, DropSession,
      GiveUpTransport, StopTransport, EnsureManual, ReconnectFails, FailQueued,
      Resume, Goto, Return, At, AttemptsStartFresh, NothingOld,
      CircuitFollowsAttempt, Holds, Sharing, InAttempt, InReport, InReconnect,
      WithSession, Threads, TypeOK
<1>9. QED
  BY <1>3, <1>4, <1>5, <1>6, <1>7, <1>8 DEF ThreadStep

(* A session made stale is one of a connection that is no longer in use.   *)
LEMMA SessionStep ==
  ASSUME ConnectionInv, NEW t \in Threads, ThreadStep(t)
  PROVE  SessionIsCurrent'
<1> USE DEF lockVars, linkVars, execVars, pauseVars, ResumeDispatch
<1>0. TypeOK /\ CircuitFollowsAttempt /\ AttemptsStartFresh /\ SessionIsCurrent
  BY InvParts
<1>1. CASE Attempts(t)
  BY <1>0, <1>1
  DEF Attempts, StartTransport, MasterReady, MasterUnsupported, MasterFails,
      ProbeDirect, Connected, At, AttemptsStartFresh, NothingOld,
      SessionIsCurrent, InAttempt
<1>2. CASE ~Attempts(t)
  BY <1>0, <1>2
  DEF ThreadStep, Reports, Works, Files, Replaces, EnsureReady, StopTransport,
      MarkOpen, MarkOpenStops, Marked, BeginDirect, SpawnExec, ExecEnds,
      TakeJob, FileRequest, FileLock, UseSession, OpenSession, Operate,
      AwaitHash, PauseDispatch, Busy, EnterReconnect, DropSession,
      GiveUpTransport, EnsureManual, ReconnectFails, FailQueued, Resume,
      SessionIsCurrent
<1>3. QED
  BY <1>1, <1>2

-----------------------------------------------------------------------------
(* The broker starts with every lock free and no job.                      *)
LEMMA InitInv == Init => ConnectionInv
<1> SUFFICES ASSUME Init PROVE ConnectionInv
  OBVIOUS
<1>1. /\ \A t \in Threads : pc[t] = "idle" /\ t # Free
      /\ \A w \in Workers : serving[w] = Free
  BY ThreadsAssumption DEF Init, Threads
<1>2. TypeOK
  BY ThreadsAssumption DEF Init, TypeOK, Ended
<1>3. (\A t \in Threads : Holds(t)) /\ ThreadsInPlace
  BY <1>1
  DEF Init, Holds, Sharing, ThreadsInPlace, InAttempt, InReport, InReconnect,
      WithSession, Threads
<1>4. JobsFollowWorkers
  BY <1>1, ThreadsAssumption
  DEF Init, JobsFollowWorkers, WithJob, InAttempt, InReport, Threads, Jobs
<1>5. CircuitFollowsAttempt /\ AttemptsStartFresh /\ SessionIsCurrent
  BY <1>1
  DEF Init, CircuitFollowsAttempt, AttemptsStartFresh, NothingOld,
      SessionIsCurrent, InAttempt, WithSession, Threads
<1>6. QED
  BY <1>2, <1>3, <1>4, <1>5, InvParts

(* Requests of other clients and what happens to the master from outside.  *)
LEMMA OtherStepInv ==
  ASSUME ConnectionInv, OtherStep
  PROVE  ConnectionInv'
<1> USE DEF lockVars, linkVars, execVars, pauseVars, ResumeDispatch
<1>0. /\ TypeOK /\ JobsFollowWorkers /\ ThreadsInPlace /\ CircuitFollowsAttempt
      /\ AttemptsStartFresh /\ SessionIsCurrent /\ \A t \in Threads : Holds(t)
  BY InvParts
<1>1. UNCHANGED <<state, multiplexing, lockVars, pauseVars, serving, pc>>
  BY DEF OtherStep, SubmitExec, CollectExec, QueueTimeout, MasterDies,
         IntervalPasses
<1>2. /\ \/ session' = session
         \/ session = "up" /\ session' = "stale" /\ master' = "down"
      /\ master' \in {master, "down"} /\ cooling' \in {cooling, FALSE}
      /\ session = session' \/ job' = job
  BY DEF OtherStep, SubmitExec, CollectExec, QueueTimeout, MasterDies,
         IntervalPasses
<1>3. /\ job' \in [Jobs -> {"none", "queued", "dispatched"} \cup Ended]
      /\ \A j \in Jobs : job'[j] = "dispatched" <=> job[j] = "dispatched"
      /\ \A j \in FileThreads : job'[j] # "none" => job[j] # "none"
  BY <1>0, ThreadsAssumption
  DEF OtherStep, SubmitExec, CollectExec, QueueTimeout, MasterDies,
      IntervalPasses, Ended, TypeOK, Jobs
<1>4. /\ TypeOK' /\ JobsFollowWorkers' /\ ThreadsInPlace'
      /\ \A t \in Threads : Holds(t)'
  <2>1. TypeOK'
    BY <1>0, <1>1, <1>2, <1>3 DEF TypeOK
  <2>2. JobsFollowWorkers'
    BY <1>0, <1>1, <1>3 DEF JobsFollowWorkers
  <2>3. ThreadsInPlace' /\ \A t \in Threads : Holds(t)'
    BY <1>0, <1>1 DEF ThreadsInPlace, Holds, Sharing
  <2>4. QED
    BY <2>1, <2>2, <2>3
<1>5. CircuitFollowsAttempt' /\ AttemptsStartFresh' /\ SessionIsCurrent'
  BY <1>0, <1>1, <1>2
  DEF CircuitFollowsAttempt, AttemptsStartFresh, NothingOld, SessionIsCurrent
<1>6. QED
  BY <1>4, <1>5 DEF ConnectionInv, BrokerInv, LocksFollowThreads, Holds, Threads

(* The invariant is inductive.                                             *)
LEMMA NextInv == ConnectionInv /\ [Next]_vars => ConnectionInv'
<1> SUFFICES ASSUME ConnectionInv, [Next]_vars PROVE ConnectionInv'
  OBVIOUS
<1>1. CASE OtherStep
  BY <1>1, OtherStepInv
<1>2. ASSUME NEW t \in Threads, ThreadStep(t) PROVE ConnectionInv'
  <2>1. /\ TypeOK' /\ JobsFollowWorkers' /\ ThreadsInPlace'
        /\ \A u \in Threads : Holds(u)'
    BY <1>2, TypeStep, JobsStep, InPlaceStep, HoldsStep
  <2>2. CircuitFollowsAttempt' /\ AttemptsStartFresh' /\ SessionIsCurrent'
    BY <1>2, CircuitStep, FreshStep, SessionStep
  <2>3. QED
    BY <2>1, <2>2
    DEF ConnectionInv, BrokerInv, LocksFollowThreads, Holds, Threads
<1>3. CASE UNCHANGED vars
  BY <1>3
  DEF vars, lockVars, linkVars, execVars, pauseVars, ConnectionInv, BrokerInv, TypeOK,
      LocksFollowThreads, JobsFollowWorkers, Sharing, ThreadsInPlace,
      CircuitFollowsAttempt, AttemptsStartFresh, NothingOld, SessionIsCurrent
<1>4. QED
  BY <1>1, <1>2, <1>3, NextIsOneStep

(* Over every interleaving of requests, workers, reconnects and failures   *)
(* of the connection, whatever their number.                               *)
THEOREM ConnectionInvariance == Spec => []ConnectionInv
BY InitInv, NextInv, PTL DEF Spec

(* Every way out of a request gives back the locks and the job it took.    *)
THEOREM LocksAndJobsFollow == Spec => []BrokerInv
<1>1. ConnectionInv => BrokerInv
  BY DEF ConnectionInv
<1>2. QED
  BY <1>1, ConnectionInvariance, PTL

(* No file request finds a session of an earlier connection.               *)
THEOREM NoSessionOutlivesItsConnection == Spec => []SessionIsCurrent
<1>1. ConnectionInv => SessionIsCurrent
  BY DEF ConnectionInv
<1>2. QED
  BY <1>1, ConnectionInvariance, PTL

(* While connect_lock is free no attempt is under way, and a reconnect     *)
(* that gave up the connection finds none made behind its back.            *)
THEOREM OneAttempt == Spec => []AttemptsAreAlone
<1>1. ConnectionInv => AttemptsAreAlone
  BY ThreadsAssumption
  DEF ConnectionInv, CircuitFollowsAttempt, AttemptsAreAlone, Threads
<1>2. QED
  BY <1>1, ConnectionInvariance, PTL

-----------------------------------------------------------------------------
(* Reconnects and the pause they share.                                    *)

(* A reconnect keeps dispatching paused, until another one resumes it.     *)
LEMMA PausedStep ==
  ASSUME ConnectionInv, PausedForReconnect, [Next]_vars
  PROVE  PausedForReconnect'
<1> USE DEF lockVars, linkVars, execVars, pauseVars
<1>0. TypeOK /\ ThreadsInPlace
  BY InvParts
<1>1. ASSUME NEW t \in Threads, ThreadStep(t) PROVE PausedForReconnect'
  <2>1. \A u \in Threads \ {t} : pc'[u] = pc[u]
    BY <1>1, OwnStep
  <2>2. CASE t \notin Reconnectors
    <3>1. /\ paused' = paused /\ undermined' = undermined
          /\ \A r \in Reconnectors : pc'[r] = pc[r]
      BY <1>1, <2>1, <2>2
      DEF Threads, ThreadStep, Attempts, Reports, Works, Files, EnsureReady,
          StartTransport, MasterReady, MasterUnsupported, MasterFails,
          ProbeDirect, Connected, MarkOpen, MarkOpenStops, Marked, BeginDirect,
          SpawnExec, ExecEnds, TakeJob, FileRequest, FileLock, UseSession,
          OpenSession, Operate, AwaitHash, EnsureRaised, EndJob
    <3>2. paused /\ Dispatched = {} => Dispatched' = {}
      <4>1. CASE t \notin Workers
        BY <1>1, <4>1, OtherJobStep DEF SameDispatch, Dispatched
      <4>2. CASE t \in Workers
        <5>1. UNCHANGED job \/ Ends(t) \/ Takes(t)
          BY <1>1, <4>2, WorkerJobStep
        <5>2. Takes(t) => ~paused
          BY DEF Takes
        <5>3. QED
          BY <1>0, <5>1, <5>2 DEF Ends, Ended, Dispatched, TypeOK
      <4>3. QED
        BY <4>1, <4>2
    <3>3. QED
      BY <3>1, <3>2 DEF PausedForReconnect
  <2>3. CASE t \in Reconnectors
    <3>1. t \notin Workers /\ pc \in [Threads -> Labels]
      BY <1>0, <2>3, ThreadsAssumption DEF TypeOK, Labels
    <3>2. Dispatched' = Dispatched
      BY <1>1, <3>1, OtherJobStep DEF SameDispatch, Dispatched
    <3>3. CASE ResumeDispatch(t) /\ Return(t)
      <4>1. \A r \in Reconnectors : r \notin undermined' => pc'[r] = "idle"
        BY <2>1, <2>3, <3>1, <3>3
        DEF ResumeDispatch, Return, Goto, Threads
      <4>2. QED
        BY <4>1 DEF PausedForReconnect
    <3>4. CASE PauseDispatch(t)
      <4>1. paused' /\ undermined' = undermined
        BY <3>4 DEF PauseDispatch
      <4>2. pc'[t] \notin {"idle", "busy"} => Dispatched = {}
        BY <2>3, <3>1, <3>4 DEF PauseDispatch, Goto, Threads
      <4>3. \A r \in Reconnectors \ {t} : pc'[r] = pc[r]
        BY <2>1 DEF Threads
      <4>4. QED
        BY <3>2, <4>1, <4>2, <4>3 DEF PausedForReconnect
    <3>5. CASE /\ paused' = paused /\ undermined' = undermined
               /\ pc[t] \notin {"idle", "busy"}
      <4>1. \A r \in Reconnectors \ {t} : pc'[r] = pc[r]
        BY <2>1 DEF Threads
      <4>2. QED
        BY <2>3, <3>2, <3>5, <4>1 DEF PausedForReconnect
    <3>6. \/ ResumeDispatch(t) /\ Return(t)
          \/ PauseDispatch(t)
          \/ /\ paused' = paused /\ undermined' = undermined
             /\ pc[t] \notin {"idle", "busy"}
      BY <1>1, <2>3, <3>1, ThreadsAssumption
      DEF Threads, ThreadStep, Attempts, Reports, Replaces, StartTransport,
          MasterReady, MasterUnsupported, MasterFails, ProbeDirect, Connected,
          MarkOpen, MarkOpenStops, Marked, Busy, EnterReconnect, DropSession,
          GiveUpTransport, EnsureManual, ReconnectFails, FailQueued, Resume, At
    <3>7. QED
      BY <3>3, <3>4, <3>5, <3>6
  <2>4. QED
    BY <2>2, <2>3
<1>2. CASE OtherStep
  <2>1. UNCHANGED <<paused, undermined, pc>>
    BY <1>2
    DEF OtherStep, SubmitExec, CollectExec, QueueTimeout, MasterDies,
        IntervalPasses
  <2>2. Dispatched = {} => Dispatched' = {}
    BY <1>0, <1>2
    DEF OtherStep, SubmitExec, CollectExec, QueueTimeout, MasterDies,
        IntervalPasses, Dispatched, TypeOK
  <2>3. QED
    BY <2>1, <2>2 DEF PausedForReconnect
<1>3. CASE UNCHANGED vars
  BY <1>3 DEF vars, PausedForReconnect, Dispatched
<1>4. QED
  BY <1>1, <1>2, <1>3, NextIsOneStep

(* From the busy check of a reconnect until it is through no job is with a *)
(* worker (broker.py, reconnect), unless another reconnect returned        *)
(* meanwhile: both share the pause, and that one lifted it.                *)
THEOREM ReconnectIsUndisturbed == Spec => []NoJobWhileReplacing
<1>1. Init => PausedForReconnect
  BY ThreadsAssumption DEF Init, PausedForReconnect, Threads
<1>2. ConnectionInv /\ PausedForReconnect /\ [Next]_vars => PausedForReconnect'
  BY PausedStep
<1>3. PausedForReconnect => NoJobWhileReplacing
  BY DEF PausedForReconnect, NoJobWhileReplacing, Replacing
<1>4. QED
  BY <1>1, <1>2, <1>3, ConnectionInvariance, PTL DEF Spec

-----------------------------------------------------------------------------
(* The refinement of CircuitBreaker.                                       *)

(* The attempt, seen from the thread that holds connect_lock.              *)
Tries(t) == IF pc[t] \notin InAttempt \cup InReport THEN "none"
            ELSE IF t \in Reconnectors THEN "manual" ELSE "request"

(* A step is one of CircuitBreaker, or changes neither circuit nor attempt.*)
LEMMA StepIsBreaker ==
  ASSUME ConnectionInv, ConnectionInv', [Next]_vars
  PROVE  [Breaker!Next]_<<state, AttemptOf>>
<1> USE DEF lockVars, linkVars, execVars, pauseVars, ResumeDispatch
<1>0. /\ TypeOK /\ ThreadsInPlace /\ CircuitFollowsAttempt
      /\ \A t \in Threads : Holds(t)
  BY InvParts
<1>1. /\ connectLock = Free => AttemptOf = "none"
      /\ \A t \in Threads : connectLock = t => AttemptOf = Tries(t)
      /\ connectLock' = Free => AttemptOf' = "none"
      /\ \A t \in Threads : connectLock' = t => AttemptOf' = Tries(t)'
  BY ThreadsAssumption DEF AttemptOf, Tries, InAttempt, InReport, Threads
<1>2. ASSUME connectLock' = connectLock,
             connectLock # Free => Tries(connectLock)' = Tries(connectLock),
             state' \in {state, "OPEN"}
      PROVE  [Breaker!Next]_<<state, AttemptOf>>
  <2>1. AttemptOf' = AttemptOf
    BY <1>0, <1>1, <1>2 DEF TypeOK
  <2>2. QED
    BY <1>2, <2>1 DEF Breaker!Next, Breaker!ReportFailure
<1>3. ASSUME NEW t \in Threads, ThreadStep(t)
      PROVE  [Breaker!Next]_<<state, AttemptOf>>
  <2>0. /\ \A u \in Threads \ {t} :
           pc'[u] = pc[u] /\ (connectLock' = u <=> connectLock = u)
        /\ pc \in [Threads -> Labels] /\ Free \notin Threads
    BY <1>0, <1>3, OwnStep, ThreadsAssumption DEF TypeOK, Labels
  <2>1. CASE connectLock # t /\ connectLock' # t
    <3>1. connectLock' = connectLock
      BY <1>0, <2>0, <2>1 DEF ConnectionInv, BrokerInv, TypeOK
    <3>2. connectLock # Free => Tries(connectLock)' = Tries(connectLock)
      BY <1>0, <2>0, <2>1 DEF Tries, TypeOK
    <3>3. state' \in {state, "OPEN"}
      BY <1>0, <1>3, <2>1
      DEF ThreadStep, Attempts, Reports, Works, Files, Replaces, EnsureReady,
          StartTransport, MasterReady, MasterUnsupported, MasterFails,
          ProbeDirect, Connected, MarkOpen, MarkOpenStops, Marked, BeginDirect,
          SpawnExec, ExecEnds, TakeJob, FileRequest, FileLock, UseSession,
          OpenSession, Operate, AwaitHash, PauseDispatch, Busy, EnterReconnect,
          DropSession, GiveUpTransport, EnsureManual, ReconnectFails,
          FailQueued, Resume, At, Holds, InAttempt, InReconnect
    <3>4. QED
      BY <1>2, <3>1, <3>2, <3>3
  <2>2. CASE connectLock = t \/ connectLock' = t
    <3> DEFINE before == IF connectLock = t THEN Tries(t) ELSE "none"
               after == IF connectLock' = t THEN Tries(t)' ELSE "none"
    <3>1. AttemptOf = before /\ AttemptOf' = after
      BY <1>0, <1>1, <2>0, <2>2 DEF ConnectionInv, BrokerInv, TypeOK
    <3>2. CASE t \notin Reconnectors /\ EnsureReady(t)
      BY <1>0, <2>0, <2>2, <3>1, <3>2
      DEF EnsureReady, Refuses, At, Goto, Return, Tries, InAttempt, InReport,
          TypeOK, Breaker!Next, Breaker!RequestAttempt
    <3>3. CASE Connected(t)
      BY <1>0, <2>0, <2>2, <3>1, <3>3
      DEF Connected, At, Goto, Ready, Tries, Holds, InAttempt, InReport,
          Breaker!Next, Breaker!Succeed
    <3>4. CASE Attempts(t) /\ ~Connected(t)
      BY <1>0, <2>0, <2>2, <3>1, <3>4
      DEF Attempts, StartTransport, MasterReady, MasterUnsupported,
          MasterFails, ProbeDirect, At, Goto, Tries, InAttempt, InReport
    <3>5. CASE MarkOpen(t) \/ MarkOpenStops(t)
      BY <1>0, <2>0, <2>2, <3>1, <3>5
      DEF MarkOpen, MarkOpenStops, At, Goto, Tries, InAttempt, InReport,
          Breaker!Next, Breaker!ReportFailure
    <3>6. CASE Marked(t)
      BY <1>0, <2>0, <2>2, <3>1, <3>6
      DEF Marked, At, Goto, Return, Tries, InAttempt, InReport,
          CircuitFollowsAttempt, Breaker!Next, Breaker!Fail
    <3>7. CASE (t \in Workers /\ Works(t)) \/ (t \in FileThreads /\ Files(t))
      BY <1>0, <2>0, <2>2, <3>1, <3>7, ThreadsAssumption
      DEF Works, Files, BeginDirect, SpawnExec, ExecEnds, TakeJob, FileRequest,
          FileLock, UseSession, OpenSession, Operate, AwaitHash, At, Holds,
          InAttempt, InReport, InReconnect, ThreadsInPlace
    <3>8. CASE t \in Reconnectors /\ EnsureManual(t)
      BY <1>0, <2>0, <2>2, <3>1, <3>8
      DEF EnsureManual, At, Goto, Tries, InAttempt, InReport,
          CircuitFollowsAttempt, Breaker!Next, Breaker!ManualAttempt
    <3>9. CASE t \in Reconnectors /\ EnterReconnect(t)
      BY <1>0, <2>0, <2>2, <3>1, <3>9
      DEF EnterReconnect, At, Goto, Tries, InAttempt, InReport, Breaker!Next,
          Breaker!GiveUpConnection
    <3>10. CASE /\ t \in Reconnectors /\ Replaces(t)
                /\ ~EnsureManual(t) /\ ~EnterReconnect(t)
      BY <1>0, <2>0, <2>2, <3>1, <3>10
      DEF Replaces, PauseDispatch, Busy, DropSession, GiveUpTransport,
          ReconnectFails, FailQueued, Resume, At, Goto, Return, Tries,
          InAttempt, InReport
    <3>11. QED
      BY <1>3, <3>2, <3>3, <3>4, <3>5, <3>6, <3>7, <3>8, <3>9, <3>10
      DEF ThreadStep, Reports
  <2>3. QED
    BY <2>1, <2>2
<1>4. CASE OtherStep \/ UNCHANGED vars
  <2>1. UNCHANGED <<state, connectLock, pc>>
    BY <1>4
    DEF vars, OtherStep, SubmitExec, CollectExec, QueueTimeout, MasterDies,
        IntervalPasses
  <2>2. QED
    BY <1>2, <2>1 DEF Tries
<1>5. QED
  BY <1>3, <1>4, NextIsOneStep

(* Attempts, failures and reconnects, whatever threads make them, keep the *)
(* promise of CircuitBreaker: one attempt at a time, by a request only on  *)
(* a broker that is DISCONNECTED, after a failure by a reconnect only.     *)
THEOREM BreakerIsImplemented == Spec => ImplementsBreaker
<1>1. Init => Breaker!Init
  BY DEF Init, Breaker!Init, AttemptOf
<1>2. ConnectionInv /\ ConnectionInv' /\ [Next]_vars
        => [Breaker!Next]_<<state, AttemptOf>>
  BY StepIsBreaker
<1>3. QED
  BY <1>1, <1>2, ConnectionInvariance, PTL
  DEF Spec, ImplementsBreaker, Breaker!Spec
=============================================================================
