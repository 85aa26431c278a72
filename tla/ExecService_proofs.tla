------------------------ MODULE ExecService_proofs --------------------------
(***************************************************************************)
(* What the callers of ExecJobManager rely on, proved from the invariant   *)
(* of ExecJobs_proofs: the promise of ExecService, the bounds on the load, *)
(* a registry without gaps, and one termination per child.                 *)
(***************************************************************************)
EXTENDS ExecJobs_proofs

-----------------------------------------------------------------------------
(* The steps of one job.                                                   *)

(* What a step may do to the state of a job and to its child.              *)
JobStep(j) ==
  \/ state'[j] = state[j] /\ os'[j] = os[j]
  \/ state[j] = "NEW" /\ state'[j] = "QUEUED" /\ os'[j] = os[j]
  \/ state[j] = "QUEUED" /\ state'[j] = "RUNNING" /\ os'[j] = os[j]
  \/ /\ state[j] \in {"QUEUED", "RUNNING"} /\ state'[j] \in Terminal
     /\ os'[j] = os[j]
  \/ /\ state[j] = "RUNNING" /\ state'[j] = state[j]
     /\ os[j] = "none" /\ os'[j] = "running"
  \/ /\ state'[j] = state[j]
     /\ os[j] = "running" /\ os'[j] \in {"exited", "sshlost"}

(* _finish_locked ends accepted jobs and no others.                        *)
LEMMA FinishMoves ==
  ASSUME TypeOK, NEW outcome, FinishLocked(outcome), UNCHANGED os,
         \A i \in DOMAIN outcome :
           state[i] # "NEW" /\ (state[i] \notin Terminal => outcome[i] \in Terminal),
         NEW j \in Jobs
  PROVE  JobStep(j)
<1>1. state[j] \in {"NEW", "QUEUED", "RUNNING"} \cup Terminal
  BY DEF TypeOK
<1>2. QED
  BY <1>1 DEF FinishLocked, Unfinished, JobStep

(* Expiry, cancel in the queue, close and fail_queued end waiting jobs.    *)
LEMMA FinishQueued ==
  ASSUME JobInv, NEW outcome, FinishLocked(outcome), UNCHANGED os,
         DOMAIN outcome \subseteq queue,
         \A i \in DOMAIN outcome : outcome[i] \in Terminal,
         NEW j \in Jobs
  PROVE  JobStep(j)
<1>1. \A i \in DOMAIN outcome : state[i] = "QUEUED"
  BY DEF JobInv, QueueExact, TypeOK
<1>2. TypeOK
  BY DEF JobInv
<1>3. QED
  BY <1>1, <1>2, FinishMoves

(* Whatever thread takes it, a step changes a job in one of these ways.    *)
LEMMA JobMoves ==
  ASSUME JobInv, [Next]_vars, NEW j \in Jobs
  PROVE  JobStep(j)
<1> USE DEF jobVars, requestVars, killVars, storeVars, brokerVars
<1>0. TypeOK /\ QueueExact /\ HeldJobs /\ LooseJobs
  BY DEF JobInv
<1>1. ASSUME NEW S \in SUBSET queue, FinishLocked(All(S, "FAILED")), UNCHANGED os
      PROVE  JobStep(j)
  <2>1. /\ DOMAIN All(S, "FAILED") \subseteq queue
        /\ \A i \in DOMAIN All(S, "FAILED") : All(S, "FAILED")[i] \in Terminal
    BY DEF All, Terminal
  <2>2. QED
    BY <1>1, <2>1, FinishQueued
<1>2. ASSUME NEW w \in Workers, NEW i \in Jobs, HeldBy(w, i), NEW st \in Terminal,
             FinishLocked(All({i}, st)), UNCHANGED os
      PROVE  JobStep(j)
  <2>1. state[i] # "NEW" /\ DOMAIN All({i}, st) = {i} /\ All({i}, st)[i] = st
    BY <1>0, <1>2 DEF HeldJobs, All
  <2>2. QED
    BY <1>0, <1>2, <2>1, FinishMoves
<1>3. ASSUME NEW E \in SUBSET queue, NEW T, Requests(E, T)
      PROVE  JobStep(j)
  <2>1. ASSUME NEW i \in Jobs, Submit(i, E, T)
        PROVE  JobStep(j)
    <3>1. \A k \in E : state[k] = "QUEUED"
      BY <1>0 DEF QueueExact, TypeOK
    <3>2. QED
      BY <2>1, <3>1 DEF Submit, JobStep, Terminal
  <2>2. ASSUME NEW i \in Jobs, NEW c, CancelQueued(c, i, E, T)
        PROVE  JobStep(j)
    <3> DEFINE outcome == [k \in E \cup {i} |-> IF k = i THEN "CANCELED" ELSE "FAILED"]
    <3>1. /\ FinishLocked(outcome) /\ UNCHANGED os
          /\ DOMAIN outcome \subseteq queue
          /\ \A k \in DOMAIN outcome : outcome[k] \in Terminal
      BY <2>2 DEF CancelQueued, Terminal
    <3> HIDE DEF outcome
    <3>2. QED
      BY <3>1, FinishQueued
  <2>3. CASE \/ Clean(E, T)
             \/ \E i \in Jobs : \/ SubmitRegistryFull(i, E, T)
                                \/ \E c \in Cancellers : CancelActive(c, i, E, T)
    BY <1>1, <2>3 DEF Clean, SubmitRegistryFull, CancelActive
  <2>4. QED
    BY <1>3, <2>1, <2>2, <2>3 DEF Requests
<1>4. ASSUME NEW w \in Workers, NEW i \in Jobs,
             PrepareFails(w, i) \/ SpawnFails(w, i) \/ FinishRun(w, i)
      PROVE  JobStep(j)
  <2>1. HeldBy(w, i) /\ UNCHANGED os
    BY <1>4 DEF PrepareFails, SpawnFails, FinishRun, At, HeldBy, Holding
  <2>2. \E st \in Terminal : FinishLocked(All({i}, st))
    BY <1>0, <1>4 DEF PrepareFails, SpawnFails, FinishRun, Terminal, TypeOK
  <2>3. QED
    BY <1>2, <2>1, <2>2
<1>5. ASSUME NEW w \in Workers, NEW i \in Jobs, NEW allowed, BeginRun(w, i, allowed)
      PROVE  JobStep(j)
  <2>1. HeldBy(w, i) /\ UNCHANGED os /\ state[i] = "QUEUED"
    BY <1>0, <1>5 DEF BeginRun, At, HeldBy, Holding, HeldJobs
  <2>2. CASE closed \/ i \in cancelRequested
    BY <1>2, <1>5, <2>1, <2>2 DEF BeginRun, Terminal
  <2>3. CASE ~(closed \/ i \in cancelRequested)
    <3>1. state' = [state EXCEPT ![i] = "RUNNING"]
      BY <1>5, <2>3 DEF BeginRun
    <3>2. QED
      BY <1>0, <2>1, <3>1 DEF TypeOK, JobStep
  <2>4. QED
    BY <2>2, <2>3
<1>6. ASSUME NEW w \in Workers, NEW i \in Jobs,
             \/ Spawn(w, i) \/ RegisterProcess(w, i) \/ MonitorPoll(w, i)
             \/ \E timedOut \in BOOLEAN : MonitorDecide(w, i, timedOut)
      PROVE  JobStep(j)
  <2>1. UNCHANGED state /\ (UNCHANGED os \/ Spawn(w, i))
    BY <1>6 DEF Spawn, RegisterProcess, MonitorPoll, MonitorDecide
  <2>2. ASSUME Spawn(w, i) PROVE JobStep(j)
    <3>1. state[i] = "RUNNING" /\ os[i] = "none" /\ os' = [os EXCEPT ![i] = "running"]
      BY <1>0, <2>2 DEF Spawn, At, HeldBy, Holding, HeldJobs
    <3>2. QED
      BY <1>0, <2>1, <3>1 DEF TypeOK, JobStep
  <2>3. QED
    BY <2>1, <2>2 DEF JobStep
<1>7. ASSUME NEW w \in Workers, NEW E \in SUBSET queue, LoopTurn(w, E)
      PROVE  JobStep(j)
  <2>1. ASSUME NEW i \in Jobs, TakeJob(w, i, E)
        PROVE  JobStep(j)
    <3>1. \A k \in E : state[k] = "QUEUED"
      BY <1>0 DEF QueueExact, TypeOK
    <3>2. QED
      BY <2>1, <3>1 DEF TakeJob, JobStep, Terminal
  <2>2. CASE ExpireAndWait(w, E) \/ WorkerExits(w, E)
    BY <1>1, <2>2 DEF ExpireAndWait, WorkerExits
  <2>3. QED
    BY <1>7, <2>1, <2>2 DEF LoopTurn
<1>8. ASSUME NEW i \in Jobs, NEW how \in {"exited", "sshlost"}, ProcessExits(i, how)
      PROVE  JobStep(j)
  BY <1>0, <1>8 DEF ProcessExits, JobStep, TypeOK
<1>9. CASE \/ UNCHANGED vars
           \/ \E i \in Jobs : SyncSleep(i) \/ SyncReturn(i)
           \/ \E t \in terminations : TerminationStep(t)
           \/ \E c \in Cancellers : CancelStep(c)
           \/ PauseDispatch
           \/ \E value \in {1, MaxConcurrency} : ResumeDispatch(value) \/ SetEffective(value)
  BY <1>9
  DEF vars, SyncSleep, SyncReturn, TerminationStep, CancelStep, CancelPoll,
      CancelMark, CancelSeesEnd, CancelGivesUp, PauseDispatch, ResumeDispatch,
      SetEffective, JobStep
<1>10. CASE FailQueued
  BY <1>1, <1>10 DEF FailQueued
<1>11. CASE Close
  <2>1. /\ FinishLocked(All(queue, "CANCELED")) /\ UNCHANGED os
        /\ DOMAIN All(queue, "CANCELED") = queue
        /\ \A i \in queue : All(queue, "CANCELED")[i] \in Terminal
    BY <1>11 DEF Close, All, Terminal
  <2>2. QED
    BY <2>1, FinishQueued
<1>12. QED
  BY <1>3, <1>4, <1>5, <1>6, <1>7, <1>8, <1>9, <1>10, <1>11
  DEF Next, WorkerStep, BrokerCalls

-----------------------------------------------------------------------------
(* The refinement of ExecService.                                          *)

(* A step of a job is a move of the service, or none.                      *)
LEMMA PhaseMoves ==
  ASSUME TypeOK, LooseJobs, HeldJobs, NEW j \in Jobs, JobStep(j)
  PROVE  Phase'[j] # Phase[j] => <<Phase[j], Phase'[j]>> \in Service!Moves
<1>1. state[j] = "NEW" => os[j] = "none"
  BY DEF LooseJobs, HeldJobs
<1>2. /\ Phase[j] = IF state[j] = "NEW" THEN "new"
                    ELSE IF state[j] \in Terminal THEN "over"
                    ELSE IF os[j] = "none" THEN "waiting" ELSE "running"
      /\ Phase'[j] = IF state'[j] = "NEW" THEN "new"
                     ELSE IF state'[j] \in Terminal THEN "over"
                     ELSE IF os'[j] = "none" THEN "waiting" ELSE "running"
  BY DEF Phase
<1>3. QED
  BY <1>1, <1>2 DEF JobStep, Terminal, Service!Moves

(* A command runs only with a worker, so there are no more than slots.     *)
LEMMA RunningHasSlot ==
  ASSUME JobInv'
  PROVE  Cardinality(Service!Running(Phase')) <= MaxConcurrency
<1>1. TypeOK' /\ RunningExact' /\ HeldJobs' /\ LooseJobs'
  BY DEF JobInv
<1>2. Service!Running(Phase') \subseteq dispatching'
  BY <1>1 DEF Service!Running, Phase, LooseJobs, TypeOK, Terminal
<1>3. dispatching' \in SUBSET Jobs /\ IsFiniteSet(dispatching')
  BY <1>1, ThreadsAssumption, FS_Subset DEF TypeOK
<1>4. /\ Cardinality(Service!Running(Phase')) <= Cardinality(dispatching')
      /\ Cardinality(Service!Running(Phase')) \in Nat
      /\ Cardinality(dispatching') \in Nat
  BY <1>2, <1>3, FS_Subset, FS_CardinalityType
<1>5. Cardinality(dispatching') <= MaxConcurrency
  BY <1>1 DEF RunningExact, MaxConcurrency
<1>6. QED
  BY <1>4, <1>5, MaxConcurrencyType

(* ExecJobManager, with its queue, workers, cancellations, expiries and    *)
(* evictions, keeps the promise of ExecService: a command starts at most   *)
(* once, never after its job is over, and no more run than there are slots. *)
THEOREM ManagerImplementsService == Spec => ImplementsService
<1>1. Init => Service!Init
  BY DEF Init, Service!Init, Phase
<1>2. ASSUME JobInv, JobInv', [Next]_vars
      PROVE  [Service!Next]_Phase
  <2>1. Phase' \in [Jobs -> Service!Phases]
    BY DEF Phase, Service!Phases
  <2>2. \A j \in Jobs : Phase'[j] # Phase[j] => <<Phase[j], Phase'[j]>> \in Service!Moves
    <3> SUFFICES ASSUME NEW j \in Jobs
                 PROVE  Phase'[j] # Phase[j] => <<Phase[j], Phase'[j]>> \in Service!Moves
      OBVIOUS
    <3>1. JobStep(j)
      BY <1>2, JobMoves
    <3>2. QED
      BY <1>2, <3>1, PhaseMoves DEF JobInv
  <2>3. Cardinality(Service!Running(Phase')) <= MaxConcurrency
    BY <1>2, RunningHasSlot
  <2>4. QED
    BY <2>1, <2>2, <2>3 DEF Service!Next, Service!Cardinality, Cardinality
<1>3. QED
  BY <1>1, <1>2, Invariance, PTL DEF Spec, ImplementsService, Service!Spec

-----------------------------------------------------------------------------
(* Terminations.                                                           *)

(* Claims are made by RegisterProcess, MonitorDecide, cancel and close     *)
(* alone, each in the locked block that finds a reason noted.              *)
LEMMA ClaimStep ==
  ASSUME TypeOK, TerminationsClaimed, NEW thread, NEW j \in Jobs,
         j \notin terminationStarted, Claim(thread, j),
         reason' \in [Jobs -> {"NONE", "CANCELED", "TIMED_OUT"}],
         \A i \in Jobs : reason[i] # "NONE" => reason'[i] # "NONE",
         reason'[j] # "NONE", UNCHANGED signal
  PROVE  TerminationsClaimed'
<1>1. \A t \in terminations : t.job \in Jobs /\ t.job # j
  BY DEF TypeOK, TerminationsClaimed
<1>2. QED
  BY <1>1 DEF Claim, TerminationsClaimed, SingleTerminator

(* Steps that claim nothing and take no reason back.                       *)
LEMMA NoClaimStep ==
  ASSUME TypeOK, TerminationsClaimed, NoClaim, UNCHANGED signal,
         \A i \in Jobs : reason[i] # "NONE" => reason'[i] # "NONE"
  PROVE  TerminationsClaimed'
BY DEF TypeOK, NoClaim, TerminationsClaimed, SingleTerminator

(* The inductive invariant of the terminations.                            *)
LEMMA ClaimsNext ==
  ASSUME TypeOK, TypeOK', TerminationsClaimed, [Next]_vars
  PROVE  TerminationsClaimed'
<1> USE DEF jobVars, requestVars, killVars, storeVars, brokerVars
<1>1. ASSUME NEW w \in Workers, NEW j \in Jobs,
             \/ RegisterProcess(w, j)
             \/ \E timedOut \in BOOLEAN : MonitorDecide(w, j, timedOut)
      PROVE  TerminationsClaimed'
  <2>1. /\ \A i \in Jobs : reason[i] # "NONE" => reason'[i] # "NONE"
        /\ reason' \in [Jobs -> {"NONE", "CANCELED", "TIMED_OUT"}]
        /\ UNCHANGED signal
    BY <1>1 DEF RegisterProcess, MonitorDecide, TypeOK
  <2>2. \/ NoClaim
        \/ Claim(w, j) /\ j \notin terminationStarted /\ reason'[j] # "NONE"
    BY <1>1 DEF RegisterProcess, MonitorDecide, TypeOK
  <2>3. QED
    BY <2>1, <2>2, ClaimStep, NoClaimStep
<1>2. ASSUME NEW c \in Cancellers, NEW j \in Jobs, CancelMark(c, j)
      PROVE  TerminationsClaimed'
  <2>1. /\ \A i \in Jobs : reason[i] # "NONE" => reason'[i] # "NONE"
        /\ reason'[j] # "NONE"
        /\ reason' \in [Jobs -> {"NONE", "CANCELED", "TIMED_OUT"}]
        /\ UNCHANGED signal
    BY <1>2 DEF CancelMark, TypeOK
  <2>2. NoClaim \/ (Claim(c, j) /\ j \notin terminationStarted)
    BY <1>2 DEF CancelMark
  <2>3. QED
    BY <2>1, <2>2, ClaimStep, NoClaimStep
<1>3. CASE Close
  <2> DEFINE mine == {j \in registry : \/ state[j] = "QUEUED" /\ j \in dispatching
                                       \/ state[j] = "RUNNING"}
             claimed == {j \in mine : /\ state[j] = "RUNNING" /\ j \in process
                                      /\ j \notin terminationStarted}
  <2>1. /\ \A i \in Jobs : reason[i] # "NONE" => reason'[i] # "NONE"
        /\ \A i \in claimed : reason'[i] # "NONE"
        /\ UNCHANGED signal
    BY <1>3 DEF Close, TypeOK
  <2>2. /\ terminationStarted' = terminationStarted \cup claimed
        /\ terminations' = terminations \cup
             {[by |-> "close", job |-> j, step |-> "poll"] : j \in claimed}
        /\ \A j \in claimed : j \notin terminationStarted
    BY <1>3 DEF Close
  <2> HIDE DEF mine, claimed
  <2>3. \A t \in terminations : t.job \in Jobs /\ t.job \notin claimed
    BY <2>2 DEF TypeOK, TerminationsClaimed
  <2>4. \A t \in terminations' :
          \/ t \in terminations
          \/ \E j \in claimed : t = [by |-> "close", job |-> j, step |-> "poll"]
    BY <2>2
  <2>5. \A s, t \in terminations' : s.job = t.job => s = t
    BY <2>3, <2>4 DEF TerminationsClaimed, SingleTerminator
  <2>6. \A t \in terminations' : t.job \in terminationStarted' /\ reason'[t.job] # "NONE"
    BY <2>1, <2>2, <2>3, <2>4 DEF TerminationsClaimed
  <2>7. QED
    BY <2>1, <2>5, <2>6 DEF TerminationsClaimed, SingleTerminator
<1>4. ASSUME NEW t \in terminations, TerminationStep(t)
      PROVE  TerminationsClaimed'
  <2>1. UNCHANGED <<reason, terminationStarted>>
    BY <1>4 DEF TerminationStep
  <2>2. \A s \in terminations' :
          s \in terminations \ {t} \/ s = [t EXCEPT !.step = "grace"]
    <3>1. \/ terminations' = terminations \ {t}
          \/ terminations' = (terminations \ {t}) \cup {[t EXCEPT !.step = "grace"]}
      BY <1>4, Zenon DEF TerminationStep
    <3>2. QED
      BY <3>1, Zenon
  <2>3. [t EXCEPT !.step = "grace"].job = t.job /\ t.job \in Jobs
    BY <1>4 DEF TypeOK
  <2>4. \A r, s \in terminations' : r.job = s.job => r = s
    BY <2>2, <2>3 DEF TerminationsClaimed, SingleTerminator
  <2>5. \A s \in terminations' : s.job \in terminationStarted' /\ reason'[s.job] # "NONE"
    BY <2>1, <2>2, <2>3 DEF TerminationsClaimed
  <2>6. \A j \in Jobs : signal'[j] # "none" => reason'[j] # "NONE"
    BY <1>4, <2>1, <2>3
    DEF TerminationStep, TypeOK, TerminationsClaimed, SingleTerminator
  <2>7. QED
    BY <2>4, <2>5, <2>6 DEF TerminationsClaimed, SingleTerminator
<1>5. ASSUME NoClaim, UNCHANGED <<reason, signal>> PROVE TerminationsClaimed'
  BY <1>5, NoClaimStep
<1>6. CASE \/ \E E \in SUBSET queue, T \in SUBSET Settled : Requests(E, T)
           \/ \E w \in Workers, E \in SUBSET queue : LoopTurn(w, E)
           \/ FailQueued
  <2>1. NoClaim /\ UNCHANGED <<reason, signal>>
    <3>1. ASSUME NEW E, NEW T, Requests(E, T)
          PROVE  UNCHANGED <<reason, killVars>>
      <4>1. ASSUME NEW j, Submit(j, E, T) \/ SubmitRegistryFull(j, E, T)
            PROVE  UNCHANGED <<reason, killVars>>
        BY <4>1 DEF Submit, SubmitRegistryFull
      <4>2. ASSUME NEW c, NEW j, CancelQueued(c, j, E, T) \/ CancelActive(c, j, E, T)
            PROVE  UNCHANGED <<reason, killVars>>
        BY <4>2 DEF CancelQueued, CancelActive
      <4>3. QED
        BY <3>1, <4>1, <4>2 DEF Requests, Clean
    <3>2. ASSUME NEW w, NEW E, LoopTurn(w, E)
          PROVE  UNCHANGED <<reason, killVars>>
      BY <3>2 DEF LoopTurn, ExpireAndWait, TakeJob, WorkerExits
    <3>3. QED
      BY <1>6, <3>1, <3>2 DEF FailQueued, NoClaim
  <2>2. QED
    BY <1>5, <2>1
<1>7. ASSUME NEW w \in Workers, NEW j \in Jobs,
             \/ PrepareFails(w, j) \/ Spawn(w, j) \/ SpawnFails(w, j)
             \/ MonitorPoll(w, j) \/ FinishRun(w, j)
             \/ \E allowed \in {1, MaxConcurrency} : BeginRun(w, j, allowed)
      PROVE  TerminationsClaimed'
  <2>1. NoClaim /\ UNCHANGED <<reason, signal>>
    BY <1>7
    DEF PrepareFails, Spawn, SpawnFails, MonitorPoll, FinishRun, BeginRun,
        NoClaim
  <2>2. QED
    BY <1>5, <2>1
<1>8. CASE \/ UNCHANGED vars
           \/ \E j \in Jobs :
                \/ SyncSleep(j) \/ SyncReturn(j)
                \/ \E how \in {"exited", "sshlost"} : ProcessExits(j, how)
           \/ \E c \in Cancellers, j \in Jobs :
                CancelPoll(c, j) \/ CancelSeesEnd(c, j) \/ CancelGivesUp(c, j)
           \/ PauseDispatch
           \/ \E value \in {1, MaxConcurrency} :
                ResumeDispatch(value) \/ SetEffective(value)
  <2>1. NoClaim /\ UNCHANGED <<reason, signal>>
    BY <1>8 DEF vars, SyncSleep, SyncReturn, ProcessExits, CancelPoll,
                CancelSeesEnd, CancelGivesUp, PauseDispatch, ResumeDispatch,
                SetEffective, NoClaim
  <2>2. QED
    BY <1>5, <2>1
<1>9. QED
  BY <1>1, <1>2, <1>3, <1>4, <1>6, <1>7, <1>8
  DEF Next, WorkerStep, CancelStep, BrokerCalls

(* Whoever asks for the end of a command, cancel, close or the worker that *)
(* finds it timed out: one of them terminates the child, and no child is   *)
(* signalled before a reason was noted.                                    *)
THEOREM OneTerminator == Spec => []SingleTerminator
<1>1. Init => TerminationsClaimed
  BY DEF Init, TerminationsClaimed, SingleTerminator
<1>2. JobInv /\ JobInv' /\ TerminationsClaimed /\ [Next]_vars => TerminationsClaimed'
  BY ClaimsNext DEF JobInv
<1>3. TerminationsClaimed => SingleTerminator
  BY DEF TerminationsClaimed
<1>4. QED
  BY <1>1, <1>2, <1>3, Invariance, PTL DEF Spec

-----------------------------------------------------------------------------
(* The load and the registry.                                              *)

(* No step but an accepted request adds to the load or to the registry,    *)
(* and only jobs that are over leave the registry.                         *)
Shrinks ==
  /\ queue' \subseteq queue /\ dispatching' \subseteq dispatching
  /\ runningCount' \in Nat /\ runningCount' <= runningCount
  /\ registry' \subseteq registry
  /\ \A j \in registry \ registry' : state'[j] \in Terminal

(* Ending jobs gives slots back and takes none.                            *)
LEMMA FinishShrinks ==
  ASSUME TypeOK, NEW outcome, FinishLocked(outcome)
  PROVE  /\ dispatching' \subseteq dispatching
         /\ runningCount' \in Nat /\ runningCount' <= runningCount
<1>1. IsFiniteSet(dispatching \cap Unfinished(outcome))
  BY DispatchingFinite, FS_Subset
<1>2. Cardinality(dispatching \cap Unfinished(outcome)) \in Nat
  BY <1>1, FS_CardinalityType
<1>3. /\ dispatching' \subseteq dispatching
      /\ runningCount' = SlotsAfter(Unfinished(outcome))
  BY DEF FinishLocked
<1>4. QED
  BY <1>2, <1>3 DEF SlotsAfter, TypeOK

(* _clean_locked and the eviction drop jobs that are over, or expire now.  *)
LEMMA CleanedShrinks ==
  ASSUME TypeOK, NEW E, NEW T \in SUBSET Settled, NEW target,
         NEW reg \in CleanedTo(E, T, target)
  PROVE  /\ reg \subseteq registry
         /\ \A j \in registry \ reg : state[j] \in Terminal \/ j \in E
BY DEF CleanedTo, Evictions, Settled

(* In the same block the expired jobs fail.                                *)
LEMMA ExpiryShrinks ==
  ASSUME JobInv, NEW E \in SUBSET queue, NEW T \in SUBSET Settled, NEW D \in SUBSET queue,
         E \subseteq D, NEW outcome, FinishLocked(outcome), DOMAIN outcome = D,
         \A i \in D : outcome[i] \in Terminal,
         Dequeue(D),
         \/ registry' = registry
         \/ \E target \in Nat : registry' \in CleanedTo(E, T, target)
  PROVE  Shrinks
<1>0. TypeOK /\ QueueExact
  BY DEF JobInv
<1>1. /\ queue' \subseteq queue /\ dispatching' \subseteq dispatching
      /\ runningCount' \in Nat /\ runningCount' <= runningCount
  BY <1>0, FinishShrinks DEF Dequeue
<1>2. /\ registry' \subseteq registry
      /\ \A j \in registry \ registry' : state[j] \in Terminal \/ j \in E
  BY <1>0, CleanedShrinks
<1>3. \A j \in Jobs : state[j] \in Terminal \/ j \in D => state'[j] \in Terminal
  BY <1>0 DEF FinishLocked, Unfinished, QueueExact, TypeOK
<1>4. QED
  BY <1>0, <1>1, <1>2, <1>3 DEF Shrinks, TypeOK

(* Only a submission adds to the load, and only a worker's turn moves a job*)
(* from the deque to a slot.                                               *)
LEMMA LoadMoves ==
  ASSUME JobInv, [Next]_vars
  PROVE  \/ Shrinks
         \/ \E j \in Jobs, E \in SUBSET queue, T \in SUBSET Settled : Submit(j, E, T)
         \/ \E w \in Workers, j \in Jobs, E \in SUBSET queue : TakeJob(w, j, E)
<1> USE DEF jobVars, requestVars, killVars, storeVars, brokerVars
<1>0. TypeOK /\ QueueExact
  BY DEF JobInv
<1>1. ASSUME NEW E \in SUBSET queue, NEW T \in SUBSET Settled,
             FinishLocked(All(E, "FAILED")), Dequeue(E),
             \/ registry' = registry
             \/ \E target \in Nat : registry' \in CleanedTo(E, T, target)
      PROVE  Shrinks
  <2>1. /\ DOMAIN All(E, "FAILED") = E
        /\ \A i \in E : All(E, "FAILED")[i] \in Terminal
    BY DEF All, Terminal
  <2>2. QED
    BY <1>1, <2>1, ExpiryShrinks
<1>2. MaxJobs \in Nat /\ MaxJobs - 1 \in Nat
  BY LimitsAssumption, MaxConcurrencyType
<1>3. ASSUME NEW E \in SUBSET queue, NEW T \in SUBSET Settled, Requests(E, T)
      PROVE  Shrinks \/ \E j \in Jobs : Submit(j, E, T)
  <2>1. ASSUME NEW i \in Jobs, NEW c, CancelQueued(c, i, E, T)
        PROVE  Shrinks
    <3> DEFINE outcome == [k \in E \cup {i} |-> IF k = i THEN "CANCELED" ELSE "FAILED"]
    <3>1. /\ FinishLocked(outcome) /\ Dequeue(E \cup {i}) /\ E \cup {i} \in SUBSET queue
          /\ registry' \in CleanedTo(E, T, MaxJobs)
          /\ DOMAIN outcome = E \cup {i}
          /\ \A k \in E \cup {i} : outcome[k] \in Terminal
      BY <2>1 DEF CancelQueued, Terminal
    <3> HIDE DEF outcome
    <3>2. QED
      BY <1>2, <3>1, ExpiryShrinks
  <2>2. ASSUME NEW i \in Jobs, SubmitRegistryFull(i, E, T)
        PROVE  Shrinks
    <3>1. \E reg \in CleanedTo(E, T, MaxJobs - 1) : registry' = reg
      BY <2>2 DEF SubmitRegistryFull
    <3>2. QED
      BY <1>1, <1>2, <2>2, <3>1 DEF SubmitRegistryFull
  <2>3. CASE Clean(E, T) \/ \E i \in Jobs, c \in Cancellers : CancelActive(c, i, E, T)
    BY <1>1, <1>2, <2>3 DEF Clean, CancelActive
  <2>4. QED
    BY <1>3, <2>1, <2>2, <2>3 DEF Requests
<1>4. ASSUME NEW w \in Workers, NEW E \in SUBSET queue,
             ExpireAndWait(w, E) \/ WorkerExits(w, E)
      PROVE  Shrinks
  BY <1>1, <1>4 DEF ExpireAndWait, WorkerExits
<1>5. CASE FailQueued
  BY <1>1, <1>5 DEF FailQueued
<1>6. CASE Close
  <2>1. /\ FinishLocked(All(queue, "CANCELED")) /\ Dequeue(queue)
        /\ registry' = registry
        /\ DOMAIN All(queue, "CANCELED") = queue
        /\ \A i \in queue : All(queue, "CANCELED")[i] \in Terminal
    BY <1>6 DEF Close, All, Terminal
  <2>2. QED
    BY <2>1, ExpiryShrinks
<1>7. ASSUME UNCHANGED <<queue, registry>>,
             \/ UNCHANGED <<dispatching, runningCount>>
             \/ \E outcome : FinishLocked(outcome)
      PROVE  Shrinks
  BY <1>0, <1>7, FinishShrinks DEF Shrinks, TypeOK
<1>8. ASSUME NEW w \in Workers, WorkerStep(w) PROVE Shrinks
  BY <1>7, <1>8 DEF WorkerStep, PrepareFails, BeginRun, Spawn, SpawnFails,
                    RegisterProcess, MonitorPoll, MonitorDecide, FinishRun
<1>9. ASSUME NEW j \in Jobs, SyncReturn(j) PROVE Shrinks
  BY <1>0, <1>9 DEF SyncReturn, Shrinks, TypeOK
<1>10. CASE \/ UNCHANGED vars
            \/ \E j \in Jobs :
                 \/ SyncSleep(j)
                 \/ \E how \in {"exited", "sshlost"} : ProcessExits(j, how)
            \/ \E t \in terminations : TerminationStep(t)
            \/ \E c \in Cancellers : CancelStep(c)
            \/ PauseDispatch
            \/ \E value \in {1, MaxConcurrency} : ResumeDispatch(value) \/ SetEffective(value)
  BY <1>7, <1>10 DEF vars, SyncSleep, ProcessExits, TerminationStep, CancelStep,
         CancelPoll, CancelMark, CancelSeesEnd, CancelGivesUp, PauseDispatch,
         ResumeDispatch, SetEffective
<1>11. QED
  BY <1>3, <1>4, <1>5, <1>6, <1>8, <1>9, <1>10 DEF Next, LoopTurn, BrokerCalls

(* A submission adds one job where the bounds it has just tested allow it. *)
LEMMA SubmitLoad ==
  ASSUME JobInv, BoundedLoad, LiveJobsRegistered, NEW j \in Jobs,
         NEW E \in SUBSET queue, NEW T \in SUBSET Settled, Submit(j, E, T)
  PROVE  BoundedLoad' /\ LiveJobsRegistered'
<1>0. TypeOK /\ QueueExact /\ RunningExact
  BY DEF JobInv
<1>1. PICK reg \in CleanedTo(E, T, MaxJobs - 1) :
        ~Full(reg) /\ registry' = reg \cup {j}
  BY DEF Submit
<1>2. /\ reg \subseteq registry
      /\ \A i \in registry \ reg : state[i] \in Terminal \/ i \in E
  BY <1>0, <1>1, CleanedShrinks
<1>3. Cardinality(registry') <= MaxJobs
  <2>1. IsFiniteSet(reg)
    BY <1>0, <1>2, ThreadsAssumption, FS_Subset DEF TypeOK
  <2>2. /\ Cardinality(reg) \in Nat
        /\ Cardinality(reg \cup {j}) \in {Cardinality(reg), Cardinality(reg) + 1}
    BY <2>1, FS_CardinalityType, FS_AddElement
  <2>3. Cardinality(reg) < MaxJobs
    BY <1>1, <2>2, LimitsAssumption DEF Full
  <2>4. QED
    BY <1>1, <2>2, <2>3, LimitsAssumption
<1>4. runningCount' + Cardinality(queue') <= MaxConcurrency + QueueLimit
  <2>1. queue' = (queue \ E) \cup {j} /\ runningCount' = runningCount
    BY DEF Submit
  <2>2. IsFiniteSet(queue \ E)
    BY <1>0, ThreadsAssumption, FS_Subset DEF TypeOK
  <2>3. /\ Cardinality(queue \ E) \in Nat
        /\ Cardinality(queue') \in {Cardinality(queue \ E), Cardinality(queue \ E) + 1}
    BY <2>1, <2>2, FS_CardinalityType, FS_AddElement
  <2>4. runningCount + Cardinality(queue \ E) < effective + QueueLimit
    BY DEF Submit, HasRoom
  <2>5. effective \in Nat /\ effective <= MaxConcurrency /\ runningCount \in Nat
    BY <1>0, MaxConcurrencyType DEF TypeOK
  <2>6. QED
    BY <2>1, <2>3, <2>4, <2>5, MaxConcurrencyType, LimitsAssumption
<1>5. LiveJobsRegistered'
  <2>1. \A i \in Jobs \ {j} :
          /\ state[i] = "NEW" => state'[i] = "NEW"
          /\ state[i] \in Terminal \/ i \in E => state'[i] \in Terminal
    BY <1>0 DEF Submit, QueueExact, TypeOK, Terminal
  <2>2. QED
    BY <1>1, <1>2, <2>1 DEF LiveJobsRegistered, Accepted
<1>6. QED
  BY <1>3, <1>4, <1>5 DEF BoundedLoad, MaxConcurrency

(* A job that is taken turns from one that waits into one that runs.       *)
LEMMA TakeLoad ==
  ASSUME JobInv, JobInv', BoundedLoad, LiveJobsRegistered, NEW w \in Workers,
         NEW j \in Jobs, NEW E \in SUBSET queue, TakeJob(w, j, E)
  PROVE  BoundedLoad' /\ LiveJobsRegistered'
<1>0. TypeOK /\ QueueExact
  BY DEF JobInv
<1>1. /\ j \in queue /\ queue' = queue \ (E \cup {j})
      /\ runningCount' \in {runningCount, runningCount + 1}
      /\ registry' = registry
  BY DEF TakeJob, IsHead, Dequeue
<1>2. /\ IsFiniteSet(queue) /\ IsFiniteSet(queue \ {j})
      /\ queue' \subseteq queue \ {j}
  BY <1>0, <1>1, ThreadsAssumption, FS_Subset DEF TypeOK
<1>3. /\ Cardinality(queue) \in Nat
      /\ Cardinality(queue \ {j}) = Cardinality(queue) - 1
      /\ Cardinality(queue') \in Nat
      /\ Cardinality(queue') <= Cardinality(queue \ {j})
  BY <1>1, <1>2, FS_CardinalityType, FS_RemoveElement, FS_Subset
<1>4. runningCount' + Cardinality(queue') <= MaxConcurrency + QueueLimit
  BY <1>0, <1>1, <1>3, MaxConcurrencyType, LimitsAssumption
  DEF BoundedLoad, TypeOK
<1>5. LiveJobsRegistered'
  BY <1>0, <1>1
  DEF TakeJob, LiveJobsRegistered, Accepted, QueueExact, TypeOK, Terminal
<1>6. QED
  BY <1>1, <1>4, <1>5 DEF BoundedLoad, MaxConcurrency

(* The bounds and the registry, after any step.                            *)
LEMMA LoadNext ==
  ASSUME JobInv, JobInv', BoundedLoad, LiveJobsRegistered, [Next]_vars
  PROVE  BoundedLoad' /\ LiveJobsRegistered'
<1>0. TypeOK
  BY DEF JobInv
<1>1. CASE Shrinks
  <2>1. /\ IsFiniteSet(queue) /\ IsFiniteSet(registry)
    BY <1>0, ThreadsAssumption, FS_Subset DEF TypeOK
  <2>2. /\ Cardinality(queue) \in Nat /\ Cardinality(registry) \in Nat
        /\ Cardinality(queue') \in Nat /\ Cardinality(registry') \in Nat
        /\ Cardinality(queue') <= Cardinality(queue)
        /\ Cardinality(registry') <= Cardinality(registry)
    BY <1>1, <2>1, FS_CardinalityType, FS_Subset DEF Shrinks
  <2>3. BoundedLoad'
    BY <1>0, <1>1, <2>2, MaxConcurrencyType, LimitsAssumption
    DEF BoundedLoad, Shrinks, MaxConcurrency, TypeOK
  <2>4. \A j \in Jobs : state'[j] # "NEW" => state[j] # "NEW"
    <3>1. /\ QueueExact /\ QueueExact' /\ HeldJobs
          /\ \A j \in Jobs : JobStep(j)
      BY JobMoves DEF JobInv
    <3>2. ASSUME NEW j \in Jobs, state'[j] = "QUEUED" PROVE state[j] # "NEW"
      <4>1. j \in queue' \/ j \in dispatching'
        BY <3>1, <3>2 DEF QueueExact
      <4>2. j \in queue \/ j \in dispatching
        BY <1>1, <4>1 DEF Shrinks
      <4>3. QED
        BY <3>1, <4>2 DEF QueueExact, HeldJobs
    <3>3. QED
      BY <3>1, <3>2 DEF JobStep
  <2>5. LiveJobsRegistered'
    BY <1>0, <1>1, <2>4, JobMoves
    DEF LiveJobsRegistered, Accepted, Shrinks, JobStep, TypeOK, Terminal
  <2>6. QED
    BY <2>3, <2>5
<1>2. QED
  BY <1>1, LoadMoves, SubmitLoad, TakeLoad

(* The bounds a submission checks hold afterwards, whatever is expired,    *)
(* evicted or taken meanwhile.                                             *)
THEOREM LoadIsBounded == Spec => []BoundedLoad
<1>1. Init => BoundedLoad /\ LiveJobsRegistered
  BY FS_EmptySet, MaxConcurrencyType, LimitsAssumption
  DEF Init, BoundedLoad, LiveJobsRegistered, Accepted
<1>2. /\ JobInv /\ JobInv' /\ [Next]_vars /\ BoundedLoad /\ LiveJobsRegistered
      => BoundedLoad' /\ LiveJobsRegistered'
  BY LoadNext
<1>3. QED
  BY <1>1, <1>2, Invariance, PTL DEF Spec

(* No job that is not over falls out of the registry, where close looks    *)
(* for the children it has to terminate.                                   *)
THEOREM LiveJobsStayRegistered == Spec => []LiveJobsRegistered
<1>1. Init => BoundedLoad /\ LiveJobsRegistered
  BY FS_EmptySet, MaxConcurrencyType, LimitsAssumption
  DEF Init, BoundedLoad, LiveJobsRegistered, Accepted
<1>2. /\ JobInv /\ JobInv' /\ [Next]_vars /\ BoundedLoad /\ LiveJobsRegistered
      => BoundedLoad' /\ LiveJobsRegistered'
  BY LoadNext
<1>3. QED
  BY <1>1, <1>2, Invariance, PTL DEF Spec
=============================================================================
