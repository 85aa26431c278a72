--------------------------- MODULE ExecJobs_proofs ---------------------------
(***************************************************************************)
(* Proofs about module ExecJobs: its inductive invariant JobInv and the    *)
(* properties that follow from it, for every set of jobs, workers and      *)
(* callers and every queue and registry limit.                             *)
(***************************************************************************)
EXTENDS ExecJobs, FiniteSetTheorems, TLAPS

(* max_concurrency is a positive number.                                   *)
LEMMA MaxConcurrencyType == MaxConcurrency \in Nat /\ MaxConcurrency >= 1
<1>1. IsFiniteSet(Workers) /\ Workers # {}
  BY ThreadsAssumption
<1>2. QED
  BY <1>1, FS_CardinalityType, FS_EmptySet DEF MaxConcurrency

(* The jobs with a worker are finitely many.                               *)
LEMMA DispatchingFinite ==
  ASSUME TypeOK
  PROVE  IsFiniteSet(dispatching) /\ Cardinality(dispatching) \in Nat
<1>1. dispatching \in SUBSET Jobs /\ IsFiniteSet(Jobs)
  BY ThreadsAssumption DEF TypeOK
<1>2. QED
  BY <1>1, FS_Subset, FS_CardinalityType

(* Finishing waiting jobs (queue timeout, cancel, close, a failed          *)
(* reconnect) touches no worker's slot and no child.                       *)
LEMMA FinishWaiting ==
  ASSUME JobInv, NEW outcome, DOMAIN outcome \subseteq queue,
         FinishLocked(outcome)
  PROVE  /\ state' = [j \in Jobs |-> IF j \in DOMAIN outcome THEN outcome[j]
                                     ELSE state[j]]
         /\ UNCHANGED <<process, dispatching, runningCount>>
         /\ sync' = sync \/ sync' = Woken
<1>1. Unfinished(outcome) = DOMAIN outcome
  BY DEF JobInv, TypeOK, QueueExact, Terminal, Unfinished
<1>2. dispatching \cap DOMAIN outcome = {} /\ process \cap DOMAIN outcome = {}
  BY DEF JobInv, TypeOK, QueueExact, LooseJobs
<1>3. Cardinality(dispatching \cap DOMAIN outcome) = 0
  BY <1>2, FS_EmptySet
<1>4. runningCount \in Nat
  BY DEF JobInv, TypeOK
<1>5. QED
  BY <1>1, <1>2, <1>3, <1>4 DEF FinishLocked, SlotsAfter

(* Finishing the job a worker holds gives back exactly its slot.           *)
LEMMA FinishHeld ==
  ASSUME JobInv, NEW j \in dispatching, state[j] \notin Terminal,
         NEW outcome, FinishLocked(All({j}, outcome))
  PROVE  /\ state' = [state EXCEPT ![j] = outcome]
         /\ process' = process \ {j}
         /\ dispatching' = dispatching \ {j}
         /\ runningCount' = runningCount - 1 /\ runningCount' \in Nat
         /\ runningCount' = Cardinality(dispatching')
         /\ sync' = Woken
<1>1. Unfinished(All({j}, outcome)) = {j}
  BY DEF All, Unfinished
<1>2. All({j}, outcome)[j] = outcome
  BY DEF All
<1>3. Cardinality(dispatching \cap {j}) = 1
  <2>1. dispatching \cap {j} = {j}
    OBVIOUS
  <2>2. QED
    BY <2>1, FS_Singleton
<1>4. /\ TypeOK /\ runningCount = Cardinality(dispatching)
      /\ IsFiniteSet(dispatching) /\ runningCount \in Nat
  BY DispatchingFinite DEF JobInv, RunningExact
<1>5. /\ Cardinality(dispatching \ {j}) = runningCount - 1
      /\ Cardinality(dispatching \ {j}) \in Nat
  BY <1>4, FS_RemoveElement, FS_CardinalityType
<1>6. dispatching' = dispatching \ {j} /\ runningCount' = runningCount - 1
  <2> DEFINE S == Unfinished(All({j}, outcome))
  <2>1. runningCount' = IF runningCount > Cardinality(dispatching \cap S)
                        THEN runningCount - Cardinality(dispatching \cap S)
                        ELSE 0
    BY Zenon DEF FinishLocked, SlotsAfter
  <2>2. Cardinality(dispatching \cap S) = 1
    BY <1>1, <1>3, Zenon
  <2>3. runningCount' = runningCount - 1
    BY <2>1, <2>2, <1>4, <1>5
  <2>4. dispatching' = dispatching \ {j}
    BY <1>1, Zenon DEF FinishLocked
  <2>5. QED
    BY <2>3, <2>4
<1>7. state' = [state EXCEPT ![j] = outcome]
  BY <1>1, <1>2, <1>4 DEF FinishLocked, TypeOK
<1>8. process' = process \ {j} /\ sync' = Woken
  BY <1>1 DEF FinishLocked
<1>9. QED
  BY <1>5, <1>6, <1>7, <1>8

(* The bookkeeping of waking the run_sync callers is type-correct.         *)
LEMMA WokenType ==
  ASSUME TypeOK
  PROVE  Woken \in [Jobs -> {"idle", "checking", "asleep", "returned"}]
BY DEF TypeOK, Woken

(* Removing from the deque keeps its order a relation on what is left.     *)
LEMMA DequeueType ==
  ASSUME TypeOK, NEW S, Dequeue(S)
  PROVE  /\ queue' \subseteq Jobs /\ ahead' \subseteq queue' \X queue'
         /\ queue' = queue \ S
BY DEF TypeOK, Dequeue

(* Whatever is cleaned away, the registry holds jobs.                      *)
LEMMA CleanedType ==
  ASSUME TypeOK, NEW E, NEW T, NEW target, NEW reg \in CleanedTo(E, T, target)
  PROVE  reg \subseteq Jobs
BY DEF TypeOK, CleanedTo

(* Whatever prepare_exec allows, the concurrency stays within the workers. *)
LEMMA EffectiveType ==
  ASSUME NEW value \in {1, MaxConcurrency}, SetEffectiveLocked(value)
  PROVE  effective' \in 1..MaxConcurrency
BY MaxConcurrencyType DEF SetEffectiveLocked

-----------------------------------------------------------------------------
(* Steps that touch nothing JobInv speaks of but types.                    *)
jobView == <<state, dispatching, process, runningCount, queue, os, worker,
             requestVars>>

(* A step that changes nothing the invariant speaks of keeps it.           *)
LEMMA FrameInv ==
  ASSUME JobInv, UNCHANGED jobView, TypeOK',
         \A c \in Cancellers, i \in Jobs : Targets(c, i)' => Taken(i)
  PROVE  JobInv'
<1> USE DEF JobInv, jobView, requestVars
<1>1. RunningExact'
  BY DEF RunningExact, MaxConcurrency
<1>2. QueueExact'
  BY DEF QueueExact
<1>3. HeldJobs'
  BY DEF HeldJobs, HeldBy, ChildGone
<1>4. LooseJobs'
  BY DEF LooseJobs
<1>5. RequestedEnds' /\ HonestOutcome' /\ CancelWins'
  BY DEF RequestedEnds, HonestOutcome, CancelWins
<1>6. CancelTargets'
  BY DEF CancelTargets, Taken
<1>7. QED
  BY <1>1, <1>2, <1>3, <1>4, <1>5, <1>6

(* Waiting callers, terminations and the calls of the broker that end no   *)
(* job.                                                                    *)
LEMMA QuietSteps ==
  ASSUME JobInv,
         \/ \E j \in Jobs : SyncSleep(j) \/ SyncReturn(j)
         \/ \E t \in terminations : TerminationStep(t)
         \/ \E c \in Cancellers, j \in Jobs :
              CancelPoll(c, j) \/ CancelSeesEnd(c, j) \/ CancelGivesUp(c, j)
         \/ PauseDispatch
         \/ \E value \in {1, MaxConcurrency} :
              ResumeDispatch(value) \/ SetEffective(value)
         \/ UNCHANGED vars
  PROVE  JobInv'
<1> USE DEF jobVars, requestVars, killVars, storeVars, brokerVars
<1>0. TypeOK
  BY DEF JobInv
<1>1. ASSUME NEW j \in Jobs, SyncSleep(j) \/ SyncReturn(j)
      PROVE  UNCHANGED jobView /\ TypeOK'
  BY <1>0, <1>1 DEF SyncSleep, SyncReturn, jobView, TypeOK
<1>2. ASSUME NEW t \in terminations, TerminationStep(t)
      PROVE  UNCHANGED jobView /\ TypeOK'
  BY <1>0, <1>2 DEF TerminationStep, jobView, TypeOK
<1>3. ASSUME NEW c \in Cancellers, NEW j \in Jobs,
             CancelPoll(c, j) \/ CancelSeesEnd(c, j) \/ CancelGivesUp(c, j)
      PROVE  UNCHANGED jobView /\ TypeOK'
  <2>1. PICK label \in {"idle", "ended", "mark"}, held \in Jobs \cup {NoJob} :
          canceller' = [canceller EXCEPT ![c] = [pc |-> label, job |-> held]]
    BY <1>3 DEF CancelPoll, CancelSeesEnd, CancelGivesUp, CancelGoto
  <2>2. UNCHANGED <<jobVars, requestVars, killVars, storeVars, brokerVars,
                    worker>>
    BY <1>3 DEF CancelPoll, CancelSeesEnd, CancelGivesUp
  <2>3. QED
    BY <1>0, <2>1, <2>2 DEF jobView, TypeOK
<1>4. ASSUME PauseDispatch
      PROVE  UNCHANGED jobView /\ TypeOK'
  BY <1>0, <1>4 DEF PauseDispatch, jobView, TypeOK
<1>5. ASSUME NEW value \in {1, MaxConcurrency},
             ResumeDispatch(value) \/ SetEffective(value)
      PROVE  UNCHANGED jobView /\ TypeOK'
  <2>1. effective' \in 1..MaxConcurrency
    BY <1>0, <1>5, EffectiveType DEF ResumeDispatch, SetEffective, TypeOK
  <2>2. UNCHANGED jobView
    BY <1>5 DEF ResumeDispatch, SetEffective, jobView
  <2>3. QED
    BY <1>0, <1>5, <2>1, <2>2, WokenType
    DEF ResumeDispatch, SetEffective, jobView, TypeOK
<1>6. ASSUME UNCHANGED vars
      PROVE  UNCHANGED jobView /\ TypeOK'
  BY <1>0, <1>6 DEF vars, jobView, TypeOK, MaxConcurrency
<1>7. \A c \in Cancellers, i \in Jobs : Targets(c, i)' => Targets(c, i)
  <2>1. CASE UNCHANGED canceller
    BY <2>1 DEF Targets
  <2>2. ASSUME NEW c \in Cancellers, NEW j \in Jobs,
               CancelPoll(c, j) \/ CancelSeesEnd(c, j) \/ CancelGivesUp(c, j)
        PROVE  \A b \in Cancellers, i \in Jobs :
                 Targets(b, i)' => Targets(b, i)
    <3>1. \A b \in Cancellers : b # c => canceller'[b] = canceller[b]
      BY <1>0, <2>2 DEF CancelPoll, CancelSeesEnd, CancelGivesUp, CancelGoto,
                        TypeOK
    <3>2. canceller[c].job = j /\ canceller[c].pc # "idle"
      BY <2>2 DEF CancelPoll, CancelSeesEnd, CancelGivesUp, CancelAt
    <3>3. canceller'[c].job \in {j, NoJob}
      BY <1>0, <2>2 DEF CancelPoll, CancelSeesEnd, CancelGivesUp, CancelGoto,
                        TypeOK
    <3>4. QED
      BY <3>1, <3>2, <3>3, ThreadsAssumption DEF Targets
  <2>3. QED
    BY <2>1, <2>2 DEF SyncSleep, SyncReturn, TerminationStep, PauseDispatch,
                      ResumeDispatch, SetEffective, vars
<1>8. \A c \in Cancellers, i \in Jobs : Targets(c, i)' => Taken(i)
  BY <1>7 DEF JobInv, CancelTargets
<1>9. QED
  BY <1>1, <1>2, <1>3, <1>4, <1>5, <1>6, <1>8, FrameInv

-----------------------------------------------------------------------------
(* Steps that end waiting jobs, or ask for the end of held ones.           *)
LEMMA EndWaiting ==
  ASSUME JobInv, TypeOK',
         NEW D \in SUBSET queue, NEW outcome \in [D -> {"FAILED", "CANCELED"}],
         state' = [j \in Jobs |-> IF j \in D THEN outcome[j] ELSE state[j]],
         queue' = queue \ D,
         UNCHANGED <<process, dispatching, runningCount, os, remoteUnknown>>,
         \A w \in Workers :
           worker[w].pc \in Holding \/ worker'[w].pc \in Holding =>
             worker'[w] = worker[w],
         \A j \in cancelRequested' :
           \/ j \in cancelRequested
           \/ j \in D /\ outcome[j] = "CANCELED"
           \/ j \in dispatching /\ reason'[j] = "CANCELED",
         \A j \in Jobs : reason'[j] \in {reason[j], "CANCELED"},
         \A c \in Cancellers, i \in Jobs : Targets(c, i)' => Taken(i)
  PROVE  JobInv'
<1>0. /\ TypeOK /\ RunningExact /\ QueueExact /\ HeldJobs /\ LooseJobs
      /\ CancelTargets /\ RequestedEnds /\ HonestOutcome /\ CancelWins
  BY DEF JobInv
<1>1. RunningExact'
  BY <1>0 DEF RunningExact, MaxConcurrency
<1>2. QueueExact'
  BY <1>0 DEF QueueExact
<1>3. \A w \in Workers, j \in Jobs : HeldBy(w, j)' <=> HeldBy(w, j)
  BY <1>0 DEF HeldBy
<1>4. HeldJobs'
  <2>1. \A w \in Workers, j \in Jobs : HeldBy(w, j) =>
          state'[j] = state[j] /\ worker'[w] = worker[w]
    BY <1>0 DEF HeldJobs, HeldBy, QueueExact, TypeOK
  <2>2. QED
    BY <1>0, <1>3, <2>1 DEF HeldJobs, ChildGone
<1>5. LooseJobs'
  BY <1>0 DEF LooseJobs, Terminal, TypeOK
<1>6. RequestedEnds'
  BY <1>0 DEF RequestedEnds, QueueExact, Terminal, TypeOK
<1>7. HonestOutcome'
  BY <1>0 DEF HonestOutcome, RequestedEnds, LooseJobs, QueueExact, Terminal,
              TypeOK
<1>8. CancelWins'
  <2> SUFFICES ASSUME NEW j \in cancelRequested', state'[j] \in Terminal
               PROVE  \/ state'[j] = "CANCELED"
                      \/ state'[j] = "FAILED" /\ os[j] = "none"
    BY DEF CancelWins
  <2>1. j \in Jobs
    BY DEF TypeOK
  <2>2. CASE j \in D
    BY <1>0, <2>1, <2>2 DEF RequestedEnds, QueueExact, LooseJobs, Terminal
  <2>3. CASE j \notin D /\ j \in cancelRequested
    BY <1>0, <2>1, <2>3 DEF CancelWins
  <2>4. CASE j \notin D /\ j \in dispatching
    BY <1>0, <2>1, <2>4 DEF HeldJobs, Terminal
  <2>5. QED
    BY <2>2, <2>3, <2>4
<1>9. CancelTargets'
  BY <1>0 DEF CancelTargets, Taken, QueueExact, Terminal
<1>10. QED
  BY <1>1, <1>2, <1>4, <1>5, <1>6, <1>7, <1>8, <1>9 DEF JobInv

(* A worker moves on with the job it holds.                                *)
LEMMA HeldMoves ==
  ASSUME JobInv, TypeOK', NEW w \in Workers, NEW j \in Jobs, HeldBy(w, j),
         NEW label \in Holding \ {"prepare"},
         worker' = [worker EXCEPT ![w] = [pc |-> label, job |-> j]],
         UNCHANGED <<dispatching, runningCount, queue, cancelRequested,
                     remoteUnknown, canceller>>,
         \A i \in Jobs \ {j} :
           /\ state'[i] = state[i] /\ os'[i] = os[i]
           /\ i \in process' <=> i \in process,
         state'[j] = "RUNNING",
         os'[j] = "none" <=> label = "spawn",
         j \in process' <=> label \in {"monitor", "decide", "finish"},
         label = "finish" => ChildGone(j)',
         \A i \in cancelRequested : reason'[i] = reason[i]
  PROVE  JobInv'
<1>0. /\ TypeOK /\ RunningExact /\ QueueExact /\ HeldJobs /\ LooseJobs
      /\ CancelTargets /\ RequestedEnds /\ HonestOutcome /\ CancelWins
  BY DEF JobInv
<1>1. RunningExact'
  BY <1>0 DEF RunningExact, MaxConcurrency
<1>2. j \in dispatching /\ state[j] \notin Terminal
  BY <1>0 DEF HeldJobs, Terminal
<1>3. QueueExact'
  BY <1>0, <1>2 DEF QueueExact
<1>4. \A v \in Workers, i \in Jobs : HeldBy(v, i)' <=> HeldBy(v, i)
  BY <1>0 DEF HeldBy, TypeOK, HeldJobs
<1>5. \A v \in Workers : v # w => worker'[v] = worker[v]
  BY <1>0 DEF TypeOK
<1>6. worker'[w] = [pc |-> label, job |-> j]
  BY <1>0 DEF TypeOK
<1>7. HeldJobs'
  <2>1. \A i \in Jobs : i \in dispatching' <=> \E v \in Workers : HeldBy(v, i)'
    BY <1>0, <1>4 DEF HeldJobs
  <2>2. \A u, v \in Workers, i \in Jobs : HeldBy(u, i)' /\ HeldBy(v, i)' => u = v
    BY <1>0, <1>4 DEF HeldJobs
  <2>3. ASSUME NEW v \in Workers, NEW i \in Jobs, HeldBy(v, i)'
        PROVE  /\ state'[i] = IF worker'[v].pc = "prepare" THEN "QUEUED"
                              ELSE "RUNNING"
               /\ os'[i] = "none" <=> worker'[v].pc \in {"prepare", "spawn"}
               /\ i \in process'
                    <=> worker'[v].pc \in {"monitor", "decide", "finish"}
               /\ worker'[v].pc = "finish" => ChildGone(i)'
    <3>1. CASE i = j
      <4>1. v = w
        BY <1>0, <1>4, <2>3, <3>1 DEF HeldJobs
      <4>2. QED
        BY <1>6, <3>1, <4>1
    <3>2. CASE i # j
      <4>1. v # w /\ HeldBy(v, i)
        BY <1>4, <1>6, <2>3, <3>2 DEF HeldBy
      <4>2. QED
        BY <1>0, <1>5, <3>2, <4>1 DEF HeldJobs, ChildGone
    <3>3. QED
      BY <3>1, <3>2
  <2>4. QED
    BY <2>1, <2>2, <2>3 DEF HeldJobs
<1>8. LooseJobs'
  BY <1>0, <1>2 DEF LooseJobs
<1>9. \A i \in Jobs : state'[i] \in Terminal => i # j /\ state[i] \in Terminal
  BY DEF Terminal
<1>10. RequestedEnds'
  BY <1>0, <1>2 DEF RequestedEnds, Terminal, TypeOK
<1>11. HonestOutcome'
  BY <1>0, <1>9 DEF HonestOutcome, Terminal
<1>12. CancelWins'
  BY <1>0, <1>9 DEF CancelWins, TypeOK
<1>13. CancelTargets'
  BY <1>2, <1>9 DEF JobInv, CancelTargets, Targets, Taken
<1>14. QED
  BY <1>1, <1>3, <1>7, <1>8, <1>10, <1>11, <1>12, <1>13 DEF JobInv

(* A worker lets go of its job with the outcome st.                        *)
LEMMA HeldEnds ==
  ASSUME JobInv, TypeOK', NEW w \in Workers, NEW j \in Jobs, HeldBy(w, j),
         worker' = [worker EXCEPT ![w] = [pc |-> "take", job |-> NoJob]],
         NEW st \in Terminal, FinishLocked(All({j}, st)),
         UNCHANGED <<queue, os, cancelRequested, reason, canceller>>,
         remoteUnknown' \in {remoteUnknown, remoteUnknown \cup {j}},
         os[j] # "running",
         st \in {"CANCELED", "TIMED_OUT"} =>
           (os[j] # "none" <=> j \in remoteUnknown'),
         st = "EXITED" => os[j] # "none",
         st = "FAILED" => os[j] \in {"none", "sshlost"},
         j \in cancelRequested =>
           st = "CANCELED" \/ (st = "FAILED" /\ os[j] = "none")
  PROVE  JobInv'
<1>0. /\ TypeOK /\ RunningExact /\ QueueExact /\ HeldJobs /\ LooseJobs
      /\ CancelTargets /\ RequestedEnds /\ HonestOutcome /\ CancelWins
  BY DEF JobInv
<1>1. j \in dispatching /\ state[j] \notin Terminal
  BY <1>0 DEF HeldJobs, Terminal
<1>2. /\ state' = [state EXCEPT ![j] = st]
      /\ process' = process \ {j} /\ dispatching' = dispatching \ {j}
      /\ runningCount' = runningCount - 1 /\ runningCount' \in Nat
      /\ runningCount' = Cardinality(dispatching')
  BY <1>1, FinishHeld
<1>3. RunningExact'
  BY <1>0, <1>2, MaxConcurrencyType DEF RunningExact, MaxConcurrency, TypeOK
<1>4. QueueExact'
  BY <1>0, <1>1, <1>2 DEF QueueExact, TypeOK, Terminal
<1>5. \A v \in Workers, i \in Jobs :
        HeldBy(v, i)' <=> HeldBy(v, i) /\ v # w
  BY <1>0 DEF HeldBy, TypeOK, Holding
<1>6. \A v \in Workers : v # w => worker'[v] = worker[v]
  BY <1>0 DEF TypeOK
<1>7. HeldJobs'
  <2>1. \A v \in Workers, i \in Jobs : HeldBy(v, i)' => i # j
    BY <1>0, <1>5 DEF HeldJobs
  <2>2. \A i \in Jobs : i # j => \A v \in Workers : HeldBy(v, i) => v # w
    BY DEF HeldBy
  <2>3. \A i \in Jobs : i \in dispatching' <=> \E v \in Workers : HeldBy(v, i)'
    BY <1>0, <1>2, <1>5, <2>1, <2>2 DEF HeldJobs
  <2>4. QED
    BY <1>0, <1>2, <1>5, <1>6, <2>1, <2>3 DEF HeldJobs, ChildGone, TypeOK
<1>8. LooseJobs'
  BY <1>0, <1>2 DEF LooseJobs, TypeOK, Terminal
<1>9. RequestedEnds'
  BY <1>0, <1>2 DEF RequestedEnds, TypeOK
<1>10. HonestOutcome'
  BY <1>0, <1>2 DEF HonestOutcome, TypeOK
<1>11. CancelWins'
  BY <1>0, <1>2 DEF CancelWins, TypeOK
<1>12. CancelTargets'
  BY <1>0, <1>2 DEF JobInv, CancelTargets, Targets, Taken, TypeOK
<1>13. QED
  BY <1>3, <1>4, <1>7, <1>8, <1>9, <1>10, <1>11, <1>12 DEF JobInv

-----------------------------------------------------------------------------
(* The actions, one lemma for each family.                                 *)

(* the type-correctness of what ending waiting jobs leaves behind          *)
LEMMA EndWaitingType ==
  ASSUME TypeOK, NEW D \in SUBSET Jobs,
         NEW outcome \in [D -> {"FAILED", "CANCELED"}],
         state' = [j \in Jobs |-> IF j \in D THEN outcome[j] ELSE state[j]],
         sync' = sync \/ sync' = Woken,
         NEW S, Dequeue(S)
  PROVE  /\ state' \in [Jobs -> {"NEW", "QUEUED", "RUNNING"} \cup Terminal]
         /\ sync' \in [Jobs -> {"idle", "checking", "asleep", "returned"}]
         /\ queue' \subseteq Jobs /\ ahead' \subseteq queue' \X queue'
<1>1. state' \in [Jobs -> {"NEW", "QUEUED", "RUNNING"} \cup Terminal]
  BY DEF TypeOK, Terminal
<1>2. sync' \in [Jobs -> {"idle", "checking", "asleep", "returned"}]
  BY WokenType DEF TypeOK
<1>3. QED
  BY <1>1, <1>2, DequeueType

(* Clean, SubmitRegistryFull and ExpireAndWait only end expired jobs.      *)
LEMMA ExpiryInv ==
  ASSUME JobInv, NEW E \in SUBSET queue, NEW T,
         \/ Clean(E, T)
         \/ \E j \in Jobs : SubmitRegistryFull(j, E, T)
         \/ \E w \in Workers : ExpireAndWait(w, E) \/ WorkerExits(w, E)
         \/ \E c \in Cancellers, j \in Jobs : CancelActive(c, j, E, T)
  PROVE  JobInv'
<1> DEFINE outcome == All(E, "FAILED")
<1> USE DEF requestVars, killVars, brokerVars
<1>0. TypeOK
  BY DEF JobInv
<1>1. /\ FinishLocked(outcome) /\ Dequeue(E)
      /\ UNCHANGED <<cancelRequested, reason, remoteUnknown,
                     terminationStarted, terminations, os, signal,
                     effective, paused, closed, reconnect>>
  BY DEF Clean, SubmitRegistryFull, ExpireAndWait, WorkerExits, CancelActive
<1>2. outcome \in [E -> {"FAILED", "CANCELED"}] /\ DOMAIN outcome = E
  BY DEF All
<1>3. /\ state' = [j \in Jobs |-> IF j \in E THEN outcome[j] ELSE state[j]]
      /\ UNCHANGED <<process, dispatching, runningCount>>
      /\ sync' = sync \/ sync' = Woken
  BY <1>1, <1>2, FinishWaiting
<1>4. registry' \subseteq Jobs
  BY <1>0, CleanedType DEF Clean, SubmitRegistryFull, ExpireAndWait,
     WorkerExits, CancelActive, TypeOK
<1>5. /\ worker' \in [Workers -> [pc : Holding \cup {"take", "exited"},
                                  job : Jobs \cup {NoJob}]]
      /\ \A w \in Workers :
           worker[w].pc \in Holding \/ worker'[w].pc \in Holding =>
             worker'[w] = worker[w]
  BY <1>0 DEF Clean, SubmitRegistryFull, ExpireAndWait, WorkerExits,
              CancelActive, Goto, TypeOK, Holding
<1>6. canceller' \in [Cancellers -> [pc : {"idle", "poll", "ended", "mark", "await"},
                                     job : Jobs \cup {NoJob}]]
  BY <1>0 DEF Clean, SubmitRegistryFull, ExpireAndWait, WorkerExits,
              CancelActive, CancelGoto, TypeOK
<1>7. TypeOK'
  <2>1. E \in SUBSET Jobs
    BY <1>0 DEF TypeOK
  <2>2. /\ state' \in [Jobs -> {"NEW", "QUEUED", "RUNNING"} \cup Terminal]
        /\ sync' \in [Jobs -> {"idle", "checking", "asleep", "returned"}]
        /\ queue' \subseteq Jobs /\ ahead' \subseteq queue' \X queue'
    BY <1>0, <1>1, <1>2, <1>3, <2>1, EndWaitingType
  <2>3. QED
    BY <1>0, <1>1, <1>3, <1>4, <1>5, <1>6, <2>2 DEF TypeOK
<1>8. queue' = queue \ E
  BY <1>1 DEF Dequeue
<1>9. \A c \in Cancellers, i \in Jobs : Targets(c, i)' => Taken(i)
  <2>1. CASE UNCHANGED canceller
    BY <2>1 DEF Targets, JobInv, CancelTargets
  <2>2. ASSUME NEW c \in Cancellers, NEW j \in Jobs, CancelActive(c, j, E, T)
        PROVE  \A b \in Cancellers, i \in Jobs : Targets(b, i)' => Taken(i)
    <3>1. Taken(j)
      BY <2>2 DEF CancelActive, Taken, JobInv, LooseJobs, Accepted, TypeOK,
                  QueueExact
    <3>2. \A b \in Cancellers : b # c => canceller'[b] = canceller[b]
      BY <1>0, <2>2 DEF CancelActive, CancelGoto, TypeOK
    <3>3. canceller'[c].job = j
      BY <1>0, <2>2 DEF CancelActive, CancelGoto, TypeOK
    <3>4. QED
      BY <3>1, <3>2, <3>3 DEF Targets, JobInv, CancelTargets
  <2>3. QED
    BY <2>1, <2>2 DEF Clean, SubmitRegistryFull, ExpireAndWait, WorkerExits
<1>10. QED
  BY <1>1, <1>2, <1>3, <1>5, <1>7, <1>8, <1>9, EndWaiting

(* A cancel that finds its job in the deque.                               *)
LEMMA CancelQueuedInv ==
  ASSUME JobInv, NEW E \in SUBSET queue, NEW T, NEW c, NEW j \in Jobs,
         CancelQueued(c, j, E, T)
  PROVE  JobInv'
<1> DEFINE D == E \cup {j}
           outcome == [i \in D |-> IF i = j THEN "CANCELED" ELSE "FAILED"]
<1>0. TypeOK
  BY DEF JobInv
<1>1. /\ FinishLocked(outcome) /\ Dequeue(D) /\ j \notin E
      /\ D \in SUBSET queue
  BY DEF CancelQueued
<1>2. outcome \in [D -> {"FAILED", "CANCELED"}] /\ DOMAIN outcome = D
  OBVIOUS
<1>3. /\ state' = [i \in Jobs |-> IF i \in D THEN outcome[i] ELSE state[i]]
      /\ UNCHANGED <<process, dispatching, runningCount>>
      /\ sync' = sync \/ sync' = Woken
  BY <1>1, <1>2, FinishWaiting
<1> HIDE DEF outcome
<1>4. registry' \subseteq Jobs
  BY <1>0, CleanedType DEF CancelQueued
<1>5. TypeOK'
  <2>1. D \in SUBSET Jobs
    BY <1>0, <1>1 DEF TypeOK
  <2>2. /\ state' \in [Jobs -> {"NEW", "QUEUED", "RUNNING"} \cup Terminal]
        /\ sync' \in [Jobs -> {"idle", "checking", "asleep", "returned"}]
        /\ queue' \subseteq Jobs /\ ahead' \subseteq queue' \X queue'
    BY <1>0, <1>1, <1>2, <1>3, <2>1, EndWaitingType
  <2>3. QED
    BY <1>0, <1>3, <1>4, <2>2
    DEF CancelQueued, killVars, brokerVars, TypeOK
<1>6. outcome[j] = "CANCELED"
  BY DEF outcome
<1>7. cancelRequested' = cancelRequested \cup {j} /\ queue' = queue \ D
  BY <1>1 DEF CancelQueued, Dequeue
<1>8. UNCHANGED <<os, remoteUnknown, worker, reason, canceller>>
  BY DEF CancelQueued, killVars
<1>9. \A b \in Cancellers, i \in Jobs : Targets(b, i)' => Taken(i)
  BY <1>8 DEF Targets, JobInv, CancelTargets
<1>10. QED
  BY <1>1, <1>2, <1>3, <1>5, <1>6, <1>7, <1>8, <1>9, EndWaiting

(* A cancel that marks a job a worker holds.                               *)
LEMMA CancelMarkInv ==
  ASSUME JobInv, NEW c \in Cancellers, NEW j \in Jobs, CancelMark(c, j)
  PROVE  JobInv'
<1> DEFINE outcome == All({}, "FAILED")
<1> USE DEF storeVars, brokerVars
<1>0. TypeOK
  BY DEF JobInv
<1>1. outcome \in [{} -> {"FAILED", "CANCELED"}]
  BY DEF All
<1>2. j \in dispatching
  BY DEF JobInv, CancelTargets, Targets, Taken, CancelMark, CancelAt
<1>3. state' = [i \in Jobs |-> IF i \in {} THEN outcome[i] ELSE state[i]]
  BY <1>0 DEF CancelMark, TypeOK
<1>4. /\ UNCHANGED <<process, dispatching, runningCount, os, remoteUnknown,
                     queue, worker>>
      /\ cancelRequested' = cancelRequested \cup {j}
      /\ reason' = [reason EXCEPT ![j] = "CANCELED"]
  BY DEF CancelMark
<1>5. /\ terminationStarted' \subseteq Jobs
      /\ terminations' \subseteq
           [by : Threads, job : Jobs, step : {"poll", "grace"}]
  <2>1. c \in Threads
    BY DEF Threads
  <2>2. CASE Claim(c, j)
    BY <1>0, <2>1, <2>2 DEF Claim, TypeOK
  <2>3. CASE NoClaim
    BY <1>0, <2>3 DEF NoClaim, TypeOK
  <2>4. QED
    BY <2>2, <2>3 DEF CancelMark
<1>6. TypeOK'
  BY <1>0, <1>4, <1>5, WokenType DEF CancelMark, CancelGoto, TypeOK
<1>7. /\ \A i \in cancelRequested' : i \in cancelRequested
           \/ (i \in dispatching /\ reason'[i] = "CANCELED")
      /\ \A i \in Jobs : reason'[i] \in {reason[i], "CANCELED"}
  BY <1>0, <1>2, <1>4 DEF TypeOK
<1>8. \A b \in Cancellers, i \in Jobs : Targets(b, i)' => Taken(i)
  <2>1. \A b \in Cancellers : b # c => canceller'[b] = canceller[b]
    BY <1>0 DEF CancelMark, CancelGoto, TypeOK
  <2>2. canceller'[c].job = j
    BY <1>0 DEF CancelMark, CancelGoto, TypeOK
  <2>3. QED
    BY <1>2, <2>1, <2>2 DEF Targets, Taken, JobInv, CancelTargets
<1>9. QED
  BY <1>1, <1>3, <1>4, <1>6, <1>7, <1>8, EndWaiting

(* The jobs a failed reconnect ends.                                       *)
LEMMA FailQueuedInv ==
  ASSUME JobInv, FailQueued
  PROVE  JobInv'
<1> DEFINE outcome == All(queue, "FAILED")
<1> USE DEF requestVars, killVars
<1>0. TypeOK /\ queue \in SUBSET Jobs
  BY DEF JobInv, TypeOK
<1>1. FinishLocked(outcome) /\ Dequeue(queue)
  BY DEF FailQueued
<1>2. outcome \in [queue -> {"FAILED", "CANCELED"}] /\ DOMAIN outcome = queue
  BY DEF All
<1>3. /\ state' = [j \in Jobs |-> IF j \in queue THEN outcome[j] ELSE state[j]]
      /\ UNCHANGED <<process, dispatching, runningCount>>
      /\ sync' = sync \/ sync' = Woken
  BY <1>1, <1>2, FinishWaiting
<1>4. TypeOK'
  <2>1. /\ state' \in [Jobs -> {"NEW", "QUEUED", "RUNNING"} \cup Terminal]
        /\ sync' \in [Jobs -> {"idle", "checking", "asleep", "returned"}]
        /\ queue' \subseteq Jobs /\ ahead' \subseteq queue' \X queue'
    BY <1>0, <1>1, <1>2, <1>3, EndWaitingType
  <2>2. QED
    BY <1>0, <1>3, <2>1 DEF FailQueued, TypeOK
<1>5. queue' = queue \ queue
  BY <1>1 DEF Dequeue
<1>6. UNCHANGED <<os, remoteUnknown, worker, reason, cancelRequested,
                  canceller>>
  BY DEF FailQueued
<1>7. \A c \in Cancellers, i \in Jobs : Targets(c, i)' => Taken(i)
  BY <1>6 DEF Targets, JobInv, CancelTargets
<1>8. QED
  BY <1>2, <1>3, <1>4, <1>5, <1>6, <1>7, EndWaiting

(* close ends the waiting jobs and asks for the end of the held ones.      *)
LEMMA CloseInv ==
  ASSUME JobInv, Close
  PROVE  JobInv'
<1> DEFINE outcome == All(queue, "CANCELED")
           mine == {j \in registry : \/ state[j] = "QUEUED" /\ j \in dispatching
                                     \/ state[j] = "RUNNING"}
           claimed == {j \in mine : /\ state[j] = "RUNNING" /\ j \in process
                                    /\ j \notin terminationStarted}
<1>0. TypeOK /\ queue \in SUBSET Jobs
  BY DEF JobInv, TypeOK
<1>1. /\ FinishLocked(outcome) /\ Dequeue(queue)
      /\ cancelRequested' = cancelRequested \cup queue \cup mine
      /\ reason' = [j \in Jobs |-> IF j \in mine THEN "CANCELED" ELSE reason[j]]
      /\ terminationStarted' = terminationStarted \cup claimed
      /\ terminations' = terminations \cup
            {[by |-> "close", job |-> j, step |-> "poll"] : j \in claimed}
      /\ UNCHANGED <<remoteUnknown, os, signal, registry, effective, worker,
                     canceller, reconnect>>
      /\ closed' = TRUE /\ paused' = TRUE
  BY DEF Close
<1>2. outcome \in [queue -> {"FAILED", "CANCELED"}] /\ DOMAIN outcome = queue
  BY DEF All
<1>3. /\ state' = [j \in Jobs |-> IF j \in queue THEN outcome[j] ELSE state[j]]
      /\ UNCHANGED <<process, dispatching, runningCount>>
      /\ sync' = sync \/ sync' = Woken
  BY <1>1, <1>2, FinishWaiting
<1>4. mine \subseteq dispatching /\ mine \subseteq Jobs /\ claimed \subseteq Jobs
  BY <1>0 DEF JobInv, LooseJobs, TypeOK, Terminal
<1> HIDE DEF mine, claimed
<1>5. TypeOK'
  <2>1. /\ state' \in [Jobs -> {"NEW", "QUEUED", "RUNNING"} \cup Terminal]
        /\ sync' \in [Jobs -> {"idle", "checking", "asleep", "returned"}]
        /\ queue' \subseteq Jobs /\ ahead' \subseteq queue' \X queue'
    BY <1>0, <1>1, <1>2, <1>3, EndWaitingType
  <2>2. {[by |-> "close", job |-> j, step |-> "poll"] : j \in claimed}
          \subseteq [by : Threads, job : Jobs, step : {"poll", "grace"}]
    BY <1>4 DEF Threads
  <2>3. /\ reason' \in [Jobs -> {"NONE", "CANCELED", "TIMED_OUT"}]
        /\ cancelRequested' \subseteq Jobs /\ terminationStarted' \subseteq Jobs
    BY <1>0, <1>1, <1>4 DEF TypeOK
  <2>4. QED
    BY <1>0, <1>1, <1>3, <2>1, <2>2, <2>3 DEF TypeOK
<1>6. /\ \A j \in cancelRequested' :
           \/ j \in cancelRequested
           \/ j \in queue /\ outcome[j] = "CANCELED"
           \/ j \in dispatching /\ reason'[j] = "CANCELED"
      /\ \A j \in Jobs : reason'[j] \in {reason[j], "CANCELED"}
  BY <1>1, <1>4 DEF All
<1>7. queue' = queue \ queue
  BY <1>1 DEF Dequeue
<1>8. \A c \in Cancellers, i \in Jobs : Targets(c, i)' => Taken(i)
  BY <1>1 DEF Targets, JobInv, CancelTargets
<1> HIDE DEF outcome
<1>9. QED
  BY <1>1, <1>2, <1>3, <1>5, <1>6, <1>7, <1>8, EndWaiting

(* a new job joins the deque while expired ones leave it                   *)
LEMMA SubmitInv ==
  ASSUME JobInv, NEW j \in Jobs, NEW E \in SUBSET queue, NEW T, Submit(j, E, T)
  PROVE  JobInv'
<1> USE DEF requestVars, killVars, brokerVars
<1>0. /\ TypeOK /\ RunningExact /\ QueueExact /\ HeldJobs /\ LooseJobs
      /\ CancelTargets /\ RequestedEnds /\ HonestOutcome /\ CancelWins
  BY DEF JobInv
<1>1. /\ state' = [i \in Jobs |-> IF i = j THEN "QUEUED"
                                  ELSE IF i \in E THEN "FAILED" ELSE state[i]]
      /\ queue' = (queue \ E) \cup {j}
      /\ ahead' = {p \in ahead : p[1] \notin E /\ p[2] \notin E}
                    \cup ((queue \ E) \X {j})
      /\ state[j] = "NEW"
      /\ UNCHANGED <<dispatching, process, runningCount, cancelRequested, reason,
                     remoteUnknown, os, worker, canceller>>
  BY DEF Submit
<1>2. j \notin dispatching /\ j \notin queue /\ j \notin cancelRequested
  BY <1>0, <1>1 DEF HeldJobs, QueueExact, RequestedEnds, Terminal
<1>3. \A i \in E : i \in Jobs /\ state[i] = "QUEUED" /\ i \notin dispatching
  BY <1>0 DEF QueueExact, TypeOK
<1>4. TypeOK'
  <2>1. registry' \subseteq Jobs
    BY <1>0, CleanedType DEF Submit
  <2>2. sync' \in [Jobs -> {"idle", "checking", "asleep", "returned"}]
    BY <1>0, WokenType DEF Submit
  <2>3. queue' \subseteq Jobs /\ ahead' \subseteq queue' \X queue'
    BY <1>0, <1>1 DEF TypeOK
  <2>4. state' \in [Jobs -> {"NEW", "QUEUED", "RUNNING"} \cup Terminal]
    BY <1>0, <1>1 DEF TypeOK, Terminal
  <2>5. QED
    BY <1>0, <2>1, <2>2, <2>3, <2>4 DEF Submit, TypeOK
<1>5. RunningExact'
  BY <1>0, <1>1 DEF RunningExact, MaxConcurrency
<1>6. QueueExact'
  BY <1>0, <1>1, <1>2 DEF QueueExact
<1>7. HeldJobs'
  <2>1. \A w \in Workers, i \in Jobs : HeldBy(w, i) => state'[i] = state[i]
    BY <1>0, <1>1, <1>2, <1>3 DEF HeldJobs
  <2>2. QED
    BY <1>0, <1>1, <2>1 DEF HeldJobs, HeldBy, ChildGone
<1>8. LooseJobs'
  BY <1>0, <1>1, <1>3 DEF LooseJobs, Terminal
<1>9. CancelTargets'
  <2>1. \A i \in Jobs : Taken(i) => i # j /\ i \notin E
    BY <1>0, <1>1, <1>2, <1>3 DEF Taken, Terminal
  <2>2. QED
    BY <1>0, <1>1, <2>1 DEF CancelTargets, Targets, Taken
<1>10. RequestedEnds'
  BY <1>0, <1>1, <1>2, <1>3 DEF RequestedEnds, Terminal, TypeOK
<1>11. HonestOutcome'
  BY <1>0, <1>1, <1>3 DEF HonestOutcome, LooseJobs, Terminal
<1>12. CancelWins'
  <2>1. \A i \in cancelRequested : i \in Jobs /\ i # j /\ i \notin E
    BY <1>0, <1>2, <1>3 DEF RequestedEnds, Terminal, TypeOK
  <2>2. QED
    BY <1>0, <1>1, <2>1 DEF CancelWins
<1>13. QED
  BY <1>4, <1>5, <1>6, <1>7, <1>8, <1>9, <1>10, <1>11, <1>12 DEF JobInv

(* a worker takes the head of the deque                                    *)
LEMMA TakeJobInv ==
  ASSUME JobInv, NEW w \in Workers, NEW j \in Jobs, NEW E \in SUBSET queue,
         TakeJob(w, j, E)
  PROVE  JobInv'
<1> USE DEF requestVars, killVars, brokerVars
<1>0. /\ TypeOK /\ RunningExact /\ QueueExact /\ HeldJobs /\ LooseJobs
      /\ CancelTargets /\ RequestedEnds /\ HonestOutcome /\ CancelWins
  BY DEF JobInv
<1>1. /\ j \in queue \ E /\ state[j] = "QUEUED" /\ j \notin dispatching
      /\ worker[w].pc = "take" /\ runningCount < effective
  BY <1>0 DEF TakeJob, IsHead, QueueExact, Blocked, TypeOK
<1>2. /\ state' = [i \in Jobs |-> IF i \in E THEN "FAILED" ELSE state[i]]
      /\ queue' = queue \ (E \cup {j})
      /\ dispatching' = dispatching \cup {j}
      /\ runningCount' = runningCount + 1
      /\ worker' = [worker EXCEPT ![w] = [pc |-> "prepare", job |-> j]]
      /\ UNCHANGED <<process, cancelRequested, reason, remoteUnknown, os,
                     canceller>>
  BY <1>1 DEF TakeJob, Dequeue, Goto
<1>3. \A i \in E : i \in Jobs /\ state[i] = "QUEUED" /\ i \notin dispatching
  BY <1>0 DEF QueueExact, TypeOK
<1>4. TypeOK'
  <2>1. sync' \in [Jobs -> {"idle", "checking", "asleep", "returned"}]
    BY <1>0, WokenType DEF TakeJob, TypeOK
  <2>2. queue' \subseteq Jobs /\ ahead' \subseteq queue' \X queue'
    BY <1>0, DequeueType DEF TakeJob
  <2>3. state' \in [Jobs -> {"NEW", "QUEUED", "RUNNING"} \cup Terminal]
    BY <1>0, <1>2 DEF TypeOK, Terminal
  <2>4. worker' \in [Workers -> [pc : Holding \cup {"take", "exited"},
                                job : Jobs \cup {NoJob}]]
    BY <1>0, <1>2 DEF TypeOK, Holding
  <2>5. QED
    BY <1>0, <1>1, <1>2, <2>1, <2>2, <2>3, <2>4 DEF TakeJob, TypeOK
<1>5. RunningExact'
  <2>1. Cardinality(dispatching \cup {j}) = Cardinality(dispatching) + 1
    BY <1>0, <1>1, DispatchingFinite, FS_AddElement
  <2>2. Cardinality(dispatching') = runningCount'
    BY <1>0, <1>2, <2>1 DEF RunningExact
  <2>3. runningCount' <= MaxConcurrency
    BY <1>0, <1>1, <1>2, MaxConcurrencyType DEF TypeOK
  <2>4. QED
    BY <2>2, <2>3 DEF RunningExact, MaxConcurrency
<1>6. QueueExact'
  BY <1>0, <1>1, <1>2, <1>3 DEF QueueExact
<1>7. /\ \A v \in Workers : v # w => worker'[v] = worker[v]
      /\ worker'[w] = [pc |-> "prepare", job |-> j]
  BY <1>0, <1>2 DEF TypeOK
<1>8. \A v \in Workers, i \in Jobs :
        HeldBy(v, i)' <=> HeldBy(v, i) \/ (v = w /\ i = j)
  BY <1>1, <1>7 DEF HeldBy, Holding
<1>9. HeldJobs'
  <2>1. \A v \in Workers, i \in Jobs :
          HeldBy(v, i) => v # w /\ i # j /\ i \notin E
    BY <1>0, <1>1, <1>3 DEF HeldJobs, HeldBy, Holding
  <2>2. \A i \in Jobs : i \in dispatching' <=> \E v \in Workers : HeldBy(v, i)'
    BY <1>0, <1>2, <1>8 DEF HeldJobs
  <2>3. \A u, v \in Workers, i \in Jobs : HeldBy(u, i)' /\ HeldBy(v, i)' => u = v
    BY <1>0, <1>8, <2>1 DEF HeldJobs
  <2>4. ASSUME NEW v \in Workers, NEW i \in Jobs, HeldBy(v, i)'
        PROVE  /\ state'[i] = IF worker'[v].pc = "prepare" THEN "QUEUED"
                              ELSE "RUNNING"
               /\ os'[i] = "none" <=> worker'[v].pc \in {"prepare", "spawn"}
               /\ i \in process'
                    <=> worker'[v].pc \in {"monitor", "decide", "finish"}
               /\ worker'[v].pc = "finish" => ChildGone(i)'
    <3>1. CASE HeldBy(v, i)
      BY <1>0, <1>2, <1>7, <2>1, <3>1 DEF HeldJobs, ChildGone
    <3>2. CASE v = w /\ i = j
      BY <1>0, <1>1, <1>2, <1>3, <1>7, <3>2 DEF LooseJobs
    <3>3. QED
      BY <1>8, <2>4, <3>1, <3>2
  <2>5. QED
    BY <2>2, <2>3, <2>4 DEF HeldJobs
<1>10. LooseJobs'
  BY <1>0, <1>2, <1>3 DEF LooseJobs, Terminal
<1>11. CancelTargets'
  <2>1. \A i \in Jobs : Taken(i) => i \notin E
    BY <1>3 DEF Taken, Terminal
  <2>2. QED
    BY <1>0, <1>2, <2>1 DEF CancelTargets, Targets, Taken
<1>12. RequestedEnds'
  BY <1>0, <1>2, <1>3 DEF RequestedEnds, Terminal, TypeOK
<1>13. HonestOutcome'
  BY <1>0, <1>2, <1>3 DEF HonestOutcome, LooseJobs, Terminal
<1>14. CancelWins'
  <2>1. \A i \in cancelRequested : i \in Jobs /\ i \notin E
    BY <1>0, <1>3 DEF RequestedEnds, Terminal, TypeOK
  <2>2. QED
    BY <1>0, <1>2, <2>1 DEF CancelWins
<1>15. QED
  BY <1>4, <1>5, <1>6, <1>9, <1>10, <1>11, <1>12, <1>13, <1>14 DEF JobInv

(* the steps at which a worker gives its job back                          *)
LEMMA WorkerEndsInv ==
  ASSUME JobInv, NEW w \in Workers, NEW j \in Jobs,
         \/ PrepareFails(w, j)
         \/ /\ \E allowed \in {1, MaxConcurrency} : BeginRun(w, j, allowed)
            /\ closed \/ j \in cancelRequested
         \/ SpawnFails(w, j)
         \/ FinishRun(w, j)
  PROVE  JobInv'
<1> DEFINE st == IF worker[w].pc = "prepare"
                 THEN IF j \in cancelRequested \/ closed THEN "CANCELED"
                      ELSE "FAILED"
                 ELSE IF worker[w].pc = "spawn" THEN "FAILED"
                 ELSE IF reason[j] # "NONE" THEN reason[j]
                 ELSE IF os[j] = "sshlost" THEN "FAILED" ELSE "EXITED"
<1> USE DEF requestVars, killVars, storeVars, brokerVars
<1>0. TypeOK /\ HeldJobs /\ LooseJobs /\ RequestedEnds
  BY DEF JobInv
<1>1. HeldBy(w, j) /\ worker[w].pc \in {"prepare", "spawn", "finish"}
  BY DEF PrepareFails, BeginRun, SpawnFails, FinishRun, At, HeldBy, Holding
<1>2. FinishLocked(All({j}, st))
  BY DEF PrepareFails, BeginRun, SpawnFails, FinishRun, At
<1>3. worker' = [worker EXCEPT ![w] = [pc |-> "take", job |-> NoJob]]
  BY DEF PrepareFails, BeginRun, SpawnFails, FinishRun, Goto
<1>4. UNCHANGED <<queue, ahead, registry, os, signal, cancelRequested, reason,
                  canceller, terminationStarted, terminations, paused, closed,
                  reconnect>>
  BY DEF PrepareFails, BeginRun, SpawnFails, FinishRun
<1>5. st \in Terminal
  BY <1>0 DEF Terminal, TypeOK
<1>6. j \in dispatching /\ state[j] \notin Terminal /\ j \notin remoteUnknown
  BY <1>0, <1>1 DEF HeldJobs, RequestedEnds, Terminal
<1>7. /\ state' = [state EXCEPT ![j] = st]
      /\ process' = process \ {j} /\ dispatching' = dispatching \ {j}
      /\ runningCount' \in Nat /\ sync' = Woken
  BY <1>2, <1>6, FinishHeld
<1>8. remoteUnknown' = IF worker[w].pc = "finish" /\ reason[j] # "NONE"
                       THEN remoteUnknown \cup {j} ELSE remoteUnknown
  BY DEF PrepareFails, BeginRun, SpawnFails, FinishRun, At
<1>9. effective' \in 1..MaxConcurrency
  BY <1>0, EffectiveType DEF PrepareFails, BeginRun, SpawnFails, FinishRun, TypeOK
<1>10. TypeOK'
  <2>1. sync' \in [Jobs -> {"idle", "checking", "asleep", "returned"}]
    BY <1>0, <1>7, WokenType
  <2>2. worker' \in [Workers -> [pc : Holding \cup {"take", "exited"},
                                job : Jobs \cup {NoJob}]]
    BY <1>0, <1>3 DEF TypeOK
  <2>3. state' \in [Jobs -> {"NEW", "QUEUED", "RUNNING"} \cup Terminal]
    BY <1>0, <1>5, <1>7 DEF TypeOK
  <2>4. remoteUnknown' \subseteq Jobs
    BY <1>0, <1>8 DEF TypeOK
  <2>5. QED
    BY <1>0, <1>4, <1>7, <1>9, <2>1, <2>2, <2>3, <2>4, Zenon DEF TypeOK
<1>11. os[j] # "running" /\ (worker[w].pc # "finish" <=> os[j] = "none")
  BY <1>0, <1>1 DEF HeldJobs, ChildGone
<1>12. j \in cancelRequested => reason[j] = "CANCELED"
  BY <1>0, <1>6 DEF RequestedEnds
<1>13. /\ st \in {"CANCELED", "TIMED_OUT"} =>
            (os[j] # "none" <=> j \in remoteUnknown')
       /\ st = "EXITED" => os[j] # "none"
       /\ st = "FAILED" => os[j] \in {"none", "sshlost"}
       /\ j \in cancelRequested =>
            st = "CANCELED" \/ (st = "FAILED" /\ os[j] = "none")
  BY <1>0, <1>1, <1>6, <1>8, <1>11, <1>12 DEF TypeOK
<1>14. remoteUnknown' \in {remoteUnknown, remoteUnknown \cup {j}}
  BY <1>8
<1> HIDE DEF st
<1>15. QED
  BY <1>1, <1>2, <1>3, <1>4, <1>5, <1>10, <1>11, <1>13, <1>14, HeldEnds

(* the steps at which a worker keeps its job                               *)
LEMMA WorkerMovesInv ==
  ASSUME JobInv, NEW w \in Workers, NEW j \in Jobs,
         \/ /\ \E allowed \in {1, MaxConcurrency} : BeginRun(w, j, allowed)
            /\ ~(closed \/ j \in cancelRequested)
         \/ Spawn(w, j)
         \/ RegisterProcess(w, j)
         \/ MonitorPoll(w, j)
         \/ \E timedOut \in BOOLEAN : MonitorDecide(w, j, timedOut)
  PROVE  JobInv'
<1> DEFINE pc == worker[w].pc
           label == IF pc = "prepare" THEN "spawn"
                    ELSE IF pc = "spawn" THEN "register"
                    ELSE IF pc \in {"register", "decide"} THEN "monitor"
                    ELSE IF ChildGone(j) THEN "finish" ELSE "decide"
<1> USE DEF requestVars, killVars, storeVars, brokerVars, jobVars
<1>0. TypeOK /\ HeldJobs /\ LooseJobs /\ RequestedEnds
  BY DEF JobInv
<1>1. /\ HeldBy(w, j)
      /\ pc \in {"prepare", "spawn", "register", "monitor", "decide"}
  BY DEF BeginRun, Spawn, RegisterProcess, MonitorPoll, MonitorDecide, At,
         HeldBy, Holding
<1>2. worker' = [worker EXCEPT ![w] = [pc |-> label, job |-> j]]
  BY DEF BeginRun, Spawn, RegisterProcess, MonitorPoll, MonitorDecide, At, Goto
<1>3. UNCHANGED <<queue, ahead, registry, signal, cancelRequested, canceller,
                  dispatching, runningCount, remoteUnknown, paused, closed,
                  reconnect>>
  BY DEF BeginRun, Spawn, RegisterProcess, MonitorPoll, MonitorDecide
<1>4. /\ state' = [state EXCEPT ![j] = "RUNNING"]
      /\ process' = IF pc = "register" THEN process \cup {j} ELSE process
      /\ os' = IF pc = "spawn" THEN [os EXCEPT ![j] = "running"] ELSE os
  <2>1. pc # "prepare" => state = [state EXCEPT ![j] = "RUNNING"]
    BY <1>0, <1>1 DEF HeldJobs, TypeOK
  <2>2. QED
    BY <2>1 DEF BeginRun, Spawn, RegisterProcess, MonitorPoll, MonitorDecide, At
<1>5. /\ \A i \in Jobs \ {j} : reason'[i] = reason[i]
      /\ reason[j] # "NONE" => reason'[j] = reason[j]
      /\ reason' \in [Jobs -> {"NONE", "CANCELED", "TIMED_OUT"}]
  BY <1>0 DEF BeginRun, Spawn, RegisterProcess, MonitorPoll, MonitorDecide,
              TypeOK
<1>6. \A i \in cancelRequested : reason'[i] = reason[i]
  <2>1. j \in cancelRequested => reason[j] = "CANCELED"
    BY <1>0, <1>1 DEF HeldJobs, RequestedEnds, Terminal
  <2>2. QED
    BY <1>0, <1>5, <2>1 DEF TypeOK
<1>7. label \in Holding \ {"prepare"}
  BY <1>1 DEF Holding
<1>8. TypeOK'
  <2>1. w \in Threads
    BY DEF Threads
  <2>2. /\ terminationStarted' \subseteq Jobs
        /\ terminations' \subseteq
             [by : Threads, job : Jobs, step : {"poll", "grace"}]
    BY <1>0, <2>1 DEF BeginRun, Spawn, RegisterProcess, MonitorPoll,
                      MonitorDecide, Claim, NoClaim, TypeOK
  <2>3. sync' \in [Jobs -> {"idle", "checking", "asleep", "returned"}]
    BY <1>0, WokenType DEF BeginRun, Spawn, RegisterProcess, MonitorPoll,
                           MonitorDecide, TypeOK
  <2>4. effective' \in 1..MaxConcurrency
    BY <1>0, EffectiveType DEF BeginRun, Spawn, RegisterProcess, MonitorPoll,
                               MonitorDecide, TypeOK
  <2>5. /\ state' \in [Jobs -> {"NEW", "QUEUED", "RUNNING"} \cup Terminal]
        /\ process' \subseteq Jobs
        /\ os' \in [Jobs -> {"none", "running", "exited", "sshlost"}]
    BY <1>0, <1>4 DEF TypeOK
  <2>6. worker' \in [Workers -> [pc : Holding \cup {"take", "exited"},
                                job : Jobs \cup {NoJob}]]
    BY <1>0, <1>2, <1>7 DEF TypeOK
  <2>7. QED
    BY <1>0, <1>3, <1>5, <2>2, <2>3, <2>4, <2>5, <2>6, Zenon DEF TypeOK
<1>9. /\ \A i \in Jobs \ {j} :
           /\ state'[i] = state[i] /\ os'[i] = os[i]
           /\ i \in process' <=> i \in process
      /\ state'[j] = "RUNNING"
  BY <1>0, <1>4 DEF TypeOK
<1>10. /\ os'[j] = "none" <=> label = "spawn"
       /\ j \in process' <=> label \in {"monitor", "decide", "finish"}
       /\ label = "finish" => ChildGone(j)'
  BY <1>0, <1>1, <1>4 DEF HeldJobs, HeldBy, TypeOK, ChildGone
<1>11. UNCHANGED <<dispatching, runningCount, queue, cancelRequested,
                   remoteUnknown, canceller>>
  BY <1>3
<1>12. HeldBy(w, j)
  BY <1>1
<1> HIDE DEF label
<1>13. QED
  BY <1>2, <1>6, <1>7, <1>8, <1>9, <1>10, <1>11, <1>12, HeldMoves, Zenon

(* a child exits under the eyes of the worker that holds its job           *)
LEMMA ProcessExitsInv ==
  ASSUME JobInv, NEW j \in Jobs, NEW how \in {"exited", "sshlost"},
         ProcessExits(j, how)
  PROVE  JobInv'
<1> USE DEF requestVars, storeVars, brokerVars, jobVars
<1>0. /\ TypeOK /\ RunningExact /\ QueueExact /\ HeldJobs /\ LooseJobs
      /\ CancelTargets /\ RequestedEnds /\ HonestOutcome /\ CancelWins
  BY DEF JobInv
<1>1. /\ os' = [os EXCEPT ![j] = how] /\ os[j] = "running"
      /\ UNCHANGED <<state, dispatching, process, runningCount, queue, worker,
                     canceller, cancelRequested, reason, remoteUnknown>>
  BY DEF ProcessExits
<1>2. j \in dispatching /\ state[j] \notin Terminal
  BY <1>0, <1>1 DEF LooseJobs, HeldJobs, Terminal
<1>3. \A i \in Jobs : (os'[i] = "none" <=> os[i] = "none") /\ (i # j => os'[i] = os[i])
  BY <1>0, <1>1 DEF TypeOK
<1>4. TypeOK'
  BY <1>0, <1>1 DEF ProcessExits, TypeOK
<1>5. RunningExact' /\ QueueExact' /\ CancelTargets' /\ RequestedEnds'
  BY <1>0, <1>1 DEF RunningExact, MaxConcurrency, QueueExact, CancelTargets,
                    Targets, Taken, RequestedEnds
<1>6. HeldJobs'
  <2>1. \A i \in Jobs : ChildGone(i) => ChildGone(i)'
    BY <1>0, <1>1, <1>3 DEF ChildGone
  <2>2. QED
    BY <1>0, <1>1, <1>3, <2>1 DEF HeldJobs, HeldBy
<1>7. LooseJobs'
  BY <1>0, <1>1, <1>2, <1>3 DEF LooseJobs
<1>8. HonestOutcome' /\ CancelWins'
  BY <1>0, <1>1, <1>2, <1>3 DEF HonestOutcome, CancelWins, Terminal, TypeOK
<1>9. QED
  BY <1>4, <1>5, <1>6, <1>7, <1>8 DEF JobInv

-----------------------------------------------------------------------------
(* At first every job is new, the deque is empty and no worker holds one.  *)
LEMMA InitInv == Init => JobInv
<1> SUFFICES ASSUME Init PROVE JobInv
  OBVIOUS
<1>1. Cardinality(dispatching) = 0
  BY FS_EmptySet DEF Init
<1>2. TypeOK
  <2>1. /\ worker \in [Workers -> [pc : Holding \cup {"take", "exited"},
                                   job : Jobs \cup {NoJob}]]
        /\ canceller \in [Cancellers ->
                          [pc : {"idle", "poll", "ended", "mark", "await"},
                           job : Jobs \cup {NoJob}]]
    BY DEF Init
  <2>2. effective \in 1..MaxConcurrency
    BY MaxConcurrencyType DEF Init
  <2>3. QED
    BY <2>1, <2>2 DEF Init, TypeOK
<1>3. RunningExact
  BY <1>1, MaxConcurrencyType DEF Init, RunningExact
<1>4. QueueExact /\ CancelTargets /\ RequestedEnds /\ HonestOutcome /\ CancelWins
  BY DEF Init, QueueExact, CancelTargets, Targets, RequestedEnds,
         HonestOutcome, CancelWins, Terminal
<1>5. HeldJobs /\ LooseJobs
  BY DEF Init, HeldJobs, HeldBy, Holding, LooseJobs
<1>6. QED
  BY <1>2, <1>3, <1>4, <1>5 DEF JobInv

(* Every step keeps it: one case for each kind of step of Next.            *)
LEMMA NextInv == JobInv /\ [Next]_vars => JobInv'
<1> SUFFICES ASSUME JobInv, [Next]_vars PROVE JobInv'
  OBVIOUS
<1>1. ASSUME NEW E \in SUBSET queue, NEW T \in SUBSET Settled, Requests(E, T)
      PROVE  JobInv'
  BY <1>1, SubmitInv, ExpiryInv, CancelQueuedInv DEF Requests
<1>2. ASSUME NEW w \in Workers, WorkerStep(w) PROVE JobInv'
  <2>1. ASSUME NEW j \in Jobs, NEW allowed \in {1, MaxConcurrency},
               BeginRun(w, j, allowed)
        PROVE  JobInv'
    BY <2>1, WorkerEndsInv, WorkerMovesInv
  <2>2. ASSUME NEW j \in Jobs,
               PrepareFails(w, j) \/ SpawnFails(w, j) \/ FinishRun(w, j)
        PROVE  JobInv'
    BY <2>2, WorkerEndsInv
  <2>3. ASSUME NEW j \in Jobs,
               \/ Spawn(w, j) \/ RegisterProcess(w, j) \/ MonitorPoll(w, j)
               \/ \E timedOut \in BOOLEAN : MonitorDecide(w, j, timedOut)
        PROVE  JobInv'
    BY <2>3, WorkerMovesInv
  <2>4. QED
    BY <1>2, <2>1, <2>2, <2>3 DEF WorkerStep
<1>3. ASSUME NEW w \in Workers, NEW E \in SUBSET queue, LoopTurn(w, E)
      PROVE  JobInv'
  BY <1>3, ExpiryInv, TakeJobInv DEF LoopTurn
<1>4. ASSUME NEW j \in Jobs,
             \/ SyncSleep(j) \/ SyncReturn(j)
             \/ \E how \in {"exited", "sshlost"} : ProcessExits(j, how)
      PROVE  JobInv'
  BY <1>4, QuietSteps, ProcessExitsInv
<1>5. ASSUME NEW t \in terminations, TerminationStep(t) PROVE JobInv'
  BY <1>5, QuietSteps
<1>6. ASSUME NEW c \in Cancellers, CancelStep(c) PROVE JobInv'
  BY <1>6, QuietSteps, CancelMarkInv DEF CancelStep
<1>7. CASE BrokerCalls
  BY <1>7, QuietSteps, FailQueuedInv, CloseInv DEF BrokerCalls
<1>8. CASE UNCHANGED vars
  BY <1>8, QuietSteps
<1>9. QED
  BY <1>1, <1>2, <1>3, <1>4, <1>5, <1>6, <1>7, <1>8 DEF Next

(* The progress of every job, its process, its slot and the cancellations  *)
(* of it fit together in every reachable state of ExecJobManager.          *)
THEOREM Invariance == Spec => []JobInv
<1>1. Init => JobInv
  BY InitInv
<1>2. JobInv /\ [Next]_vars => JobInv'
  BY NextInv
<1>3. QED
  BY <1>1, <1>2, PTL DEF Spec

(* The manager's fields keep their types.                                  *)
THEOREM TypeCorrect == Spec => []TypeOK
<1>1. JobInv => TypeOK
  BY DEF JobInv
<1>2. QED
  BY <1>1, Invariance, PTL

(* _running_count counts exactly the dispatched jobs and never exceeds the *)
(* worker threads.                                                         *)
THEOREM SlotsAreExact == Spec => []RunningExact
<1>1. JobInv => RunningExact
  BY DEF JobInv
<1>2. QED
  BY <1>1, Invariance, PTL

(* The deque holds exactly the jobs that wait for a worker.                *)
THEOREM QueueIsExact == Spec => []QueueExact
<1>1. JobInv => QueueExact
  BY DEF JobInv
<1>2. QED
  BY <1>1, Invariance, PTL

(* A reported outcome is what happened to the command on the server.       *)
THEOREM OutcomesAreHonest == Spec => []HonestOutcome
<1>1. JobInv => HonestOutcome
  BY DEF JobInv
<1>2. QED
  BY <1>1, Invariance, PTL

(* An accepted cancel or close decides the outcome of a started job.       *)
THEOREM CancelDecides == Spec => []CancelWins
<1>1. JobInv => CancelWins
  BY DEF JobInv
<1>2. QED
  BY <1>1, Invariance, PTL

(* A job reported as over leaves no local ssh child behind: whoever ends   *)
(* it held it after its child had exited, or found it never started.       *)
THEOREM ChildrenAreReaped == Spec => []NoOrphanChild
<1>1. JobInv => NoOrphanChild
  <2> SUFFICES ASSUME JobInv, NEW j \in Jobs, state[j] \in Terminal
               PROVE  os[j] # "running" /\ j \notin process
    BY DEF NoOrphanChild
  <2>1. HeldJobs /\ LooseJobs
    BY DEF JobInv
  <2>2. j \notin dispatching
    BY <2>1 DEF HeldJobs, Terminal
  <2>3. QED
    BY <2>1, <2>2 DEF LooseJobs
<1>2. QED
  BY <1>1, Invariance, PTL

(* Once a job is over no step changes its state or its child: only expiry, *)
(* cancel, close and the worker that holds a job write to it, and none of  *)
(* them has a terminal job in hand.                                        *)
THEOREM NothingAfterTheEnd == Spec => TerminalIsFinal
<1>1. ASSUME JobInv, [Next]_vars, NEW j \in Jobs, state[j] \in Terminal
      PROVE  state'[j] = state[j] /\ os'[j] = os[j]
  <2> USE DEF jobVars, requestVars, killVars, storeVars, brokerVars
  <2>0. TypeOK /\ QueueExact /\ HeldJobs /\ LooseJobs
    BY <1>1 DEF JobInv
  <2>1. /\ j \notin dispatching /\ j \notin queue
        /\ os[j] # "running" /\ state[j] # "NEW"
        /\ \A w \in Workers : ~HeldBy(w, j)
    BY <1>1, <2>0 DEF HeldJobs, LooseJobs, QueueExact, Terminal
  <2>2. ASSUME NEW outcome, FinishLocked(outcome)
        PROVE  state'[j] = state[j]
    BY <1>1, <2>2 DEF FinishLocked, Unfinished
  <2>3. ASSUME NEW E \in SUBSET queue, NEW T, Requests(E, T)
        PROVE  state'[j] = state[j] /\ os'[j] = os[j]
    <3>1. ASSUME NEW i \in Jobs, Submit(i, E, T)
          PROVE  state'[j] = state[j] /\ os'[j] = os[j]
      BY <2>1, <3>1 DEF Submit
    <3>2. ASSUME NEW i \in Jobs,
                 \/ SubmitRegistryFull(i, E, T)
                 \/ \E c \in Cancellers : \/ CancelQueued(c, i, E, T)
                                          \/ CancelActive(c, i, E, T)
          PROVE  state'[j] = state[j] /\ os'[j] = os[j]
      BY <2>2, <3>2 DEF SubmitRegistryFull, CancelQueued, CancelActive
    <3>3. CASE Clean(E, T)
      BY <2>2, <3>3 DEF Clean
    <3>4. QED
      BY <2>3, <3>1, <3>2, <3>3 DEF Requests
  <2>4. ASSUME NEW w \in Workers, WorkerStep(w)
        PROVE  state'[j] = state[j] /\ os'[j] = os[j]
    <3>1. PICK i \in Jobs :
            \/ PrepareFails(w, i) \/ SpawnFails(w, i) \/ FinishRun(w, i)
            \/ \E allowed \in {1, MaxConcurrency} : BeginRun(w, i, allowed)
            \/ Spawn(w, i)
            \/ RegisterProcess(w, i) \/ MonitorPoll(w, i)
            \/ \E timedOut \in BOOLEAN : MonitorDecide(w, i, timedOut)
      BY <2>4 DEF WorkerStep
    <3>2. CASE PrepareFails(w, i) \/ SpawnFails(w, i) \/ FinishRun(w, i)
      BY <2>2, <3>2 DEF PrepareFails, SpawnFails, FinishRun
    <3>3. ASSUME NEW allowed \in {1, MaxConcurrency}, BeginRun(w, i, allowed)
          PROVE  state'[j] = state[j] /\ os'[j] = os[j]
      <4>1. i # j
        BY <2>1, <3>3 DEF BeginRun, At, HeldBy, Holding
      <4>2. UNCHANGED os
        BY <3>3 DEF BeginRun
      <4>3. CASE closed \/ i \in cancelRequested
        BY <2>2, <3>3, <4>2, <4>3 DEF BeginRun
      <4>4. CASE ~(closed \/ i \in cancelRequested)
        <5>1. state' = [state EXCEPT ![i] = "RUNNING"]
          BY <3>3, <4>4 DEF BeginRun
        <5>2. QED
          BY <2>0, <4>1, <4>2, <5>1 DEF TypeOK
      <4>5. QED
        BY <4>3, <4>4
    <3>4. CASE Spawn(w, i)
      <4>1. i # j
        BY <2>1, <3>4 DEF Spawn, At, HeldBy, Holding
      <4>2. QED
        BY <3>4, <4>1 DEF Spawn
    <3>5. CASE \/ RegisterProcess(w, i) \/ MonitorPoll(w, i)
               \/ \E timedOut \in BOOLEAN : MonitorDecide(w, i, timedOut)
      BY <3>5 DEF RegisterProcess, MonitorPoll, MonitorDecide
    <3>6. QED
      BY <3>1, <3>2, <3>3, <3>4, <3>5
  <2>5. ASSUME NEW w \in Workers, NEW E \in SUBSET queue, LoopTurn(w, E)
        PROVE  state'[j] = state[j] /\ os'[j] = os[j]
    <3>1. ASSUME NEW i \in Jobs, TakeJob(w, i, E)
          PROVE  state'[j] = state[j] /\ os'[j] = os[j]
      BY <2>1, <3>1 DEF TakeJob
    <3>2. CASE ExpireAndWait(w, E) \/ WorkerExits(w, E)
      BY <2>2, <3>2 DEF ExpireAndWait, WorkerExits
    <3>3. QED
      BY <2>5, <3>1, <3>2 DEF LoopTurn
  <2>6. ASSUME NEW i \in Jobs,
               \/ SyncSleep(i) \/ SyncReturn(i)
               \/ \E how \in {"exited", "sshlost"} : ProcessExits(i, how)
        PROVE  state'[j] = state[j] /\ os'[j] = os[j]
    <3>1. CASE SyncSleep(i) \/ SyncReturn(i)
      BY <3>1 DEF SyncSleep, SyncReturn
    <3>2. ASSUME NEW how \in {"exited", "sshlost"}, ProcessExits(i, how)
          PROVE  state'[j] = state[j] /\ os'[j] = os[j]
      <4>1. i # j /\ os' = [os EXCEPT ![i] = how] /\ UNCHANGED state
        BY <2>1, <3>2 DEF ProcessExits
      <4>2. QED
        BY <2>0, <4>1 DEF TypeOK
    <3>3. QED
      BY <2>6, <3>1, <3>2
  <2>7. ASSUME \/ \E t \in terminations : TerminationStep(t)
               \/ \E c \in Cancellers : CancelStep(c)
        PROVE  state'[j] = state[j] /\ os'[j] = os[j]
    BY <2>7 DEF TerminationStep, CancelStep, CancelPoll, CancelMark,
                CancelSeesEnd, CancelGivesUp
  <2>8. CASE BrokerCalls
    BY <2>2, <2>8 DEF BrokerCalls, PauseDispatch, FailQueued, ResumeDispatch,
                      SetEffective, Close
  <2>9. CASE UNCHANGED vars
    BY <2>9 DEF vars
  <2>10. QED
    BY <1>1, <2>3, <2>4, <2>5, <2>6, <2>7, <2>8, <2>9 DEF Next
<1>2. JobInv /\ [Next]_vars =>
        [\A j \in Jobs : state[j] \in Terminal =>
           state'[j] = state[j] /\ os'[j] = os[j]]_vars
  BY <1>1
<1>3. QED
  BY <1>2, Invariance, PTL DEF Spec, TerminalIsFinal

=============================================================================
