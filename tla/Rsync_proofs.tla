----------------------------- MODULE Rsync_proofs -----------------------------
(***************************************************************************)
(* Proofs about the rsync manager (Rsync): its inductive invariant         *)
(* TransferInv, and the properties that follow from it, for every set of   *)
(* jobs and cancellers and every queue and history limit.                  *)
(***************************************************************************)
EXTENDS Rsync, FiniteSetTheorems, SequenceTheorems, WellFoundedInduction, TLAPS

(***************************************************************************)
(* The queue.                                                              *)
(***************************************************************************)
(* The index of e, which a queue without repetitions holds once.           *)
LEMMA IndexOf ==
  ASSUME NEW S, NEW q \in Seq(S), IsInjective(q), NEW e,
         NEW i \in 1..Len(q), q[i] = e
  PROVE  RemoveFirst(q, e) = RemoveAt(q, i)
<1> DEFINE I == {k \in 1..Len(q) : q[k] = e}
<1>1. I = {i}
  BY DEF IsInjective
<1>2. Min(I) = i
  BY <1>1 DEF Min
<1>3. RemoveFirst(q, e) = RemoveAt(q, IF I # {} THEN Min(I) ELSE 0)
  BY DEF RemoveFirst, SelectInSeq
<1> QED BY <1>1, <1>2, <1>3

(* deque.remove takes one waiting job from the queue, and no other.        *)
LEMMA RemoveFromQueue ==
  ASSUME NEW S, NEW q \in Seq(S), IsInjective(q), NEW e
  PROVE  /\ RemoveFirst(q, e) \in Seq(S) /\ IsInjective(RemoveFirst(q, e))
         /\ Len(RemoveFirst(q, e)) <= Len(q)
         /\ ToSet(RemoveFirst(q, e)) = ToSet(q) \ {e}
<1>1. CASE ~\E i \in 1..Len(q) : q[i] = e
  BY <1>1 DEF RemoveFirst, ToSet
<1>2. ASSUME NEW i \in 1..Len(q), q[i] = e
      PROVE  /\ RemoveFirst(q, e) \in Seq(S) /\ IsInjective(RemoveFirst(q, e))
             /\ Len(RemoveFirst(q, e)) <= Len(q)
             /\ ToSet(RemoveFirst(q, e)) = ToSet(q) \ {e}
  <2> DEFINE s == SubSeq(q, 1, i - 1)
             t == SubSeq(q, i + 1, Len(q))
  <2>1. RemoveFirst(q, e) = s \o t
    BY <1>2, IndexOf DEF RemoveAt
  <2>2. /\ s \in Seq(S) /\ Len(s) = i - 1
        /\ \A k \in 1..i - 1 : s[k] = q[k]
    <3>1. \A k \in 1..i - 1 : q[k] \in S
      BY <1>2
    <3> QED BY <3>1, SubSeqProperties, 1 \in Int, i - 1 \in Int
  <2>3. /\ t \in Seq(S) /\ Len(t) = Len(q) - i
        /\ \A k \in 1..Len(q) - i : t[k] = q[i + k]
    BY <1>2, SubSeqProperties
  <2> DEFINE r == s \o t
  <2> HIDE DEF s, t
  <2>4. /\ r \in Seq(S) /\ Len(r) = Len(q) - 1
        /\ \A k \in 1..Len(q) - 1 : r[k] = IF k < i THEN q[k] ELSE q[k + 1]
    <3>1. /\ r \in Seq(S) /\ Len(r) = Len(s) + Len(t)
          /\ \A k \in 1..Len(s) + Len(t) :
               r[k] = IF k <= Len(s) THEN s[k] ELSE t[k - Len(s)]
      BY <2>2, <2>3, ConcatProperties
    <3> HIDE DEF r
    <3>2. Len(q) \in Nat
      OBVIOUS
    <3>3. ASSUME NEW k \in 1..Len(q) - 1
          PROVE  r[k] = IF k < i THEN q[k] ELSE q[k + 1]
      <4> k \in Nat /\ i \in Nat /\ k \in 1..Len(s) + Len(t)
        BY <2>2, <2>3, <3>2
      <4>1. CASE k < i
        <5>1. k <= Len(s) /\ k \in 1..i - 1
          BY <2>2, <4>1
        <5>2. r[k] = s[k] /\ s[k] = q[k]
          BY <2>2, <3>1, <5>1
        <5> QED BY <4>1, <5>2
      <4>2. CASE k >= i
        <5>1. r[k] = t[k - (i - 1)] /\ k - (i - 1) \in 1..Len(q) - i
          <6>1. ~(k <= Len(s)) /\ k - Len(s) = k - (i - 1)
            BY <2>2, <4>2
          <6> QED BY <2>3, <3>1, <3>2, <6>1
        <5>2. t[k - (i - 1)] = q[i + (k - (i - 1))] /\ i + (k - (i - 1)) = k + 1
          BY <2>3, <5>1
        <5> QED BY <4>2, <5>1, <5>2
      <4> QED BY <4>1, <4>2
    <3> QED BY <2>2, <2>3, <3>1, <3>2, <3>3
  <2> HIDE DEF r
  <2>5. IsInjective(r)
    <3>1. ASSUME NEW k \in 1..Len(r), NEW l \in 1..Len(r), r[k] = r[l] PROVE k = l
      <4> DEFINE m == IF k < i THEN k ELSE k + 1
                 n == IF l < i THEN l ELSE l + 1
      <4>1. m \in 1..Len(q) /\ r[k] = q[m]
        BY <2>4
      <4>2. n \in 1..Len(q) /\ r[l] = q[n]
        BY <2>4
      <4>3. m = n
        <5> HIDE DEF m, n
        <5>1. \A a, b \in 1..Len(q) : q[a] = q[b] => a = b
          BY DEF IsInjective
        <5>2. q[m] = q[n]
          BY <3>1, <4>1, <4>2
        <5> QED BY <4>1, <4>2, <5>1, <5>2
      <4> k \in Nat /\ l \in Nat /\ i \in Nat
        BY <2>4
      <4>4. k < i => m = k
        OBVIOUS
      <4>5. k >= i => m = k + 1
        OBVIOUS
      <4>6. l < i => n = l
        OBVIOUS
      <4>7. l >= i => n = l + 1
        OBVIOUS
      <4> HIDE DEF m, n
      <4> QED BY <4>3, <4>4, <4>5, <4>6, <4>7
    <3> QED BY <2>4, <3>1 DEF IsInjective
  <2>6. ToSet(r) \subseteq ToSet(q) \ {e}
    <3>1. ASSUME NEW k \in 1..Len(r) PROVE r[k] # e /\ r[k] \in ToSet(q)
      <4>1. PICK l \in 1..Len(q) : l # i /\ r[k] = q[l]
        BY <1>2, <2>4
      <4> QED BY <1>2, <4>1 DEF IsInjective, ToSet
    <3> QED BY <2>4, <3>1 DEF ToSet
  <2>7. ASSUME NEW k \in 1..Len(q), q[k] # e PROVE \E l \in 1..Len(r) : r[l] = q[k]
    <3>1. CASE k < i
      BY <2>4, <3>1
    <3>2. CASE k > i
      <4>1. k - 1 \in 1..Len(r) /\ r[k - 1] = q[k]
        BY <2>4, <3>2
      <4> QED BY <4>1
    <3> QED BY <1>2, <2>7, <3>1, <3>2
  <2>8. ToSet(q) \ {e} \subseteq ToSet(r)
    <3>1. ASSUME NEW x \in ToSet(q), x # e PROVE x \in ToSet(r)
      <4>1. PICK k \in 1..Len(q) : q[k] = x
        BY <3>1 DEF ToSet
      <4>2. PICK l \in 1..Len(r) : r[l] = x
        BY <2>7, <3>1, <4>1
      <4> QED BY <2>4, <4>2 DEF ToSet
    <3> QED BY <3>1
  <2> QED BY <2>1, <2>4, <2>5, <2>6, <2>8 DEF r
<1> QED BY <1>1, <1>2

(* A job that was not in the queue joins it.                               *)
LEMMA AppendToQueue ==
  ASSUME NEW S, NEW q \in Seq(S), IsInjective(q), NEW e \in S, e \notin ToSet(q)
  PROVE  /\ Append(q, e) \in Seq(S) /\ IsInjective(Append(q, e))
         /\ Len(Append(q, e)) = Len(q) + 1
         /\ ToSet(Append(q, e)) = ToSet(q) \cup {e}
<1> DEFINE r == Append(q, e)
<1>1. /\ r \in Seq(S) /\ Len(r) = Len(q) + 1
      /\ \A k \in 1..Len(q) : r[k] = q[k]
      /\ r[Len(q) + 1] = e
  BY AppendProperties
<1> HIDE DEF r
<1>2. \A k \in 1..Len(q) : q[k] # e
  BY DEF ToSet
<1>3. IsInjective(r)
  BY <1>1, <1>2 DEF IsInjective
<1>4. ToSet(r) = ToSet(q) \cup {e}
  BY <1>1 DEF ToSet
<1> QED BY <1>1, <1>3, <1>4 DEF r

(* The worker takes the head of the queue.                                 *)
LEMMA TakeFromQueue ==
  ASSUME NEW S, NEW q \in Seq(S), IsInjective(q), q # <<>>
  PROVE  /\ Tail(q) \in Seq(S) /\ IsInjective(Tail(q))
         /\ Len(Tail(q)) <= Len(q) /\ Head(q) \in S
         /\ ToSet(Tail(q)) = ToSet(q) \ {Head(q)}
<1> DEFINE r == Tail(q)
<1>1. /\ Len(q) >= 1 /\ Head(q) = q[1] /\ Head(q) \in S
      /\ r \in Seq(S) /\ Len(r) = Len(q) - 1
      /\ \A k \in 1..Len(r) : r[k] = q[k + 1]
  BY HeadTailProperties
<1> HIDE DEF r
<1>2. IsInjective(r)
  <2>1. ASSUME NEW k \in 1..Len(r), NEW l \in 1..Len(r), r[k] = r[l] PROVE k = l
    <3>1. /\ k + 1 \in 1..Len(q) /\ l + 1 \in 1..Len(q)
          /\ q[k + 1] = q[l + 1]
      BY <1>1, <2>1
    <3>2. k + 1 = l + 1
      BY <3>1 DEF IsInjective
    <3> QED BY <3>2
  <2> QED BY <1>1, <2>1 DEF IsInjective
<1>3. ToSet(r) \subseteq ToSet(q) \ {Head(q)}
  <2>1. ASSUME NEW k \in 1..Len(r) PROVE r[k] # q[1] /\ r[k] \in ToSet(q)
    <3>1. k + 1 \in 1..Len(q) /\ k + 1 # 1 /\ r[k] = q[k + 1]
      BY <1>1
    <3> QED BY <1>1, <3>1 DEF IsInjective, ToSet
  <2> QED BY <1>1, <2>1 DEF ToSet
<1>4. ASSUME NEW k \in 1..Len(q), q[k] # q[1] PROVE \E l \in 1..Len(r) : r[l] = q[k]
  <2>1. k - 1 \in 1..Len(r) /\ r[k - 1] = q[k]
    BY <1>1, <1>4
  <2> QED BY <2>1
<1>5. ToSet(q) \ {Head(q)} \subseteq ToSet(r)
  BY <1>1, <1>4 DEF ToSet
<1> QED BY <1>1, <1>2, <1>3, <1>5 DEF r

(***************************************************************************)
(* The history.                                                            *)
(***************************************************************************)
(* A set of numbers has a least one.                                       *)
LEMMA LeastNumber ==
  ASSUME NEW N, N \subseteq Nat, N # {}
  PROVE  \E m \in N : \A n \in N : m <= n
<1> DEFINE Less == {p \in Nat \X Nat : p[1] < p[2]}
<1>1. IsWellFoundedOn(Less, Nat)
  BY NatLessThanWellFounded DEF OpToRel
<1>2. PICK m \in N : \A n \in N : <<n, m>> \notin Less
  <2> HIDE DEF Less
  <2> QED BY <1>1, WFMin
<1>3. ASSUME NEW n \in N PROVE m <= n
  <2>1. <<n, m>> \in Nat \X Nat /\ <<n, m>>[1] = n /\ <<n, m>>[2] = m
    OBVIOUS
  <2>2. ~(n < m)
    BY <1>2, <2>1
  <2> QED BY <2>2
<1> QED BY <1>3

(* Pruning forgets finished jobs only, and leaves MaxHistory of them.      *)
LEMMA HistoryKeeps ==
  ASSUME JobsNumbered, jobs \in [DOMAIN jobs -> Nat], NEW s
  PROVE  /\ HistoryKept(s) \in [DOMAIN HistoryKept(s) -> Nat]
         /\ DOMAIN HistoryKept(s) \subseteq DOMAIN jobs
         /\ \A j \in DOMAIN HistoryKept(s) : HistoryKept(s)[j] = jobs[j]
         /\ \A j \in DOMAIN jobs : s[j] \notin Terminal => j \in DOMAIN HistoryKept(s)
         /\ Cardinality({j \in DOMAIN HistoryKept(s) : s[j] \in Terminal}) <= MaxHistory
<1> DEFINE kept == HistoryKept(s)
           K == {j \in DOMAIN kept : s[j] \in Terminal}
<1>1. /\ DOMAIN kept = {j \in DOMAIN jobs :
           s[j] \in Terminal => Cardinality(FinishedAfter(j, s)) < MaxHistory}
      /\ \A j \in DOMAIN kept : kept[j] = jobs[j]
      /\ kept \in [DOMAIN kept -> Nat]
  BY DEF HistoryKept, Restrict
<1> HIDE DEF kept
<1>2. Cardinality(K) <= MaxHistory
  <2>1. IsFiniteSet(DOMAIN jobs) /\ IsFiniteSet(K)
    BY <1>1, FS_Subset DEF JobsNumbered
  <2>2. CASE K = {}
    BY <2>2, FS_EmptySet, RsyncAssumption
  <2>3. CASE K # {}
    <3>1. PICK k \in K : \A i \in K : jobs[k] <= jobs[i]
      <4> DEFINE N == {jobs[i] : i \in K}
      <4>1. N \subseteq Nat /\ N # {}
        BY <1>1, <2>3
      <4>2. PICK m \in N : \A n \in N : m <= n
        BY <4>1, LeastNumber
      <4> QED BY <4>2
    <3>2. k \in DOMAIN jobs /\ s[k] \in Terminal
      BY <1>1
    <3>3. K \ {k} \subseteq FinishedAfter(k, s)
      <4>1. ASSUME NEW i \in K, i # k PROVE i \in FinishedAfter(k, s)
        <5>1. i \in DOMAIN jobs /\ s[i] \in Terminal /\ jobs[k] <= jobs[i]
          BY <1>1, <3>1
        <5>2. jobs[i] # jobs[k]
          BY <3>2, <4>1, <5>1 DEF JobsNumbered, IsInjective
        <5>3. jobs[i] \in Nat /\ jobs[k] \in Nat
          BY <3>2, <5>1
        <5> QED BY <5>1, <5>2, <5>3 DEF FinishedAfter
      <4> QED BY <4>1
    <3>4. IsFiniteSet(FinishedAfter(k, s))
      BY <2>1, FS_Subset DEF FinishedAfter
    <3>5. Cardinality(K \ {k}) <= Cardinality(FinishedAfter(k, s))
      BY <3>3, <3>4, FS_Subset
    <3>6. Cardinality(K \ {k}) = Cardinality(K) - 1
      BY <2>1, FS_RemoveElement
    <3>7. Cardinality(FinishedAfter(k, s)) < MaxHistory
      BY <1>1
    <3> QED BY <2>1, <3>4, <3>5, <3>6, <3>7, FS_CardinalityType, RsyncAssumption
  <2> QED BY <2>2, <2>3
<1> QED BY <1>1, <1>2 DEF kept


(***************************************************************************)
(* The steps that leave the queue and the table of jobs alone.             *)
(***************************************************************************)
(* A client's thread before it submits, and a forgotten capability.        *)
ClientMoves ==
  \/ \E j \in Jobs : RequireCapability(j) \/ ProbeEnds(j) \/ BuildArgv(j)
  \/ InvalidateCapabilities

(* Before it submits, a client's thread touches no job.                    *)
LEMMA ClientMovesInv ==
  ASSUME TransferInv, ClientMoves
  PROVE  TransferInv'
<1> USE RsyncAssumption DEF TransferInv, RsyncInv
<1>1. /\ UNCHANGED <<jobVars, childVars, workerVars, closed, terminations>>
      /\ \A j \in Jobs : client'[j] = "accepted" <=> client[j] = "accepted"
  BY DEF ClientMoves, RequireCapability, ProbeEnds, BuildArgv, Goto,
     InvalidateCapabilities, TypeOK
<1>2. TypeOK'
  <2>1. /\ client' \in [Jobs -> {"idle", "probe", "validate", "submit", "accepted",
                               "refused"}]
        /\ capability' \in {"unknown", "available", "unavailable"}
        /\ resolved' \in BOOLEAN /\ probing' \in Jobs \cup {None}
        /\ nameless' \subseteq Jobs
    BY DEF ClientMoves, RequireCapability, ProbeEnds, BuildArgv, Goto,
       InvalidateCapabilities, TypeOK
  <2> QED BY <1>1, <2>1 DEF TypeOK, jobVars, childVars, workerVars
<1>3. Accepted' = Accepted
  BY <1>1 DEF Accepted
<1>4. JobsNumbered'
  BY <1>1, <1>3 DEF JobsNumbered, jobVars
<1>5. OneAtATime' /\ HistoryBounded' /\ HonestTransfer'
  BY <1>1 DEF OneAtATime, HistoryBounded, HonestTransfer, jobVars, childVars,
     workerVars
<1>6. JobsInPlace' /\ WorkerInPlace'
  BY <1>1 DEF JobsInPlace, WorkerInPlace, jobVars, childVars, workerVars
<1> QED BY <1>2, <1>4, <1>5, <1>6

(* Asking a running transfer to stop, signalling it, and its exit.         *)
Stops ==
  \/ \E c \in Cancellers, j \in Jobs : CancelRunning(c, j)
  \/ \E t \in terminations : TerminationStep(t) \/ TerminationReturns(t)
  \/ \E j \in Jobs : ChildExits(j)

(* Only a transfer somebody asked to stop is signalled.                    *)
LEMMA StopsInv ==
  ASSUME TransferInv, Stops
  PROVE  TransferInv'
<1> USE RsyncAssumption DEF TransferInv, RsyncInv
<1>1. /\ UNCHANGED <<capabilityVars, state, jobs, queue, process, remoteUnknown,
                     active, worker, closed>>
      /\ cancelRequested \subseteq cancelRequested'
  BY DEF Stops, CancelRunning, TerminationStep, TerminationReturns, ChildExits,
     jobVars, workerVars
<1>2. JobsNumbered' /\ HistoryBounded'
  BY <1>1 DEF JobsNumbered, Accepted, HistoryBounded, capabilityVars
<1>3. ASSUME NEW c \in Cancellers, NEW j \in Jobs, CancelRunning(c, j)
      PROVE  TransferInv'
  <2>1. terminations' \subseteq terminations \cup {Termination(c, j)}
    BY <1>3 DEF CancelRunning
  <2>2. TypeOK'
    BY <1>1, <1>3, <2>1 DEF CancelRunning, TypeOK, Termination, Terminators,
       capabilityVars, childVars
  <2>3. OneAtATime' /\ HonestTransfer'
    BY <1>1, <1>3 DEF CancelRunning, OneAtATime, HonestTransfer, childVars
  <2>4. JobsInPlace' /\ WorkerInPlace'
    BY <1>1, <1>3 DEF CancelRunning, JobsInPlace, WorkerInPlace, Termination,
       capabilityVars, childVars, Endings
  <2> QED BY <1>2, <2>2, <2>3, <2>4
<1>4. ASSUME NEW t \in terminations, TerminationStep(t) \/ TerminationReturns(t)
      PROVE  TransferInv'
  <2>1. TypeOK'
    <3> DEFINE T == [by : Terminators, job : Jobs, step : {"term", "kill", "reap"}]
    <3>1. t \in T /\ terminations \subseteq T
      BY DEF TypeOK
    <3>2. signal' \in [Jobs -> {"none", "TERM", "KILL"}]
      BY <1>4 DEF TerminationStep, TerminationReturns, TypeOK, childVars
    <3>3. [t EXCEPT !.step = IF @ = "term" THEN "kill" ELSE "reap"] \in T
      BY <3>1
    <3> HIDE DEF T
    <3>4. terminations' \subseteq T
      BY <1>4, <3>1, <3>3 DEF TerminationStep, TerminationReturns
    <3>5. UNCHANGED <<capabilityVars, jobVars, workerVars, closed, child>>
      BY <1>4 DEF TerminationStep, TerminationReturns, childVars
    <3> QED BY <3>2, <3>4, <3>5 DEF TypeOK, T, jobVars, workerVars, capabilityVars
  <2>2. /\ UNCHANGED <<cancelRequested, child>>
        /\ \A u \in terminations' : \E v \in terminations : u.job = v.job
        /\ t.job \in Jobs
        /\ \A j \in Jobs : signal'[j] # signal[j] => j = t.job /\ child[j] = "alive"
    BY <1>4 DEF TerminationStep, TerminationReturns, TypeOK, jobVars, childVars
  <2>3. OneAtATime' /\ HonestTransfer'
    BY <1>1, <2>2 DEF OneAtATime, HonestTransfer, Terminal
  <2>4. JobsInPlace'
    BY <1>1, <2>2 DEF JobsInPlace, capabilityVars
  <2>5. WorkerInPlace'
    <3>1. worker \notin {"idle", "gone"} => active \in Jobs
      BY DEF WorkerInPlace, TypeOK
    <3> QED BY <1>1, <1>4, <2>2, <3>1 DEF WorkerInPlace, Endings
  <2> QED BY <1>2, <2>1, <2>3, <2>4, <2>5
<1>5. ASSUME NEW j \in Jobs, ChildExits(j)
      PROVE  TransferInv'
  <2>1. TypeOK'
    BY <1>1, <1>5 DEF ChildExits, TypeOK, jobVars, capabilityVars, childVars
  <2>2. /\ child[j] = "alive" /\ child'[j] \notin {"alive", "none"}
        /\ \A i \in Jobs \ {j} : child'[i] = child[i]
        /\ UNCHANGED <<cancelRequested, signal, terminations>>
    BY <1>5 DEF ChildExits, TypeOK, jobVars
  <2>3. j = active /\ state[j] = "running"
    BY <2>2 DEF OneAtATime
  <2>4. OneAtATime' /\ HonestTransfer'
    BY <1>1, <2>2, <2>3 DEF OneAtATime, HonestTransfer, Terminal
  <2>5. JobsInPlace' /\ WorkerInPlace'
    BY <1>1, <2>2, <2>3
    DEF JobsInPlace, WorkerInPlace, Endings, capabilityVars, TypeOK
  <2> QED BY <1>2, <2>1, <2>4, <2>5
<1> QED BY <1>3, <1>4, <1>5 DEF Stops


(* The worker's steps that do not end the job it runs.                     *)
WorkerMoves ==
  \/ WorkerExits \/ RegisterProcess \/ ReadVerdict \/ ReportTransport
  \/ Spawn /\ UNCHANGED jobVars

(* A running transfer goes its way.                                        *)
LEMMA WorkerMovesInv ==
  ASSUME TransferInv, WorkerMoves
  PROVE  TransferInv'
<1> USE RsyncAssumption DEF TransferInv, RsyncInv
<1>1. /\ UNCHANGED <<capabilityVars, state, jobs, queue, cancelRequested, remoteUnknown,
                     active, closed, signal>>
      /\ worker \notin {"idle", "gone"} => active \in Jobs
      /\ worker \in {"report", "retire"} <=> worker' \in {"report", "retire"}
  <2>1. UNCHANGED <<capabilityVars, state, jobs, queue, cancelRequested, remoteUnknown,
                    active, closed, signal>>
    BY DEF WorkerMoves, WorkerExits, RegisterProcess, ReadVerdict,
           ReportTransport, Spawn, jobVars, childVars
  <2>2. worker \notin {"idle", "gone"} => active \in Jobs
    BY DEF TypeOK, WorkerInPlace
  <2>3. ReadVerdict => worker = "waiting" /\ worker' \in Endings
    BY <2>2 DEF ReadVerdict, VerdictOf, TypeOK, WorkerInPlace, Endings
  <2>4. Spawn /\ UNCHANGED jobVars =>
          worker = "spawn" /\ worker' \in {"register", "lost"}
    <3>1. worker = "spawn" => state[active] = "running"
      BY DEF OneAtATime
    <3>2. FinishJob(active, "failed") /\ worker = "spawn" => state' # state
      BY <2>2, <3>1 DEF FinishJob, TypeOK
    <3> QED BY <3>2 DEF Spawn, jobVars
  <2>5. worker \in {"report", "retire"} <=> worker' \in {"report", "retire"}
    BY <2>3, <2>4
    DEF WorkerMoves, WorkerExits, RegisterProcess, ReportTransport, Endings
  <2> QED BY <2>1, <2>2, <2>5
<1>2. JobsNumbered' /\ HistoryBounded'
  BY <1>1 DEF JobsNumbered, Accepted, HistoryBounded, capabilityVars
<1>3. CASE WorkerExits \/ ReportTransport
  <2>1. UNCHANGED <<process, child, terminations>>
    BY <1>3 DEF WorkerExits, ReportTransport, jobVars, childVars
  <2>2. TypeOK'
    BY <1>1, <1>3, <2>1 DEF WorkerExits, ReportTransport, TypeOK, capabilityVars
  <2>3. OneAtATime' /\ HonestTransfer' /\ JobsInPlace'
    BY <1>1, <1>3, <2>1
    DEF WorkerExits, ReportTransport, OneAtATime, HonestTransfer, JobsInPlace,
        capabilityVars, WorkerInPlace
  <2>4. WorkerInPlace'
    BY <1>1, <1>3, <2>1
    DEF WorkerExits, ReportTransport, WorkerInPlace, Endings
  <2> QED BY <1>2, <2>2, <2>3, <2>4
<1>4. CASE RegisterProcess
  <2>1. /\ worker = "register" /\ worker' = "waiting" /\ active \in Jobs
        /\ process' = process \cup {active} /\ UNCHANGED child
        /\ \A t \in terminations' : \/ t \in terminations
                                    \/ /\ t = Termination("worker", active)
                                       /\ active \in cancelRequested
    BY <1>1, <1>4 DEF RegisterProcess, childVars
  <2>2. TypeOK'
    BY <1>1, <2>1 DEF TypeOK, Termination, Terminators, capabilityVars
  <2>3. OneAtATime' /\ HonestTransfer' /\ JobsInPlace'
    BY <1>1, <2>1 DEF OneAtATime, HonestTransfer, JobsInPlace, capabilityVars,
       WorkerInPlace, Termination
  <2>4. WorkerInPlace'
    BY <1>1, <2>1 DEF WorkerInPlace, Endings
  <2> QED BY <1>2, <2>2, <2>3, <2>4
<1>5. CASE ReadVerdict
  <2>1. /\ worker = "waiting" /\ worker' = VerdictOf(active) /\ active \in Jobs
        /\ UNCHANGED <<process, child, terminations>> /\ child[active] # "alive"
    BY <1>1, <1>5 DEF ReadVerdict, jobVars, childVars
  <2>2. child[active] \in {"ok", "error", "ssh"} /\ worker' \in Endings
    BY <2>1 DEF WorkerInPlace, TypeOK, VerdictOf, Endings
  <2>3. TypeOK'
    BY <1>1, <2>1, <2>2 DEF TypeOK, capabilityVars
  <2>4. OneAtATime' /\ HonestTransfer' /\ JobsInPlace'
    BY <1>1, <2>1, <2>2
    DEF OneAtATime, HonestTransfer, JobsInPlace, capabilityVars, Endings
  <2>5. WorkerInPlace'
    BY <1>1, <2>1, <2>2 DEF WorkerInPlace, JobsInPlace, Endings, VerdictOf
  <2> QED BY <1>2, <2>3, <2>4, <2>5
<1>6. CASE Spawn /\ UNCHANGED jobVars
  <2>1. /\ worker = "spawn" /\ active \in Jobs /\ UNCHANGED <<process, terminations>>
        /\ state[active] = "running" /\ child[active] = "none"
        /\ \A t \in terminations : t.job # active
        /\ signal[active] = "none"
    BY <1>1, <1>6 DEF Spawn, jobVars, OneAtATime, WorkerInPlace, JobsInPlace
  <2>2. \/ child' = [child EXCEPT ![active] = "alive"] /\ worker' = "register"
        \/ UNCHANGED child /\ worker' = "lost"
    BY <1>6, <2>1 DEF Spawn, FinishJob, jobVars, TypeOK
  <2>3. TypeOK'
    BY <1>1, <2>1, <2>2 DEF TypeOK, capabilityVars
  <2>4. OneAtATime' /\ HonestTransfer' /\ JobsInPlace'
    BY <1>1, <2>1, <2>2
    DEF OneAtATime, HonestTransfer, JobsInPlace, capabilityVars, TypeOK,
        Terminal
  <2>5. WorkerInPlace'
    BY <1>1, <2>1, <2>2 DEF WorkerInPlace, Endings, TypeOK
  <2> QED BY <1>2, <2>3, <2>4, <2>5
<1> QED BY <1>3, <1>4, <1>5, <1>6 DEF WorkerMoves

(* Before a transfer is called cancelled it is noted that the remote side  *)
(* may still run.                                                          *)
LEMMA MarkUnknownInv ==
  ASSUME TransferInv, MarkUnknown
  PROVE  TransferInv'
<1> USE RsyncAssumption DEF TransferInv, RsyncInv
<1>1. /\ UNCHANGED <<capabilityVars, state, jobs, queue, cancelRequested, process,
                     active, closed, child, signal, terminations>>
      /\ worker = "cancelled" /\ worker' = "marked"
      /\ remoteUnknown' = remoteUnknown \cup {active}
  BY DEF MarkUnknown, childVars
<1>2. /\ active \in Jobs /\ state[active] = "running"
      /\ active \in cancelRequested /\ child[active] \notin {"none", "alive"}
  BY <1>1 DEF TypeOK, OneAtATime, WorkerInPlace, Endings
<1>3. TypeOK'
  BY <1>1, <1>2 DEF TypeOK, Endings, capabilityVars
<1>4. OneAtATime' /\ HistoryBounded' /\ JobsNumbered'
  BY <1>1, <1>2
  DEF OneAtATime, HistoryBounded, JobsNumbered, Accepted, capabilityVars
<1>5. HonestTransfer' /\ JobsInPlace'
  BY <1>1, <1>2 DEF HonestTransfer, JobsInPlace, capabilityVars
<1>6. WorkerInPlace'
  BY <1>1, <1>2 DEF WorkerInPlace, Endings
<1> QED BY <1>3, <1>4, <1>5, <1>6

(* What the worker makes of a transfer that ended, or could not be         *)
(* started.                                                                *)
WorkerEnds ==
  \/ FinishRun
  \/ /\ Spawn /\ FinishJob(active, "failed") /\ UNCHANGED <<remoteUnknown, child>>
     /\ worker' = "retire"

(* The outcome of a transfer is what happened to it.                       *)
LEMMA WorkerEndsInv ==
  ASSUME TransferInv, WorkerEnds
  PROVE  TransferInv'
<1> USE RsyncAssumption DEF TransferInv, RsyncInv
<1>1. /\ UNCHANGED <<capabilityVars, jobs, queue, cancelRequested, active, closed,
                     child, signal, terminations>>
      /\ worker \in {"spawn"} \cup (Endings \ {"cancelled"})
      /\ worker' \in {"report", "retire"}
      /\ process' = process \ {active} /\ UNCHANGED remoteUnknown
  BY DEF WorkerEnds, FinishRun, Spawn, FinishJob, childVars
<1>2. active \in Jobs /\ state[active] = "running" /\ child[active] # "alive"
  BY <1>1 DEF TypeOK, OneAtATime, WorkerInPlace, Endings
<1>3. PICK outcome \in Terminal :
        /\ state' = [state EXCEPT ![active] = outcome]
        /\ outcome = "succeeded" => child[active] = "ok" /\ signal[active] = "none"
        /\ outcome = "failed" =>
             child[active] \in {"none", "error", "ssh"} /\ signal[active] = "none"
        /\ outcome = "cancelled" =>
             active \in cancelRequested /\ active \in remoteUnknown
        /\ outcome # "cancelled" => active \notin remoteUnknown
  <2>1. CASE FinishRun
    <3>1. worker \in Endings \ {"cancelled"}
      BY <2>1 DEF FinishRun
    <3>2. CASE worker = "ok"
      BY <2>1, <3>2 DEF FinishRun, FinishJob, WorkerInPlace, Endings, Terminal
    <3>3. CASE worker = "marked"
      BY <2>1, <3>3 DEF FinishRun, FinishJob, WorkerInPlace, Endings, Terminal
    <3>4. CASE worker \in {"error", "ssh"}
      BY <2>1, <3>4 DEF FinishRun, FinishJob, WorkerInPlace, Endings, Terminal
    <3> QED BY <3>1, <3>2, <3>3, <3>4 DEF Endings
  <2>2. CASE Spawn /\ FinishJob(active, "failed") /\ UNCHANGED <<remoteUnknown, child>>
    BY <1>2, <2>2 DEF Spawn, FinishJob, WorkerInPlace, JobsInPlace, Terminal
  <2> QED BY <2>1, <2>2 DEF WorkerEnds
<1>4. /\ state'[active] = outcome
      /\ \A j \in Jobs \ {active} : state'[j] = state[j]
      /\ outcome \notin {"none", "queued", "running"}
  BY <1>2, <1>3 DEF TypeOK, Terminal
<1>5. TypeOK'
  BY <1>1, <1>2, <1>3 DEF TypeOK, capabilityVars
<1>6. OneAtATime'
  BY <1>1, <1>2, <1>4 DEF OneAtATime, Endings
<1>7. HistoryBounded'
  <2> DEFINE H == {j \in DOMAIN jobs : state[j] \in Terminal}
  <2>1. H' \subseteq H \cup {active}
    BY <1>1, <1>4, <1>5 DEF TypeOK
  <2>2. IsFiniteSet(H) /\ IsFiniteSet(H \cup {active})
    BY FS_Subset, FS_AddElement DEF JobsNumbered
  <2>3. Cardinality(H \cup {active}) <= Cardinality(H) + 1 /\ Cardinality(H) \in Nat
    <3> HIDE DEF H
    <3>1. Cardinality(H) \in Nat
      BY <2>2, FS_CardinalityType
    <3>2. Cardinality(H \cup {active}) =
            IF active \in H THEN Cardinality(H) ELSE Cardinality(H) + 1
      BY <2>2, FS_AddElement
    <3> QED
      BY <3>1, <3>2
  <2>4. Cardinality(H') <= Cardinality(H \cup {active})
    BY <2>1, <2>2, FS_Subset
  <2>5. ~closed => Cardinality(H) <= MaxHistory
    BY <1>1 DEF HistoryBounded, Endings
  <2>6. Cardinality(H') \in Nat
    BY <2>1, <2>2, FS_Subset, FS_CardinalityType
  <2>7. ~closed' => Cardinality(H') <= MaxHistory + 1
    <3> HIDE DEF H
    <3>1. Cardinality(H \cup {active}) \in Nat /\ MaxHistory \in Nat
      BY <2>2, FS_CardinalityType DEF RsyncAssumption
    <3>2. closed' = closed
      BY <1>1
    <3> QED BY <2>3, <2>4, <2>5, <2>6, <3>1, <3>2
  <2>8. \A j \in Jobs : state'[j] \in {"queued", "running"} => j \in DOMAIN jobs'
    BY <1>1, <1>4 DEF HistoryBounded
  <2> QED BY <1>1, <2>7, <2>8 DEF HistoryBounded
<1>8. HonestTransfer'
  BY <1>1, <1>2, <1>3, <1>4, <1>5 DEF HonestTransfer, TypeOK
<1>9. JobsInPlace'
  BY <1>1, <1>2, <1>4 DEF JobsInPlace, capabilityVars
<1>10. WorkerInPlace'
  <2>1. active \in remoteUnknown => worker' = "retire"
    <3>1. worker' = "report" => active \notin remoteUnknown
      BY <1>2 DEF WorkerEnds, FinishRun, WorkerInPlace
    <3> QED BY <1>1, <3>1
  <2> QED BY <1>1, <1>2, <1>4, <2>1 DEF WorkerInPlace, JobsInPlace, Endings
<1>11. JobsNumbered'
  BY <1>1 DEF JobsNumbered, Accepted, capabilityVars
<1> QED BY <1>5, <1>6, <1>7, <1>8, <1>9, <1>10, <1>11


(***************************************************************************)
(* The steps that change the queue or the table of jobs.                   *)
(***************************************************************************)
(* Pruning keeps what is said of the table of jobs.                        *)
LEMMA PruneInv ==
  ASSUME JobsNumbered, TypeOK, HistoryBounded, jobs' = HistoryKept(state'),
         \A j \in Jobs : state'[j] \in {"queued", "running"} =>
                          state[j] \in {"queued", "running"},
         UNCHANGED client
  PROVE  /\ HistoryBounded' /\ JobsNumbered'
         /\ DOMAIN jobs' \subseteq Jobs /\ jobs' \in [DOMAIN jobs' -> Nat]
<1>1. jobs \in [DOMAIN jobs -> Nat] /\ DOMAIN jobs \subseteq Jobs
  BY DEF TypeOK
<1>2. /\ jobs' \in [DOMAIN jobs' -> Nat]
      /\ DOMAIN jobs' \subseteq DOMAIN jobs
      /\ \A j \in DOMAIN jobs' : jobs'[j] = jobs[j]
      /\ \A j \in DOMAIN jobs : state'[j] \notin Terminal => j \in DOMAIN jobs'
      /\ Cardinality({j \in DOMAIN jobs' : state'[j] \in Terminal}) <= MaxHistory
  BY <1>1, HistoryKeeps
<1>3. JobsNumbered'
  BY <1>2 DEF JobsNumbered, Accepted, IsInjective
<1>4. \A j \in Jobs : state'[j] \in {"queued", "running"} => j \in DOMAIN jobs'
  BY <1>2 DEF HistoryBounded, Terminal
<1>5. Cardinality({j \in DOMAIN jobs' : state'[j] \in Terminal})
        <= MaxHistory + (IF worker' \in {"report", "retire"} THEN 1 ELSE 0)
  <2> DEFINE n == Cardinality({j \in DOMAIN jobs' : state'[j] \in Terminal})
  <2>1. IsFiniteSet({j \in DOMAIN jobs' : state'[j] \in Terminal})
    BY <1>2, FS_Subset DEF JobsNumbered
  <2>2. n \in Nat /\ MaxHistory \in Nat
    BY <2>1, FS_CardinalityType, RsyncAssumption DEF RsyncAssumption
  <2> HIDE DEF n
  <2>3. n <= MaxHistory
    BY <1>2 DEF n
  <2> QED BY <2>2, <2>3 DEF n
<1> QED BY <1>1, <1>2, <1>3, <1>4, <1>5 DEF HistoryBounded

(* The worker's turn ends, and the history is pruned.                      *)
LEMMA RetireInv ==
  ASSUME TransferInv, Retire
  PROVE  TransferInv'
<1> USE DEF TransferInv, RsyncInv
<1>1. /\ UNCHANGED <<state, queue, cancelRequested, process, remoteUnknown,
                     capabilityVars, childVars, closed, terminations>>
      /\ worker = "retire" /\ worker' = "idle" /\ active' = None
  BY DEF Retire
<1>2. /\ HistoryBounded' /\ JobsNumbered'
      /\ DOMAIN jobs' \subseteq Jobs /\ jobs' \in [DOMAIN jobs' -> Nat]
  <2>1. jobs' = HistoryKept(state')
    BY <1>1 DEF Retire
  <2> QED BY <1>1, <2>1, PruneInv DEF capabilityVars
<1>3. active \in Jobs /\ state[active] \in Terminal
  BY <1>1 DEF WorkerInPlace, TypeOK
<1>4. TypeOK'
  BY <1>1, <1>2 DEF TypeOK, capabilityVars, childVars
<1>5. OneAtATime' /\ HonestTransfer'
  BY <1>1, <1>3 DEF OneAtATime, HonestTransfer, childVars, Terminal
<1>6. JobsInPlace' /\ WorkerInPlace'
  <2>1. None \notin remoteUnknown /\ process' \subseteq {None} \cap Jobs
    BY <1>1, RsyncAssumption
    DEF TypeOK, RsyncAssumption, JobsInPlace, WorkerInPlace, Endings
  <2> QED BY <1>1, <1>3, <2>1
          DEF JobsInPlace, WorkerInPlace, capabilityVars, childVars, Endings
<1> QED BY <1>2, <1>4, <1>5, <1>6

(* A waiting job is cancelled: it leaves the queue and is finished.        *)
LEMMA CancelQueuedInv ==
  ASSUME TransferInv, NEW c \in Cancellers, NEW j \in Jobs, CancelQueued(c, j)
  PROVE  TransferInv'
<1> USE DEF TransferInv, RsyncInv
<1>1. /\ UNCHANGED <<process, remoteUnknown, capabilityVars, childVars, workerVars,
                     closed, terminations>>
      /\ state[j] = "queued" /\ state' = [state EXCEPT ![j] = "cancelled"]
      /\ cancelRequested' = cancelRequested \cup {j}
      /\ jobs' = HistoryKept(state') /\ queue' = RemoveFirst(queue, j)
  BY DEF CancelQueued
<1>2. /\ state'[j] = "cancelled" /\ \A i \in Jobs \ {j} : state'[i] = state[i]
  BY <1>1 DEF TypeOK
<1>3. /\ HistoryBounded' /\ JobsNumbered'
      /\ DOMAIN jobs' \subseteq Jobs /\ jobs' \in [DOMAIN jobs' -> Nat]
  BY <1>1, <1>2, PruneInv DEF capabilityVars
<1>4. /\ queue' \in Seq(Jobs) /\ IsInjective(queue') /\ Len(queue') <= Len(queue)
      /\ ToSet(queue') = ToSet(queue) \ {j}
  BY <1>1, RemoveFromQueue DEF TypeOK, OneAtATime
<1>5. TypeOK'
  BY <1>1, <1>3, <1>4
  DEF TypeOK, capabilityVars, childVars, workerVars, Terminal
<1>6. OneAtATime'
  <2>1. Len(queue') <= MaxQueue
    BY <1>4, RsyncAssumption DEF TypeOK, OneAtATime, RsyncAssumption
  <2>2. ToSet(queue') = {i \in Jobs : state'[i] = "queued"}
    BY <1>2, <1>4 DEF OneAtATime
  <2> QED BY <1>1, <1>2, <1>4, <2>1, <2>2 DEF OneAtATime, childVars, workerVars
<1>7. HonestTransfer' /\ JobsInPlace'
  BY <1>1, <1>2
  DEF HonestTransfer, JobsInPlace, capabilityVars, childVars, workerVars,
      TypeOK
<1>8. WorkerInPlace'
  BY <1>1, <1>2
  DEF WorkerInPlace, Endings, Terminal, childVars, workerVars, TypeOK
<1> QED BY <1>3, <1>5, <1>6, <1>7, <1>8


(* A new job joins the queue and the table, or is refused.                 *)
LEMMA SubmitInv ==
  ASSUME TransferInv, NEW j \in Jobs, Submit(j)
  PROVE  TransferInv'
<1> USE DEF TransferInv, RsyncInv
<1>1. /\ client[j] = "submit"
      /\ UNCHANGED <<capability, resolved, probing, nameless, childVars,
                     workerVars, closed, terminations>>
  BY DEF Submit
<1>2. CASE client' = [client EXCEPT ![j] = "refused"] /\ UNCHANGED jobVars
  <2>1. Accepted' = Accepted
    BY <1>1, <1>2 DEF Accepted, TypeOK
  <2>2. TypeOK' /\ OneAtATime' /\ HistoryBounded' /\ HonestTransfer'
    BY <1>1, <1>2
    DEF TypeOK, OneAtATime, HistoryBounded, HonestTransfer, jobVars, childVars,
        workerVars
  <2>3. JobsInPlace' /\ WorkerInPlace' /\ JobsNumbered'
    BY <1>1, <1>2, <2>1 DEF JobsInPlace, WorkerInPlace, JobsNumbered, jobVars,
       childVars, workerVars, TypeOK
  <2> QED BY <2>2, <2>3
<1>3. CASE /\ ~closed /\ ~(Len(queue) >= MaxQueue)
           /\ client' = [client EXCEPT ![j] = "accepted"]
           /\ state' = [state EXCEPT ![j] = "queued"]
           /\ jobs' = [i \in DOMAIN jobs \cup {j} |->
                         IF i = j THEN Cardinality(Accepted) ELSE jobs[i]]
           /\ queue' = Append(queue, j)
           /\ UNCHANGED <<cancelRequested, process, remoteUnknown>>
  <2>1. state[j] = "none" /\ j \notin Accepted /\ j \notin DOMAIN jobs
    BY <1>1 DEF JobsInPlace, JobsNumbered, Accepted
  <2>2. /\ state'[j] = "queued" /\ \A i \in Jobs \ {j} : state'[i] = state[i]
        /\ client'[j] = "accepted" /\ \A i \in Jobs \ {j} : client'[i] = client[i]
    BY <1>3 DEF TypeOK
  <2>3. Accepted' = Accepted \cup {j}
    BY <2>2 DEF Accepted
  <2>4. /\ IsFiniteSet(Accepted') /\ Cardinality(Accepted') = Cardinality(Accepted) + 1
        /\ Cardinality(Accepted) \in Nat
    BY <2>1, <2>3, FS_AddElement, FS_CardinalityType DEF JobsNumbered
  <2>5. /\ DOMAIN jobs' = DOMAIN jobs \cup {j} /\ jobs'[j] = Cardinality(Accepted)
        /\ \A i \in DOMAIN jobs : jobs'[i] = jobs[i]
    BY <1>3, <2>1
  <2>6. jobs' \in [DOMAIN jobs' -> Nat] /\ DOMAIN jobs' \subseteq Jobs
    BY <1>3, <2>4, <2>5 DEF TypeOK
  <2>7. JobsNumbered'
    <3>1. \A i \in DOMAIN jobs' : jobs'[i] < Cardinality(Accepted')
      BY <2>4, <2>5 DEF JobsNumbered, TypeOK
    <3>2. IsInjective(jobs')
      <4>1. \A i \in DOMAIN jobs : jobs[i] # Cardinality(Accepted)
        BY <2>4 DEF JobsNumbered, TypeOK
      <4> QED BY <2>1, <2>5, <4>1 DEF JobsNumbered, IsInjective
    <3> QED BY <2>3, <2>4, <2>5, <3>1, <3>2 DEF JobsNumbered
  <2>8. j \notin ToSet(queue)
    BY <2>1 DEF OneAtATime
  <2>9. /\ queue' \in Seq(Jobs) /\ IsInjective(queue') /\ Len(queue') = Len(queue) + 1
        /\ ToSet(queue') = ToSet(queue) \cup {j}
    BY <1>3, <2>8, AppendToQueue DEF TypeOK, OneAtATime
  <2>10. TypeOK'
    BY <1>1, <1>3, <2>6, <2>9 DEF TypeOK, childVars, workerVars
  <2>11. OneAtATime'
    <3>1. Len(queue') <= MaxQueue
      BY <1>3, <2>9, RsyncAssumption DEF TypeOK, RsyncAssumption
    <3>2. ToSet(queue') = {i \in Jobs : state'[i] = "queued"}
      BY <2>2, <2>9 DEF OneAtATime
    <3>3. worker \notin {"idle", "gone", "retire", "report"} => active \in Jobs \ {j}
      BY <2>1 DEF OneAtATime, WorkerInPlace, TypeOK
    <3> QED BY <1>1, <2>1, <2>2, <2>9, <3>1, <3>2, <3>3
            DEF OneAtATime, childVars, workerVars
  <2>12. HistoryBounded'
    <3>1. {i \in DOMAIN jobs' : state'[i] \in Terminal}
            = {i \in DOMAIN jobs : state[i] \in Terminal}
      BY <2>1, <2>2, <2>5, <2>6 DEF Terminal, TypeOK
    <3> QED BY <1>1, <2>2, <2>5, <3>1 DEF HistoryBounded, workerVars
  <2>13. HonestTransfer' /\ JobsInPlace'
    BY <1>1, <1>3, <2>1, <2>2
    DEF HonestTransfer, JobsInPlace, childVars, workerVars
  <2>14. WorkerInPlace'
    BY <1>1, <1>3, <2>1, <2>2
    DEF WorkerInPlace, childVars, workerVars, Endings, TypeOK, Terminal
  <2> QED BY <2>7, <2>10, <2>11, <2>12, <2>13, <2>14
<1> QED BY <1>2, <1>3 DEF Submit, Goto

(* The worker takes the job that waited longest.                           *)
LEMMA TakeJobInv ==
  ASSUME TransferInv, TakeJob
  PROVE  TransferInv'
<1> USE DEF TransferInv, RsyncInv
<1> DEFINE j == Head(queue)
<1>1. /\ UNCHANGED <<jobs, cancelRequested, process, remoteUnknown, capabilityVars,
                     childVars, closed, terminations>>
      /\ worker = "idle" /\ worker' = "spawn" /\ active' = j
      /\ queue # <<>> /\ queue' = Tail(queue)
      /\ state[j] = "queued" /\ state' = [state EXCEPT ![j] = "running"]
  BY DEF TakeJob
<1>2. /\ queue' \in Seq(Jobs) /\ IsInjective(queue') /\ Len(queue') <= Len(queue)
      /\ j \in Jobs /\ ToSet(queue') = ToSet(queue) \ {j}
  BY <1>1, TakeFromQueue DEF TypeOK, OneAtATime
<1> HIDE DEF j
<1>3. state'[j] = "running" /\ \A i \in Jobs \ {j} : state'[i] = state[i]
  BY <1>1, <1>2 DEF TypeOK
<1>4. /\ active = None /\ child[j] = "none" /\ signal[j] = "none" /\ process = {}
  BY <1>1, <1>2 DEF OneAtATime, WorkerInPlace, JobsInPlace, Endings
<1>5. TypeOK'
  BY <1>1, <1>2 DEF TypeOK, capabilityVars, childVars
<1>6. OneAtATime'
  <2>1. Len(queue') <= MaxQueue
    BY <1>2, RsyncAssumption DEF TypeOK, OneAtATime, RsyncAssumption
  <2>2. ToSet(queue') = {i \in Jobs : state'[i] = "queued"}
    BY <1>2, <1>3 DEF OneAtATime
  <2>3. \A i \in Jobs : state[i] # "running" /\ child[i] # "alive"
    BY <1>4, RsyncAssumption DEF OneAtATime, RsyncAssumption
  <2> QED BY <1>1, <1>2, <1>3, <1>4, <2>1, <2>2, <2>3 DEF OneAtATime, childVars
<1>7. HistoryBounded'
  <2>1. {i \in DOMAIN jobs' : state'[i] \in Terminal}
          = {i \in DOMAIN jobs : state[i] \in Terminal}
    BY <1>1, <1>3, <1>5 DEF Terminal, TypeOK
  <2>2. j \in DOMAIN jobs
    BY <1>1, <1>2 DEF HistoryBounded
  <2> QED BY <1>1, <1>3, <2>1, <2>2 DEF HistoryBounded
<1>8. HonestTransfer' /\ JobsInPlace'
  BY <1>1, <1>2, <1>3, <1>4
  DEF HonestTransfer, JobsInPlace, capabilityVars, childVars
<1>9. WorkerInPlace'
  <2>1. j \notin remoteUnknown
    BY <1>1, <1>2 DEF HonestTransfer
  <2> QED BY <1>1, <1>2, <1>3, <1>4, <2>1, RsyncAssumption
          DEF WorkerInPlace, childVars, Endings, RsyncAssumption
<1>10. JobsNumbered'
  BY <1>1 DEF JobsNumbered, Accepted, capabilityVars
<1> QED BY <1>5, <1>6, <1>7, <1>8, <1>9, <1>10

(* close: every waiting job is cancelled, and the running one is asked to  *)
(* stop.                                                                   *)
LEMMA CloseInv ==
  ASSUME TransferInv, Close
  PROVE  TransferInv'
<1> USE DEF TransferInv, RsyncInv
<1> DEFINE queued == {j \in ToSet(queue) : state[j] = "queued"}
           running == {j \in Jobs : j = active /\ state[j] = "running"}
<1>1. /\ UNCHANGED <<jobs, process, remoteUnknown, capabilityVars, childVars, workerVars>>
      /\ closed' = TRUE /\ queue' = <<>>
      /\ state' = [j \in Jobs |-> IF j \in queued THEN "cancelled" ELSE state[j]]
      /\ cancelRequested' = cancelRequested \cup queued \cup running
      /\ terminations' = terminations \cup
           {Termination("close", j) : j \in running \cap process}
  BY DEF Close
<1>2. queued = {j \in Jobs : state[j] = "queued"}
  BY DEF OneAtATime
<1> HIDE DEF queued
<1>3. /\ \A j \in queued : state'[j] = "cancelled" /\ state[j] = "queued"
      /\ \A j \in Jobs \ queued : state'[j] = state[j]
      /\ queued \subseteq Jobs
  BY <1>1, <1>2
<1>4. TypeOK'
  <2>1. /\ state' \in [Jobs -> {"none", "queued", "running"} \cup Terminal]
        /\ cancelRequested' \subseteq Jobs /\ queue' \in Seq(Jobs)
    BY <1>1, <1>2 DEF TypeOK, Terminal
  <2>2. terminations' \subseteq
          [by : Terminators, job : Jobs, step : {"term", "kill", "reap"}]
    BY <1>1 DEF TypeOK, Termination, Terminators
  <2> QED BY <1>1, <2>1, <2>2 DEF TypeOK, capabilityVars, childVars, workerVars
<1>5. OneAtATime'
  <2>1. ToSet(queue') = {} /\ IsInjective(queue') /\ Len(queue') = 0
    BY <1>1 DEF ToSet, IsInjective
  <2>2. {j \in Jobs : state'[j] = "queued"} = {}
    BY <1>2, <1>3
  <2>3. 0 <= MaxQueue
    BY RsyncAssumption DEF RsyncAssumption
  <2>4. worker \notin {"idle", "gone", "retire", "report"} => active \in Jobs \ queued
    BY <1>2 DEF OneAtATime, WorkerInPlace, TypeOK
  <2> QED BY <1>1, <1>3, <2>1, <2>2, <2>3, <2>4 DEF OneAtATime, childVars, workerVars
<1>6. HistoryBounded'
  BY <1>1, <1>3 DEF HistoryBounded
<1>7. HonestTransfer'
  BY <1>1, <1>2, <1>3 DEF HonestTransfer, JobsInPlace, childVars
<1>8. JobsInPlace'
  <2>1. \A t \in terminations' : t.job \in cancelRequested' /\ child'[t.job] # "none"
    <3>1. \A j \in process : child[j] # "none"
      BY DEF JobsInPlace, WorkerInPlace, Endings
    <3> QED BY <1>1, <3>1 DEF JobsInPlace, Termination, childVars
  <2> QED BY <1>1, <1>2, <1>3, <2>1 DEF JobsInPlace, capabilityVars, childVars, workerVars
<1>9. WorkerInPlace'
  <2>1. worker = "register" => \A t \in terminations' : t.job # active
    BY <1>1 DEF WorkerInPlace, Termination, Endings
  <2>2. worker \in {"report", "retire"} => state'[active] \in Terminal
    BY <1>2, <1>3 DEF WorkerInPlace, Terminal, TypeOK
  <2> QED BY <1>1, <2>1, <2>2 DEF WorkerInPlace, childVars, workerVars, Endings
<1>10. JobsNumbered'
  BY <1>1 DEF JobsNumbered, Accepted, capabilityVars
<1> QED BY <1>4, <1>5, <1>6, <1>7, <1>8, <1>9, <1>10

(***************************************************************************)
(* The theorems.                                                           *)
(***************************************************************************)
(* It holds at the start.                                                  *)
LEMMA InitInv == Init => TransferInv
<1> SUFFICES ASSUME Init PROVE TransferInv
  OBVIOUS
<1> USE RsyncAssumption DEF RsyncAssumption
<1>1. TypeOK
  <2>1. DOMAIN jobs = {} /\ jobs \in [DOMAIN jobs -> Nat]
    BY DEF Init
  <2>2. /\ state \in [Jobs -> {"none", "queued", "running"} \cup Terminal]
        /\ child \in [Jobs -> {"none", "alive", "ok", "error", "ssh"}]
        /\ signal \in [Jobs -> {"none", "TERM", "KILL"}]
        /\ client \in [Jobs -> {"idle", "probe", "validate", "submit", "accepted",
                               "refused"}]
    BY DEF Init
  <2>3. UNION {nameless, cancelRequested, process, remoteUnknown} \subseteq Jobs
    BY DEF Init
  <2>4. /\ DOMAIN jobs \subseteq Jobs /\ queue \in Seq(Jobs)
        /\ {probing, active} \subseteq Jobs \cup {None}
        /\ terminations \subseteq
             [by : Terminators, job : Jobs, step : {"term", "kill", "reap"}]
    BY <2>1 DEF Init
  <2>5. /\ capability = "unknown" /\ resolved = FALSE /\ closed = FALSE
        /\ worker = "idle"
    BY DEF Init
  <2> QED BY <2>1, <2>2, <2>3, <2>4, <2>5 DEF TypeOK
<1>2. ToSet(queue) = {} /\ IsInjective(queue) /\ IsInjective(jobs) /\ Len(queue) = 0
  BY DEF Init, ToSet, IsInjective
<1>3. OneAtATime
  BY <1>2 DEF Init, OneAtATime
<1>4. HistoryBounded
  <2>1. {j \in DOMAIN jobs : state[j] \in Terminal} = {}
    BY DEF Init
  <2>2. Cardinality({j \in DOMAIN jobs : state[j] \in Terminal}) = 0
    BY <2>1, FS_EmptySet
  <2> QED BY <2>2 DEF Init, HistoryBounded
<1>5. HonestTransfer /\ JobsInPlace /\ WorkerInPlace
  BY DEF Init, HonestTransfer, JobsInPlace, WorkerInPlace, Endings
<1>6. JobsNumbered
  <2>1. Accepted = {}
    BY DEF Init, Accepted
  <2> QED BY <1>2, <2>1, FS_EmptySet DEF Init, JobsNumbered
<1> QED BY <1>1, <1>3, <1>4, <1>5, <1>6 DEF TransferInv, RsyncInv

(* Every step keeps it.                                                    *)
LEMMA NextInv == TransferInv /\ [Next]_vars => TransferInv'
<1> SUFFICES ASSUME TransferInv, [Next]_vars PROVE TransferInv'
  OBVIOUS
<1>1. CASE UNCHANGED vars
  BY <1>1 DEF vars, capabilityVars, jobVars, childVars, workerVars, TransferInv,
     RsyncInv, TypeOK, OneAtATime, HistoryBounded, HonestTransfer, JobsInPlace,
     WorkerInPlace, JobsNumbered, Accepted
<1>2. ASSUME NEW j \in Jobs, StartStep(j) PROVE TransferInv'
  BY <1>2, ClientMovesInv, SubmitInv DEF StartStep, ClientMoves
<1>3. CASE InvalidateCapabilities
  BY <1>3, ClientMovesInv DEF ClientMoves
<1>4. CASE Stops
  BY <1>4, StopsInv
<1>5. ASSUME NEW c \in Cancellers, NEW j \in Jobs, CancelQueued(c, j) PROVE TransferInv'
  BY <1>5, CancelQueuedInv
<1>6. CASE WorkerStep
  <2>1. CASE Spawn
    BY <2>1, WorkerMovesInv, WorkerEndsInv DEF Spawn, WorkerMoves, WorkerEnds
  <2>2. CASE WorkerExits \/ RegisterProcess \/ ReadVerdict \/ ReportTransport
    BY <2>2, WorkerMovesInv DEF WorkerMoves
  <2>3. CASE FinishRun
    BY <2>3, WorkerEndsInv DEF WorkerEnds
  <2> QED BY <1>6, <2>1, <2>2, <2>3, MarkUnknownInv, TakeJobInv, RetireInv
          DEF WorkerStep
<1> QED BY <1>1, <1>2, <1>3, <1>4, <1>5, <1>6, CloseInv DEF Next, Stops

(* Always, for every set of jobs and every limit: the queue, the table of  *)
(* jobs, the worker and whoever signals a process agree.                   *)
THEOREM TransferInvariance == Spec => []TransferInv
  BY InitInv, NextInv, PTL DEF Spec

(* rsync.py runs the jobs it accepted one at a time, each waits, runs or   *)
(* has ended in one place only, and the history keeps to MAX_HISTORY.      *)
THEOREM OneTransferAtATime == Spec => []RsyncInv
<1>1. TransferInv => RsyncInv
  BY DEF TransferInv
<1> QED BY <1>1, TransferInvariance, PTL

(* The outcome a client reads is the one rsync had: success is its         *)
(* success, a cancel was asked for, and no transfer that was signalled is  *)
(* called succeeded or failed.                                             *)
THEOREM OutcomesAreHonest == Spec => []HonestTransfer
<1>1. TransferInv => HonestTransfer
  BY DEF TransferInv
<1> QED BY <1>1, TransferInvariance, PTL

=============================================================================
