----------------------- MODULE BrokerLifecycle_proofs -----------------------
(***************************************************************************)
(* Proofs about module BrokerLifecycle, for any number of clients and of   *)
(* brokers they launch: the files belong to the holder of the lock or to   *)
(* the dead, and clients find one instance or none.                        *)
(***************************************************************************)
EXTENDS BrokerLifecycle, TLAPS

Phases == Unborn \cup Starting \cup {"serve"} \cup Closing \cup Gone

(* What EndpointInv says of one broker.                                    *)
Owner(b) ==
  /\ lock = b <=> Alive(b) /\ broker[b] # "acquire"
  /\ socket = b => OwnsFiles(b) /\ broker[b] # "unlock"
  /\ metadata = b => OwnsFiles(b) /\ broker[b] \notin {"unsock", "unlock"}
  /\ broker[b] = "bind" => socket = Nobody
  /\ broker[b] \in {"announce", "serve"} => socket = b
  /\ broker[b] = "serve" => metadata = b

(* The invariant of the files, broker by broker.                           *)
LEMMA EndpointIsOwner == EndpointInv <=> TypeOK /\ \A b \in Brokers : Owner(b)
BY DEF EndpointInv, Owner

-----------------------------------------------------------------------------
(* Steps of the clients touch no file and at most start a broker.          *)
LEMMA ClientStepInv ==
  ASSUME LifecycleInv, NEW c \in Clients, Call(c) \/ ClientStep(c)
  PROVE  LifecycleInv'
<1> USE DEF Brokers, files, serverVars, clientVars
<1>0. TypeOK /\ (\A b \in Brokers : Owner(b)) /\ ClientsInStep
  BY EndpointIsOwner DEF LifecycleInv
<1>1. UNCHANGED <<calm, lock, socket, metadata>>
  BY DEF Call, ClientStep, ReadMetadata, Connect, Accept, HandleRequest,
         HandleShutdown, ShutdownDrained, NoReply, Launch, Probe, AwaitGone
<1>2. \/ /\ UNCHANGED broker
         /\ client'[c] = "launch" => broker[c] = "unborn"
      \/ /\ broker[c] = "unborn" /\ broker' = [broker EXCEPT ![c] = "acquire"]
         /\ client'[c] = "probe"
  BY <1>0 DEF Call, ClientStep, ReadMetadata, Connect, Accept, HandleRequest,
         HandleShutdown, ShutdownDrained, NoReply, Launch, Probe, AwaitGone,
         Replied, Unavailable, WhenUnavailable, Leave, TypeOK, ClientsInStep
<1>3. TypeOK'
  <2>1. /\ broker' \in [Brokers -> Phases] /\ shutdown' \cup stateClosed' \subseteq Brokers
        /\ goal' \in [Clients -> {"none", "start", "stop", "use"}]
    BY <1>0, <1>2 DEF Call, ClientStep, ReadMetadata, Connect, Accept,
         HandleRequest, HandleShutdown, ShutdownDrained, NoReply, Launch, Probe,
         AwaitGone, TypeOK, ClientsInStep, Phases, Unborn, Starting, Closing, Gone
  <2>2. /\ client' \in [Clients -> {"idle", "read", "connect", "sent", "served",
                          "draining", "launch", "probe", "wait", "done",
                          "stopped", "failed"}]
        /\ saw' \in [Clients -> Brokers \cup {Nobody, Ghost}]
        /\ peer' \in [Clients -> Brokers \cup {Nobody}]
    BY <1>0 DEF Call, ClientStep, ReadMetadata, Connect, Accept, HandleRequest,
         HandleShutdown, ShutdownDrained, NoReply, Launch, Probe, AwaitGone,
         Replied, Unavailable, WhenUnavailable, Leave, Listening, TypeOK
  <2>3. QED
    BY <1>0, <1>1, <2>1, <2>2 DEF TypeOK, Phases
<1>4. ClientsInStep'
  <2>1. \A d \in Clients \ {c} : client'[d] = client[d] /\ peer'[d] = peer[d]
    BY <1>0 DEF Call, ClientStep, ReadMetadata, Connect, Accept, HandleRequest,
         HandleShutdown, ShutdownDrained, NoReply, Launch, Probe, AwaitGone,
         Replied, Unavailable, WhenUnavailable, Leave, TypeOK
  <2>2. client'[c] \in {"sent", "served", "draining"} => peer'[c] \in Brokers
    BY <1>0 DEF Call, ClientStep, ReadMetadata, Connect, Accept, HandleRequest,
         HandleShutdown, ShutdownDrained, NoReply, Launch, Probe, AwaitGone,
         Replied, Unavailable, WhenUnavailable, Leave, Listening, TypeOK,
         ClientsInStep
  <2>3. QED
    BY <1>0, <1>2, <2>1, <2>2 DEF ClientsInStep, TypeOK
<1>5. \A b \in Brokers : Owner(b)'
  <2> SUFFICES ASSUME NEW b \in Brokers PROVE Owner(b)'
    OBVIOUS
  <2>1. broker'[b] = broker[b] \/ (broker[b] = "unborn" /\ broker'[b] = "acquire")
    BY <1>0, <1>2 DEF TypeOK
  <2>2. Owner(b)
    BY <1>0
  <2>3. QED
    BY <1>1, <2>1, <2>2 DEF Owner, OwnsFiles, Alive, Unborn, Gone
<1>6. QED
  BY <1>3, <1>4, <1>5, EndpointIsOwner DEF LifecycleInv, EndpointInv, Owner

(* A step of a broker's main thread: the positions it moves between, and   *)
(* what it does to the files there.  Every other broker stays.             *)
LEMMA BrokerStepInv ==
  ASSUME LifecycleInv, NEW b \in Brokers,
         BrokerStep(b) \/ StartFails(b) \/ Signal(b) \/ Crash(b)
  PROVE  LifecycleInv'
<1> USE DEF files, serverVars, clientVars
<1>0. TypeOK /\ (\A d \in Brokers : Owner(d)) /\ ClientsInStep
  BY EndpointIsOwner DEF LifecycleInv
<1>1. /\ UNCHANGED <<calm, goal, client, saw, peer>>
      /\ broker[b] # "unborn"
      /\ \A d \in Brokers \ {b} : broker'[d] = broker[d]
  BY <1>0 DEF BrokerStep, StartFails, Signal, Crash, AcquireSingleton,
       RemoveStaleSocket, Bind, WriteMetadata, LeaveLoop, CloseState, Drained,
       RemoveMetadata, RemoveSocket, Unlock, Step, Alive, Unborn, Starting, TypeOK
<1>2. TypeOK'
  BY <1>0 DEF BrokerStep, StartFails, Signal, Crash, AcquireSingleton,
       RemoveStaleSocket, Bind, WriteMetadata, LeaveLoop, CloseState, Drained,
       RemoveMetadata, RemoveSocket, Unlock, Step, Unborn, Starting, Closing,
       Gone, TypeOK
<1>3. ClientsInStep'
  BY <1>0, <1>1 DEF ClientsInStep, Brokers
<1>4. Owner(b)'
  <2>1. Owner(b)
    BY <1>0
  <2>2. CASE AcquireSingleton(b) \/ RemoveStaleSocket(b) \/ Bind(b)
    BY <1>0, <2>1, <2>2, LifecycleAssumption
    DEF AcquireSingleton, RemoveStaleSocket, Bind, Step, Owner, OwnsFiles, Alive,
        Unborn, Gone, Brokers, TypeOK
  <2>3. CASE WriteMetadata(b) \/ LeaveLoop(b) \/ CloseState(b) \/ Drained(b)
    BY <1>0, <2>1, <2>3 DEF WriteMetadata, LeaveLoop, CloseState, Drained, Step,
         Owner, OwnsFiles, Alive, Unborn, Gone, TypeOK
  <2>4. CASE RemoveMetadata(b) \/ RemoveSocket(b) \/ Unlock(b)
    BY <1>0, <2>1, <2>4, LifecycleAssumption
    DEF RemoveMetadata, RemoveSocket, Unlock, Step, Owner, OwnsFiles, Alive,
        Unborn, Gone, Brokers, TypeOK
  <2>5. CASE StartFails(b) \/ Signal(b) \/ Crash(b)
    BY <1>0, <2>1, <2>5, LifecycleAssumption
    DEF StartFails, Signal, Crash, Starting, Owner, OwnsFiles, Alive, Unborn, Gone,
        Brokers, TypeOK
  <2>6. QED
    BY <2>2, <2>3, <2>4, <2>5 DEF BrokerStep
<1>5. ASSUME NEW d \in Brokers \ {b} PROVE Owner(d)'
  <2>1. Owner(b) /\ Owner(d) /\ broker'[d] = broker[d]
    BY <1>0, <1>1
  <2>2. CASE AcquireSingleton(b) \/ RemoveStaleSocket(b) \/ Bind(b)
    BY <2>1, <2>2, LifecycleAssumption
    DEF AcquireSingleton, RemoveStaleSocket, Bind, Step, Owner, OwnsFiles, Alive,
        Unborn, Gone, Brokers
  <2>3. CASE WriteMetadata(b) \/ LeaveLoop(b) \/ CloseState(b) \/ Drained(b)
    BY <2>1, <2>3 DEF WriteMetadata, LeaveLoop, CloseState, Drained, Step,
         Owner, OwnsFiles, Alive, Unborn, Gone
  <2>4. CASE RemoveMetadata(b) \/ RemoveSocket(b) \/ Unlock(b)
    BY <2>1, <2>4, LifecycleAssumption
    DEF RemoveMetadata, RemoveSocket, Unlock, Step, Owner, OwnsFiles, Alive,
        Unborn, Gone, Brokers
  <2>5. CASE StartFails(b) \/ Signal(b) \/ Crash(b)
    BY <2>1, <2>5, LifecycleAssumption
    DEF StartFails, Signal, Crash, Starting, Owner, OwnsFiles, Alive, Unborn, Gone,
        Brokers
  <2>6. QED
    BY <2>2, <2>3, <2>4, <2>5 DEF BrokerStep
<1>6. QED
  BY <1>2, <1>3, <1>4, <1>5, EndpointIsOwner DEF LifecycleInv, EndpointInv, Owner

-----------------------------------------------------------------------------
(* Whatever files an earlier host left, no broker of this one owns them    *)
(* yet.                                                                    *)
LEMMA InitInv == Init => LifecycleInv
BY LifecycleAssumption DEF Init, LifecycleInv, EndpointInv, ClientsInStep, TypeOK,
     OwnsFiles, Alive, Unborn, Starting, Closing, Gone, Brokers

(* The invariant is inductive.                                             *)
LEMMA NextInv == LifecycleInv /\ [Next]_vars => LifecycleInv'
<1>1. LifecycleInv /\ UNCHANGED vars => LifecycleInv'
  BY DEF vars, files, serverVars, clientVars, LifecycleInv, EndpointInv,
         ClientsInStep, TypeOK, OwnsFiles, Alive
<1>2. QED
  BY <1>1, ClientStepInv, BrokerStepInv DEF Next

(* However many brokers clients start at once, over whatever files: only   *)
(* the holder of the lock listens, and it owns the files it announced.     *)
THEOREM LifecycleInvariance == Spec => []LifecycleInv
BY InitInv, NextInv, PTL DEF Spec

(* A socket or metadata file belongs to the broker that holds the lock, to *)
(* one that died, or to no one: a stale file is never taken for a live     *)
(* broker's.                                                               *)
THEOREM FilesHaveOwners == Spec => []EndpointInv
<1>1. LifecycleInv => EndpointInv
  BY DEF LifecycleInv
<1>2. QED
  BY <1>1, LifecycleInvariance, PTL

-----------------------------------------------------------------------------
(* The refinement of Singleton.                                            *)

(* Who listens has the lock, and the socket leads there.                   *)
LEMMA ServingIs ==
  ASSUME LifecycleInv
  PROVE  /\ \A b \in Listening : Serving = b
         /\ Listening = {} => Serving = Nobody
<1>1. \A b \in Listening : socket = b
  BY DEF LifecycleInv, EndpointInv, Listening
<1>2. \A b \in Listening : Reachable = {b}
  BY <1>1 DEF Reachable
<1>3. Listening = {} => Reachable = {}
  BY DEF Reachable
<1>4. QED
  BY <1>2, <1>3 DEF Serving

(* A step is one of Singleton, or changes neither who serves nor who is    *)
(* gone.                                                                   *)
LEMMA StepIsPromised ==
  ASSUME LifecycleInv, LifecycleInv', [Next]_vars
  PROVE  [Promise!Next]_<<Serving, Past>>
<1> USE DEF files, serverVars, clientVars
<1>0. TypeOK /\ (\A d \in Brokers : Owner(d)) /\ ClientsInStep
  BY EndpointIsOwner DEF LifecycleInv
(* what Singleton tells apart, from the positions of the brokers           *)
<1>1. /\ \A d \in Listening : Serving = d
      /\ Listening = {} => Serving = Nobody
  BY ServingIs
<1>2. /\ \A d \in Listening' : Serving' = d
      /\ Listening' = {} => Serving' = Nobody
  <2>1. \A d \in Listening' : Reachable' = {d}
    BY DEF LifecycleInv, EndpointInv, Listening, Reachable
  <2>2. Listening' = {} => Reachable' = {}
    BY DEF Reachable
  <2>3. QED
    BY <2>1, <2>2 DEF Serving
<1>3. \A d \in Listening : lock = d /\ d \notin Past
  BY <1>0 DEF Listening, Past, Owner, Alive, Unborn, Closing, Gone
<1>4. \A d \in Listening' : d \notin Past'
  BY DEF Listening, Past, Closing, Gone
<1>5. ASSUME Listening' = Listening, Past' = Past
      PROVE  UNCHANGED <<Serving, Past>>
  BY <1>1, <1>2, <1>5
<1>6. ASSUME NEW b \in Brokers, Listening' = Listening, b \notin Listening,
             Past' = Past \cup {b}
      PROVE  Promise!Decline(b) \/ UNCHANGED <<Serving, Past>>
  <2>1. Serving # b
    BY <1>1, <1>6, LifecycleAssumption DEF Brokers
  <2>2. Serving' = Serving
    BY <1>1, <1>2, <1>6
  <2>3. QED
    BY <1>6, <2>1, <2>2 DEF Promise!Decline
<1>7. ASSUME NEW b \in Listening, Listening' = {}, Past' = Past \cup {b}
      PROVE  Promise!Vanish
  BY <1>1, <1>2, <1>7, LifecycleAssumption DEF Promise!Vanish, Listening, Brokers
<1>8. ASSUME NEW b \in Brokers, Listening = {}, Listening' = {b}, b \notin Past,
             Past' = Past
      PROVE  Promise!Appear(b)
  BY <1>1, <1>2, <1>8 DEF Promise!Appear
<1>9. ASSUME NEW b \in Brokers, lock = b, b \notin Listening
      PROVE  Listening = {}
  BY <1>3, <1>9
<1>10. ASSUME NEW b \in Listening PROVE Listening = {b}
  BY <1>3, <1>10
<1>11. ASSUME NEW c \in Clients, Call(c) \/ ClientStep(c)
       PROVE  UNCHANGED <<Serving, Past>>
  <2>1. UNCHANGED broker
        \/ (broker[c] = "unborn" /\ broker' = [broker EXCEPT ![c] = "acquire"])
    BY <1>0, <1>11 DEF Call, ClientStep, ReadMetadata, Connect, Accept,
         HandleRequest, HandleShutdown, ShutdownDrained, NoReply, Launch, Probe,
         AwaitGone, ClientsInStep
  <2>2. Listening' = Listening /\ Past' = Past
    BY <1>0, <2>1 DEF Listening, Past, Closing, Gone, Brokers, TypeOK
  <2>3. QED
    BY <1>5, <2>2
<1>12. ASSUME NEW b \in Brokers, BrokerStep(b) \/ StartFails(b) \/ Signal(b) \/ Crash(b)
       PROVE  [Promise!Next]_<<Serving, Past>>
  <2> DEFINE from == broker[b]  to == broker'[b]
  <2>1. /\ broker \in [Brokers -> Phases]
        /\ broker' = [broker EXCEPT ![b] = to]
    BY <1>0, <1>12 DEF BrokerStep, StartFails, Signal, Crash, AcquireSingleton,
         RemoveStaleSocket, Bind, WriteMetadata, LeaveLoop, CloseState, Drained,
         RemoveMetadata, RemoveSocket, Unlock, Step, TypeOK, Phases
  <2>2. \A d \in Brokers \ {b} : broker'[d] = broker[d]
    BY <2>1
  <2> HIDE DEF from, to
  <2>3. CASE /\ from \in {"announce", "serve"} <=> to \in {"announce", "serve"}
             /\ from \in Closing \cup Gone <=> to \in Closing \cup Gone
    <3>1. Listening' = Listening /\ Past' = Past
      BY <2>2, <2>3 DEF Listening, Past, from, to
    <3>2. QED
      BY <1>5, <3>1
  <2>4. CASE /\ from \in {"acquire", "unlink", "bind"}
             /\ to \in Closing \cup Gone
    <3>1. Listening' = Listening /\ b \notin Listening /\ Past' = Past \cup {b}
      BY <2>2, <2>4 DEF Listening, Past, Closing, Gone, from, to
    <3>2. QED
      BY <1>6, <3>1 DEF Promise!Next
  <2>5. CASE from \in {"announce", "serve"} /\ to \in Closing \cup Gone
    <3>1. b \in Listening
      BY <2>5 DEF Listening, from
    <3>2. Listening' = {} /\ Past' = Past \cup {b}
      BY <1>10, <2>2, <2>5, <3>1 DEF Listening, Past, Closing, Gone, from, to
    <3>3. QED
      BY <1>7, <3>1, <3>2 DEF Promise!Next
  <2>6. CASE from = "bind" /\ to = "announce"
    <3>1. b \notin Listening /\ lock = b /\ b \notin Past
      BY <1>0, <2>6 DEF Listening, Past, Closing, Gone, Owner, Alive, Unborn, from
    <3>2. Listening = {}
      BY <1>9, <3>1
    <3>3. Listening' = {b} /\ Past' = Past
      BY <2>2, <2>6, <3>2 DEF Listening, Past, Closing, Gone, from, to
    <3>4. QED
      BY <1>8, <3>1, <3>2, <3>3 DEF Promise!Next
  <2>7. QED
    BY <1>0, <1>12, <2>3, <2>4, <2>5, <2>6
    DEF BrokerStep, StartFails, Signal, Crash, AcquireSingleton,
        RemoveStaleSocket, Bind, WriteMetadata, LeaveLoop, CloseState, Drained,
        RemoveMetadata, RemoveSocket, Unlock, Step, Starting, Closing, Gone,
        Alive, Unborn, TypeOK, from, to
<1>13. CASE UNCHANGED vars
  BY <1>5, <1>13 DEF vars, Listening, Past
<1>14. QED
  BY <1>11, <1>12, <1>13 DEF Next

(* Clients that connect find one broker or none, and one that is gone      *)
(* stays gone: the lock, the bind and the order of the removals implement  *)
(* the promise of Singleton.                                               *)
THEOREM OneBrokerAtATime == Spec => ImplementsSingleton
<1>1. Init => Promise!Init
  BY DEF Init, Promise!Init, Serving, Reachable, Listening, Past, Closing, Gone,
         Brokers
<1>2. LifecycleInv /\ LifecycleInv' /\ [Next]_vars
        => [Promise!Next]_<<Serving, Past>>
  BY StepIsPromised
<1>3. QED
  BY <1>1, <1>2, LifecycleInvariance, PTL DEF Spec, ImplementsSingleton, Promise!Spec

=============================================================================
