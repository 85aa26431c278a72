--------------------------- MODULE BrokerLifecycle ---------------------------
(***************************************************************************)
(* The broker process of a profile (BrokerServer, sshbridge/broker.py) and *)
(* its clients (BrokerClient, broker_client.py): a lock file, a socket and *)
(* a metadata file decide who serves; clients find, start and stop the     *)
(* broker through the files alone.                                         *)
(*                                                                         *)
(* Every member of Clients makes one call and launches at most one broker, *)
(* the instance of the same name.  Ghost is an instance that died before   *)
(* and may have left its files behind.  An access to one file is one       *)
(* action.  Time is not counted: in a calm world nothing crashes, times    *)
(* out, fails to start or is told to stop; otherwise all that may happen.  *)
(***************************************************************************)
EXTENDS FiniteSets

CONSTANTS
  Clients,
  Ghost,   \* a broker of the past
  Nobody,  \* no file, no holder, no peer
  Worlds   \* whether the world may be calm

Brokers == Clients

ASSUME LifecycleAssumption ==
  Ghost \notin Clients \cup {Nobody} /\ Nobody \notin Clients /\ Worlds \subseteq BOOLEAN

VARIABLES
  calm,
  lock,        \* holder of the flock on the lock file
  socket,      \* the instance that bound the socket path
  metadata,    \* the instance_id in the metadata file
  broker,      \* where each broker's main thread stands
  shutdown,    \* brokers whose shutdown_event is set
  stateClosed, \* brokers with BrokerState._closed
  goal,        \* what each client wants
  client,      \* where it stands
  saw,         \* the instance_id it read
  peer         \* the instance it is connected to

files == <<lock, socket, metadata>>
serverVars == <<broker, shutdown, stateClosed>>
clientVars == <<goal, client, saw, peer>>
vars == <<calm, files, serverVars, clientVars>>

Unborn    == {"unborn"}
Starting  == {"acquire", "unlink", "bind", "announce"}
Closing   == {"close", "drain", "unmeta", "unsock", "unlock"}
Gone      == {"exited", "crashed"}
Alive(b)  == broker[b] \notin Unborn \cup Gone
Listening == {b \in Brokers : broker[b] \in {"announce", "serve"}}

Init ==
  /\ calm \in Worlds
  /\ lock = Nobody
  /\ socket \in {Nobody, Ghost} /\ metadata \in {Nobody, Ghost}
  /\ broker = [b \in Brokers |-> "unborn"]
  /\ shutdown = {} /\ stateClosed = {}
  /\ goal = [c \in Clients |-> "none"] /\ client = [c \in Clients |-> "idle"]
  /\ saw = [c \in Clients |-> Nobody] /\ peer = [c \in Clients |-> Nobody]

-----------------------------------------------------------------------------
(* The broker                                                              *)

Step(b, from, to) == broker[b] = from /\ broker' = [broker EXCEPT ![b] = to]

(* Mutant: the lock is waited for and not tried, and taken from its holder. *)
AcquireAnyway(b) ==
  /\ Step(b, "acquire", "unlink") /\ lock' = b
  /\ UNCHANGED <<calm, socket, metadata, shutdown, stateClosed, clientVars>>

(* flock(LOCK_EX | LOCK_NB)                                                *)
AcquireSingleton(b) ==
  /\ \/ lock = Nobody /\ lock' = b /\ Step(b, "acquire", "unlink")
     \/ lock # Nobody /\ UNCHANGED lock /\ Step(b, "acquire", "exited")
  /\ UNCHANGED <<calm, socket, metadata, shutdown, stateClosed, clientVars>>

RemoveStaleSocket(b) ==
  /\ Step(b, "unlink", "bind")
  /\ socket' = Nobody
  /\ UNCHANGED <<calm, lock, metadata, shutdown, stateClosed, clientVars>>

(* bind and listen; a path that exists makes bind fail                     *)
Bind(b) ==
  /\ socket = Nobody /\ socket' = b
  /\ Step(b, "bind", "announce")
  /\ UNCHANGED <<calm, lock, metadata, shutdown, stateClosed, clientVars>>

(* write_metadata; then _install_signals                                   *)
WriteMetadata(b) ==
  /\ Step(b, "announce", "serve")
  /\ metadata' = b
  /\ UNCHANGED <<calm, lock, socket, shutdown, stateClosed, clientVars>>

(* an OSError on the way: the finally clause of serve_forever              *)
StartFails(b) ==
  /\ ~calm /\ broker[b] \in Starting \ {"acquire"}
  /\ broker' = [broker EXCEPT ![b] = "close"]
  /\ shutdown' = shutdown \cup {b}
  /\ UNCHANGED <<calm, files, stateClosed, clientVars>>

(* SIGTERM once the handlers are installed                                 *)
Signal(b) ==
  /\ ~calm /\ broker[b] = "serve"
  /\ shutdown' = shutdown \cup {b}
  /\ UNCHANGED <<calm, files, broker, stateClosed, clientVars>>

(* the accept loop ends, and the listener is closed                        *)
LeaveLoop(b) ==
  /\ b \in shutdown /\ Step(b, "serve", "close")
  /\ UNCHANGED <<calm, files, shutdown, stateClosed, clientVars>>

(* BrokerState.close on the main thread: one that is under way elsewhere   *)
(* is not waited for                                                       *)
CloseState(b) ==
  /\ Step(b, "close", IF b \in stateClosed THEN "unmeta" ELSE "drain")
  /\ stateClosed' = stateClosed \cup {b}
  /\ UNCHANGED <<calm, files, shutdown, clientVars>>

Drained(b) ==
  /\ Step(b, "drain", "unmeta")
  /\ UNCHANGED <<calm, files, shutdown, stateClosed, clientVars>>

RemoveMetadata(b) ==
  /\ Step(b, "unmeta", "unsock")
  /\ metadata' = Nobody
  /\ UNCHANGED <<calm, lock, socket, shutdown, stateClosed, clientVars>>

(* Mutant: the lock is released before the socket is removed.              *)
UnlockEarly(b) ==
  /\ Step(b, "unsock", "unlock")
  /\ lock' = Nobody
  /\ UNCHANGED <<calm, socket, metadata, shutdown, stateClosed, clientVars>>

RemoveSocket(b) ==
  /\ Step(b, "unsock", "unlock")
  /\ socket' = Nobody
  /\ UNCHANGED <<calm, lock, metadata, shutdown, stateClosed, clientVars>>

(* the end of close, and of the process with its daemon threads            *)
Unlock(b) ==
  /\ Step(b, "unlock", "exited")
  /\ lock' = Nobody
  /\ UNCHANGED <<calm, socket, metadata, shutdown, stateClosed, clientVars>>

(* SIGKILL, or SIGTERM before the handlers are installed: the kernel frees *)
(* the lock, nobody the files                                              *)
Crash(b) ==
  /\ ~calm /\ Alive(b)
  /\ broker' = [broker EXCEPT ![b] = "crashed"]
  /\ lock' = IF lock = b THEN Nobody ELSE lock
  /\ UNCHANGED <<calm, socket, metadata, shutdown, stateClosed, clientVars>>

BrokerStep(b) ==
  \/ AcquireSingleton(b) \/ RemoveStaleSocket(b) \/ Bind(b) \/ WriteMetadata(b)
  \/ LeaveLoop(b) \/ CloseState(b) \/ Drained(b)
  \/ RemoveMetadata(b) \/ RemoveSocket(b) \/ Unlock(b)

-----------------------------------------------------------------------------
(* The client                                                              *)

(* ensure_started (a ping), stop (shutdown), or another request            *)
Call(c) ==
  /\ client[c] = "idle"
  /\ \E g \in {"start", "stop", "use"} :
       /\ calm => g # "stop"
       /\ goal' = [goal EXCEPT ![c] = g]
  /\ client' = [client EXCEPT ![c] = "read"]
  /\ UNCHANGED <<calm, files, serverVars, saw, peer>>

(* Mutant: the starter that lost the race gives up.                        *)
GivesUp(c) == IF goal[c] = "start" /\ broker[c] = "unborn" THEN "launch" ELSE "failed"

(* BROKER_UNAVAILABLE: a starter launches a broker, or goes on probing;    *)
(* stop reports "not running"                                              *)
WhenUnavailable(c) ==
  IF goal[c] # "start" THEN "failed"
  ELSE IF broker[c] = "unborn" THEN "launch" ELSE "probe"

(* request returns or raises                                               *)
Leave(c, next) ==
  /\ client' = [client EXCEPT ![c] = next]
  /\ saw' = [saw EXCEPT ![c] = Nobody]
  /\ peer' = [peer EXCEPT ![c] = Nobody]

Unavailable(c) == Leave(c, WhenUnavailable(c))

ReadMetadata(c) ==
  /\ client[c] = "read"
  /\ IF metadata = Nobody
     THEN Unavailable(c)
     ELSE /\ client' = [client EXCEPT ![c] = "connect"]
          /\ saw' = [saw EXCEPT ![c] = metadata]
          /\ UNCHANGED peer
  /\ UNCHANGED <<calm, files, serverVars, goal>>

Connect(c) ==
  /\ client[c] = "connect"
  /\ IF socket \in Listening
     THEN /\ client' = [client EXCEPT ![c] = "sent"]
          /\ peer' = [peer EXCEPT ![c] = socket]
          /\ UNCHANGED saw
     ELSE Unavailable(c)
  /\ UNCHANGED <<calm, files, serverVars, goal>>

(* the accept loop starts a thread for the connection                      *)
Accept(c) ==
  /\ client[c] = "sent" /\ broker[peer[c]] = "serve"
  /\ client' = [client EXCEPT ![c] = "served"]
  /\ UNCHANGED <<calm, files, serverVars, goal, saw, peer>>

(* the identity check of the reply                                         *)
Replied(c) ==
  IF peer[c] # saw[c] THEN Unavailable(c)
  ELSE Leave(c, IF goal[c] = "stop" THEN "wait" ELSE "done")

(* _handle_client for ping and other requests; it looks at no shutdown     *)
HandleRequest(c) ==
  /\ client[c] = "served" /\ Alive(peer[c]) /\ goal[c] # "stop"
  /\ Replied(c)
  /\ UNCHANGED <<calm, files, broker, shutdown, stateClosed, goal>>

(* ... for shutdown: BrokerState.close, which is left at once if another   *)
(* thread has called it, and then shutdown_event                           *)
HandleShutdown(c) ==
  /\ client[c] = "served" /\ Alive(peer[c]) /\ goal[c] = "stop"
  /\ IF peer[c] \in stateClosed
     THEN shutdown' = shutdown \cup {peer[c]} /\ Replied(c) /\ UNCHANGED stateClosed
     ELSE /\ stateClosed' = stateClosed \cup {peer[c]}
          /\ client' = [client EXCEPT ![c] = "draining"]
          /\ UNCHANGED <<shutdown, saw, peer>>
  /\ UNCHANGED <<calm, files, broker, goal>>

ShutdownDrained(c) ==
  /\ client[c] = "draining" /\ Alive(peer[c])
  /\ shutdown' = shutdown \cup {peer[c]}
  /\ Replied(c)
  /\ UNCHANGED <<calm, files, broker, stateClosed, goal>>

(* the connection is reset, or the client's timeout is over                *)
NoReply(c) ==
  /\ client[c] \in {"sent", "served", "draining"}
  /\ \/ ~calm
     \/ ~Alive(peer[c])
     \/ client[c] = "sent" /\ peer[c] \notin Listening
  /\ Unavailable(c)
  /\ UNCHANGED <<calm, files, serverVars, goal>>

(* Popen: a new process; it detaches itself                                *)
Launch(c) ==
  /\ client[c] = "launch"
  /\ client' = [client EXCEPT ![c] = "probe"]
  /\ broker' = [broker EXCEPT ![c] = "acquire"]
  /\ UNCHANGED <<calm, files, shutdown, stateClosed, goal, saw, peer>>

(* the loop of ensure_started, up to its deadline                          *)
Probe(c) ==
  /\ client[c] = "probe"
  /\ \E next \in {"read", "failed"} :
       /\ calm => next = "read"
       /\ client' = [client EXCEPT ![c] = next]
  /\ UNCHANGED <<calm, files, serverVars, goal, saw, peer>>

(* stop waits for the socket path to go, up to its deadline                *)
AwaitGone(c) ==
  /\ client[c] = "wait"
  /\ client' = [client EXCEPT ![c] = IF socket = Nobody THEN "stopped" ELSE "done"]
  /\ UNCHANGED <<calm, files, serverVars, goal, saw, peer>>

ClientStep(c) ==
  \/ ReadMetadata(c) \/ Connect(c) \/ Accept(c) \/ HandleRequest(c)
  \/ HandleShutdown(c) \/ ShutdownDrained(c) \/ NoReply(c)
  \/ Launch(c) \/ Probe(c) \/ AwaitGone(c)

-----------------------------------------------------------------------------
Next ==
  \/ \E c \in Clients : Call(c) \/ ClientStep(c)
  \/ \E b \in Brokers : BrokerStep(b) \/ StartFails(b) \/ Signal(b) \/ Crash(b)

Spec == Init /\ [][Next]_vars

(* A process that lives runs on; a client in a call does not rest.         *)
Fairness == \A c \in Clients : WF_vars(BrokerStep(c)) /\ WF_vars(ClientStep(c))

FairSpec == Spec /\ Fairness
-----------------------------------------------------------------------------
(* Properties.                                                             *)

(* The types of the files, flags and positions.                            *)
TypeOK ==
  /\ calm \in BOOLEAN
  /\ lock \in Brokers \cup {Nobody}
  /\ {socket, metadata} \subseteq Brokers \cup {Nobody, Ghost}
  /\ broker \in [Brokers -> Unborn \cup Starting \cup {"serve"} \cup Closing \cup Gone]
  /\ shutdown \cup stateClosed \subseteq Brokers
  /\ goal \in [Clients -> {"none", "start", "stop", "use"}]
  /\ client \in [Clients -> {"idle", "read", "connect", "sent", "served", "draining",
                             "launch", "probe", "wait", "done", "stopped", "failed"}]
  /\ saw \in [Clients -> Brokers \cup {Nobody, Ghost}]
  /\ peer \in [Clients -> Brokers \cup {Nobody}]

(* The files belong to whoever holds the lock, or to the dead: only the    *)
(* holder listens, its bind never finds the path taken, nobody removes a   *)
(* file of a living broker, and one that exits in order leaves none.       *)
OwnsFiles(b) == lock = b \/ broker[b] = "crashed"

EndpointInv ==
  /\ TypeOK
  /\ \A b \in Brokers :
       /\ lock = b <=> Alive(b) /\ broker[b] # "acquire"
       /\ socket = b => OwnsFiles(b) /\ broker[b] # "unlock"
       /\ metadata = b => OwnsFiles(b) /\ broker[b] \notin {"unsock", "unlock"}
       /\ broker[b] = "bind" => socket = Nobody
       /\ broker[b] \in {"announce", "serve"} => socket = b
       /\ broker[b] = "serve" => metadata = b

(* Several clients start brokers at once, over the files of a dead one or  *)
(* over none: in a calm world every one of them gets an answer.            *)
StartersServed ==
  \A c \in Clients : calm /\ goal[c] = "start" ~> client[c] = "done"

(* Clients find one instance or none: see Singleton.                       *)
Reachable == Listening \cap {socket}

Serving == IF Reachable = {} THEN Nobody ELSE CHOOSE b \in Reachable : TRUE
Past    == {b \in Brokers : broker[b] \in Closing \cup Gone}

Promise == INSTANCE Singleton WITH
  Instances <- Brokers, serving <- Serving, past <- Past

ImplementsSingleton == Promise!Spec

-----------------------------------------------------------------------------
(* The inductive invariant: beside the files, a client in a request has a  *)
(* broker for a peer, and one that launches has not launched before.       *)
ClientsInStep ==
  \A c \in Clients :
    /\ client[c] \in {"sent", "served", "draining"} => peer[c] \in Brokers
    /\ client[c] = "launch" => broker[c] = "unborn"

LifecycleInv == EndpointInv /\ ClientsInStep
=============================================================================
