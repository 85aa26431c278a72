--------------------------- MODULE CircuitBreaker ---------------------------
(***************************************************************************)
(* What BrokerState (sshbridge/broker.py) promises about connecting,       *)
(* without its threads and locks: attempts are made one at a time.  A      *)
(* request attempts only while the broker is DISCONNECTED: it never was    *)
(* connected, or a reconnect gave up a working connection and was then     *)
(* turned away by the rate limit.  Once an attempt failed or a connection  *)
(* was lost, the circuit is open, and only an explicit reconnect attempts  *)
(* again.  A failure, whenever reported, opens the circuit; only an        *)
(* attempt that succeeds closes it.                                        *)
(***************************************************************************)
VARIABLES circuit, attempt

Init == circuit = "DISCONNECTED" /\ attempt = "none"

RequestAttempt ==
  /\ attempt = "none" /\ circuit = "DISCONNECTED"
  /\ attempt' = "request" /\ circuit' = "CONNECTING"

(* A reconnect gives up a connection before it tries a new one.  It may be *)
(* refused the try: then the next request makes it.                        *)
GiveUpConnection ==
  /\ attempt = "none" /\ circuit = "READY"
  /\ circuit' = "DISCONNECTED" /\ UNCHANGED attempt

ManualAttempt ==
  /\ attempt = "none" /\ circuit \in {"DISCONNECTED", "OPEN"}
  /\ attempt' = "manual" /\ circuit' = "HALF_OPEN"

(* Also over a failure that was reported while the attempt was under way.  *)
Succeed ==
  /\ attempt # "none"
  /\ attempt' = "none" /\ circuit' = "READY"

(* A failure is reported by the attempt itself or by a user of the         *)
(* connection; the attempt under way ends separately.                      *)
ReportFailure == circuit' = "OPEN" /\ UNCHANGED attempt

Fail ==
  /\ attempt # "none" /\ circuit = "OPEN"
  /\ attempt' = "none" /\ UNCHANGED circuit

Next ==
  \/ RequestAttempt \/ GiveUpConnection \/ ManualAttempt
  \/ Succeed \/ ReportFailure \/ Fail

Spec == Init /\ [][Next]_<<circuit, attempt>>
=============================================================================
