------------------------------ MODULE Singleton ------------------------------
(***************************************************************************)
(* What the brokers of one profile promise their clients: whoever connects *)
(* finds one instance or none, and an instance that is gone stays gone.    *)
(***************************************************************************)
CONSTANTS Instances, Nobody

VARIABLES
  serving, \* the instance that accepts connections, or Nobody
  past     \* the instances that have accepted some, or never will

Init == serving = Nobody /\ past = {}

Appear(b) ==
  /\ serving = Nobody /\ b \notin past
  /\ serving' = b /\ UNCHANGED past

Vanish ==
  /\ serving # Nobody
  /\ past' = past \cup {serving} /\ serving' = Nobody

Decline(b) ==
  /\ b # serving /\ past' = past \cup {b} /\ UNCHANGED serving

Next == Vanish \/ \E b \in Instances : Appear(b) \/ Decline(b)

Spec == Init /\ [][Next]_<<serving, past>>
=============================================================================
