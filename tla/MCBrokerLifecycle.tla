-------------------------- MODULE MCBrokerLifecycle --------------------------
(* Small instances of BrokerLifecycle.                                     *)
EXTENDS BrokerLifecycle, TLC

Symmetry == Permutations(Clients)
=============================================================================
