---------------------------- MODULE ExecService ----------------------------
(***************************************************************************)
(* What ExecJobManager (sshbridge/exec_jobs.py) promises its callers,      *)
(* without queue, workers or locks: an accepted command starts at most     *)
(* once, at most Slots commands run at a time, and once a job is over its  *)
(* command neither runs nor starts.                                        *)
(***************************************************************************)
EXTENDS Integers, FiniteSets

CONSTANTS Jobs, Slots

VARIABLE phase

Phases == {"new", "waiting", "running", "over"}
Running(p) == {j \in Jobs : p[j] = "running"}

Init == phase = [j \in Jobs |-> "new"]

(* Several jobs may move in one step: those a queue timeout or a failed    *)
(* reconnect ends together.  Only one command starts at a time.            *)
Moves == {<<"new", "waiting">>, <<"waiting", "running">>,
          <<"waiting", "over">>, <<"running", "over">>}

Next ==
  /\ phase' \in [Jobs -> Phases]
  /\ \A j \in Jobs : phase'[j] # phase[j] => <<phase[j], phase'[j]>> \in Moves
  /\ Cardinality(Running(phase')) <= Slots

Spec == Init /\ [][Next]_phase
=============================================================================
