------------------------ MODULE MCSimulationRunner ------------------------
(***************************************************************************)
(* Small instances of SimulationRunner: a pool of two, two refill threads. *)
(***************************************************************************)
EXTENDS SimulationRunner

\* The largest sets of faults under which each property is to hold.
MaximalFaults ==
  {{"setup", "create", "crash"}, {"outage"}, {"outage", "create", "start", "remove"}}

=============================================================================
