-------------------------- MODULE MCVoteRetention --------------------------
(***************************************************************************)
(* Small instances of VoteRetention: a tempo of three blocks.              *)
(***************************************************************************)
EXTENDS VoteRetention

\* The largest sets of faults under which each property is to hold.
MaximalFaults ==
  {{}, {"error", "away", "refusal", "disk"}, {"error", "refusal", "burn", "stall", "crash", "torn"}}

\* A floor of a half: too few reports, below the floor, at it and above.
SmallReports == [total : {0, 1}, rate : {0}] \union [total : {1}, rate : {1, 2}]

=============================================================================
