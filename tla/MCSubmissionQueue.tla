------------------------- MODULE MCSubmissionQueue -------------------------
(***************************************************************************)
(* Small instances of SubmissionQueue: a queue of three in a file of two.  *)
(***************************************************************************)
EXTENDS SubmissionQueue

CONSTANTS w1, w2, w3

\* No file, one of this version, one of a later one, whose entries are not
\* read, and one of a later one that is too large, whose entries are.
SmallFiles ==
  {[version |-> "current", entries |-> <<>>], [version |-> "current", entries |-> <<w1>>],
   [version |-> "future", entries |-> <<w2>>], [version |-> "future", entries |-> <<w1, w2, w3>>]}

\* The largest sets of faults under which each property is to hold.
MaximalFaults ==
  {{"outage", "drain_failure", "crash"},
   {"outage", "loss", "disk"},
   {"outage", "drain_failure", "loss", "disk"}}

FailingDrains == {{"outage", "drain_failure"}}

=============================================================================
