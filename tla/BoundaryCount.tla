--------------------------- MODULE BoundaryCount ---------------------------
(***************************************************************************)
(* VoteRetention with a history variable: what the tempo boundaries, which *)
(* read the last weights set, make of the passes.                          *)
(***************************************************************************)
EXTENDS VoteRetention

VARIABLE owed  \* owed[m]: boundaries within which m's pass is still to be counted

\* Nothing, a first boundary that counts the pass, a second one, or one too many.
Owed == 0 .. 3

CountInit == Init /\ owed = [m \in Miners |-> 0]

\* What is owed to m once a boundary has counted the miners voted for.
Count(m) == IF m \in vote \/ owed[m] = 0 THEN 0 ELSE Up(owed[m], 3)

\* In ramp-up, a pass need not be counted.
Passed(m) ==
  /\ Validated(m, "pass")
  /\ owed' = IF owed[m] = 0 /\ ~ inRampUp THEN [owed EXCEPT ![m] = 1] ELSE owed

Counted ==
  /\ Block
  /\ owed' = IF pos' = 0 THEN [m \in Miners |-> Count(m)] ELSE owed

Uncounted ==
  /\ \/ Sync \/ NoneServing \/ ReadBlock \/ AllValidated \/ Weights \/ Abort \/ Stall \/ Crash
     \/ \E m \in Miners : NoResponse(m) \/ Validated(m, "fail")
  /\ UNCHANGED owed

CountNext ==
  \/ \E m \in Miners : Passed(m)
  \/ Counted
  \/ Uncounted

CountSpec == CountInit /\ [][CountNext]_<<vars, owed>>

-----------------------------------------------------------------------------
(***************************************************************************)
(* "One full tempo is the minimum that guarantees survival across one      *)
(* boundary" (constants.py): of the two boundaries after a pass once the   *)
(* ramp-up is over, one counts it.                                         *)
(***************************************************************************)
EveryPassIsCounted == \A m \in Miners : owed[m] < 3

=============================================================================
