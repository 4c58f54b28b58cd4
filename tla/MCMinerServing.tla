--------------------------- MODULE MCMinerServing ---------------------------
(***************************************************************************)
(* Small instances of MinerServing: two uids, two callers, two configs   *)
(* and three epochs of the chain.                                          *)
(***************************************************************************)
EXTENDS MinerServing, TLC

CONSTANTS a, b, f1, f2

Quiet == [testlab |-> FALSE, mainnet |-> TRUE, directory |-> TRUE, address |-> TRUE, valid |-> {f1, f2}]

\* The operator's settings: on mainnet and in the test lab, with and without
\* configs, and those with which the miner refuses to start.
SmallSettings ==
  {Quiet, [Quiet EXCEPT !.testlab = TRUE, !.mainnet = FALSE, !.valid = {f1}],
   [Quiet EXCEPT !.testlab = TRUE], [Quiet EXCEPT !.directory = FALSE],
   [Quiet EXCEPT !.address = FALSE]}

At(first, second, permitted) ==
  [owner |-> (1 :> first @@ 2 :> second), permit |-> [u \in 1 .. 2 |-> u \in permitted]]

\* Permits come and go; a uid changes hands; a caller is deregistered.
SmallHistories ==
  {<<At(a, b, {1}), At(a, b, {2}), At(a, b, {})>>,
   <<At(a, b, {1}), At(b, a, {2})>>,
   <<At(a, None, {1}), At(None, b, {2})>>}

MaximalFaults == {{"timeout", "error", "banner"}, {"hang"}}

=============================================================================
