-------------------------- MODULE MCSimulationRun --------------------------
(***************************************************************************)
(* Small instances of SimulationRun: two agents, up to two scenes of up to *)
(* two steps.                                                              *)
(***************************************************************************)
EXTENDS SimulationRun

CONSTANTS a, b

S(steps, mode, chooser) == [steps |-> steps, mode |-> mode, chooser |-> chooser]

P(order, philosophical, scenes) ==
  [order |-> order, philosophical |-> philosophical, scenes |-> scenes]

\* The shortest play, one of a single scene with a choice, one of two scenes.
SmallScenarios ==
  {P(<<a, b>>, {}, <<S(1, "reflection", None)>>),
   P(<<b, a>>, {a, b}, <<S(2, "decision", a)>>),
   P(<<a, b>>, {b}, <<S(1, "decision", b), S(1, "reflection", None)>>),
   P(<<a, b>>, {a}, <<S(1, "decision", a), S(1, "decision", b)>>)}

\* What the LLM may say, and what may break.
SmallFaults ==
  {{}, {"silence", "repetition"}, {"blank", "judge"}, {"error", "death", "timeout", "size", "silence"}}

=============================================================================
