------------------------ MODULE MCSubmissionPipeline ------------------------
(***************************************************************************)
(* Small instances of SubmissionPipeline: two submissions share a config,  *)
(* two share a miner.                                                      *)
(***************************************************************************)
EXTENDS SubmissionPipeline

CONSTANTS v1, v2, a, b, m1, m2, k1, k2, w1, w2, w3

\* One validator, with two callers contending for its lock or with one caller.
OneHost == [c \in {a, b} |-> v1]
OneCaller == [c \in {a} |-> v1]
OneReceives == [v \in {v1} |-> {w1, w2, w3}]

\* Two validators with one caller each, sent submissions of the same configs.
TwoHosts == [c \in {a, b} |-> IF c = a THEN v1 ELSE v2]
TwoReceives == [v \in {v1, v2} |-> IF v = v1 THEN {w1, w3} ELSE {w2}]

MCMinerOf == [w \in {w1, w2, w3} |-> IF w = w2 THEN m2 ELSE m1]
MCConfigOf == [w \in {w1, w2, w3} |-> IF w = w3 THEN k2 ELSE k1]

AllFaults == SUBSET {"loss", "crash", "removal"}
OnlyLoss == {{"loss"}}
NoFaults == {{}}

=============================================================================
