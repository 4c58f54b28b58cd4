--------------------------- MODULE VoteRetention ---------------------------
(***************************************************************************)
(* The validator's results table and the weights it sets from it, against  *)
(* the chain, which reads the last weights set at every tempo boundary.    *)
(*                                                                         *)
(* One cycle of the loop reads the block once, prunes, validates miner by  *)
(* miner and then sets weights, while blocks go by.  Blocks and seconds    *)
(* are kept as distances to the present one, cut off where the code no     *)
(* longer tells them apart, so that behaviours have no end.                *)
(***************************************************************************)
EXTENDS Integers, FiniteSets

CONSTANTS
  Miners,          \* hotkeys in the metagraph
  Tempo,           \* TEMPO_BLOCKS
  Retention,       \* RESULT_RETENTION_BLOCKS (= TEMPO_BLOCKS in the code)
  Interval,        \* weight_interval // 12
  RampUp,          \* RAMP_UP_TEMPOS * TEMPO_BLOCKS
  MinValidations,  \* MIN_VALIDATIONS_FOR_WEIGHT
  StaleAfter,      \* 3 * TEMPO_SECONDS, in block times
  Reports,         \* the consistency reports the Central API may give
  MinReports,      \* min_consistency_reports
  Floor, One,      \* consistency_floor, and 1.0 in the same unit
  MaxCycle,        \* bound: blocks from one reading of the block to the next
  FaultModels,     \* the sets of faults a behaviour may be subject to
  None             \* no result, never seen, no anchor

ASSUME VoteAssumption ==
  /\ Tempo \in Nat \ {0} /\ Retention \in Nat /\ Interval \in Nat \ {0}
  /\ RampUp \in Nat /\ MinValidations \in Nat
  /\ StaleAfter \in Nat /\ StaleAfter >= Retention + MaxCycle /\ StaleAfter >= RampUp
  /\ Tempo <= Retention /\ MaxCycle <= Retention
  /\ Reports \subseteq [total : Nat, rate : 0 .. One] /\ MinReports \in Nat \ {0}
  /\ One \in Nat \ {0} /\ Floor \in 0 .. One
  /\ MaxCycle \in Nat \ {0}
  /\ None \notin Int /\ None \notin [Miners -> Nat] /\ None \notin {"pass", "fail"}
  /\ FaultModels \subseteq SUBSET {"error", "away", "refusal", "burn", "stall", "disk", "crash", "torn"}

VARIABLES
  pos,          \* block % Tempo
  since,        \* block - current_block: blocks since the cycle read the block
  phase,        \* where the loop is
  todo,         \* miners whose responses are still to be validated
  verdict,      \* verdict[m]: the result kept for m: "pass", "fail" or None
  stamp,        \* stamp[m]: block - recorded_at_block of that result
  seen,         \* seen[m]: block times since _last_seen[m]
  counts,       \* validation_counts, up to MinValidations
  countsFile,   \* the persisted validation_counts, or None if it cannot be parsed
  weightsAge,   \* block - last_weight_block
  ramp,         \* block - _ramp_up_start_block, up to RampUp
  inRampUp,     \* in_ramp_up by the metagraph, whose block is that of the last sync
  anchorSaved,  \* whether the ramp-up anchor is on disk
  vote,         \* chain: miners with a positive weight in the last weights set
  lastPass,     \* history: blocks since the stamp of m's latest pass
  faults        \* the faults this behaviour is subject to; never changes

resultVars == <<verdict, stamp, seen, counts, countsFile>>
rampVars == <<ramp, inRampUp, anchorSaved>>
vars == <<pos, since, phase, todo, resultVars, weightsAge, rampVars, vote, lastPass, faults>>

\* Distances are cut off here.
MaxStamp == Retention + 1
MaxSeen == StaleAfter + 1
MaxWeightsAge == Interval + MaxCycle
MaxPassAge == Retention + MaxCycle + 1

TypeOK ==
  /\ pos \in 0 .. Tempo - 1
  /\ since \in 0 .. MaxCycle
  /\ phase \in {"sync", "read", "validate", "weights"}
  /\ todo \subseteq Miners
  /\ verdict \in [Miners -> {"pass", "fail", None}]
  /\ stamp \in [Miners -> 0 .. MaxStamp]
  /\ seen \in [Miners -> 0 .. MaxSeen \union {None}]
  /\ counts \in [Miners -> 0 .. MinValidations]
  /\ countsFile \in [Miners -> 0 .. MinValidations] \union {None}
  /\ weightsAge \in 0 .. MaxWeightsAge
  /\ ramp \in 0 .. RampUp \union {None}
  /\ inRampUp \in BOOLEAN
  /\ anchorSaved \in BOOLEAN
  /\ vote \subseteq Miners
  /\ lastPass \in [Miners -> 0 .. MaxPassAge \union {None}]
  /\ faults \in FaultModels

\* Variant: the distance is not cut off.
UpForEver(n, most) == IF n = None THEN n ELSE n + 1

\* One more, unless it is cut off or absent.
Up(n, most) == IF n = None \/ n = most THEN n ELSE n + 1
UpAll(f, most) == [m \in Miners |-> Up(f[m], most)]

Init ==
  /\ pos \in 0 .. Tempo - 1
  /\ since = 0
  /\ phase = "sync"
  /\ todo = {}
  /\ verdict = [m \in Miners |-> None]
  /\ stamp = [m \in Miners |-> 0]
  /\ seen = [m \in Miners |-> None]
  /\ counts = [m \in Miners |-> 0]
  /\ countsFile = [m \in Miners |-> 0]
  /\ weightsAge = MaxWeightsAge
  /\ ramp = None
  /\ inRampUp = TRUE
  /\ anchorSaved = FALSE
  /\ vote = {}
  /\ lastPass = [m \in Miners |-> None]
  /\ faults \in FaultModels

(***************************************************************************)
(* One cycle of the loop.                                                  *)
(***************************************************************************)

\* metagraph.sync and _ensure_ramp_up_anchor, whose one write may fail, or be
\* cut short by a death, which is to fail and to crash; the cycle may end here
\* with an exception.
Sync ==
  /\ phase = "sync"
  /\ IF ramp = None
       THEN /\ ramp' = 0
            /\ \/ anchorSaved' = TRUE
               \/ "disk" \in faults /\ UNCHANGED anchorSaved
       ELSE UNCHANGED <<ramp, anchorSaved>>
  /\ inRampUp' = (ramp' < RampUp)
  /\ \/ phase' = "read"
     \/ "error" \in faults /\ UNCHANGED phase
  /\ UNCHANGED <<pos, since, todo, resultVars, weightsAge, vote, lastPass, faults>>

\* Variant: off by one.
RetainedBelow(m) == verdict[m] # None /\ stamp[m] < Retention

\* _prune_stale_results: m's result is kept.
Retained(m) == verdict[m] # None /\ stamp[m] <= Retention

\* _get_miner_axons: the miners that serve by the metagraph.
Serving == IF "away" \in faults THEN SUBSET Miners ELSE {Miners}

\* No miner serves: the cycle ends before the block is read.
NoneServing ==
  /\ phase = "read" /\ {} \in Serving
  /\ phase' = "sync"
  /\ UNCHANGED <<pos, since, todo, resultVars, weightsAge, rampVars, vote, lastPass, faults>>

\* Variant: the results are cleared every cycle.
ReadBlockClearing ==
  /\ phase = "read"
  /\ since' = 0
  /\ verdict' = [m \in Miners |-> None]
  /\ todo' = Miners
  /\ phase' = "validate"
  /\ UNCHANGED <<pos, stamp, seen, counts, countsFile, weightsAge, rampVars, vote,
                 lastPass, faults>>

\* The miners that serve are asked, the block is read, old results are pruned.
ReadBlock ==
  /\ phase = "read"
  /\ since' = 0
  /\ verdict' = [m \in Miners |-> IF Retained(m) THEN verdict[m] ELSE None]
  /\ todo' \in Serving \ {{}}
  /\ phase' = "validate"
  /\ UNCHANGED <<pos, stamp, seen, counts, countsFile, weightsAge, rampVars, vote,
                 lastPass, faults>>

\* Variant: a fail displaces a pass.
RecordLatest(m, v) ==
  /\ verdict' = [verdict EXCEPT ![m] = v]
  /\ stamp' = [stamp EXCEPT ![m] = since]

\* _record_result: a pass is always recorded, a fail unless there is a pass;
\* the stamp is the block read before the validation.
RecordResult(m, v) ==
  IF v = "pass" \/ verdict[m] # "pass"
    THEN /\ verdict' = [verdict EXCEPT ![m] = v]
         /\ stamp' = [stamp EXCEPT ![m] = since]
    ELSE UNCHANGED <<verdict, stamp>>

Remember(m, v) == lastPass' = IF v = "pass" THEN [lastPass EXCEPT ![m] = since] ELSE lastPass

\* No response, or a protocol version below the minimum.
NoResponse(m) ==
  /\ phase = "validate" /\ m \in todo
  /\ RecordResult(m, "fail")
  /\ Remember(m, "fail")
  /\ todo' = todo \ {m}
  /\ UNCHANGED <<pos, since, phase, seen, counts, countsFile, weightsAge, rampVars, vote, faults>>

\* The pipeline returns v for m's response.
Validated(m, v) ==
  /\ phase = "validate" /\ m \in todo
  /\ RecordResult(m, v)
  /\ Remember(m, v)
  /\ counts' = [counts EXCEPT ![m] = Up(@, MinValidations)]
  /\ \/ countsFile' = counts'
     \/ "disk" \in faults /\ UNCHANGED countsFile
  /\ seen' = [seen EXCEPT ![m] = 0]
  /\ todo' = todo \ {m}
  /\ UNCHANGED <<pos, since, phase, weightsAge, rampVars, vote, faults>>

AllValidated ==
  /\ phase = "validate" /\ todo = {}
  /\ phase' = "weights"
  /\ UNCHANGED <<pos, since, todo, resultVars, weightsAge, rampVars, vote, lastPass, faults>>

\* The miners _set_weights gives a weight, and those it gives a positive one.
Weighed == {m \in Miners : verdict[m] # None /\ (inRampUp => counts[m] >= MinValidations)}
Voted == {m \in Weighed : verdict[m] = "pass"}

\* _get_consistency_multiplier, up to the factor 1 / (1 - floor), whose
\* division by zero counts as no report.
Multiplier(r) ==
  IF r.total < MinReports \/ (r.rate = Floor /\ Floor = One) THEN One
  ELSE IF r.rate < Floor THEN 0 ELSE r.rate - Floor

\* What the API says of this validator, or nothing.
Consistency ==
  {[total |-> 0, rate |-> One]} \union (IF "refusal" \in faults THEN Reports ELSE {})

\* _set_weights: nothing is sent without a miner to weigh, nor when the
\* multiplier, which otherwise cancels out, is zero; the chain and the version
\* check may refuse; burn mode votes for no miner at all.
SetWeights ==
  \/ \E r \in Consistency : vote' = IF Weighed = {} \/ Multiplier(r) = 0 THEN vote ELSE Voted
  \/ "refusal" \in faults /\ UNCHANGED vote
  \/ "burn" \in faults /\ vote' = {}

\* _cleanup_stale_results forgets hotkeys not validated for three tempos.
Stale(m) == seen[m] # None /\ seen[m] > StaleAfter

\* Variant: the remaining counts are not written.
CleanupUnsaved ==
  /\ verdict' = [m \in Miners |-> IF Stale(m) THEN None ELSE verdict[m]]
  /\ counts' = [m \in Miners |-> IF Stale(m) THEN 0 ELSE counts[m]]
  /\ seen' = [m \in Miners |-> IF Stale(m) THEN None ELSE seen[m]]
  /\ UNCHANGED <<stamp, countsFile>>

Cleanup ==
  /\ verdict' = [m \in Miners |-> IF Stale(m) THEN None ELSE verdict[m]]
  /\ counts' = [m \in Miners |-> IF Stale(m) THEN 0 ELSE counts[m]]
  /\ seen' = [m \in Miners |-> IF Stale(m) THEN None ELSE seen[m]]
  /\ \/ countsFile' = IF \E m \in Miners : Stale(m) THEN counts' ELSE countsFile
     \/ "disk" \in faults /\ UNCHANGED countsFile
  /\ UNCHANGED stamp

\* blocks_since >= block_interval, at the block the cycle read.
Due == weightsAge - since >= Interval

\* The end of the cycle: weights are set if they are due, and count as set at
\* the block the cycle read, whatever the outcome.
Weights ==
  /\ phase = "weights"
  /\ IF Due
       THEN SetWeights /\ weightsAge' = since /\ Cleanup
       ELSE UNCHANGED <<vote, weightsAge, resultVars>>
  /\ phase' = "sync"
  /\ UNCHANGED <<pos, since, todo, rampVars, lastPass, faults>>

\* An exception ends the cycle.
Abort ==
  /\ "error" \in faults
  /\ phase # "sync"
  /\ phase' = "sync"
  /\ todo' = {}
  /\ UNCHANGED <<pos, since, resultVars, weightsAge, rampVars, vote, lastPass, faults>>

(***************************************************************************)
(* The chain, the clock and crashes.                                       *)
(***************************************************************************)

\* The next block; a boundary is where pos is 0.
Block ==
  /\ since < MaxCycle
  /\ pos' = (pos + 1) % Tempo
  /\ since' = since + 1
  /\ stamp' = UpAll(stamp, MaxStamp)
  /\ seen' = UpAll(seen, MaxSeen)
  /\ weightsAge' = Up(weightsAge, MaxWeightsAge)
  /\ ramp' = Up(ramp, RampUp)
  /\ lastPass' = UpAll(lastPass, MaxPassAge)
  /\ UNCHANGED <<phase, todo, verdict, counts, countsFile, inRampUp, anchorSaved,
                 vote, faults>>

\* The chain is slower than one block per block time.
Stall ==
  /\ "stall" \in faults
  /\ seen' = UpAll(seen, MaxSeen)
  /\ seen' # seen
  /\ UNCHANGED <<pos, since, phase, todo, verdict, stamp, counts, countsFile, weightsAge,
                 rampVars, vote, lastPass, faults>>

\* _load_validation_counts: a file that cannot be parsed is as good as none.
LoadedCounts == IF countsFile = None THEN [m \in Miners |-> 0] ELSE countsFile

\* _load_ramp_up_anchor
LoadedAnchor == IF anchorSaved THEN ramp ELSE None

\* The process is killed; "torn": while write_text replaces the counts.
Killed ==
  \/ "crash" \in faults /\ UNCHANGED countsFile
  \/ "torn" \in faults /\ phase \in {"validate", "weights"} /\ countsFile' = None

\* Variant: the ramp-up starts again.
CrashRampUpAnew ==
  /\ Killed
  /\ phase' = "sync"
  /\ since' = 0
  /\ todo' = {}
  /\ verdict' = [m \in Miners |-> None]
  /\ seen' = [m \in Miners |-> None]
  /\ counts' = LoadedCounts'
  /\ weightsAge' = MaxWeightsAge
  /\ ramp' = None
  /\ inRampUp' = TRUE
  /\ UNCHANGED <<pos, stamp, anchorSaved, vote, lastPass, faults>>

\* The process dies and restarts with the counts and the anchor on disk, in
\* ramp-up until the metagraph is synced.
Crash ==
  /\ Killed
  /\ phase' = "sync"
  /\ since' = 0
  /\ todo' = {}
  /\ verdict' = [m \in Miners |-> None]
  /\ seen' = [m \in Miners |-> None]
  /\ counts' = LoadedCounts'
  /\ weightsAge' = MaxWeightsAge
  /\ ramp' = LoadedAnchor
  /\ inRampUp' = TRUE
  /\ UNCHANGED <<pos, stamp, anchorSaved, vote, lastPass, faults>>

Cycle ==
  \/ Sync
  \/ NoneServing
  \/ ReadBlock
  \/ \E m \in Miners : NoResponse(m)
  \/ \E m \in Miners, v \in {"pass", "fail"} : Validated(m, v)
  \/ AllValidated
  \/ Weights

Next ==
  \/ Cycle
  \/ Abort
  \/ Block
  \/ Stall
  \/ Crash

\* The loop and the chain go on.
Spec == Init /\ [][Next]_vars /\ WF_vars(Cycle) /\ WF_vars(Block)

-----------------------------------------------------------------------------
(***************************************************************************)
(* Properties.                                                             *)
(***************************************************************************)

(***************************************************************************)
(* While the process lives and the chain keeps pace, a pass no older than  *)
(* the retention is still the miner's result: no later fail, missing       *)
(* response, pruning or clean-up, which goes by the clock and not by the   *)
(* block, takes it away.                                                   *)
(***************************************************************************)
FreshPassKept ==
  faults \intersect {"crash", "torn", "stall"} = {} =>
    \A m \in Miners :
      lastPass[m] # None /\ lastPass[m] - since <= Retention => verdict[m] = "pass"

(***************************************************************************)
(* A vote for a miner that passed in this tempo is not retracted before    *)
(* the boundary, unless the process dies, the chain stalls or burn mode is *)
(* switched on.                                                            *)
(***************************************************************************)
OnTimeVoteStands ==
  [][faults \intersect {"crash", "torn", "stall", "burn"} = {} =>
       \A m \in vote \ vote' : lastPass[m] # None => lastPass[m] > pos]_vars

(***************************************************************************)
(* The counts that decide on the ramp-up survive a restart: what would be  *)
(* loaded is what is in memory, the clean-up of forgotten hotkeys and a    *)
(* start with a file cut short included.                                   *)
(***************************************************************************)
CountsPersisted == "disk" \notin faults => LoadedCounts = counts

(***************************************************************************)
(* A restart resumes the ramp-up window and never rewinds it (H-9).        *)
(***************************************************************************)
RampUpNeverRewound ==
  []["disk" \notin faults /\ ramp # None => ramp' # None /\ ramp' >= ramp]_vars

(***************************************************************************)
(* A miner that passes once the ramp-up is over gets a vote, although      *)
(* weights may not be due in the cycle it passes in.                       *)
(***************************************************************************)
PassLeadsToVote ==
  \A m \in Miners :
    (faults = {} /\ ~ inRampUp /\ phase = "validate" /\ verdict[m] = "pass" /\ stamp[m] = since)
      ~> m \in vote

=============================================================================
