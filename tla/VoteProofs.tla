----------------------------- MODULE VoteProofs -----------------------------
(***************************************************************************)
(* Proofs about VoteRetention for any set of miners, any lengths of the    *)
(* tempo, the retention, the interval and the ramp-up that are related as  *)
(* in constants.py, and every set of faults.                               *)
(***************************************************************************)
EXTENDS VoteRetention, TLAPS

(***************************************************************************)
(* The inductive invariant.                                                *)
(***************************************************************************)

\* No process dies and no block takes longer than a block time.
KeepsPace == faults \intersect {"crash", "torn", "stall"} = {}

\* The result of the latest pass is stamped as old as the pass is, and the
\* clock since the miner was seen shows no more, as far as either is counted.
PassAged(m) ==
  lastPass[m] # None =>
    /\ verdict[m] = "pass" =>
         stamp[m] = lastPass[m] \/ (stamp[m] = MaxStamp /\ lastPass[m] >= MaxStamp)
    /\ lastPass[m] < MaxPassAge => seen[m] # None /\ seen[m] <= lastPass[m]

PassInv == KeepsPace => \A m \in Miners : PassAged(m)

\* Once the loop has got past the first sync there is an anchor, and no miner
\* was seen before it.
RampInv ==
  /\ phase # "sync" => ramp # None
  /\ KeepsPace =>
       \A m \in Miners : seen[m] # None => ramp # None /\ (ramp < RampUp => seen[m] <= ramp)

\* The metagraph may be behind, but is not ahead.
RampUpInv == ~ inRampUp => ramp # None /\ ramp >= RampUp

\* Weights set now, or after the next sync, may be those of the ramp-up.
Demanding == inRampUp /\ (phase # "sync" \/ ramp < RampUp)

\* Whoever was voted for may still be.
EntitledInv ==
  KeepsPace => \A m \in vote : ramp # None /\ (Demanding => counts[m] >= MinValidations)

AnchorInv == "disk" \notin faults /\ ramp # None => anchorSaved

IInv ==
  /\ TypeOK /\ PassInv /\ FreshPassKept /\ RampInv /\ RampUpInv /\ EntitledInv /\ AnchorInv
  /\ CountsPersisted

-----------------------------------------------------------------------------
\* A distance goes up by at most one and never past where it is cut off.
LEMMA UpInRange ==
  ASSUME NEW most \in Nat, NEW n \in 0 .. most \union {None}
  PROVE  /\ Up(n, most) \in 0 .. most \union {None}
         /\ n # None => Up(n, most) \in 0 .. most /\ Up(n, most) = IF n = most THEN n ELSE n + 1
         /\ n = None => Up(n, most) = None
BY VoteAssumption DEF Up

\* The bounds of the distances are numbers.
LEMMA Bounds ==
  /\ MaxStamp \in Nat /\ MaxSeen \in Nat /\ MaxWeightsAge \in Nat /\ MaxPassAge \in Nat
  /\ RampUp \in Nat /\ MinValidations \in Nat /\ MaxCycle \in Nat
  /\ MaxCycle <= MaxStamp /\ MaxCycle <= MaxPassAge /\ MaxCycle <= MaxWeightsAge
BY VoteAssumption DEF MaxStamp, MaxSeen, MaxWeightsAge, MaxPassAge

\* A result is recorded with the block its cycle read.
LEMMA RecordTyped ==
  ASSUME TypeOK, NEW m \in Miners, NEW v \in {"pass", "fail"}, RecordResult(m, v), Remember(m, v)
  PROVE  /\ verdict' \in [Miners -> {"pass", "fail", None}]
         /\ stamp' \in [Miners -> 0 .. MaxStamp]
         /\ lastPass' \in [Miners -> 0 .. MaxPassAge \union {None}]
<1>1. since \in 0 .. MaxStamp /\ since \in 0 .. MaxPassAge
  BY Bounds DEF TypeOK
<1> QED
  BY <1>1 DEF TypeOK, RecordResult, Remember

LEMMA LoadedTyped ==
  ASSUME TypeOK
  PROVE  LoadedCounts \in [Miners -> 0 .. MinValidations] /\ LoadedAnchor \in 0 .. RampUp \union {None}
BY Bounds DEF TypeOK, LoadedCounts, LoadedAnchor

LEMMA TypeStep == TypeOK /\ [Next]_vars => TypeOK'
<1> SUFFICES ASSUME TypeOK, [Next]_vars PROVE TypeOK'
  OBVIOUS
<1>1. CASE Sync
  <2>1. ramp' \in 0 .. RampUp \union {None}
    BY <1>1, Bounds DEF Sync, TypeOK, rampVars
  <2>2. anchorSaved' \in BOOLEAN /\ inRampUp' \in BOOLEAN
    <3>1. anchorSaved \in BOOLEAN
      BY DEF TypeOK
    <3>2. anchorSaved' = TRUE \/ anchorSaved' = anchorSaved
      BY <1>1, Zenon DEF Sync
    <3>3. anchorSaved' \in BOOLEAN
      BY <3>1, <3>2, Zenon
    <3>4. inRampUp' = (ramp' < RampUp)
      BY <1>1, Zenon DEF Sync
    <3>5. (ramp' < RampUp) \in BOOLEAN
      OBVIOUS
    <3>6. inRampUp' \in BOOLEAN
      BY <3>4, <3>5, Zenon
    <3> QED
      BY <3>3, <3>6
  <2>3. phase' \in {"sync", "read", "validate", "weights"}
    BY <1>1 DEF Sync
  <2> QED
    BY <1>1, <2>1, <2>2, <2>3 DEF Sync, TypeOK, resultVars
<1>2. CASE NoneServing \/ AllValidated \/ Abort
  BY <1>2 DEF NoneServing, AllValidated, Abort, TypeOK, resultVars, rampVars
<1>3. CASE ReadBlock
  BY <1>3, Bounds DEF ReadBlock, Serving, TypeOK, rampVars
<1>4. ASSUME NEW m \in Miners, NoResponse(m) PROVE TypeOK'
  <2>1. /\ verdict' \in [Miners -> {"pass", "fail", None}]
        /\ stamp' \in [Miners -> 0 .. MaxStamp]
        /\ lastPass' \in [Miners -> 0 .. MaxPassAge \union {None}]
    BY <1>4, RecordTyped DEF NoResponse
  <2> QED
    BY <1>4, <2>1 DEF NoResponse, TypeOK, rampVars
<1>5. ASSUME NEW m \in Miners, NEW v \in {"pass", "fail"}, Validated(m, v) PROVE TypeOK'
  <2>1. /\ verdict' \in [Miners -> {"pass", "fail", None}]
        /\ stamp' \in [Miners -> 0 .. MaxStamp]
        /\ lastPass' \in [Miners -> 0 .. MaxPassAge \union {None}]
    BY <1>5, RecordTyped DEF Validated
  <2>2. Up(counts[m], MinValidations) \in 0 .. MinValidations
    BY Bounds, VoteAssumption DEF TypeOK, Up
  <2>3. counts' \in [Miners -> 0 .. MinValidations]
    BY <1>5, <2>2 DEF Validated, TypeOK
  <2>4. seen' \in [Miners -> 0 .. MaxSeen \union {None}]
    BY <1>5, Bounds DEF Validated, TypeOK
  <2>5. countsFile' \in [Miners -> 0 .. MinValidations] \union {None}
    BY <1>5, <2>3 DEF Validated, TypeOK
  <2> QED
    BY <1>5, <2>1, <2>3, <2>4, <2>5 DEF Validated, TypeOK, rampVars
<1>6. CASE Weights
  <2>1. /\ vote' \subseteq Miners
        /\ weightsAge' \in 0 .. MaxWeightsAge
    BY <1>6, Bounds DEF Weights, SetWeights, Consistency, Voted, Weighed, TypeOK
  <2>2. ASSUME Cleanup
        PROVE  /\ verdict' \in [Miners -> {"pass", "fail", None}]
               /\ stamp' \in [Miners -> 0 .. MaxStamp]
               /\ seen' \in [Miners -> 0 .. MaxSeen \union {None}]
               /\ counts' \in [Miners -> 0 .. MinValidations]
               /\ countsFile' \in [Miners -> 0 .. MinValidations] \union {None}
    BY <2>2, Bounds DEF Cleanup, TypeOK
  <2>3. /\ verdict' \in [Miners -> {"pass", "fail", None}]
        /\ stamp' \in [Miners -> 0 .. MaxStamp]
        /\ seen' \in [Miners -> 0 .. MaxSeen \union {None}]
        /\ counts' \in [Miners -> 0 .. MinValidations]
        /\ countsFile' \in [Miners -> 0 .. MinValidations] \union {None}
    BY <1>6, <2>2 DEF Weights, resultVars, TypeOK
  <2> QED
    BY <1>6, <2>1, <2>3 DEF Weights, TypeOK, rampVars
<1>7. CASE Block
  <2>1. stamp' \in [Miners -> 0 .. MaxStamp]
    BY <1>7, Bounds, VoteAssumption DEF Block, TypeOK, UpAll, Up
  <2>2. seen' \in [Miners -> 0 .. MaxSeen \union {None}]
    BY <1>7, Bounds, VoteAssumption DEF Block, TypeOK, UpAll, Up
  <2>3. lastPass' \in [Miners -> 0 .. MaxPassAge \union {None}]
    BY <1>7, Bounds, VoteAssumption DEF Block, TypeOK, UpAll, Up
  <2>4. weightsAge' \in 0 .. MaxWeightsAge /\ ramp' \in 0 .. RampUp \union {None}
    BY <1>7, Bounds, VoteAssumption DEF Block, TypeOK, Up
  <2>5. pos' \in 0 .. Tempo - 1 /\ since' \in 0 .. MaxCycle
    BY <1>7, Bounds, VoteAssumption DEF Block, TypeOK
  <2> QED
    BY <1>7, <2>1, <2>2, <2>3, <2>4, <2>5 DEF Block, TypeOK
<1>8. CASE Stall
  <2>1. seen' \in [Miners -> 0 .. MaxSeen \union {None}]
    BY <1>8, Bounds, VoteAssumption DEF Stall, TypeOK, UpAll, Up
  <2> QED
    BY <1>8, <2>1 DEF Stall, TypeOK, rampVars
<1>9. CASE Crash
  <2>1. countsFile' \in [Miners -> 0 .. MinValidations] \union {None}
    BY <1>9 DEF Crash, Killed, TypeOK
  <2>2. LoadedCounts' \in [Miners -> 0 .. MinValidations]
    BY <2>1, Bounds DEF LoadedCounts
  <2> QED
    BY <1>9, <2>1, <2>2, Bounds DEF Crash, TypeOK, LoadedAnchor
<1>10. CASE UNCHANGED vars
  BY <1>10 DEF vars, TypeOK, resultVars, rampVars
<1> QED
  BY <1>1, <1>2, <1>3, <1>4, <1>5, <1>6, <1>7, <1>8, <1>9, <1>10 DEF Next, Cycle

-----------------------------------------------------------------------------
LEMMA AnchorStep == AnchorInv /\ TypeOK /\ [Next]_vars => AnchorInv'
<1> SUFFICES ASSUME AnchorInv, TypeOK, [Next]_vars PROVE AnchorInv'
  OBVIOUS
<1> USE DEF AnchorInv
<1>1. CASE Sync
  BY <1>1, Zenon DEF Sync, rampVars
<1>2. CASE Block
  BY <1>2, UpInRange DEF Block, Up
<1>3. CASE Crash
  BY <1>3, Zenon DEF Crash, LoadedAnchor
<1>4. ASSUME UNCHANGED <<rampVars, faults>> PROVE AnchorInv'
  BY <1>4 DEF rampVars
<1> QED
  BY <1>1, <1>2, <1>3, <1>4
  DEF Next, Cycle, NoneServing, ReadBlock, NoResponse, Validated, AllValidated, Weights, Abort, Stall, vars

\* The faults a behaviour is subject to do not change.
LEMMA FaultsStep == [Next]_vars => faults' = faults
<1>1. ASSUME NEW m \in Miners, NEW v \in {"pass", "fail"}, Validated(m, v) PROVE faults' = faults
  BY <1>1 DEF Validated
<1>2. ASSUME NEW m \in Miners, NoResponse(m) PROVE faults' = faults
  BY <1>2 DEF NoResponse
<1> QED
  BY <1>1, <1>2 DEF Next, Cycle, Sync, NoneServing, ReadBlock, AllValidated, Weights, Abort, Block, Stall, Crash, vars

\* A file that holds counts is loaded as it is.
LEMMA LoadedAsSaved ==
  ASSUME countsFile' \in [Miners -> 0 .. MinValidations]
  PROVE  LoadedCounts' = countsFile'
BY VoteAssumption, Bounds DEF LoadedCounts

LEMMA CountsStep == CountsPersisted /\ TypeOK /\ [Next]_vars => CountsPersisted'
<1> SUFFICES ASSUME CountsPersisted, TypeOK, [Next]_vars, "disk" \notin faults
             PROVE  LoadedCounts' = counts'
  BY FaultsStep DEF CountsPersisted
<1>t. TypeOK'
  BY TypeStep
<1>1. ASSUME countsFile' = counts' PROVE LoadedCounts' = counts'
  <2>1. countsFile' \in [Miners -> 0 .. MinValidations]
    BY <1>1, <1>t DEF TypeOK
  <2> QED
    BY <1>1, <2>1, LoadedAsSaved
<1>2. ASSUME UNCHANGED <<counts, countsFile>> PROVE LoadedCounts' = counts'
  BY <1>2 DEF LoadedCounts, CountsPersisted
<1>3. ASSUME NEW m \in Miners, NEW v \in {"pass", "fail"}, Validated(m, v) PROVE countsFile' = counts'
  BY <1>3 DEF Validated
<1>4. ASSUME Cleanup PROVE countsFile' = counts' \/ UNCHANGED <<counts, countsFile>>
  <2>1. CASE \E m \in Miners : Stale(m)
    BY <1>4, <2>1 DEF Cleanup
  <2>2. CASE ~ \E m \in Miners : Stale(m)
    <3>1. counts' = [m \in Miners |-> counts[m]] /\ countsFile' = countsFile
      BY <1>4, <2>2 DEF Cleanup
    <3> QED
      BY <3>1 DEF TypeOK
  <2> QED
    BY <2>1, <2>2
<1>5. CASE Weights
  BY <1>1, <1>2, <1>4, <1>5 DEF Weights, resultVars
<1>6. CASE Crash
  BY <1>6 DEF Crash
<1> QED
  BY <1>1, <1>2, <1>3, <1>5, <1>6
  DEF Next, Cycle, Sync, NoneServing, ReadBlock, NoResponse, AllValidated, Abort, Block, Stall, vars, resultVars

-----------------------------------------------------------------------------
\* PassAged and FreshPassKept for one miner.
Kept(m) == lastPass[m] # None /\ lastPass[m] - since <= Retention => verdict[m] = "pass"

LEMMA KeptIsFresh == FreshPassKept <=> (KeepsPace => \A m \in Miners : Kept(m))
BY DEF FreshPassKept, KeepsPace, Kept

\* A miner that passed no longer ago than the retention is not forgotten.
LEMMA FreshIsNotStale ==
  ASSUME TypeOK, NEW m \in Miners, PassAged(m), lastPass[m] # None, lastPass[m] < MaxPassAge
  PROVE  ~ Stale(m) 
<1>1. seen[m] \in 0 .. MaxSeen /\ lastPass[m] \in 0 .. MaxPassAge
  BY DEF TypeOK, PassAged
<1> QED
  BY <1>1, VoteAssumption DEF PassAged, Stale, MaxPassAge

\* A miner's pass ages as its stamp does.
LEMMA Ageing ==
  ASSUME TypeOK, NEW m \in Miners, PassAged(m), Kept(m), Block
  PROVE  PassAged(m)' /\ Kept(m)'
<1> SUFFICES ASSUME lastPass'[m] # None PROVE PassAged(m)' /\ Kept(m)'
  BY DEF PassAged, Kept
<1>1. lastPass[m] # None /\ lastPass[m] \in 0 .. MaxPassAge
  BY DEF Block, UpAll, Up, TypeOK
<1>2. lastPass'[m] = IF lastPass[m] = MaxPassAge THEN MaxPassAge ELSE lastPass[m] + 1
  BY <1>1 DEF Block, UpAll, Up
<1>3. stamp[m] \in 0 .. MaxStamp /\ None \notin Int
  BY VoteAssumption DEF TypeOK
<1>4. stamp'[m] = IF stamp[m] = MaxStamp THEN MaxStamp ELSE stamp[m] + 1
  BY <1>3 DEF Block, UpAll, Up, TypeOK
<1>5. since' = since + 1 /\ since \in 0 .. MaxCycle /\ since + 1 \in 0 .. MaxCycle /\ verdict' = verdict
  BY Bounds DEF Block, TypeOK
<1>6. Kept(m)'
  BY <1>1, <1>2, <1>5, VoteAssumption DEF Kept, MaxPassAge
<1>7. ASSUME verdict'[m] = "pass"
      PROVE  stamp'[m] = lastPass'[m] \/ (stamp'[m] = MaxStamp /\ lastPass'[m] >= MaxStamp)
  <2>1. stamp[m] = lastPass[m] \/ (stamp[m] = MaxStamp /\ lastPass[m] >= MaxStamp)
    BY <1>1, <1>5, <1>7 DEF PassAged
  <2> QED
    BY <2>1, <1>1, <1>2, <1>3, <1>4, VoteAssumption DEF MaxStamp, MaxPassAge
<1>8. ASSUME lastPass'[m] < MaxPassAge PROVE seen'[m] # None /\ seen'[m] <= lastPass'[m]
  <2>1. lastPass[m] < MaxPassAge /\ lastPass'[m] = lastPass[m] + 1
    BY <1>1, <1>2, <1>8, Bounds
  <2>2. seen[m] # None /\ seen[m] <= lastPass[m] /\ seen[m] \in 0 .. MaxSeen
    BY <1>1, <2>1 DEF PassAged, TypeOK
  <2>3. seen'[m] = IF seen[m] = MaxSeen THEN seen[m] ELSE seen[m] + 1
    BY <2>2 DEF Block, UpAll, Up
  <2> QED
    BY <2>1, <2>2, <2>3, <1>1, Bounds, VoteAssumption
<1> QED
  BY <1>6, <1>7, <1>8 DEF PassAged

\* The result recorded for a miner, with the pass remembered.
LEMMA Recorded ==
  ASSUME TypeOK, NEW m \in Miners, PassAged(m), Kept(m), NEW n \in Miners, NEW v \in {"pass", "fail"},
         RecordResult(n, v), Remember(n, v), since' = since,
         seen' = [seen EXCEPT ![n] = 0] \/ (seen' = seen /\ v = "fail")
  PROVE  PassAged(m)' /\ Kept(m)'
<1>0. since \in 0 .. MaxCycle /\ since # None
  BY VoteAssumption, Bounds DEF TypeOK
<1>1. CASE m # n
  <2>1. verdict'[m] = verdict[m] /\ stamp'[m] = stamp[m] /\ lastPass'[m] = lastPass[m] /\ seen'[m] = seen[m]
    BY <1>1 DEF TypeOK, RecordResult, Remember
  <2> QED
    BY <2>1 DEF PassAged, Kept
<1>2. CASE m = n /\ v = "pass"
  <2>1. verdict'[m] = "pass" /\ stamp'[m] = since /\ lastPass'[m] = since /\ seen'[m] = 0
    BY <1>2 DEF TypeOK, RecordResult, Remember
  <2>2. 0 # None
    BY VoteAssumption
  <2> QED
    BY <1>0, <2>1, <2>2 DEF PassAged, Kept
<1>3. CASE m = n /\ v = "fail" /\ verdict[m] = "pass"
  <2>1. verdict'[m] = "pass" /\ stamp'[m] = stamp[m] /\ lastPass'[m] = lastPass[m]
    BY <1>3 DEF TypeOK, RecordResult, Remember
  <2>2. seen'[m] = 0 \/ seen'[m] = seen[m]
    BY <1>3 DEF TypeOK
  <2>3. lastPass[m] # None => lastPass[m] \in 0 .. MaxPassAge
    BY DEF TypeOK
  <2>4. Kept(m)'
    BY <2>1 DEF Kept
  <2>5. lastPass[m] # None /\ lastPass[m] < MaxPassAge => seen'[m] # None /\ seen'[m] <= lastPass[m]
    BY <2>2, <2>3, VoteAssumption DEF PassAged
  <2> QED
    BY <1>3, <2>1, <2>4, <2>5 DEF PassAged
<1>4. CASE m = n /\ v = "fail" /\ verdict[m] # "pass"
  <2>1. verdict'[m] = "fail" /\ lastPass'[m] = lastPass[m]
    BY <1>4 DEF TypeOK, RecordResult, Remember
  <2>2. seen'[m] = 0 \/ seen'[m] = seen[m]
    BY <1>4 DEF TypeOK
  <2>3. lastPass[m] # None => lastPass[m] \in 0 .. MaxPassAge
    BY DEF TypeOK
  <2>4. Kept(m)'
    BY <1>4, <2>1 DEF Kept
  <2>5. lastPass[m] # None /\ lastPass[m] < MaxPassAge => seen'[m] # None /\ seen'[m] <= lastPass[m]
    BY <2>2, <2>3, VoteAssumption DEF PassAged
  <2> QED
    BY <2>1, <2>4, <2>5 DEF PassAged
<1> QED
  BY <1>1, <1>2, <1>3, <1>4

LEMMA PassStep == TypeOK /\ PassInv /\ FreshPassKept /\ [Next]_vars => PassInv' /\ FreshPassKept'
<1> SUFFICES ASSUME TypeOK, PassInv, FreshPassKept, [Next]_vars PROVE PassInv' /\ FreshPassKept'
  OBVIOUS
<1> SUFFICES ASSUME KeepsPace, NEW m \in Miners PROVE PassAged(m)' /\ Kept(m)'
  <2>1. KeepsPace' <=> KeepsPace
    BY FaultsStep DEF KeepsPace
  <2>2. FreshPassKept' <=> (KeepsPace' => \A m \in Miners : Kept(m)')
    BY DEF FreshPassKept, KeepsPace, Kept
  <2> QED
    BY <2>1, <2>2 DEF PassInv
<1>1. PassAged(m) /\ Kept(m)
  BY KeptIsFresh DEF PassInv
<1>2. CASE ReadBlock
  <2>1. verdict'[m] = (IF Retained(m) THEN verdict[m] ELSE None) /\ since' = 0
        /\ UNCHANGED <<stamp, lastPass, seen>>
    BY <1>2 DEF ReadBlock
  <2>2. lastPass[m] # None => lastPass[m] \in 0 .. MaxPassAge
    BY DEF TypeOK
  <2>3. since \in 0 .. MaxCycle /\ stamp[m] \in 0 .. MaxStamp
    BY DEF TypeOK
  <2>4. lastPass[m] # None /\ lastPass[m] <= Retention => verdict[m] = "pass" /\ stamp[m] = lastPass[m]
    BY <1>1, <2>2, <2>3, Bounds, VoteAssumption DEF PassAged, Kept, MaxStamp
  <2>5. lastPass[m] # None /\ lastPass[m] <= Retention => verdict'[m] = "pass"
    BY <2>1, <2>4, VoteAssumption DEF Retained, TypeOK
  <2>6. verdict'[m] = "pass" => verdict[m] = "pass"
    BY <2>1, VoteAssumption DEF Retained
  <2> QED
    BY <1>1, <2>1, <2>2, <2>5, <2>6 DEF PassAged, Kept
<1>3. ASSUME NEW n \in Miners, NoResponse(n) PROVE PassAged(m)' /\ Kept(m)'
  BY <1>1, <1>3, Recorded DEF NoResponse
<1>4. ASSUME NEW n \in Miners, NEW v \in {"pass", "fail"}, Validated(n, v) PROVE PassAged(m)' /\ Kept(m)'
  BY <1>1, <1>4, Recorded DEF Validated
<1>5. ASSUME Cleanup, since' = since, lastPass' = lastPass PROVE PassAged(m)' /\ Kept(m)'
  <2>1. CASE Stale(m)
    <3>1. lastPass[m] # None => lastPass[m] = MaxPassAge
      BY <1>1, <2>1, FreshIsNotStale, Bounds DEF TypeOK
    <3>2. since \in 0 .. MaxCycle /\ verdict'[m] = None
      BY <1>5, <2>1 DEF Cleanup, TypeOK
    <3>3. lastPass[m] # None => lastPass[m] - since > Retention
      BY <3>1, <3>2, VoteAssumption DEF MaxPassAge
    <3>4. stamp'[m] = stamp[m]
      BY <1>5 DEF Cleanup
    <3>5. lastPass[m] # None => ~ (lastPass[m] < MaxPassAge) /\ ~ (lastPass[m] - since <= Retention)
      BY <3>1, <3>2, <3>3, VoteAssumption, Bounds
    <3>6. verdict'[m] = "pass" => verdict[m] = "pass"
      BY <3>2, VoteAssumption
    <3> QED
      BY <1>1, <1>5, <3>4, <3>5, <3>6 DEF PassAged, Kept
  <2>2. CASE ~ Stale(m)
    <3>1. verdict'[m] = verdict[m] /\ seen'[m] = seen[m] /\ stamp'[m] = stamp[m]
      BY <1>5, <2>2 DEF Cleanup
    <3> QED
      BY <1>1, <1>5, <3>1 DEF PassAged, Kept
  <2> QED
    BY <2>1, <2>2
<1>6. ASSUME UNCHANGED <<verdict, stamp, seen, lastPass, since>> PROVE PassAged(m)' /\ Kept(m)'
  BY <1>1, <1>6 DEF PassAged, Kept
<1>7. CASE Weights
  BY <1>5, <1>6, <1>7 DEF Weights, resultVars
<1>8. CASE Block
  BY <1>1, <1>8, Ageing
<1>9. ~ Stall /\ ~ Crash
  BY DEF Stall, Crash, Killed, KeepsPace
<1> QED
  BY <1>2, <1>3, <1>4, <1>6, <1>7, <1>8, <1>9
  DEF Next, Cycle, Sync, NoneServing, AllValidated, Abort, vars, resultVars

-----------------------------------------------------------------------------
\* RampInv for one miner.
SeenInRamp(m) == seen[m] # None => ramp # None /\ (ramp < RampUp => seen[m] <= ramp)

LEMMA RampStep == TypeOK /\ RampInv /\ [Next]_vars => RampInv'
<1> SUFFICES ASSUME TypeOK, RampInv, [Next]_vars PROVE RampInv'
  OBVIOUS
<1>n. 0 # None /\ (ramp # None => ramp \in 0 .. RampUp)
  BY VoteAssumption DEF TypeOK
<1>1. phase' # "sync" => ramp' # None
  <2>1. CASE Sync
    BY <1>n, <2>1, VoteAssumption DEF Sync, RampInv, rampVars
  <2>2. CASE Block
    BY <1>n, <2>2, VoteAssumption DEF Block, Up, RampInv
  <2>3. CASE Crash \/ Abort \/ NoneServing \/ Weights
    BY <2>3 DEF Crash, Abort, NoneServing, Weights
  <2>4. ASSUME ramp' = ramp, phase # "sync" \/ phase' = phase PROVE phase' # "sync" => ramp' # None
    BY <2>4 DEF RampInv
  <2> QED
    BY <2>1, <2>2, <2>3, <2>4 DEF Next, Cycle, ReadBlock, NoResponse, Validated, AllValidated, Stall, vars, rampVars
<1>2. KeepsPace' <=> KeepsPace
  BY FaultsStep DEF KeepsPace
<1>3. ASSUME KeepsPace, NEW m \in Miners PROVE SeenInRamp(m)'
  <2>0. SeenInRamp(m)
    BY <1>3 DEF RampInv, SeenInRamp
  <2>1. CASE Sync
    <3>1. seen' = seen
      BY <2>1 DEF Sync, resultVars
    <3>2. ramp = None \/ ramp' = ramp
      BY <2>1 DEF Sync, rampVars
    <3> QED
      BY <2>0, <3>1, <3>2 DEF SeenInRamp
  <2>2. ASSUME NEW n \in Miners, NEW v \in {"pass", "fail"}, Validated(n, v) PROVE SeenInRamp(m)'
    <3>1. ramp' = ramp /\ (seen'[m] = 0 \/ seen'[m] = seen[m])
      BY <2>2 DEF Validated, rampVars, TypeOK
    <3>2. ramp # None
      BY <2>2 DEF Validated, RampInv
    <3> QED
      BY <1>n, <2>0, <3>1, <3>2 DEF SeenInRamp
  <2>3. CASE Weights
    <3>1. ramp' = ramp /\ (seen'[m] = None \/ seen'[m] = seen[m])
      BY <2>3 DEF Weights, Cleanup, resultVars, rampVars, TypeOK
    <3> QED
      BY <2>0, <3>1 DEF SeenInRamp
  <2>4. CASE Block
    <3> SUFFICES ASSUME seen'[m] # None PROVE ramp' # None /\ (ramp' < RampUp => seen'[m] <= ramp')
      BY DEF SeenInRamp
    <3>1. seen[m] # None /\ seen[m] \in 0 .. MaxSeen
      BY <2>4 DEF Block, UpAll, Up, TypeOK
    <3>2. seen'[m] = IF seen[m] = MaxSeen THEN seen[m] ELSE seen[m] + 1
      BY <2>4, <3>1 DEF Block, UpAll, Up
    <3>3. ramp # None /\ ramp \in 0 .. RampUp
      BY <1>n, <2>0, <3>1 DEF SeenInRamp
    <3>4. ramp' = IF ramp = RampUp THEN ramp ELSE ramp + 1
      BY <2>4, <3>3 DEF Block, Up
    <3> QED
      BY <2>0, <3>1, <3>2, <3>3, <3>4, Bounds, VoteAssumption DEF SeenInRamp
  <2>5. ASSUME UNCHANGED <<seen, ramp>> PROVE SeenInRamp(m)'
    BY <2>0, <2>5 DEF SeenInRamp
  <2>6. ~ Stall /\ ~ Crash
    BY <1>3 DEF Stall, Crash, Killed, KeepsPace
  <2> QED
    BY <2>1, <2>2, <2>3, <2>4, <2>5, <2>6
    DEF Next, Cycle, NoneServing, ReadBlock, NoResponse, AllValidated, Abort, vars, rampVars, resultVars
<1> QED
  BY <1>1, <1>2, <1>3 DEF RampInv, SeenInRamp

LEMMA RampUpStep == TypeOK /\ RampUpInv /\ [Next]_vars => RampUpInv'
<1> SUFFICES ASSUME TypeOK, RampUpInv, [Next]_vars, ~ inRampUp' PROVE ramp' # None /\ ramp' >= RampUp
  BY DEF RampUpInv
<1>n. 0 # None /\ RampUp \in Nat /\ (ramp # None => ramp \in 0 .. RampUp)
  BY VoteAssumption DEF TypeOK
<1>1. CASE Sync
  <2>1. ~ (ramp' < RampUp)
    BY <1>1, Zenon DEF Sync
  <2>2. ramp' = 0 \/ (ramp # None /\ ramp' = ramp)
    BY <1>1 DEF Sync
  <2> QED
    BY <1>n, <2>1, <2>2
<1>2. CASE Block
  <2>1. inRampUp' = inRampUp /\ ramp' = Up(ramp, RampUp)
    BY <1>2 DEF Block
  <2> QED
    BY <1>n, <2>1 DEF RampUpInv, Up
<1>3. CASE Crash
  BY <1>3 DEF Crash
<1>4. ASSUME UNCHANGED <<ramp, inRampUp>> PROVE ramp' # None /\ ramp' >= RampUp
  BY <1>4 DEF RampUpInv
<1> QED
  BY <1>1, <1>2, <1>3, <1>4
  DEF Next, Cycle, NoneServing, ReadBlock, NoResponse, Validated, AllValidated, Weights, Abort, Stall,
      vars, rampVars

\* Nobody is forgotten while the ramp-up lasts.
LEMMA NotStale ==
  ASSUME TypeOK, RampInv, KeepsPace, NEW m \in Miners, ramp # None, ramp < RampUp
  PROVE  ~ Stale(m)
<1> SUFFICES ASSUME seen[m] # None PROVE ~ (seen[m] > StaleAfter)
  BY DEF Stale
<1>1. seen[m] <= ramp
  BY DEF RampInv
<1>2. ramp \in 0 .. RampUp /\ seen[m] \in 0 .. MaxSeen
  BY DEF TypeOK
<1> QED
  BY <1>1, <1>2, VoteAssumption DEF MaxSeen

LEMMA EntitledStep ==
  TypeOK /\ RampInv /\ RampUpInv /\ EntitledInv /\ [Next]_vars => EntitledInv'
<1> SUFFICES ASSUME TypeOK, RampInv, RampUpInv, EntitledInv, [Next]_vars PROVE EntitledInv'
  OBVIOUS
<1>1. KeepsPace' <=> KeepsPace
  BY FaultsStep DEF KeepsPace
<1> SUFFICES ASSUME KeepsPace, NEW m \in vote'
             PROVE  ramp' # None /\ (Demanding' => counts'[m] >= MinValidations)
  BY <1>1 DEF EntitledInv
<1>2. m \in Miners
  BY TypeStep DEF TypeOK
<1>n. /\ ramp # None => ramp \in 0 .. RampUp
      /\ RampUp \in Nat /\ MinValidations \in Nat /\ counts \in [Miners -> 0 .. MinValidations]
  BY VoteAssumption DEF TypeOK
<1>3. CASE Weights
  <2>1. phase = "weights" /\ phase' = "sync" /\ ramp' = ramp /\ inRampUp' = inRampUp /\ ramp # None
    BY <1>3 DEF Weights, rampVars, RampInv
  <2>2. SUFFICES ASSUME inRampUp, ramp < RampUp PROVE counts'[m] >= MinValidations
    BY <2>1 DEF Demanding
  <2>3. counts[m] >= MinValidations
    <3>1. CASE m \in vote
      BY <3>1, <2>1, <2>2 DEF EntitledInv, Demanding
    <3>2. CASE m \notin vote
      <4>1. m \in Voted
        BY <1>3, <3>2 DEF Weights, SetWeights
      <4> QED
        BY <4>1, <2>2 DEF Voted, Weighed
    <3> QED
      BY <3>1, <3>2
  <2>4. counts'[m] = counts[m]
    BY <1>2, <1>3, <2>1, <2>2, NotStale DEF Weights, Cleanup, resultVars
  <2> QED
    BY <2>3, <2>4
<1>4. ASSUME vote' = vote, ramp # None, ramp' # None, ramp' >= ramp, counts'[m] >= counts[m],
             inRampUp' => inRampUp, inRampUp' /\ phase' # "sync" => phase # "sync" \/ ramp < RampUp
      PROVE  ramp' # None /\ (Demanding' => counts'[m] >= MinValidations)
  <2>1. ramp' \in 0 .. RampUp /\ counts'[m] \in 0 .. MinValidations
    BY <1>2, <1>4, TypeStep DEF TypeOK
  <2>2. Demanding' => Demanding
    BY <1>4, <1>n, <2>1 DEF Demanding
  <2> QED
    BY <1>2, <1>4, <1>n, <2>1, <2>2 DEF EntitledInv
<1>5. CASE vote' = vote
  <2>1. ramp # None
    BY <1>5 DEF EntitledInv
  <2>2. CASE Sync
    <3>1. ramp' = ramp /\ counts' = counts
      BY <2>1, <2>2 DEF Sync, resultVars
    <3>2. inRampUp' => ramp < RampUp
      BY <2>2, <3>1, Zenon DEF Sync
    <3>3. inRampUp' => inRampUp
      BY <1>n, <2>1, <3>2 DEF RampUpInv
    <3> QED
      BY <1>2, <1>4, <1>5, <1>n, <2>1, <3>1, <3>2, <3>3
  <2>3. CASE Block
    <3>1. ramp' = (IF ramp = RampUp THEN ramp ELSE ramp + 1) /\ counts' = counts /\ phase' = phase
          /\ inRampUp' = inRampUp
      BY <2>1, <2>3 DEF Block, Up
    <3>2. ramp' # None /\ ramp' >= ramp
      BY <3>1, <1>n, <2>1, VoteAssumption
    <3> QED
      BY <1>2, <1>4, <1>5, <1>n, <2>1, <3>1, <3>2
  <2>4. ASSUME NEW n \in Miners, NEW v \in {"pass", "fail"}, Validated(n, v)
        PROVE  ramp' # None /\ (Demanding' => counts'[m] >= MinValidations)
    <3>1. counts' = [counts EXCEPT ![n] = Up(counts[n], MinValidations)] /\ phase' = phase
          /\ ramp' = ramp /\ inRampUp' = inRampUp
      BY <2>4 DEF Validated, rampVars
    <3>2. Up(counts[n], MinValidations) >= counts[n]
      BY <1>n, VoteAssumption DEF Up
    <3>3. counts'[m] >= counts[m]
      BY <1>2, <1>n, <3>1, <3>2
    <3> QED
      BY <1>4, <1>5, <1>n, <2>1, <3>1, <3>3
  <2>5. ASSUME UNCHANGED <<ramp, inRampUp, counts>>, phase' = "sync" \/ phase # "sync" \/ phase' = phase
        PROVE  ramp' # None /\ (Demanding' => counts'[m] >= MinValidations)
    BY <2>5, <1>2, <1>4, <1>5, <1>n, <2>1
  <2>6. ~ Crash
    BY DEF Crash, Killed, KeepsPace
  <2> QED
    BY <1>3, <2>2, <2>3, <2>4, <2>5, <2>6
    DEF Next, Cycle, NoneServing, ReadBlock, NoResponse, AllValidated, Abort, Stall, vars, rampVars, resultVars
<1> QED
  BY <1>3, <1>5
  DEF Next, Cycle, Sync, NoneServing, ReadBlock, NoResponse, Validated, AllValidated, Abort, Block, Stall, Crash, vars

-----------------------------------------------------------------------------
LEMMA Initially == Init => IInv
<1> SUFFICES ASSUME Init PROVE IInv
  OBVIOUS
<1>1. TypeOK
  <2>1. 0 \in 0 .. MaxCycle /\ 0 \in 0 .. MaxStamp /\ 0 \in 0 .. MinValidations /\ MaxWeightsAge \in 0 .. MaxWeightsAge
    BY Bounds
  <2> QED
    BY <2>1 DEF Init, TypeOK
<1>2. PassInv /\ FreshPassKept
  BY DEF Init, PassInv, PassAged, FreshPassKept
<1>3. RampInv /\ RampUpInv /\ EntitledInv /\ AnchorInv
  BY DEF Init, RampInv, RampUpInv, EntitledInv, AnchorInv
<1>4. countsFile \in [Miners -> 0 .. MinValidations] /\ countsFile = counts
  BY Bounds DEF Init
<1>5. CountsPersisted
  BY <1>4, VoteAssumption, Bounds DEF CountsPersisted, LoadedCounts
<1> QED
  BY <1>1, <1>2, <1>3, <1>5 DEF IInv

LEMMA InvariantStep == IInv /\ [Next]_vars => IInv'
BY TypeStep, PassStep, RampStep, RampUpStep, EntitledStep, AnchorStep, CountsStep DEF IInv

LEMMA Invariance == Spec => []IInv
BY Initially, InvariantStep, PTL DEF Spec

(***************************************************************************)
(* The results, counts, ages and votes are well typed, and every age stays *)
(* where it is cut off.                                                    *)
(***************************************************************************)
THEOREM TypeCorrect == Spec => []TypeOK
<1>1. IInv => TypeOK
  BY DEF IInv
<1> QED
  BY Invariance, <1>1, PTL

(***************************************************************************)
(* While the process lives and the chain keeps pace, a pass no older than  *)
(* the retention is still the miner's result, whatever is recorded, pruned *)
(* or cleaned up (_record_result, _prune_stale_results,                    *)
(* _cleanup_stale_results).                                                *)
(***************************************************************************)
THEOREM FreshPassesKept == Spec => []FreshPassKept
<1>1. IInv => FreshPassKept
  BY DEF IInv
<1> QED
  BY Invariance, <1>1, PTL

(***************************************************************************)
(* Unless the disk fails, a restart loads the counts that were in memory   *)
(* (_save_validation_counts, _load_validation_counts).                     *)
(***************************************************************************)
THEOREM CountsAlwaysPersisted == Spec => []CountsPersisted
<1>1. IInv => CountsPersisted
  BY DEF IInv
<1> QED
  BY Invariance, <1>1, PTL

(***************************************************************************)
(* A vote for a miner that passed within this tempo is not retracted       *)
(* before the boundary (_set_weights), although results are pruned,        *)
(* validations fail and weights are refused.                               *)
(***************************************************************************)
THEOREM OnTimeVotesStand == Spec => OnTimeVoteStands
<1>1. ASSUME IInv, [Next]_vars, faults \intersect {"crash", "torn", "stall", "burn"} = {},
             NEW m \in vote \ vote', lastPass[m] # None
      PROVE  lastPass[m] > pos
  <2>1. KeepsPace
    BY <1>1 DEF KeepsPace
  <2>2. Weights /\ SetWeights
    <3>1. ~ Crash /\ ~ Stall
      BY <2>1 DEF Crash, Stall, Killed, KeepsPace
    <3> QED
      BY <1>1, <3>1 DEF Next, Cycle, Sync, NoneServing, ReadBlock, NoResponse, Validated, AllValidated, Weights,
                  Abort, Block, vars
  <2>3. m \in Miners /\ m \notin Voted
    BY <1>1, <2>2 DEF SetWeights, IInv, TypeOK
  <2>4. m \in Weighed \/ verdict[m] # "pass"
    <3>1. inRampUp => counts[m] >= MinValidations
      BY <1>1, <2>1, <2>2 DEF IInv, EntitledInv, Demanding, Weights
    <3> QED
      BY <2>3, <3>1, VoteAssumption DEF Weighed
  <2>5. verdict[m] # "pass"
    BY <2>3, <2>4 DEF Voted
  <2>6. ~ (lastPass[m] - since <= Retention)
    BY <1>1, <2>1, <2>3, <2>5, KeptIsFresh DEF IInv, Kept
  <2>7. lastPass[m] \in Nat /\ since \in Nat /\ pos \in 0 .. Tempo - 1
    BY <1>1, <2>3, VoteAssumption DEF IInv, TypeOK
  <2> QED
    BY <2>6, <2>7, VoteAssumption
<1>2. IInv /\ [Next]_vars =>
        [faults \intersect {"crash", "torn", "stall", "burn"} = {} =>
           \A m \in vote \ vote' : lastPass[m] # None => lastPass[m] > pos]_vars
  BY <1>1
<1> QED
  BY Invariance, <1>2, PTL DEF Spec, OnTimeVoteStands

(***************************************************************************)
(* Unless the disk fails, no restart rewinds the ramp-up window (H-9).     *)
(***************************************************************************)
THEOREM RampUpIsNotRewound == Spec => RampUpNeverRewound
<1>1. ASSUME IInv, [Next]_vars, "disk" \notin faults, ramp # None
      PROVE  ramp' # None /\ ramp' >= ramp
  <2>1. ramp \in 0 .. RampUp /\ RampUp \in Nat /\ anchorSaved
    BY <1>1, VoteAssumption DEF IInv, TypeOK, AnchorInv
  <2>2. CASE Block
    <3>1. ramp' = IF ramp = RampUp THEN ramp ELSE ramp + 1
      BY <1>1, <2>2 DEF Block, Up
    <3> QED
      BY <2>1, <3>1, VoteAssumption
  <2>3. ASSUME ramp' = ramp PROVE ramp' # None /\ ramp' >= ramp
    BY <1>1, <2>1, <2>3
  <2> QED
    BY <1>1, <2>1, <2>2, <2>3
    DEF Next, Cycle, Sync, NoneServing, ReadBlock, NoResponse, Validated, AllValidated, Weights, Abort, Stall,
        Crash, LoadedAnchor, vars, rampVars
<1>2. IInv /\ [Next]_vars => ["disk" \notin faults /\ ramp # None => ramp' # None /\ ramp' >= ramp]_vars
  BY <1>1
<1> QED
  BY Invariance, <1>2, PTL DEF Spec, RampUpNeverRewound

=============================================================================
