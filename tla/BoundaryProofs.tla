--------------------------- MODULE BoundaryProofs ---------------------------
(***************************************************************************)
(* How long results must be retained for every pass to be counted by one   *)
(* of the two tempo boundaries after it.                                   *)
(***************************************************************************)
EXTENDS BoundaryCount, VoteProofs

(***************************************************************************)
(* How long that is: a tempo is no shorter than the longest time between   *)
(* two settings of weights, and results outlast a tempo by as much.        *)
(***************************************************************************)
LongRetention ==
  /\ Tempo >= Interval + 2 * MaxCycle
  /\ Retention >= Tempo + Interval + 2 * MaxCycle - 2

\* Any other fault may lose a vote, whatever the retention: a cycle that fails
\* or finds no miner sets no weights, the chain may refuse them, burn mode
\* votes for nobody, a death loses the results and a stall forgets the miner.
DiskOnly == faults \subseteq {"disk"}

-----------------------------------------------------------------------------
(***************************************************************************)
(* The inductive invariant.                                                *)
(***************************************************************************)

\* When the cycle read the block, weights not set since may have been overdue
\* for so long.
Slack == Interval - 1 + (IF phase \in {"validate", "weights"} THEN MaxCycle ELSE 0)

\* No weights have been set for n blocks.
Awaits(n) ==
  /\ n - since <= Slack
  /\ n <= weightsAge \/ weightsAge = MaxWeightsAge

\* A pass that is owed a boundary is young enough to be retained; if there is
\* no vote for it, no weights have been set since the pass or, if it has been
\* missed by a boundary, since that.
Promised(m) ==
  /\ ~ inRampUp
  /\ lastPass[m] # None
  /\ owed[m] = 1 => lastPass[m] <= pos + MaxCycle
  /\ owed[m] = 2 => lastPass[m] <= pos + Interval - 1 + 2 * MaxCycle
  /\ m \notin vote => Awaits(IF owed[m] = 1 THEN lastPass[m] ELSE pos)

OwedInv ==
  /\ since <= weightsAge
  /\ owed \in [Miners -> 0 .. 2]
  /\ \A m \in Miners : owed[m] # 0 => Promised(m)

\* The constants, and what does not happen.
LEMMA Numbers ==
  ASSUME LongRetention
  PROVE  /\ Tempo \in Nat \ {0} /\ Retention \in Nat /\ Interval \in Nat \ {0} /\ MaxCycle \in Nat \ {0}
         /\ MaxWeightsAge = Interval + MaxCycle /\ MaxPassAge = Retention + MaxCycle + 1
         /\ Tempo >= Interval + 2 * MaxCycle
         /\ Retention >= Tempo + Interval + 2 * MaxCycle - 2
         /\ None \notin Int
BY VoteAssumption DEF LongRetention, MaxWeightsAge, MaxPassAge

LEMMA Faultless ==
  ASSUME DiskOnly
  PROVE  /\ KeepsPace
         /\ faults \intersect {"error", "away", "refusal", "burn", "stall", "crash", "torn"} = {}
BY DEF DiskOnly, KeepsPace

\* The ramp-up, once over, is over.
LEMMA RampUpOver ==
  ASSUME DiskOnly, IInv, [Next]_vars, ~ inRampUp
  PROVE  ~ inRampUp'
<1>1. ramp # None /\ ramp >= RampUp
  BY DEF IInv, RampUpInv
<1>2. CASE Sync
  <2>1. ramp' = ramp /\ ~ (ramp < RampUp)
    BY <1>1, <1>2, VoteAssumption DEF Sync, IInv, TypeOK
  <2> QED
    BY <1>2, <2>1, Zenon DEF Sync
<1>3. ~ Crash
  BY Faultless DEF Crash, Killed
<1>4. ASSUME inRampUp' = inRampUp PROVE ~ inRampUp'
  BY <1>4
<1> QED
  BY <1>2, <1>3, <1>4
  DEF Next, Cycle, NoneServing, ReadBlock, NoResponse, Validated, AllValidated, Weights, Abort, Block, Stall,
      vars, rampVars

\* What a pass is owed bounds its age, so that it is still its miner's result.
LEMMA PromisedIsPass ==
  ASSUME LongRetention, DiskOnly, IInv, OwedInv, NEW m \in Miners, owed[m] # 0
  PROVE  verdict[m] = "pass" /\ lastPass[m] \in 0 .. Retention
<1>1. /\ lastPass[m] \in 0 .. MaxPassAge /\ since \in 0 .. MaxCycle /\ pos \in 0 .. Tempo - 1
      /\ owed[m] \in 1 .. 2
  BY DEF IInv, TypeOK, OwedInv, Promised
<1>2. lastPass[m] <= Retention
  BY <1>1, Numbers DEF OwedInv, Promised
<1>3. lastPass[m] - since <= Retention
  BY <1>1, <1>2, Numbers
<1>4. faults \intersect {"crash", "torn", "stall"} = {}
  BY Faultless
<1> QED
  BY <1>1, <1>2, <1>3, <1>4, Numbers DEF IInv, FreshPassKept

\* Weights that are set give it a vote.
LEMMA SetWeightsVotes ==
  ASSUME LongRetention, DiskOnly, IInv, OwedInv, phase = "weights", SetWeights, NEW m \in Miners, owed[m] # 0
  PROVE  m \in vote'
<1>1. ~ inRampUp
  BY DEF OwedInv, Promised
<1>2. m \in Voted /\ m \in Weighed
  BY <1>1, PromisedIsPass, VoteAssumption DEF Voted, Weighed
<1>3. PICK r \in Consistency : vote' = IF Weighed = {} \/ Multiplier(r) = 0 THEN vote ELSE Voted
  BY Faultless DEF SetWeights
<1>4. r = [total |-> 0, rate |-> One]
  BY Faultless DEF Consistency
<1>5. Multiplier(r) # 0
  BY <1>4, VoteAssumption DEF Multiplier
<1> QED
  BY <1>2, <1>3, <1>5

-----------------------------------------------------------------------------
(***************************************************************************)
(* The steps.                                                              *)
(***************************************************************************)

\* Steps that leave alone what the invariant speaks of.
LEMMA OtherKeepsPromises ==
  ASSUME LongRetention, DiskOnly, IInv, OwedInv, UNCHANGED <<pos, weightsAge, vote, lastPass, owed>>, inRampUp' => inRampUp,
         \/ UNCHANGED since /\ Slack' >= Slack
         \/ since' = 0 /\ phase \notin {"validate", "weights"} /\ phase' = "validate"
  PROVE  OwedInv'
<1>1. /\ since \in 0 .. MaxCycle /\ weightsAge \in 0 .. MaxWeightsAge /\ pos \in 0 .. Tempo - 1
      /\ owed \in [Miners -> 0 .. 2]
  BY DEF IInv, TypeOK, OwedInv
<1>2. since' <= weightsAge'
  BY <1>1 DEF OwedInv
<1>3. ASSUME NEW n \in Int, Awaits(n) PROVE Awaits(n)'
  <2>1. Slack \in Int /\ Slack' \in Int /\ MaxWeightsAge \in Int
    BY Numbers DEF Slack
  <2>2. n - since' <= Slack'
    <3>1. CASE UNCHANGED since /\ Slack' >= Slack
      BY <3>1, <2>1, <1>1, <1>3 DEF Awaits
    <3>2. CASE since' = 0 /\ phase \notin {"validate", "weights"} /\ phase' = "validate"
      <4>1. Slack = Interval - 1 /\ Slack' = Interval - 1 + MaxCycle
        BY <3>2, Numbers DEF Slack
      <4> QED
        BY <4>1, <3>2, <1>1, <1>3, Numbers DEF Awaits
    <3> QED
      BY <3>1, <3>2
  <2> QED
    BY <2>2, <1>3 DEF Awaits
<1>4. ASSUME NEW m \in Miners, owed[m] # 0 PROVE Promised(m)'
  <2>1. Promised(m) /\ lastPass[m] \in Int
    BY <1>4, PromisedIsPass DEF OwedInv
  <2> DEFINE n == IF owed[m] = 1 THEN lastPass[m] ELSE pos
  <2>2. n \in Int /\ n' = n
    BY <2>1, <1>1
  <2>3. m \notin vote => Awaits(n)'
    BY <2>1, <2>2, <1>3 DEF Promised
  <2> QED
    BY <2>1, <2>2, <2>3 DEF Promised
<1> QED
  BY <1>1, <1>2, <1>4 DEF OwedInv

LEMMA WeightsKeepPromises ==
  ASSUME LongRetention, DiskOnly, IInv, OwedInv, Weights, UNCHANGED owed
  PROVE  OwedInv'
<1>1. /\ since \in 0 .. MaxCycle /\ weightsAge \in 0 .. MaxWeightsAge /\ pos \in 0 .. Tempo - 1
      /\ owed \in [Miners -> 0 .. 2]
  BY DEF IInv, TypeOK, OwedInv
<1>2. /\ since' = since /\ pos' = pos /\ lastPass' = lastPass /\ inRampUp' = inRampUp
      /\ phase = "weights" /\ phase' = "sync"
  BY DEF Weights, rampVars
<1>3. CASE Due
  <2>1. SetWeights /\ weightsAge' = since
    BY <1>3 DEF Weights
  <2>2. \A m \in Miners : owed[m] # 0 => m \in vote'
    BY <1>2, <2>1, SetWeightsVotes
  <2> QED
    BY <1>1, <1>2, <2>1, <2>2 DEF OwedInv, Promised
<1>4. CASE ~ Due
  <2>1. vote' = vote /\ weightsAge' = weightsAge
    BY <1>4 DEF Weights
  <2>2. weightsAge - since < Interval
    BY <1>1, <1>4, Numbers DEF Due
  <2>3. weightsAge < MaxWeightsAge /\ Slack' = Interval - 1
    BY <1>1, <1>2, <2>2, Numbers DEF Slack
  <2>4. ASSUME NEW n \in Int, Awaits(n) PROVE Awaits(n)'
    BY <1>1, <1>2, <2>1, <2>2, <2>3, <2>4, Numbers DEF Awaits
  <2>5. ASSUME NEW m \in Miners, owed[m] # 0 PROVE Promised(m)'
    <3>1. Promised(m) /\ lastPass[m] \in Int
      BY <2>5, PromisedIsPass DEF OwedInv
    <3> DEFINE n == IF owed[m] = 1 THEN lastPass[m] ELSE pos
    <3>2. n \in Int /\ n' = n
      BY <3>1, <1>1, <1>2
    <3>3. m \notin vote => Awaits(n)'
      BY <3>1, <3>2, <2>4 DEF Promised
    <3> QED
      BY <3>1, <3>2, <3>3, <1>2, <2>1 DEF Promised
  <2> QED
    BY <1>1, <1>2, <2>1, <2>5 DEF OwedInv
<1> QED
  BY <1>3, <1>4

\* A pass is stamped with the block its cycle read.
LEMMA PassedKeepsPromises ==
  ASSUME LongRetention, DiskOnly, IInv, OwedInv, NEW m \in Miners, Passed(m)
  PROVE  OwedInv'
<1>1. /\ since \in 0 .. MaxCycle /\ weightsAge \in 0 .. MaxWeightsAge /\ pos \in 0 .. Tempo - 1
      /\ owed \in [Miners -> 0 .. 2] /\ lastPass \in [Miners -> 0 .. MaxPassAge \union {None}]
  BY DEF IInv, TypeOK, OwedInv
<1>2. /\ phase = "validate" /\ UNCHANGED <<pos, since, phase, weightsAge, inRampUp, vote>>
      /\ lastPass' = [lastPass EXCEPT ![m] = since]
  BY DEF Passed, Validated, Remember, rampVars
<1>3. owed' \in [Miners -> 0 .. 2] /\ (\A n \in Miners : n # m => owed'[n] = owed[n] /\ lastPass'[n] = lastPass[n])
      /\ lastPass'[m] = since /\ owed'[m] = (IF owed[m] = 0 /\ ~ inRampUp THEN 1 ELSE owed[m])
  BY <1>1, <1>2 DEF Passed
<1>4. Slack' = Slack /\ Slack = Interval - 1 + MaxCycle
  BY <1>2, Numbers DEF Slack
<1>5. ASSUME NEW n \in Miners, owed'[n] # 0, n # m PROVE Promised(n)'
  BY <1>2, <1>3, <1>4, <1>5 DEF OwedInv, Promised, Awaits
<1>6. ASSUME owed'[m] # 0 PROVE Promised(m)'
  <2>0. ~ inRampUp'
    BY <1>2, <1>3, <1>6 DEF OwedInv, Promised
  <2>1. since # None /\ since <= pos + MaxCycle /\ since <= pos + Interval - 1 + 2 * MaxCycle
    BY <1>1, Numbers
  <2>2. owed'[m] = 1 => Awaits(since)'
    BY <1>1, <1>2, <1>4, Numbers DEF Awaits, OwedInv
  <2>3. owed'[m] = 2 /\ m \notin vote => Awaits(pos)'
    BY <1>1, <1>2, <1>3, <1>4 DEF Awaits, OwedInv, Promised
  <2>4. owed'[m] \in 1 .. 2
    BY <1>3, <1>6
  <2> QED
    BY <1>2, <1>3, <2>0, <2>1, <2>2, <2>3, <2>4 DEF Promised, Awaits
<1> QED
  BY <1>1, <1>2, <1>3, <1>5, <1>6 DEF OwedInv

-----------------------------------------------------------------------------
\* A block ages everything by one, and moves the promises over a boundary.
LEMMA CountedKeepsPromises ==
  ASSUME LongRetention, DiskOnly, IInv, OwedInv, Counted
  PROVE  OwedInv'
<1>1. /\ since \in 0 .. MaxCycle /\ weightsAge \in 0 .. MaxWeightsAge /\ pos \in 0 .. Tempo - 1
      /\ owed \in [Miners -> 0 .. 2] /\ lastPass \in [Miners -> 0 .. MaxPassAge \union {None}]
  BY DEF IInv, TypeOK, OwedInv
<1>2. /\ since < MaxCycle /\ since' = since + 1 /\ pos' = (pos + 1) % Tempo
      /\ weightsAge' = Up(weightsAge, MaxWeightsAge) /\ lastPass' = UpAll(lastPass, MaxPassAge)
      /\ UNCHANGED <<phase, inRampUp, vote>>
      /\ owed' = IF pos' = 0 THEN [m \in Miners |-> Count(m)] ELSE owed
  BY DEF Counted, Block
<1>3. Slack' = Slack /\ Slack \in Interval - 1 .. Interval - 1 + MaxCycle
  BY <1>2, Numbers DEF Slack
<1>4. IF pos = Tempo - 1 THEN pos' = 0 ELSE pos' = pos + 1
  BY <1>1, <1>2, Numbers
<1>5. weightsAge' = IF weightsAge = MaxWeightsAge THEN weightsAge ELSE weightsAge + 1
  BY <1>1, <1>2, Numbers DEF Up
<1>6. since' <= weightsAge'
  BY <1>1, <1>2, <1>5, Numbers DEF OwedInv
<1>7. ASSUME NEW m \in Miners, owed[m] # 0
      PROVE  /\ Promised(m) /\ lastPass[m] \in 0 .. Retention /\ lastPass'[m] = lastPass[m] + 1
             /\ owed[m] \in 1 .. 2
  <2>1. Promised(m) /\ lastPass[m] \in 0 .. Retention
    BY <1>7, PromisedIsPass DEF OwedInv
  <2> QED
    BY <2>1, <1>1, <1>2, <1>7, Numbers DEF UpAll, Up
<1>8. CASE pos = Tempo - 1
  <2>1. ASSUME NEW m \in Miners, owed[m] # 0, m \notin vote PROVE owed[m] = 1
    <3>1. SUFFICES ASSUME owed[m] = 2 PROVE FALSE
      BY <1>7, <2>1
    <3>2. pos - since <= Slack
      BY <1>7, <2>1, <3>1 DEF Promised, Awaits
    <3> QED
      BY <3>2, <1>1, <1>2, <1>3, <1>8, Numbers
  <2>2. \A m \in Miners : owed'[m] = IF m \in vote \/ owed[m] = 0 THEN 0 ELSE 2
    BY <1>2, <1>4, <1>8, <2>1, VoteAssumption DEF Count, Up
  <2>3. owed' \in [Miners -> 0 .. 2]
    BY <1>2, <1>4, <1>8, <2>2
  <2>4. ASSUME NEW m \in Miners, owed'[m] # 0 PROVE Promised(m)'
    <3>1. m \notin vote /\ owed[m] = 1 /\ owed'[m] = 2
      BY <2>1, <2>2, <2>4
    <3>2. lastPass[m] - since <= Slack
      BY <3>1, <1>7 DEF Promised, Awaits
    <3>3. lastPass'[m] <= pos' + Interval - 1 + 2 * MaxCycle /\ lastPass'[m] # None
      BY <3>1, <3>2, <1>1, <1>2, <1>3, <1>4, <1>7, <1>8, Numbers
    <3>4. Awaits(pos)'
      BY <1>1, <1>2, <1>3, <1>4, <1>5, <1>8, Numbers DEF Awaits
    <3> QED
      BY <3>1, <3>3, <3>4, <1>2, <1>7 DEF Promised, Awaits
  <2> QED
    BY <1>6, <2>3, <2>4 DEF OwedInv
<1>9. CASE pos # Tempo - 1
  <2>1. pos' = pos + 1 /\ pos' # 0 /\ owed' = owed
    BY <1>1, <1>2, <1>4, <1>9
  <2>2. ASSUME NEW m \in Miners, owed'[m] # 0 PROVE Promised(m)'
    <3>1. /\ Promised(m) /\ lastPass[m] \in 0 .. Retention /\ lastPass'[m] = lastPass[m] + 1
          /\ owed[m] \in 1 .. 2 /\ owed'[m] = owed[m]
      BY <1>7, <2>1, <2>2
    <3>2. /\ lastPass'[m] # None
          /\ owed'[m] = 1 => lastPass'[m] <= pos' + MaxCycle
          /\ owed'[m] = 2 => lastPass'[m] <= pos' + Interval - 1 + 2 * MaxCycle
      BY <3>1, <2>1, <1>1, Numbers DEF Promised
    <3>3. m \notin vote' /\ owed'[m] = 1 => Awaits(lastPass[m])'
      BY <3>1, <1>1, <1>2, <1>3, <1>5, Numbers DEF Promised, Awaits
    <3>4. m \notin vote' /\ owed'[m] = 2 => Awaits(pos)'
      BY <3>1, <2>1, <1>1, <1>2, <1>3, <1>5, Numbers DEF Promised, Awaits
    <3> QED
      BY <3>1, <3>2, <3>3, <3>4, <2>1, <1>2 DEF Promised, Awaits
  <2> QED
    BY <1>1, <1>6, <2>1, <2>2 DEF OwedInv
<1> QED
  BY <1>8, <1>9

-----------------------------------------------------------------------------
\* The steps of BoundaryCount are steps of VoteRetention.
LEMMA CountStep == [CountNext]_<<vars, owed>> => [Next]_vars
BY DEF CountNext, Passed, Counted, Uncounted, Next, Cycle

LEMMA OwedStep ==
  ASSUME LongRetention, DiskOnly, IInv, OwedInv, [CountNext]_<<vars, owed>>
  PROVE  OwedInv'
<1>0. inRampUp' => inRampUp
  BY CountStep, RampUpOver
<1>1. ASSUME NEW m \in Miners, Passed(m) PROVE OwedInv'
  BY <1>1, PassedKeepsPromises
<1>2. CASE Counted
  BY <1>2, CountedKeepsPromises
<1>3. CASE Weights /\ UNCHANGED owed
  BY <1>3, WeightsKeepPromises
<1>4. ASSUME NEW m \in Miners, NoResponse(m) \/ Validated(m, "fail"), UNCHANGED owed PROVE OwedInv'
  <2>1. UNCHANGED <<pos, since, phase, weightsAge, vote, lastPass, owed>>
    BY <1>4 DEF NoResponse, Validated, Remember
  <2> QED
    BY <1>0, <2>1, OtherKeepsPromises, Numbers DEF Slack
<1>5. CASE (Sync \/ AllValidated) /\ UNCHANGED owed
  <2>1. /\ UNCHANGED <<pos, since, weightsAge, vote, lastPass, owed>>
        /\ phase \in {"validate", "weights"} => phase' \in {"validate", "weights"}
    BY <1>5 DEF Sync, AllValidated
  <2>2. Slack' >= Slack
    BY <2>1, Numbers DEF Slack
  <2> QED
    BY <1>0, <2>1, <2>2, OtherKeepsPromises
<1>6. CASE ReadBlock /\ UNCHANGED owed
  BY <1>0, <1>6, OtherKeepsPromises DEF ReadBlock
<1>7. ~ NoneServing \/ Miners = {}
  BY Faultless DEF NoneServing, Serving
<1>8. ~ Abort /\ ~ Stall /\ ~ Crash
  BY Faultless DEF Abort, Stall, Crash, Killed
<1>9. CASE NoneServing /\ UNCHANGED owed
  BY <1>7, <1>9 DEF NoneServing, OwedInv
<1>10. CASE UNCHANGED <<vars, owed>>
  BY <1>10 DEF vars, rampVars, OwedInv, Promised, Awaits, Slack
<1> QED
  BY <1>1, <1>2, <1>3, <1>4, <1>5, <1>6, <1>8, <1>9, <1>10 DEF CountNext, Uncounted

(***************************************************************************)
(* If weights may be set in every tempo and results were retained longer   *)
(* than the one tempo of constants.py, by the longest time until weights   *)
(* are set, the claim there would be true while nothing but the disk       *)
(* fails: of the two boundaries after a pass once the ramp-up is over, one *)
(* counts it.  One tempo is too short by Interval + 2 * MaxCycle - 2       *)
(* blocks.                                                                 *)
(***************************************************************************)
THEOREM LongRetentionCounts ==
  ASSUME LongRetention
  PROVE  CountSpec => [](faults \subseteq {"disk"} => EveryPassIsCounted)
<1>1. CountInit => IInv /\ (DiskOnly => OwedInv)
  <2> SUFFICES ASSUME CountInit PROVE IInv /\ OwedInv
    OBVIOUS
  <2>1. IInv
    BY Initially DEF CountInit
  <2>2. OwedInv
    BY Numbers DEF CountInit, Init, OwedInv
  <2> QED
    BY <2>1, <2>2
<1>2. ASSUME IInv, DiskOnly => OwedInv, [CountNext]_<<vars, owed>>
      PROVE  IInv' /\ (DiskOnly' => OwedInv')
  <2>1. [Next]_vars /\ IInv'
    BY <1>2, CountStep, InvariantStep
  <2>2. faults' = faults
    BY <2>1, FaultsStep
  <2> QED
    BY <1>2, <2>1, <2>2, OwedStep DEF DiskOnly
<1>3. OwedInv => EveryPassIsCounted
  BY DEF OwedInv, EveryPassIsCounted
<1> DEFINE Counts == faults \subseteq {"disk"} => EveryPassIsCounted
<1>4. IInv /\ (DiskOnly => OwedInv) => Counts
  BY <1>3 DEF DiskOnly
<1>5. CountSpec => []Counts
  BY <1>1, <1>2, <1>4, PTL DEF CountSpec
<1> QED
  BY <1>5

=============================================================================
