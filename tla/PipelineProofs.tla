--------------------------- MODULE PipelineProofs ---------------------------
(***************************************************************************)
(* Proofs about SubmissionPipeline for any number of validators, callers,  *)
(* miners, configs and submissions, any limit, balance and number of       *)
(* attempts, and every set of faults.  What concerns the shared novelty    *)
(* index needs ConfigsRoutedToOneValidator as a hypothesis; the violation  *)
(* run pipeline_two_validators shows that it is needed.                    *)
(***************************************************************************)
EXTENDS SubmissionPipeline, FiniteSetTheorems, TLAPS

(***************************************************************************)
(* The inductive invariant.  Each part says what a stage may rely on       *)
(* although the call that established it was made several awaits earlier.  *)
(***************************************************************************)

\* Stages from which on the novelty check is relied on.
NoveltyRelied == (Judging \union Settling)

\* Stages from which on the rate-limit check is relied on.
RateRelied == NoveltyRelied \union {"novelty_check"}

\* A run inside the stages holds its validator's lock.
LockInv == \A c \in Callers : stage[c] \in Locked => lock[HostOf[c]] = c

\* A caller works on a submission its validator received.
JobInv ==
  /\ \A c \in Callers : stage[c] # "idle" => job[c] \in Receives[HostOf[c]]
  /\ \A v \in Validators : accepted[v] \subseteq Receives[v]

\* The slot found free in stage 4 is still free.
RateInv ==
  /\ RateLimitRespected
  /\ \A c \in Callers :
       stage[c] \in RateRelied => window[HostOf[c]][Miner(c)] < MaxSubmissions

\* The config found novel in stage 5 has not been accepted meanwhile.
NoveltyInv ==
  \A c \in Callers : stage[c] \in NoveltyRelied => Config(c) \notin AcceptedConfigs

\* The embedding added in stage 7c is still in the index.
IndexedInv ==
  \A c \in Callers : stage[c] \in {"deduct_work_token", "record"} => Config(c) \in index

\* The deduction confirmed in stage 8 stands.
PaidInv ==
  /\ \A c \in Callers : stage[c] = "record" => job[c] \in consumed
  /\ \A v \in Validators : accepted[v] \subseteq consumed

RunInv == TypeOK /\ LockInv /\ JobInv

-----------------------------------------------------------------------------
\* The assumptions on the constants, under one name.
LEMMA Constants ==
  /\ NoCaller \notin Callers /\ NoWork \notin WorkIds
  /\ HostOf \in [Callers -> Validators]
  /\ MinerOf \in [WorkIds -> Miners]
  /\ ConfigOf \in [WorkIds -> Configs]
  /\ Receives \in [Validators -> SUBSET WorkIds]
  /\ MaxSubmissions \in Nat \ {0}
  /\ MaxAttempts \in Nat \ {0}
  /\ InitialBalance \in Nat
BY SetsAssumption, FunctionsAssumption, NumbersAssumption

LEMMA StageNames ==
  /\ Locked \subseteq Stages
  /\ {"idle", "passed", "failed"} \subseteq Stages
  /\ {"idle", "passed", "failed"} \intersect Locked = {}
BY DEF Locked, Stages, BeforeNovelty, Judging, Settling

-----------------------------------------------------------------------------
(***************************************************************************)
(* Type correctness.                                                       *)
(***************************************************************************)
LEMMA GotoTypes ==
  ASSUME TypeOK, NEW c \in Callers, NEW s \in Stages, Goto(c, s)
  PROVE  /\ lock' \in [Validators -> Callers \union {NoCaller}]
         /\ stage' \in [Callers -> Stages]
         /\ job' \in [Callers -> WorkIds \union {NoWork}]
         /\ attempt' \in [Callers -> 0 .. MaxAttempts]
BY Constants DEF TypeOK, Goto

LEMMA ReturnTypes ==
  ASSUME TypeOK, NEW c \in Callers, NEW r \in Stages, Return(c, r)
  PROVE  /\ lock' \in [Validators -> Callers \union {NoCaller}]
         /\ stage' \in [Callers -> Stages]
         /\ job' \in [Callers -> WorkIds \union {NoWork}]
         /\ attempt' \in [Callers -> 0 .. MaxAttempts]
<1>1. HostOf[c] \in Validators /\ 0 \in 0 .. MaxAttempts
  BY Constants
<1>2. lock' \in [Validators -> Callers \union {NoCaller}]
  BY <1>1 DEF TypeOK, Return
<1>3. attempt' \in [Callers -> 0 .. MaxAttempts]
  BY <1>1 DEF TypeOK, Return
<1> QED
  BY <1>2, <1>3 DEF TypeOK, Return

LEMMA ConsumeTypes ==
  ASSUME TypeOK, NEW w \in WorkIds,
         ConsumeEffect(w) \/ UNCHANGED <<consumed, balance>>
  PROVE  /\ consumed' \subseteq WorkIds
         /\ balance' \in [Miners -> Nat]
         /\ consumed \subseteq consumed'
<1>1. MinerOf[w] \in Miners
  BY Constants
<1>2. CASE w \notin consumed /\ balance[MinerOf[w]] > 0 /\ ConsumeEffect(w)
  <2>1. /\ balance' = [balance EXCEPT ![MinerOf[w]] = @ - 1]
        /\ consumed' = consumed \union {w}
    BY <1>2 DEF ConsumeEffect
  <2>2. balance[MinerOf[w]] - 1 \in Nat
    BY <1>1, <1>2 DEF TypeOK
  <2> QED
    BY <2>1, <2>2 DEF TypeOK
<1>3. CASE UNCHANGED <<consumed, balance>>
  BY <1>3 DEF TypeOK
<1> QED
  BY <1>2, <1>3 DEF ConsumeEffect

LEMMA TakeResultTypes ==
  ASSUME TypeOK, NEW c \in Callers, TakeResult(c)
  PROVE  /\ lock' \in [Validators -> Callers \union {NoCaller}]
         /\ stage' \in [Callers -> Stages]
         /\ job' \in [Callers -> WorkIds \union {NoWork}]
         /\ attempt' \in [Callers -> 0 .. MaxAttempts]
BY Constants, StageNames DEF TypeOK, TakeResult

LEMMA RunTypes ==
  ASSUME TypeOK, LockInv, JobInv, NEW c \in Callers, Run(c)
  PROVE  TypeOK'
<1> USE Constants, StageNames DEF Locked, BeforeNovelty, Judging, Settling
<1>0. stage[c] # "idle" => job[c] \in WorkIds /\ Miner(c) \in Miners /\ Config(c) \in Configs
  BY DEF TypeOK, JobInv, Miner, Config
<1>1. ASSUME NEW here, NEW next \in Stages, Gate(c, here, next) PROVE TypeOK'
  BY <1>1, GotoTypes, ReturnTypes DEF Gate, TypeOK, apiVars
<1>2. CASE LocalChecks(c)
  BY <1>1, <1>2 DEF LocalChecks
<1>3. CASE WorkTokenCheck(c)
  BY <1>3, GotoTypes, ReturnTypes DEF WorkTokenCheck, TypeOK, apiVars
<1>4. CASE RateLimitCheck(c)
  BY <1>4, GotoTypes, ReturnTypes DEF RateLimitCheck, TypeOK, apiVars
<1>5. CASE NoveltyCheck(c)
  BY <1>5, GotoTypes, ReturnTypes DEF NoveltyCheck, TypeOK, apiVars
<1>6. CASE ClassifierGate(c)
  BY <1>1, <1>6 DEF ClassifierGate
<1>7. CASE Simulate(c)
  BY <1>1, <1>7 DEF Simulate
<1>8. CASE GatekeeperCheck(c)
  BY <1>1, <1>8 DEF GatekeeperCheck
<1>9. CASE SemanticCoherenceCheck(c)
  BY <1>1, <1>9 DEF SemanticCoherenceCheck
<1>10. CASE NoveltyAdd(c)
  <2>1. index' \subseteq Configs
    BY <1>0, <1>10 DEF NoveltyAdd, TypeOK
  <2>2. /\ lock' \in [Validators -> Callers \union {NoCaller}]
        /\ stage' \in [Callers -> Stages]
        /\ job' \in [Callers -> WorkIds \union {NoWork}]
        /\ attempt' \in [Callers -> 0 .. MaxAttempts]
    <3>1. CASE Goto(c, "deduct_work_token")
      BY <3>1, GotoTypes
    <3>2. CASE Return(c, "failed")
      BY <3>2, ReturnTypes
    <3>3. ASSUME attempt[c] + 1 < MaxAttempts, attempt' = [attempt EXCEPT ![c] = @ + 1], UNCHANGED <<lock, stage, job>>
          PROVE  /\ lock' \in [Validators -> Callers \union {NoCaller}]
                 /\ stage' \in [Callers -> Stages]
                 /\ job' \in [Callers -> WorkIds \union {NoWork}]
                 /\ attempt' \in [Callers -> 0 .. MaxAttempts]
      BY <3>3 DEF TypeOK
    <3> QED
      BY <1>10, <3>1, <3>2, <3>3 DEF NoveltyAdd, RetryOr
  <2> QED
    BY <1>10, <2>1, <2>2 DEF NoveltyAdd, TypeOK
<1>11. CASE DeductWorkToken(c)
  <2>1. consumed' \subseteq WorkIds /\ balance' \in [Miners -> Nat]
    BY <1>0, <1>11, ConsumeTypes DEF DeductWorkToken
  <2>2. /\ lock' \in [Validators -> Callers \union {NoCaller}]
        /\ stage' \in [Callers -> Stages]
        /\ job' \in [Callers -> WorkIds \union {NoWork}]
        /\ attempt' \in [Callers -> 0 .. MaxAttempts]
    BY <1>11, GotoTypes DEF DeductWorkToken, RetryOr, TypeOK
  <2> QED
    BY <1>11, <2>1, <2>2 DEF DeductWorkToken, TypeOK
<1>12. CASE Rollback(c)
  BY <1>12, ReturnTypes DEF Rollback, TypeOK
<1>13. CASE Record(c)
  <2>1. window' \in [Validators -> [Miners -> Nat]]
    BY <1>0, <1>13 DEF Record, TypeOK
  <2>2. accepted' \in [Validators -> SUBSET WorkIds]
    BY <1>0, <1>13 DEF Record, TypeOK
  <2> QED
    BY <1>13, <2>1, <2>2, ReturnTypes DEF Record, TypeOK, apiVars
<1>14. CASE TakeResult(c)
  BY <1>14, TakeResultTypes DEF TakeResult, TypeOK, apiVars
<1> QED
  BY <1>2, <1>3, <1>4, <1>5, <1>6, <1>7, <1>8, <1>9, <1>10, <1>11, <1>12,
     <1>13, <1>14 DEF Run

(***************************************************************************)
(* What a step of one caller leaves to the others, and when it touches the *)
(* lock.                                                                   *)
(***************************************************************************)
LEMMA RunFrame ==
  ASSUME TypeOK, NEW c \in Callers, Run(c)
  PROVE  /\ \A d \in Callers \ {c} : stage'[d] = stage[d] /\ job'[d] = job[d]
         /\ stage'[c] # "idle" => stage[c] # "idle" /\ job'[c] = job[c]
         /\ stage'[c] \in Locked => stage[c] \in Locked
         /\ \/ lock' = lock
            \/ /\ stage[c] \in Locked
               /\ stage'[c] \notin Locked
               /\ lock' = [lock EXCEPT ![HostOf[c]] = NoCaller]
<1> DEFINE Framed ==
      /\ \A d \in Callers \ {c} : stage'[d] = stage[d] /\ job'[d] = job[d]
      /\ stage'[c] # "idle" => stage[c] # "idle" /\ job'[c] = job[c]
      /\ stage'[c] \in Locked => stage[c] \in Locked
      /\ \/ lock' = lock
         \/ /\ stage[c] \in Locked
            /\ stage'[c] \notin Locked
            /\ lock' = [lock EXCEPT ![HostOf[c]] = NoCaller]
<1>1. ASSUME NEW s, stage[c] \in Locked, Goto(c, s) PROVE Framed
  BY <1>1, StageNames DEF Goto, TypeOK
<1>2. ASSUME NEW r \in {"passed", "failed"}, stage[c] \in Locked, Return(c, r) PROVE Framed
  BY <1>2, StageNames DEF Return, TypeOK
<1>3. ASSUME stage[c] \notin Locked, TakeResult(c) PROVE Framed
  BY <1>3, StageNames DEF TakeResult, TypeOK
<1>4. ASSUME UNCHANGED <<lock, stage, job>> PROVE Framed
  BY <1>4
<1>5. ASSUME stage[c] \in {"passed", "failed"} PROVE stage[c] \notin Locked
  BY <1>5, StageNames
<1>6. ASSUME NEW here \in Locked, NEW next, Gate(c, here, next) PROVE Framed
  BY <1>1, <1>2, <1>6 DEF Gate
<1>7. "local_checks" \in Locked /\ BeforeNovelty \subseteq Locked
      /\ Judging \subseteq Locked /\ Settling \subseteq Locked
  BY DEF Locked, BeforeNovelty
<1> USE DEF BeforeNovelty, Judging, Settling
<1>8. CASE LocalChecks(c)
  BY <1>6, <1>7, <1>8 DEF LocalChecks
<1>9. CASE WorkTokenCheck(c)
  BY <1>1, <1>2, <1>7, <1>9 DEF WorkTokenCheck
<1>10. CASE RateLimitCheck(c)
  BY <1>1, <1>2, <1>7, <1>10 DEF RateLimitCheck
<1>11. CASE NoveltyCheck(c)
  BY <1>1, <1>2, <1>7, <1>11 DEF NoveltyCheck
<1>12. CASE ClassifierGate(c) \/ Simulate(c) \/ GatekeeperCheck(c) \/ SemanticCoherenceCheck(c)
  BY <1>6, <1>7, <1>12 DEF ClassifierGate, Simulate, GatekeeperCheck, SemanticCoherenceCheck
<1>13. CASE NoveltyAdd(c)
  BY <1>1, <1>2, <1>4, <1>7, <1>13 DEF NoveltyAdd, RetryOr
<1>14. CASE DeductWorkToken(c)
  BY <1>1, <1>4, <1>7, <1>14 DEF DeductWorkToken, RetryOr
<1>15. CASE Rollback(c)
  BY <1>2, <1>7, <1>15 DEF Rollback
<1>16. CASE Record(c)
  BY <1>2, <1>7, <1>16 DEF Record
<1>17. CASE TakeResult(c)
  BY <1>3, <1>5, <1>17 DEF TakeResult
<1> QED
  BY <1>8, <1>9, <1>10, <1>11, <1>12, <1>13, <1>14, <1>15, <1>16, <1>17 DEF Run

\* Only Record extends the accepted sets.
LEMMA RunAccepts ==
  ASSUME NEW c \in Callers, Run(c)
  PROVE  UNCHANGED accepted \/ Record(c)
BY DEF Run, LocalChecks, WorkTokenCheck, RateLimitCheck, NoveltyCheck, ClassifierGate,
       Simulate, GatekeeperCheck, SemanticCoherenceCheck, Gate, NoveltyAdd,
       DeductWorkToken, Rollback, TakeResult

LEMMA RunKeepsRunInv ==
  ASSUME RunInv, NEW c \in Callers, Run(c)
  PROVE  RunInv'
<1> USE DEF RunInv
<1>1. TypeOK'
  BY RunTypes
<1>2. LockInv'
  <2> SUFFICES ASSUME NEW d \in Callers, stage'[d] \in Locked PROVE lock'[HostOf[d]] = d
    BY DEF LockInv
  <2>1. stage[d] \in Locked
    BY RunFrame
  <2>2. lock[HostOf[d]] = d
    BY <2>1 DEF LockInv
  <2>3. CASE lock' = lock
    BY <2>2, <2>3
  <2>4. CASE lock' # lock
    <3>1. /\ stage[c] \in Locked
          /\ stage'[c] \notin Locked
          /\ lock' = [lock EXCEPT ![HostOf[c]] = NoCaller]
      BY <2>4, RunFrame
    <3>2. HostOf[c] # HostOf[d]
      BY <2>2, <3>1 DEF LockInv
    <3> QED
      BY <2>2, <3>1, <3>2, Constants DEF TypeOK
  <2> QED
    BY <2>3, <2>4
<1>3. JobInv'
  <2>1. \A d \in Callers : stage'[d] # "idle" => job'[d] \in Receives[HostOf[d]]
    BY RunFrame DEF JobInv
  <2>2. ASSUME NEW v \in Validators PROVE accepted'[v] \subseteq Receives[v]
    <3>1. CASE UNCHANGED accepted
      BY <3>1 DEF JobInv
    <3>2. CASE Record(c)
      <4>1. job[c] \in Receives[HostOf[c]]
        BY <3>2 DEF Record, JobInv
      <4>2. accepted' = [accepted EXCEPT ![HostOf[c]] = @ \union {job[c]}]
        BY <3>2 DEF Record
      <4> QED
        BY <4>1, <4>2 DEF JobInv, TypeOK
    <3> QED
      BY <3>1, <3>2, RunAccepts
  <2> QED
    BY <2>1, <2>2 DEF JobInv
<1> QED
  BY <1>1, <1>2, <1>3

LEMMA BeginKeepsRunInv ==
  ASSUME RunInv, NEW c \in Callers, NEW w \in WorkIds, Begin(c, w)
  PROVE  RunInv'
<1> USE DEF RunInv
<1>1. /\ HostOf[c] \in Validators
      /\ "local_checks" \in Locked
      /\ "local_checks" \in Stages
  BY Constants DEF Locked, Stages, BeforeNovelty
<1>2. TypeOK'
  BY <1>1 DEF Begin, TypeOK, apiVars
<1>3. LockInv'
  <2> SUFFICES ASSUME NEW d \in Callers, stage'[d] \in Locked PROVE lock'[HostOf[d]] = d
    BY DEF LockInv
  <2>1. CASE d = c
    BY <1>1, <2>1 DEF Begin, TypeOK
  <2>2. CASE d # c
    <3>1. lock[HostOf[d]] = d
      BY <2>2 DEF Begin, TypeOK, LockInv
    <3>2. HostOf[d] # HostOf[c]
      BY <3>1, Constants DEF Begin
    <3> QED
      BY <3>1, <3>2, <1>1, Constants DEF Begin, TypeOK
  <2> QED
    BY <2>1, <2>2
<1>4. JobInv'
  BY DEF Begin, TypeOK, JobInv
<1> QED
  BY <1>2, <1>3, <1>4

LEMMA SlotExpiresKeepsRunInv ==
  ASSUME RunInv, NEW v \in Validators, NEW m \in Miners, SlotExpires(v, m)
  PROVE  RunInv'
<1>1. window[v][m] - 1 \in Nat
  BY DEF SlotExpires, RunInv, TypeOK
<1>2. window' \in [Validators -> [Miners -> Nat]]
  BY <1>1 DEF SlotExpires, RunInv, TypeOK
<1> QED
  BY <1>2 DEF SlotExpires, RunInv, TypeOK, LockInv, JobInv, apiVars, runVars

LEMMA SpendElsewhereKeepsRunInv ==
  ASSUME RunInv, NEW m \in Miners, SpendElsewhere(m)
  PROVE  RunInv'
<1>1. balance[m] - 1 \in Nat
  BY DEF SpendElsewhere, RunInv, TypeOK
<1>2. balance' \in [Miners -> Nat]
  BY <1>1 DEF SpendElsewhere, RunInv, TypeOK
<1> QED
  BY <1>2 DEF SpendElsewhere, RunInv, TypeOK, LockInv, JobInv, runVars

LEMMA CrashKeepsRunInv ==
  ASSUME RunInv, NEW v \in Validators, Crash(v)
  PROVE  RunInv'
<1> USE DEF RunInv
<1>1. 0 \in 0 .. MaxAttempts
  BY Constants
<1>2. TypeOK'
  BY <1>1, StageNames DEF Crash, TypeOK, apiVars
<1>3. LockInv'
  BY StageNames, Constants DEF Crash, TypeOK, LockInv
<1>4. JobInv'
  BY StageNames DEF Crash, TypeOK, JobInv
<1> QED
  BY <1>2, <1>3, <1>4

LEMMA InitRunInv == Init => RunInv
<1> SUFFICES ASSUME Init PROVE RunInv
  OBVIOUS
<1>1. TypeOK
  BY Constants, StageNames DEF Init, TypeOK
<1>2. LockInv
  BY StageNames DEF Init, LockInv
<1>3. JobInv
  BY DEF Init, JobInv
<1> QED
  BY <1>1, <1>2, <1>3 DEF RunInv

LEMMA NextKeepsRunInv == RunInv /\ [Next]_vars => RunInv'
<1> SUFFICES ASSUME RunInv, [Next]_vars PROVE RunInv'
  OBVIOUS
<1>1. CASE \E c \in Callers, w \in WorkIds : Begin(c, w)
  BY <1>1, BeginKeepsRunInv
<1>2. CASE \E c \in Callers : Run(c)
  BY <1>2, RunKeepsRunInv
<1>3. CASE \E v \in Validators, m \in Miners : SlotExpires(v, m)
  BY <1>3, SlotExpiresKeepsRunInv
<1>4. CASE \E m \in Miners : SpendElsewhere(m)
  BY <1>4, SpendElsewhereKeepsRunInv
<1>5. CASE \E v \in Validators : Crash(v)
  BY <1>5, CrashKeepsRunInv
<1>6. CASE UNCHANGED vars
  BY <1>6 DEF vars, RunInv, TypeOK, LockInv, JobInv, apiVars, runVars
<1> QED
  BY <1>1, <1>2, <1>3, <1>4, <1>5, <1>6 DEF Next

\* Every variable keeps its type: in particular a balance and a window count
\* never go negative and a call is never attempted more than MaxAttempts times.
THEOREM TypeCorrect == Spec => []TypeOK
<1>1. Spec => []RunInv
  BY InitRunInv, NextKeepsRunInv, PTL DEF Spec
<1>2. RunInv => TypeOK
  BY DEF RunInv
<1> QED
  BY <1>1, <1>2, PTL

-----------------------------------------------------------------------------
(***************************************************************************)
(* The rate limit.  The lock keeps the slot found free in stage 4 free     *)
(* until the run records its submission.                                   *)
(***************************************************************************)

\* Two callers of one validator are never both inside the stages.
LEMMA MutualExclusion ==
  ASSUME RunInv, NEW c \in Callers, NEW d \in Callers,
         stage[c] \in Locked, stage[d] \in Locked, HostOf[c] = HostOf[d]
  PROVE  c = d
BY DEF RunInv, LockInv

\* A run relies on the rate limit once it has checked it.
LEMMA RunChecksRate ==
  ASSUME RunInv, NEW c \in Callers, Run(c), stage'[c] \in RateRelied
  PROVE  /\ UNCHANGED window
         /\ stage[c] \in Locked /\ job'[c] = job[c]
         /\ \/ stage[c] \in RateRelied
            \/ window[HostOf[c]][Miner(c)] < MaxSubmissions
<1>0. RateRelied \subseteq Locked
  BY DEF RateRelied, NoveltyRelied, Locked, BeforeNovelty
<1>1. stage[c] \in Locked /\ job'[c] = job[c]
  BY <1>0, RunFrame, StageNames DEF RunInv
<1> USE DEF RateRelied, NoveltyRelied, Judging, Settling
<1>2. ~ (TakeResult(c) \/ Record(c))
  BY <1>1, StageNames DEF TakeResult, Record, Return, RunInv, TypeOK
<1>3. UNCHANGED window
  BY <1>2 DEF Run, LocalChecks, WorkTokenCheck, RateLimitCheck, NoveltyCheck, ClassifierGate,
       Simulate, GatekeeperCheck, SemanticCoherenceCheck, Gate, NoveltyAdd,
       DeductWorkToken, Rollback
<1>4. CASE LocalChecks(c)
  BY <1>4 DEF LocalChecks, Gate, Goto, Return, RunInv, TypeOK
<1>5. CASE WorkTokenCheck(c)
  BY <1>5 DEF WorkTokenCheck, Goto, Return, RunInv, TypeOK
<1>6. CASE RateLimitCheck(c)
  BY <1>1, <1>3, <1>6 DEF RateLimitCheck, Return, RunInv, TypeOK
<1>7. ASSUME ~ (LocalChecks(c) \/ WorkTokenCheck(c) \/ RateLimitCheck(c)) PROVE stage[c] \in RateRelied
  BY <1>2, <1>7 DEF Run, NoveltyCheck, ClassifierGate, Simulate, GatekeeperCheck,
       SemanticCoherenceCheck, Gate, NoveltyAdd, DeductWorkToken, Rollback
<1> QED
  BY <1>1, <1>3, <1>4, <1>5, <1>6, <1>7

\* Only Record extends a window.
LEMMA RunRecords ==
  ASSUME NEW c \in Callers, Run(c)
  PROVE  UNCHANGED window \/ Record(c)
BY DEF Run, LocalChecks, WorkTokenCheck, RateLimitCheck, NoveltyCheck, ClassifierGate,
       Simulate, GatekeeperCheck, SemanticCoherenceCheck, Gate, NoveltyAdd,
       DeductWorkToken, Rollback, TakeResult

LEMMA RunKeepsRateInv ==
  ASSUME RunInv, RateInv, NEW c \in Callers, Run(c)
  PROVE  RateInv'
<1>0. RateRelied \subseteq Locked
  BY DEF RateRelied, NoveltyRelied, Locked, BeforeNovelty
<1>1. CASE Record(c)
  <2>1. /\ stage[c] = "record" /\ "record" \in RateRelied
        /\ window' = [window EXCEPT ![HostOf[c]][Miner(c)] = @ + 1]
        /\ stage'[c] = "passed"
    BY <1>1 DEF Record, Return, RunInv, TypeOK, RateRelied, NoveltyRelied, Settling
  <2>2. window[HostOf[c]][Miner(c)] < MaxSubmissions
    BY <2>1 DEF RateInv
  <2>3. RateLimitRespected'
    <3> SUFFICES ASSUME NEW v \in Validators, NEW m \in Miners
                 PROVE  window'[v][m] <= MaxSubmissions
      BY DEF RateLimitRespected
    <3>1. CASE v = HostOf[c] /\ m = Miner(c)
      BY <2>1, <2>2, <3>1, Constants DEF RunInv, TypeOK
    <3>2. CASE ~ (v = HostOf[c] /\ m = Miner(c))
      BY <2>1, <3>2, Constants DEF RunInv, TypeOK, RateInv, RateLimitRespected
    <3> QED
      BY <3>1, <3>2
  <2>4. ASSUME NEW d \in Callers, stage'[d] \in RateRelied
        PROVE  window'[HostOf[d]][MinerOf[job'[d]]] < MaxSubmissions
    <3>1. d # c
      BY <2>1, <2>4, StageNames, <1>0
    <3>2. stage'[d] = stage[d] /\ job'[d] = job[d]
      BY <3>1, RunFrame DEF RunInv
    <3>3. HostOf[c] # HostOf[d]
      BY <1>0, <2>1, <2>4, <3>1, <3>2, MutualExclusion
    <3>4. window'[HostOf[d]] = window[HostOf[d]]
      BY <2>1, <3>3, Constants DEF RunInv, TypeOK
    <3> QED
      BY <2>4, <3>2, <3>4 DEF RateInv, Miner
  <2> QED
    BY <2>3, <2>4 DEF RateInv, Miner
<1>2. CASE UNCHANGED window
  <2>1. RateLimitRespected'
    BY <1>2 DEF RateInv, RateLimitRespected
  <2>2. ASSUME NEW d \in Callers, stage'[d] \in RateRelied
        PROVE  window'[HostOf[d]][MinerOf[job'[d]]] < MaxSubmissions
    <3>1. CASE d # c
      BY <1>2, <2>2, <3>1, RunFrame DEF RunInv, RateInv, Miner
    <3>2. CASE d = c
      BY <1>2, <2>2, <3>2, RunChecksRate DEF RateInv, Miner
    <3> QED
      BY <3>1, <3>2
  <2> QED
    BY <2>1, <2>2 DEF RateInv, Miner
<1> QED
  BY <1>1, <1>2, RunRecords

\* Begin, SlotExpires, SpendElsewhere, Crash and stuttering.
Other ==
  \/ \E c \in Callers, w \in WorkIds : Begin(c, w)
  \/ \E v \in Validators, m \in Miners : SlotExpires(v, m)
  \/ \E m \in Miners : SpendElsewhere(m)
  \/ \E v \in Validators : Crash(v)
  \/ UNCHANGED vars

LEMMA NextCases == [Next]_vars => Other \/ \E c \in Callers : Run(c)
BY DEF Next, Other

\* The other steps add no run that relies on the limit and fill no window.
LEMMA OtherKeepsRateInv ==
  ASSUME RunInv, RateInv, Other
  PROVE  RateInv'
<1>0. "local_checks" \notin RateRelied /\ "idle" \notin RateRelied
  BY DEF RateRelied, NoveltyRelied, Judging, Settling
<1>1. ASSUME NEW c \in Callers, NEW w \in WorkIds, Begin(c, w) PROVE RateInv'
  BY <1>0, <1>1 DEF Begin, RunInv, TypeOK, RateInv, RateLimitRespected, Miner
<1>2. ASSUME NEW v \in Validators, NEW m \in Miners, SlotExpires(v, m) PROVE RateInv'
  <2>1. ASSUME NEW u \in Validators, NEW n \in Miners
        PROVE  window'[u][n] \in Nat /\ window[u][n] \in Nat /\ window'[u][n] <= window[u][n]
    BY <1>2 DEF SlotExpires, RunInv, TypeOK
  <2>2. RateLimitRespected'
    BY <2>1, Constants DEF RateInv, RateLimitRespected
  <2>3. ASSUME NEW d \in Callers, stage[d] \in RateRelied
        PROVE  window'[HostOf[d]][Miner(d)] < MaxSubmissions
    <3>1. HostOf[d] \in Validators /\ Miner(d) \in Miners
      BY <1>0, <2>3, Constants DEF RunInv, JobInv, TypeOK, Miner
    <3> QED
      BY <2>1, <2>3, <3>1, Constants DEF RateInv
  <2> QED
    BY <1>2, <2>2, <2>3 DEF SlotExpires, runVars, RateInv, Miner
<1>3. ASSUME NEW m \in Miners, SpendElsewhere(m) PROVE RateInv'
  BY <1>3 DEF SpendElsewhere, runVars, RateInv, RateLimitRespected, Miner
<1>4. ASSUME NEW v \in Validators, Crash(v) PROVE RateInv'
  BY <1>0, <1>4 DEF Crash, RateInv, RateLimitRespected, Miner
<1>5. CASE UNCHANGED vars
  BY <1>5 DEF vars, runVars, RateInv, RateLimitRespected, Miner
<1> QED
  BY <1>1, <1>2, <1>3, <1>4, <1>5 DEF Other

\* However many callers contend for a validator's pipeline, and whatever is
\* lost or crashes, no miner has more accepted submissions in one sliding
\* window than rate_limit_per_uid_per_tempo: check and record, a simulation
\* apart, act as one step under _run_lock.
THEOREM RateLimit == Spec => []RateLimitRespected
<1>1. Init => RunInv /\ RateInv
  <2> SUFFICES ASSUME Init PROVE RateInv
    BY InitRunInv
  <2>1. "idle" \notin RateRelied
    BY DEF RateRelied, NoveltyRelied, Judging, Settling
  <2> QED
    BY <2>1, Constants DEF Init, RateInv, RateLimitRespected
<1>2. RunInv /\ RateInv /\ [Next]_vars => (RunInv /\ RateInv)'
  BY NextKeepsRunInv, RunKeepsRateInv, OtherKeepsRateInv, NextCases
<1>3. RunInv /\ RateInv => RateLimitRespected
  BY DEF RateInv
<1> QED
  BY <1>1, <1>2, <1>3, PTL DEF Spec

-----------------------------------------------------------------------------
(***************************************************************************)
(* The token and the acceptance: what is accepted has been charged.        *)
(***************************************************************************)
LEMMA RunCharges ==
  ASSUME RunInv, NEW c \in Callers, Run(c)
  PROVE  \/ UNCHANGED consumed
         \/ /\ DeductWorkToken(c) /\ ConsumeEffect(job[c])
            /\ consumed' = consumed \union {job[c]}
<1>1. CASE DeductWorkToken(c)
  BY <1>1 DEF DeductWorkToken, ConsumeEffect
<1>2. CASE ~ DeductWorkToken(c)
  BY <1>2 DEF Run, LocalChecks, WorkTokenCheck, RateLimitCheck, NoveltyCheck, ClassifierGate,
       Simulate, GatekeeperCheck, SemanticCoherenceCheck, Gate, NoveltyAdd, Rollback, Record,
       TakeResult, apiVars
<1> QED
  BY <1>1, <1>2

\* "record" is reached from stage 8 only, once the deduction is confirmed.
LEMMA RunReachesRecord ==
  ASSUME RunInv, NEW c \in Callers, Run(c), stage'[c] = "record"
  PROVE  /\ stage[c] = "deduct_work_token"
         /\ job'[c] = job[c] /\ job[c] \in consumed'
         /\ UNCHANGED <<index, accepted>>
<1> USE DEF RunInv, TypeOK, Goto, Return, TakeResult
<1>1. CASE DeductWorkToken(c)
  BY <1>1 DEF DeductWorkToken, RetryOr, ConsumeSucceeds, ConsumeEffect
<1>2. CASE NoveltyAdd(c)
  BY <1>2 DEF NoveltyAdd, RetryOr
<1>3. ASSUME NEW here, NEW next, next # "record", Gate(c, here, next) PROVE FALSE
  BY <1>3 DEF Gate
<1>4. CASE LocalChecks(c) \/ ClassifierGate(c) \/ Simulate(c) \/ GatekeeperCheck(c)
           \/ SemanticCoherenceCheck(c)
  BY <1>3, <1>4 DEF LocalChecks, ClassifierGate, Simulate, GatekeeperCheck,
       SemanticCoherenceCheck
<1>5. CASE WorkTokenCheck(c) \/ RateLimitCheck(c) \/ NoveltyCheck(c)
  BY <1>5 DEF WorkTokenCheck, RateLimitCheck, NoveltyCheck
<1>6. CASE Rollback(c) \/ Record(c) \/ TakeResult(c)
  BY <1>6 DEF Rollback, Record, TakeResult
<1> QED
  BY <1>1, <1>2, <1>4, <1>5, <1>6 DEF Run

LEMMA RunKeepsPaidInv ==
  ASSUME RunInv, PaidInv, NEW c \in Callers, Run(c)
  PROVE  PaidInv'
<1>1. consumed \subseteq consumed'
  BY RunCharges
<1>2. ASSUME NEW d \in Callers, stage'[d] = "record" PROVE job'[d] \in consumed'
  <2>1. CASE d = c
    BY <1>2, <2>1, RunReachesRecord
  <2>2. CASE d # c
    BY <1>1, <1>2, <2>2, RunFrame DEF RunInv, PaidInv
  <2> QED
    BY <2>1, <2>2
<1>3. ASSUME NEW v \in Validators PROVE accepted'[v] \subseteq consumed'
  <2>1. CASE UNCHANGED accepted
    BY <1>1, <2>1 DEF PaidInv
  <2>2. CASE Record(c)
    <3>1. job[c] \in consumed
      BY <2>2 DEF Record, PaidInv
    <3>2. accepted' = [accepted EXCEPT ![HostOf[c]] = @ \union {job[c]}]
      BY <2>2 DEF Record
    <3> QED
      BY <1>1, <3>1, <3>2 DEF PaidInv, RunInv, TypeOK
  <2> QED
    BY <2>1, <2>2, RunAccepts
<1> QED
  BY <1>2, <1>3 DEF PaidInv

\* The other steps accept, charge and index nothing, and a caller they move is not
\* beyond the novelty check.
LEMMA OtherFrame ==
  ASSUME RunInv, Other
  PROVE  /\ UNCHANGED <<consumed, index, accepted>>
         /\ \A d \in Callers :
              stage'[d] \in NoveltyRelied => stage'[d] = stage[d] /\ job'[d] = job[d]
<1>0. "local_checks" \notin NoveltyRelied /\ "idle" \notin NoveltyRelied
  BY DEF NoveltyRelied, Judging, Settling
<1>1. ASSUME NEW c \in Callers, NEW w \in WorkIds, Begin(c, w)
      PROVE  \A d \in Callers :
               stage'[d] \in NoveltyRelied => stage'[d] = stage[d] /\ job'[d] = job[d]
  BY <1>0, <1>1 DEF Begin, RunInv, TypeOK
<1>2. ASSUME NEW v \in Validators, Crash(v)
      PROVE  \A d \in Callers :
               stage'[d] \in NoveltyRelied => stage'[d] = stage[d] /\ job'[d] = job[d]
  BY <1>0, <1>2 DEF Crash
<1>3. UNCHANGED <<consumed, index, accepted>>
  BY DEF Other, Begin, SlotExpires, SpendElsewhere, Crash, vars, apiVars
<1>4. ASSUME NEW v \in Validators, NEW m \in Miners, SlotExpires(v, m) \/ SpendElsewhere(m)
      PROVE  UNCHANGED <<stage, job>>
  BY <1>4 DEF SlotExpires, SpendElsewhere, runVars
<1>5. ASSUME NEW m \in Miners, SpendElsewhere(m) PROVE UNCHANGED <<stage, job>>
  BY <1>5 DEF SpendElsewhere, runVars
<1>6. UNCHANGED vars => UNCHANGED <<stage, job>>
  BY DEF vars, runVars
<1> QED
  BY <1>1, <1>2, <1>3, <1>4, <1>5, <1>6 DEF Other

LEMMA NextKeepsPaidInv == RunInv /\ PaidInv /\ [Next]_vars => PaidInv'
<1>1. ASSUME RunInv, PaidInv, Other PROVE PaidInv'
  <2>1. "record" \in NoveltyRelied
    BY DEF NoveltyRelied, Settling
  <2> QED
    BY <1>1, <2>1, OtherFrame DEF PaidInv
<1> QED
  BY <1>1, RunKeepsPaidInv, NextCases

\* An accepted submission has been charged, also where two validators are sent
\* the same config, replies are lost or processes die.
THEOREM AcceptedIsPaid == Spec => [](AcceptedWork \subseteq consumed)
<1>1. Init => RunInv /\ PaidInv
  BY InitRunInv DEF Init, PaidInv
<1>2. RunInv /\ PaidInv /\ [Next]_vars => (RunInv /\ PaidInv)'
  BY NextKeepsRunInv, NextKeepsPaidInv
<1>3. PaidInv => AcceptedWork \subseteq consumed
  BY DEF PaidInv, AcceptedWork
<1> QED
  BY <1>1, <1>2, <1>3, PTL DEF Spec

\* The submissions in S that miner m has made.
MadeBy(m, S) == {w \in S : MinerOf[w] = m}

\* What a miner was charged, and what it has left, it had at the start.
BalanceInv ==
  \A m \in Miners :
    /\ IsFiniteSet(MadeBy(m, consumed))
    /\ balance[m] + Cardinality(MadeBy(m, consumed)) <= InitialBalance

LEMMA ConsumeKeepsBalanceInv ==
  ASSUME TypeOK, BalanceInv, NEW w \in WorkIds, ConsumeEffect(w)
  PROVE  BalanceInv'
<1> SUFFICES ASSUME NEW m \in Miners
             PROVE  /\ IsFiniteSet(MadeBy(m, consumed'))
                    /\ balance'[m] + Cardinality(MadeBy(m, consumed')) <= InitialBalance
  BY DEF BalanceInv, MadeBy
<1>1. /\ IsFiniteSet(MadeBy(m, consumed)) /\ Cardinality(MadeBy(m, consumed)) \in Nat
      /\ balance[m] + Cardinality(MadeBy(m, consumed)) <= InitialBalance
      /\ balance[m] \in Nat
  BY FS_CardinalityType DEF BalanceInv, TypeOK
<1>2. CASE UNCHANGED <<consumed, balance>>
  BY <1>1, <1>2
<1>3. CASE w \notin consumed /\ balance[MinerOf[w]] > 0
  <2>1. /\ consumed' = consumed \union {w}
        /\ balance' = [balance EXCEPT ![MinerOf[w]] = @ - 1]
    BY <1>3 DEF ConsumeEffect
  <2>2. CASE MinerOf[w] = m
    <3>1. MadeBy(m, consumed') = MadeBy(m, consumed) \union {w} /\ w \notin MadeBy(m, consumed)
      BY <1>3, <2>1, <2>2 DEF MadeBy
    <3>2. /\ IsFiniteSet(MadeBy(m, consumed) \union {w})
          /\ Cardinality(MadeBy(m, consumed) \union {w}) = Cardinality(MadeBy(m, consumed)) + 1
      BY <1>1, <3>1, FS_AddElement
    <3>3. balance'[m] = balance[m] - 1
      BY <2>1, <2>2 DEF TypeOK
    <3> QED
      BY <1>1, <3>1, <3>2, <3>3, Constants
  <2>3. CASE MinerOf[w] # m
    <3>1. MadeBy(m, consumed') = MadeBy(m, consumed)
      BY <2>1, <2>3 DEF MadeBy
    <3>2. balance'[m] = balance[m]
      BY <2>1, <2>3 DEF TypeOK
    <3> QED
      BY <1>1, <3>1, <3>2
  <2> QED
    BY <2>2, <2>3
<1> QED
  BY <1>2, <1>3 DEF ConsumeEffect

LEMMA NextKeepsBalanceInv == RunInv /\ BalanceInv /\ [Next]_vars => BalanceInv'
<1> SUFFICES ASSUME RunInv, BalanceInv, [Next]_vars PROVE BalanceInv'
  OBVIOUS
<1>1. ASSUME UNCHANGED <<consumed, balance>> PROVE BalanceInv'
  BY <1>1 DEF BalanceInv, MadeBy
<1>2. ASSUME NEW c \in Callers, Run(c) PROVE BalanceInv'
  <2>1. CASE DeductWorkToken(c)
    <3>1. job[c] \in WorkIds
      BY <2>1, Constants DEF DeductWorkToken, RunInv, JobInv
    <3> QED
      BY <1>1, <2>1, <3>1, ConsumeKeepsBalanceInv DEF DeductWorkToken, RunInv
  <2>2. CASE ~ DeductWorkToken(c)
    BY <1>1, <1>2, <2>2 DEF Run, LocalChecks, WorkTokenCheck, RateLimitCheck, NoveltyCheck,
       ClassifierGate, Simulate, GatekeeperCheck, SemanticCoherenceCheck, Gate, NoveltyAdd, Rollback,
       Record, TakeResult, apiVars
  <2> QED
    BY <2>1, <2>2
<1>3. ASSUME NEW m \in Miners, SpendElsewhere(m) PROVE BalanceInv'
  <2> SUFFICES ASSUME NEW n \in Miners
               PROVE  /\ IsFiniteSet(MadeBy(n, consumed'))
                      /\ balance'[n] + Cardinality(MadeBy(n, consumed')) <= InitialBalance
    BY DEF BalanceInv, MadeBy
  <2>1. MadeBy(n, consumed') = MadeBy(n, consumed)
    BY <1>3 DEF SpendElsewhere, MadeBy
  <2>2. balance[n] \in Nat /\ balance'[n] \in {balance[n], balance[n] - 1}
    BY <1>3 DEF SpendElsewhere, RunInv, TypeOK
  <2>3. /\ IsFiniteSet(MadeBy(n, consumed)) /\ Cardinality(MadeBy(n, consumed)) \in Nat
        /\ balance[n] + Cardinality(MadeBy(n, consumed)) <= InitialBalance
    BY FS_CardinalityType DEF BalanceInv
  <2> QED
    BY <2>1, <2>2, <2>3, Constants
<1>4. CASE Other /\ ~ \E m \in Miners : SpendElsewhere(m)
  BY <1>1, <1>4 DEF Other, Begin, SlotExpires, Crash, vars, apiVars
<1> QED
  BY <1>2, <1>3, <1>4, NextCases

\* All validators together accept no more submissions of a miner than it had
\* tokens: they share the balance, not the lock, and a token buys one
\* acceptance, however often the call that takes it is repeated.
THEOREM AcceptancesWithinBalance ==
  Spec => [](\A m \in Miners :
               /\ IsFiniteSet(MadeBy(m, AcceptedWork))
               /\ Cardinality(MadeBy(m, AcceptedWork)) <= InitialBalance)
<1> DEFINE Within == \A m \in Miners : /\ IsFiniteSet(MadeBy(m, AcceptedWork))
                                       /\ Cardinality(MadeBy(m, AcceptedWork)) <= InitialBalance
<1>1. Init => RunInv /\ PaidInv /\ BalanceInv
  <2> SUFFICES ASSUME Init PROVE PaidInv /\ BalanceInv
    BY InitRunInv
  <2>1. \A m \in Miners : MadeBy(m, consumed) = {} /\ balance[m] = InitialBalance
    BY DEF Init, MadeBy
  <2>2. IsFiniteSet({}) /\ Cardinality({}) = 0 /\ InitialBalance + 0 <= InitialBalance
    BY FS_EmptySet, Constants
  <2>3. BalanceInv
    BY <2>1, <2>2 DEF BalanceInv
  <2> QED
    BY <2>3 DEF Init, PaidInv
<1>2. RunInv /\ PaidInv /\ BalanceInv /\ [Next]_vars => (RunInv /\ PaidInv /\ BalanceInv)'
  BY NextKeepsRunInv, NextKeepsPaidInv, NextKeepsBalanceInv
<1>3. RunInv /\ PaidInv /\ BalanceInv => Within
  <2> SUFFICES ASSUME RunInv, PaidInv, BalanceInv, NEW m \in Miners
               PROVE  /\ IsFiniteSet(MadeBy(m, AcceptedWork))
                      /\ Cardinality(MadeBy(m, AcceptedWork)) <= InitialBalance
    OBVIOUS
  <2>1. MadeBy(m, AcceptedWork) \subseteq MadeBy(m, consumed)
    BY DEF PaidInv, AcceptedWork, MadeBy
  <2>2. /\ IsFiniteSet(MadeBy(m, consumed)) /\ Cardinality(MadeBy(m, consumed)) \in Nat
        /\ balance[m] + Cardinality(MadeBy(m, consumed)) <= InitialBalance /\ balance[m] \in Nat
    BY FS_CardinalityType DEF BalanceInv, RunInv, TypeOK
  <2>3. /\ IsFiniteSet(MadeBy(m, AcceptedWork)) /\ Cardinality(MadeBy(m, AcceptedWork)) \in Nat
        /\ Cardinality(MadeBy(m, AcceptedWork)) <= Cardinality(MadeBy(m, consumed))
    BY <2>1, <2>2, FS_Subset, FS_CardinalityType
  <2> QED
    BY <2>2, <2>3, Constants
<1> QED
  BY <1>1, <1>2, <1>3, PTL DEF Spec

-----------------------------------------------------------------------------
(***************************************************************************)
(* The novelty index.  NoveltyInv, IndexedInv and AcceptedConfigsStayIndexed *)
(* need one another: the check in stage 5 is against the index, so it only *)
(* excludes the accepted configs because those are indexed, and they stay  *)
(* indexed because no run that fails its rollback holds one of them.       *)
(***************************************************************************)
IndexInv == NoveltyInv /\ IndexedInv /\ AcceptedConfigsStayIndexed

\* Runs that hold one config belong to one validator, so at most one of them
\* is inside the stages.
LEMMA OneRunPerConfig ==
  ASSUME ConfigsRoutedToOneValidator, RunInv, NEW c \in Callers, NEW d \in Callers,
         stage[c] \in Locked, stage[d] \in Locked, Config(c) = Config(d)
  PROVE  c = d
<1>1. job[c] \in Receives[HostOf[c]] /\ job[d] \in Receives[HostOf[d]]
  BY StageNames DEF RunInv, JobInv
<1>2. HostOf[c] = HostOf[d]
  BY <1>1, Constants DEF ConfigsRoutedToOneValidator, Config
<1> QED
  BY <1>2, MutualExclusion

\* A run that passes the novelty check found its config outside the index.
LEMMA RunChecksNovelty ==
  ASSUME RunInv, NEW c \in Callers, Run(c), stage'[c] \in NoveltyRelied
  PROVE  /\ UNCHANGED accepted /\ job'[c] = job[c]
         /\ stage[c] \in NoveltyRelied \/ Config(c) \notin index
<1>0. "passed" \notin NoveltyRelied /\ NoveltyRelied \subseteq Locked
  BY DEF NoveltyRelied, Judging, Settling, Locked
<1>1. stage[c] \in Locked /\ job'[c] = job[c]
  BY <1>0, RunFrame, StageNames DEF RunInv
<1>2. UNCHANGED accepted
  <2>1. ASSUME Record(c) PROVE stage'[c] = "passed"
    BY <2>1 DEF Record, Return, RunInv, TypeOK
  <2> QED
    BY <1>0, <2>1, RunAccepts
<1> USE DEF NoveltyRelied, Judging, Settling
<1>3. CASE LocalChecks(c)
  BY <1>3 DEF LocalChecks, Gate, Goto, Return, RunInv, TypeOK
<1>4. CASE WorkTokenCheck(c) \/ RateLimitCheck(c)
  BY <1>4 DEF WorkTokenCheck, RateLimitCheck, Goto, Return, RunInv, TypeOK
<1>5. CASE NoveltyCheck(c)
  BY <1>1, <1>2, <1>5 DEF NoveltyCheck, Return, RunInv, TypeOK
<1>6. CASE TakeResult(c)
  BY <1>1, <1>6, StageNames DEF TakeResult
<1>7. ASSUME ~ (LocalChecks(c) \/ WorkTokenCheck(c) \/ RateLimitCheck(c) \/ NoveltyCheck(c)
                \/ TakeResult(c))
      PROVE  stage[c] \in NoveltyRelied
  BY <1>7 DEF Run, ClassifierGate, Simulate, GatekeeperCheck, SemanticCoherenceCheck, Gate,
       NoveltyAdd, DeductWorkToken, Rollback, Record
<1> QED
  BY <1>1, <1>2, <1>3, <1>4, <1>5, <1>6, <1>7

\* Only a rollback takes anything out of the index, and only its own config.
LEMMA RunKeepsIndex ==
  ASSUME NEW c \in Callers, Run(c)
  PROVE  \/ index \subseteq index'
         \/ Rollback(c) /\ index \ {Config(c)} \subseteq index'
<1>1. CASE Rollback(c)
  BY <1>1 DEF Rollback
<1>2. CASE ~ Rollback(c)
  BY <1>2 DEF Run, LocalChecks, WorkTokenCheck, RateLimitCheck, NoveltyCheck, ClassifierGate,
       Simulate, GatekeeperCheck, SemanticCoherenceCheck, Gate, NoveltyAdd, DeductWorkToken,
       Record, TakeResult, apiVars
<1> QED
  BY <1>1, <1>2

\* Stage 8 is reached once the embedding is in the index.
LEMMA RunReachesDeduct ==
  ASSUME RunInv, IndexedInv, NEW c \in Callers, Run(c), stage'[c] = "deduct_work_token"
  PROVE  job'[c] = job[c] /\ Config(c) \in index'
<1> USE DEF RunInv, TypeOK, Goto, Return, TakeResult
<1>1. CASE DeductWorkToken(c)
  BY <1>1 DEF DeductWorkToken, RetryOr, IndexedInv
<1>2. CASE NoveltyAdd(c)
  BY <1>2 DEF NoveltyAdd, RetryOr
<1>3. ASSUME NEW here, NEW next, next # "deduct_work_token", Gate(c, here, next) PROVE FALSE
  BY <1>3 DEF Gate
<1>4. CASE LocalChecks(c) \/ ClassifierGate(c) \/ Simulate(c) \/ GatekeeperCheck(c)
           \/ SemanticCoherenceCheck(c)
  BY <1>3, <1>4 DEF LocalChecks, ClassifierGate, Simulate, GatekeeperCheck,
       SemanticCoherenceCheck
<1>5. CASE WorkTokenCheck(c) \/ RateLimitCheck(c) \/ NoveltyCheck(c)
  BY <1>5 DEF WorkTokenCheck, RateLimitCheck, NoveltyCheck
<1>6. CASE Rollback(c) \/ Record(c) \/ TakeResult(c)
  BY <1>6 DEF Rollback, Record, TakeResult
<1> QED
  BY <1>1, <1>2, <1>4, <1>5, <1>6 DEF Run

\* What a recorded submission adds to the accepted ones.
LEMMA RecordAccepts ==
  ASSUME RunInv, NEW c \in Callers, Record(c)
  PROVE  /\ stage[c] = "record" /\ stage'[c] = "passed"
         /\ UNCHANGED <<index, consumed>>
         /\ AcceptedWork' = AcceptedWork \union {job[c]}
         /\ AcceptedConfigs' = AcceptedConfigs \union {Config(c)}
<1>1. /\ accepted' = [accepted EXCEPT ![HostOf[c]] = @ \union {job[c]}]
      /\ stage[c] = "record" /\ stage'[c] = "passed"
      /\ UNCHANGED <<index, consumed>>
  BY DEF Record, Return, RunInv, TypeOK, apiVars
<1>2. HostOf[c] \in Validators
  BY Constants
<1>3. \A v \in Validators :
        accepted'[v] = IF v = HostOf[c] THEN accepted[v] \union {job[c]} ELSE accepted[v]
  BY <1>1 DEF RunInv, TypeOK
<1>4. AcceptedWork' = AcceptedWork \union {job[c]}
  <2>1. ASSUME NEW w \in AcceptedWork' PROVE w \in AcceptedWork \/ w = job[c]
    <3>1. PICK v \in Validators : w \in accepted'[v]
      BY <2>1 DEF AcceptedWork
    <3> QED
      BY <1>3, <3>1 DEF AcceptedWork
  <2>2. ASSUME NEW w \in AcceptedWork PROVE w \in AcceptedWork'
    <3>1. PICK v \in Validators : w \in accepted[v]
      BY <2>2 DEF AcceptedWork
    <3>2. w \in accepted'[v]
      BY <1>3, <3>1
    <3> QED
      BY <3>2 DEF AcceptedWork
  <2>3. job[c] \in AcceptedWork'
    <3>1. job[c] \in accepted'[HostOf[c]]
      BY <1>2, <1>3
    <3> QED
      BY <1>2, <3>1 DEF AcceptedWork
  <2> QED
    BY <2>1, <2>2, <2>3
<1> QED
  BY <1>1, <1>4 DEF AcceptedConfigs, Config

LEMMA RunKeepsIndexInv ==
  ASSUME ConfigsRoutedToOneValidator, RunInv, IndexInv, NEW c \in Callers, Run(c)
  PROVE  IndexInv'
<1>0. /\ NoveltyRelied \subseteq Locked
      /\ {"deduct_work_token", "rollback", "record"} \subseteq NoveltyRelied
      /\ "passed" \notin NoveltyRelied
  BY DEF NoveltyRelied, Judging, Settling, Locked
<1>1. ASSUME NEW d \in Callers, stage'[d] \in NoveltyRelied
      PROVE  ConfigOf[job'[d]] \notin AcceptedConfigs'
  <2>1. CASE d = c
    <3>1. Config(c) \notin AcceptedConfigs
      BY <1>1, <2>1, RunChecksNovelty DEF IndexInv, NoveltyInv, AcceptedConfigsStayIndexed
    <3> QED
      BY <1>1, <2>1, <3>1, RunChecksNovelty DEF AcceptedConfigs, AcceptedWork, Config
  <2>2. CASE d # c
    <3>1. stage'[d] = stage[d] /\ job'[d] = job[d]
      BY <2>2, RunFrame DEF RunInv
    <3>2. Config(d) \notin AcceptedConfigs
      BY <1>1, <3>1 DEF IndexInv, NoveltyInv
    <3>3. CASE Record(c)
      BY <1>0, <1>1, <2>2, <3>1, <3>2, <3>3, RecordAccepts, OneRunPerConfig DEF Config
    <3>4. CASE UNCHANGED accepted
      BY <3>1, <3>2, <3>4 DEF AcceptedConfigs, AcceptedWork, Config
    <3> QED
      BY <3>3, <3>4, RunAccepts
  <2> QED
    BY <2>1, <2>2
<1>2. ASSUME NEW d \in Callers, stage'[d] \in {"deduct_work_token", "record"}
      PROVE  ConfigOf[job'[d]] \in index'
  <2>1. CASE d = c
    BY <1>2, <2>1, RunReachesDeduct, RunReachesRecord DEF IndexInv, IndexedInv, Config
  <2>2. CASE d # c
    <3>1. stage'[d] = stage[d] /\ job'[d] = job[d]
      BY <2>2, RunFrame DEF RunInv
    <3>2. Config(d) \in index
      BY <1>2, <3>1 DEF IndexInv, IndexedInv
    <3>3. Rollback(c) => Config(c) # Config(d)
      BY <1>0, <1>2, <2>2, <3>1, OneRunPerConfig DEF Rollback
    <3> QED
      BY <3>1, <3>2, <3>3, RunKeepsIndex DEF Config
  <2> QED
    BY <2>1, <2>2
<1>3. AcceptedConfigsStayIndexed'
  <2>1. CASE Record(c)
    BY <2>1, RecordAccepts DEF IndexInv, IndexedInv, AcceptedConfigsStayIndexed
  <2>2. CASE UNCHANGED accepted
    <3>1. AcceptedConfigs' = AcceptedConfigs
      BY <2>2 DEF AcceptedConfigs, AcceptedWork
    <3>2. Rollback(c) => Config(c) \notin AcceptedConfigs
      BY <1>0 DEF Rollback, IndexInv, NoveltyInv
    <3> QED
      BY <3>1, <3>2, RunKeepsIndex DEF IndexInv, AcceptedConfigsStayIndexed
  <2> QED
    BY <2>1, <2>2, RunAccepts
<1> QED
  BY <1>1, <1>2, <1>3 DEF IndexInv, NoveltyInv, IndexedInv, Config

LEMMA NextKeepsIndexInv ==
  ASSUME ConfigsRoutedToOneValidator, RunInv, IndexInv, [Next]_vars
  PROVE  IndexInv'
<1>1. CASE Other
  <2>1. {"deduct_work_token", "record"} \subseteq NoveltyRelied
    BY DEF NoveltyRelied, Settling
  <2>2. AcceptedConfigs' = AcceptedConfigs
    BY <1>1, OtherFrame DEF AcceptedConfigs, AcceptedWork
  <2> QED
    BY <1>1, <2>1, <2>2, OtherFrame
    DEF IndexInv, NoveltyInv, IndexedInv, AcceptedConfigsStayIndexed, Config
<1> QED
  BY <1>1, RunKeepsIndexInv, NextCases

\* What all the theorems below follow from.
SettleInv == RunInv /\ PaidInv /\ IndexInv

LEMMA SettleInvariant ==
  ASSUME ConfigsRoutedToOneValidator
  PROVE  Spec => []SettleInv
<1>1. Init => SettleInv
  <2> SUFFICES ASSUME Init PROVE PaidInv /\ IndexInv
    BY InitRunInv DEF SettleInv
  <2>1. "idle" \notin NoveltyRelied
    BY DEF NoveltyRelied, Judging, Settling
  <2>2. PaidInv
    BY DEF Init, PaidInv
  <2>3. AcceptedConfigs = {}
    BY DEF Init, AcceptedConfigs, AcceptedWork
  <2> QED
    BY <2>1, <2>2, <2>3
    DEF Init, IndexInv, NoveltyInv, IndexedInv, AcceptedConfigsStayIndexed
<1>2. SettleInv /\ [Next]_vars => SettleInv'
  BY NextKeepsRunInv, NextKeepsPaidInv, NextKeepsIndexInv DEF SettleInv
<1> QED
  BY <1>1, <1>2, PTL DEF Spec

\* Where no two validators are sent the same config, an accepted config stays
\* in the novelty index: the rollback of a run that fails, the crash of
\* another or a lost reply never takes it out again.
THEOREM AcceptedStayIndexed ==
  ASSUME ConfigsRoutedToOneValidator
  PROVE  Spec => []AcceptedConfigsStayIndexed
<1>1. SettleInv => AcceptedConfigsStayIndexed
  BY DEF SettleInv, IndexInv
<1> QED
  BY <1>1, SettleInvariant, PTL

\* Under the same condition no config is ever accepted twice, although the
\* novelty check and the addition are two calls with a simulation in between.
THEOREM NoConfigAcceptedTwice ==
  ASSUME ConfigsRoutedToOneValidator
  PROVE  Spec => NoDuplicateAcceptance
<1>1. SettleInv /\ [Next]_vars =>
        [\A c \in Callers :
           stage[c] = "record" /\ stage'[c] = "passed" => Config(c) \notin AcceptedConfigs]_vars
  <2> SUFFICES ASSUME SettleInv, NEW c \in Callers, stage[c] = "record"
               PROVE  Config(c) \notin AcceptedConfigs
    OBVIOUS
  <2> QED
    BY DEF SettleInv, IndexInv, NoveltyInv, NoveltyRelied, Settling
<1> QED
  BY <1>1, SettleInvariant, PTL DEF Spec, NoDuplicateAcceptance

\* Under the same condition a token is only deducted while the embedding of
\* the submission is in the index: no other run's rollback removes it between
\* stage 7c and stage 8.
THEOREM ChargedOnlyWhileIndexed ==
  ASSUME ConfigsRoutedToOneValidator
  PROVE  Spec => ChargedWhileIndexed
<1>1. SettleInv /\ [Next]_vars => [\A w \in consumed' \ consumed : ConfigOf[w] \in index]_vars
  <2> SUFFICES ASSUME SettleInv, [Next]_vars, NEW w \in consumed' \ consumed
               PROVE  ConfigOf[w] \in index
    OBVIOUS
  <2>1. PICK c \in Callers : Run(c)
    BY NextCases, OtherFrame DEF SettleInv
  <2>2. stage[c] = "deduct_work_token" /\ w = job[c]
    BY <2>1, RunCharges DEF SettleInv, DeductWorkToken
  <2> QED
    BY <2>2 DEF SettleInv, IndexInv, IndexedInv, Config
<1> QED
  BY <1>1, SettleInvariant, PTL DEF Spec, ChargedWhileIndexed

\* Under the same condition the pipeline implements the acceptance ledger:
\* every deduction of stage 8 is a Pay, every pass an Accept of a paid
\* submission with a config no other accepted one has, and nothing else
\* touches the ledger.
THEOREM LedgerImplemented ==
  ASSUME ConfigsRoutedToOneValidator
  PROVE  Spec => ImplementsLedger
<1>1. Init => Ledger!Init
  BY DEF Init, Ledger!Init, AcceptedWork
<1>2. SettleInv /\ [Next]_vars => [Ledger!Next]_(Ledger!ledgerVars)
  <2> SUFFICES ASSUME SettleInv, [Next]_vars
               PROVE  Ledger!Next \/ UNCHANGED <<consumed, AcceptedWork>>
    BY DEF Ledger!ledgerVars
  <2> USE DEF SettleInv
  <2>1. CASE Other
    BY <2>1, OtherFrame DEF AcceptedWork
  <2>2. ASSUME NEW c \in Callers, Run(c)
        PROVE  Ledger!Next \/ UNCHANGED <<consumed, AcceptedWork>>
    <3>1. CASE Record(c)
      <4>1. job[c] \in WorkIds /\ job[c] \in consumed
        BY <3>1, Constants DEF Record, RunInv, JobInv, PaidInv
      <4>2. Config(c) \notin AcceptedConfigs
        BY <3>1 DEF Record, IndexInv, NoveltyInv, NoveltyRelied, Settling
      <4>3. Ledger!Accept(job[c])
        BY <3>1, <4>1, <4>2, RecordAccepts
        DEF Ledger!Accept, AcceptedConfigs, Config
      <4> QED
        BY <4>1, <4>3 DEF Ledger!Next
    <3>2. CASE DeductWorkToken(c)
      <4>1. job[c] \in WorkIds
        BY <3>2, Constants DEF DeductWorkToken, RunInv, JobInv
      <4>2. AcceptedWork' = AcceptedWork
        BY <3>2 DEF DeductWorkToken, AcceptedWork
      <4>3. UNCHANGED consumed \/ Ledger!Pay(job[c])
        BY <2>2, <4>2, RunCharges DEF Ledger!Pay
      <4> QED
        BY <4>1, <4>2, <4>3 DEF Ledger!Next
    <3>3. CASE ~ Record(c) /\ ~ DeductWorkToken(c)
      BY <2>2, <3>3, RunCharges, RunAccepts DEF AcceptedWork
    <3> QED
      BY <3>1, <3>2, <3>3
  <2> QED
    BY <2>1, <2>2, NextCases
<1> QED
  BY <1>1, <1>2, SettleInvariant, PTL DEF Spec, ImplementsLedger, Ledger!Spec

-----------------------------------------------------------------------------
(***************************************************************************)
(* What a failed run leaves behind: a charge or an embedding.              *)
(***************************************************************************)

LEMMA FaultsStep == [Next]_vars => faults' = faults
BY DEF Next, vars, Begin, Run, LocalChecks, WorkTokenCheck, RateLimitCheck, NoveltyCheck, ClassifierGate,
   Simulate, GatekeeperCheck, SemanticCoherenceCheck, Gate, NoveltyAdd, DeductWorkToken, Rollback, Record,
   TakeResult, SlotExpires, SpendElsewhere, Crash

\* A token is held by an accepted submission or a run about to record one.
ChargedInv ==
  {"loss", "crash"} \intersect faults = {} =>
    \A w \in consumed :
      \/ \E v \in Validators : w \in accepted[v]
      \/ \E c \in Callers : stage[c] = "record" /\ job[c] = w

\* Stages beyond the novelty check in which the run has not added its config:
\* an add that is tried again may have been stored if its reply was lost.
BeforeAdd == Judging \union {s \in {"novelty_add"} : "loss" \notin faults}

\* Such a run finds its config still missing from the index.
NovelInv == \A c \in Callers : stage[c] \in BeforeAdd => Config(c) \notin index

\* How a run comes to fail, and from where.
LEMMA RunFails ==
  ASSUME RunInv, NEW c \in Callers, Run(c), stage[c] # "failed", stage'[c] = "failed"
  PROVE  stage[c] \in Locked \ {"record"} /\ job'[c] = job[c] /\ UNCHANGED <<consumed, accepted>>
<1>1. ~ Record(c)
  BY DEF Record, Return, RunInv, TypeOK
<1>2. ~ TakeResult(c)
  BY DEF TakeResult, RunInv, TypeOK
<1>3. UNCHANGED accepted
  BY <1>1, RunAccepts
<1>4. UNCHANGED consumed
  <2>1. CASE DeductWorkToken(c)
    <3>1. stage'[c] \in {"record", "rollback", "deduct_work_token"}
      BY <2>1 DEF DeductWorkToken, RetryOr, Goto, RunInv, TypeOK
    <3> QED
      BY <3>1
  <2> QED
    BY <2>1, RunCharges
<1>5. stage[c] \in Locked \ {"record"}
  BY <1>1, <1>2 DEF Run, LocalChecks, WorkTokenCheck, RateLimitCheck, NoveltyCheck, ClassifierGate, Simulate,
     GatekeeperCheck, SemanticCoherenceCheck, Gate, NoveltyAdd, DeductWorkToken, Rollback, Locked, BeforeNovelty,
     Judging, Settling
<1>6. job'[c] = job[c]
  BY RunFrame DEF RunInv
<1> QED
  BY <1>3, <1>4, <1>5, <1>6

LEMMA NextKeepsChargedInv == RunInv /\ ChargedInv /\ [Next]_vars => ChargedInv'
<1> SUFFICES ASSUME RunInv, ChargedInv, [Next]_vars PROVE ChargedInv'
  OBVIOUS
<1> DEFINE Held(w) == \/ \E v \in Validators : w \in accepted[v]
                      \/ \E c \in Callers : stage[c] = "record" /\ job[c] = w
<1>f. faults' = faults
  BY FaultsStep
<1>1. SUFFICES ASSUME {"loss", "crash"} \intersect faults = {}, NEW w \in consumed' PROVE Held(w)'
  BY <1>f DEF ChargedInv
<1>2. w \in consumed => Held(w)
  BY <1>1 DEF ChargedInv
<1>3. ASSUME NEW c \in Callers, Run(c) PROVE Held(w)'
  <2>1. \A v \in Validators : accepted[v] \subseteq accepted'[v]
    <3>1. CASE Record(c)
      <4>1. accepted' = [accepted EXCEPT ![HostOf[c]] = accepted[HostOf[c]] \union {job[c]}]
        BY <3>1 DEF Record
      <4>2. accepted \in [Validators -> SUBSET WorkIds]
        BY DEF RunInv, TypeOK
      <4> QED
        BY <4>1, <4>2
    <3> QED
      BY <1>3, <3>1, RunAccepts
  <2>2. ASSUME w \in consumed PROVE Held(w)'
    <3>1. CASE \E v \in Validators : w \in accepted[v]
      BY <2>1, <3>1
    <3>2. ASSUME NEW d \in Callers, stage[d] = "record", job[d] = w PROVE Held(w)'
      <4>1. CASE d = c
        <5>1. Record(c)
          BY <1>3, <3>2, <4>1 DEF Run, LocalChecks, WorkTokenCheck, RateLimitCheck, NoveltyCheck, ClassifierGate,
             Simulate, GatekeeperCheck, SemanticCoherenceCheck, Gate, NoveltyAdd, DeductWorkToken, Rollback,
             TakeResult
        <5>2. HostOf[c] \in Validators /\ w \in accepted'[HostOf[c]]
          BY <3>2, <4>1, <5>1, Constants DEF Record, RunInv, TypeOK
        <5> QED
          BY <5>2
      <4>2. CASE d # c
        <5>1. stage'[d] = "record" /\ job'[d] = w
          BY <1>3, <3>2, <4>2, RunFrame DEF RunInv
        <5> QED
          BY <5>1
      <4> QED
        BY <4>1, <4>2
    <3> QED
      BY <1>2, <2>2, <3>1, <3>2
  <2>3. ASSUME w \notin consumed PROVE Held(w)'
    <3>1. DeductWorkToken(c) /\ w = job[c] /\ consumed' # consumed
      BY <1>3, <2>3, RunCharges
    <3>2. Goto(c, "record")
      BY <1>1, <3>1 DEF DeductWorkToken
    <3>3. stage'[c] = "record" /\ job'[c] = w
      BY <3>1, <3>2 DEF Goto, RunInv, TypeOK
    <3> QED
      BY <3>3
  <2> QED
    BY <2>2, <2>3
<1>4. CASE Other
  <2>1. Held(w) /\ UNCHANGED accepted
    BY <1>2, <1>4, OtherFrame
  <2>2. \A d \in Callers : stage[d] = "record" => stage'[d] = "record" /\ job'[d] = job[d]
    BY <1>1, <1>4 DEF Other, Begin, SlotExpires, SpendElsewhere, Crash, vars, runVars, RunInv, TypeOK
  <2> QED
    BY <2>1, <2>2
<1> QED
  BY <1>3, <1>4, NextCases

\* Where a run stands that has passed the novelty check.
LEMMA RunReachesJudging ==
  ASSUME RunInv, NEW c \in Callers, Run(c), stage'[c] \in BeforeAdd
  PROVE  /\ job'[c] = job[c]
         /\ stage[c] \in BeforeAdd \/ Config(c) \notin index
         /\ UNCHANGED index
<1>0. stage'[c] \in NoveltyRelied
  BY DEF NoveltyRelied, Settling, BeforeAdd
<1>1. job'[c] = job[c] /\ (stage[c] \in NoveltyRelied \/ Config(c) \notin index)
  BY <1>0, RunChecksNovelty
<1> USE DEF RunInv, TypeOK, Goto, Return, TakeResult, Judging, BeforeAdd
<1>2. ~ (DeductWorkToken(c) \/ Rollback(c) \/ Record(c) \/ TakeResult(c))
  <2>1. ~ (Rollback(c) \/ Record(c) \/ TakeResult(c))
    BY DEF Rollback, Record
  <2>2. ~ DeductWorkToken(c)
    BY DEF DeductWorkToken, RetryOr
  <2> QED
    BY <2>1, <2>2
<1>3. CASE NoveltyAdd(c)
  <2>1. stage[c] = "novelty_add" /\ stage'[c] = "novelty_add"
    BY <1>3 DEF NoveltyAdd, RetryOr
  <2>2. "loss" \notin faults
    BY <2>1
  <2>3. UNCHANGED index
    BY <1>3, <2>1, <2>2 DEF NoveltyAdd
  <2> QED
    BY <1>1, <2>1, <2>2, <2>3
<1>4. CASE ~ NoveltyAdd(c)
  <2>1. stage[c] \notin {"novelty_add", "deduct_work_token", "rollback", "record"}
    BY <1>2, <1>4 DEF Run, LocalChecks, WorkTokenCheck, RateLimitCheck, NoveltyCheck, ClassifierGate, Simulate,
       GatekeeperCheck, SemanticCoherenceCheck, Gate
  <2>2. UNCHANGED index
    BY <1>2, <1>4 DEF Run, LocalChecks, WorkTokenCheck, RateLimitCheck, NoveltyCheck, ClassifierGate, Simulate,
       GatekeeperCheck, SemanticCoherenceCheck, Gate, apiVars
  <2> QED
    BY <1>1, <2>1, <2>2 DEF NoveltyRelied, Settling
<1> QED
  BY <1>3, <1>4

\* Only stage 7c adds to the index, and only the run's own config.
LEMMA RunIndexes ==
  ASSUME NEW c \in Callers, Run(c)
  PROVE  index' \subseteq index \/ (stage[c] = "novelty_add" /\ index' \subseteq index \union {Config(c)})
BY DEF Run, LocalChecks, WorkTokenCheck, RateLimitCheck, NoveltyCheck, ClassifierGate, Simulate,
   GatekeeperCheck, SemanticCoherenceCheck, Gate, NoveltyAdd, DeductWorkToken, Rollback, Record, TakeResult, apiVars

LEMMA NextKeepsNovelInv ==
  ASSUME ConfigsRoutedToOneValidator
  PROVE  RunInv /\ NovelInv /\ [Next]_vars => NovelInv'
<1> SUFFICES ASSUME RunInv, NovelInv, [Next]_vars PROVE NovelInv'
  OBVIOUS
<1>f. faults' = faults
  BY FaultsStep
<1>1. SUFFICES ASSUME NEW d \in Callers, stage'[d] \in BeforeAdd
               PROVE  ConfigOf[job'[d]] \notin index'
  BY <1>f DEF NovelInv, Config, BeforeAdd
<1>2. stage[d] \in BeforeAdd => Config(d) \notin index
  BY <1>1 DEF NovelInv
<1>3. ASSUME NEW c \in Callers, Run(c) PROVE ConfigOf[job'[d]] \notin index'
  <2>1. CASE d = c
    BY <1>1, <1>2, <1>3, <2>1, RunReachesJudging DEF Config
  <2>2. CASE d # c
    <3>1. stage[d] \in BeforeAdd /\ job'[d] = job[d]
      BY <1>1, <1>3, <2>2, RunFrame DEF RunInv
    <3>2. stage[c] = "novelty_add" => Config(c) # Config(d)
      BY <2>2, <3>1, OneRunPerConfig DEF Locked, Settling, BeforeAdd
    <3> QED
      BY <1>2, <1>3, <3>1, <3>2, RunIndexes DEF Config
  <2> QED
    BY <2>1, <2>2
<1>4. CASE Other
  <2>1. BeforeAdd \subseteq NoveltyRelied
    BY DEF NoveltyRelied, Settling, BeforeAdd
  <2>2. UNCHANGED index /\ stage'[d] = stage[d] /\ job'[d] = job[d]
    BY <1>1, <1>4, <2>1, OtherFrame
  <2> QED
    BY <1>1, <1>2, <2>2 DEF Config
<1> QED
  BY <1>3, <1>4, NextCases

LEMMA TraceInvariant ==
  ASSUME ConfigsRoutedToOneValidator
  PROVE  Spec => [](RunInv /\ ChargedInv /\ NovelInv)
<1>1. Init => RunInv /\ ChargedInv /\ NovelInv
  BY InitRunInv DEF Init, ChargedInv, NovelInv, BeforeAdd, Judging
<1>2. RunInv /\ ChargedInv /\ NovelInv /\ [Next]_vars => (RunInv /\ ChargedInv /\ NovelInv)'
  BY NextKeepsRunInv, NextKeepsChargedInv, NextKeepsNovelInv
<1> QED
  BY <1>1, <1>2, PTL DEF Spec

\* Where configs are routed to one validator, and while every reply arrives
\* and no process dies, a rejected submission never costs its miner a token:
\* one that was charged is accepted, at its next step if not already.  A removal
\* may fail.
THEOREM RejectionIsFree ==
  ASSUME ConfigsRoutedToOneValidator
  PROVE  Spec => RejectedIsFreeWithoutFaults
<1>1. RunInv /\ ChargedInv /\ [Next]_vars => [{"loss", "crash"} \intersect faults = {} => \A c \in Callers : ~ ChargesARejection(c)]_vars
  <2> SUFFICES ASSUME RunInv, ChargedInv, [Next]_vars, {"loss", "crash"} \intersect faults = {}, NEW c \in Callers, ChargesARejection(c)
               PROVE  FALSE
    OBVIOUS
  <2>1. stage[c] # "failed" /\ stage'[c] = "failed" /\ job[c] \in consumed' \ accepted[HostOf[c]]
    BY DEF ChargesARejection
  <2>2. Run(c)
    <3>1. CASE Other
      BY <2>1, <3>1 DEF Other, Begin, SlotExpires, SpendElsewhere, Crash, vars, runVars, RunInv, TypeOK
    <3>2. ASSUME NEW d \in Callers, Run(d) PROVE Run(c)
      BY <2>1, <3>2, RunFrame DEF RunInv
    <3> QED
      BY <3>1, <3>2, NextCases
  <2>3. stage[c] \in Locked \ {"record"} /\ job[c] \in consumed
    BY <2>1, <2>2, RunFails
  <2>4. job[c] \in Receives[HostOf[c]] /\ HostOf[c] \in Validators
    BY <2>3, StageNames, Constants DEF RunInv, JobInv
  <2>5. CASE \E v \in Validators : job[c] \in accepted[v]
    BY <2>1, <2>4, <2>5 DEF ConfigsRoutedToOneValidator, RunInv, JobInv
  <2>6. ASSUME NEW d \in Callers, stage[d] = "record", job[d] = job[c] PROVE FALSE
    BY <2>3, <2>6, OneRunPerConfig DEF Locked, Settling, Config
  <2> QED
    BY <2>3, <2>5, <2>6 DEF ChargedInv
<1> QED
  BY <1>1, TraceInvariant, PTL DEF Spec, RejectedIsFreeWithoutFaults

\* Where configs are routed to one validator, a run that fails beyond the
\* novelty check leaves no embedding behind, whatever replies are lost and
\* whoever dies: it had not added one, or its rollback removes it.  It may
\* leave one only by a lost reply of its own add or a removal that fails.
THEOREM FailureIsTraceless ==
  ASSUME ConfigsRoutedToOneValidator
  PROVE  Spec => FailureLeavesNoTrace
<1> DEFINE Failing(c) == /\ stage[c] \in Judging \union Settling
                         /\ stage'[c] = "failed"
                         /\ stage[c] = "novelty_add" => "loss" \notin faults
                         /\ stage[c] = "rollback" => "removal" \notin faults
<1>1. RunInv /\ NovelInv /\ [Next]_vars =>
        [\A c \in Callers : Failing(c) => Config(c) \notin index']_vars
  <2> SUFFICES ASSUME RunInv, NovelInv, [Next]_vars, NEW c \in Callers, Failing(c)
               PROVE  Config(c) \notin index'
    OBVIOUS
  <2>1. stage[c] # "failed"
    BY DEF Judging, Settling
  <2>2. Run(c)
    <3>1. CASE Other
      BY <2>1, <3>1 DEF Other, Begin, SlotExpires, SpendElsewhere, Crash, vars, runVars, RunInv, TypeOK
    <3>2. ASSUME NEW d \in Callers, Run(d) PROVE Run(c)
      BY <2>1, <3>2, RunFrame DEF RunInv
    <3> QED
      BY <3>1, <3>2, NextCases
  <2>3. CASE stage[c] = "rollback"
    <3>1. Rollback(c)
      BY <2>2, <2>3 DEF Run, LocalChecks, WorkTokenCheck, RateLimitCheck, NoveltyCheck, ClassifierGate,
         Simulate, GatekeeperCheck, SemanticCoherenceCheck, Gate, NoveltyAdd, DeductWorkToken, Record, TakeResult
    <3> QED
      BY <2>3, <3>1 DEF Rollback
  <2>4. CASE stage[c] # "rollback"
    <3>1. stage[c] \in BeforeAdd
      <4>1. ~ DeductWorkToken(c)
        BY DEF DeductWorkToken, RetryOr, Goto, RunInv, TypeOK
      <4>2. ~ Record(c)
        BY DEF Record, Return, RunInv, TypeOK
      <4> QED
        BY <2>2, <2>4, <4>1, <4>2 DEF Run, LocalChecks, WorkTokenCheck, RateLimitCheck, NoveltyCheck,
           ClassifierGate, Simulate, GatekeeperCheck, SemanticCoherenceCheck, Gate, NoveltyAdd, Rollback,
           TakeResult, Judging, Settling, BeforeAdd
    <3>2. Config(c) \notin index
      BY <3>1 DEF NovelInv
    <3>3. UNCHANGED index
      <4>1. CASE NoveltyAdd(c)
        BY <2>4, <4>1 DEF NoveltyAdd, RetryOr, Goto, RunInv, TypeOK
      <4>2. CASE ~ NoveltyAdd(c)
        <5>1. stage[c] \in Judging
          BY <2>2, <3>1, <4>2 DEF Run, LocalChecks, WorkTokenCheck, RateLimitCheck, NoveltyCheck, ClassifierGate,
             Simulate, GatekeeperCheck, SemanticCoherenceCheck, Gate, DeductWorkToken, Rollback, Record,
             TakeResult, Judging, BeforeAdd
        <5> QED
          BY <2>2, <4>2, <5>1 DEF Run, LocalChecks, WorkTokenCheck, RateLimitCheck, NoveltyCheck, ClassifierGate,
             Simulate, GatekeeperCheck, SemanticCoherenceCheck, Gate, DeductWorkToken, Rollback, Record,
             TakeResult, apiVars, Judging
      <4> QED
        BY <4>1, <4>2
    <3> QED
      BY <3>2, <3>3
  <2> QED
    BY <2>3, <2>4
<1> QED
  BY <1>1, TraceInvariant, PTL DEF Spec, FailureLeavesNoTrace

-----------------------------------------------------------------------------
(***************************************************************************)
(* How far a run is: what the liveness of runs rests on.                   *)
(***************************************************************************)

\* The order of the stages; a run that has failed its deduction rolls back
\* where one that has not is recorded.
Place ==
  [local_checks |-> 1, work_token_check |-> 2, rate_limit_check |-> 3, novelty_check |-> 4,
   classifier_gate |-> 5, simulate |-> 6, gatekeeper |-> 7, semantic_coherence |-> 8,
   novelty_add |-> 9, deduct_work_token |-> 10, rollback |-> 11, record |-> 11,
   passed |-> 12, failed |-> 12, idle |-> 13]

\* At most so many steps are left of the run of c.
Left(c) ==
  IF stage[c] = "idle" THEN 0
  ELSE (MaxAttempts + 1) * (13 - Place[stage[c]]) - attempt[c]

\* A run has a step left until it is over, and never more than all of them.
LEMMA LeftInRange ==
  ASSUME TypeOK, NEW c \in Callers
  PROVE  /\ Left(c) \in 0 .. 12 * (MaxAttempts + 1)
         /\ Left(c) = 0 <=> stage[c] = "idle"
<1>1. attempt[c] \in 0 .. MaxAttempts /\ MaxAttempts \in Nat
  BY Constants DEF TypeOK
<1>2. stage[c] # "idle" => Place[stage[c]] \in 1 .. 12
  BY DEF TypeOK, Place, Stages, Locked, BeforeNovelty, Judging, Settling
<1>3. ASSUME NEW p \in 1 .. 12
      PROVE  (MaxAttempts + 1) * (13 - p) - attempt[c] \in 1 .. 12 * (MaxAttempts + 1)
  BY <1>1, Z3
<1> QED
  BY <1>1, <1>2, <1>3 DEF Left

\* A later stage leaves less, however often the call of the earlier was tried.
LEMMA LaterLeavesLess ==
  ASSUME TypeOK, NEW c \in Callers, stage[c] # "idle", attempt'[c] = 0,
         stage'[c] # "idle" => Place[stage'[c]] \in 1 .. 12 /\ Place[stage[c]] < Place[stage'[c]]
  PROVE  Left(c)' < Left(c)
<1>1. attempt[c] \in 0 .. MaxAttempts /\ MaxAttempts \in Nat
  BY Constants DEF TypeOK
<1>2. Place[stage[c]] \in 1 .. 12
  BY DEF TypeOK, Place, Stages, Locked, BeforeNovelty, Judging, Settling
<1>3. Left(c) = (MaxAttempts + 1) * (13 - Place[stage[c]]) - attempt[c]
  BY DEF Left
<1>4. CASE stage'[c] = "idle"
  <2>1. Left(c)' = 0
    BY <1>4 DEF Left
  <2>2. Left(c) \in 0 .. 12 * (MaxAttempts + 1) /\ Left(c) # 0
    BY LeftInRange
  <2> QED
    BY <1>1, <2>1, <2>2
<1>5. CASE stage'[c] # "idle"
  <2>1. Left(c)' = (MaxAttempts + 1) * (13 - Place[stage'[c]]) - 0
    BY <1>5 DEF Left
  <2>2. ASSUME NEW p \in 1 .. 12, NEW q \in 1 .. 12, p < q
        PROVE  (MaxAttempts + 1) * (13 - q) - 0 < (MaxAttempts + 1) * (13 - p) - attempt[c]
    BY <1>1, <2>2, Z3
  <2> QED
    BY <1>2, <1>3, <1>5, <2>1, <2>2
<1> QED
  BY <1>4, <1>5

\* Every step of a run leaves less of it: the next stage, a retry, a return.
LEMMA RunStepLeavesLess ==
  ASSUME TypeOK, NEW c \in Callers, Run(c)
  PROVE  Left(c)' < Left(c)
<1> USE DEF TypeOK
<1>1. ASSUME NEW s, stage[c] # "idle", s # "idle", Goto(c, s),
             Place[s] \in 1 .. 12, Place[stage[c]] < Place[s]
      PROVE  Left(c)' < Left(c)
  <2>1. stage'[c] = s /\ attempt'[c] = 0
    BY <1>1 DEF Goto
  <2> QED
    BY <1>1, <2>1, LaterLeavesLess
<1>2. ASSUME NEW r \in {"passed", "failed"}, stage[c] # "idle", Return(c, r), Place[stage[c]] < 12
      PROVE  Left(c)' < Left(c)
  <2>1. stage'[c] = r /\ attempt'[c] = 0
    BY <1>2 DEF Return
  <2>2. r # "idle" /\ Place[r] = 12
    BY DEF Place
  <2> QED
    BY <1>2, <2>1, <2>2, LaterLeavesLess
<1>3. ASSUME stage[c] # "idle", UNCHANGED stage, attempt' = [attempt EXCEPT ![c] = @ + 1]
      PROVE  Left(c)' < Left(c)
  <2>1. attempt[c] \in 0 .. MaxAttempts /\ MaxAttempts \in Nat /\ attempt'[c] = attempt[c] + 1
    BY <1>3, Constants
  <2>2. Place[stage[c]] \in 1 .. 12
    BY <1>3 DEF Place, Stages, Locked, BeforeNovelty, Judging, Settling
  <2>3. /\ Left(c) = (MaxAttempts + 1) * (13 - Place[stage[c]]) - attempt[c]
        /\ Left(c)' = (MaxAttempts + 1) * (13 - Place[stage[c]]) - attempt'[c]
    BY <1>3 DEF Left
  <2>4. ASSUME NEW p \in 1 .. 12 PROVE (MaxAttempts + 1) * (13 - p) \in Int
    BY <2>1, Z3
  <2> QED
    BY <2>1, <2>2, <2>3, <2>4
<1>4. ASSUME NEW here, NEW next, Gate(c, here, next), here # "idle", next # "idle",
             Place[here] \in 1 .. 12, Place[next] \in 1 .. 12, Place[here] < Place[next]
      PROVE  Left(c)' < Left(c)
  <2>1. Place[here] < 12
    BY <1>4
  <2> QED
    BY <1>1, <1>2, <1>4, <2>1 DEF Gate
<1>5. CASE LocalChecks(c) \/ ClassifierGate(c) \/ Simulate(c) \/ GatekeeperCheck(c)
           \/ SemanticCoherenceCheck(c)
  <2>1. /\ Place["local_checks"] = 1 /\ Place["work_token_check"] = 2
        /\ Place["classifier_gate"] = 5 /\ Place["simulate"] = 6 /\ Place["gatekeeper"] = 7
        /\ Place["semantic_coherence"] = 8 /\ Place["novelty_add"] = 9
    BY DEF Place
  <2>2. CASE LocalChecks(c)
    BY <1>4, <2>1, <2>2 DEF LocalChecks
  <2>3. CASE ClassifierGate(c)
    BY <1>4, <2>1, <2>3 DEF ClassifierGate
  <2>4. CASE Simulate(c)
    BY <1>4, <2>1, <2>4 DEF Simulate
  <2>5. CASE GatekeeperCheck(c)
    BY <1>4, <2>1, <2>5 DEF GatekeeperCheck
  <2>6. CASE SemanticCoherenceCheck(c)
    BY <1>4, <2>1, <2>6 DEF SemanticCoherenceCheck
  <2> QED
    BY <1>5, <2>2, <2>3, <2>4, <2>5, <2>6
<1>6. CASE WorkTokenCheck(c) \/ RateLimitCheck(c) \/ NoveltyCheck(c)
  BY <1>1, <1>2, <1>6 DEF WorkTokenCheck, RateLimitCheck, NoveltyCheck, Place
<1>7. CASE NoveltyAdd(c)
  BY <1>1, <1>2, <1>3, <1>7 DEF NoveltyAdd, RetryOr, Place
<1>8. CASE DeductWorkToken(c)
  BY <1>1, <1>3, <1>8 DEF DeductWorkToken, RetryOr, Place
<1>9. CASE Rollback(c) \/ Record(c)
  BY <1>2, <1>9 DEF Rollback, Record, Place
<1>10. CASE TakeResult(c)
  <2>1. stage[c] # "idle" /\ stage'[c] = "idle" /\ UNCHANGED attempt
    BY <1>10 DEF TakeResult
  <2>2. Left(c)' = 0
    BY <2>1 DEF Left
  <2>3. Left(c) \in 0 .. 12 * (MaxAttempts + 1) /\ Left(c) # 0
    BY <2>1, LeftInRange
  <2> QED
    BY <2>2, <2>3, Constants
<1> QED
  BY <1>5, <1>6, <1>7, <1>8, <1>9, <1>10 DEF Run

\* What is left of the runs is bounded, and nothing is left of one that is over.
RunsInRange ==
  \A c \in Callers :
    /\ Left(c) \in 0 .. 12 * (MaxAttempts + 1)
    /\ Left(c) = 0 <=> stage[c] = "idle"

\* A run under way either gets on, retries included, or stays where it is while
\* others move, or is gone with its process; none starts over.
RunsOnlyAdvance ==
  [][\A c \in Callers : stage[c] # "idle" =>
       \/ Left(c)' < Left(c)
       \/ UNCHANGED <<stage[c], attempt[c], job[c]>>]_vars

\* A run has at most 12 * (MaxAttempts + 1) steps, and each of them leaves
\* fewer: however calls fail and are retried, none goes round in circles.  It
\* is what RunsEnd needs besides the fairness of the event loop.
THEOREM RunsAreBounded == Spec => []RunsInRange /\ RunsOnlyAdvance
<1>1. Spec => []RunInv
  BY InitRunInv, NextKeepsRunInv, PTL DEF Spec
<1>2. RunInv => RunsInRange
  BY LeftInRange DEF RunInv, RunsInRange
<1>3. RunInv /\ [Next]_vars =>
        [\A c \in Callers : stage[c] # "idle" =>
           \/ Left(c)' < Left(c)
           \/ UNCHANGED <<stage[c], attempt[c], job[c]>>]_vars
  <2> SUFFICES ASSUME RunInv, [Next]_vars, NEW d \in Callers, stage[d] # "idle"
               PROVE  Left(d)' < Left(d) \/ UNCHANGED <<stage[d], attempt[d], job[d]>>
    OBVIOUS
  <2> USE DEF RunInv
  <2>1. ASSUME NEW c \in Callers, Run(c) PROVE Left(d)' < Left(d) \/ UNCHANGED <<stage[d], attempt[d], job[d]>>
    <3>1. CASE c = d
      BY <2>1, <3>1, RunStepLeavesLess
    <3>2. CASE c # d
      <4>1. stage'[d] = stage[d] /\ job'[d] = job[d]
        BY <2>1, <3>2, RunFrame
      <4>2. attempt'[d] = attempt[d]
        BY <2>1, <3>2 DEF Run, LocalChecks, WorkTokenCheck, RateLimitCheck, NoveltyCheck, ClassifierGate,
           Simulate, GatekeeperCheck, SemanticCoherenceCheck, Gate, NoveltyAdd, DeductWorkToken, RetryOr,
           Rollback, Record, TakeResult, Goto, Return, TypeOK
      <4> QED
        BY <4>1, <4>2
    <3> QED
      BY <3>1, <3>2
  <2>2. ASSUME NEW v \in Validators, Crash(v) PROVE Left(d)' < Left(d) \/ UNCHANGED <<stage[d], attempt[d], job[d]>>
    <3>1. CASE HostOf[d] = v
      <4>1. Left(d)' = 0
        BY <2>2, <3>1 DEF Crash, Left
      <4>2. Left(d) \in 0 .. 12 * (MaxAttempts + 1) /\ Left(d) # 0
        BY LeftInRange
      <4> QED
        BY <4>1, <4>2, Constants
    <3>2. CASE HostOf[d] # v
      BY <2>2, <3>2 DEF Crash, TypeOK
    <3> QED
      BY <3>1, <3>2
  <2>3. ASSUME NEW c \in Callers, NEW w \in WorkIds, Begin(c, w) PROVE UNCHANGED <<stage[d], attempt[d], job[d]>>
    BY <2>3 DEF Begin, TypeOK
  <2>4. ASSUME UNCHANGED runVars PROVE UNCHANGED <<stage[d], attempt[d], job[d]>>
    BY <2>4 DEF runVars
  <2>5. CASE Other
    BY <2>2, <2>3, <2>4, <2>5 DEF Other, SlotExpires, SpendElsewhere, vars
  <2> QED
    BY <2>1, <2>5, NextCases
<1> QED
  BY <1>1, <1>2, <1>3, PTL DEF Spec, RunsOnlyAdvance

=============================================================================
