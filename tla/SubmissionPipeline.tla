------------------------- MODULE SubmissionPipeline -------------------------
(***************************************************************************)
(* The nine-stage validation pipeline of a validator, run by run, against  *)
(* the Central API it shares with every other validator.                   *)
(*                                                                         *)
(* A caller is one `await pipeline.run(...)`.  Runs of one validator are   *)
(* serialised by _run_lock; runs of different validators are not.  Every   *)
(* await is a step of its own, so the balance, the novelty index and the   *)
(* rate limiter can change between the stage that reads them and the stage *)
(* that relies on what it read.                                            *)
(*                                                                         *)
(* A run ends with its result; how a pass gets to the Central API from     *)
(* there, or is lost on the way, is in SubmissionQueue.                    *)
(*                                                                         *)
(* The Central API is not in this repository.  It is modelled from how the *)
(* client and scripts/test-work-id-signature.py use it: each call is       *)
(* atomic, and consuming a work id twice succeeds without a second         *)
(* deduction.                                                              *)
(***************************************************************************)
EXTENDS Integers, FiniteSets

CONSTANTS
  Validators,      \* validator processes
  Callers,         \* concurrent callers of ValidationPipeline.run
  HostOf,          \* HostOf[c]: the validator that caller c belongs to
  Miners,          \* miner hotkeys
  Configs,         \* scenario configs, up to the similarity the index detects
  WorkIds,         \* submissions: a work id binds a hotkey and a config
  MinerOf,         \* MinerOf[w]: the hotkey bound by work id w
  ConfigOf,        \* ConfigOf[w]: the config bound by work id w
  Receives,        \* Receives[v]: the submissions miners send to validator v
  MaxSubmissions,  \* rate_limit_per_uid_per_tempo
  MaxAttempts,     \* attempts of an API call on transport errors (3 in the code)
  InitialBalance,  \* work tokens of each miner at the start
  FaultModels,     \* the sets of faults a behaviour may be subject to: replies
                   \* lost, processes that die, removals that fail
  NoCaller,        \* an unlocked _run_lock
  NoWork           \* the job of an idle caller

ASSUME SetsAssumption ==
  /\ NoCaller \notin Callers
  /\ NoWork \notin WorkIds
  /\ FaultModels \subseteq SUBSET {"loss", "crash", "removal"}

ASSUME FunctionsAssumption ==
  /\ HostOf \in [Callers -> Validators]
  /\ MinerOf \in [WorkIds -> Miners]
  /\ ConfigOf \in [WorkIds -> Configs]
  /\ Receives \in [Validators -> SUBSET WorkIds]

ASSUME NumbersAssumption ==
  /\ MaxSubmissions \in Nat \ {0}
  /\ MaxAttempts \in Nat \ {0}
  /\ InitialBalance \in Nat

VARIABLES
  balance,    \* Central API: available balance of each miner
  consumed,   \* Central API: work ids a token was deducted for
  index,      \* Central API: configs in the novelty index
  lock,       \* lock[v]: holder of validator v's _run_lock
  stage,      \* stage[c]: where caller c is
  job,        \* job[c]: the submission caller c is validating
  attempt,    \* attempt[c]: failed attempts of the API call c is making
  window,     \* window[v][m]: v's recorded submissions of m still in the window
  accepted,   \* accepted[v]: submissions v's pipeline returned with weight > 0
  faults      \* the faults this behaviour is subject to; never changes

apiVars == <<balance, consumed, index>>
runVars == <<lock, stage, job, attempt>>
vars == <<apiVars, runVars, window, accepted, faults>>

(***************************************************************************)
(* Stages that run under _run_lock.  "passed" and "failed" are the two     *)
(* results run() returns; by then the lock is released.                    *)
(***************************************************************************)
BeforeNovelty == {"local_checks", "work_token_check", "rate_limit_check", "novelty_check"}
Judging == {"classifier_gate", "simulate", "gatekeeper", "semantic_coherence"}
Settling == {"novelty_add", "deduct_work_token", "rollback", "record"}
Locked == BeforeNovelty \union Judging \union Settling
Stages == Locked \union {"idle", "passed", "failed"}

TypeOK ==
  /\ balance \in [Miners -> Nat]
  /\ consumed \subseteq WorkIds
  /\ index \subseteq Configs
  /\ lock \in [Validators -> Callers \union {NoCaller}]
  /\ stage \in [Callers -> Stages]
  /\ job \in [Callers -> WorkIds \union {NoWork}]
  /\ attempt \in [Callers -> 0 .. MaxAttempts]
  /\ window \in [Validators -> [Miners -> Nat]]
  /\ accepted \in [Validators -> SUBSET WorkIds]
  /\ faults \in FaultModels

Init ==
  /\ balance = [m \in Miners |-> InitialBalance]
  /\ consumed = {}
  /\ index = {}
  /\ lock = [v \in Validators |-> NoCaller]
  /\ stage = [c \in Callers |-> "idle"]
  /\ job = [c \in Callers |-> NoWork]
  /\ attempt = [c \in Callers |-> 0]
  /\ window = [v \in Validators |-> [m \in Miners |-> 0]]
  /\ accepted = [v \in Validators |-> {}]
  /\ faults \in FaultModels

(***************************************************************************)
(* Moving between stages.                                                  *)
(***************************************************************************)
Config(c) == ConfigOf[job[c]]
Miner(c) == MinerOf[job[c]]

\* Go on to stage s, with a fresh count of attempts.
Goto(c, s) ==
  /\ stage' = [stage EXCEPT ![c] = s]
  /\ attempt' = [attempt EXCEPT ![c] = 0]
  /\ UNCHANGED <<lock, job>>

\* run() returns result r: leaving the `async with` block releases the lock.
Return(c, r) ==
  /\ stage' = [stage EXCEPT ![c] = r]
  /\ attempt' = [attempt EXCEPT ![c] = 0]
  /\ lock' = [lock EXCEPT ![HostOf[c]] = NoCaller]
  /\ UNCHANGED job

\* Variants: the attempts are counted but never run out; the count starts again.
RetryPastLimit(c, exhausted) ==
  /\ attempt' = [attempt EXCEPT ![c] = @ + 1]
  /\ UNCHANGED <<lock, stage, job>>

RetryForEver(c, exhausted) ==
  /\ attempt' = [attempt EXCEPT ![c] = (@ + 1) % MaxAttempts]
  /\ UNCHANGED <<lock, stage, job>>

\* A transport error: try the call again, or give up as exhausted says.
RetryOr(c, exhausted) ==
  \/ /\ attempt[c] + 1 < MaxAttempts
     /\ attempt' = [attempt EXCEPT ![c] = @ + 1]
     /\ UNCHANGED <<lock, stage, job>>
  \/ /\ attempt[c] + 1 >= MaxAttempts
     /\ exhausted

(***************************************************************************)
(* POST /work-token/consume deducts once per work id, if there is a token. *)
(***************************************************************************)
ConsumeEffect(w) ==
  IF w \notin consumed /\ balance[MinerOf[w]] > 0
    THEN /\ consumed' = consumed \union {w}
         /\ balance' = [balance EXCEPT ![MinerOf[w]] = @ - 1]
    ELSE UNCHANGED <<consumed, balance>>

ConsumeSucceeds(w) == w \in consumed \/ balance[MinerOf[w]] > 0

(***************************************************************************)
(* The run itself.                                                         *)
(***************************************************************************)

\* Variant: run() does not wait for the lock.
BeginUnlocked(c, w) ==
  /\ stage[c] = "idle"
  /\ w \in Receives[HostOf[c]]
  /\ lock' = [lock EXCEPT ![HostOf[c]] = c]
  /\ stage' = [stage EXCEPT ![c] = "local_checks"]
  /\ job' = [job EXCEPT ![c] = w]
  /\ UNCHANGED <<apiVars, attempt, window, accepted, faults>>

\* A miner's response reaches run(), which waits for the lock.
Begin(c, w) ==
  /\ stage[c] = "idle"
  /\ lock[HostOf[c]] = NoCaller
  /\ w \in Receives[HostOf[c]]
  /\ lock' = [lock EXCEPT ![HostOf[c]] = c]
  /\ stage' = [stage EXCEPT ![c] = "local_checks"]
  /\ job' = [job EXCEPT ![c] = w]
  /\ UNCHANGED <<apiVars, attempt, window, accepted, faults>>

\* Stages whose verdict depends on the content of the submission or on a
\* service's answer: pass on, or reject.
Gate(c, here, next) ==
  /\ stage[c] = here
  /\ Goto(c, next) \/ Return(c, "failed")
  /\ UNCHANGED <<apiVars, window, accepted, faults>>

\* Stages 1, 2 and 2b: version, schema, work id.
LocalChecks(c) == Gate(c, "local_checks", "work_token_check")

\* Variant: the token is taken when the balance is checked.
ChargeUpFront(c) ==
  /\ stage[c] = "work_token_check"
  /\ ConsumeSucceeds(job[c]) /\ ConsumeEffect(job[c])
  /\ Goto(c, "rate_limit_check")
  /\ UNCHANGED <<index, window, accepted, faults>>

\* Stage 3.  An unreachable API and an HTTP error reject as well.
WorkTokenCheck(c) ==
  /\ stage[c] = "work_token_check"
  /\ \/ balance[Miner(c)] > 0 /\ Goto(c, "rate_limit_check")
     \/ Return(c, "failed")
  /\ UNCHANGED <<apiVars, window, accepted, faults>>

\* Variant: off by one.
RateLimitOffByOne(c) ==
  /\ stage[c] = "rate_limit_check"
  /\ IF window[HostOf[c]][Miner(c)] <= MaxSubmissions
       THEN Goto(c, "novelty_check")
       ELSE Return(c, "failed")
  /\ UNCHANGED <<apiVars, window, accepted, faults>>

\* Stage 4: local and synchronous.
RateLimitCheck(c) ==
  /\ stage[c] = "rate_limit_check"
  /\ IF window[HostOf[c]][Miner(c)] < MaxSubmissions
       THEN Goto(c, "novelty_check")
       ELSE Return(c, "failed")
  /\ UNCHANGED <<apiVars, window, accepted, faults>>

\* Variant: an unreachable API counts as novel.
NoveltyFailsOpen(c) == Gate(c, "novelty_check", "classifier_gate")

\* Stage 5: fails closed.
NoveltyCheck(c) ==
  /\ stage[c] = "novelty_check"
  /\ \/ Config(c) \notin index /\ Goto(c, "classifier_gate")
     \/ Return(c, "failed")
  /\ UNCHANGED <<apiVars, window, accepted, faults>>

\* Stages 6, 7, 7.5 and 7b.
ClassifierGate(c) == Gate(c, "classifier_gate", "simulate")
Simulate(c) == Gate(c, "simulate", "gatekeeper")
GatekeeperCheck(c) == Gate(c, "gatekeeper", "semantic_coherence")
SemanticCoherenceCheck(c) == Gate(c, "semantic_coherence", "novelty_add")

\* Variant: going on without the embedding when the attempts run out.
NoveltyAddFailsOpen(c) ==
  /\ stage[c] = "novelty_add"
  /\ \/ /\ index' = index \union {Config(c)}
        /\ Goto(c, "deduct_work_token")
     \/ /\ UNCHANGED index
        /\ RetryOr(c, Goto(c, "deduct_work_token"))
  /\ UNCHANGED <<balance, consumed, window, accepted, faults>>

\* Stage 7c: any exception is retried; a lost reply leaves the embedding in
\* the index, and the run that gives up does not take it out again.
NoveltyAdd(c) ==
  /\ stage[c] = "novelty_add"
  /\ \/ /\ index' = index \union {Config(c)}
        /\ Goto(c, "deduct_work_token")
     \/ /\ \/ UNCHANGED index
           \/ "loss" \in faults /\ index' = index \union {Config(c)}
        /\ RetryOr(c, Return(c, "failed"))
  /\ UNCHANGED <<balance, consumed, window, accepted, faults>>

\* Variant: a refused deduction does not reject.
DeductFailsOpen(c) ==
  /\ stage[c] = "deduct_work_token"
  /\ ConsumeEffect(job[c])
  /\ Goto(c, "record")
  /\ UNCHANGED <<index, window, accepted, faults>>

\* Stage 8: confirmed; or refused, broken off with an HTTP error, or retried
\* after a transport error, and then the deduction may have happened.
DeductWorkToken(c) ==
  /\ stage[c] = "deduct_work_token"
  /\ \/ /\ ConsumeSucceeds(job[c])
        /\ ConsumeEffect(job[c])
        /\ Goto(c, "record")
     \/ /\ \/ UNCHANGED <<consumed, balance>>
           \/ "loss" \in faults /\ ConsumeEffect(job[c])
        /\ Goto(c, "rollback") \/ RetryOr(c, Goto(c, "rollback"))
  /\ UNCHANGED <<index, window, accepted, faults>>

\* Variant: the embedding stays.
RollbackNothing(c) ==
  /\ stage[c] = "rollback"
  /\ Return(c, "failed")
  /\ UNCHANGED <<apiVars, window, accepted, faults>>

\* PO-07: one best-effort removal, then the run fails either way.
Rollback(c) ==
  /\ stage[c] = "rollback"
  /\ \/ index' = index \ {Config(c)}
     \/ "removal" \in faults /\ UNCHANGED index
  /\ Return(c, "failed")
  /\ UNCHANGED <<balance, consumed, window, accepted, faults>>

\* The deduction is confirmed: record the rate-limit slot and return a weight,
\* positive as the classifier passed the config at the same threshold.
Record(c) ==
  /\ stage[c] = "record"
  /\ window' = [window EXCEPT ![HostOf[c]][Miner(c)] = @ + 1]
  /\ accepted' = [accepted EXCEPT ![HostOf[c]] = @ \union {job[c]}]
  /\ Return(c, "passed")
  /\ UNCHANGED <<apiVars, faults>>

\* The validator takes the result: a pass goes on to the report, a failure is
\* only logged.  The caller is free for the next response.
TakeResult(c) ==
  /\ stage[c] \in {"passed", "failed"}
  /\ stage' = [stage EXCEPT ![c] = "idle"]
  /\ job' = [job EXCEPT ![c] = NoWork]
  /\ UNCHANGED <<apiVars, lock, attempt, window, accepted, faults>>

(***************************************************************************)
(* Time, the other validators, and crashes.                                *)
(***************************************************************************)

\* A recorded submission leaves the sliding window.
SlotExpires(v, m) ==
  /\ window[v][m] > 0
  /\ window' = [window EXCEPT ![v][m] = @ - 1]
  /\ UNCHANGED <<apiVars, runVars, accepted, faults>>

\* The miner's tokens are also spent on submissions to other validators.
SpendElsewhere(m) ==
  /\ balance[m] > 0
  /\ balance' = [balance EXCEPT ![m] = @ - 1]
  /\ UNCHANGED <<consumed, index, runVars, window, accepted, faults>>

\* The process dies and restarts.  The rate limiter is reloaded
\* from disk; everything about the runs is gone.
Crash(v) ==
  /\ "crash" \in faults
  /\ stage' = [c \in Callers |-> IF HostOf[c] = v THEN "idle" ELSE stage[c]]
  /\ job' = [c \in Callers |-> IF HostOf[c] = v THEN NoWork ELSE job[c]]
  /\ attempt' = [c \in Callers |-> IF HostOf[c] = v THEN 0 ELSE attempt[c]]
  /\ lock' = [lock EXCEPT ![v] = NoCaller]
  /\ UNCHANGED <<apiVars, window, accepted, faults>>

Run(c) ==
  \/ LocalChecks(c)
  \/ WorkTokenCheck(c)
  \/ RateLimitCheck(c)
  \/ NoveltyCheck(c)
  \/ ClassifierGate(c)
  \/ Simulate(c)
  \/ GatekeeperCheck(c)
  \/ SemanticCoherenceCheck(c)
  \/ NoveltyAdd(c)
  \/ DeductWorkToken(c)
  \/ Rollback(c)
  \/ Record(c)
  \/ TakeResult(c)

Next ==
  \/ \E c \in Callers, w \in WorkIds : Begin(c, w)
  \/ \E c \in Callers : Run(c)
  \/ \E v \in Validators, m \in Miners : SlotExpires(v, m)
  \/ \E m \in Miners : SpendElsewhere(m)
  \/ \E v \in Validators : Crash(v)

\* The event loop keeps running a caller that is not idle; nothing forces a
\* miner to answer, a token to be spent or a process to crash.
Spec == Init /\ [][Next]_vars /\ \A c \in Callers : WF_vars(Run(c))

\* A miner rotates through its configs from request to request, so two
\* validators are normally sent different ones.  Where they are sent the same
\* one the index does not serialise them: its check and its add are two calls.
ConfigsRoutedToOneValidator ==
  \A v, u \in Validators :
    v # u => \A w \in Receives[v], x \in Receives[u] : ConfigOf[w] # ConfigOf[x]

-----------------------------------------------------------------------------
(***************************************************************************)
(* Properties.                                                             *)
(***************************************************************************)
AcceptedWork == UNION {accepted[v] : v \in Validators}
AcceptedConfigs == {ConfigOf[w] : w \in AcceptedWork}

(***************************************************************************)
(* What the rollback of one submission may not undo: a config some         *)
(* validator accepted stays in the novelty index whatever later runs fail, *)
(* crash or lose replies.  The removal is by config hash, so it is the     *)
(* novelty check and the lock that keep an accepted config out of its way. *)
(***************************************************************************)
AcceptedConfigsStayIndexed == AcceptedConfigs \subseteq index

(***************************************************************************)
(* A config earns a weight at most once: no run returns a pass for a       *)
(* config that was accepted before.                                        *)
(***************************************************************************)
NoDuplicateAcceptance ==
  [][\A c \in Callers :
       stage[c] = "record" /\ stage'[c] = "passed" => Config(c) \notin AcceptedConfigs]_vars

(***************************************************************************)
(* A token is only ever taken for a submission whose embedding is already  *)
(* in the index (CS-C2), so a charge never goes with a silently lost       *)
(* embedding.                                                              *)
(***************************************************************************)
ChargedWhileIndexed ==
  [][\A w \in consumed' \ consumed : ConfigOf[w] \in index]_vars

(***************************************************************************)
(* The check in stage 4 and the record after stage 8 are a simulation      *)
(* apart; still no miner gets more accepted submissions into one window    *)
(* than the limit.                                                         *)
(***************************************************************************)
RateLimitRespected ==
  \A v \in Validators, m \in Miners : window[v][m] <= MaxSubmissions

(***************************************************************************)
(* A run that got past the novelty check and fails leaves no embedding of  *)
(* its submission behind, whatever fails, is lost or dies elsewhere: not   *)
(* in the stages before the add, and not where the deduction is refused or *)
(* its replies are lost, as the rollback removes it (PO-07).  It may stay  *)
(* only where a reply of the add itself is lost or the removal fails.      *)
(***************************************************************************)
FailureLeavesNoTrace ==
  [][\A c \in Callers :
       /\ stage[c] \in Judging \union Settling
       /\ stage'[c] = "failed"
       /\ stage[c] = "novelty_add" => "loss" \notin faults
       /\ stage[c] = "rollback" => "removal" \notin faults
       => Config(c) \notin index']_vars

\* The step in which a run of c returns a failure for a submission that was
\* charged and never accepted.
ChargesARejection(c) ==
  /\ stage[c] # "failed" /\ stage'[c] = "failed"
  /\ job[c] \in consumed' \ accepted[HostOf[c]]

(***************************************************************************)
(* A submission the pipeline rejects does not cost its miner a token.      *)
(***************************************************************************)
RejectedIsFree == [][\A c \in Callers : ~ChargesARejection(c)]_vars

(***************************************************************************)
(* The same, for behaviours in which every reply arrives and no process    *)
(* dies between the deduction and the verdict; a removal may fail.         *)
(***************************************************************************)
RejectedIsFreeWithoutFaults ==
  [][{"loss", "crash"} \intersect faults = {} => \A c \in Callers : ~ChargesARejection(c)]_vars

(***************************************************************************)
(* The ledger the Central API and the validators keep together: paid for   *)
(* first, then accepted, and no config accepted for two submissions.       *)
(***************************************************************************)
Ledger == INSTANCE AcceptanceLedger WITH
  paid <- consumed,
  acceptedWork <- AcceptedWork

ImplementsLedger == Ledger!Spec

(***************************************************************************)
(* Every run ends, whatever fails: retries are bounded and each stage      *)
(* either goes on or returns.  And every way out of a run, death included, *)
(* gives the lock back, so those who wait for it get their turn.           *)
(***************************************************************************)
RunsEnd ==
  /\ \A c \in Callers : stage[c] # "idle" ~> stage[c] = "idle"
  /\ \A v \in Validators : lock[v] # NoCaller ~> lock[v] = NoCaller

=============================================================================
