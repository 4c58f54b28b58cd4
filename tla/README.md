# A TLA+ model of Aurelius

Aurelius is a Bittensor subnet. Miners serve *scenario configs*; validators
fetch them, judge each one in a nine-stage pipeline, which plays the scenario
in a container, report the accepted ones to a Central API and set weights on
the chain. This directory holds TLA+ modules translated from the Python code
under `src/aurelius`, TLC configurations that model-check them on small
instances, and TLAPS proofs.

Paths below are relative to the repository; a bare `pipeline.py`,
`validator.py`, `local_queue.py`, `rate_limiter.py`, `remote_config.py` or
`api_client.py` is in `src/aurelius/validator`.

## The system

| part | state | operations | talks to | hard because of |
|---|---|---|---|---|
| Validation pipeline (`pipeline.py`) | `_run_lock`, the fields of the current run | `run`: version, schema, work id, balance, rate limit, novelty, classifier, simulation, gatekeeper, coherence, novelty add, deduction, rollback, record | Central API, rate limiter, simulation runner | awaits between check and use, retries, lost replies, a rollback that can fail |
| Rate limiter (`rate_limiter.py`) | time stamps per hotkey, a file | `check`, `record`, `update_config`, `_save`, `_load` | pipeline, remote config | check and record a whole run apart; two clocks, a file replaced in place |
| Local queue (`local_queue.py`) | a bounded deque, a versioned file | `enqueue`, `drain`, `_save`, `_load` | validator loop, disk | bounds, truncation, disk errors, crashes |
| Drain and reporting (`validator.py`) | the drained batch, backoff | `_drain_local_queue`, `_report_submission` | queue, Central API | one report of several failing, lost replies |
| Results and weights (`validator.py`) | `results`, `validation_counts`, `_last_seen`, `last_weight_block`, the ramp-up anchor | `_record_result`, `_prune_stale_results`, `_cleanup_stale_results`, `_set_weights`, `_ensure_ramp_up_anchor` | chain, disk | a block number that ages during a cycle, tempo boundaries, two notions of time, restarts |
| Main loop and start-up (`validator.py`) | `api_client`, the clock check, health flags | preflight, `_initialize_async`, `run`, `stop` | everything | exceptions that cut a cycle short, modes entered once |
| Remote config (`remote_config.py`, `config.py`) | values, time of last fetch, `api_available` | `refresh`, `_clamp`, `_clamp_version`, `_resolve` | Central API | stale values, junk, bounds, precedence over local settings |
| API client (`api_client.py`) | token and expiry | `_retry`, the calls, `authenticate`, `needs_reauth` | Central API | a retried call may have taken effect; a token used minutes after it was looked at |
| Simulation runner (`simulation/docker_runner.py`) | Docker client, running containers, container pool, restricted network | `run_simulation`, `update_image`, `health_check`, `close`; the pool's `warm`, `lease`, `drain` | Docker, threads | refill threads against the loop and `close`, outages |
| Simulation (`simulation/entrypoint.py`) | the play: scenes, steps, events, memories; `output.json` | one thread from config to output file | language model, embeddings | who hears what; death before, in or after the write |
| Transcript and coherence (`simulation/transcript.py`, `coherence.py`) | none | `extract_transcript`, `validate_coherence`, the judge's questions | runner, pipeline | thresholds at their boundary; a partial play must not count |
| Miner (`miner/*.py`) | metagraph, the executor's queue, the store's turn | `run`, `blacklist`, `forward`, `ConfigStore.next` | validators, chain | a worker thread that writes what the event loop reads, late syncs |
| Versions (`common/version.py`) | none | `check_compatibility` | pipeline, loop, remote config | majors compared in two different ways |
| Central API, chain, Docker, language model | external | | | modelled from how the code uses them |

What makes each part correct: an accepted config is accepted once, paid for and
stays recognisable (pipeline); no miner exceeds its quota, restarts included
(limiter); no accepted submission is lost or reported twice (queue, drain); a
pass becomes a vote that stands until a tempo boundary reads it, and a restart
neither shortens nor lengthens the ramp-up (results); an outage ends where its
cause ends, and no setting leaves its bounds (main loop, runner, remote
config); a simulation that passes is a whole play that everybody in it heard
(simulation, coherence); a miner serves whoever held a permit, by a metagraph
it has reason to take for fresh (miner). `PROJECT.json` lists every part, those
that are not modelled included, and under `hazards` where the code is exposed.

## Modules

| module | models |
|---|---|
| `AcceptanceLedger` | abstract: submissions are paid for, then accepted, a config for one submission only |
| `SubmissionPipeline` | `ValidationPipeline.run` of several callers and validators against the shared Central API; refines `AcceptanceLedger` |
| `SubmissionQueue` | the local queue, its file, the drain and reporting, with age and backoff |
| `VoteRetention` | results, counts, ramp-up and weights, against blocks and tempo boundaries |
| `BoundaryCount` | `VoteRetention` with a history variable: the boundaries that have counted a pass |
| `SimulationRunner` | the simulation runner, its container pool and refill threads, against Docker |
| `SimulationRun` | one scenario: the play in the container, its output file, the transcript, coherence and the judge |
| `ValidatorService` | start-up, session, remote config, clock check and the rate limiter's file, over restarts |
| `MinerServing` | the miner: start-up, the loop, the worker that syncs, the axon |
| `PipelineProofs`, `QueueProofs`, `VoteProofs`, `BoundaryProofs`, `RunnerProofs`, `ContentProofs`, `ServiceProofs`, `MinerProofs` | theorems about the modules above |
| `MCSubmissionPipeline`, `MCSubmissionQueue`, `MCVoteRetention`, `MCSimulationRunner`, `MCSimulationRun`, `MCValidatorService`, `MCMinerServing` | the instances TLC checks |

Every module of the system has a variable `faults` that is fixed at the start:
the kinds of failure a behaviour is subject to. A property that needs a kind
absent says so, and is checked together with the other kinds present. A
definition marked `Variant:` is a plausible mistake in the definition below it;
no action uses it, and `PROJECT.json` says which property notices it.

The parts meet where one module's free choice is another's result.
`SubmissionPipeline` takes the verdict of a simulation as a choice, which
`SimulationRun` decides; `SimulationRunner` takes what a container leaves
behind as a choice. `SubmissionQueue` is handed the passes of the pipeline and
`ValidatorService`'s `available`; `VoteRetention` is handed its verdicts.
`ValidatorService` has the rate limiter over restarts, `SubmissionPipeline` the
same limiter within a process, against several callers.

### SubmissionPipeline

A *caller* is one `await pipeline.run(...)`. `stage[c]` is its place in
`_run_locked`, one action per stage; each await is a step, so anything may
happen between two stages. `lock` is `_run_lock`, `attempt` the loop counter of
`_retry` (or of the novelty add, which has a loop of its own), `window` what the
rate limiter counts, `accepted` the runs that returned a positive weight.
`TakeResult` hands the result to the loop, whose report of it is in
`SubmissionQueue`. Stages whose
verdict depends on content (schema, classifier, simulation, language model) are
free choices, and so is a rejection by an unreachable API. `balance`,
`consumed` and `index` are the Central API's, each call atomic; consuming a work
id a second time succeeds without a deduction, as
`scripts/test-work-id-signature.py` expects. The index is a set of configs *up
to similarity*: `Configs` stands for groups the index tells apart.

`"loss"` lets a call take effect without its reply, for `/novelty/add` and
`/work-token/consume`; `"removal"` lets the call of the rollback fail; `"crash"`
lets a validator die at any point. In production the loop awaits one run after another; the lock, and the
test `tests/test_assertions_pipeline_ordering.py` (PO-06), are about concurrent
callers, so the instance has two.

### SubmissionQueue

`queue` and `file` are the deque and its file, kept apart so that a crash shows
what differs. `Save` is `_save`: `Kept` is the size at which its recursion, which
halves the queue until it fits, ends. `Drain` pops until it has `MaxCount` young
submissions, the number popped being the one `Pops` holds for; `StartDrain`,
`ReportQueued` and `QueuedReportFails` are the loop of `_drain_local_queue`;
`ReportSubmission` is `_report_submission` of a fresh pass. Clocks are kept as
`age` and `wait`, advanced by `Tick` at any point, and cut off where nothing
distinguishes larger values, so there is no bound on time. `available` is
`remote_config.api_available`, which may lag behind the API by any amount. Of a
file above its size limit only the tail is read (`HeaderRead`), so that one of a
later schema may be taken for a legacy file and loaded.

### VoteRetention

One cycle of the loop: `Sync` (metagraph and anchor), `ReadBlock` (the miners
that serve, block read, prune), `NoResponse` or `Validated` for each of them,
`Weights` (set weights if due, clean up); `NoneServing` and `Abort` end it early. `Block`
is the chain: it may produce up to `MaxCycle` blocks between two readings, and
at `pos = 0` it counts the votes. `inRampUp` is decided at `Sync`, since
`in_ramp_up` compares the anchor with the metagraph's block, which is that of the last
sync. Block numbers are kept as distances to the
present block and cut off where the code no longer distinguishes them. `seen`
counts block *times*, as the clean-up uses the clock; `Stall` lets it run ahead
of the blocks. Who gets a positive weight is all that is kept of the weights:
the consistency multiplier scales every miner alike and cancels out in the
normalisation, unless it is zero, in which case nothing is sent. `lastPass` is a
history variable for the properties, and `BoundaryCount` adds another, `owed`,
which follows a pass over the boundaries that might count it.

### SimulationRunner

`loop` is the validator's place: start-up, the cycle, the steps of
`run_simulation` (which the loop awaits, so there is one at most), shutdown.
`available` is the pool's list, `active` the runner's. A refill thread `t` is
what `run_simulation` starts after a judged output: `counted[t]`, `needed[t]`
and `held[t]` are its place in `ContainerPool.warm`, whose two uses of the lock
and the creation between them are steps of their own. The constructor fills the pool
in one step, since no thread is there yet. `up` and `exists` are Docker's: a daemon that goes
and returns, and the containers, which outlive the process. `Forget` is what a
new process starts from. `ConstructFails` is every way in which start-up ends
without a runner: no daemon, and with the fault `"setup"` no key, no Docker
package or no restricted network. Docker's client objects hold no state that matters and are left out,
as are `lease` and `update_image`, which nothing in the validator calls.

### SimulationRun

`at` is the place of the container's program, `stage` that of the pipeline,
which waits for it. `Act` is one agent's action in one step, `Choose` a forced
choice, `OpenScene` and `CloseScene` the rest of a scene; `heard[a]` is what
agent `a` has been made to observe, as indices into `events`. A text is silence, a stock
phrase, or one of its own, which is what the coherence checks tell apart; a
chain of thought is the number of its steps that stayed blank. `OpenOutput` and
`WriteOutput` are the two halves of writing `output.json`, and the program may
die between any two steps. `ReadResult` is `extract_transcript` and
`validate_coherence`, `Judge` the questions to the language model. Scenarios are
those the schema lets through (`Legal`).

### ValidatorService

A tick is about an hour, so a cycle takes one or two and may outlast the
re-authentication buffer, as the code sets no limit to the simulations of a cycle. `StartUp` has the
preflight (`Misconfigured`), the authentication with its three attempts and its
403, the clock check and the first fetch; `Cycle` the re-authentication,
`RefreshConfig`, the periodic clock check, the work and the sleep. Of the work
only the rate limiter is here, for one miner: `ages` counts its entries by age,
`file` those on disk by the host's *wall clock*, which `ClockJumps` may set, and
`real` by true age, a history variable. Four keys stand for the remote config's, one for each
way the code treats a key: one that has no local value, one cast with `int`,
one with `float`, and a version. A response gives each of them a number, a
version, NaN, a text, a null, an empty text or nothing. `Checks` is what a look at
the clock may find: with the fault `"undated"`, also nothing, for want of a date.

### MinerServing

The metagraph is one object the worker thread writes and the event loop reads.
The order of the writes is bittensor's, so its two parts, permits and hotkeys,
are each kept as the epoch of the chain they were read at. `syncs` is the
executor's queue: a sync that timed out is still there, and still writes.
`LookUpUID` and `CheckPermit` are two readings in one call of `blacklist`, with
the worker's steps between them; `since` is a history variable, the `synced` of
the first of them. `loop` is the main thread's place, whose
exceptions and signals end the process in different ways.

## Runs

| run | result | shows |
|---|---|---|
| `pipeline` | holds, 399 748 states | two callers, three submissions (two share a config, two a miner), limit 1, two attempts, every set of faults |
| `pipeline_lost_replies` | `RejectedIsFree` violated | a lost reply to the deduction charges a rejected submission |
| `pipeline_two_validators` | `NoDuplicateAcceptance` violated | two validators accept the same config without any fault |
| `queue` | holds, 516 657 states | queue of three, file of two, drains of two, initial files, three maximal sets of faults; nothing circulates for ever |
| `queue_failed_drain` | `AcceptedNotLost` violated | a failed report drops the rest of the drained batch |
| `votes` | holds, 360 255 states | tempo and retention of three blocks, interval, cycle and ramp-up of two, three maximal sets of faults |
| `votes_missed_boundaries` | `EveryPassIsCounted` violated | a retention of exactly one tempo does not guarantee a boundary |
| `runner` | holds, 290 183 states | pool of two, two refill threads, room for four containers, three maximal sets of faults |
| `runner_startup_outage` | `RecoversFromStartupOutage` violated | a validator started while Docker is down never simulates |
| `content` | holds, 229 800 states | four plays of one or two scenes, four sets of faults, with and without a judge |
| `service` | holds, 679 874 states | three responses, six installs, a window of two ticks, clocks off by two, cycles beyond the buffer, six maximal sets of faults |
| `miner` | holds, 695 792 states | two hotkeys, two uids, three epochs, two syncs waiting, five settings, two maximal sets of faults |

What the properties say is written above each of them in the modules.

**Bounds, and why they suffice.** *Pipeline:* two callers are enough for every
pair of steps to interleave, two submissions of one config for a duplicate and
two of one miner for the limit; a third caller would wait for the same lock. Two
attempts distinguish the first, a middle and the last failure of a call, since
what an attempt does does not depend on its number. *Queue:* three submissions in a file of two fill the queue, force
the truncation, and leave a rest behind a drain of two; `Kept` halves once more
if the file is smaller. *Votes:* miners do not interact except through the
order in which they are validated, so one miner is enough; a tempo of three
with an interval of two and cycles of up to two blocks has passes before, at and
after a boundary, and weights that are due in the cycle or in a later one. *Runner:* two refill threads and
a pool of two let both threads fill the same gap, and two pooled containers, a
surplus one and a running one fill a host with room for four, which also
makes creations fail for want of room. *Content:* the shortest play the schema
allows, which has exactly `MinEvents` events, one with a step after the first, one
with a choice and one with two choices put every threshold of coherence at its
boundary; `MaxEvents` is the code's, which a legal play cannot reach. *Service:* the response in
bounds, the one out of bounds and the one of junk meet every branch of the
clamp; a window of two ticks with cycles of one or two has entries that expire
while the process runs, sleeps or is down; a buffer of one tick and tokens that live for
three let a cycle outlast the buffer, and its token; a clock may jump by twice `MaxSkew`,
past the window. *Miner:* two syncs waiting, besides the one under way, let an
old one write while a new one is waited for; three epochs give it something old
and something new to write. Most theorems drop all of these bounds.

**Deadlock** is checked in every run but two: a play ends, and so does a miner
that refuses its settings, is stopped or crashes (`content`, `miner`).

**Fairness.** *Pipeline:* weak fairness of each caller's run; the event loop
resumes a coroutine that can go on. Nothing forces a miner to answer, a window to
expire or a process to crash. The lock needs no fairness: `RunsEnd` is about a
caller that has it. *Queue:* weak fairness of the loop and the clock, and
strong fairness of a refresh that finds the API available: an outage that never
ends leaves submissions in the queue, which is what the queue is for.
`EverySubmissionSettles` does not assume that a report ever succeeds. *Votes:* weak
fairness of the loop and the chain. *Runner:* weak fairness of start-up, shutdown, each refill thread and
the simulation, its time-out included, and strong fairness of the health check,
which is due every five minutes. Whether a container ends, Docker returns or a
signal arrives is left open. *Service:* weak fairness of start-up, of the cycle
and of time; the API comes and goes as it likes, and the properties speak of an
API that stays. A process that ended is started again, as the supervisor of the
deployment does. *Miner:* weak fairness of the main thread and the worker, and strong
fairness of `Read`, a sync that gets its answer: among syncs tried for ever one
succeeds, unless it hangs, which `MetagraphCatchesUp` excludes. *Content* has no
liveness property, as the runner's time-out ends whatever does not.

## Findings

Five runs end in a violation; each refutes a sentence of the repository, quoted
in `PROJECT.json`.

1. The repository's README.md:292-294 says rejected submissions cost nothing; with the last reply to
   the deduction lost, one does.
2. The docstring of `run` leaves the serialisation of validators to the Central
   API, whose check and add are separate calls.
3. Accepted submissions are lost when a drain fails halfway: all of the batch
   behind the one that failed. `LossesAreBounded` says that this is all.
4. One tempo of retention is not "the minimum that guarantees survival across one
   boundary". `BoundaryProofs` shows how much is enough: `Retention >= Tempo +
   Interval + 2 * MaxCycle - 2`. With the code's tempo of 360 and interval of 25
   blocks a retention of one tempo falls short of that by at least 25 blocks, and
   by more the longer a cycle takes. That less is too little was observed by
   varying the constants of the run (tempos of up to 12).
5. The log promises that simulation recovers after an outage at start-up, and it
   does not.

Smaller disagreements seen on the way, without a run of their own:

* *Queue.* A drain that reports one submission and then fails resets the backoff
  it has just set (`validator.py:799`). A requeue at the tail makes the
  truncation keep older entries for younger ones (`local_queue.py:140`). A queue
  file of a later schema is refused "to preserve data" (`local_queue.py:185`) and
  overwritten by the next save (`local_queue.py:116`).
* *Weights.* `last_weight_block` advances after a refused `set_weights`
  (`validator.py:639`). `common/constants.py:50` speaks of refusing to set
  weights where `_validate_burn_uid` only warns, and a docstring there of a
  weight of 1.0 where `compute_weight` returns 0. The consistency multiplier
  "attenuates influence" (`validator.py:917`), but cancels out in the
  normalisation (`validator.py:1013-1016`) unless it is zero, which it is already
  at the floor; a floor of 1.0 divides by zero and counts as 1.0.
* *Runner.* A refill thread that is still alive at `close` leaves its containers
  behind, and so does a process that dies, as nothing looks for containers of
  earlier processes.
* *Remote config.* A minimum version one major ahead passes the clamp
  (`remote_config.py:86-94`), but `check_compatibility` rejects every difference
  of majors, so such a config stops all validation. Environment variables
  are bounded for the burn percentage but not for the others that are cast
  (`WORK_ID_FRESHNESS_SECONDS`). NaN and text pass `_clamp` unbounded; a rate
  limit of NaN rejects everybody, one of text ends every cycle. With
  `ENVIRONMENT=local` the keys without a local value are still the API's.
* *Session.* A token is taken to live for 24 hours, whatever `expires_at` says,
  and looked at only at the start of a cycle: one that takes longer than the
  re-authentication buffer may end with a token that has run out.
* *Files.* The rate limiter's and the counts' files are replaced in place: a
  crash in the write leaves neither the old nor the new content.
* *Simulation.* `COT_STEPS`, called a seven-step chain, has six entries.
  `_extract_cot` is to "degrade gracefully" (`entrypoint.py:297`), but its empty
  answer makes the transcript incoherent. The docstring of coherence
  (`coherence.py:41`) asks for the scenario's forced choices, of which the code
  (`coherence.py:77`) only checks those that are there; that `VerdictJust` still holds is
  owed to the play, which makes no transcript without them that claims to be complete.
* *Miner.* The banner's call is guarded for `CentralAPIError` only, although a
  flaky API "must never block" start-up (`miner.py:83`). An exception of a sync
  other than a time-out ends the miner (`miner.py:230`). A caller whose uid was
  given away between the worker's two writes is judged by its successor's
  permit, or its successor by its own: `AcceptedHeldPermit` allows for that, and says
  how old the two may be.
* *Doctor* does not perform "the same checks the validator performs at startup".

## Proofs

Every theorem holds for any value of the constants the assumptions of its module
allow. All of them follow one argument: an inductive invariant, which adds to
the property what the steps before it have established, is shown to hold
initially and to be kept by every action (one lemma or step per action), and
`PTL` closes the temporal part; an action property then follows from the
invariant in one step.

### PipelineProofs

Any number of validators, callers, miners, configs and submissions, any limit,
balance and number of attempts, all faults. The assumptions
(`SetsAssumption`, `FunctionsAssumption`, `NumbersAssumption`) type the
constants and ask for at least one attempt and a positive limit.

| theorem | statement |
|---|---|
| `TypeCorrect` | `Spec => []TypeOK` |
| `RateLimit` | `Spec => []RateLimitRespected` |
| `AcceptedStayIndexed` | `Spec => []AcceptedConfigsStayIndexed` (*) |
| `NoConfigAcceptedTwice` | `Spec => NoDuplicateAcceptance` (*) |
| `ChargedOnlyWhileIndexed` | `Spec => ChargedWhileIndexed` (*) |
| `RejectionIsFree` | `Spec => RejectedIsFreeWithoutFaults` (*) |
| `FailureIsTraceless` | `Spec => FailureLeavesNoTrace` (*) |
| `AcceptedIsPaid` | `Spec => [](AcceptedWork \subseteq consumed)` |
| `AcceptancesWithinBalance` | no miner has more accepted submissions, at all validators together, than it had tokens |
| `RunsAreBounded` | `Spec => []RunsInRange /\ RunsOnlyAdvance` |
| `LedgerImplemented` | `Spec => ImplementsLedger`, the refinement of `AcceptanceLedger` (*) |

(*) under `ConfigsRoutedToOneValidator`: no config is sent to two validators. The
run `pipeline_two_validators` shows that the hypothesis is needed. A miner
rotates through its configs, which makes the hypothesis likely, not certain.

The invariant says what each stage may still rely on. `LockInv`: a caller inside the stages holds its validator's lock,
so there is at most one per validator. `JobInv`: it works on a submission its
validator received. `RateInv`: from stage 5 on the slot seen in stage 4 is still
free; only `Record` takes one, and that needs the lock. `NoveltyInv`: from stage 6
on the config is not an accepted one; another caller of the validator would need
the lock, one of another validator has other configs. `IndexedInv`: between the
add and the record the embedding is in the index; a rollback of the same config
would need another run of it. `PaidInv`: a run about to be recorded, and every
accepted submission, is paid. `AcceptedConfigsStayIndexed` joins the
invariant since a rollback must not hit an accepted config, which is what
`NoveltyInv` excludes. `ChargedInv`: where no reply is lost and nobody dies a
charge belongs to a run that has passed the deduction, so a rejected one has none.
`FailureIsTraceless` needs that a run that has not come to the add has nothing in
the index, unless by a lost reply of its own add, and that a rollback which does not fail removes what is
there.

Where configs are sent to several validators, what needs no lock remains: of the
ledger `AcceptedIsPaid`, and with `BalanceInv`, by which a miner's charges and
what it has left never exceed what it started with, `AcceptancesWithinBalance`.
`RunsAreBounded` is the safety half of `RunsEnd`: `Left(c)`, which orders the
stages and, within one, the attempts, is bounded and falls with every step of
the run, so that no retry or rollback starts a run over.

### QueueProofs

Any number of submissions, any sizes of queue, file and drain, any ages and
delays, all faults; an initial file holds no submission twice.

| theorem | statement |
|---|---|
| `TypeCorrect` | `Spec => []TypeOK` |
| `RestartsRecoverQueue` | `Spec => []RestartRecoversQueue` |
| `NothingReportedTwice` | `Spec => []PendingNotReported` |
| `LossesBounded` | `Spec => LossesAreBounded` |

`PlaceInv` makes the properties inductive: without lost replies and disk errors
no submission is in two places of queue, batch and hand, or twice in one, and
what is pending or reported was accepted once, so that a new pass is none of
them. `PhaseInv` ties the batch and the pass in hand to the phase. Truncation
and drain rest on lemmas about suffixes of sequences (`SuffixFacts`) and about
the size that halving ends with.

### VoteProofs

Any number of miners, any tempo, interval, ramp-up and floor with `Tempo <=
Retention`, `MaxCycle <= Retention`, `StaleAfter >= Retention + MaxCycle` and
`StaleAfter >= RampUp`; the constants of the code satisfy them as long as no cycle takes a tempo.

| theorem | statement |
|---|---|
| `TypeCorrect` | `Spec => []TypeOK` |
| `FreshPassesKept` | `Spec => []FreshPassKept` |
| `CountsAlwaysPersisted` | `Spec => []CountsPersisted` |
| `OnTimeVotesStand` | `Spec => OnTimeVoteStands` |
| `RampUpIsNotRewound` | `Spec => RampUpNeverRewound` |

`PassInv`: the result of the latest pass is stamped as old as the pass, and its
miner was not seen longer ago, as far as either is counted; so neither the prune,
which goes by the stamp, nor the clean-up, which goes by the clock, takes a
fresh pass. `RampInv`, `RampUpInv` and `EntitledInv`: whoever was voted for while
`inRampUp` asked for validations had them then, and still has them, since nobody seen
in the ramp-up is forgotten before it ends; the metagraph by which it is decided may be
behind the chain, but not ahead of it. `AnchorInv`: the anchor in memory is on disk.

### BoundaryProofs

`LongRetentionCounts`: under `LongRetention`, `CountSpec => [](faults \subseteq
{"disk"} => EveryPassIsCounted)`. `LongRetention` asks for a retention of
`Tempo + Interval + 2 * MaxCycle - 2` blocks at least and for a tempo no shorter
than `Interval + 2 * MaxCycle`, so that weights are set in every tempo. The code's
retention is shorter: the theorem is about the value that `constants.py` would have to
have, not about the one it has, for which the property is violated. Nothing but
the disk may fail, as each of the other faults loses votes whatever the
retention: a death loses the results, the chain may refuse weights, a cycle that fails
sets none. A pass in the ramp-up is owed nothing, since its miner may not be
entitled to a vote yet.
`OwedInv` bounds the age of a pass that a boundary still owes something by the
position in the tempo, so that with `FreshPassKept`, which is proved in
`VoteProofs`, it is still a pass; and while there is no vote for it, weights have
not been set since the pass or the boundary that missed it, which cannot last
longer than an interval and two cycles.

### RunnerProofs

Any number of refill threads, any finite room on the Docker host, any pool size,
all faults.

| theorem | statement |
|---|---|
| `TypeCorrect` | `Spec => []TypeOK` |
| `PoolNeverOverfull` | `Spec => []PoolBounded` |
| `NoContainerForgotten` | `Spec => []Accounted` |
| `FootprintBounded` | while Docker does what it is asked, a process has at most `PoolSize + 1 + Cardinality(Threads)` containers |

`Accounted` says that what exists is listed somewhere; it is kept only if
nothing is listed twice, since a removal takes a container off one list. The
invariant therefore adds, with or without faults, that what is listed exists
(`ListedInv`, `HeldInv`), that the lists are disjoint and no two threads hold the
same container, that the active container is the one of the simulation under way
(`ActiveInv`), and that a new process starts without threads (`StartInv`).
`PoolBounded` needs the second look at the pool under the lock, not the count:
that is why any number of threads may count at once. `HeldInv` also gives the
type invariant that a thread's remaining number does not become negative.
`FootprintBounded` counts what `Accounted` lists: a thread holds one container at
most, and a finite number of threads is its hypothesis.

### ContentProofs

Any legal scenarios of two agents, all faults. The limits are those that suit
the schema (`LimitsAssumption`): the shortest play it allows has five events, the
default of `min_events`, and the longest ten scenes of fourteen, far below
`MAX_TRANSCRIPT_EVENTS`. With a higher minimum a faultless play would be rejected,
with a lower maximum a complete one cut off; what the agents hear needs neither.

| theorem | statement |
|---|---|
| `TypeCorrect` | `Spec => []TypeOK` |
| `EveryoneHears` | `Spec => []EveryoneHeardEverything` |
| `VerdictsAreJust` | `Spec => []VerdictJust` |
| `PlaysAreBounded` | `Spec => [](Moment \in 0 .. 145) /\ PlayOnlyAdvances` |

`HeardInv` carries the property through the play: an agent's observations are
the premise and the events that concern it, in order, so that a step that
appends an event extends both by the same. `SceneInv` gives the type of `step`.

The verdict needs to know, event by event, how far the play is. `Rank` gives
every line of the script a place, fourteen for each scene, and `Due` is the first
place not yet played. `ScriptInv`: the events are the lines of the script before
`Due`, once each, in the order of their ranks; a step adds the one line that is
due, and the places that a short scene, or one without a choice, leaves free are
skipped (`NextLine`, `PlayedGap`). So a play that claims to be complete is the whole
script (`WholeFromPlayed`), and as `OutputInv` says that a whole file holds such a
play, and `StageInv` that only a coherent transcript goes on, what passes is one.
`PlaceInv` ties turn, step and scene to the program's place. That everybody spoke
is an argument of counting (`EachSpeaks`): the agents act equally often, since
every step has both, and at most three tenths of all acts may be silent, which
is fewer than the half that one of them would leave silent. The converse,
that without faults nothing is rejected, rests on `SaidInv` (every text is one
of its own and no reasoning is blank), on `LengthInv` (five events at least) and on
`FaultlessCoherent`. `PlaysAreBounded` uses `Due` once more: every step of the
program passes a place, of which there are 140, and a few to start and to write.

### ServiceProofs

Any bounds, intervals, lifetimes, windows and limits, any settings of the
operator and any configs the API may serve, all faults, cycles of any length;
`ReauthBuffer < TokenLife`.

| theorem | statement |
|---|---|
| `TypeCorrect` | `Spec => []TypeOK` |
| `SettingsAlwaysInBounds` | `Spec => []SettingsInBounds` |
| `TokensLastTheBuffer` | `Spec => []TokenLastsBuffer` |
| `BudgetNeverExceeded` | `Spec => BudgetKept` |

`TokenInv`: past the start of a cycle the token has at most aged by what the
cycle has taken since it was looked at, so within the buffer it is valid; nothing is
assumed of how long a cycle takes, and nothing is claimed of what is left of a
longer one. `ConfigInv` and `LimitInv`: what was taken from a response is of a kind the
clamp lets through. `APIInv`, `ClientInv` and `CycleInv` make the
re-authentication at the start of a cycle succeed where no fault prevents it.
`RecordsInv`: with the clock, the disk and the writes intact the file has the
true ages of all records, and so has the memory while the process lives.

### MinerProofs

Any subnet, any history of the chain, any settings, any number of syncs waiting,
all faults.

| theorem | statement |
|---|---|
| `TypeCorrect` | `Spec => []TypeOK` |
| `SyncedStaysFresh` | `Spec => []SyncedIsFresh` |
| `OnlyPermittedAccepted` | `Spec => AcceptedHeldPermit` |

`WorkerInv`: a sync under way writes nothing older than what it writes over, and
the last one submitted nothing older than the chain at that time. With one worker
the future is done only when all earlier syncs are (`FutureInv`). `RequestInv`:
one call of `blacklist` at a time is under way, and the uid it has looked up was
its caller's at some time from `since` on, whoever owns it now.

### Model-checked only

Every invariant and every action property of the passing runs is proved, five
of them and the refinement under `ConfigsRoutedToOneValidator`. The liveness
properties (`RunsEnd`, `EverySubmissionSettles`, `PassLeadsToVote`,
`SimulationsEnd`, `RecoversFromOutage`, `PoolRefills`, `MetagraphCatchesUp`,
`Reconnects`, `DriftIsCaught`) are out of the prover's reach, as it reasons neither
about fairness nor about ENABLED. For two of the loops a variant is proved,
`RunsAreBounded` for a run of the pipeline and `PlaysAreBounded` for a play: the number of
steps is bounded and every step counts. That the next step is taken is TLC's part.

### Excluded faults

Under some of the faults that are modelled a property does not hold. It excludes
them by name, since nothing in the code or its documents promises what would happen:

* A report whose reply is lost is repeated, and nothing recognises it
  (`PendingNotReported`). A failed write of the queue file leaves what was there, or half
  of it (`RestartRecoversQueue`, `PendingNotReported`); `LossesAreBounded`
  says what a process that lives still keeps.
* A removal that fails, or a lost reply to the add, leaves an embedding of a rejected
  submission (`FailureLeavesNoTrace`). Lost replies and deaths charge
  rejected ones (`RejectedIsFreeWithoutFaults`; the first is a finding).
* When the chain stalls, the clean-up, by the clock, takes results that are fresh
  in blocks (`FreshPassKept`, `OnTimeVoteStands`). A death loses all results. After a
  failed write of the anchor or the counts a restart begins from what is there
  (`RampUpNeverRewound`, `CountsPersisted`).
* A clock that is set, a failed write and a file cut short in its replacement
  may all empty the rate limiter's window (`BudgetKept`). With clocks that are set `TypeOK` still
  says that no entry from the future is loaded.
* A Docker that fails, or is away, leaks containers (`Accounted`), and nothing
  repairs a host that is not set up (`RecoversFromStartupOutage`).
* An API that never sends a date is never compared with (`DriftIsCaught`); a sync that
  hangs stops all later ones (`MetagraphCatchesUp`).
* A whole play is rejected where the container dies after it has written, a
  text is silent, repeated or without reasoning, or the judge says so
  (`VerdictJust`, second half).

## Not modelled

* Texts and numbers: schema, work-id hashes, embeddings, classifier, prompts,
  sizes of weights. They appear as free verdicts, or as what the schema
  guarantees; they are functions without state.
* The restricted network of the simulations: host resolution and a sequence of
  external commands, once at start-up and once at shutdown, whose effect is
  outside the program.
* `ContainerPool.lease` and `update_image` of pool and runner, which nothing in
  the validator calls.
* Doctor, deposit and operator tools, benchmarks, retraining and the scripts that
  write scenarios: sequential programs that keep no state the network depends on.
* The mapping of hotkeys to UIDs when weights are set: one lookup in the
  metagraph of the cycle. A UID that changes hands within a cycle gets its
  predecessor's weight, about which nothing in the repository says anything.
* Concurrent submissions inside one validator beyond the lock, since the loop has
  none; miners that share a validator's rate limiter file, since entries of
  different hotkeys do not meet.
* A process that is given up by its supervisor.
