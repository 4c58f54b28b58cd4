--------------------------- MODULE SubmissionQueue ---------------------------
(***************************************************************************)
(* Degraded mode: the local queue of accepted submissions, its file, and   *)
(* the part of the validator's loop that fills and drains it.              *)
(*                                                                         *)
(* The loop is one coroutine, so nothing else touches the queue while it   *)
(* waits for a report; but while it waits the clock runs, the process may  *)
(* die, and the answer may be lost.  Time is kept as ages: a submission is *)
(* too old once its age exceeds MaxAge, whatever the clock reads.          *)
(***************************************************************************)
EXTENDS Integers, Sequences, SequencesExt

CONSTANTS
  WorkIds,         \* accepted submissions; a work id is accepted once
  MaxQueue,        \* queue_max_size: the maxlen of the deque
  MaxFileEntries,  \* submissions that fit in queue_max_file_size_mb
  MaxCount,        \* submissions taken per drain (20 in the code)
  MaxAge,          \* queue_max_age_seconds, in ticks
  BaseDelay,       \* first backoff of the drain (60 s in the code), in ticks
  MaxDelay,        \* longest backoff (one tempo), in ticks
  InitialFiles,    \* the files the first start may find
  FaultModels,     \* the sets of faults a behaviour may be subject to
  NoWork           \* no submission is being reported

ASSUME QueueAssumption ==
  /\ NoWork \notin WorkIds
  /\ MaxQueue \in Nat \ {0}
  /\ MaxFileEntries \in Nat
  /\ MaxCount \in Nat \ {0}
  /\ MaxAge \in Nat
  /\ BaseDelay \in Nat \ {0}
  /\ MaxDelay \in Nat /\ MaxDelay >= BaseDelay
  /\ InitialFiles \subseteq [version : {"current", "future"}, entries : Seq(WorkIds)]
  /\ \A f \in InitialFiles : IsInjective(f.entries)
  /\ FaultModels \subseteq SUBSET {"outage", "drain_failure", "loss", "crash", "disk"}

VARIABLES
  queue,      \* LocalSubmissionQueue._queue, oldest first
  file,       \* its file: the schema version and the entries
  batch,      \* the drained submissions _drain_local_queue still has to report
  progress,   \* whether this drain has reported one (reported > 0)
  failures,   \* _drain_consecutive_failures
  wait,       \* ticks left until _drain_next_attempt
  available,  \* remote_config.api_available
  phase,      \* where the loop is
  current,    \* the pass _report_submission is reporting
  age,        \* age[w]: ticks since w was queued (queued_at), up to MaxAge + 1
  accepted,   \* submissions that passed the pipeline, now or before a file that is loaded
  reported,   \* Central API: the stored submissions
  discarded,  \* submissions dropped on purpose: too old, or no room
  faults      \* the faults this behaviour is subject to; never changes

queueVars == <<queue, file, discarded>>
drainVars == <<batch, progress, failures, wait>>
vars == <<queueVars, drainVars, available, phase, current, age, accepted, reported, faults>>

Phases == {"refresh", "drain", "draining", "validate", "reporting"}

TypeOK ==
  /\ queue \in Seq(WorkIds) /\ Len(queue) <= MaxQueue
  /\ file.version \in {"current", "future"} /\ file.entries \in Seq(WorkIds)
  /\ batch \in Seq(WorkIds) /\ Len(batch) <= MaxCount
  /\ progress \in BOOLEAN
  /\ failures \in 0 .. MaxDelay
  /\ wait \in 0 .. MaxDelay
  /\ available \in BOOLEAN
  /\ phase \in Phases
  /\ current \in WorkIds \union {NoWork}
  /\ age \in [WorkIds -> 0 .. MaxAge + 1]
  /\ accepted \subseteq WorkIds
  /\ reported \subseteq WorkIds
  /\ discarded \subseteq WorkIds
  /\ faults \in FaultModels

Newest(s, n) == IF Len(s) <= n THEN s ELSE SubSeq(s, Len(s) - n + 1, Len(s))

(***************************************************************************)
(* The queue and its file.                                                 *)
(***************************************************************************)

\* Of a file above the size limit only the last maxlen lines are looked at, and
\* then the header is among them only if that is all there is.
HeaderRead(f) == Len(f.entries) <= MaxFileEntries \/ Len(f.entries) < MaxQueue

\* _load: a file of a later schema is left alone and nothing is loaded, unless
\* its header is cut off and it is taken for a legacy file; the deque keeps the
\* newest maxlen entries.
Loaded(f) == IF f.version = "future" /\ HeaderRead(f) THEN <<>> ELSE Newest(f.entries, MaxQueue)

\* The sizes of a queue of n that is halved again and again.
Halvings(n) == {h \in 0 .. n : \E k \in 0 .. n : h = n \div 2 ^ k}

\* _save halves the queue and saves again until the file is small enough: the
\* one size that is kept, and what is left of the queue.
Kept(n) ==
  {h \in Halvings(n) : /\ h <= MaxFileEntries
                       /\ \A g \in Halvings(n) : g <= MaxFileEntries => g <= h}

Truncated(q) == {Newest(q, n) : n \in Kept(Len(q))}

\* Variant: the truncated queue is not written again.
SaveOnce(q) ==
  /\ queue' \in Truncated(q)
  /\ file' = [version |-> "current", entries |-> q]

\* _save with q in memory.  An OSError is logged and leaves the file as it
\* was or cut short; open(path, "w") overwrites it whatever it held.  A death
\* in the middle of a save is one that fails, and a Crash.
Save(q) ==
  \/ /\ queue' \in Truncated(q)
     /\ file' = [version |-> "current", entries |-> queue']
  \/ /\ "disk" \in faults
     /\ queue' \in {q} \union Truncated(q)
     /\ \/ UNCHANGED file
        \/ \E n \in 0 .. Len(queue') :
             file' = [version |-> "current", entries |-> SubSeq(queue', 1, n)]

\* enqueue: deque.append drops the oldest at maxlen.
Enqueue(w) ==
  /\ Save(Newest(Append(queue, w), MaxQueue))
  /\ discarded' = discarded \union (ToSet(Append(queue, w)) \ ToSet(queue'))

TooOld(w) == age[w] > MaxAge

\* The places of the young submissions among the first n.
Young(n) == {i \in 1 .. n : ~ TooOld(queue[i])}

\* drain pops n submissions: until it has MaxCount young ones, or all.
Pops(n) ==
  /\ Cardinality(Young(n)) <= MaxCount
  /\ IF Cardinality(Young(n)) = MaxCount THEN n \in Young(n) ELSE n = Len(queue)

\* The numbers of S in ascending order.
Ascending(S) ==
  {f \in [1 .. Cardinality(S) -> S] :
     ToSet(f) = S /\ \A i, j \in DOMAIN f : i < j => f[i] < f[j]}

\* The young ones among n popped submissions are returned, the others dropped.
Returns(n) ==
  /\ \E f \in Ascending(Young(n)) : batch' = [i \in DOMAIN f |-> queue[f[i]]]
  /\ discarded' = discarded \union {queue[i] : i \in (1 .. n) \ Young(n)}
                            \union (ToSet(SubSeq(queue, n + 1, Len(queue))) \ ToSet(queue'))

\* Variant: the drained submissions are taken out of memory only.
DrainUnsaved ==
  \E n \in 1 .. Len(queue) :
    /\ Pops(n)
    /\ queue' = SubSeq(queue, n + 1, Len(queue)) /\ UNCHANGED file
    /\ Returns(n)

\* Variant: a drain forgets what it did not take.
DrainAll ==
  \E n \in 1 .. Len(queue) :
    /\ Pops(n)
    /\ Save(<<>>)
    /\ \E f \in Ascending(Young(n)) : batch' = [i \in DOMAIN f |-> queue[f[i]]]
    /\ discarded' = discarded \union {queue[i] : i \in (1 .. n) \ Young(n)}

Drain ==
  \E n \in 1 .. Len(queue) :
    /\ Pops(n)
    /\ Save(SubSeq(queue, n + 1, Len(queue)))
    /\ Returns(n)

Init ==
  /\ file \in InitialFiles
  /\ queue = Loaded(file)
  /\ batch = <<>> /\ progress = FALSE /\ failures = 0 /\ wait = 0
  /\ available = TRUE
  /\ phase = "refresh"
  /\ current = NoWork
  /\ age = [w \in WorkIds |-> 0]
  /\ accepted = ToSet(queue)
  /\ reported = {}
  /\ discarded = {}
  /\ faults \in FaultModels

(***************************************************************************)
(* One cycle of the loop: refresh, drain, validate and report.             *)
(***************************************************************************)

\* remote_config.refresh, which may also keep what an earlier fetch found.
Refresh ==
  /\ phase = "refresh"
  /\ available' \in IF "outage" \in faults THEN BOOLEAN ELSE {TRUE}
  /\ phase' = "drain"
  /\ UNCHANGED <<queueVars, drainVars, current, age, accepted, reported, faults>>

MayDrain == queue # <<>> /\ available /\ wait = 0

SkipDrain ==
  /\ phase = "drain" /\ ~ MayDrain
  /\ phase' = "validate"
  /\ UNCHANGED <<queueVars, drainVars, available, current, age, accepted, reported, faults>>

StartDrain ==
  /\ phase = "drain" /\ MayDrain
  /\ Drain
  /\ progress' = FALSE
  /\ phase' = IF batch' = <<>> THEN "validate" ELSE "draining"
  /\ UNCHANGED <<failures, wait, available, current, age, accepted, reported, faults>>

\* Variant: the backoff is not capped at one tempo.
DelayUncapped(n) == BaseDelay * 2 ^ (n - 1)

\* The exponential backoff; the count stops where the delay has reached its cap.
Delay(n) ==
  LET delay == BaseDelay * 2 ^ (n - 1)
  IN  IF delay \in BaseDelay .. MaxDelay THEN delay ELSE MaxDelay
OneMore(n) == IF n < MaxDelay THEN n + 1 ELSE n

\* A drained submission is reported; after the last one the backoff is reset.
ReportQueued ==
  /\ phase = "draining"
  /\ reported' = reported \union {Head(batch)}
  /\ batch' = Tail(batch)
  /\ progress' = TRUE
  /\ IF batch' = <<>>
       THEN phase' = "validate" /\ failures' = 0 /\ wait' = 0
       ELSE UNCHANGED <<phase, failures, wait>>
  /\ UNCHANGED <<queueVars, available, current, age, accepted, faults>>

\* Variant: the submission is queued again as if it were new.
RequeueAsNew ==
  /\ phase = "draining" /\ "drain_failure" \in faults
  /\ Enqueue(Head(batch))
  /\ age' = [age EXCEPT ![Head(batch)] = 0]
  /\ failures' = OneMore(failures) /\ wait' = Delay(failures + 1)
  /\ batch' = <<>> /\ phase' = "validate"
  /\ UNCHANGED <<progress, available, current, accepted, reported, faults>>

\* A report of the drain fails: this submission is queued again, the rest of
\* the batch is left to the garbage collector, and the drain backs off unless
\* an earlier report of the same drain succeeded.
QueuedReportFails ==
  /\ phase = "draining" /\ "drain_failure" \in faults
  /\ \/ UNCHANGED reported
     \/ "loss" \in faults /\ reported' = reported \union {Head(batch)}
  /\ Enqueue(Head(batch))
  /\ failures' = IF progress THEN 0 ELSE OneMore(failures)
  /\ wait' = IF progress THEN 0 ELSE Delay(failures + 1)
  /\ batch' = <<>>
  /\ phase' = "validate"
  /\ UNCHANGED <<progress, available, current, age, accepted, faults>>

\* The pipeline returns a pass.
Pass(w) ==
  /\ phase = "validate"
  /\ w \notin accepted
  /\ accepted' = accepted \union {w}
  /\ current' = w
  /\ phase' = "reporting"
  /\ UNCHANGED <<queueVars, drainVars, available, age, reported, faults>>

\* _report_submission: to the API if it is known to be up, else to the queue.
ReportSubmission ==
  /\ phase = "reporting"
  /\ \/ /\ available
        /\ reported' = reported \union {current}
        /\ UNCHANGED <<queueVars, age>>
     \/ /\ "outage" \in faults
        /\ \/ UNCHANGED reported
           \/ available /\ "loss" \in faults /\ reported' = reported \union {current}
        /\ Enqueue(current)
        /\ age' = [age EXCEPT ![current] = 0]
  /\ current' = NoWork
  /\ phase' = "validate"
  /\ UNCHANGED <<drainVars, available, accepted, faults>>

\* The cycle is over, or an exception ends it.
EndCycle ==
  /\ phase = "validate"
  /\ phase' = "refresh"
  /\ UNCHANGED <<queueVars, drainVars, available, current, age, accepted, reported, faults>>

(***************************************************************************)
(* Time and crashes.                                                       *)
(***************************************************************************)
Stored == ToSet(queue) \union ToSet(batch) \union ToSet(file.entries)

Tick ==
  /\ age' = [w \in WorkIds |->
       IF w \notin Stored THEN 0 ELSE IF TooOld(w) THEN age[w] ELSE age[w] + 1]
  /\ wait' = IF wait > 0 THEN wait - 1 ELSE 0
  /\ <<age, wait>>' # <<age, wait>>
  /\ UNCHANGED <<queueVars, batch, progress, failures, available, phase, current,
                 accepted, reported, faults>>

\* The process dies and restarts: only the file is left.
Crash ==
  /\ "crash" \in faults
  /\ queue' = Loaded(file)
  /\ batch' = <<>> /\ progress' = FALSE /\ failures' = 0 /\ wait' = 0
  /\ available' = TRUE
  /\ phase' = "refresh"
  /\ current' = NoWork
  /\ UNCHANGED <<file, discarded, age, accepted, reported, faults>>

Cycle ==
  \/ Refresh
  \/ SkipDrain
  \/ StartDrain
  \/ ReportQueued
  \/ QueuedReportFails
  \/ ReportSubmission
  \/ EndCycle

Next ==
  \/ Cycle
  \/ \E w \in WorkIds : Pass(w)
  \/ Tick
  \/ Crash

\* The loop and the clock go on, and the API answers again and again.
Spec ==
  /\ Init /\ [][Next]_vars
  /\ WF_vars(Cycle) /\ WF_vars(Tick)
  /\ SF_vars(Refresh /\ available')

-----------------------------------------------------------------------------
(***************************************************************************)
(* Properties.                                                             *)
(***************************************************************************)
Pending == ToSet(queue) \union ToSet(batch) \union ({current} \ {NoWork})

(***************************************************************************)
(* While the disk works, a restart at any point finds exactly the queue    *)
(* the process had in memory: no operation, truncation to the file size    *)
(* limit included, leaves the two apart.                                   *)
(***************************************************************************)
RestartRecoversQueue == "disk" \notin faults => Loaded(file) = queue

(***************************************************************************)
(* While replies arrive and the disk works, nothing that is still to be    *)
(* reported, or that a restart would bring back, is at the API already: no *)
(* submission is reported twice, not even across a crash during a drain.   *)
(***************************************************************************)
PendingNotReported ==
  faults \intersect {"loss", "disk"} = {} =>
    (Pending \union ToSet(Loaded(file))) \intersect reported = {}

(***************************************************************************)
(* "Accepted configs are queued locally and reported when the API returns" *)
(* (local_queue.py): without a crash, an accepted submission is reported,  *)
(* still to be reported, or dropped because it is too old or there is no   *)
(* room for it.                                                            *)
(***************************************************************************)
AcceptedNotLost == "crash" \notin faults => accepted \subseteq reported \union Pending \union discarded

\* Accepted submissions that are nowhere any more, and not dropped on purpose.
Lost == accepted \ (reported \union Pending \union discarded)

(***************************************************************************)
(* What one failure can cost.  While the process lives, whatever fails or  *)
(* is lost, the API, a report of a drain or the disk, a step loses only    *)
(* the rest of a batch whose report failed: never the submission that      *)
(* failed, never what is still queued or being reported for the first      *)
(* time.  And while the disk works even a process that dies loses only     *)
(* the batch and the submission in its hands.                              *)
(***************************************************************************)
LossesAreBounded ==
  [][/\ "crash" \notin faults =>
          Lost' \subseteq Lost \union (IF batch' = <<>> THEN {batch[i] : i \in 2 .. Len(batch)} ELSE {})
     /\ "disk" \notin faults =>
          Lost' \subseteq Lost \union ToSet(batch) \union {current}]_vars

(***************************************************************************)
(* A submission does not go round for ever between the queue and a failing *)
(* API: a requeue keeps queued_at, so it is reported or becomes too old.   *)
(***************************************************************************)
EverySubmissionSettles ==
  \A w \in WorkIds : "crash" \notin faults => <>[](w \notin Pending)

=============================================================================
