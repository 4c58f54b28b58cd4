---------------------------- MODULE MinerServing ----------------------------
(***************************************************************************)
(* A miner: the loop that has the metagraph synced by a worker thread, and *)
(* the axon, whose event loop decides whether a caller is served and deals *)
(* out the scenario configs.                                               *)
(*                                                                         *)
(* The metagraph is not copied: the worker writes its parts one after the  *)
(* other while the event loop reads them, so each part is kept as the      *)
(* epoch of the chain it was read at.                                      *)
(***************************************************************************)
EXTENDS Integers, Sequences, FiniteSets

CONSTANTS
  UIDs,         \* uids of the subnet
  Hotkeys,      \* hotkeys that may call
  Files,        \* the *.json files of MINER_CONFIG_DIR
  Settings,     \* the operator's settings a behaviour may start from
  Histories,    \* the histories of the chain: sequences of [owner, permit]
  MaxPending,   \* bound: syncs the executor's queue has room for
  MaxAnswers,   \* bound: requests answered
  FaultModels,  \* the sets of faults a behaviour may be subject to
  None          \* no hotkey, no uid, no epoch

Epochs == UNION {DOMAIN h : h \in Histories}

ASSUME MinerAssumption ==
  /\ None \notin UIDs /\ None \notin Epochs
  /\ MaxPending \in Nat \ {0} /\ MaxAnswers \in Nat
  /\ Settings \subseteq [testlab : BOOLEAN, mainnet : BOOLEAN, directory : BOOLEAN,
                         address : BOOLEAN, valid : SUBSET Files]
  /\ IsFiniteSet(Files)
  /\ Histories \subseteq Seq([owner : [UIDs -> Hotkeys \union {None}], permit : [UIDs -> BOOLEAN]])
  /\ <<>> \notin Histories
  /\ FaultModels \subseteq SUBSET {"hang", "timeout", "error", "banner"}

VARIABLES
  settings,     \* the configuration; never changes
  chain,        \* chain: its successive states
  epoch,        \* chain: the present one
  permits,      \* the epoch metagraph.validator_permit was read at
  hotkeys,      \* the epoch metagraph.hotkeys was read at
  loop,         \* where `run` is
  should_exit,  \* self.should_exit
  syncs,        \* the executor's queue: the epochs its syncs were submitted at
  worker,       \* what the executor's thread is doing
  reading,      \* the epoch the sync under way has read
  future,       \* the future of the last sync submitted
  configs,      \* ConfigStore.configs
  turn,         \* ConfigStore._index
  request,      \* request[c]: where the request of c is
  uid,          \* the uid the blacklist call under way has looked up
  since,        \* history: what synced was when it was looked up
  asked,        \* history: the epoch at which the last sync was submitted
  synced,       \* history: the epoch at which the last successful sync was submitted
  faults        \* the faults this behaviour is subject to; never changes

metagraph == <<permits, hotkeys>>
threadVars == <<syncs, worker, reading, future>>
loopVars == <<loop, should_exit, asked, synced>>
storeVars == <<configs, turn>>
requestVars == <<request, uid, since>>
envVars == <<settings, chain, faults>>
vars == <<envVars, epoch, metagraph, threadVars, loopVars, storeVars, requestVars>>

TypeOK ==
  /\ settings \in Settings
  /\ chain \in Histories
  /\ epoch \in DOMAIN chain
  /\ permits \in DOMAIN chain /\ hotkeys \in DOMAIN chain
  /\ loop \in {"start", "banner", "sleep", "wait", "crashed", "stopped", "gone"}
  /\ should_exit \in BOOLEAN
  /\ syncs \in Seq(DOMAIN chain)
  /\ worker \in {"idle", "reads", "permits", "hotkeys", "hung"}
  /\ reading \in DOMAIN chain
  /\ future \in {"pending", "done", "timeout", "error"}
  /\ configs \in Seq(Files)
  /\ turn \in Nat
  /\ request \in [Hotkeys -> {"none", "listed", "found", "accepted"}]
  /\ uid \in UIDs \union {None}
  /\ since \in DOMAIN chain
  /\ asked \in DOMAIN chain /\ synced \in DOMAIN chain
  /\ faults \in FaultModels

Init ==
  /\ settings \in Settings /\ chain \in Histories /\ faults \in FaultModels
  /\ epoch = 1 /\ permits = 1 /\ hotkeys = 1 /\ reading = 1 /\ asked = 1 /\ synced = 1
  /\ loop = "start" /\ should_exit = FALSE
  /\ syncs = <<>> /\ worker = "idle" /\ future = "done"
  /\ configs = <<>> /\ turn = 0
  /\ request = [c \in Hotkeys |-> "none"] /\ uid = None /\ since = 1

\* Permits are granted and withdrawn, uids given to other hotkeys.
ChainMoves ==
  /\ epoch + 1 \in DOMAIN chain
  /\ epoch' = epoch + 1
  /\ UNCHANGED <<envVars, metagraph, threadVars, loopVars, storeVars, requestVars>>

-----------------------------------------------------------------------------
(***************************************************************************)
(* Start.  The metagraph's constructor syncs it; the axon serves before    *)
(* the banner is fetched.                                                  *)
(***************************************************************************)

\* The settings with which __init__ raises before it serves.
Unusable ==
  \/ settings.testlab /\ settings.mainnet
  \/ ~ settings.directory
  \/ ~ settings.address

Refuse ==
  /\ loop = "start" /\ Unusable
  /\ loop' = "gone"
  /\ UNCHANGED <<envVars, epoch, metagraph, threadVars, should_exit, asked, synced, storeVars, requestVars>>

\* The orders random.shuffle leaves the loaded files in.
Shuffled(S) ==
  {s \in [1 .. Cardinality(S) -> S] : \A i, j \in DOMAIN s : s[i] = s[j] => i = j}

Serve ==
  /\ loop = "start" /\ ~ Unusable
  /\ permits' = epoch /\ hotkeys' = epoch /\ synced' = epoch
  /\ configs' \in Shuffled(settings.valid)
  /\ loop' = "banner"
  /\ UNCHANGED <<envVars, epoch, threadVars, should_exit, asked, turn, requestVars>>

\* Only CentralAPIError is caught: a reply that is no JSON, or lacks the
\* address, escapes from __init__.
Banner ==
  /\ loop = "banner"
  /\ loop' \in {"sleep"} \union IF "banner" \in faults THEN {"crashed"} ELSE {}
  /\ UNCHANGED <<envVars, epoch, metagraph, threadVars, should_exit, asked, synced, storeVars, requestVars>>

-----------------------------------------------------------------------------
(***************************************************************************)
(* The loop of `run`.                                                      *)
(***************************************************************************)

\* A signal handler runs between two steps of the main thread.
Signal ==
  /\ loop \in {"sleep", "wait"} /\ ~ should_exit
  /\ should_exit' = TRUE
  /\ UNCHANGED <<envVars, epoch, metagraph, threadVars, loop, asked, synced, storeVars, requestVars>>

\* The sleep is over: another sync is queued, behind those still running.
Submit ==
  /\ loop = "sleep" /\ Len(syncs) < MaxPending
  /\ syncs' = Append(syncs, epoch)
  /\ future' = "pending" /\ asked' = epoch
  /\ loop' = "wait"
  /\ UNCHANGED <<envVars, epoch, metagraph, worker, reading, should_exit, synced, storeVars, requestVars>>

\* The end of a round; `while not self.should_exit`, then axon.stop.
NextRound == IF should_exit THEN "stopped" ELSE "sleep"

\* Variant: the round does not wait for the future.
SyncNotAwaited ==
  /\ loop = "wait" /\ future # "error"
  /\ synced' = asked
  /\ loop' = NextRound
  /\ UNCHANGED <<envVars, epoch, metagraph, threadVars, should_exit, asked, storeVars, requestVars>>

\* future.result returns: the sync this round submitted is done.
SyncSucceeds ==
  /\ loop = "wait" /\ future = "done"
  /\ synced' = asked
  /\ loop' = NextRound
  /\ UNCHANGED <<envVars, epoch, metagraph, threadVars, should_exit, asked, storeVars, requestVars>>

\* The wait is over before the sync, or the sync itself raised TimeoutError,
\* which from Python 3.11 on is the same class: the round is skipped.
SyncTimesOut ==
  /\ loop = "wait" /\ future \in {"pending", "timeout"}
  /\ loop' = NextRound
  /\ UNCHANGED <<envVars, epoch, metagraph, threadVars, should_exit, asked, synced, storeVars, requestVars>>

\* Any other exception of the sync leaves `run` with neither shutdown nor stop.
SyncRaises ==
  /\ loop = "wait" /\ future = "error"
  /\ loop' = "crashed"
  /\ UNCHANGED <<envVars, epoch, metagraph, threadVars, should_exit, asked, synced, storeVars, requestVars>>

\* The interpreter exits once the executor's thread has run what is queued
\* (shutdown cancels no future).
Exit ==
  /\ loop \in {"stopped", "crashed"}
  /\ syncs = <<>> /\ worker = "idle"
  /\ loop' = "gone"
  /\ UNCHANGED <<envVars, epoch, metagraph, threadVars, should_exit, asked, synced, storeVars, requestVars>>

-----------------------------------------------------------------------------
(***************************************************************************)
(* The executor's only thread: metagraph.sync reads the neurons of one     *)
(* block, then writes validator_permit and then the axons.                 *)
(***************************************************************************)

Take ==
  /\ worker = "idle" /\ syncs # <<>>
  /\ syncs' = Tail(syncs)
  /\ worker' = "reads"
  /\ UNCHANGED <<envVars, epoch, metagraph, reading, future, loopVars, storeVars, requestVars>>

Read ==
  /\ worker = "reads"
  /\ reading' = epoch
  /\ worker' = "permits"
  /\ UNCHANGED <<envVars, epoch, metagraph, syncs, future, loopVars, storeVars, requestVars>>

WritePermits ==
  /\ worker = "permits"
  /\ permits' = reading
  /\ worker' = "hotkeys"
  /\ UNCHANGED <<envVars, epoch, hotkeys, syncs, reading, future, loopVars, storeVars, requestVars>>

\* Variant: a sync that raises ends the executor's thread.
SettleOrDie(result) ==
  /\ worker' = IF result = "done" THEN "idle" ELSE "hung"
  /\ future' = IF syncs = <<>> THEN result ELSE future

\* The sync is over with the given result.  The loop waits, if it does, for
\* the last sync submitted, which is this one when the queue is empty.
Settle(result) ==
  /\ worker' = "idle"
  /\ future' = IF syncs = <<>> THEN result ELSE future

WriteHotkeys ==
  /\ worker = "hotkeys"
  /\ hotkeys' = reading
  /\ Settle("done")
  /\ UNCHANGED <<envVars, epoch, permits, syncs, reading, loopVars, storeVars, requestVars>>

\* The chain endpoint does not answer, in time or at all.
SyncFails ==
  /\ worker = "reads"
  /\ \/ \E result \in {"timeout", "error"} \intersect faults : Settle(result)
     \/ "hang" \in faults /\ worker' = "hung" /\ UNCHANGED future
  /\ UNCHANGED <<envVars, epoch, metagraph, syncs, reading, loopVars, storeVars, requestVars>>

-----------------------------------------------------------------------------
(***************************************************************************)
(* The axon.  One event loop runs blacklist and forward, neither of which  *)
(* awaits: other requests come between the two, the worker's writes        *)
(* between any two readings of the metagraph.  Requests of other types are *)
(* all refused (blacklist_any) and have no effect.                         *)
(***************************************************************************)

Answering == loop \in {"banner", "sleep", "wait", "crashed"}

\* No blacklist call is under way.
EventLoopFree == \A c \in Hotkeys : request[c] \notin {"listed", "found"}

Goes(c, at) == request' = [request EXCEPT ![c] = at]

Owns(c, u, e) == chain[e].owner[u] = c

Registered(c) == \E u \in UIDs : Owns(c, u, hotkeys)

\* `caller not in self.metagraph.hotkeys` ends the request.
Blacklist(c) ==
  /\ Answering /\ EventLoopFree /\ request[c] = "none"
  /\ Registered(c)
  /\ Goes(c, "listed")
  /\ UNCHANGED <<envVars, epoch, metagraph, threadVars, loopVars, storeVars, uid, since>>

\* Variant: a caller that is gone since has uid -1, as in `forward`.
LookUpMissing(c) ==
  /\ Answering /\ request[c] = "listed"
  /\ Goes(c, "found")
  /\ IF Registered(c) THEN \E u \in UIDs : Owns(c, u, hotkeys) /\ uid' = u ELSE uid' = -1
  /\ since' = synced
  /\ UNCHANGED <<envVars, epoch, metagraph, threadVars, loopVars, storeVars>>

\* hotkeys.index raises if the caller is gone since: the request fails.
LookUpUID(c) ==
  /\ Answering /\ request[c] = "listed"
  /\ IF Registered(c)
     THEN /\ \E u \in UIDs : Owns(c, u, hotkeys) /\ uid' = u
          /\ since' = synced
          /\ Goes(c, "found")
     ELSE Goes(c, "none") /\ UNCHANGED <<uid, since>>
  /\ UNCHANGED <<envVars, epoch, metagraph, threadVars, loopVars, storeVars>>

\* Variant: TESTLAB_MODE is checked the wrong way round.
CheckNoPermit(c) ==
  /\ Answering /\ request[c] = "found"
  /\ Goes(c, IF ~ settings.testlab \/ chain[permits].permit[uid] THEN "accepted" ELSE "none")
  /\ uid' = None /\ since' = 1
  /\ UNCHANGED <<envVars, epoch, metagraph, threadVars, loopVars, storeVars>>

CheckPermit(c) ==
  /\ Answering /\ request[c] = "found"
  /\ Goes(c, IF settings.testlab \/ chain[permits].permit[uid] THEN "accepted" ELSE "none")
  /\ uid' = None /\ since' = 1
  /\ UNCHANGED <<envVars, epoch, metagraph, threadVars, loopVars, storeVars>>

\* ConfigStore.next: the configs in turn, for ever.
Deal == turn' = (IF configs = <<>> THEN turn ELSE turn + 1) /\ UNCHANGED configs

\* The config dealt goes out under a work id of its own, signed if the wallet
\* can; without configs the synapse goes back as it came.
Forward(c) ==
  /\ Answering /\ EventLoopFree /\ request[c] = "accepted"
  /\ turn < MaxAnswers
  /\ Deal
  /\ Goes(c, "none")
  /\ UNCHANGED <<envVars, epoch, metagraph, threadVars, loopVars, uid, since>>

-----------------------------------------------------------------------------
Start == Refuse \/ Serve \/ Banner

Run == Submit \/ SyncSucceeds \/ SyncTimesOut \/ SyncRaises \/ Exit

Worker == Take \/ Read \/ WritePermits \/ WriteHotkeys

Answer(c) == Blacklist(c) \/ LookUpUID(c) \/ CheckPermit(c) \/ Forward(c)

Next ==
  \/ ChainMoves \/ Start \/ Signal \/ Run \/ Worker \/ SyncFails
  \/ \E c \in Hotkeys : Answer(c)

(***************************************************************************)
(* The main thread runs on, and so does the worker; a sync that is tried   *)
(* again and again succeeds in the end, unless it hangs.                   *)
(***************************************************************************)
Spec ==
  /\ Init /\ [][Next]_vars
  /\ WF_vars(Start) /\ WF_vars(Run) /\ WF_vars(Worker) /\ SF_vars(Read)

-----------------------------------------------------------------------------
(***************************************************************************)
(* Properties.                                                             *)
(***************************************************************************)

(***************************************************************************)
(* When the loop takes a sync for successful, the whole metagraph is as    *)
(* new as the chain was when that sync was submitted, although earlier     *)
(* syncs that timed out may still be running and writing.                  *)
(***************************************************************************)
SyncedIsFresh == permits >= synced /\ hotkeys >= synced

(***************************************************************************)
(* A caller that blacklist accepts owned a uid, and that uid held a        *)
(* validator permit, each at some time since the last sync that had been   *)
(* successful when it was read was submitted.  The two times may differ,   *)
(* as the worker writes between the readings: the new owner of a uid may   *)
(* be accepted for the permit of the old one.  Only a miner in             *)
(* TESTLAB_MODE, which does not start on mainnet, accepts anyone else.     *)
(***************************************************************************)
AcceptedHeldPermit ==
  [][\A c \in Hotkeys :
       /\ request[c] # "accepted" /\ request'[c] = "accepted"
       /\ settings.mainnet \/ ~ settings.testlab
       => \E u \in UIDs, owned \in since .. epoch, permitted \in synced .. epoch :
            Owns(c, u, owned) /\ chain[permitted].permit[u]]_vars

(***************************************************************************)
(* After a change of the chain the miner's metagraph catches up, however   *)
(* often syncs time out, unless one of them raised something else.         *)
(***************************************************************************)
MetagraphCatchesUp ==
  "hang" \notin faults /\ <>[](loop \in {"sleep", "wait"}) =>
    <>[](permits = epoch /\ hotkeys = epoch)

=============================================================================
