---------------------------- MODULE MinerProofs ----------------------------
(***************************************************************************)
(* Proofs about MinerServing for any subnet, any history of the chain, any *)
(* settings, any number of syncs waiting and every set of faults.          *)
(***************************************************************************)
EXTENDS MinerServing, FiniteSetTheorems, SequenceTheorems, TLAPS

(***************************************************************************)
(* The inductive invariant.                                                *)
(***************************************************************************)

\* Nothing runs before the axon serves, and it serves only usable settings.
StartInv ==
  /\ loop \in {"start", "banner"} => worker = "idle" /\ syncs = <<>>
  /\ loop \notin {"start", "gone"} => ~ Unusable

\* Nothing is newer than the chain.
EpochInv == permits <= epoch /\ hotkeys <= epoch /\ asked <= epoch

\* A sync under way writes nothing older than what it writes over, and the
\* last one submitted nothing older than the chain was at that time.
WorkerInv ==
  worker \in {"permits", "hotkeys"} =>
    /\ reading >= permits /\ reading >= hotkeys /\ reading <= epoch
    /\ syncs = <<>> => reading >= asked
    /\ worker = "hotkeys" => permits = reading

\* The future is done only when the sync it stands for is.
FutureInv == loop = "wait" /\ future = "done" => permits >= asked /\ hotkeys >= asked

UnderWay(c) == request[c] \in {"listed", "found"}

\* One blacklist call at a time is under way, and the uid was its caller's.
RequestInv ==
  /\ \A c, d \in Hotkeys : UnderWay(c) /\ UnderWay(d) => c = d
  /\ \A c \in Hotkeys : request[c] = "found" =>
       uid \in UIDs /\ \E e \in since .. epoch : Owns(c, uid, e)

IInv ==
  /\ TypeOK /\ StartInv /\ EpochInv /\ WorkerInv /\ FutureInv /\ SyncedIsFresh /\ RequestInv

-----------------------------------------------------------------------------
\* The epochs of a history are numbered from one on.
LEMMA EpochsCounted ==
  ASSUME chain \in Histories
  PROVE  /\ chain \in Seq([owner : [UIDs -> Hotkeys \union {None}], permit : [UIDs -> BOOLEAN]])
         /\ 1 \in DOMAIN chain /\ DOMAIN chain = 1 .. Len(chain) /\ Len(chain) \in Nat
<1>1. chain \in Seq([owner : [UIDs -> Hotkeys \union {None}], permit : [UIDs -> BOOLEAN]]) /\ chain # <<>>
  BY MinerAssumption
<1> QED
  BY <1>1

\* A shuffled set of files is a sequence of them.
LEMMA ShuffledTyped ==
  ASSUME NEW S \in SUBSET Files, NEW s \in Shuffled(S)
  PROVE  s \in Seq(Files)
<1>1. IsFiniteSet(S)
  BY MinerAssumption, FS_Subset
<1>2. Cardinality(S) \in Nat
  BY <1>1, FS_CardinalityType
<1>3. s \in [1 .. Cardinality(S) -> S]
  BY DEF Shuffled
<1> QED
  BY <1>2, <1>3

LEMMA EnvStep == [Next]_vars => envVars' = envVars
BY DEF vars, Next, ChainMoves, Start, Refuse, Serve, Banner, Signal, Run, Submit, SyncSucceeds, SyncTimesOut,
       SyncRaises, Exit, Worker, Take, Read, WritePermits, WriteHotkeys, SyncFails, Answer, Blacklist, LookUpUID,
       CheckPermit, Forward, envVars

(***************************************************************************)
(* Every step keeps the types.                                             *)
(***************************************************************************)

LEMMA TypeStep == TypeOK /\ [Next]_vars => TypeOK'
<1> SUFFICES ASSUME TypeOK, [Next]_vars PROVE TypeOK'
  OBVIOUS
<1>e. settings' = settings /\ chain' = chain /\ faults' = faults
  BY EnvStep DEF envVars
<1>d. /\ DOMAIN chain = 1 .. Len(chain) /\ Len(chain) \in Nat
      /\ epoch \in DOMAIN chain /\ settings.valid \in SUBSET Files
  BY EpochsCounted, MinerAssumption DEF TypeOK
<1>1. CASE ChainMoves
  BY <1>1, <1>e DEF ChainMoves, TypeOK, metagraph, threadVars, loopVars, storeVars, requestVars
<1>2. CASE Refuse \/ Banner
  <2>1. loop' \in {"gone", "sleep", "crashed"}
    BY <1>2 DEF Refuse, Banner
  <2> QED
    BY <1>2, <2>1, <1>e DEF Refuse, Banner, TypeOK, metagraph, threadVars, storeVars, requestVars
<1>3. CASE Serve
  <2>1. configs' \in Seq(Files)
    BY <1>3, <1>d, ShuffledTyped DEF Serve
  <2> QED
    BY <1>3, <2>1, <1>e DEF Serve, TypeOK, threadVars, requestVars
<1>4. CASE Signal
  BY <1>4, <1>e DEF Signal, TypeOK, metagraph, threadVars, storeVars, requestVars
<1>5. CASE Submit
  BY <1>5, <1>e DEF Submit, TypeOK, metagraph, storeVars, requestVars
<1>6. CASE SyncSucceeds \/ SyncTimesOut \/ SyncRaises \/ Exit
  <2>1. loop' \in {"stopped", "sleep", "crashed", "gone"}
    BY <1>6 DEF SyncSucceeds, SyncTimesOut, SyncRaises, Exit, NextRound
  <2>2. synced' \in DOMAIN chain
    BY <1>6 DEF SyncSucceeds, SyncTimesOut, SyncRaises, Exit, TypeOK
  <2> QED
    BY <1>6, <2>1, <2>2, <1>e
    DEF SyncSucceeds, SyncTimesOut, SyncRaises, Exit, TypeOK, metagraph, threadVars, storeVars, requestVars
<1>7. CASE Take \/ Read \/ WritePermits
  <2>1. syncs' \in Seq(DOMAIN chain)
    <3>1. syncs' = syncs \/ (syncs # <<>> /\ syncs' = Tail(syncs))
      BY <1>7 DEF Take, Read, WritePermits
    <3>2. syncs \in Seq(DOMAIN chain)
      BY DEF TypeOK
    <3> QED
      BY <3>1, <3>2, HeadTailProperties
  <2>2. reading' \in DOMAIN chain /\ permits' \in DOMAIN chain /\ hotkeys' \in DOMAIN chain
    BY <1>7 DEF Take, Read, WritePermits, TypeOK, metagraph
  <2>3. worker' \in {"reads", "permits", "hotkeys"}
    BY <1>7 DEF Take, Read, WritePermits
  <2> QED
    BY <1>7, <2>1, <2>2, <2>3, <1>e DEF Take, Read, WritePermits, TypeOK, loopVars, storeVars, requestVars
<1>8. CASE WriteHotkeys
  BY <1>8, <1>e DEF WriteHotkeys, Settle, TypeOK, loopVars, storeVars, requestVars
<1>9. CASE SyncFails
  <2>1. future' \in {"pending", "done", "timeout", "error"} /\ worker' \in {"idle", "hung"}
    BY <1>9 DEF SyncFails, Settle, TypeOK
  <2> QED
    BY <1>9, <2>1, <1>e DEF SyncFails, TypeOK, metagraph, loopVars, storeVars, requestVars
<1>10. ASSUME NEW c \in Hotkeys, Answer(c) PROVE TypeOK'
  <2>1. request' \in [Hotkeys -> {"none", "listed", "found", "accepted"}]
    BY <1>10 DEF Answer, Blacklist, LookUpUID, CheckPermit, Forward, Goes, TypeOK
  <2>2. uid' \in UIDs \union {None} /\ since' \in DOMAIN chain
    BY <1>d, <1>10 DEF Answer, Blacklist, LookUpUID, CheckPermit, Forward, TypeOK
  <2>3. configs' = configs /\ turn' \in Nat
    BY <1>10 DEF Answer, Blacklist, LookUpUID, CheckPermit, Forward, Deal, TypeOK, storeVars
  <2> QED
    BY <1>10, <2>1, <2>2, <2>3, <1>e
    DEF Answer, Blacklist, LookUpUID, CheckPermit, Forward, TypeOK, metagraph, threadVars, loopVars
<1>11. CASE UNCHANGED vars
  BY <1>11 DEF vars, TypeOK, envVars, metagraph, threadVars, loopVars, storeVars, requestVars
<1> QED
  BY <1>1, <1>2, <1>3, <1>4, <1>5, <1>6, <1>7, <1>8, <1>9, <1>10, <1>11 DEF Next, Start, Run, Worker

-----------------------------------------------------------------------------
(***************************************************************************)
(* The metagraph: syncs run one after the other, and each reads the chain  *)
(* after it was submitted.                                                 *)
(***************************************************************************)

LEMMA StartStep == TypeOK /\ StartInv /\ [Next]_vars => StartInv'
<1> SUFFICES ASSUME TypeOK, StartInv, [Next]_vars PROVE StartInv'
  OBVIOUS
<1>1. Unusable' <=> Unusable
  BY EnvStep DEF envVars, Unusable
<1>2. loop' \notin {"start", "gone"} => ~ Unusable
  BY DEF StartInv, Next, vars, ChainMoves, Start, Refuse, Serve, Banner, Signal, Run, Submit, SyncSucceeds,
         SyncTimesOut, SyncRaises, Exit, NextRound, Worker, Take, Read, WritePermits, WriteHotkeys, SyncFails,
         Answer, Blacklist, LookUpUID, CheckPermit, Forward, loopVars
<1>3. loop' \in {"start", "banner"} => worker' = "idle" /\ syncs' = <<>>
  BY DEF StartInv, Next, vars, ChainMoves, Start, Refuse, Serve, Banner, Signal, Run, Submit, SyncSucceeds,
         SyncTimesOut, SyncRaises, Exit, NextRound, Worker, Take, Read, WritePermits, WriteHotkeys, SyncFails,
         Answer, Blacklist, LookUpUID, CheckPermit, Forward, loopVars, threadVars
<1> QED
  BY <1>1, <1>2, <1>3 DEF StartInv

FreshInv == EpochInv /\ WorkerInv /\ FutureInv /\ SyncedIsFresh

LEMMA FreshStep == TypeOK /\ StartInv /\ FreshInv /\ [Next]_vars => FreshInv'
<1> SUFFICES ASSUME TypeOK, StartInv, FreshInv, [Next]_vars PROVE FreshInv'
  OBVIOUS
<1>d. /\ epoch \in Int /\ permits \in Int /\ hotkeys \in Int /\ reading \in Int /\ asked \in Int
      /\ synced \in Int /\ epoch >= 1 /\ syncs \in Seq(DOMAIN chain)
      /\ asked >= 1
  BY EpochsCounted DEF TypeOK
<1> USE <1>d DEF FreshInv, EpochInv, WorkerInv, FutureInv, SyncedIsFresh
<1>1. CASE ChainMoves
  BY <1>1 DEF ChainMoves, metagraph, threadVars, loopVars
<1>2. CASE Refuse \/ Banner
  BY <1>2 DEF Refuse, Banner, metagraph, threadVars
<1>3. CASE Serve
  BY <1>3 DEF Serve, threadVars, StartInv
<1>4. CASE Signal
  BY <1>4 DEF Signal, metagraph, threadVars
<1>5. CASE Submit
  <2>1. syncs' # <<>>
    BY <1>5 DEF Submit
  <2> QED
    BY <1>5, <2>1 DEF Submit, metagraph
<1>6. CASE SyncSucceeds \/ SyncTimesOut \/ SyncRaises \/ Exit
  BY <1>6 DEF SyncSucceeds, SyncTimesOut, SyncRaises, Exit, NextRound, metagraph, threadVars
<1>7. CASE Take \/ Read \/ WritePermits
  BY <1>7 DEF Take, Read, WritePermits, metagraph, loopVars
<1>8. CASE WriteHotkeys
  BY <1>8 DEF WriteHotkeys, Settle, loopVars
<1>9. CASE SyncFails
  <2>1. worker' \in {"idle", "hung"} /\ (future' = "done" => future = "done")
    BY <1>9, MinerAssumption DEF SyncFails, Settle
  <2> QED
    BY <1>9, <2>1 DEF SyncFails, metagraph, loopVars
<1>10. CASE \E c \in Hotkeys : Answer(c)
  BY <1>10 DEF Answer, Blacklist, LookUpUID, CheckPermit, Forward, metagraph, threadVars, loopVars
<1>11. CASE UNCHANGED vars
  BY <1>11 DEF vars, metagraph, threadVars, loopVars
<1> QED
  BY <1>1, <1>2, <1>3, <1>4, <1>5, <1>6, <1>7, <1>8, <1>9, <1>10, <1>11 DEF Next, Start, Run, Worker

-----------------------------------------------------------------------------
(***************************************************************************)
(* The requests.                                                           *)
(***************************************************************************)

LEMMA RequestStep == TypeOK /\ FreshInv /\ RequestInv /\ [Next]_vars => RequestInv'
<1> SUFFICES ASSUME TypeOK, FreshInv, RequestInv, [Next]_vars PROVE RequestInv'
  OBVIOUS
<1>e. chain' = chain
  BY EnvStep DEF envVars
<1>t. /\ request \in [Hotkeys -> {"none", "listed", "found", "accepted"}]
      /\ hotkeys \in synced .. epoch /\ since \in Int /\ epoch \in Int
  BY EpochsCounted DEF TypeOK, FreshInv, EpochInv, SyncedIsFresh
<1>1. CASE requestVars' = requestVars
  <2>1. request' = request /\ uid' = uid /\ since' = since
    BY <1>1 DEF requestVars
  <2>2. epoch' \in Int /\ epoch' >= epoch
    BY <1>t DEF Next, vars, ChainMoves, Start, Refuse, Serve, Banner, Signal, Run, Submit, SyncSucceeds, SyncTimesOut,
       SyncRaises, Exit, Worker, Take, Read, WritePermits, WriteHotkeys, SyncFails, Answer, Blacklist, LookUpUID,
       CheckPermit, Forward
  <2>3. since .. epoch \subseteq since' .. epoch'
    BY <2>1, <2>2, <1>t
  <2> QED
    BY <2>1, <2>3, <1>e DEF RequestInv, UnderWay, Owns
<1>2. ASSUME NEW c \in Hotkeys, Blacklist(c) PROVE RequestInv'
  <2>1. request' = [request EXCEPT ![c] = "listed"] /\ UNCHANGED <<uid, since, epoch>>
        /\ \A d \in Hotkeys : request[d] \notin {"listed", "found"}
    BY <1>2 DEF Blacklist, Goes, EventLoopFree
  <2> QED
    BY <2>1, <1>e, <1>t DEF RequestInv, UnderWay
<1>3. ASSUME NEW c \in Hotkeys, LookUpUID(c) PROVE RequestInv'
  <2>0. epoch' = epoch
    BY <1>3 DEF LookUpUID
  <2>1. CASE request' = [request EXCEPT ![c] = "none"] /\ UNCHANGED <<uid, since>>
    BY <2>0, <2>1, <1>e, <1>t DEF RequestInv, UnderWay, Owns
  <2>2. ASSUME NEW u \in UIDs, Owns(c, u, hotkeys), uid' = u, since' = synced,
               request' = [request EXCEPT ![c] = "found"]
        PROVE  RequestInv'
    <3>1. \E e \in since' .. epoch' : Owns(c, uid', e)
      BY <2>0, <2>2, <1>t
    <3>2. UnderWay(c)
      BY <1>3 DEF LookUpUID, UnderWay
    <3>3. \A d \in Hotkeys : UnderWay(d) => d = c
      BY <3>2 DEF RequestInv
    <3> QED
      BY <2>0, <2>2, <3>1, <3>3, <1>e, <1>t DEF RequestInv, UnderWay, Owns
  <2> QED
    BY <1>3, <2>1, <2>2 DEF LookUpUID, Goes
<1>4. ASSUME NEW c \in Hotkeys, CheckPermit(c) PROVE RequestInv'
  <2>1. request' = [request EXCEPT ![c] = "accepted"] \/ request' = [request EXCEPT ![c] = "none"]
    BY <1>4 DEF CheckPermit, Goes
  <2>2. UnderWay(c)
    BY <1>4 DEF CheckPermit, UnderWay
  <2>3. \A d \in Hotkeys : request'[d] \notin {"listed", "found"}
    BY <2>1, <2>2, <1>t DEF RequestInv, UnderWay
  <2> QED
    BY <2>3 DEF RequestInv, UnderWay
<1>5. ASSUME NEW c \in Hotkeys, Forward(c) PROVE RequestInv'
  <2>1. request' = [request EXCEPT ![c] = "none"] /\ UNCHANGED <<uid, since, epoch>>
    BY <1>5 DEF Forward, Goes
  <2> QED
    BY <2>1, <1>e, <1>t DEF RequestInv, UnderWay, Owns
<1> QED
  BY <1>1, <1>2, <1>3, <1>4, <1>5
  DEF Next, vars, ChainMoves, Start, Refuse, Serve, Banner, Signal, Run, Submit, SyncSucceeds,
      SyncTimesOut, SyncRaises, Exit, Worker, Take, Read, WritePermits, WriteHotkeys, SyncFails, Answer

-----------------------------------------------------------------------------
(***************************************************************************)
(* The theorems.                                                           *)
(***************************************************************************)

THEOREM Invariance == Spec => []IInv
<1>1. Init => IInv
  <2> SUFFICES ASSUME Init PROVE IInv
    OBVIOUS
  <2>1. TypeOK
    <3>1. should_exit \in BOOLEAN /\ syncs \in Seq(DOMAIN chain) /\ configs \in Seq(Files)
      <4>1. should_exit \in BOOLEAN
        BY Zenon DEF Init
      <4>2. syncs = <<>> /\ configs = <<>>
        BY DEF Init
      <4> QED
        BY <4>1, <4>2, EmptySeq
    <3>2. 1 \in DOMAIN chain
      BY EpochsCounted DEF Init
    <3>3. request \in [Hotkeys -> {"none", "listed", "found", "accepted"}] /\ uid \in UIDs \union {None}
      BY DEF Init
    <3>4. /\ epoch \in DOMAIN chain /\ permits \in DOMAIN chain /\ hotkeys \in DOMAIN chain
          /\ reading \in DOMAIN chain /\ asked \in DOMAIN chain /\ synced \in DOMAIN chain
          /\ since \in DOMAIN chain /\ turn \in Nat
      BY <3>2 DEF Init
    <3>5. /\ settings \in Settings /\ chain \in Histories /\ faults \in FaultModels
          /\ loop = "start" /\ worker = "idle" /\ future = "done"
      BY DEF Init
    <3> QED
      BY <3>1, <3>3, <3>4, <3>5 DEF TypeOK
  <2> QED
    BY <2>1 DEF Init, IInv, StartInv, EpochInv, WorkerInv, FutureInv, SyncedIsFresh, RequestInv, UnderWay
<1>2. IInv /\ [Next]_vars => IInv'
  BY TypeStep, StartStep, FreshStep, RequestStep DEF IInv, FreshInv
<1> QED
  BY <1>1, <1>2, PTL DEF Spec

(***************************************************************************)
(* Every variable keeps its type.                                          *)
(***************************************************************************)
THEOREM TypeCorrect == Spec => []TypeOK
<1>1. IInv => TypeOK
  BY DEF IInv
<1> QED
  BY <1>1, Invariance, PTL

(***************************************************************************)
(* Once the loop takes a sync for successful the whole metagraph is as new *)
(* as the chain was when that sync was submitted, however many syncs that  *)
(* timed out were still waiting: the one thread runs them in order.        *)
(***************************************************************************)
THEOREM SyncedStaysFresh == Spec => []SyncedIsFresh
<1>1. IInv => SyncedIsFresh
  BY DEF IInv
<1> QED
  BY <1>1, Invariance, PTL

(***************************************************************************)
(* Whoever the blacklist accepts owned a uid, and that uid held a          *)
(* validator permit, each since the last sync that had been successful     *)
(* when it was read, however the worker's writes come between the two      *)
(* readings and uids change hands.                                         *)
(***************************************************************************)
THEOREM OnlyPermittedAccepted == Spec => AcceptedHeldPermit
<1> DEFINE Held(c) == \E u \in UIDs, owned \in since .. epoch, permitted \in synced .. epoch :
                        Owns(c, u, owned) /\ chain[permitted].permit[u]
           Obliged(c) == /\ request[c] # "accepted" /\ request'[c] = "accepted"
                         /\ settings.mainnet \/ ~ settings.testlab
           Kept == \A c \in Hotkeys : Obliged(c) => Held(c)
<1>1. IInv /\ [Next]_vars => [Kept]_vars
  <2> SUFFICES ASSUME IInv, Next, NEW c \in Hotkeys, Obliged(c) PROVE Held(c)
    OBVIOUS
  <2>t. /\ request \in [Hotkeys -> {"none", "listed", "found", "accepted"}]
        /\ permits \in DOMAIN chain /\ permits \in Int /\ synced \in Int /\ epoch \in Int
    BY EpochsCounted DEF IInv, TypeOK
  <2>1. request' # request
    OBVIOUS
  <2>2. PICK d \in Hotkeys : Answer(d)
    BY <2>1 DEF Next, ChainMoves, Start, Refuse, Serve, Banner, Signal, Run, Submit, SyncSucceeds, SyncTimesOut,
       SyncRaises, Exit, Worker, Take, Read, WritePermits, WriteHotkeys, SyncFails, requestVars
  <2>3. CheckPermit(c) /\ request[c] = "found" /\ (settings.testlab \/ chain[permits].permit[uid])
    <3>1. CASE CheckPermit(d)
      BY <3>1, <2>t DEF CheckPermit, Goes
    <3>2. CASE Blacklist(d) \/ LookUpUID(d) \/ Forward(d)
      BY <3>2, <2>t DEF Blacklist, LookUpUID, Forward, Goes
    <3> QED
      BY <2>2, <3>1, <3>2 DEF Answer
  <2>4. ~ settings.testlab
    BY <2>3 DEF CheckPermit, Answering, IInv, StartInv, Unusable
  <2>5. uid \in UIDs /\ \E e \in since .. epoch : Owns(c, uid, e)
    BY <2>3 DEF IInv, RequestInv
  <2>6. permits \in synced .. epoch
    BY <2>t DEF IInv, SyncedIsFresh, EpochInv
  <2> QED
    BY <2>3, <2>4, <2>5, <2>6
<1>2. [][Kept]_vars => AcceptedHeldPermit
  BY PTL DEF AcceptedHeldPermit
<1> QED
  BY <1>1, <1>2, Invariance, PTL DEF Spec

=============================================================================
