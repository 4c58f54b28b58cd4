---------------------------- MODULE RunnerProofs ----------------------------
(***************************************************************************)
(* Proofs about SimulationRunner for any number of refill threads, any     *)
(* finite room on the Docker host, any pool size and every set of faults.  *)
(***************************************************************************)
EXTENDS SimulationRunner, FiniteSetTheorems, TLAPS

(***************************************************************************)
(* The inductive invariant: what each part of the service has listed       *)
(* exists, and is listed once.                                             *)
(***************************************************************************)

\* A container in a thread's hands is not pooled, active or an earlier
\* process's, no other thread has it, and the thread has room for it.
HeldInv ==
  /\ \A t \in Threads : held[t] # None =>
       /\ needed[t] > 0 /\ counted[t]
       /\ held[t] \in exists
       /\ held[t] \notin available \union active \union earlier
  /\ \A t, u \in Threads : t # u /\ held[t] = held[u] => held[t] = None

\* The active containers are the one of the simulation under way.
ActiveInv ==
  /\ loop \in {"wait", "collect"} => container # None /\ active = {container}
  /\ loop \notin {"wait", "collect"} => active = {}

ListedInv ==
  /\ available \subseteq exists /\ active \subseteq exists /\ earlier \subseteq exists
  /\ available \intersect active = {}
  /\ earlier \intersect (available \union active) = {}

\* A process that has not constructed its runner has no threads.
NoThreads ==
  /\ available = {}
  /\ \A t \in Threads : counted[t] /\ needed[t] = 0 /\ held[t] = None

StartInv == loop = "start" => NoThreads

\* Accounted container by container, without its converse, which ListedInv and
\* HeldInv give whether or not Docker fails.
Owned(c) ==
  \/ c \in available \/ c \in active \/ c \in earlier
  \/ \E t \in Threads : held[t] = c

OwnedInv ==
  faults \intersect {"outage", "start", "remove"} = {} => up /\ \A c \in exists : Owned(c)

IInv ==
  /\ TypeOK /\ HeldInv /\ ActiveInv /\ ListedInv /\ StartInv
  /\ PoolBounded /\ OwnedInv

-----------------------------------------------------------------------------
\* Cardinalities of sets of containers are numbers.
LEMMA CardinalityNat ==
  ASSUME NEW C \in SUBSET Containers
  PROVE  IsFiniteSet(C) /\ Cardinality(C) \in Nat
<1>1. IsFiniteSet(C)
  BY RunnerAssumption, FS_Subset
<1> QED
  BY <1>1, FS_CardinalityType

\* What is missing from a pool is a possible number of containers to create.
LEMMA MissingInRange ==
  ASSUME TypeOK
  PROVE  Max0(PoolSize - Cardinality(available)) \in 0..PoolSize
<1>1. Cardinality(available) \in Nat
  BY CardinalityNat DEF TypeOK
<1> QED
  BY <1>1, RunnerAssumption DEF Max0

\* One more container in the pool counts for one at most.
LEMMA OneMore ==
  ASSUME TypeOK, NEW c, Cardinality(available) < PoolSize
  PROVE  Cardinality(available \union {c}) <= PoolSize
<1>1. IsFiniteSet(available) /\ Cardinality(available) \in Nat
  BY CardinalityNat DEF TypeOK
<1>2. Cardinality(available \union {c}) \in {Cardinality(available), Cardinality(available) + 1}
  BY <1>1, FS_AddElement
<1> QED
  BY <1>1, <1>2, RunnerAssumption

-----------------------------------------------------------------------------
LEMMA TypeStep == TypeOK /\ HeldInv /\ ActiveInv /\ [Next]_vars => TypeOK'
<1> SUFFICES ASSUME TypeOK, HeldInv, ActiveInv, [Next]_vars PROVE TypeOK'
  OBVIOUS
<1> USE DEF TypeOK, daemon, pool, run, service
<1>1. ASSUME NEW t \in Threads, WarmCount(t) PROVE TypeOK'
  BY <1>1, MissingInRange DEF WarmCount
<1>2. ASSUME NEW t \in Threads, WarmCreate(t) PROVE TypeOK'
  BY <1>2 DEF WarmCreate, Creates
<1>3. ASSUME NEW t \in Threads, WarmFails(t) PROVE TypeOK'
  BY <1>3, RunnerAssumption DEF WarmFails
<1>4. ASSUME NEW t \in Threads, WarmKeep(t) PROVE TypeOK'
  <2>1. held[t] \in Containers /\ needed[t] - 1 \in 0..PoolSize /\ 0 \in 0..PoolSize
    BY <1>4, RunnerAssumption DEF WarmKeep, HeldInv
  <2>2. \A S \in Survivors({held[t]}) : S \subseteq Containers
    BY <2>1 DEF Survivors
  <2> QED
    BY <1>4, <2>1, <2>2 DEF WarmKeep
<1>5. CASE Construct
  BY <1>5 DEF Construct
<1>6. CASE ConstructFails \/ HealthCheck \/ Simulate \/ RunRefused \/ ContainerEnds \/ Exit \/ Outage
  BY <1>6 DEF ConstructFails, HealthCheck, Simulate, RunRefused, ContainerEnds, Exit, Outage
<1>7. CASE RunContainer \/ StartFails
  BY <1>7 DEF RunContainer, StartFails, Creates
<1>8. CASE TimesOut \/ OutputUnusable \/ OutputJudged
  <2>1. container \in Containers /\ RemoveContainer
    BY <1>8 DEF TimesOut, OutputUnusable, OutputJudged, ActiveInv
  <2>2. \A S \in Survivors({container}) : S \subseteq Containers
    BY <2>1 DEF Survivors
  <2>3. exists' \subseteq Containers /\ active' \subseteq Containers /\ container' = None
    BY <2>1, <2>2 DEF RemoveContainer
  <2> QED
    BY <1>8, <2>3 DEF TimesOut, OutputUnusable, OutputJudged
<1>9. CASE Close
  BY <1>9 DEF Close, Survivors
<1>10. CASE Restart \/ Crash
  <2>1. Forget /\ 0 \in 0..PoolSize
    BY <1>10, RunnerAssumption DEF Restart, Crash
  <2>2. counted' \in [Threads -> BOOLEAN] /\ held' \in [Threads -> Containers \union {None}]
    BY <2>1 DEF Forget
  <2>3. needed' \in [Threads -> 0..PoolSize]
    BY <2>1 DEF Forget
  <2> QED
    BY <2>1, <2>2, <2>3 DEF Forget
<1>11. CASE UNCHANGED vars
  BY <1>11 DEF vars
<1> QED
  BY <1>1, <1>2, <1>3, <1>4, <1>5, <1>6, <1>7, <1>8, <1>9, <1>10, <1>11
  DEF Next, Simulation, Warm

-----------------------------------------------------------------------------
(***************************************************************************)
(* What a removal leaves of the containers it was to remove.               *)
(***************************************************************************)
LEMMA RemovalOnlyRemoves ==
  ASSUME NEW C, NEW S \in Survivors(C)
  PROVE  /\ S \subseteq C
         /\ (~ ("remove" \in faults) /\ up => S = {})
BY DEF Survivors

\* A simulation's container is removed from Docker or left there, and is on no
\* list afterwards.
LEMMA RemoveEffect ==
  ASSUME TypeOK, ActiveInv, ListedInv, loop \in {"wait", "collect"}, RemoveContainer
  PROVE  /\ container \in active /\ active' = {} /\ container' = None
         /\ exists \ {container} \subseteq exists' /\ exists' \subseteq exists
<1>1. container # None /\ active = {container}
  BY DEF ActiveInv
<1>2. container \in exists
  BY <1>1 DEF ListedInv
<1>3. PICK S \in Survivors({container}) : exists' = (exists \ {container}) \union S
  BY DEF RemoveContainer
<1>4. S \subseteq {container}
  BY <1>3, RemovalOnlyRemoves
<1> QED
  BY <1>1, <1>2, <1>3, <1>4 DEF RemoveContainer

LEMMA HeldStep == IInv /\ [Next]_vars => HeldInv'
<1> SUFFICES ASSUME IInv, [Next]_vars PROVE HeldInv'
  OBVIOUS
<1> USE DEF TypeOK, IInv, HeldInv, daemon, pool, run, service
<1>1. ASSUME NEW t \in Threads, WarmCount(t) PROVE HeldInv'
  BY <1>1 DEF WarmCount
<1>2. ASSUME NEW t \in Threads, WarmCreate(t) PROVE HeldInv'
  <2>1. PICK c \in Containers \ exists :
          exists' = exists \union {c} /\ held' = [held EXCEPT ![t] = c]
    BY <1>2 DEF WarmCreate, Creates
  <2>2. c \notin available \union active \union earlier
    BY <2>1 DEF ListedInv
  <2>3. \A u \in Threads : held[u] # c
    BY <2>1, RunnerAssumption
  <2> QED
    BY <1>2, <2>1, <2>2, <2>3 DEF WarmCreate
<1>3. ASSUME NEW t \in Threads, WarmFails(t) PROVE HeldInv'
  BY <1>3 DEF WarmFails
<1>4. ASSUME NEW t \in Threads, WarmKeep(t) PROVE HeldInv'
  <2>1. \A u \in Threads \ {t} :
          /\ held'[u] = held[u] /\ needed'[u] = needed[u] /\ counted'[u] = counted[u]
          /\ held[u] # held[t]
    BY <1>4 DEF WarmKeep
  <2>2. held'[t] = None /\ active' = active /\ earlier' = earlier
    BY <1>4 DEF WarmKeep, run
  <2>3. available' \subseteq available \union {held[t]} /\ exists \ {held[t]} \subseteq exists'
    BY <1>4 DEF WarmKeep
  <2> QED
    BY <2>1, <2>2, <2>3
<1>5. CASE Construct
  <2>1. \A t \in Threads : held'[t] = None
    BY <1>5 DEF Construct, StartInv, NoThreads
  <2> QED
    BY <2>1
<1>6. CASE ConstructFails \/ HealthCheck \/ Simulate \/ RunRefused \/ ContainerEnds \/ Exit \/ Outage
  BY <1>6 DEF ConstructFails, HealthCheck, Simulate, RunRefused, ContainerEnds, Exit, Outage
<1>7. CASE RunContainer \/ StartFails
  <2>1. PICK c \in Containers \ exists :
          exists' = exists \union {c} /\ active' \subseteq active \union {c}
    BY <1>7 DEF RunContainer, StartFails, Creates, run
  <2>2. UNCHANGED <<held, needed, counted, available, earlier>>
    BY <1>7 DEF RunContainer, StartFails
  <2> QED
    BY <2>1, <2>2
<1>8. CASE TimesOut \/ OutputUnusable \/ OutputJudged
  <2>1. loop \in {"wait", "collect"} /\ RemoveContainer
    BY <1>8 DEF TimesOut, OutputUnusable, OutputJudged
  <2>2. /\ container \in active /\ active' = {}
        /\ exists \ {container} \subseteq exists'
    BY <2>1, RemoveEffect
  <2>3. UNCHANGED <<held, needed, available, earlier>>
    BY <1>8 DEF TimesOut, OutputUnusable, OutputJudged
  <2>4. \A t \in Threads : held[t] # None => counted'[t]
    <3>1. CASE TimesOut \/ OutputUnusable
      BY <3>1 DEF TimesOut, OutputUnusable
    <3>2. CASE OutputJudged
      BY <3>2, RunnerAssumption DEF OutputJudged, Alive
    <3> QED
      BY <1>8, <3>1, <3>2
  <2> QED
    BY <2>2, <2>3, <2>4
<1>9. CASE Close
  <2>1. exists \ (active \union available) \subseteq exists'
    BY <1>9 DEF Close
  <2>2. /\ UNCHANGED <<held, needed, counted, earlier>>
        /\ available' \subseteq available /\ active' \subseteq active
    BY <1>9 DEF Close
  <2> QED
    BY <2>1, <2>2
<1>10. CASE Restart \/ Crash
  <2>1. \A t \in Threads : held'[t] = None
    BY <1>10 DEF Restart, Crash, Forget
  <2> QED
    BY <2>1
<1>11. CASE UNCHANGED vars
  BY <1>11 DEF vars
<1> QED
  BY <1>1, <1>2, <1>3, <1>4, <1>5, <1>6, <1>7, <1>8, <1>9, <1>10, <1>11
  DEF Next, Simulation, Warm

LEMMA ActiveStep == IInv /\ [Next]_vars => ActiveInv'
<1> SUFFICES ASSUME IInv, [Next]_vars PROVE ActiveInv'
  OBVIOUS
<1> USE DEF TypeOK, IInv, ActiveInv, daemon, pool, run, service
<1>1. ASSUME NEW t \in Threads, Warm(t) PROVE ActiveInv'
  BY <1>1 DEF Warm, WarmCount, WarmCreate, WarmFails, WarmKeep
<1>2. CASE Construct \/ ConstructFails \/ HealthCheck \/ Simulate \/ ContainerEnds \/ Exit \/ Outage
  BY <1>2 DEF Construct, ConstructFails, HealthCheck, Simulate, ContainerEnds, Exit, Outage
<1>3. CASE RunContainer \/ RunRefused \/ StartFails
  BY <1>3, RunnerAssumption DEF RunContainer, RunRefused, StartFails, Creates
<1>4. CASE TimesOut \/ OutputUnusable \/ OutputJudged
  <2>1. loop \in {"wait", "collect"} /\ RemoveContainer /\ loop' = "cycle"
    BY <1>4 DEF TimesOut, OutputUnusable, OutputJudged
  <2> QED
    BY <2>1, RemoveEffect
<1>5. CASE Close
  BY <1>5 DEF Close
<1>6. CASE Restart \/ Crash
  BY <1>6 DEF Restart, Crash, Forget
<1>7. CASE UNCHANGED vars
  BY <1>7 DEF vars
<1> QED
  BY <1>1, <1>2, <1>3, <1>4, <1>5, <1>6, <1>7 DEF Next, Simulation

LEMMA ListedStep == IInv /\ [Next]_vars => ListedInv'
<1> SUFFICES ASSUME IInv, [Next]_vars PROVE ListedInv'
  OBVIOUS
<1> USE DEF TypeOK, IInv, ListedInv, daemon, pool, run, service
<1>1. ASSUME NEW t \in Threads, WarmCount(t) \/ WarmCreate(t) \/ WarmFails(t) PROVE ListedInv'
  BY <1>1 DEF WarmCount, WarmCreate, WarmFails
<1>2. ASSUME NEW t \in Threads, WarmKeep(t) PROVE ListedInv'
  <2>1. held[t] \in exists /\ held[t] \notin available \union active \union earlier
    BY <1>2 DEF WarmKeep, HeldInv
  <2>2. CASE available' = available \union {held[t]} /\ exists' = exists
    BY <1>2, <2>1, <2>2 DEF WarmKeep
  <2>3. CASE available' = available /\ exists \ {held[t]} \subseteq exists'
    BY <1>2, <2>1, <2>3 DEF WarmKeep
  <2> QED
    BY <1>2, <2>2, <2>3 DEF WarmKeep
<1>3. CASE Construct
  <2>1. loop = "start" /\ active = {} /\ available = {}
    BY <1>3 DEF Construct, ActiveInv, StartInv, NoThreads
  <2> QED
    BY <1>3, <2>1 DEF Construct
<1>4. CASE ConstructFails \/ HealthCheck \/ Simulate \/ RunRefused \/ ContainerEnds \/ Exit \/ Outage
  BY <1>4 DEF ConstructFails, HealthCheck, Simulate, RunRefused, ContainerEnds, Exit, Outage
<1>5. CASE RunContainer \/ StartFails
  BY <1>5 DEF RunContainer, StartFails, Creates
<1>6. CASE TimesOut \/ OutputUnusable \/ OutputJudged
  <2>1. loop \in {"wait", "collect"} /\ RemoveContainer /\ UNCHANGED <<available, earlier>>
    BY <1>6 DEF TimesOut, OutputUnusable, OutputJudged
  <2>2. container \in active /\ active' = {} /\ exists \ {container} \subseteq exists'
    BY <2>1, RemoveEffect
  <2> QED
    BY <2>1, <2>2
<1>7. CASE Close
  <2>1. exists \ (active \union available) \subseteq exists'
    BY <1>7 DEF Close
  <2>2. CASE ~ runner
    BY <1>7, <2>2 DEF Close
  <2>3. CASE runner
    BY <1>7, <2>1, <2>3 DEF Close
  <2> QED
    BY <2>2, <2>3
<1>8. CASE Restart \/ Crash
  BY <1>8 DEF Restart, Crash, Forget
<1>9. CASE UNCHANGED vars
  BY <1>9 DEF vars
<1> QED
  BY <1>1, <1>2, <1>3, <1>4, <1>5, <1>6, <1>7, <1>8, <1>9 DEF Next, Simulation, Warm

LEMMA StartStep == IInv /\ [Next]_vars => StartInv'
<1> SUFFICES ASSUME IInv, [Next]_vars, loop' = "start" PROVE NoThreads'
  BY DEF StartInv
<1> USE DEF TypeOK, IInv, StartInv, NoThreads, daemon, pool, run, service
<1>1. ASSUME NEW t \in Threads, Warm(t) PROVE NoThreads'
  <2>1. loop = "start"
    BY <1>1 DEF Warm, WarmCount, WarmCreate, WarmFails, WarmKeep
  <2> QED
    BY <1>1, <2>1 DEF Warm, WarmCount, WarmCreate, WarmFails, WarmKeep
<1>2. CASE Construct \/ ConstructFails \/ Simulate \/ Exit \/ Close \/ Simulation \/ ContainerEnds
  BY <1>2 DEF Construct, ConstructFails, Simulate, Exit, Close, Simulation, ContainerEnds,
    RunContainer, RunRefused, StartFails, TimesOut, OutputUnusable, OutputJudged
<1>3. CASE HealthCheck \/ Outage
  BY <1>3 DEF HealthCheck, Outage
<1>4. CASE Restart \/ Crash
  BY <1>4 DEF Restart, Crash, Forget
<1>5. CASE UNCHANGED vars
  BY <1>5 DEF vars
<1> QED
  BY <1>1, <1>2, <1>3, <1>4, <1>5 DEF Next

LEMMA PoolStep == IInv /\ [Next]_vars => PoolBounded'
<1> SUFFICES ASSUME IInv, [Next]_vars PROVE PoolBounded'
  OBVIOUS
<1> USE DEF IInv, PoolBounded, daemon, pool, run, service
<1>1. ASSUME NEW t \in Threads, WarmKeep(t) PROVE PoolBounded'
  BY <1>1, OneMore DEF WarmKeep
<1>2. ASSUME NEW t \in Threads, WarmCount(t) \/ WarmCreate(t) \/ WarmFails(t) PROVE PoolBounded'
  BY <1>2 DEF WarmCount, WarmCreate, WarmFails
<1>3. CASE Construct
  BY <1>3 DEF Construct
<1>4. CASE available' = {}
  BY <1>4, FS_EmptySet, RunnerAssumption
<1>5. CASE available' = available
  BY <1>5
<1>6. CASE ConstructFails \/ HealthCheck \/ Simulate \/ ContainerEnds \/ Exit \/ Outage \/ Simulation
  BY <1>5, <1>6 DEF ConstructFails, HealthCheck, Simulate, ContainerEnds, Exit, Outage, Simulation,
    RunContainer, RunRefused, StartFails, TimesOut, OutputUnusable, OutputJudged
<1>7. CASE Close \/ Restart \/ Crash
  BY <1>4, <1>5, <1>7 DEF Close, Restart, Crash, Forget
<1>8. CASE UNCHANGED vars
  BY <1>5, <1>8 DEF vars
<1> QED
  BY <1>1, <1>2, <1>3, <1>6, <1>7, <1>8 DEF Next, Warm

LEMMA OwnedStep == IInv /\ [Next]_vars => OwnedInv'
<1> SUFFICES ASSUME IInv, [Next]_vars, faults' \intersect {"outage", "start", "remove"} = {}
             PROVE  up' /\ \A c \in exists' : Owned(c)'
  BY DEF OwnedInv
<1>1. faults' = faults
  BY DEF Next, vars, Warm, WarmCount, WarmCreate, WarmFails, WarmKeep, Construct, ConstructFails,
    HealthCheck, Simulate, Simulation, ContainerEnds, Exit, Close, Restart, Crash, Forget, Outage,
    RunContainer, RunRefused, StartFails, TimesOut, OutputUnusable, OutputJudged
<1>2. /\ "outage" \notin faults /\ "start" \notin faults /\ "remove" \notin faults
      /\ up /\ \A c \in exists : Owned(c)
  BY <1>1 DEF IInv, OwnedInv
<1>3. up' = up
  BY <1>2 DEF Next, vars, Warm, WarmCount, WarmCreate, WarmFails, WarmKeep, Construct, ConstructFails,
    HealthCheck, Simulate, Simulation, ContainerEnds, Exit, Close, Restart, Crash, Forget, Outage,
    RunContainer, RunRefused, StartFails, TimesOut, OutputUnusable, OutputJudged, daemon
<1>4. \A C : Survivors(C) = {{}}
  BY <1>2 DEF Survivors
<1> SUFFICES \A c \in exists' : Owned(c)'
  BY <1>2, <1>3
<1> USE DEF TypeOK, IInv, Owned, daemon, pool, run, service
<1>5. ASSUME NEW t \in Threads, WarmCount(t) \/ WarmFails(t) PROVE \A c \in exists' : Owned(c)'
  BY <1>2, <1>5 DEF WarmCount, WarmFails
<1>6. ASSUME NEW t \in Threads, WarmCreate(t) PROVE \A c \in exists' : Owned(c)'
  <2>1. PICK d \in Containers : exists' = exists \union {d} /\ held'[t] = d
    BY <1>6 DEF WarmCreate
  <2>2. \A u \in Threads \ {t} : held'[u] = held[u]
    BY <1>6 DEF WarmCreate
  <2>3. held[t] = None /\ None \notin exists /\ UNCHANGED <<available, active, earlier>>
    BY <1>6, RunnerAssumption DEF WarmCreate
  <2> QED
    BY <1>2, <2>1, <2>2, <2>3
<1>7. ASSUME NEW t \in Threads, WarmKeep(t) PROVE \A c \in exists' : Owned(c)'
  <2>1. \A u \in Threads \ {t} : held'[u] = held[u]
    BY <1>7 DEF WarmKeep
  <2>2. UNCHANGED <<active, earlier>>
    BY <1>7 DEF WarmKeep
  <2>3. CASE available' = available \union {held[t]} /\ exists' = exists
    BY <1>2, <2>1, <2>2, <2>3
  <2>4. CASE available' = available /\ exists' = exists \ {held[t]}
    BY <1>2, <2>1, <2>2, <2>4
  <2> QED
    BY <1>4, <1>7, <2>3, <2>4 DEF WarmKeep
<1>8. CASE Construct
  <2>1. available = {}
    BY <1>8 DEF Construct, StartInv, NoThreads
  <2> QED
    BY <1>2, <1>8, <2>1 DEF Construct
<1>9. CASE ConstructFails \/ HealthCheck \/ Simulate \/ RunRefused \/ ContainerEnds \/ Exit
  BY <1>2, <1>9 DEF ConstructFails, HealthCheck, Simulate, RunRefused, ContainerEnds, Exit
<1>10. CASE RunContainer
  BY <1>2, <1>10 DEF RunContainer
<1>11. CASE TimesOut \/ OutputUnusable \/ OutputJudged
  <2>1. loop \in {"wait", "collect"} /\ RemoveContainer /\ UNCHANGED <<available, held, earlier>>
    BY <1>11 DEF TimesOut, OutputUnusable, OutputJudged
  <2>2. active = {container} /\ exists' = exists \ {container}
    BY <1>4, <2>1 DEF RemoveContainer, ActiveInv
  <2> QED
    BY <1>2, <2>1, <2>2
<1>12. CASE Close
  <2>1. UNCHANGED <<held, earlier>>
    BY <1>12 DEF Close
  <2>2. CASE runner
    <3>1. exists' = exists \ (active \union available)
      BY <1>4, <1>12, <2>2 DEF Close
    <3> QED
      BY <1>2, <2>1, <3>1
  <2>3. CASE ~ runner
    BY <1>2, <1>12, <2>3 DEF Close
  <2> QED
    BY <2>2, <2>3
<1>13. CASE Restart \/ Crash
  BY <1>13 DEF Restart, Crash, Forget
<1>14. CASE UNCHANGED vars
  BY <1>2, <1>14 DEF vars
<1> QED
  BY <1>2, <1>5, <1>6, <1>7, <1>8, <1>9, <1>10, <1>11, <1>12, <1>13, <1>14
  DEF Next, Simulation, Warm, Outage, StartFails

-----------------------------------------------------------------------------
LEMMA Initially == Init => IInv
<1> SUFFICES ASSUME Init PROVE IInv
  OBVIOUS
<1>1. TypeOK
  <2>1. 0 \in 0..PoolSize
    BY RunnerAssumption
  <2>2. needed \in [Threads -> 0..PoolSize]
    BY <2>1 DEF Init
  <2>3. counted \in [Threads -> BOOLEAN] /\ held \in [Threads -> Containers \union {None}]
    BY DEF Init
  <2> QED
    BY <2>2, <2>3 DEF Init, TypeOK
<1>2. PoolBounded
  BY FS_EmptySet, RunnerAssumption DEF Init, PoolBounded
<1>3. HeldInv /\ ActiveInv /\ ListedInv /\ StartInv /\ OwnedInv
  BY DEF Init, HeldInv, ActiveInv, ListedInv, StartInv, NoThreads, OwnedInv
<1> QED
  BY <1>1, <1>2, <1>3 DEF IInv

LEMMA Invariance == Spec => []IInv
<1>1. IInv /\ [Next]_vars => IInv'
  BY TypeStep, HeldStep, ActiveStep, ListedStep, StartStep, PoolStep, OwnedStep DEF IInv
<1> QED
  BY Initially, <1>1, PTL DEF Spec

(***************************************************************************)
(* The state of the runner, its threads and Docker is well typed: a refill *)
(* thread never has a negative number of containers to create.             *)
(***************************************************************************)
THEOREM TypeCorrect == Spec => []TypeOK
<1>1. IInv => TypeOK
  BY DEF IInv
<1> QED
  BY Invariance, <1>1, PTL

(***************************************************************************)
(* The pool never exceeds container_pool_size, although any number of      *)
(* threads count what is missing and create containers outside the lock    *)
(* (ContainerPool.warm).                                                   *)
(***************************************************************************)
THEOREM PoolNeverOverfull == Spec => []PoolBounded
<1>1. IInv => PoolBounded
  BY DEF IInv
<1> QED
  BY Invariance, <1>1, PTL

(***************************************************************************)
(* No container is forgotten while Docker does what it is asked: each one  *)
(* is pooled, active, in the hands of a refill thread, or was left by an   *)
(* earlier process (run_simulation, warm, close).                          *)
(***************************************************************************)
THEOREM NoContainerForgotten == Spec => []Accounted
<1>1. IInv => Accounted
  <2> SUFFICES ASSUME IInv, faults \intersect {"outage", "start", "remove"} = {}
               PROVE  exists = available \union active \union Held \union earlier
    BY DEF Accounted
  <2>1. \A c \in exists : c \in available \union active \union Held \union earlier
    <3> SUFFICES ASSUME NEW c \in exists, NEW t \in Threads, held[t] = c PROVE c \in Held
      BY DEF IInv, OwnedInv, Owned
    <3>1. c # None
      BY RunnerAssumption DEF IInv, TypeOK
    <3> QED
      BY <3>1 DEF Held
  <2>2. Held \subseteq exists
    BY DEF Held, IInv, HeldInv
  <2> QED
    BY <2>1, <2>2 DEF IInv, ListedInv
<1> QED
  BY Invariance, <1>1, PTL

\* No more containers are in the threads' hands than there are threads.
LEMMA HeldByThreads ==
  ASSUME TypeOK, IsFiniteSet(Threads)
  PROVE  /\ IsFiniteSet(Held) /\ Cardinality(Held) \in Nat /\ Cardinality(Threads) \in Nat
         /\ Cardinality(Held) <= Cardinality(Threads)
<1> DEFINE holder == [c \in Held |-> CHOOSE t \in Threads : held[t] = c]
<1>1. Held \subseteq Containers
  BY DEF Held, TypeOK
<1>2. IsFiniteSet(Held) /\ Cardinality(Held) \in Nat
  BY <1>1, CardinalityNat
<1>3. \A c \in Held : \E t \in Threads : held[t] = c
  BY DEF Held
<1>4. \A c \in Held : holder[c] \in Threads /\ held[holder[c]] = c
  BY <1>3
<1>5. holder \in [Held -> Threads] /\ DOMAIN holder = Held
  BY <1>4
<1> HIDE DEF holder
<1>6. \A c, d \in Held : holder[c] = holder[d] => c = d
  BY <1>4
<1>7. holder \in Injection(Held, Threads)
  BY <1>5, <1>6 DEF Injection, IsInjective
<1>8. Cardinality(Held) <= Cardinality(Threads)
  BY <1>7, FS_Injection
<1> QED
  BY <1>2, <1>8, FS_CardinalityType

(***************************************************************************)
(* While Docker does what it is asked, a process has no more containers on *)
(* the host than its pool, one simulation and its refill threads account   *)
(* for, however often simulations time out, their output cannot be used or *)
(* threads create what is surplus (run_simulation, warm).                  *)
(***************************************************************************)
THEOREM FootprintBounded ==
  ASSUME IsFiniteSet(Threads)
  PROVE  Spec => [](faults \intersect {"outage", "start", "remove"} = {} =>
                      Cardinality(exists \ earlier) <= PoolSize + 1 + Cardinality(Threads))
<1>1. Spec => []Accounted
  BY NoContainerForgotten
<1>2. IInv /\ Accounted =>
        (faults \intersect {"outage", "start", "remove"} = {} =>
           Cardinality(exists \ earlier) <= PoolSize + 1 + Cardinality(Threads))
  <2> SUFFICES ASSUME IInv, Accounted, faults \intersect {"outage", "start", "remove"} = {}
               PROVE  Cardinality(exists \ earlier) <= PoolSize + 1 + Cardinality(Threads)
    OBVIOUS
  <2>1. /\ IsFiniteSet(available) /\ Cardinality(available) \in Nat
        /\ Cardinality(available) <= PoolSize
    BY CardinalityNat DEF IInv, TypeOK, PoolBounded
  <2>2. IsFiniteSet(active) /\ Cardinality(active) \in {0, 1}
    <3>1. active = {} \/ active = {container}
      BY DEF IInv, ActiveInv
    <3>2. IsFiniteSet({}) /\ Cardinality({}) = 0
      BY FS_EmptySet
    <3>3. IsFiniteSet({container}) /\ Cardinality({container}) = 1
      BY FS_Singleton
    <3> QED
      BY <3>1, <3>2, <3>3
  <2>3. /\ IsFiniteSet(Held) /\ Cardinality(Held) \in Nat /\ Cardinality(Threads) \in Nat
        /\ Cardinality(Held) <= Cardinality(Threads)
    BY HeldByThreads DEF IInv
  <2>4. /\ IsFiniteSet(available \union active)
        /\ Cardinality(available \union active) \in Nat
        /\ Cardinality(available \union active) <= PoolSize + 1
    <3>1. /\ IsFiniteSet(available \union active)
          /\ Cardinality(available \union active) =
               Cardinality(available) + Cardinality(active) - Cardinality(available \intersect active)
      BY <2>1, <2>2, FS_Union
    <3>2. Cardinality(available \intersect active) \in Nat
      BY <2>1, FS_Intersection, FS_CardinalityType
    <3>3. Cardinality(available \union active) \in Nat
      BY <3>1, FS_CardinalityType
    <3> QED
      BY <2>1, <2>2, <3>1, <3>2, <3>3, RunnerAssumption
  <2>5. /\ IsFiniteSet(available \union active \union Held)
        /\ Cardinality(available \union active \union Held) \in Nat
        /\ Cardinality(available \union active \union Held) <= PoolSize + 1 + Cardinality(Threads)
    <3>1. /\ IsFiniteSet(available \union active \union Held)
          /\ Cardinality(available \union active \union Held) =
               Cardinality(available \union active) + Cardinality(Held)
                 - Cardinality((available \union active) \intersect Held)
      BY <2>3, <2>4, FS_Union
    <3>2. Cardinality((available \union active) \intersect Held) \in Nat
      BY <2>4, FS_Intersection, FS_CardinalityType
    <3>3. Cardinality(available \union active \union Held) \in Nat
      BY <3>1, FS_CardinalityType
    <3> QED
      BY <2>3, <2>4, <3>1, <3>2, <3>3, RunnerAssumption
  <2>6. exists \ earlier \subseteq available \union active \union Held
    BY DEF Accounted
  <2>7. /\ Cardinality(exists \ earlier) \in Nat
        /\ Cardinality(exists \ earlier) <= Cardinality(available \union active \union Held)
    BY <2>5, <2>6, FS_Subset, FS_CardinalityType
  <2> QED
    BY <2>3, <2>5, <2>7, RunnerAssumption
<1> QED
  BY Invariance, <1>1, <1>2, PTL

=============================================================================
