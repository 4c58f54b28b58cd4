-------------------------- MODULE SimulationRunner --------------------------
(***************************************************************************)
(* The simulation runner of a validator and the Docker containers it makes *)
(* over several lives of the process: construction, health checks,         *)
(* simulations, the threads that refill the container pool, shutdown and   *)
(* crash.                                                                  *)
(*                                                                         *)
(* The loop awaits one simulation after another, so there is one at most.  *)
(* Refill threads run beside it and beside the shutdown.  The pool's       *)
(* `lease` and the runner's `update_image` have no caller in the validator *)
(* and are left out.                                                       *)
(***************************************************************************)
EXTENDS Integers, FiniteSets

CONSTANTS
  Containers,   \* bound: the containers the Docker host has room for
  Threads,      \* bound: refill threads alive at a time
  PoolSize,     \* container_pool_size
  FaultModels,  \* the sets of faults a behaviour may be subject to
  None          \* no container

ASSUME RunnerAssumption ==
  /\ IsFiniteSet(Containers) /\ None \notin Containers
  /\ PoolSize \in Nat
  /\ FaultModels \subseteq SUBSET {"outage", "setup", "create", "start", "remove", "crash"}

VARIABLES
  up,         \* Docker: the daemon answers
  exists,     \* Docker: the containers there are
  loop,       \* where the validator's loop is
  runner,     \* whether _simulation_runner is not None
  healthy,    \* _docker_healthy
  available,  \* ContainerPool._available
  active,     \* _active_containers
  container,  \* the container of the simulation under way
  counted,    \* counted[t]: refill thread t has counted what is missing
  needed,     \* needed[t]: the containers t is still to create
  held,       \* held[t]: the container t has created and not yet pooled
  earlier,    \* history: containers left behind by earlier processes
  faults      \* the faults this behaviour is subject to; never changes

daemon == <<up, exists>>
pool == <<available, counted, needed, held>>
run == <<active, container>>
service == <<runner, healthy>>
vars == <<daemon, loop, service, pool, run, earlier, faults>>

TypeOK ==
  /\ up \in BOOLEAN
  /\ exists \subseteq Containers /\ earlier \subseteq Containers
  /\ loop \in {"start", "cycle", "simulate", "wait", "collect", "close", "down"}
  /\ runner \in BOOLEAN /\ healthy \in BOOLEAN
  /\ available \subseteq Containers /\ active \subseteq Containers
  /\ container \in Containers \union {None}
  /\ counted \in [Threads -> BOOLEAN]
  /\ needed \in [Threads -> 0..PoolSize]
  /\ held \in [Threads -> Containers \union {None}]
  /\ faults \in FaultModels

Init ==
  /\ up = TRUE /\ exists = {} /\ earlier = {}
  /\ loop = "start"
  /\ runner = FALSE /\ healthy = FALSE
  /\ available = {} /\ active = {} /\ container = None
  /\ counted = [t \in Threads |-> TRUE]
  /\ needed = [t \in Threads |-> 0]
  /\ held = [t \in Threads |-> None]
  /\ faults \in FaultModels

Max0(n) == IF n > 0 THEN n ELSE 0

\* Whether a thread is alive: started and not yet at the end of `warm`.
Alive(t) == ~ counted[t] \/ needed[t] > 0

-----------------------------------------------------------------------------
(***************************************************************************)
(* Docker.                                                                 *)
(***************************************************************************)

\* containers.create: a fresh container, if the daemon answers and has room.
Creates(c) == up /\ c \in Containers \ exists

CreateFails == ~ up \/ "create" \in faults \/ Containers \subseteq exists

\* container.remove, whose failure the callers only log: what remains of C.
Survivors(C) ==
  IF ~ up THEN {C} ELSE IF "remove" \in faults THEN SUBSET C ELSE {{}}

\* The daemon goes down or comes back.
Outage ==
  /\ "outage" \in faults
  /\ up' = ~ up
  /\ UNCHANGED <<exists, loop, service, pool, run, earlier, faults>>

-----------------------------------------------------------------------------
(***************************************************************************)
(* The pool.                                                               *)
(***************************************************************************)

\* Variant: one container too many.
WarmCountAbove(t) ==
  /\ ~ counted[t]
  /\ counted' = [counted EXCEPT ![t] = TRUE]
  /\ needed' = [needed EXCEPT ![t] = PoolSize - Cardinality(available) + 1]
  /\ UNCHANGED <<daemon, loop, service, available, held, run, earlier, faults>>

\* Variant: one container too few.
WarmCountBelow(t) ==
  /\ ~ counted[t]
  /\ counted' = [counted EXCEPT ![t] = TRUE]
  /\ needed' = [needed EXCEPT ![t] = Max0(PoolSize - Cardinality(available) - 1)]
  /\ UNCHANGED <<daemon, loop, service, available, held, run, earlier, faults>>

\* A refill thread starts: it counts what is missing.
WarmCount(t) ==
  /\ ~ counted[t]
  /\ counted' = [counted EXCEPT ![t] = TRUE]
  /\ needed' = [needed EXCEPT ![t] = Max0(PoolSize - Cardinality(available))]
  /\ UNCHANGED <<daemon, loop, service, available, held, run, earlier, faults>>

\* It creates a container outside the lock.
WarmCreate(t) ==
  /\ counted[t] /\ needed[t] > 0 /\ held[t] = None
  /\ \E c \in Containers :
       /\ Creates(c)
       /\ exists' = exists \union {c}
       /\ held' = [held EXCEPT ![t] = c]
  /\ UNCHANGED <<up, loop, service, available, counted, needed, run, earlier, faults>>

\* A creation fails, and the thread gives up.
WarmFails(t) ==
  /\ counted[t] /\ needed[t] > 0 /\ held[t] = None
  /\ CreateFails
  /\ needed' = [needed EXCEPT ![t] = 0]
  /\ UNCHANGED <<daemon, loop, service, available, counted, held, run, earlier, faults>>

\* Variant: it does not look at the pool again.
WarmKeepUnchecked(t) ==
  /\ held[t] # None
  /\ held' = [held EXCEPT ![t] = None]
  /\ available' = available \union {held[t]}
  /\ needed' = [needed EXCEPT ![t] = @ - 1]
  /\ UNCHANGED <<daemon, loop, service, counted, run, earlier, faults>>

\* It pools the container, or discards it and stops if the pool is full by now.
WarmKeep(t) ==
  /\ held[t] # None
  /\ held' = [held EXCEPT ![t] = None]
  /\ \/ /\ Cardinality(available) < PoolSize
        /\ available' = available \union {held[t]}
        /\ needed' = [needed EXCEPT ![t] = @ - 1]
        /\ UNCHANGED exists
     \/ /\ Cardinality(available) >= PoolSize
        /\ \E S \in Survivors({held[t]}) : exists' = (exists \ {held[t]}) \union S
        /\ needed' = [needed EXCEPT ![t] = 0]
        /\ UNCHANGED available
  /\ UNCHANGED <<up, loop, service, counted, run, earlier, faults>>

Warm(t) == WarmCount(t) \/ WarmCreate(t) \/ WarmFails(t) \/ WarmKeep(t)

-----------------------------------------------------------------------------
(***************************************************************************)
(* The validator's loop.                                                   *)
(***************************************************************************)

\* Start-up with the daemon up: the constructor fills the pool, no other
\* thread being there yet, and the preflight finds the client cached.
Construct ==
  /\ loop = "start" /\ up
  /\ \E S \in SUBSET (Containers \ exists) :
       /\ Cardinality(S) <= PoolSize
       /\ Cardinality(S) < PoolSize =>
            CreateFails \/ "outage" \in faults \/ Containers = exists \union S
       /\ available' = S /\ exists' = exists \union S
  /\ runner' = TRUE /\ healthy' = TRUE
  /\ loop' = "cycle"
  /\ UNCHANGED <<up, counted, needed, held, run, earlier, faults>>

\* Start-up with the daemon down: _ensure_image raises in the constructor.
\* "setup": there is no LLM key, no docker package, or no network as
\* restricted as is asked for.
ConstructFails ==
  /\ loop = "start"
  /\ ~ up \/ "setup" \in faults
  /\ runner' = FALSE /\ healthy' = FALSE
  /\ loop' = "cycle"
  /\ UNCHANGED <<daemon, pool, run, earlier, faults>>

\* Variant: an outage that was seen once is never over.
HealthCheckSticky ==
  /\ loop = "cycle" /\ runner
  /\ healthy' = (healthy /\ up)
  /\ UNCHANGED <<daemon, loop, runner, pool, run, earlier, faults>>

\* The health check, when it is due.
HealthCheck ==
  /\ loop = "cycle" /\ runner
  /\ healthy' = up
  /\ UNCHANGED <<daemon, loop, runner, pool, run, earlier, faults>>

\* A submission reaches the simulation; without a runner it fails there.
Simulate ==
  /\ loop = "cycle" /\ runner
  /\ loop' = "simulate"
  /\ UNCHANGED <<daemon, service, pool, run, earlier, faults>>

\* The container is created and started.
RunContainer ==
  /\ loop = "simulate"
  /\ \E c \in Containers :
       /\ Creates(c)
       /\ exists' = exists \union {c}
       /\ container' = c
       /\ active' = active \union {c}
  /\ loop' = "wait"
  /\ UNCHANGED <<up, service, pool, earlier, faults>>

\* Nothing is created: the config cannot be translated or written, no digest is
\* configured although one is required, or the daemon refuses.
RunRefused ==
  /\ loop = "simulate"
  /\ loop' = "cycle"
  /\ UNCHANGED <<daemon, service, pool, run, earlier, faults>>

\* The container is created and its start fails: containers.run raises, and the
\* container is not among the active ones.
StartFails ==
  /\ loop = "simulate" /\ "start" \in faults
  /\ \E c \in Containers : Creates(c) /\ exists' = exists \union {c}
  /\ loop' = "cycle"
  /\ UNCHANGED <<up, service, pool, run, earlier, faults>>

\* The container ends in time.
ContainerEnds ==
  /\ loop = "wait" /\ up
  /\ loop' = "collect"
  /\ UNCHANGED <<daemon, service, pool, run, earlier, faults>>

\* `container` is removed, or not, and is no longer active.
RemoveContainer ==
  /\ \E S \in Survivors({container}) : exists' = (exists \ {container}) \union S
  /\ active' = active \ {container}
  /\ container' = None

\* Variant: the container is killed and not removed.
TimesOutKilledOnly ==
  /\ loop = "wait"
  /\ active' = active \ {container} /\ container' = None
  /\ loop' = "cycle"
  /\ UNCHANGED <<daemon, service, pool, earlier, faults>>

\* Variant: wait() has no time limit.
TimesOutNever ==
  /\ loop = "wait" /\ ~ up
  /\ RemoveContainer
  /\ loop' = "cycle"
  /\ UNCHANGED <<up, service, pool, earlier, faults>>

\* wait() raises, as the time is over or the connection is: kill and remove.
TimesOut ==
  /\ loop = "wait"
  /\ RemoveContainer
  /\ loop' = "cycle"
  /\ UNCHANGED <<up, service, pool, earlier, faults>>

\* There is no usable output.
OutputUnusable ==
  /\ loop = "collect"
  /\ RemoveContainer
  /\ loop' = "cycle"
  /\ UNCHANGED <<up, service, pool, earlier, faults>>

\* The output is judged, and a thread is started to refill the pool.
OutputJudged ==
  /\ loop = "collect"
  /\ RemoveContainer
  /\ \E t \in Threads : ~ Alive(t) /\ counted' = [counted EXCEPT ![t] = (PoolSize = 0)]
  /\ loop' = "cycle"
  /\ UNCHANGED <<up, service, available, needed, held, earlier, faults>>

\* A signal has arrived: the loop ends and `stop` is next.
Exit ==
  /\ loop = "cycle"
  /\ loop' = "close"
  /\ UNCHANGED <<daemon, service, pool, run, earlier, faults>>

\* close: active containers and the pool's are removed.  Refill threads go on.
Close ==
  /\ loop = "close"
  /\ \/ ~ runner /\ UNCHANGED <<exists, available, active>>
     \/ /\ runner
        /\ \E S \in Survivors(active \union available) :
             exists' = (exists \ (active \union available)) \union S
        /\ available' = {} /\ active' = {}
  /\ loop' = "down"
  /\ UNCHANGED <<up, service, container, counted, needed, held, earlier, faults>>

\* The process ends, with its daemon threads, and is started again.
Forget ==
  /\ loop' = "start"
  /\ runner' = FALSE /\ healthy' = FALSE
  /\ available' = {} /\ active' = {} /\ container' = None
  /\ counted' = [t \in Threads |-> TRUE]
  /\ needed' = [t \in Threads |-> 0]
  /\ held' = [t \in Threads |-> None]
  /\ earlier' = exists
  /\ UNCHANGED <<daemon, faults>>

Restart == loop = "down" /\ Forget

\* The process dies at any other point.
Crash == "crash" \in faults /\ loop # "down" /\ Forget

\* What a simulation does of itself; whether its container ends is up to the
\* container.
Simulation ==
  RunContainer \/ RunRefused \/ StartFails \/ TimesOut \/ OutputUnusable \/ OutputJudged

Next ==
  \/ Construct \/ ConstructFails \/ HealthCheck \/ Simulate
  \/ Simulation \/ ContainerEnds
  \/ Exit \/ Close \/ Restart \/ Crash \/ Outage
  \/ \E t \in Threads : Warm(t)

(***************************************************************************)
(* A simulation goes on and times out if need be, threads are scheduled,   *)
(* start-up and shutdown come to an end, and a health check is due again   *)
(* and again when the loop passes by.                                      *)
(***************************************************************************)
Spec ==
  /\ Init /\ [][Next]_vars
  /\ WF_vars(Simulation) /\ WF_vars(Construct \/ ConstructFails) /\ WF_vars(Close)
  /\ SF_vars(HealthCheck)
  /\ \A t \in Threads : WF_vars(Warm(t))

-----------------------------------------------------------------------------
(***************************************************************************)
(* Properties.                                                             *)
(***************************************************************************)

Held == {held[t] : t \in Threads} \ {None}

Running == loop \notin {"start", "close", "down"}

(***************************************************************************)
(* However many refill threads run at once, the pool has no more than      *)
(* container_pool_size containers.                                         *)
(***************************************************************************)
PoolBounded == Cardinality(available) <= PoolSize

(***************************************************************************)
(* While Docker removes what it is asked to and starts what it creates,    *)
(* every container is the pool's, the running simulation's or about to be  *)
(* pooled, or an earlier process left it: no time-out, unusable output or  *)
(* surplus of the refill threads leaks one, and none is kept that is gone. *)
(***************************************************************************)
Accounted ==
  faults \intersect {"outage", "start", "remove"} = {} =>
    exists = available \union active \union Held \union earlier

(***************************************************************************)
(* A simulation ends: its container may run for ever, and an outage may    *)
(* never be over, but the loop gets a result.                              *)
(***************************************************************************)
SimulationsEnd == loop \in {"simulate", "wait", "collect"} ~> loop \in {"cycle", "start"}

(***************************************************************************)
(* After an outage the validator sees that Docker is back, if it has a     *)
(* runner and has not been stopped.                                        *)
(***************************************************************************)
RecoversFromOutage == <>[]up /\ "crash" \notin faults => []<>(healthy \/ ~ runner \/ loop = "down")

(***************************************************************************)
(* A pool that was short after start-up is filled by the threads that      *)
(* successful simulations start, once Docker stays up and has room and the *)
(* process keeps running.                                                  *)
(***************************************************************************)
PoolRefills ==
  /\ faults \subseteq {"outage"}
  /\ <>[](up /\ exists # Containers /\ Running)
  /\ []<>(\E t \in Threads : ~ counted[t])
  => []<>(Cardinality(available) = PoolSize)

(***************************************************************************)
(* The error a failed preflight logs (validator.py:509): simulation will   *)
(* fail closed until recovered.  Docker stays up, the process keeps        *)
(* running, nothing else is missing, and the validator recovers.           *)
(***************************************************************************)
RecoversFromStartupOutage ==
  "setup" \notin faults /\ <>[](up /\ Running) => <>healthy

=============================================================================
