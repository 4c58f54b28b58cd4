--------------------------- MODULE ServiceProofs ---------------------------
(***************************************************************************)
(* Proofs about ValidatorService for any bounds, intervals and lifetimes,  *)
(* any settings of the operator, any configs the Central API may serve and *)
(* every set of faults.                                                    *)
(***************************************************************************)
EXTENDS ValidatorService, TLAPS

(***************************************************************************)
(* The inductive invariant.                                                *)
(***************************************************************************)

\* What was taken from a response is of a kind the clamp lets through.
Sanitized(c) ==
  /\ \A k \in NumericKeys : c[k].kind = "number" => InBounds(k, c[k])
  /\ LET v == c["min_miner_version"]
     IN  v.kind = "absent" \/ (v.kind = "version" /\ v.num <= LocalMajor + MajorDelta)

ConfigInv == Sanitized(config)

LimitInv == limit.kind = "number" => InBounds("rate_limit", limit)

APIInv ==
  /\ "outage" \notin faults => up
  /\ "refusal" \notin faults => ~ refusing

\* The client is there from the constructor on, until a 403 at start-up.
ClientInv ==
  faults \intersect {"outage", "refusal"} = {} /\ phase # "down" => client

CycleInv == phase \in {"reauth", "refresh", "drift"} => elapsed = 0

\* The token is renewed before less than the buffer is left of it, and grows
\* no older than the cycle does.
TokenInv ==
  /\ faults \intersect {"outage", "refusal"} = {}
  /\ phase \in {"refresh", "drift", "work", "sleep"}
  => token # None /\ (elapsed <= ReauthBuffer => token + ReauthBuffer - elapsed < TokenLife)

\* No clock, disk or torn file comes between the records and their true ages.
Undisturbed == faults \intersect {"clock", "disk", "torn"} = {}

RecordsInv ==
  Undisturbed =>
    /\ \A a \in FileAges : (a < 0 => file[a] = 0) /\ (a \in Ages => file[a] = real[a])
    /\ phase # "down" => ages = real

IInv ==
  /\ TypeOK /\ ConfigInv /\ LimitInv /\ APIInv /\ ClientInv /\ CycleInv
  /\ TokenInv /\ RecordsInv

-----------------------------------------------------------------------------
(***************************************************************************)
(* The operators on settings and records.                                  *)
(***************************************************************************)

LEMMA NumberTyped == \A n \in 0 .. MaxNumber : Number(n) \in Values
BY DEF Number, Values

\* A bounded number is within bounds, whatever it was.
LEMMA BoundedInBounds ==
  ASSUME NEW k \in NumericKeys, NEW n \in Int
  PROVE  Bounded(k, n) \in Lo[k] .. Hi[k] /\ Bounded(k, n) \in 0 .. MaxNumber
BY ServiceAssumption DEF Bounded

\* The defaults are within bounds.
LEMMA DefaultInBounds ==
  ASSUME NEW k \in NumericKeys
  PROVE  Default[k] \in Lo[k] .. Hi[k] /\ Default[k] \in 0 .. MaxNumber
BY ServiceAssumption

\* What the clamp makes of a response.
LEMMA ClampKeys ==
  ASSUME NEW raw \in [Keys -> Values], NEW k \in Keys
  PROVE  Clamp(raw)[k] = IF raw[k].kind = "absent" THEN Absent
                         ELSE IF k = "min_miner_version" THEN ClampVersion(raw[k])
                         ELSE ClampNumber(k, raw[k])
<1>1. CASE raw[k].kind = "absent"
  BY <1>1 DEF Clamp
<1>2. CASE raw[k].kind # "absent" /\ k = "min_miner_version"
  BY <1>2 DEF Clamp
<1>3. CASE raw[k].kind # "absent" /\ k # "min_miner_version"
  BY <1>3 DEF Clamp
<1> QED
  BY <1>1, <1>2, <1>3

LEMMA ClampTyped ==
  ASSUME NEW raw \in [Keys -> Values]
  PROVE  Clamp(raw) \in [Keys -> Values]
<1>1. ASSUME NEW k \in Keys PROVE Clamp(raw)[k] \in Values
  <2>1. raw[k] \in Values /\ raw[k].num \in Int /\ 1 \in 0 .. MaxNumber /\ 0 \in 0 .. MaxNumber
    BY ServiceAssumption DEF Values
  <2>2. Absent \in Values /\ FallbackVersion \in Values
    BY <2>1 DEF Absent, FallbackVersion, Values
  <2>3. ClampVersion(raw[k]) \in Values
    BY <2>1, <2>2 DEF ClampVersion
  <2>4. k \in NumericKeys => ClampNumber(k, raw[k]) \in Values
    BY <2>1, BoundedInBounds, NumberTyped DEF ClampNumber
  <2> QED
    BY <2>1, <2>2, <2>3, <2>4, ClampKeys DEF Keys
<1>2. Clamp(raw) = [k \in Keys |-> Clamp(raw)[k]]
  BY DEF Clamp
<1> QED
  BY <1>1, <1>2

\* Whatever is served, what is taken is bounded.
LEMMA ClampBounds ==
  ASSUME NEW raw \in [Keys -> Values]
  PROVE  Sanitized(Clamp(raw))
<1> DEFINE c == Clamp(raw)
<1>1. ASSUME NEW k \in NumericKeys, c[k].kind = "number" PROVE InBounds(k, c[k])
  <2>1. k \in Keys /\ k # "min_miner_version" /\ raw[k].num \in Int
    BY ServiceAssumption DEF Keys, NumericKeys, Values
  <2>2. raw[k].kind # "absent" /\ c[k] = ClampNumber(k, raw[k])
    BY <1>1, <2>1, ClampKeys DEF Absent
  <2>3. c[k] = Number(Bounded(k, raw[k].num))
    BY <1>1, <2>2 DEF ClampNumber
  <2> QED
    BY <2>1, <2>3, BoundedInBounds DEF Number, InBounds
<1>2. c["min_miner_version"].kind = "absent"
      \/ (c["min_miner_version"].kind = "version"
          /\ c["min_miner_version"].num <= LocalMajor + MajorDelta)
  <2>1. c["min_miner_version"] = Absent \/ c["min_miner_version"] = ClampVersion(raw["min_miner_version"])
    BY ClampKeys DEF Keys
  <2> QED
    BY <2>1, ServiceAssumption DEF Absent, ClampVersion, FallbackVersion
<1> QED
  BY <1>1, <1>2 DEF Sanitized

\* The local settings.
LEMMA LocalTyped ==
  ASSUME install \in Installs
  PROVE  /\ LocalConfig.BURN_PERCENTAGE \in Lo["burn_percentage"] .. Hi["burn_percentage"]
         /\ LocalConfig.BURN_PERCENTAGE \in 0 .. MaxNumber
         /\ LocalConfig.WORK_ID_FRESHNESS_SECONDS \in 0 .. MaxNumber
         /\ "WORK_ID_FRESHNESS_SECONDS" \notin DOMAIN install.env =>
              LocalConfig.WORK_ID_FRESHNESS_SECONDS = Default["freshness"]
<1>1. /\ PROFILES[install.environment]["BURN_PERCENTAGE"] = Default["burn_percentage"]
      /\ PROFILES[install.environment]["WORK_ID_FRESHNESS_SECONDS"] = Default["freshness"]
  <2> DEFINE Common(p) == p["BURN_PERCENTAGE"] = Default["burn_percentage"]
                          /\ p["WORK_ID_FRESHNESS_SECONDS"] = Default["freshness"]
  <2>1. install.environment \in {"local", "testnet", "mainnet"}
    BY ServiceAssumption
  <2>2. \A network, testlab, url : Common(Profile(network, testlab, url))
    BY DEF Profile
  <2>3. Common(PROFILES["local"]) /\ Common(PROFILES["testnet"]) /\ Common(PROFILES["mainnet"])
    <3> HIDE DEF Common
    <3> QED
      BY <2>2 DEF PROFILES
  <2> QED
    BY <2>1, <2>3
<1>2. /\ EnvOr(install, "BURN_PERCENTAGE") \in 0 .. MaxNumber
      /\ EnvOr(install, "WORK_ID_FRESHNESS_SECONDS") \in 0 .. MaxNumber
      /\ "WORK_ID_FRESHNESS_SECONDS" \notin DOMAIN install.env =>
           EnvOr(install, "WORK_ID_FRESHNESS_SECONDS") = Default["freshness"]
  BY <1>1, ServiceAssumption, DefaultInBounds DEF EnvOr, NumericKeys
<1>3. /\ LocalConfig.BURN_PERCENTAGE = Bounded("burn_percentage", EnvOr(install, "BURN_PERCENTAGE"))
      /\ LocalConfig.WORK_ID_FRESHNESS_SECONDS = EnvOr(install, "WORK_ID_FRESHNESS_SECONDS")
  BY DEF LocalConfig, LocalConfigs
<1>4. EnvOr(install, "BURN_PERCENTAGE") \in Int /\ "burn_percentage" \in NumericKeys
  BY <1>2, ServiceAssumption DEF NumericKeys
<1> QED
  BY <1>2, <1>3, <1>4, BoundedInBounds

\* The records of a miner, one more or a tick later.
LEMMA ShiftedTyped ==
  ASSUME NEW S, NEW f \in [S -> Nat], NEW by
  PROVE  Shifted(f, by) \in [S -> Nat]
BY DEF Shifted

LEMMA RecordedTyped == \A f \in [Ages -> Nat] : Recorded(f) \in [Ages -> Nat]
BY ServiceAssumption DEF Recorded, Ages

LEMMA AgesInFile == Ages \subseteq FileAges
BY ServiceAssumption DEF Ages, FileAges

-----------------------------------------------------------------------------
(***************************************************************************)
(* Every step keeps the types.                                             *)
(***************************************************************************)

LEMMA Bounds ==
  /\ RefreshEvery \in Nat \ {0} /\ CheckEvery \in Nat \ {0} /\ Window \in Nat \ {0}
  /\ TokenLife \in Nat /\ ReauthBuffer \in Nat /\ MaxCycle \in Nat \ {0}
  /\ ReauthBuffer < TokenLife
  /\ MaxSkew \in Nat /\ None \notin Int
BY ServiceAssumption

\* The setup never changes.
LEMMA SetupStep == [Next]_vars => setupVars' = setupVars
BY DEF vars, Next, APIChanges, ClockJumps, Tick, StartUp, Construct, Authenticate, FirstCheck, Configure,
       Cycle, Reauth, RefreshConfig, DriftTick, Accept, FinishWork, Wake, Stop, Crash, setupVars

LEMMA NoConfigTyped == NoConfig \in [Keys -> Values] /\ Sanitized(NoConfig)
<1>1. Absent \in Values
  BY ServiceAssumption DEF Absent, Values
<1>2. \A k \in Keys : NoConfig[k] = Absent
  BY DEF NoConfig
<1> QED
  BY <1>1, <1>2 DEF NoConfig, Sanitized, Keys, Absent

\* A fetch, tried or not, leaves a sanitized config.
LEMMA RefreshStep ==
  ASSUME TypeOK, ConfigInv, Refresh
  PROVE  /\ sinceFetch' \in 0 .. RefreshEvery
         /\ available' \in BOOLEAN
         /\ config' \in [Keys -> Values]
         /\ ConfigInv'
<1>1. answer \in [Keys -> Values]
  BY ServiceAssumption DEF TypeOK
<1>2. config' = config \/ config' = Clamp(answer)
  BY DEF Refresh, configVars
<1>3. config' \in [Keys -> Values]
  BY <1>1, <1>2, ClampTyped DEF TypeOK
<1>4. Sanitized(config')
  BY <1>1, <1>2, ClampBounds DEF ConfigInv
<1>5. available' = available \/ available' = up
  BY Zenon DEF Refresh, configVars
<1>6. available' \in BOOLEAN
  BY <1>5, Zenon DEF TypeOK
<1>7. sinceFetch' \in 0 .. RefreshEvery
  BY Bounds DEF Refresh, configVars, TypeOK
<1> QED
  BY <1>3, <1>4, <1>6, <1>7 DEF ConfigInv

\* The setting of the rate limiter after one.
LEMMA RateLimitStep ==
  ASSUME config' \in [Keys -> Values], ConfigInv'
  PROVE  Setting("rate_limit")' \in Values
         /\ (Setting("rate_limit")'.kind = "number" => InBounds("rate_limit", Setting("rate_limit")'))
<1>1. Setting("rate_limit")' = IF config'["rate_limit"].kind = "absent" THEN Number(Default["rate_limit"])
                               ELSE config'["rate_limit"]
  BY DEF Setting, RemoteOnly, Get
<1>2. "rate_limit" \in NumericKeys /\ "rate_limit" \in Keys
  BY DEF NumericKeys, Keys
<1>3. Number(Default["rate_limit"]) \in Values /\ InBounds("rate_limit", Number(Default["rate_limit"]))
  BY <1>2, DefaultInBounds, NumberTyped DEF Number, InBounds
<1> QED
  BY <1>1, <1>2, <1>3 DEF ConfigInv, Sanitized

LEMMA TypeStep == TypeOK /\ ConfigInv /\ [Next]_vars => TypeOK'
<1> SUFFICES ASSUME TypeOK, ConfigInv, [Next]_vars PROVE TypeOK'
  OBVIOUS
<1>s. setupVars' = setupVars
  BY SetupStep
<1> USE Bounds
<1>1. CASE APIChanges
  <2>1. up' \in BOOLEAN /\ refusing' \in BOOLEAN
    BY <1>1, Zenon DEF APIChanges, Flips, TypeOK
  <2> QED
    BY <1>1, <2>1 DEF APIChanges, TypeOK, setupVars, sessionVars, configVars, limiterVars
<1>2. CASE ClockJumps
  <2>1. file' \in [FileAges -> Nat]
    BY <1>2, ShiftedTyped DEF ClockJumps, TypeOK
  <2> QED
    BY <1>2, <2>1 DEF ClockJumps, TypeOK, apiVars, setupVars, sessionVars, configVars
<1>3. CASE Tick
  <2>1. ages' \in [Ages -> Nat] /\ real' \in [Ages -> Nat] /\ file' \in [FileAges -> Nat]
    BY <1>3, ShiftedTyped DEF Tick, TypeOK
  <2>2. /\ elapsed' \in 0 .. MaxCycle
        /\ token' \in 0 .. TokenLife \union {None}
        /\ sinceFetch' \in 0 .. RefreshEvery
        /\ sinceCheck' \in 0 .. CheckEvery
    BY <1>3 DEF Tick, TypeOK, UpTo
  <2> QED
    BY <1>3, <2>1, <2>2 DEF Tick, TypeOK, apiVars, setupVars
<1>4. CASE Construct
  <2>1. ages' \in [Ages -> Nat]
    BY <1>4, AgesInFile DEF Construct, Load, TypeOK
  <2>2. limit' \in Values
    BY <1>4, DefaultInBounds, NumberTyped DEF Construct, NumericKeys
  <2>3. config' \in [Keys -> Values]
    BY <1>4, NoConfigTyped DEF Construct
  <2> QED
    BY <1>4, <2>1, <2>2, <2>3 DEF Construct, TypeOK, apiVars, setupVars
<1>5. CASE Authenticate
  <2>1. client' \in BOOLEAN
    BY <1>5, Zenon DEF Authenticate, TypeOK
  <2>2. attempts' \in 0 .. 2 /\ token' \in 0 .. TokenLife \union {None}
    BY <1>5 DEF Authenticate, Authenticated, TypeOK
  <2>3. phase' \in {"authenticate", "check"}
    BY <1>5 DEF Authenticate
  <2> QED
    BY <1>5, <2>1, <2>2, <2>3 DEF Authenticate, TypeOK, apiVars, setupVars, configVars, limiterVars
<1>6. CASE FirstCheck
  BY <1>6 DEF FirstCheck, TypeOK, apiVars, setupVars, sessionVars, configVars, limiterVars
<1>7. CASE Configure
  <2>1. sinceFetch' \in 0 .. RefreshEvery /\ available' \in BOOLEAN /\ config' \in [Keys -> Values]
    <3>1. CASE Refresh
      BY <3>1, RefreshStep
    <3>2. CASE UNCHANGED configVars
      BY <3>2 DEF configVars, TypeOK
    <3> QED
      BY <1>7, <3>1, <3>2 DEF Configure
  <2> QED
    BY <1>7, <2>1 DEF Configure, TypeOK, apiVars, setupVars, sessionVars, limiterVars
<1>8. CASE Reauth
  <2>1. token' \in 0 .. TokenLife \union {None}
    BY <1>8 DEF Reauth, Authenticated, TypeOK
  <2> QED
    BY <1>8, <2>1 DEF Reauth, TypeOK, apiVars, setupVars, configVars, limiterVars
<1>9. CASE RefreshConfig
  <2>1. /\ sinceFetch' \in 0 .. RefreshEvery /\ available' \in BOOLEAN
        /\ config' \in [Keys -> Values] /\ ConfigInv'
    BY <1>9, RefreshStep DEF RefreshConfig
  <2>2. limit' \in Values
    BY <1>9, <2>1, RateLimitStep DEF RefreshConfig
  <2> QED
    BY <1>9, <2>1, <2>2 DEF RefreshConfig, TypeOK, apiVars, setupVars, sessionVars
<1>10. CASE DriftTick
  BY <1>10 DEF DriftTick, TypeOK, apiVars, setupVars, sessionVars, configVars, limiterVars
<1>11. CASE Accept
  <2>1. ages' \in [Ages -> Nat] /\ real' \in [Ages -> Nat]
    BY <1>11, RecordedTyped DEF Accept, TypeOK
  <2>2. file' \in [FileAges -> Nat]
    BY <1>11, <2>1 DEF Accept, Save, TypeOK
  <2> QED
    BY <1>11, <2>1, <2>2 DEF Accept, TypeOK, apiVars, setupVars, sessionVars, configVars
<1>12. CASE FinishWork
  BY <1>12 DEF FinishWork, TypeOK, apiVars, setupVars, sessionVars, configVars, limiterVars
<1>13. CASE Wake
  BY <1>13 DEF Wake, TypeOK, apiVars, setupVars, sessionVars, configVars, limiterVars
<1>14. CASE Stop
  BY <1>14 DEF Stop, TypeOK, apiVars, setupVars, sessionVars, configVars, limiterVars
<1>15. CASE Crash
  <2>1. file' \in [FileAges -> Nat]
    BY <1>15 DEF Crash, TypeOK
  <2> QED
    BY <1>15, <2>1 DEF Crash, TypeOK, apiVars, setupVars, sessionVars, configVars
<1>16. CASE UNCHANGED vars
  BY <1>16 DEF vars, TypeOK, apiVars, setupVars, sessionVars, configVars, limiterVars
<1> QED
  BY <1>1, <1>2, <1>3, <1>4, <1>5, <1>6, <1>7, <1>8, <1>9, <1>10, <1>11, <1>12, <1>13, <1>14, <1>15, <1>16
  DEF Next, StartUp, Cycle

-----------------------------------------------------------------------------
(***************************************************************************)
(* What is taken from a response, and the limit in use, stay in bounds.    *)
(***************************************************************************)

LEMMA ConfigStep == TypeOK /\ ConfigInv /\ LimitInv /\ [Next]_vars => ConfigInv' /\ LimitInv'
<1> SUFFICES ASSUME TypeOK, ConfigInv, LimitInv, [Next]_vars PROVE ConfigInv' /\ LimitInv'
  OBVIOUS
<1>1. CASE Construct
  <2>1. ConfigInv'
    BY <1>1, NoConfigTyped DEF Construct, ConfigInv
  <2>2. limit' = Number(Default["rate_limit"])
    BY <1>1 DEF Construct
  <2> QED
    BY <2>1, <2>2, DefaultInBounds DEF LimitInv, Number, InBounds, NumericKeys
<1>2. CASE Configure
  <2>1. Refresh \/ config' = config
    BY <1>2 DEF Configure, configVars
  <2>2. limit' = limit
    BY <1>2 DEF Configure, limiterVars
  <2> QED
    BY <2>1, <2>2, RefreshStep DEF ConfigInv, LimitInv
<1>3. CASE RefreshConfig
  <2>1. ConfigInv' /\ config' \in [Keys -> Values]
    BY <1>3, RefreshStep DEF RefreshConfig
  <2>2. limit' = Setting("rate_limit")'
    BY <1>3 DEF RefreshConfig
  <2> QED
    BY <2>1, <2>2, RateLimitStep DEF LimitInv
<1>4. ASSUME config' = config, limit' = limit PROVE ConfigInv' /\ LimitInv'
  BY <1>4 DEF ConfigInv, LimitInv
<1>5. CASE APIChanges \/ ClockJumps \/ Tick
  BY <1>4, <1>5 DEF APIChanges, ClockJumps, Tick, configVars, limiterVars
<1>6. CASE Authenticate \/ FirstCheck \/ Reauth \/ DriftTick \/ FinishWork \/ Wake
  BY <1>4, <1>6 DEF Authenticate, FirstCheck, Reauth, DriftTick, FinishWork, Wake, configVars, limiterVars
<1>7. CASE Accept \/ Stop \/ Crash
  BY <1>4, <1>7 DEF Accept, Stop, Crash, configVars, limiterVars
<1>8. CASE UNCHANGED vars
  BY <1>4, <1>8 DEF vars, configVars, limiterVars
<1> QED
  BY <1>1, <1>2, <1>3, <1>5, <1>6, <1>7, <1>8 DEF Next, StartUp, Cycle

-----------------------------------------------------------------------------
(***************************************************************************)
(* The session: where the API neither fails nor refuses, the token is      *)
(* renewed in time.                                                        *)
(***************************************************************************)

Connected == faults \intersect {"outage", "refusal"} = {}

LEMMA APIStep == TypeOK /\ APIInv /\ [Next]_vars => APIInv'
<1> SUFFICES ASSUME TypeOK, APIInv, [Next]_vars PROVE APIInv'
  OBVIOUS
<1>1. faults' = faults
  BY SetupStep DEF setupVars
<1>2. ("outage" \notin faults => up' = up) /\ ("refusal" \notin faults => refusing' = refusing)
  <2>1. CASE APIChanges
    BY <2>1, Zenon DEF APIChanges, Flips
  <2>2. CASE apiVars' = apiVars
    BY <2>2, Zenon DEF apiVars
  <2> QED
    BY <2>1, <2>2 DEF Next, StartUp, Cycle, vars, ClockJumps, Tick, Construct, Authenticate, FirstCheck,
       Configure, Reauth, RefreshConfig, DriftTick, FinishWork, Wake, Accept, Stop, Crash
<1>3. ("outage" \notin faults => up) /\ ("refusal" \notin faults => ~ refusing)
  BY DEF APIInv
<1>4. ("outage" \notin faults' => up') /\ ("refusal" \notin faults' => ~ refusing')
  <2>1. ASSUME "outage" \notin faults' PROVE up'
    BY <1>1, <1>2, <1>3, <2>1, Zenon
  <2>2. ASSUME "refusal" \notin faults' PROVE ~ refusing'
    BY <1>1, <1>2, <1>3, <2>2, Zenon
  <2> QED
    BY <2>1, <2>2, Zenon
<1> QED
  BY <1>4, Zenon DEF APIInv

LEMMA SessionStep ==
  TypeOK /\ APIInv /\ ClientInv /\ CycleInv /\ TokenInv /\ [Next]_vars =>
    ClientInv' /\ CycleInv' /\ TokenInv'
<1> SUFFICES ASSUME TypeOK, APIInv, ClientInv, CycleInv, TokenInv, [Next]_vars
             PROVE  ClientInv' /\ CycleInv' /\ TokenInv'
  OBVIOUS
<1>s. Connected' <=> Connected
  BY SetupStep DEF setupVars, Connected
<1>c. Connected => up /\ ~ refusing
  BY Zenon DEF APIInv, Connected
<1> USE Bounds
<1>1. ClientInv'
  <2> SUFFICES ASSUME Connected, phase' # "down" PROVE client'
    BY <1>s DEF ClientInv, Connected
  <2>1. phase # "down" => client
    BY DEF ClientInv, Connected
  <2>2. CASE Construct
    BY <2>2 DEF Construct
  <2>3. CASE Authenticate
    <3>1. client' = client
      BY <2>3, <1>c, Zenon DEF Authenticate
    <3> QED
      BY <2>1, <2>3, <3>1 DEF Authenticate
  <2>4. CASE client' = client /\ (phase' # "down" => phase # "down")
    BY <2>1, <2>4
  <2> QED
    BY <2>2, <2>3, <2>4 DEF Next, StartUp, Cycle, vars, sessionVars, APIChanges, ClockJumps, Tick, FirstCheck,
       Configure, Reauth, RefreshConfig, DriftTick, FinishWork, Wake, Accept, Stop, Crash
<1>2. CycleInv'
  BY DEF CycleInv, Next, StartUp, Cycle, vars, APIChanges, ClockJumps, Tick, Construct, Authenticate, FirstCheck,
       Configure, Reauth, RefreshConfig, DriftTick, FinishWork, Wake, Accept, Stop, Crash
<1>3. TokenInv'
  <2> SUFFICES ASSUME Connected, phase' \in {"refresh", "drift", "work", "sleep"}
               PROVE  /\ token' # None
                      /\ elapsed' <= ReauthBuffer => token' + ReauthBuffer - elapsed' < TokenLife
    BY <1>s DEF TokenInv, Connected
  <2>1. phase \in {"refresh", "drift", "work", "sleep"} =>
          /\ token # None
          /\ elapsed <= ReauthBuffer => token + ReauthBuffer - elapsed < TokenLife
    BY DEF TokenInv, Connected
  <2>2. CASE Tick
    <3>1. phase \in {"work", "sleep"} /\ phase' = phase /\ elapsed < MaxCycle /\ token \in 0 .. TokenLife
      BY <2>1, <2>2 DEF Tick, TypeOK
    <3>2. elapsed' = elapsed + 1 /\ token' = UpTo(TokenLife, token) /\ elapsed \in 0 .. MaxCycle
      BY <2>2, <3>1 DEF Tick, UpTo, TypeOK
    <3> QED
      BY <2>1, <3>1, <3>2 DEF UpTo
  <2>3. CASE Reauth
    <3>1. elapsed = 0 /\ elapsed' = 0 /\ client
      BY <2>3, <1>s DEF Reauth, CycleInv, ClientInv, Connected
    <3>2. NeedsReauth => token' = 0
      BY <2>3, <3>1, <1>c, Zenon DEF Reauth, Authenticated
    <3>3. ~ NeedsReauth => token' = token
      <4>1. CASE token' = token
        BY <4>1
      <4>2. CASE NeedsReauth
        BY <4>2
      <4> QED
        BY <2>3, <4>1, <4>2, Zenon DEF Reauth
    <3> QED
      BY <3>1, <3>2, <3>3 DEF NeedsReauth
  <2>4. CASE phase \in {"refresh", "drift", "work", "sleep"} /\ token' = token /\ elapsed' = elapsed
    BY <2>1, <2>4
  <2> QED
    BY <2>2, <2>3, <2>4 DEF Next, StartUp, Cycle, vars, sessionVars, APIChanges, ClockJumps, Construct,
       Authenticate, FirstCheck, Configure, RefreshConfig, DriftTick, FinishWork, Wake, Accept, Stop, Crash
<1> QED
  BY <1>1, <1>2, <1>3

-----------------------------------------------------------------------------
(***************************************************************************)
(* The records: nothing is forgotten that is still in the window.          *)
(***************************************************************************)

Exact(f) == \A a \in FileAges : (a < 0 => f[a] = 0) /\ (a \in Ages => f[a] = real[a])

LEMMA RecordsStep == TypeOK /\ RecordsInv /\ [Next]_vars => RecordsInv'
<1> SUFFICES ASSUME TypeOK, RecordsInv, [Next]_vars, Undisturbed
             PROVE  Exact(file)' /\ (phase' # "down" => ages' = real')
  BY SetupStep DEF setupVars, RecordsInv, Undisturbed, Exact
<1>e. Exact(file) /\ (phase # "down" => ages = real)
  BY DEF RecordsInv, Exact
<1>t. ages \in [Ages -> Nat] /\ real \in [Ages -> Nat] /\ file \in [FileAges -> Nat]
  BY DEF TypeOK
<1> USE Bounds, AgesInFile
<1>1. CASE Tick
  <2>1. real' = Shifted(real, 1) /\ file' = Shifted(file, 1) /\ ages' = Shifted(ages, 1) /\ phase' = phase
    BY <1>1 DEF Tick
  <2>2. phase' # "down" => ages' = real'
    BY <2>1, <1>e
  <2>3. ASSUME NEW a \in FileAges PROVE (a < 0 => file'[a] = 0) /\ (a \in Ages => file'[a] = real'[a])
    <3>1. a - 1 < a /\ a \in Int /\ (a - 1 \in Ages => a \in Ages \/ a >= Window)
      BY DEF FileAges, Ages
    <3>2. file'[a] = IF a - 1 \in FileAges THEN file[a - 1] ELSE 0
      BY <2>1, <1>t DEF Shifted
    <3>3. a \in Ages => real'[a] = IF a - 1 \in Ages THEN real[a - 1] ELSE 0
      BY <2>1, <1>t DEF Shifted
    <3>4. ASSUME a < 0 PROVE file'[a] = 0
      BY <3>2, <3>4, <1>e DEF Exact, FileAges
    <3>5. ASSUME a \in Ages PROVE file'[a] = real'[a]
      <4>1. CASE a = 0
        BY <4>1, <3>2, <3>3, <3>5, <1>e DEF Exact, Ages, FileAges
      <4>2. CASE a # 0
        <5>1. a - 1 \in Ages /\ a - 1 \in FileAges
          BY <4>2, <3>5 DEF Ages, FileAges
        <5> QED
          BY <5>1, <3>2, <3>3, <3>5, <1>e DEF Exact
      <4> QED
        BY <4>1, <4>2
    <3> QED
      BY <3>4, <3>5
  <2> QED
    BY <2>2, <2>3 DEF Exact
<1>2. CASE Construct
  <2>1. ages' = Load /\ real' = real /\ file' = file
    BY <1>2 DEF Construct
  <2>2. Load = real
    BY <1>e, <1>t DEF Load, Exact
  <2> QED
    BY <2>1, <2>2, <1>e DEF Exact
<1>3. CASE Accept
  <2>1. ages' = Recorded(ages) /\ real' = Recorded(real) /\ ages = real
    BY <1>3, <1>e DEF Accept
  <2>2. file' = [a \in FileAges |-> IF a \in Ages THEN ages'[a] ELSE 0]
    BY <1>3 DEF Accept, Save, Undisturbed
  <2>3. ASSUME NEW a \in FileAges PROVE (a < 0 => file'[a] = 0) /\ (a \in Ages => file'[a] = real'[a])
    BY <2>1, <2>2 DEF Ages, FileAges
  <2> QED
    BY <2>1, <2>3 DEF Exact
<1>4. CASE Crash
  <2>1. file' = file /\ real' = real /\ phase' = "down"
    BY <1>4 DEF Crash, Undisturbed
  <2> QED
    BY <2>1, <1>e DEF Exact
<1>5. CASE file' = file /\ real' = real /\ ages' = ages /\ (phase' # "down" => phase # "down")
  BY <1>5, <1>e DEF Exact
<1>6. CASE ClockJumps
  BY <1>6 DEF ClockJumps, Undisturbed
<1> QED
  BY <1>1, <1>2, <1>3, <1>4, <1>5, <1>6 DEF Next, StartUp, Cycle, vars, limiterVars, APIChanges, Authenticate,
     FirstCheck, Configure, Reauth, RefreshConfig, DriftTick, FinishWork, Wake, Stop

-----------------------------------------------------------------------------
(***************************************************************************)
(* The theorems.                                                           *)
(***************************************************************************)

LEMMA Initially == Init => IInv
<1> SUFFICES ASSUME Init PROVE IInv
  OBVIOUS
<1>1. TypeOK
  <2>1. NoRecords \in [Ages -> Nat] /\ file \in [FileAges -> Nat]
    BY DEF Init, NoRecords
  <2>2. limit \in Values
    BY DefaultInBounds, NumberTyped DEF Init, NumericKeys
  <2>3. skew \in -MaxSkew .. MaxSkew
    BY Bounds DEF Init
  <2>4. up \in BOOLEAN /\ refusing \in BOOLEAN /\ client \in BOOLEAN /\ available \in BOOLEAN
    BY Zenon DEF Init
  <2>5. ages \in [Ages -> Nat] /\ real \in [Ages -> Nat] /\ config \in [Keys -> Values]
    BY <2>1, NoConfigTyped DEF Init
  <2>6. /\ elapsed \in 0 .. MaxCycle /\ attempts \in 0 .. 2 /\ token \in 0 .. TokenLife \union {None}
        /\ sinceFetch \in 0 .. RefreshEvery /\ sinceCheck \in 0 .. CheckEvery
    BY Bounds DEF Init
  <2>7. answer \in Responses /\ install \in Installs /\ faults \in FaultModels /\ phase = "down"
    BY DEF Init
  <2> QED
    BY <2>1, <2>2, <2>3, <2>4, <2>5, <2>6, <2>7 DEF TypeOK
<1>2. ConfigInv /\ LimitInv
  BY NoConfigTyped, DefaultInBounds DEF Init, ConfigInv, LimitInv, Number, InBounds, NumericKeys
<1>3. APIInv /\ ClientInv /\ CycleInv /\ TokenInv
  BY DEF Init, APIInv, ClientInv, CycleInv, TokenInv
<1>4. RecordsInv
  BY DEF Init, RecordsInv, NoRecords
<1> QED
  BY <1>1, <1>2, <1>3, <1>4 DEF IInv

THEOREM Invariance == Spec => []IInv
<1>1. Init => IInv
  BY Initially
<1>2. IInv /\ [Next]_vars => IInv'
  BY TypeStep, ConfigStep, APIStep, SessionStep, RecordsStep DEF IInv
<1> QED
  BY <1>1, <1>2, PTL DEF Spec

(***************************************************************************)
(* Every variable keeps its type, whatever the Central API, the clock and  *)
(* the disk do.                                                            *)
(***************************************************************************)
THEOREM TypeCorrect == Spec => []TypeOK
<1>1. IInv => TypeOK
  BY DEF IInv
<1> QED
  BY <1>1, Invariance, PTL

(***************************************************************************)
(* A number the validator uses is within the bounds of remote_config.py,   *)
(* and the minimum version at most MajorDelta majors ahead, for any        *)
(* responses, any bounds and any settings of the operator: the clamp, the  *)
(* casts and the defaults together let nothing else through.               *)
(***************************************************************************)
THEOREM SettingsAlwaysInBounds == Spec => []SettingsInBounds
<1>1. IInv => SettingsInBounds
  <2> SUFFICES ASSUME IInv PROVE SettingsInBounds
    OBVIOUS
  <2>t. config \in [Keys -> Values] /\ install \in Installs
    BY DEF IInv, TypeOK
  <2>c. ConfigInv /\ LimitInv
    BY DEF IInv
  <2>1. Setting("rate_limit").kind = "number" => InBounds("rate_limit", Setting("rate_limit"))
    <3>1. Setting("rate_limit") = IF config["rate_limit"].kind = "absent" THEN Number(Default["rate_limit"])
                                  ELSE config["rate_limit"]
      BY DEF Setting, RemoteOnly, Get
    <3>2. InBounds("rate_limit", Number(Default["rate_limit"]))
      BY DefaultInBounds DEF Number, InBounds, NumericKeys
    <3> QED
      BY <2>c, <3>1, <3>2 DEF ConfigInv, Sanitized, NumericKeys
  <2>2. Setting("freshness") = IF install.environment = "local" \/ config["freshness"].kind # "number"
                               THEN Number(LocalConfig.WORK_ID_FRESHNESS_SECONDS) ELSE config["freshness"]
    BY DEF Setting, Overridable, Resolve, Local
  <2>3. \/ InBounds("freshness", Setting("freshness"))
        \/ /\ "WORK_ID_FRESHNESS_SECONDS" \in DOMAIN install.env
           /\ install.environment = "local" \/ config["freshness"].kind # "number"
    <3>1. "WORK_ID_FRESHNESS_SECONDS" \notin DOMAIN install.env =>
            InBounds("freshness", Number(LocalConfig.WORK_ID_FRESHNESS_SECONDS))
      BY <2>t, LocalTyped, DefaultInBounds DEF Number, InBounds, NumericKeys
    <3> QED
      BY <2>c, <2>2, <3>1 DEF ConfigInv, Sanitized, NumericKeys
  <2>4. Setting("freshness").kind = "number"
    BY <2>2 DEF Number
  <2>5. Setting("burn_percentage").kind = "number" => InBounds("burn_percentage", Setting("burn_percentage"))
    <3>1. \/ Setting("burn_percentage") = Number(LocalConfig.BURN_PERCENTAGE)
          \/ Setting("burn_percentage") = config["burn_percentage"]
      BY DEF Setting, Overridable, Resolve, Local
    <3>2. InBounds("burn_percentage", Number(LocalConfig.BURN_PERCENTAGE))
      BY <2>t, LocalTyped DEF Number, InBounds
    <3> QED
      BY <2>c, <3>1, <3>2 DEF ConfigInv, Sanitized, NumericKeys
  <2>6. Setting("min_miner_version").kind = "version" /\ Setting("min_miner_version").num <= LocalMajor + MajorDelta
    <3>1. Setting("min_miner_version") = IF config["min_miner_version"].kind = "absent" THEN FallbackVersion
                                         ELSE config["min_miner_version"]
      BY DEF Setting, RemoteOnly
    <3>2. FallbackVersion.kind = "version" /\ FallbackVersion.num <= LocalMajor + MajorDelta
      BY ServiceAssumption DEF FallbackVersion
    <3> QED
      BY <2>c, <3>1, <3>2 DEF ConfigInv, Sanitized
  <2> QED
    BY <2>c, <2>1, <2>3, <2>4, <2>5, <2>6 DEF SettingsInBounds, LimitInv, NumericKeys
<1> QED
  BY <1>1, Invariance, PTL

(***************************************************************************)
(* While the API answers and does not refuse, a cycle has a valid token    *)
(* for as long as the buffer at least, for any lifetime, any buffer        *)
(* shorter than it and cycles of any length.                               *)
(***************************************************************************)
THEOREM TokensLastTheBuffer == Spec => []TokenLastsBuffer
<1>1. IInv => TokenLastsBuffer
  BY Bounds DEF IInv, TypeOK, TokenInv, TokenLastsBuffer
<1> QED
  BY <1>1, Invariance, PTL

(***************************************************************************)
(* Accepting a submission never takes a miner over its limit within a      *)
(* window of true time, across restarts and crashes, for any window and    *)
(* any limit: the entries in memory and in the file are the true ones.     *)
(***************************************************************************)
THEOREM BudgetNeverExceeded == Spec => BudgetKept
<1> DEFINE Kept == Undisturbed /\ real'[0] > real[0] => Total(real) < limit.num
<1>1. IInv /\ [Next]_vars => [Kept]_vars
  <2> SUFFICES ASSUME IInv, Next, Undisturbed, real'[0] > real[0] PROVE Total(real) < limit.num
    OBVIOUS
  <2>t. real \in [Ages -> Nat] /\ 0 \in Ages
    BY Bounds DEF IInv, TypeOK, Ages
  <2>1. CASE Accept
    <3>1. ages = real
      BY <2>1 DEF IInv, RecordsInv, Accept
    <3> QED
      BY <2>1, <3>1 DEF Accept, UnderLimit
  <2>2. CASE Tick
    <3>1. real'[0] = 0
      BY <2>2, <2>t DEF Tick, Shifted, Ages
    <3> QED
      BY <2>t, <3>1
  <2>3. CASE real' = real
    BY <2>3, <2>t
  <2> QED
    BY <2>1, <2>2, <2>3 DEF Next, StartUp, Cycle, limiterVars, APIChanges, ClockJumps, Construct, Authenticate,
       FirstCheck, Configure, Reauth, RefreshConfig, DriftTick, FinishWork, Wake, Stop, Crash
<1>2. [][Kept]_vars => BudgetKept
  BY PTL DEF BudgetKept, Undisturbed
<1> QED
  BY <1>1, <1>2, Invariance, PTL DEF Spec

=============================================================================
