-------------------------- MODULE ValidatorService --------------------------
(***************************************************************************)
(* What a validator keeps going around its cycle: preflight and start-up,  *)
(* the session with the Central API, the remote config, the clock check    *)
(* and the rate limiter with its file, over restarts and crashes.          *)
(*                                                                         *)
(* Times are kept as ages, in ticks, cut off where the code no longer      *)
(* tells them apart.  The work of a cycle is reduced to the rate limiter,  *)
(* for one miner; the other modules have the rest.                         *)
(***************************************************************************)
EXTENDS Integers, FiniteSetsExt

CONSTANTS
  Responses,     \* the configs the Central API may serve: [Keys -> Values]
  Lo, Hi,        \* _BOUNDS
  Default,       \* DEFAULT_RATE_LIMIT_PER_UID_PER_TEMPO, and the numbers of _COMMON
  MaxNumber,     \* bound: the numbers served
  LocalMajor,    \* the major of PROTOCOL_VERSION
  MajorDelta,    \* _MAX_MAJOR_DELTA
  Installs,      \* ENVIRONMENT, and the other variables that are set and not empty
  RefreshEvery,  \* refresh_interval
  TokenLife,     \* how long set_token takes a token to live
  ReauthBuffer,  \* _REAUTH_BUFFER_SECONDS
  CheckEvery,    \* CLOCK_DRIFT_CHECK_INTERVAL
  Window,        \* the rate limiter's window, TEMPO_SECONDS
  MaxCycle,      \* bound: ticks from one re-authentication to the next
  MaxSkew,       \* bound: how far the clock may be off
  MaxRecords,    \* bound: accepted submissions in a window
  FaultModels,   \* the sets of faults a behaviour may be subject to
  None           \* no token

\* A remote-only key, one cast with int, one cast with float, and a version.
NumericKeys == {"rate_limit", "freshness", "burn_percentage"}
Keys == NumericKeys \union {"min_miner_version"}

Values ==
  [kind : {"number", "version", "nan", "text", "none", "empty", "absent"}, num : 0 .. MaxNumber]

ASSUME ServiceAssumption ==
  /\ Lo \in [NumericKeys -> Nat] /\ Hi \in [NumericKeys -> Nat] /\ Default \in [NumericKeys -> Nat]
  /\ MaxNumber \in Nat /\ LocalMajor \in 1 .. MaxNumber /\ MajorDelta \in Nat
  /\ \A k \in NumericKeys : Lo[k] <= Default[k] /\ Default[k] <= Hi[k] /\ Hi[k] <= MaxNumber
  /\ Responses \subseteq [Keys -> Values]
  /\ \A i \in Installs :
       /\ DOMAIN i = {"environment", "env"} /\ i.environment \in {"local", "testnet", "mainnet"}
       /\ DOMAIN i.env \subseteq {"BT_SUBTENSOR_NETWORK", "TESTLAB_MODE", "CENTRAL_API_URL", "LLM_API_KEY",
                             "LLM_BASE_URL", "BURN_PERCENTAGE", "WORK_ID_FRESHNESS_SECONDS"}
       /\ "BURN_PERCENTAGE" \in DOMAIN i.env => i.env["BURN_PERCENTAGE"] \in 0 .. MaxNumber
       /\ "WORK_ID_FRESHNESS_SECONDS" \in DOMAIN i.env =>
            i.env["WORK_ID_FRESHNESS_SECONDS"] \in 0 .. MaxNumber
  /\ RefreshEvery \in Nat \ {0} /\ CheckEvery \in Nat \ {0} /\ Window \in Nat \ {0}
  /\ TokenLife \in Nat /\ ReauthBuffer \in Nat /\ MaxCycle \in Nat \ {0}
  /\ ReauthBuffer < TokenLife
  /\ MaxSkew \in Nat /\ MaxRecords \in Nat
  /\ None \notin Int
  /\ FaultModels \subseteq SUBSET {"outage", "refusal", "answers", "clock", "undated", "crash", "torn", "disk"}

VARIABLES
  up,          \* Central API: it answers
  refusing,    \* Central API: it rejects this validator's hotkey with a 403
  answer,      \* Central API: the config it serves
  skew,        \* the host's clock minus the Central API's
  install,     \* the operator's settings; never changes
  phase,       \* where the validator is
  elapsed,     \* ticks since the cycle began
  attempts,    \* authentication attempts at start-up
  client,      \* whether api_client is not None
  token,       \* the age of the token, or None
  sinceFetch,  \* now - _last_fetch
  available,   \* api_available: the last fetch did not fail
  config,      \* RemoteConfig._config
  sinceCheck,  \* now - _last_clock_drift_check
  limit,       \* RateLimiter.max_submissions
  ages,        \* RateLimiter._timestamps: how many are of each age within the window
  file,        \* the rate limiter's file: how many are of each age by the host's clock
  real,        \* history: how many submissions are of each true age
  faults       \* the faults this behaviour is subject to; never changes

apiVars == <<up, refusing, answer>>
sessionVars == <<client, token, attempts>>
configVars == <<sinceFetch, available, config>>
limiterVars == <<limit, ages, file, real>>
setupVars == <<install, faults>>
vars == <<apiVars, skew, setupVars, phase, elapsed, sessionVars, configVars, sinceCheck, limiterVars>>

Ages == 0 .. Window - 1

\* Entries older than this are out of the window by any clock from now on.
FileAges == -2 * MaxSkew .. Window + 2 * MaxSkew

TypeOK ==
  /\ up \in BOOLEAN /\ refusing \in BOOLEAN
  /\ answer \in Responses
  /\ skew \in -MaxSkew .. MaxSkew
  /\ install \in Installs
  /\ phase \in {"down", "authenticate", "check", "configure", "reauth", "refresh", "drift", "work", "sleep"}
  /\ elapsed \in 0 .. MaxCycle
  /\ attempts \in 0 .. 2
  /\ client \in BOOLEAN
  /\ token \in 0 .. TokenLife \union {None}
  /\ sinceFetch \in 0 .. RefreshEvery
  /\ available \in BOOLEAN
  /\ config \in [Keys -> Values]
  /\ sinceCheck \in 0 .. CheckEvery
  /\ limit \in Values
  /\ ages \in [Ages -> Nat]
  /\ file \in [FileAges -> Nat]
  /\ real \in [Ages -> Nat]
  /\ faults \in FaultModels

-----------------------------------------------------------------------------
(***************************************************************************)
(* The local config, of which the modelled code reads these settings.      *)
(***************************************************************************)

\* _COMMON, and what a profile adds to it.
Profile(network, testlab, url) ==
  [BT_SUBTENSOR_NETWORK |-> network, TESTLAB_MODE |-> testlab, CENTRAL_API_URL |-> url,
   LLM_API_KEY |-> "", LLM_BASE_URL |-> "external",
   BURN_PERCENTAGE |-> Default["burn_percentage"],
   WORK_ID_FRESHNESS_SECONDS |-> Default["freshness"]]

PROFILES ==
  [local |-> Profile("test", "1", "localhost"), testnet |-> Profile("test", "0", "staging"),
   mainnet |-> Profile("finney", "0", "production")]

\* _get: a variable, if set and not empty, wins over the profile.
EnvOr(i, k) == IF k \in DOMAIN i.env THEN i.env[k] ELSE PROFILES[i.environment][k]

\* Variant: only the upper bound is enforced.
AtMost(k, n) == IF n > Hi[k] THEN Hi[k] ELSE n

Bounded(k, n) == IF n < Lo[k] THEN Lo[k] ELSE IF n > Hi[k] THEN Hi[k] ELSE n

\* LocalConfig, which is evaluated once for an install.  Of the numbers, only
\* the burn percentage is bounded, as a remote one is.
LocalConfigs ==
  [i \in Installs |->
    [NETWORK |-> EnvOr(i, "BT_SUBTENSOR_NETWORK"),
     TESTLAB_MODE |-> EnvOr(i, "TESTLAB_MODE") = "1",
     CENTRAL_API_URL |-> EnvOr(i, "CENTRAL_API_URL"),
     LLM_API_KEY |-> EnvOr(i, "LLM_API_KEY"),
     LLM_BASE_URL |-> EnvOr(i, "LLM_BASE_URL"),
     BURN_PERCENTAGE |-> Bounded("burn_percentage", EnvOr(i, "BURN_PERCENTAGE")),
     WORK_ID_FRESHNESS_SECONDS |-> EnvOr(i, "WORK_ID_FRESHNESS_SECONDS")]]

LocalConfig == LocalConfigs[install]

Local(k) ==
  IF k = "freshness" THEN LocalConfig.WORK_ID_FRESHNESS_SECONDS ELSE LocalConfig.BURN_PERCENTAGE

-----------------------------------------------------------------------------
(***************************************************************************)
(* The remote config: what is taken from a response, and what is read.     *)
(***************************************************************************)

Number(n) == [kind |-> "number", num |-> n]
Absent == [kind |-> "absent", num |-> 0]

\* What float() refuses stays as it is, and so does NaN: no comparison
\* bounds it, and int() refuses it.
ClampNumber(k, v) == IF v.kind = "number" THEN Number(Bounded(k, v.num)) ELSE v

\* _VERSION_FALLBACK, "1.0.0".
FallbackVersion == [kind |-> "version", num |-> 1]

ClampVersion(v) ==
  IF v.kind = "version" /\ v.num <= LocalMajor + MajorDelta THEN v ELSE FallbackVersion

Clamp(raw) ==
  [k \in Keys |->
     CASE raw[k].kind = "absent" -> Absent
       [] raw[k].kind # "absent" /\ k = "min_miner_version" -> ClampVersion(raw[k])
       [] OTHER -> ClampNumber(k, raw[k])]

\* get: a remote-only key has a default only if the response lacks it.
Get(k) == IF config[k].kind = "absent" THEN Number(Default[k]) ELSE config[k]

\* _resolve with the caster int or float, whose failure falls back to local:
\* float casts NaN, int does not.
Resolve(k, casts) ==
  IF install.environment = "local" \/ config[k].kind \notin casts THEN Number(Local(k)) ELSE config[k]

\* The remote-only properties.
RemoteOnly(k) ==
  IF k = "rate_limit" THEN Get(k)
  ELSE IF config[k].kind = "absent" THEN FallbackVersion ELSE config[k]

\* The properties with a local value of their own.
Overridable(k) ==
  Resolve(k, IF k = "freshness" THEN {"number"} ELSE {"number", "nan"})

Setting(k) == IF k \in {"freshness", "burn_percentage"} THEN Overridable(k) ELSE RemoteOnly(k)

\* Variant: a failed fetch is as good as one within the interval.
RefreshForgiving ==
  IF sinceFetch < RefreshEvery \/ ~ up THEN UNCHANGED configVars
  ELSE /\ sinceFetch' = 0 /\ available' = TRUE /\ UNCHANGED config

\* refresh: the fetch counts as done before it is tried.  Its client stays
\* when the validator's own is gone.
Refresh ==
  IF sinceFetch < RefreshEvery THEN UNCHANGED configVars
  ELSE /\ sinceFetch' = 0
       /\ available' = up
       /\ config' = IF up THEN Clamp(answer) ELSE config

-----------------------------------------------------------------------------
(***************************************************************************)
(* The rate limiter.  Entries as old as the window count nowhere any more  *)
(* and are dropped as they get there.                                      *)
(***************************************************************************)

NoRecords == [a \in Ages |-> 0]

Recorded(f) == [f EXCEPT ![0] = @ + 1]

Total(f) == MapThenSumSet(LAMBDA a : f[a], Ages)

\* The entries look older by so many ticks.
Shifted(f, by) == [a \in DOMAIN f |-> IF a - by \in DOMAIN f THEN f[a - by] ELSE 0]

\* `len < self.max_submissions` holds for no NaN, and raises TypeError for
\* anything else, which ends the cycle.
UnderLimit == limit.kind = "number" /\ Total(ages) < limit.num

\* _save, whose OSError is only logged.
Save(f) ==
  \/ file' = [a \in FileAges |-> IF a \in Ages THEN f[a] ELSE 0]
  \/ "disk" \in faults /\ UNCHANGED file

\* Variant: entries with a negative age are loaded.
LoadAny == [a \in {b \in FileAges : b < Window} |-> file[a]]

\* Variant: nothing is loaded.
LoadNone == NoRecords

\* _load: neither future nor expired entries.
Load == [a \in Ages |-> file[a]]

-----------------------------------------------------------------------------
(***************************************************************************)
(* The Central API, the clock and time.                                    *)
(***************************************************************************)

Flips(fault, x) == x' = x \/ (fault \in faults /\ x' = ~ x)

APIChanges ==
  /\ Flips("outage", up) /\ Flips("refusal", refusing)
  /\ answer' = answer \/ ("answers" \in faults /\ answer' \in Responses)
  /\ apiVars' # apiVars
  /\ UNCHANGED <<skew, setupVars, phase, elapsed, sessionVars, configVars, sinceCheck, limiterVars>>

\* The host's clock is set: the file's entries look older or younger.
ClockJumps ==
  /\ "clock" \in faults
  /\ skew' \in -MaxSkew .. MaxSkew \ {skew}
  /\ file' = Shifted(file, skew' - skew)
  /\ UNCHANGED <<apiVars, setupVars, phase, elapsed, sessionVars, configVars, sinceCheck, limit, ages, real>>

UpTo(most, n) == IF n < most THEN n + 1 ELSE most

\* Time passes while responses are validated, while the loop sleeps and
\* while the process is down.
Tick ==
  /\ phase = "down" \/ (phase \in {"work", "sleep"} /\ elapsed < MaxCycle)
  /\ elapsed' = UpTo(MaxCycle, elapsed)
  /\ token' = IF token = None THEN None ELSE UpTo(TokenLife, token)
  /\ sinceFetch' = UpTo(RefreshEvery, sinceFetch)
  /\ sinceCheck' = UpTo(CheckEvery, sinceCheck)
  /\ ages' = Shifted(ages, 1) /\ real' = Shifted(real, 1) /\ file' = Shifted(file, 1)
  /\ UNCHANGED <<apiVars, skew, setupVars, phase, attempts, client, available, config, limit>>

-----------------------------------------------------------------------------
(***************************************************************************)
(* Start-up.                                                               *)
(***************************************************************************)

\* _check_testlab_safety
UnsafeTestlab == LocalConfig.TESTLAB_MODE /\ LocalConfig.NETWORK = "finney"

\* The settings with which the constructor raises; the LLM's URL is still the
\* local one when it is looked at.
Misconfigured ==
  \/ UnsafeTestlab
  \/ /\ install.environment # "local"
     /\ \/ LocalConfig.CENTRAL_API_URL = "localhost"
        \/ LocalConfig.LLM_API_KEY = "" /\ LocalConfig.LLM_BASE_URL # "localhost"

NoConfig == [k \in Keys |-> Absent]

\* The constructor, after which the first fetch is due unless the host
\* itself came up less than an interval ago (_last_fetch is 0).
Construct ==
  /\ phase = "down" /\ ~ Misconfigured
  /\ phase' = "authenticate"
  /\ elapsed' = 0 /\ attempts' = 0
  /\ client' = TRUE /\ token' = None
  /\ sinceFetch' \in {0, RefreshEvery} /\ available' = TRUE /\ config' = NoConfig
  /\ limit' = Number(Default["rate_limit"]) /\ ages' = Load
  /\ UNCHANGED <<apiVars, skew, setupVars, sinceCheck, file, real>>

\* authenticate: the token is taken to live from now, whatever expires_at says.
Authenticated == up /\ ~ refusing /\ token' = 0

\* Start-up tries three times, a 403 ends the client for good.
Authenticate ==
  /\ phase = "authenticate"
  /\ \/ Authenticated /\ phase' = "check" /\ UNCHANGED <<client, attempts>>
     \/ up /\ refusing /\ client' = FALSE /\ phase' = "check" /\ UNCHANGED <<token, attempts>>
     \/ /\ ~ up
        /\ IF attempts < 2 THEN attempts' = attempts + 1 /\ UNCHANGED phase
           ELSE phase' = "check" /\ attempts' = 0
        /\ UNCHANGED <<client, token>>
  /\ UNCHANGED <<apiVars, skew, setupVars, elapsed, configVars, sinceCheck, limiterVars>>

\* _check_clock_drift raises SystemExit; without an answer it is skipped.
Drifted ==
  up /\ (IF skew < 0 THEN -skew ELSE skew) > Setting("freshness").num

\* What the check finds: "undated", it is skipped as well for an answer
\* without a Date header it can read.
Checks == {Drifted} \union (IF "undated" \in faults THEN {FALSE} ELSE {})

FirstCheck ==
  /\ phase = "check"
  /\ \E drifted \in Checks : phase' = IF drifted THEN "down" ELSE "configure"
  /\ UNCHANGED <<apiVars, skew, setupVars, elapsed, sessionVars, configVars, sinceCheck, limiterVars>>

\* The first refresh, without which the runner, the judge and the pipeline
\* are built from the defaults.
Configure ==
  /\ phase = "configure"
  /\ IF client THEN Refresh ELSE UNCHANGED configVars
  /\ sinceCheck' = 0
  /\ phase' = "reauth" /\ elapsed' = 0
  /\ UNCHANGED <<apiVars, skew, setupVars, sessionVars, limiterVars>>

-----------------------------------------------------------------------------
(***************************************************************************)
(* The cycle.                                                              *)
(***************************************************************************)

\* Variant: the token is renewed only when it has expired.
ReauthExpired == token \notin 0 .. TokenLife - 1

NeedsReauth == token \notin 0 .. TokenLife - ReauthBuffer - 1

\* A failed re-authentication is only logged.
Reauth ==
  /\ phase = "reauth"
  /\ \/ client /\ NeedsReauth /\ Authenticated
     \/ (client /\ NeedsReauth => ~ up \/ refusing) /\ UNCHANGED token
  /\ phase' = "refresh"
  /\ UNCHANGED <<apiVars, skew, setupVars, elapsed, client, attempts, configVars, sinceCheck, limiterVars>>

\* refresh, then update_config of the rate limiter.
RefreshConfig ==
  /\ phase = "refresh"
  /\ Refresh
  /\ limit' = Setting("rate_limit")'
  /\ phase' = "drift"
  /\ UNCHANGED <<apiVars, skew, setupVars, elapsed, sessionVars, sinceCheck, ages, file, real>>

\* Variant: the check is put off each time it is looked at.
DriftTickLate ==
  /\ phase = "drift"
  /\ sinceCheck' = 0
  /\ \E drifted \in Checks :
       phase' = IF sinceCheck > CheckEvery /\ drifted THEN "down" ELSE "work"
  /\ UNCHANGED <<apiVars, skew, setupVars, elapsed, sessionVars, configVars, limiterVars>>

\* _tick_clock_drift_check: once an interval, counted as done beforehand.
DriftTick ==
  /\ phase = "drift"
  /\ IF sinceCheck < CheckEvery THEN UNCHANGED sinceCheck /\ phase' = "work"
     ELSE /\ sinceCheck' = 0
          /\ \E drifted \in Checks : phase' = IF drifted THEN "down" ELSE "work"
  /\ UNCHANGED <<apiVars, skew, setupVars, elapsed, sessionVars, configVars, limiterVars>>

\* A miner of this protocol's major passes the minimum version only if that
\* has the same major: check_compatibility rejects any difference.
Admitted == Setting("min_miner_version").num = LocalMajor

\* A submission within the limit passes every gate and is recorded.
Accept ==
  /\ phase = "work" /\ Admitted /\ UnderLimit /\ Total(real) < MaxRecords
  /\ ages' = Recorded(ages) /\ real' = Recorded(real)
  /\ Save(ages')
  /\ UNCHANGED <<apiVars, skew, setupVars, phase, elapsed, sessionVars, configVars, sinceCheck, limit>>

\* The responses are validated, or an exception has ended the cycle, or no
\* miner serves: the loop sleeps.
FinishWork ==
  /\ phase = "work"
  /\ phase' = "sleep"
  /\ UNCHANGED <<apiVars, skew, setupVars, elapsed, sessionVars, configVars, sinceCheck, limiterVars>>

\* The next cycle, after a sleep that takes time.
Wake ==
  /\ phase = "sleep" /\ elapsed > 0
  /\ phase' = "reauth" /\ elapsed' = 0
  /\ UNCHANGED <<apiVars, skew, setupVars, sessionVars, configVars, sinceCheck, limiterVars>>

\* `while not self.should_exit`: a signal ends the loop after the cycle.
Stop ==
  /\ phase = "sleep"
  /\ phase' = "down"
  /\ UNCHANGED <<apiVars, skew, setupVars, elapsed, sessionVars, configVars, sinceCheck, limiterVars>>

\* The process is killed; "torn": in write_text, which leaves a file that
\* _load cannot parse.
Crash ==
  /\ phase # "down"
  /\ \/ "crash" \in faults /\ UNCHANGED file
     \/ "torn" \in faults /\ phase = "work" /\ file' = [a \in FileAges |-> 0]
  /\ phase' = "down"
  /\ UNCHANGED <<apiVars, skew, setupVars, elapsed, sessionVars, configVars, sinceCheck, limit, ages, real>>

-----------------------------------------------------------------------------
Init ==
  /\ up = TRUE /\ refusing = FALSE
  /\ answer \in Responses /\ install \in Installs /\ faults \in FaultModels
  /\ skew = 0
  /\ phase = "down" /\ elapsed = 0 /\ attempts = 0
  /\ client = FALSE /\ token = None
  /\ sinceFetch = 0 /\ available = TRUE /\ config = NoConfig
  /\ sinceCheck = 0
  /\ limit = Number(Default["rate_limit"]) /\ ages = NoRecords /\ file = [a \in FileAges |-> 0] /\ real = NoRecords

StartUp == Construct \/ Authenticate \/ FirstCheck \/ Configure

Cycle == Reauth \/ RefreshConfig \/ DriftTick \/ FinishWork \/ Wake

Next == APIChanges \/ ClockJumps \/ Tick \/ StartUp \/ Cycle \/ Accept \/ Stop \/ Crash

(***************************************************************************)
(* The process runs on, time passes, and a supervisor starts the process   *)
(* again.                                                                  *)
(***************************************************************************)
Spec == Init /\ [][Next]_vars /\ WF_vars(StartUp) /\ WF_vars(Cycle) /\ WF_vars(Tick)

-----------------------------------------------------------------------------
(***************************************************************************)
(* Properties.                                                             *)
(***************************************************************************)

InBounds(k, v) == v.num \in Lo[k] .. Hi[k]

(***************************************************************************)
(* Whatever the Central API serves, a number the validator uses is within  *)
(* its bounds, an integer setting is always such a number, and the minimum *)
(* version is at most MajorDelta majors ahead.  Only the operator's own    *)
(* freshness window may be out of bounds, where the API gives none.        *)
(***************************************************************************)
SettingsInBounds ==
  /\ \A k \in NumericKeys : Setting(k).kind = "number" =>
       \/ InBounds(k, Setting(k))
       \/ /\ k = "freshness" /\ "WORK_ID_FRESHNESS_SECONDS" \in DOMAIN install.env
          /\ install.environment = "local" \/ config[k].kind # "number"
  /\ limit.kind = "number" => InBounds("rate_limit", limit)
  /\ Setting("freshness").kind = "number"
  /\ Setting("min_miner_version").kind = "version"
  /\ Setting("min_miner_version").num <= LocalMajor + MajorDelta

(***************************************************************************)
(* While the API answers and does not refuse, a cycle has a valid token    *)
(* for as long as the buffer at least, however long the cycles before it   *)
(* took and though re-authentication is tried only once, at the beginning  *)
(* of each.  Nothing keeps a cycle from taking longer: its token may then  *)
(* run out, until the next one begins.                                     *)
(***************************************************************************)
TokenLastsBuffer ==
  /\ faults \intersect {"outage", "refusal"} = {}
  /\ phase \in {"refresh", "drift", "work", "sleep"} /\ elapsed <= ReauthBuffer
  => token # None /\ token < TokenLife

(***************************************************************************)
(* Accepting a submission never takes a miner over its limit within a      *)
(* window of true time, across restarts and crashes, unless the clock is   *)
(* set, the disk fails or a crash cuts the file short.                     *)
(***************************************************************************)
BudgetKept ==
  [][faults \intersect {"clock", "disk", "torn"} = {} /\ real'[0] > real[0] =>
       Total(real) < limit.num]_vars

Running == phase \notin {"down", "authenticate", "check", "configure"}

(***************************************************************************)
(* A validator that stays up, and was not refused when it started, gets    *)
(* the current config, and a token valid for as long as the buffer in      *)
(* every cycle, once the API stays up and serves them, however long it was *)
(* away and whatever state it left.                                        *)
(***************************************************************************)
Reconnects ==
  <>[](Running /\ client /\ up /\ ~ refusing) /\ "answers" \notin faults =>
    <>[](/\ token # None /\ available /\ config = Clamp(answer)
         /\ phase # "reauth" /\ elapsed <= ReauthBuffer => token < TokenLife)

(***************************************************************************)
(* A clock that stays wrong by more than any window in use is noticed      *)
(* while the API answers with the date: the validator does not go on for   *)
(* ever rejecting every submission as stale.                               *)
(***************************************************************************)
DriftIsCaught ==
  /\ "undated" \notin faults
  /\ <>[](up /\ \A window \in {Hi["freshness"], Local("freshness")} : skew > window \/ -skew > window)
  => []<>(phase = "down")

=============================================================================
