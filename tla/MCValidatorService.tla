------------------------- MODULE MCValidatorService -------------------------
(***************************************************************************)
(* Small instances of ValidatorService: one tick is about an hour.         *)
(***************************************************************************)
EXTENDS ValidatorService, TLC

V(kind, num) == [kind |-> kind, num |-> num]

Config(limited, fresh, burn, version) ==
  "rate_limit" :> limited @@ "freshness" :> fresh @@ "burn_percentage" :> burn
    @@ "min_miner_version" :> version

\* A config within bounds whose minimum version is one major ahead, one out
\* of bounds and one of junk.
SmallResponses ==
  {Config(V("number", 0), V("number", 0), V("empty", 0), V("version", 2)),
   Config(V("number", 4), V("number", 4), V("number", 4), V("version", 4)),
   Config(V("nan", 0), V("text", 0), V("nan", 0), V("number", 4))}

SmallLo == "rate_limit" :> 1 @@ "freshness" :> 0 @@ "burn_percentage" :> 0
SmallHi == "rate_limit" :> 2 @@ "freshness" :> 1 @@ "burn_percentage" :> 1
SmallDefault == "rate_limit" :> 1 @@ "freshness" :> 1 @@ "burn_percentage" :> 1

Install(environment, env) == [environment |-> environment, env |-> env]

NoEnv == [k \in {} |-> ""]

\* On mainnet with a burn percentage out of bounds, locally with a freshness
\* window out of bounds, and four that do not start.
SmallInstalls ==
  {Install("mainnet", "LLM_API_KEY" :> "set" @@ "BURN_PERCENTAGE" :> 4),
   Install("local", "WORK_ID_FRESHNESS_SECONDS" :> 2),
   Install("local", "BT_SUBTENSOR_NETWORK" :> "finney"),
   Install("mainnet", "LLM_API_KEY" :> "set" @@ "TESTLAB_MODE" :> "1"),
   Install("testnet", "LLM_BASE_URL" :> "localhost" @@ "CENTRAL_API_URL" :> "localhost"),
   Install("testnet", NoEnv)}

\* The largest sets of faults under which each property is to hold.
MaximalFaults == {{"outage", "refusal"}, {"answers"}, {"crash"}, {"clock"}, {"clock", "undated"},
                   {"torn", "disk"}}

=============================================================================
