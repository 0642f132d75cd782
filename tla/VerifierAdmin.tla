---------------------------- MODULE VerifierAdmin ----------------------------
(* The verifier's start-up and its HTTP administration (services/             *)
(* pool-verifier/src/main.rs, state.rs, handlers.rs, http.rs): what a start   *)
(* accepts, and what the concurrent handlers do to the policy, the settings   *)
(* and the files behind them.  A policy is reduced to one ordered pair of     *)
(* fields (as low/high mempool and the fee tiers are) and Class M: off, or    *)
(* enforced with RPC credentials that are usable or not.                      *)
EXTENDS Integers, Sequences, FiniteSets

CONSTANTS
  Req,                       \* HTTP requests in flight at once
  Level,                     \* the values a policy field can take
  Setting,                   \* the values the mempool URL setting can take
  WRITE_THROTTLE_MAX,
  WRITE_THROTTLE_WINDOW,     \* WRITE_THROTTLE_WINDOW_SECS, in ticks
  MaxRestarts                \* bound: restarts

ASSUME AdminConstants ==
  Level \subseteq Nat /\ Level # {} /\ WRITE_THROTTLE_WINDOW \in Nat

VARIABLES
  env,          \* [secret, optional, degrade]: the environment of the process
  stored,       \* the policy file: a policy, or NoPolicy when it does not load
  process,      \* "down", "up", "refused"
  policy,       \* the policy in PolicyHolder
  loaded_ok,    \* POLICY_LOADED_OK
  wired,        \* are mempool_view and second_chance present; MEMPOOL_ENFORCED
  writes,       \* WRITE_THROTTLE: the ages of the admitted writes, oldest first
  request,      \* request[r]: [at, cfg]
  runtime,      \* RuntimeSettings.mempool_url
  boot,         \* the boot snapshot
  saved,        \* the settings file, NoSetting when there is none
  restarted

adminVars == <<env, stored, process, policy, loaded_ok, wired, writes, request,
               runtime, boot, saved, restarted>>

Policies == [low : Level, high : Level, mempool : {"off", "usable", "unusable"}]
NoPolicy == [low |-> -1, high |-> -1, mempool |-> "off"]
NoSetting == "none"
Waiting0 == [at |-> "none", cfg |-> NoPolicy]

AdminTypeOK ==
  /\ stored \in Policies \cup {NoPolicy} /\ policy \in Policies \cup {NoPolicy}
  /\ process \in {"down", "up", "refused"}
  /\ loaded_ok \in BOOLEAN /\ wired \in BOOLEAN
  /\ writes \in Seq(0 .. WRITE_THROTTLE_WINDOW + 1) /\ Len(writes) <= WRITE_THROTTLE_MAX
  /\ \A r \in Req : request[r].at \in {"none", "merged"}
  /\ {runtime, boot, saved} \subseteq Setting \cup {NoSetting}

----------------------------------------------------------------------------
(* Start-up: main().                                                          *)

\* PolicyConfig::validate: ordered fields stay ordered.
validate(p) == p # NoPolicy /\ p.low <= p.high

\* safe_initial_policy's built-in policy, which validates and enforces nothing.
AnyLevel == CHOOSE v \in Level : TRUE
Permissive == [low |-> AnyLevel, high |-> AnyLevel, mempool |-> "off"]

\* Variant: the opt-out also lets an unusable secret pass.
EnforceUnlessOptional(e) == e.secret = "good" \/ e.optional

\* A secret that is set must be usable, opt-out or not; none needs the opt-out.
enforce_api_secret(e) ==
  \/ e.secret = "good"
  \/ e.secret = "none" /\ e.optional

safe_initial_policy(found, degrade) ==
  IF validate(found) THEN [ok |-> TRUE, cfg |-> found, degraded |-> FALSE]
  ELSE [ok |-> degrade, cfg |-> Permissive, degraded |-> TRUE]

\* Enforcement with credentials that cannot work is fatal.
build_phase2_mempool_view(p) == 
  [ok |-> p.mempool # "unusable", mempool |-> p.mempool # "off"]

AdminInit ==
  /\ env \in [secret : {"none", "unusable", "good"}, optional : BOOLEAN,
              degrade : BOOLEAN]
  /\ stored \in {p \in Policies : p.low = p.high} \cup {NoPolicy}
  /\ process = "down" /\ policy = NoPolicy /\ loaded_ok = FALSE /\ wired = FALSE
  /\ writes = <<>> /\ request = [r \in Req |-> Waiting0]
  /\ boot \in Setting /\ runtime = boot /\ saved = NoSetting
  /\ restarted = 0

Boot ==
  LET first == safe_initial_policy(stored, env.degrade)
      phase2 == build_phase2_mempool_view(first.cfg)
  IN
  /\ process = "down"
  /\ IF enforce_api_secret(env) /\ first.ok /\ phase2.ok
       THEN /\ process' = "up"
            /\ policy' = first.cfg
            /\ loaded_ok' = ~first.degraded
            /\ wired' = phase2.mempool
       ELSE /\ process' = "refused"
            /\ UNCHANGED <<policy, loaded_ok, wired>>
  /\ runtime' = boot   \* both from the environment, never from the saved file
  /\ UNCHANGED <<env, stored, writes, request, boot, saved, restarted>>

\* The process ends and is started again; only the files remain.
StopVerifier ==
  /\ process # "down" /\ restarted < MaxRestarts
  /\ process' = "down"
  /\ restarted' = restarted + 1
  /\ policy' = NoPolicy /\ loaded_ok' = FALSE /\ wired' = FALSE
  /\ writes' = <<>> /\ request' = [r \in Req |-> Waiting0]
  /\ UNCHANGED <<env, stored, runtime, boot, saved>>

----------------------------------------------------------------------------
(* The handlers.                                                              *)

\* api_key_middleware; a secret, when there is one, must be presented.
api_key_middleware(key) == env.secret = "none" \/ key

\* check_write_throttle: entries older than the window go, then the count.
Recent == SelectSeq(writes, LAMBDA age : age <= WRITE_THROTTLE_WINDOW)

check_write_throttle == Len(Recent) < WRITE_THROTTLE_MAX

\* A write of somebody who presents the secret, or need not.
Admitted ==
  /\ process = "up"
  /\ {key \in BOOLEAN : api_key_middleware(key)} # {}
  /\ check_write_throttle
  /\ writes' = Append(Recent, 0)

\* apply_policy, first half: admitted, the base read and the patch merged into
\* it.  The read lock is released; other handlers run before the write.
MergePolicy(r, patch) ==
  /\ request[r].at = "none"
  /\ Admitted
  /\ request' = [request EXCEPT ![r] =
       [at |-> "merged",
        cfg |-> [policy EXCEPT !.low = IF patch.low = -1 THEN @ ELSE patch.low,
                               !.high = IF patch.high = -1 THEN @ ELSE patch.high]]]
  /\ UNCHANGED <<env, stored, process, policy, loaded_ok, wired, runtime, boot,
                 saved, restarted>>

\* apply_policy, second half: the merged policy is validated and stored whole.
StorePolicy(r) ==
  /\ process = "up" /\ request[r].at = "merged"
  /\ policy' = IF validate(request[r].cfg) THEN request[r].cfg ELSE policy
  /\ request' = [request EXCEPT ![r] = Waiting0]
  /\ UNCHANGED <<env, stored, process, loaded_ok, wired, writes, runtime, boot,
                 saved, restarted>>

\* apply_policy_toml: the whole policy is replaced; a body that does not parse
\* or validate has still used up a write.  What main() wired stays as it is.
apply_policy_toml(body) ==
  /\ Admitted
  /\ policy' = IF validate(body) THEN body ELSE policy
  /\ UNCHANGED <<env, stored, process, loaded_ok, wired, request, runtime, boot,
                 saved, restarted>>

apply_settings(url) ==
  /\ Admitted
  /\ runtime' = url
  /\ UNCHANGED <<env, stored, process, policy, loaded_ok, wired, request, boot,
                 saved, restarted>>

\* save_settings: the file first, by temporary file and rename, then the
\* running value; a failed write changes neither.
save_settings(url, ok) ==
  /\ Admitted
  /\ saved' = IF ok THEN url ELSE saved
  /\ runtime' = IF ok THEN url ELSE runtime
  /\ UNCHANGED <<env, stored, process, policy, loaded_ok, wired, request, boot,
                 restarted>>

readiness_check(fresh) == loaded_ok /\ (~wired \/ fresh)

\* Time passes; an age past the window is all the same.
Tick ==
  /\ process = "up" /\ writes # <<>>
  /\ \E i \in DOMAIN writes : writes[i] <= WRITE_THROTTLE_WINDOW
  /\ writes' = [i \in DOMAIN writes |->
                  IF writes[i] > WRITE_THROTTLE_WINDOW THEN writes[i] ELSE writes[i] + 1]
  /\ UNCHANGED <<env, stored, process, policy, loaded_ok, wired, request, runtime,
                 boot, saved, restarted>>

Patches == [low : Level \cup {-1}, high : Level \cup {-1}]

AdminNext ==
  \/ Boot \/ StopVerifier \/ Tick
  \/ \E r \in Req : StorePolicy(r) \/ \E patch \in Patches : MergePolicy(r, patch)
  \/ \E body \in Policies \cup {NoPolicy} : apply_policy_toml(body)
  \/ \E url \in Setting :
       apply_settings(url) \/ \E ok \in BOOLEAN : save_settings(url, ok)

AdminSpec == AdminInit /\ [][AdminNext]_adminVars

----------------------------------------------------------------------------
(* The policy in force always validates, although concurrent partial updates *)
(* each merge into a base that may have been replaced since: what is stored  *)
(* is the very policy that was validated.                                     *)
PolicyValid == process = "up" => validate(policy)

(* A start never serves a policy that does not load, an enforcing policy that*)
(* cannot reach its node, or an unusable secret, unless the operator set the  *)
(* flag for exactly that; and readiness is never reported on the built-in.    *)
StartIsDeliberate ==
  process = "up" =>
    /\ env.secret # "unusable"
    /\ env.secret = "none" => env.optional
    /\ ~loaded_ok => (env.degrade /\ ~readiness_check(TRUE))
    /\ (~validate(stored) => ~loaded_ok)
    /\ (loaded_ok /\ stored.mempool # "off") => (wired /\ stored.mempool # "unusable")

(* The verifier serves only what somebody chose: a valid policy after any     *)
(* sequence of concurrent updates, and a start its operator asked for.        *)
ServesAsChosen == PolicyValid /\ StartIsDeliberate
=============================================================================
