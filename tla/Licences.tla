------------------------------ MODULE Licences ------------------------------
(* Licence keys: issued by rg-auth (session.rs), checked offline by           *)
(* rg-feed-server (auth.rs) and by rg-desktop (license.rs), which also keeps  *)
(* the operator's key in its config file (config.rs).                         *)
(*                                                                            *)
(* A key is what its text says: who signed it, its payload, and a flaw when   *)
(* the text does not decode.  A time is a small number; a signature verifies  *)
(* under the signer's own public key and no other.                            *)
EXTENDS Integers, Sequences, FiniteSets

CONSTANTS
  Signer,             \* signing keys that exist
  Embedded,           \* the desktop build's comma-separated list of public keys
  Duration,           \* validity of an issued key
  MaxTime             \* bound on the clock

Tiers == {"shadow", "observe_paid", "inline_licensed"}
\* "prefix": not veldra_lic_; "dot": no signature part; "sig": not 64 bytes of
\* base64url; "payload": not base64url or not the payload's JSON.
LicenceFlaws == {"none", "prefix", "dot", "sig", "payload"}
Malformed == "malformed"      \* an entry of Embedded that is no public key

ASSUME LicenceConstants ==
  /\ Malformed \notin Signer
  /\ Embedded \in Seq(Signer \union {Malformed})
  /\ Duration \in Nat /\ MaxTime \in Nat

NoKey == [signer |-> "", tier |-> "", expires_at |-> 0, flaw |-> "prefix"]

\* sign_license_key_with_duration, at time t.
sign_license_key(k, tier, t) ==
  [signer |-> k, tier |-> tier, expires_at |-> t + Duration, flaw |-> "none"]

LicenceKeys ==
  [signer : Signer, tier : Tiers, expires_at : 0 .. MaxTime + Duration, flaw : LicenceFlaws]

----------------------------------------------------------------------------
(* The verifiers *)

\* verify_license_key of rg-auth: the signature, then the payload.
verify_license_key(key, vk) == key.flaw = "none" /\ key.signer = vk

\* KeyValidator::validate: signature, payload, expiry, tier, in that order.
validate_signed(key, vk, t) ==
  /\ key.flaw \notin {"prefix", "dot", "sig"}
  /\ key.signer = vk
  /\ key.flaw # "payload"
  /\ ~(key.expires_at < t)
  /\ key.tier \in {"observe_paid", "inline_licensed"}

\* The desktop: parse_key, check_expiry and verify_signature, the first that
\* fails naming the error.
parse_key(key) == key.flaw \notin {"prefix", "dot", "payload"}

check_expiry(key, t) == ~(key.expires_at < t)

(* Any embedded key will do; malformed entries are passed over, and a list    *)
(* with nothing else in it verifies nothing.                                  *)
verify_signature_with_pubkeys(key, list) ==
  /\ key.flaw \notin {"prefix", "dot", "sig"}
  /\ \E i \in DOMAIN list : list[i] # Malformed /\ key.signer = list[i]

DesktopAccepts(key, list, t) ==
  parse_key(key) /\ check_expiry(key, t) /\ verify_signature_with_pubkeys(key, list)

----------------------------------------------------------------------------
(* The desktop client's own state.  A config place holds "absent" (no file),  *)
(* "torn" (a write was cut short), or what license_key says.                  *)

ConfigPlaces == {"explicit", "platform", "home"}
Absent == [state |-> "absent", key |-> NoKey]
TornConfig == [state |-> "torn", key |-> NoKey]
Unset == [state |-> "unset", key |-> NoKey]       \* a file without license_key
Keyed(key) == [state |-> "set", key |-> key]

VARIABLES
  time,
  explicit,     \* VELDRA_DESKTOP_CONFIG names a path
  env_key,      \* VELDRA_LICENSE_KEY, NoKey when it is not set
  files,        \* the config file at each place
  app,          \* "up" or "down"
  stored,       \* LicenseInfo: raw_key and payload, NoKey when None
  choice,       \* the key last entered, or NoKey for a sign-out, once on disk
  relaunched    \* the app was started again since that choice

licenceVars == <<time, explicit, env_key, files, app, stored, choice, relaunched>>

\* find_config_path: the first of the three places that has a file.
Searched == (IF explicit THEN <<"explicit">> ELSE <<>>) \o <<"platform", "home">>
Found == {i \in DOMAIN Searched : files[Searched[i]].state # "absent"}
find_config_path ==
  IF Found = {} THEN "nowhere"
  ELSE Searched[CHOOSE i \in Found : \A j \in Found : i <= j]

\* Variant: saved where the fallback is read from.
WritablePathAtHome == IF explicit THEN "explicit" ELSE "home"

\* writable_config_path never names the home fallback.
writable_config_path == IF explicit THEN "explicit" ELSE "platform"

\* DesktopConfig::load; the environment's key wins over the file's.
Loaded ==
  IF env_key # NoKey THEN env_key
  ELSE IF find_config_path = "nowhere" THEN NoKey
  ELSE files[find_config_path].key

\* LicenseInfo::load_from_config and validate_and_store: a bad key is not kept.
load_from_config == IF DesktopAccepts(Loaded, Embedded, time) THEN Loaded ELSE NoKey

is_valid == stored # NoKey /\ stored.expires_at >= time

Entered == {sign_license_key(k, tier, 0) : k \in Signer, tier \in {"shadow", "observe_paid"}}

LicenceInit ==
  /\ time = 0
  /\ explicit \in BOOLEAN
  /\ env_key \in {NoKey} \union Entered
  /\ files \in [ConfigPlaces -> {Absent, Unset} \union {Keyed(k) : k \in Entered}]
  /\ app = "down" /\ stored = NoKey
  /\ choice = NoKey /\ relaunched = FALSE

(* main: a file that does not parse ends the process with an error.           *)
Launch ==
  /\ app = "down"
  /\ find_config_path # "nowhere" => files[find_config_path].state # "torn"
  /\ app' = "up"
  /\ stored' = load_from_config
  /\ relaunched' = (choice # NoKey \/ relaunched)
  /\ UNCHANGED <<time, explicit, env_key, files, choice>>

\* save_license_key and clear_license_key fail on a file they cannot parse.
Writable == files[writable_config_path].state # "torn"

\* What the two leave on disk.  The file is made when it is not there; a file
\* that is not there has nothing to clear.
save_license_key(key) == [files EXCEPT ![writable_config_path] = Keyed(key)]

clear_license_key ==
  IF files[writable_config_path] = Absent THEN files
  ELSE [files EXCEPT ![writable_config_path] = Unset]

(* set_license_key: a key that validates is stored and then written to the    *)
(* config file; a failed write is logged and the call still succeeds.         *)
SetKey(key, saved) ==
  /\ app = "up"
  /\ DesktopAccepts(key, Embedded, time)
  /\ saved => Writable
  /\ stored' = key
  /\ IF saved
       THEN /\ files' = save_license_key(key)
            /\ choice' = key
       ELSE /\ choice' = NoKey
            /\ UNCHANGED files
  /\ relaunched' = FALSE
  /\ UNCHANGED <<time, explicit, env_key, app>>

\* clear_license; a failed write is logged here as well.
SignOut(saved) ==
  /\ app = "up"
  /\ saved => Writable
  /\ stored' = NoKey
  /\ files' = IF saved THEN clear_license_key ELSE files
  /\ choice' = NoKey
  /\ relaunched' = FALSE
  /\ UNCHANGED <<time, explicit, env_key, app>>

\* The process ends; during a save, with the file truncated.
Quit(saving) ==
  /\ app = "up"
  /\ app' = "down" /\ stored' = NoKey
  /\ files' = IF saving THEN [files EXCEPT ![writable_config_path] = TornConfig] ELSE files
  /\ choice' = IF saving THEN NoKey ELSE choice
  /\ relaunched' = IF saving THEN FALSE ELSE relaunched
  /\ UNCHANGED <<time, explicit, env_key>>

TimePasses ==
  /\ time < MaxTime
  /\ time' = time + 1
  /\ UNCHANGED <<explicit, env_key, files, app, stored, choice, relaunched>>

LicenceNext ==
  \/ Launch \/ TimePasses
  \/ \E saved \in BOOLEAN : SignOut(saved) \/ \E k \in Entered : SetKey(k, saved)
  \/ \E saving \in BOOLEAN : Quit(saving)

LicenceSpec == LicenceInit /\ [][LicenceNext]_licenceVars

----------------------------------------------------------------------------
(* Whenever the client runs, the offline verifiers agree although they check  *)
(* in different orders: what the feed server accepts, the desktop accepts     *)
(* when the same public key is among its entries, and every tier-sufficient   *)
(* key the other way round; and rg-auth issues only keys both accept until    *)
(* the second they expire.                                                    *)
VerifiersAgree ==
  app = "up" =>
    /\ \A key \in LicenceKeys, vk \in Signer :
         /\ validate_signed(key, vk, time)
              <=> /\ DesktopAccepts(key, <<Malformed, vk>>, time)
                  /\ key.tier # "shadow"
         /\ validate_signed(key, vk, time) => verify_license_key(key, vk)
    /\ \A k \in Signer, tier \in Tiers, t \in 0 .. time :
         DesktopAccepts(sign_license_key(k, tier, t), <<k>>, time) <=> time <= t + Duration

(* A key entered at the desktop client and written to its config is the key   *)
(* it comes back with after a restart, wherever it had found its first        *)
(* config, unless the environment names another.                              *)
EnteredIsKept ==
  (relaunched /\ app = "up" /\ choice # NoKey /\ env_key = NoKey)
  => stored \in {choice, NoKey} /\ (is_valid \/ choice.expires_at < time)

(* The client never shows a licence as valid that no embedded key signed or   *)
(* that has run out, although it checks the signature only when it loads.     *)
ShownIsLicensed ==
  is_valid => DesktopAccepts(stored, Embedded, time)

(* The life of a licence key: issuer and verifiers agree on it, the desktop   *)
(* client keeps it, and shows it as valid only while it is.                   *)
LicencesHold == VerifiersAgree /\ EnteredIsKept /\ ShownIsLicensed
=============================================================================
