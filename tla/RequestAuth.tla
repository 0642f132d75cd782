---------------------------- MODULE RequestAuth ----------------------------
(* The request guards of the reservegrid-gateway crate: the HMAC mode of      *)
(* auth_layer (middleware/auth.rs) with its nonce cache (protocol/nonce.rs),  *)
(* and the token bucket of middleware/rate_limit.rs.                          *)
(*                                                                            *)
(* A signed request is its nonce and its timestamp; whether its headers are   *)
(* there, parse and carry the right signature is one bit.  A request may be   *)
(* delivered any number of times.                                             *)
EXTENDS Integers, FiniteSets

CONSTANTS
  Nonce,              \* nonces clients use
  MaxNonces,          \* max_entries of the cache
  WindowSecs,         \* window_secs
  MaxAge,             \* timestamp_max_age_secs
  Skew,               \* the 60 s a timestamp may be ahead
  MaxClock,           \* the last second looked at
  Burst, Rate         \* the bucket's size, and the tokens a second gives

ASSUME AuthConstants ==
  {MaxNonces, WindowSecs, MaxAge, Skew, MaxClock, Burst, Rate} \subseteq Nat

VARIABLES
  clock,              \* the server's clock, in seconds
  entries,            \* the cache: a partial function from nonces to timestamps
  watched,            \* one signed request
  times,              \* how often it was let in
  crowded,            \* its entry was evicted to make room, and not for its age
  tokens,             \* one client's bucket
  level               \* what the client has used of its allowance, leaking at Rate

authVars == <<clock, entries, watched, times, crowded, tokens, level>>

Requests == [nonce : Nonce, ts : 0 .. MaxClock + Skew]

AuthInit ==
  /\ clock = 0 /\ entries = [n \in {} |-> 0]
  /\ watched \in Requests /\ times = 0 /\ crowded = FALSE
  /\ tokens = Burst /\ level = 0

----------------------------------------------------------------------------
(* NonceCache *)

Minus(a, b) == IF a > b THEN a - b ELSE 0
abs_diff(a, b) == IF a > b THEN a - b ELSE b - a

\* Variant: a nonce is forgotten in the last second of its window.
EvictExpiredEarly(map) ==
  [n \in {m \in DOMAIN map : Minus(clock, map[m]) < WindowSecs} |-> map[n]]

evict_expired(map) ==
  [n \in {m \in DOMAIN map : Minus(clock, map[m]) <= WindowSecs} |-> map[n]]

\* Ties fall either way.
OldestNonces(map) == {n \in DOMAIN map : \A m \in DOMAIN map : map[n] <= map[m]}

Recorded(map, r) ==
  [n \in DOMAIN map \union {r.nonce} |-> IF n = r.nonce THEN r.ts ELSE map[n]]

\* A request inside the window whose nonce is not in the cache is recorded.
validate(r) ==
  LET kept == evict_expired(entries) IN
    /\ abs_diff(clock, r.ts) <= WindowSecs
    /\ r.nonce \notin DOMAIN kept
    /\ IF Cardinality(DOMAIN kept) < MaxNonces
         THEN entries' = Recorded(kept, r) /\ UNCHANGED crowded
         ELSE \E n \in OldestNonces(kept) :
                /\ entries' = Recorded([m \in DOMAIN kept \ {n} |-> kept[m]], r)
                /\ crowded' = (crowded \/ n = watched.nonce)

----------------------------------------------------------------------------
(* auth_layer *)

timestamp_within_window(ts) == ts <= clock + Skew /\ Minus(clock, ts) <= MaxAge

\* verify_hmac: the signature has been found good before the nonce is looked at.
verify_hmac(r) ==
  /\ timestamp_within_window(r.ts)
  /\ validate(r)

HmacRequest(r) ==
  /\ verify_hmac(r)
  /\ times' = IF r = watched /\ times < 2 THEN times + 1 ELSE times
  /\ UNCHANGED <<clock, watched, tokens, level>>

(* rate_limit_layer, for one client: the refill is what the clock gives,      *)
(* capped at Burst, and one whole token lets a request in.                    *)
try_consume ==
  /\ tokens >= 1
  /\ tokens' = tokens - 1 /\ level' = level + 1
  /\ UNCHANGED <<clock, entries, watched, times, crowded>>

Refilled == IF tokens + Rate > Burst THEN Burst ELSE tokens + Rate

SecondPasses ==
  /\ clock < MaxClock
  /\ clock' = clock + 1
  /\ tokens' = Refilled /\ level' = Minus(level, Rate)
  /\ UNCHANGED <<entries, watched, times, crowded>>

\* Other clients fill the map and this one's bucket goes; it starts full again.
BucketEvicted ==
  /\ tokens < Burst
  /\ tokens' = Burst /\ level' = 0
  /\ UNCHANGED <<clock, entries, watched, times, crowded>>

AuthNext ==
  \/ \E r \in Requests : HmacRequest(r)
  \/ try_consume \/ BucketEvicted \/ SecondPasses

AuthSpec == AuthInit /\ [][AuthNext]_authVars

----------------------------------------------------------------------------
(* Properties *)

(* nonce.rs:1-9.  A signed request is accepted once, however often it is      *)
(* delivered and whenever, unless the cache was full and its entry had to     *)
(* make room: an entry outlives every moment its request would be let in.     *)
AcceptedOnce == times = 2 => crowded

(* rate_limit.rs:50-77.  Over any stretch of time a client gets at most the   *)
(* burst and what its rate gives in that time, while its bucket is kept.      *)
WithinBurst == level <= Burst

(* nonce.rs:55-100, rate_limit.rs:62-80.  The two guards of a signed request. *)
GuardsHold == AcceptedOnce /\ WithinBurst
=============================================================================
