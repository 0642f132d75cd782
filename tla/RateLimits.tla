----------------------------- MODULE RateLimits -----------------------------
(* The sliding-window limiter of reservegrid-common/src/rate_limit.rs and the *)
(* two middlewares that put it in front of rg-dashboard's /api routes and of  *)
(* rg-feed-adapter's JSON-RPC endpoint (their rate_limit.rs).                 *)
(*                                                                            *)
(* Time runs in units of which SecondTicks make a second; a timestamp is its  *)
(* age, and no age beyond two windows is told from two windows.               *)
EXTENDS Integers, Sequences, FiniteSets

CONSTANTS
  Addr,           \* client addresses
  Proxy,          \* trusted_proxies
  Prefix,         \* Prefix[a]: the address of a's budget, its /64 when it is IPv6
  SecondTicks,    \* units in a second
  WindowSeconds,  \* 60
  PerWindow,      \* max_per_window, at least 1 by the config checks
  MaxTracked,     \* max_tracked_ips
  Ceilings        \* the global ceilings to try, 0 for none

Window == WindowSeconds * SecondTicks
Oldest == 2 * Window

VARIABLES
  ceiling,        \* global_ceiling, fixed
  ips,            \* the windows by key: a partial function to sequences of ages
  global,         \* global_timestamps
  granted,        \* history: ages of the requests let in within one window, by
                  \*   the budget of the client that really made them
  total,          \* the same over all keys
  forgotten,      \* keys evicted while a request of theirs was in the window
  promise         \* promise[k]: units left of the wait k was told, or NoPromise

limitVars == <<ceiling, ips, global, granted, total, forgotten, promise>>

NoPromise == -1
BucketKeys == {Prefix[a] : a \in Addr}
NoHeader == <<>>

----------------------------------------------------------------------------
(* ClientAddr and bucket_key *)

\* The header from the right, past the proxies; NoHeader's answer is the peer.
rightmost_untrusted(peer, header) ==
  LET named == {i \in DOMAIN header : header[i] \notin Proxy} IN
    IF named = {} THEN peer ELSE header[CHOOSE i \in named : \A j \in named : j <= i]

resolve(peer, header) ==
  IF peer \notin Proxy THEN peer ELSE rightmost_untrusted(peer, header)

bucket_key(a) == Prefix[a]

----------------------------------------------------------------------------
(* RateLimiter *)

\* Variant: an entry leaves the window a tick early.
PruneWindowEarly(deque) == SelectSeq(deque, LAMBDA age : age < Window - 1)

\* Ages fall from the front of a deque to its back.
prune_window(deque) == SelectSeq(deque, LAMBDA age : age < Window)

until_front_expires(deque) == IF deque = <<>> THEN Window ELSE Window - deque[1]

Entry(k) == IF k \in DOMAIN ips THEN ips[k] ELSE <<>>
Pruned(k) == prune_window(Entry(k))
With(k, deque) == [j \in DOMAIN ips \union {k} |-> IF j = k THEN deque ELSE ips[j]]

Back(deque) == deque[Len(deque)]

\* The keys whose last request is oldest: ties fall either way.
LeastRecent(map) ==
  {k \in DOMAIN map : map[k] # <<>> /\
     \A j \in DOMAIN map : map[j] # <<>> => Back(map[j]) <= Back(map[k])}

Without(map, k) == [j \in DOMAIN map \ {k} |-> map[j]]

\* Over the cap one key goes, with all it had in the window.
evict_oldest(map) ==
  IF Cardinality(DOMAIN map) <= MaxTracked
    THEN /\ ips' = map
         /\ UNCHANGED forgotten
    ELSE \E k \in LeastRecent(map) :
           /\ ips' = Without(map, k)
           /\ forgotten' = forgotten \union {k}

\* Rounded up to whole seconds and kept between one second and the window.
retry_after_secs(wait) == (wait + SecondTicks - 1) \div SecondTicks

Promised(secs) ==
  SecondTicks * (IF secs < 1 THEN 1 ELSE IF secs > WindowSeconds THEN WindowSeconds ELSE secs)

Denied(k, wait) ==
  /\ promise' = [promise EXCEPT ![k] = Promised(retry_after_secs(wait))]
  /\ UNCHANGED <<granted, total, forgotten>>

(* admit: the ceiling first, then the key's own window; a denial records      *)
(* nothing but the pruning it did on the way.  The request is charged to k    *)
(* and was made by a client of budget who.                                    *)
admit(k, who) ==
  LET all == IF ceiling = 0 THEN global ELSE prune_window(global) IN
    IF ceiling # 0 /\ Len(all) >= ceiling
      THEN /\ global' = all
           /\ Denied(k, until_front_expires(all))
           /\ UNCHANGED ips
      ELSE IF Len(Pruned(k)) >= PerWindow
      THEN /\ global' = all
           /\ ips' = With(k, Pruned(k))
           /\ Denied(k, until_front_expires(Pruned(k)))
      ELSE /\ global' = IF ceiling = 0 THEN all ELSE Append(all, 0)
           /\ evict_oldest(With(k, Append(Pruned(k), 0)))
           /\ granted' = [granted EXCEPT ![who] = Append(@, 0)]
           /\ total' = IF ceiling = 0 THEN total ELSE Append(total, 0)
           /\ promise' = [promise EXCEPT ![k] = NoPromise]

LimitInit ==
  /\ ceiling \in Ceilings
  /\ ips = [k \in {} |-> <<>>] /\ global = <<>>
  /\ granted = [k \in BucketKeys |-> <<>>] /\ total = <<>>
  /\ forgotten = {} /\ promise = [k \in BucketKeys |-> NoPromise]

(* enforce, as the proxies deliver a request: a client connects itself and    *)
(* writes any header it likes, or comes through a chain of proxies that each  *)
(* append the address they were called from.                                  *)
Claims == {NoHeader} \union {<<a>> : a \in Addr}
Chains == {<<>>} \union {<<p>> : p \in Proxy} \union {<<p, q>> : p, q \in Proxy}

Delivered(client, claims, chain) ==
  IF chain = <<>> THEN [client |-> client, peer |-> client, header |-> claims]
  ELSE [client |-> client, peer |-> chain[Len(chain)],
        header |-> claims \o <<client>> \o SubSeq(chain, 1, Len(chain) - 1)]

Deliveries == {Delivered(a, h, c) : a \in Addr \ Proxy, h \in Claims, c \in Chains}

KeyOf(r) == bucket_key(resolve(r.peer, r.header))

enforce(k, who) ==
  /\ Len(granted[who]) <= PerWindow
  /\ admit(k, who)
  /\ UNCHANGED ceiling

\* sweep: a key whose last request is two windows old is dropped.
cleanup ==
  /\ ips' = [k \in {j \in DOMAIN ips : ips[j] # <<>> /\ Back(ips[j]) < Oldest} |-> ips[k]]
  /\ global' = prune_window(global)
  /\ UNCHANGED <<ceiling, granted, total, forgotten, promise>>

Older(deque) == [i \in DOMAIN deque |-> IF deque[i] < Oldest THEN deque[i] + 1 ELSE Oldest]
Recent(deque) == SelectSeq(Older(deque), LAMBDA age : age < Window)

LimitTime ==
  /\ ips' = [k \in DOMAIN ips |-> Older(ips[k])] /\ global' = Older(global)
  /\ granted' = [k \in BucketKeys |-> Recent(granted[k])] /\ total' = Recent(total)
  /\ forgotten' = {k \in forgotten : Recent(granted[k]) # <<>>}
  /\ promise' = [k \in BucketKeys |-> IF promise[k] > 0 THEN promise[k] - 1 ELSE promise[k]]
  /\ UNCHANGED ceiling

LimitNext ==
  \/ \E charge \in {<<KeyOf(r), bucket_key(r.client)>> : r \in Deliveries} :
       enforce(charge[1], charge[2])
  \/ cleanup
  \/ LimitTime

----------------------------------------------------------------------------
(* Properties *)

(* rate_limit.rs:3-8, 90-146.  No client gets more than its budget in any     *)
(* window, wherever the window begins, unless the tracker was full and its    *)
(* entry was evicted.                                                         *)
WindowHolds == \A k \in BucketKeys \ forgotten : Len(granted[k]) <= PerWindow

\* rate_limit.rs:98-109.  The ceiling holds over all clients, evicted or not.
CeilingHolds == ceiling # 0 => Len(total) <= ceiling

(* rg-dashboard/src/rate_limit.rs:282-286.  "rounded up so a client that      *)
(* waits this long is admitted": the promise is kept, unless a request of the *)
(* same budget was let in meanwhile.                                          *)
WaitIsEnough ==
  ceiling = 0 => \A k \in BucketKeys : promise[k] = 0 => Len(Pruned(k)) < PerWindow

(* rg-dashboard/src/rate_limit.rs:101-121, 162-181.  A request is counted     *)
(* against the client that made it, whatever that client wrote into the       *)
(* header and however many trusted proxies it came through: the limiter's     *)
(* record of a client is what that client was let in for.                     *)
CountedAgainstClient ==
  \A k \in BucketKeys \ forgotten : Len(granted[k]) = Len(Pruned(k))

\* rate_limit.rs:141-144.  The tracker does not outgrow its bound.
TrackerBounded == Cardinality(DOMAIN ips) <= MaxTracked

(* rate_limit.rs:99-200 and the two middlewares.  The limits as a client      *)
(* meets them: neither window is passed, a client that waited as told is      *)
(* admitted, requests are counted against the client that made them, and the  *)
(* tracker stays within its size.                                             *)
LimitsHold ==
  WindowHolds /\ CeilingHolds /\ WaitIsEnough /\ CountedAgainstClient /\ TrackerBounded
=============================================================================
