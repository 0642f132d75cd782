----------------------------- MODULE Allocators -----------------------------
(* The gateway's three counters: ChannelIdAllocator and ExtranonceAllocator   *)
(* of services/sv2-gateway/src/channels.rs, and JobIdAllocator of jobs.rs.    *)
(* They share one algorithm over relaxed atomics: read the exhausted flag,    *)
(* fetch_add, and either raise the flag or hand the number out.  Connection   *)
(* tasks run it concurrently, and fetch_add wraps at the width of a u32.      *)
EXTENDS Integers, FiniteSets

CONSTANTS
  Opener,         \* connection tasks that open channels
  MaxNumber       \* u32::MAX

ASSUME AllocConstants == MaxNumber \in Nat \ {0}

VARIABLES
  next,           \* the counter
  exhausted,      \* the flag
  drawn,          \* drawn[o]: the number o took, NoNumber, or Passed the flag
  handed          \* handed[n]: how often n was handed out

allocVars == <<next, exhausted, drawn, handed>>

NoNumber == -1
Passed == -2
Numbers == 0 .. MaxNumber

AllocInit ==
  /\ next = 1 /\ exhausted = FALSE
  /\ drawn = [o \in Opener |-> NoNumber]
  /\ handed = [n \in Numbers |-> 0]

LoadExhausted(o) ==
  /\ drawn[o] = NoNumber /\ ~exhausted
  /\ drawn' = [drawn EXCEPT ![o] = Passed]
  /\ UNCHANGED <<next, exhausted, handed>>

\* Variant: the number is read and the counter left alone.
LoadOnly(o) ==
  /\ drawn[o] = Passed
  /\ drawn' = [drawn EXCEPT ![o] = next]
  /\ UNCHANGED <<next, exhausted, handed>>

FetchAdd(o) ==
  /\ drawn[o] = Passed
  /\ drawn' = [drawn EXCEPT ![o] = next]
  /\ next' = (next + 1) % (MaxNumber + 1)
  /\ UNCHANGED <<exhausted, handed>>

StoreExhausted(o) ==
  /\ drawn[o] = MaxNumber
  /\ exhausted' = TRUE
  /\ drawn' = [drawn EXCEPT ![o] = NoNumber]
  /\ UNCHANGED <<next, handed>>

HandOut(o) ==
  /\ drawn[o] \in Numbers \ {MaxNumber}
  /\ handed' = [handed EXCEPT ![drawn[o]] = IF @ < 2 THEN @ + 1 ELSE @]
  /\ drawn' = [drawn EXCEPT ![o] = NoNumber]
  /\ UNCHANGED <<next, exhausted>>

AllocNext ==
  \E o \in Opener : LoadExhausted(o) \/ FetchAdd(o) \/ StoreExhausted(o) \/ HandOut(o)

AllocSpec == AllocInit /\ [][AllocNext]_allocVars

----------------------------------------------------------------------------
(* Properties *)

\* One type invariant for the module.
AllocTypeOK ==
  /\ next \in Numbers /\ exhausted \in BOOLEAN
  /\ drawn \in [Opener -> Numbers \union {NoNumber, Passed}]
  /\ handed \in [Numbers -> 0 .. 2]

(* channels.rs:41-54, 113-131, jobs.rs:35-48.  A number is handed out again   *)
(* only after every other one was: the relaxed flag and counter alone never   *)
(* give two channels or two jobs the same number.                             *)
RepeatsNeedExhaustion ==
  \A n \in Numbers : handed[n] = 2 =>
    \A m \in 1 .. MaxNumber - 1 : handed[m] > 0 \/ \E o \in Opener : drawn[o] = m
=============================================================================
