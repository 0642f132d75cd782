---------------------------- MODULE ShedCadence -----------------------------
(* One ingress connection of the verifier and its deadlines                   *)
(* (services/pool-verifier/src/idle_stream.rs): the idle budget, the shorter  *)
(* silence after which it yields its slot at a full address, and the          *)
(* threshold for that, learned from the peer's heartbeats.                    *)
(*                                                                            *)
(* Durations are in clock units; time moves Step units at a time, and Step is *)
(* a multiple of every divisor the estimate uses up to MaxHeartbeats, so that *)
(* the division is as exact as the code's, which is in nanoseconds.           *)
EXTENDS Integers, Sequences

CONSTANTS
  H,              \* the peer's heartbeat interval (the gateway's setting)
  Step,           \* how far the clock moves at a time
  IdleBudget,     \* VELDRA_VERIFIER_IDLE_TIMEOUT_SECS
  FallbackFloor,  \* the 10 s of shed_fallback
  SHED_FLOOR,
  SHED_RECHECK,
  AcceptLag,      \* how late a plaintext connection may be accepted
  MaxHeartbeats,  \* bound: heartbeats sent
  MaxAge          \* bound: the connection's life

CADENCE_LEARN_AFTER == 4

ASSUME CadenceConstants ==
  /\ H \in Nat \ {0} /\ Step \in Nat \ {0} /\ IdleBudget \in Nat
  /\ FallbackFloor \in Nat /\ SHED_FLOOR \in Nat /\ SHED_RECHECK \in Nat
  /\ AcceptLag \in Nat /\ MaxHeartbeats \in Nat /\ MaxAge \in Nat

VARIABLES
  lag,        \* how long before the task's start the peer's timer started
  prompt,     \* does the peer send on time, and is it read soon after
  uptime,        \* since the task started
  silent,     \* since a byte last moved, up to the idle budget
  look,       \* the silence at which the armed deadline fires
  after_ms,   \* the shed threshold
  heartbeats, \* heartbeats observed
  sent,       \* heartbeats the peer has sent
  unread,     \* ages of the heartbeats sent and not yet read (up to Slack)
  stalled,    \* is an answer waiting for the peer to read
  closed      \* "no", "shed" or "idle"

cadenceVars == <<lag, prompt, uptime, silent, look, after_ms, heartbeats, sent,
                 unread, stalled, closed>>

Lesser(a, b) == IF a <= b THEN a ELSE b
Greater(a, b) == IF a >= b THEN a ELSE b

shed_fallback == Greater(IdleBudget \div 4, FallbackFloor)

\* When the deadline fires next after progress.
first_look(threshold) == Lesser(threshold, IdleBudget)

CadenceTypeOK ==
  /\ lag \in {0, AcceptLag} /\ prompt \in BOOLEAN
  /\ uptime \in Nat /\ silent \in Nat /\ look \in 0 .. IdleBudget /\ after_ms \in Nat
  /\ heartbeats \in Nat /\ sent \in Nat
  /\ unread \in Seq(Nat)
  /\ stalled \in BOOLEAN
  /\ closed \in {"no", "shed", "idle"}

(* Over TLS the peer's timer starts after the handshake, so after the task   *)
(* (lag 0); over plaintext it may have started when the kernel completed the  *)
(* connection, AcceptLag before the verifier accepted it.                     *)
CadenceInit ==
  /\ lag \in {0, AcceptLag} /\ prompt \in BOOLEAN
  /\ uptime = 0 /\ silent = 0 /\ heartbeats = 0 /\ sent = 0 /\ unread = <<>>
  /\ after_ms = shed_fallback
  /\ look = first_look(shed_fallback)
  /\ stalled = FALSE /\ closed = "no"

----------------------------------------------------------------------------
(* HeartbeatCadence::observe *)

\* Variant: the time is divided by the heartbeats, not by the gaps between them.
LearnedOverAll(n) == Greater(2 * (uptime \div n), SHED_FLOOR)

learned(n) == Greater(2 * (uptime \div (n - 1)), SHED_FLOOR)

observe ==
  /\ heartbeats' = heartbeats + 1
  /\ after_ms' = IF heartbeats' < CADENCE_LEARN_AFTER
                   THEN after_ms
                   ELSE learned(heartbeats')

(* The peer's tokio interval: tick n is never ahead of its schedule; a late   *)
(* tick fires late and missed ones catch up.                                  *)
Due == uptime + lag >= sent * H

SendHeartbeat ==
  /\ closed = "no" /\ Due /\ sent < MaxHeartbeats
  /\ sent' = sent + 1
  /\ unread' = Append(unread, 0)
  /\ UNCHANGED <<lag, prompt, uptime, silent, look, after_ms, heartbeats, stalled,
                 closed>>

(* The message loop reads a heartbeat: the read is progress and re-arms with *)
(* the threshold of before, the observation may replace it, and the ack is    *)
(* written at once, which re-arms again, or waits for the peer.               *)
ReadHeartbeat ==
  /\ closed = "no" /\ ~stalled /\ unread # <<>>
  /\ unread' = Tail(unread)
  /\ silent' = 0
  /\ observe
  /\ \E blocked \in BOOLEAN :
       /\ prompt => ~blocked
       /\ stalled' = blocked
       /\ look' = first_look(IF blocked THEN after_ms ELSE after_ms')
  /\ UNCHANGED <<lag, prompt, uptime, sent, closed>>

\* Other bytes move: a template, part of one, or a verdict going out.
OtherProgress ==
  /\ closed = "no" /\ silent # 0
  /\ silent' = 0
  /\ look' = first_look(after_ms)
  /\ stalled' = FALSE
  /\ UNCHANGED <<lag, prompt, uptime, after_ms, heartbeats, sent, unread, closed>>

(* IdleTimeout::poll_no_progress once the armed deadline has fired; full is   *)
(* whether the other connections of the address leave it at its ceiling.      *)
Look(full) ==
  /\ closed = "no" /\ silent >= look
  /\ IF silent >= IdleBudget
       THEN closed' = "idle" /\ UNCHANGED look
     ELSE IF silent >= after_ms /\ full
       THEN closed' = "shed" /\ UNCHANGED look
     ELSE /\ look' = Lesser(IF silent < after_ms THEN after_ms
                                                 ELSE silent + SHED_RECHECK,
                            IdleBudget)
          /\ UNCHANGED closed
  /\ UNCHANGED <<lag, prompt, uptime, silent, after_ms, heartbeats, sent, unread,
                 stalled>>

\* How long a prompt peer's heartbeat stays unread: less than one interval over
\* TLS; less than what the floor adds to one over plaintext.
Slack == IF lag = 0 THEN H ELSE SHED_FLOOR - H

\* Time does not pass the next tick before its heartbeat is sent.
Punctual ==
  /\ sent < MaxHeartbeats /\ uptime + Step + lag <= sent * H
  /\ \A i \in 1 .. Len(unread) : unread[i] + Step < Slack

Elapse ==
  /\ closed = "no" /\ uptime < MaxAge
  /\ prompt => Punctual
  /\ uptime' = uptime + Step
  /\ silent' = Lesser(silent + Step, IdleBudget)
  /\ unread' = [i \in 1 .. Len(unread) |-> Lesser(unread[i] + Step, Slack)]
  /\ UNCHANGED <<lag, prompt, look, after_ms, heartbeats, sent, stalled, closed>>

CadenceNext ==
  \/ SendHeartbeat \/ ReadHeartbeat \/ OtherProgress
  \/ \E full \in BOOLEAN : Look(full)
  \/ Elapse

CadenceSpec == CadenceInit /\ [][CadenceNext]_cadenceVars

----------------------------------------------------------------------------
(* "The estimate is an upper bound on the interval, whatever the reads look   *)
(* like": once a cadence is learned over TLS, the threshold is at least two   *)
(* real intervals, however late or bunched the heartbeats were read.          *)
EstimateNotBelow ==
  (lag = 0 /\ heartbeats >= CADENCE_LEARN_AFTER) => after_ms >= 2 * H

(* A peer whose timer is on schedule and whose heartbeats are read within its *)
(* slack is never taken for dead, before or after its cadence is learned, and *)
(* however long its address stays full.                                       *)
PromptPeerKept == prompt => closed = "no"

(* idle_stream.rs:120-310.  A live peer keeps its slot: the learned interval  *)
(* is never too short, and a peer that heartbeats on time is never closed.    *)
SparesLivePeers == EstimateNotBelow /\ PromptPeerKept
=============================================================================
