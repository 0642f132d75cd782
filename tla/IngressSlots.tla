---------------------------- MODULE IngressSlots ----------------------------
(* The verifier's NDJSON ingress (services/pool-verifier/src/ingress.rs with  *)
(* idle_stream.rs and reservegrid-common's per_ip.rs): who is admitted, what  *)
(* a connection task does with its lines, and how its slot comes back.        *)
(*                                                                            *)
(* A slot is a global permit, a count on the source address and one unit of   *)
(* the gauge, taken together by the accept loop and dropped together when the *)
(* task ends.  Time is abstracted to how far a connection's silence has gone: *)
(* below its shed threshold, past it, or past the idle budget (the thresholds *)
(* themselves are ShedCadence's).                                             *)
EXTENDS Integers, FiniteSets

CONSTANTS
  Sock,               \* sockets that can be open at the same time
  Ip,                 \* source addresses
  MaxConnections,     \* VELDRA_VERIFIER_MAX_CONNECTIONS
  MaxPerIp,           \* VELDRA_VERIFIER_MAX_CONNECTIONS_PER_IP, 0: no ceiling
  Tls                 \* is an acceptor configured

ASSUME SlotConstants ==
  /\ IsFiniteSet(Sock)
  /\ Ip # {}
  /\ MaxConnections \in Nat
  /\ MaxPerIp \in Nat
  /\ Tls \in BOOLEAN

VARIABLES
  task,       \* task[s]: where the connection task of socket s stands
  from,       \* from[s]: its source address
  silence,    \* silence[s]: "short", "shed" (threshold passed), "idle" (budget)
  peer,       \* peer[s]: "up", or "gone" when nothing will move on the path again
  ended,      \* ended[s]: how the task ended, until its slot is dropped
  permits,    \* the global semaphore
  counts,     \* the per-address map of PerIpConnectionTracker
  active      \* verifier_connections_active

slotVars == <<task, from, silence, peer, ended, permits, counts, active>>

Stages == {"none", "shake", "read", "eval", "write", "end"}
AnyIp == CHOOSE a \in Ip : TRUE     \* the address of a socket that is not open
Held == {s \in Sock : task[s] # "none"}
HeldFrom(a) == {s \in Held : from[s] = a}

\* One type invariant for the module.
SlotTypeOK ==
  /\ task \in [Sock -> Stages]
  /\ from \in [Sock -> Ip]
  /\ silence \in [Sock -> {"short", "shed", "idle"}]
  /\ peer \in [Sock -> {"up", "gone"}]
  /\ ended \in [Sock -> {"not", "peer", "error", "handshake", "shed", "idle"}]
  /\ permits \in 0 .. MaxConnections
  /\ counts \in [Ip -> Nat]
  /\ active \in Int

SlotInit ==
  /\ task = [s \in Sock |-> "none"]
  /\ from = [s \in Sock |-> AnyIp]
  /\ silence = [s \in Sock |-> "short"]
  /\ peer = [s \in Sock |-> "up"]
  /\ ended = [s \in Sock |-> "not"]
  /\ permits = MaxConnections
  /\ counts = [a \in Ip |-> 0]
  /\ active = 0

----------------------------------------------------------------------------
(* PerIpConnectionTracker *)

try_accept(a) == MaxPerIp = 0 \/ counts[a] < MaxPerIp

\* With the ceiling disabled the tracker keeps no counts at all.
counted(a) == IF MaxPerIp = 0 THEN counts ELSE [counts EXCEPT ![a] = @ + 1]

dropped(a) == IF counts[a] = 0 THEN counts ELSE [counts EXCEPT ![a] = @ - 1]

\* Variant: one connection short of the ceiling already counts as full.
AddressNearlyFull(a) == MaxPerIp # 0 /\ counts[a] + 1 >= MaxPerIp

\* The ceiling is reached right now; a disabled ceiling is never full.
address_full(a) == MaxPerIp # 0 /\ counts[a] >= MaxPerIp

(* The accept loop.  A refused connection is closed at once and holds        *)
(* nothing: the global permit taken before the per-address test goes back.   *)
Accept(s, a) ==
  /\ task[s] = "none"
  /\ permits > 0
  /\ try_accept(a)
  /\ permits' = permits - 1
  /\ counts' = counted(a)
  /\ active' = active + 1
  /\ task' = [task EXCEPT ![s] = IF Tls THEN "shake" ELSE "read"]
  /\ from' = [from EXCEPT ![s] = a]
  /\ silence' = [silence EXCEPT ![s] = "short"]
  /\ peer' = [peer EXCEPT ![s] = "up"]
  /\ ended' = [ended EXCEPT ![s] = "not"]

(* The connection task leaves the handler or the handshake: it still holds   *)
(* its slot until AdmittedSlot is dropped at the end of the task.             *)
Finish(s, how) ==
  /\ task' = [task EXCEPT ![s] = "end"]
  /\ ended' = [ended EXCEPT ![s] = how]
  /\ UNCHANGED <<from, silence, peer, permits, counts, active>>

Goto(s, to) ==
  /\ task' = [task EXCEPT ![s] = to]
  /\ UNCHANGED <<from, peer, ended, permits, counts, active>>

Moved(s) == silence' = [silence EXCEPT ![s] = "short"]

(* serve_admitted_connection: the handshake ends in a session, in an error,  *)
(* or on its own budget, which is total time and no progress can extend.     *)
HandshakeDone(s) ==
  /\ task[s] = "shake" /\ peer[s] = "up"
  /\ Goto(s, "read") /\ Moved(s)

HandshakeFails(s) ==
  /\ task[s] = "shake" /\ peer[s] = "up"
  /\ Finish(s, "error")

HandshakeBudget(s) ==
  /\ task[s] = "shake"
  /\ Finish(s, "handshake")

(* handle_tcp_connection: one line.  A heartbeat is answered, a proposal is   *)
(* evaluated, anything that does not parse or has an unknown type is skipped; *)
(* EOF, an over-long line and a read error end the connection.                *)
ReadLine(s, kind) ==
  /\ task[s] = "read" /\ peer[s] = "up"
  /\ Goto(s, CASE kind = "heartbeat" -> "write"
               [] kind = "propose" -> "eval"
               [] OTHER -> "read")
  /\ Moved(s)

ReadEnds(s) ==
  /\ task[s] = "read" /\ peer[s] = "up"
  /\ Finish(s, "peer")

\* The verdict: every wait on the way has its own deadline, so it comes.
Evaluated(s) ==
  /\ task[s] = "eval"
  /\ Goto(s, "write")
  /\ UNCHANGED silence

WriteDone(s) ==
  /\ task[s] = "write" /\ peer[s] = "up"
  /\ Goto(s, "read") /\ Moved(s)

WriteFails(s) ==
  /\ task[s] = "write"
  /\ Finish(s, "peer")

\* Bytes of an unfinished line, handshake record or answer: progress, and
\* nothing else.
Dribble(s) ==
  /\ task[s] \in {"shake", "read", "write"} /\ peer[s] = "up"
  /\ silence[s] # "short"
  /\ Moved(s)
  /\ UNCHANGED <<task, from, peer, ended, permits, counts, active>>

----------------------------------------------------------------------------
(* IdleTimeout::poll_no_progress, run when the armed deadline fires while the *)
(* task waits for the stream (the handshake, a read or a write).              *)

\* Variant: writes are not under the deadline.
WaitingToRead(s) == task[s] \in {"shake", "read"}

Waiting(s) == task[s] \in {"shake", "read", "write"}

poll_no_progress(s) ==
  /\ Waiting(s)
  /\ IF silence[s] = "idle"
       THEN Finish(s, "idle")
       ELSE /\ silence[s] = "shed"
            /\ address_full(from[s])
            /\ Finish(s, "shed")

\* Time passes on a connection on which nothing moves.
Quieten(s) ==
  /\ task[s] \in {"shake", "read", "eval", "write"}
  /\ silence[s] # "idle"
  /\ silence' = [silence EXCEPT ![s] = IF @ = "short" THEN "shed" ELSE "idle"]
  /\ UNCHANGED <<task, from, peer, ended, permits, counts, active>>

\* The path dies without a FIN or a reset.
PathDies(s) ==
  /\ task[s] # "none" /\ peer[s] = "up"
  /\ peer' = [peer EXCEPT ![s] = "gone"]
  /\ UNCHANGED <<task, from, silence, ended, permits, counts, active>>

(* The end of the task: AdmittedSlot goes with its permit, its address count *)
(* and the gauge, whichever way the task ended.                              *)
DropSlot(s) ==
  /\ task[s] = "end"
  /\ task' = [task EXCEPT ![s] = "none"]
  /\ ended' = [ended EXCEPT ![s] = "not"]
  /\ peer' = [peer EXCEPT ![s] = "up"]
  /\ silence' = [silence EXCEPT ![s] = "short"]
  /\ permits' = permits + 1
  /\ counts' = dropped(from[s])
  /\ active' = active - 1
  /\ from' = [from EXCEPT ![s] = AnyIp]

TaskStep(s) ==
  \/ HandshakeDone(s) \/ HandshakeFails(s) \/ HandshakeBudget(s)
  \/ \E kind \in {"heartbeat", "propose", "other"} : ReadLine(s, kind)
  \/ ReadEnds(s) \/ Evaluated(s) \/ WriteDone(s) \/ WriteFails(s)
  \/ Dribble(s) \/ poll_no_progress(s) \/ DropSlot(s)

SlotNext ==
  \E s \in Sock :
    \/ \E a \in Ip : Accept(s, a)
    \/ TaskStep(s)
    \/ Quieten(s) \/ PathDies(s)

SlotSpec == SlotInit /\ [][SlotNext]_slotVars

(* Fairness: a connection does not stand still.  Time passes on it, a timer   *)
(* that is due fires, an evaluation comes to its end by its own deadlines and *)
(* a task that is done is dropped.  Nothing is asked of a peer.               *)
SlotFairness ==
  \A s \in Sock :
    WF_slotVars(\/ Quieten(s) \/ poll_no_progress(s) \/ HandshakeBudget(s)
                \/ Evaluated(s) \/ DropSlot(s))

----------------------------------------------------------------------------
(* The permits, the address counts and the gauge agree with the sockets that *)
(* are really open, on every exit path of a connection task: no slot leaks   *)
(* and none is given back twice.                                              *)
SlotsAccounted ==
  /\ permits = MaxConnections - Cardinality(Held)
  /\ active = Cardinality(Held)
  /\ MaxPerIp # 0 =>
       \A a \in Ip : /\ counts[a] = Cardinality(HeldFrom(a))
                     /\ counts[a] <= MaxPerIp

(* Silence costs a connection its slot before the idle budget only at an     *)
(* address that is full, counting the shedding connection itself: shedding    *)
(* always makes room for a newcomer that was being refused.                   *)
ShedMakesRoom ==
  [][\A s \in Sock :
       (ended'[s] = "shed" /\ ended[s] = "not") =>
         /\ Cardinality(HeldFrom(from[s])) = MaxPerIp
         /\ silence[s] # "short"]_slotVars

(* A slot whose path died always comes back, whatever its task was doing at  *)
(* the time: handshaking, reading, evaluating or stuck in a write.            *)
DeadSlotsReturn ==
  \A s \in Sock : (peer[s] = "gone") ~> (task[s] = "none")

(* Slots are counted right on every path, and only silence at a full address  *)
(* costs one early.                                                           *)
SlotsHold == []SlotsAccounted /\ ShedMakesRoom
=============================================================================
