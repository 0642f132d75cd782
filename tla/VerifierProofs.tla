--------------------------- MODULE VerifierProofs ----------------------------
(* What is proved of the verifier: its ingress slots, the shed cadence and    *)
(* its administration, which share no state.                                  *)
EXTENDS IngressSlots, ShedCadence, VerifierAdmin, FiniteSetTheorems, TLAPS

----------------------------------------------------------------------------
(* INGRESS SLOTS                                                              *)
(* The ingress slots proved for any number of sockets and addresses, any      *)
(* ceiling, with and without TLS.                                             *)

(* The inductive invariant adds to the accounting that a socket without a     *)
(* task has no ending: a shed is then always seen on a socket that holds its  *)
(* slot, which is what ShedMakesRoom counts.                                  *)
SlotInv ==
  /\ SlotTypeOK
  /\ SlotsAccounted
  /\ \A s \in Sock : ended[s] # "not" => task[s] = "end"

----------------------------------------------------------------------------
\* The two ceilings are numbers, and there is an address to start from.
LEMMA Ceilings == MaxConnections \in Nat /\ MaxPerIp \in Nat /\ AnyIp \in Ip
BY SlotConstants, Zenon DEF AnyIp

\* The sockets that hold a slot can be counted, in all and per address.
LEMMA HeldFinite ==
  /\ IsFiniteSet(Held) /\ Cardinality(Held) \in Nat
  /\ \A a : IsFiniteSet(HeldFrom(a)) /\ Cardinality(HeldFrom(a)) \in Nat
<1>1. Held \subseteq Sock /\ \A a : HeldFrom(a) \subseteq Sock
  BY DEF Held, HeldFrom
<1>2. IsFiniteSet(Held) /\ \A a : IsFiniteSet(HeldFrom(a))
  BY <1>1, SlotConstants, FS_Subset
<1> QED  BY <1>2, FS_CardinalityType

\* The accept loop starts with every permit free and no socket open.
LEMMA InitSlotInv == SlotInit => SlotInv
<1> SUFFICES ASSUME SlotInit  PROVE SlotInv
  OBVIOUS
<1>1. SlotTypeOK
  BY Ceilings DEF SlotInit, SlotTypeOK, Stages
<1>2. Held = {} /\ \A a : HeldFrom(a) = {}
  BY DEF SlotInit, Held, HeldFrom
<1>3. SlotsAccounted
  BY <1>2, FS_EmptySet, Ceilings DEF SlotInit, SlotsAccounted
<1> QED  BY <1>1, <1>3 DEF SlotInv, SlotInit

(* A step that neither opens nor drops a socket leaves the accounting as it   *)
(* is: the tasks move between the stages that hold a slot.                    *)
LEMMA SameHolders ==
  ASSUME SlotInv,
         task' \in [Sock -> Stages], from' = from,
         permits' = permits, counts' = counts, active' = active,
         \A s \in Sock : task'[s] = "none" <=> task[s] = "none"
  PROVE  SlotsAccounted'
<1>1. Held' = Held
  BY DEF Held
<1>2. \A a : HeldFrom(a)' = HeldFrom(a)
  BY <1>1 DEF HeldFrom
<1> QED  BY <1>1, <1>2 DEF SlotInv, SlotsAccounted

\* The accept loop takes a permit, an address count and a unit of the gauge at once.
LEMMA AcceptInv ==
  ASSUME SlotInv, NEW s \in Sock, NEW a \in Ip, Accept(s, a)
  PROVE  SlotInv'
<1>1. SlotTypeOK'
  BY Ceilings DEF SlotInv, SlotTypeOK, Accept, Stages, counted
<1>2. s \notin Held /\ \A b : s \notin HeldFrom(b)
  BY DEF Accept, Held, HeldFrom
<1>3. Held' = Held \union {s}
  BY DEF SlotInv, SlotTypeOK, Accept, Held
<1>4. /\ HeldFrom(a)' = HeldFrom(a) \union {s}
      /\ \A b \in Ip : b # a => HeldFrom(b)' = HeldFrom(b)
  BY <1>2, <1>3 DEF SlotInv, SlotTypeOK, Accept, Held, HeldFrom
<1>5. /\ Cardinality(Held') = Cardinality(Held) + 1
      /\ Cardinality(HeldFrom(a)') = Cardinality(HeldFrom(a)) + 1
  BY <1>2, <1>3, <1>4, HeldFinite, FS_AddElement, Zenon
<1>6. permits' = MaxConnections - Cardinality(Held') /\ active' = Cardinality(Held')
  BY <1>5, HeldFinite, Ceilings DEF SlotInv, SlotsAccounted, Accept
<1>7. ASSUME MaxPerIp # 0, NEW b \in Ip
      PROVE  counts'[b] = Cardinality(HeldFrom(b)') /\ counts'[b] <= MaxPerIp
  <2>1. /\ counts' = [counts EXCEPT ![a] = @ + 1] /\ counts[a] < MaxPerIp
        /\ counts \in [Ip -> Nat]
        /\ counts[b] = Cardinality(HeldFrom(b)) /\ counts[b] <= MaxPerIp
        /\ counts[a] = Cardinality(HeldFrom(a))
    BY <1>7 DEF SlotInv, SlotTypeOK, SlotsAccounted, Accept, counted, try_accept
  <2>2. CASE b = a
    BY <2>1, <2>2, <1>5, Ceilings
  <2>3. CASE b # a
    BY <2>1, <2>3, <1>4
  <2> QED  BY <2>2, <2>3
<1>8. SlotsAccounted'
  BY <1>6, <1>7 DEF SlotsAccounted
<1>9. \A t \in Sock : ended'[t] # "not" => task'[t] = "end"
  BY DEF SlotInv, SlotTypeOK, Accept
<1> QED  BY <1>1, <1>8, <1>9 DEF SlotInv

\* AdmittedSlot gives all three back, for a socket that held them.
LEMMA DropSlotInv ==
  ASSUME SlotInv, NEW s \in Sock, DropSlot(s)
  PROVE  SlotInv'
<1>0. PICK a \in Ip : a = from[s]
  BY DEF SlotInv, SlotTypeOK
<1>1. s \in Held /\ s \in HeldFrom(a)
  BY <1>0 DEF SlotInv, SlotTypeOK, DropSlot, Held, HeldFrom
<1>2. Held' = Held \ {s}
  BY DEF SlotInv, SlotTypeOK, DropSlot, Held
<1>3. /\ HeldFrom(a)' = HeldFrom(a) \ {s}
      /\ \A b \in Ip : b # a => HeldFrom(b)' = HeldFrom(b)
  BY <1>0, <1>2 DEF SlotInv, SlotTypeOK, DropSlot, Held, HeldFrom
<1>4. /\ Cardinality(Held') = Cardinality(Held) - 1
      /\ Cardinality(HeldFrom(a)') = Cardinality(HeldFrom(a)) - 1
      /\ Cardinality(Held') \in Nat /\ Cardinality(HeldFrom(a)') \in Nat
  BY <1>1, <1>2, <1>3, HeldFinite, FS_RemoveElement, FS_CardinalityType
<1>5. permits' = MaxConnections - Cardinality(Held') /\ active' = Cardinality(Held')
  BY <1>4, HeldFinite, Ceilings DEF SlotInv, SlotsAccounted, DropSlot
<1>6. SlotTypeOK'
  <2>1. permits' \in 0 .. MaxConnections
    BY <1>4, <1>5, Ceilings DEF SlotInv, SlotTypeOK, DropSlot
  <2>2. counts' \in [Ip -> Nat]
    BY DEF SlotInv, SlotTypeOK, DropSlot, dropped
  <2> QED  BY <2>1, <2>2, Ceilings DEF SlotInv, SlotTypeOK, DropSlot, Stages
<1>7. ASSUME MaxPerIp # 0, NEW b \in Ip
      PROVE  counts'[b] = Cardinality(HeldFrom(b)') /\ counts'[b] <= MaxPerIp
  <2>1. /\ counts \in [Ip -> Nat]
        /\ counts[b] = Cardinality(HeldFrom(b)) /\ counts[b] <= MaxPerIp
        /\ counts[a] = Cardinality(HeldFrom(a))
    BY <1>1, <1>7 DEF SlotInv, SlotTypeOK, SlotsAccounted
  <2>2. counts' = [counts EXCEPT ![a] = @ - 1]
    BY <1>0, <1>4, <2>1, HeldFinite DEF DropSlot, dropped
  <2>3. CASE b = a
    BY <2>1, <2>2, <2>3, <1>4, HeldFinite, Ceilings
  <2>4. CASE b # a
    BY <2>1, <2>2, <2>4, <1>3
  <2> QED  BY <2>3, <2>4
<1>8. SlotsAccounted'
  BY <1>5, <1>7 DEF SlotsAccounted
<1>9. \A t \in Sock : ended'[t] # "not" => task'[t] = "end"
  BY DEF SlotInv, SlotTypeOK, DropSlot
<1> QED  BY <1>6, <1>8, <1>9 DEF SlotInv

(* The endings of a task: it goes to "end" and keeps its slot.                *)
LEMMA FinishInv ==
  ASSUME SlotInv, NEW s \in Sock, task[s] # "none",
         NEW how \in {"peer", "error", "handshake", "shed", "idle"}, Finish(s, how)
  PROVE  SlotInv'
<1>1. SlotTypeOK'
  BY DEF SlotInv, SlotTypeOK, Finish, Stages
<1>2. \A t \in Sock : task'[t] = "none" <=> task[t] = "none"
  BY DEF SlotInv, SlotTypeOK, Finish
<1>3. SlotsAccounted'
  BY <1>1, <1>2, SameHolders DEF Finish, SlotTypeOK
<1>4. \A t \in Sock : ended'[t] # "not" => task'[t] = "end"
  BY DEF SlotInv, SlotTypeOK, Finish
<1> QED  BY <1>1, <1>3, <1>4 DEF SlotInv

(* The steps between the waits of a task.                                     *)
LEMMA GotoInv ==
  ASSUME SlotInv, NEW s \in Sock, task[s] \notin {"none", "end"},
         NEW to \in Stages \ {"none", "end"}, Goto(s, to),
         silence' \in [Sock -> {"short", "shed", "idle"}]
  PROVE  SlotInv'
<1>1. SlotTypeOK'
  BY Zenon DEF SlotInv, SlotTypeOK, Goto
<1>2. \A t \in Sock : task'[t] = "none" <=> task[t] = "none"
  BY DEF SlotInv, SlotTypeOK, Goto
<1>3. SlotsAccounted'
  BY <1>1, <1>2, SameHolders DEF Goto, SlotTypeOK
<1>4. \A t \in Sock : ended'[t] # "not" => task'[t] = "end"
  BY DEF SlotInv, SlotTypeOK, Goto
<1> QED  BY <1>1, <1>3, <1>4 DEF SlotInv

(* What moves no task: time, stray bytes, the loss of the path.               *)
LEMMA StayInv ==
  ASSUME SlotInv, UNCHANGED <<task, from, ended, permits, counts, active>>,
         silence' \in [Sock -> {"short", "shed", "idle"}],
         peer' \in [Sock -> {"up", "gone"}]
  PROVE  SlotInv'
<1>1. SlotTypeOK'
  BY DEF SlotInv, SlotTypeOK
<1>2. SlotsAccounted'
  BY SameHolders DEF SlotInv, SlotTypeOK
<1> QED  BY <1>1, <1>2 DEF SlotInv

\* Every step of the accept loop, of a task and of its peer keeps the account.
LEMMA StepSlotInv == SlotInv /\ [SlotNext]_slotVars => SlotInv'
<1> SUFFICES ASSUME SlotInv, [SlotNext]_slotVars  PROVE SlotInv'
  OBVIOUS
<1>0. /\ silence \in [Sock -> {"short", "shed", "idle"}]
      /\ peer \in [Sock -> {"up", "gone"}]
  BY DEF SlotInv, SlotTypeOK
<1>1. CASE UNCHANGED slotVars
  BY <1>0, <1>1, StayInv DEF slotVars
<1>2. ASSUME NEW s \in Sock, NEW a \in Ip, Accept(s, a)  PROVE SlotInv'
  BY <1>2, AcceptInv
<1>3. ASSUME NEW s \in Sock, TaskStep(s)  PROVE SlotInv'
  <2>0. \A t \in Sock : [silence EXCEPT ![t] = "short"]
                           \in [Sock -> {"short", "shed", "idle"}]
    BY <1>0
  <2>1. CASE HandshakeDone(s)
    BY <2>0, <2>1, GotoInv DEF HandshakeDone, Moved, Stages
  <2>2. CASE HandshakeFails(s) \/ HandshakeBudget(s)
    BY <2>2, FinishInv DEF HandshakeFails, HandshakeBudget
  <2>3. ASSUME NEW kind, ReadLine(s, kind)  PROVE SlotInv'
    <3> DEFINE to == CASE kind = "heartbeat" -> "write"
                       [] kind = "propose" -> "eval"
                       [] OTHER -> "read"
    <3>1. to \in Stages \ {"none", "end"}
      BY DEF Stages
    <3>2. Goto(s, to) /\ task[s] = "read" /\ Moved(s)
      BY <2>3 DEF ReadLine
    <3> QED  BY <2>0, <3>1, <3>2, GotoInv DEF Moved
  <2>4. CASE ReadEnds(s) \/ WriteFails(s)
    BY <2>4, FinishInv DEF ReadEnds, WriteFails
  <2>5. CASE Evaluated(s)
    BY <1>0, <2>5, GotoInv DEF Evaluated, Stages
  <2>6. CASE WriteDone(s)
    BY <2>0, <2>6, GotoInv DEF WriteDone, Moved, Stages
  <2>7. CASE Dribble(s)
    BY <1>0, <2>0, <2>7, StayInv DEF Dribble, Moved
  <2>8. CASE poll_no_progress(s)
    BY <2>8, FinishInv DEF poll_no_progress, Waiting
  <2>9. CASE DropSlot(s)
    BY <2>9, DropSlotInv
  <2> QED
    BY <1>3, <2>1, <2>2, <2>3, <2>4, <2>5, <2>6, <2>7, <2>8, <2>9 DEF TaskStep
<1>4. ASSUME NEW s \in Sock, Quieten(s)  PROVE SlotInv'
  <2>1. silence' \in [Sock -> {"short", "shed", "idle"}]
    BY <1>0, <1>4 DEF Quieten
  <2> QED  BY <1>0, <1>4, <2>1, StayInv DEF Quieten
<1>5. ASSUME NEW s \in Sock, PathDies(s)  PROVE SlotInv'
  <2>1. peer' \in [Sock -> {"up", "gone"}]
    BY <1>0, <1>5 DEF PathDies
  <2> QED  BY <1>0, <1>5, <2>1, StayInv DEF PathDies
<1> QED  BY <1>1, <1>2, <1>3, <1>4, <1>5 DEF SlotNext

\* The inductive invariant of the ingress holds in every reachable state.
THEOREM SlotInvHolds == SlotSpec => []SlotInv
BY InitSlotInv, StepSlotInv, PTL DEF SlotSpec

----------------------------------------------------------------------------
(* ingress.rs, AdmittedSlot and its drop.  On every exit path of a connection *)
(* task the permit, the address count and the gauge come back together, and   *)
(* no address ever holds more than its ceiling.                               *)
THEOREM SlotsAccountedHolds == SlotSpec => []SlotsAccounted
<1>1. SlotInv => SlotsAccounted
  BY DEF SlotInv
<1> QED  BY <1>1, SlotInvHolds, PTL

(* Only the idle deadline sheds, and only at an address whose count says      *)
(* full, which by the accounting is the number of its open connections.       *)
LEMMA StepSheds ==
  ASSUME SlotInv, SlotNext, NEW s \in Sock, ended'[s] = "shed", ended[s] = "not"
  PROVE  Cardinality(HeldFrom(from[s])) = MaxPerIp /\ silence[s] # "short"
<1>1. PICK t \in Sock : \/ \E a \in Ip : Accept(t, a)
                        \/ TaskStep(t) \/ Quieten(t) \/ PathDies(t)
  BY DEF SlotNext
<1>2. ended \in [Sock -> {"not", "peer", "error", "handshake", "shed", "idle"}]
  BY DEF SlotInv, SlotTypeOK
<1>3. poll_no_progress(t)
  BY <1>1, <1>2 DEF Accept, TaskStep, Quieten, PathDies, HandshakeDone, HandshakeFails,
       HandshakeBudget, ReadLine, ReadEnds, Evaluated, WriteDone, WriteFails, Dribble,
       DropSlot, Finish, Goto
<1>4. t = s /\ silence[s] = "shed" /\ address_full(from[s])
  BY <1>2, <1>3 DEF poll_no_progress, Finish
<1>5. from[s] \in Ip
  BY DEF SlotInv, SlotTypeOK
<1>6. /\ MaxPerIp # 0 /\ counts[from[s]] >= MaxPerIp
      /\ counts[from[s]] <= MaxPerIp /\ counts[from[s]] = Cardinality(HeldFrom(from[s]))
  BY <1>4, <1>5 DEF address_full, SlotInv, SlotsAccounted
<1>7. counts[from[s]] \in Nat
  BY <1>5 DEF SlotInv, SlotTypeOK
<1> QED  BY <1>4, <1>6, <1>7, Ceilings

(* idle_stream.rs, poll_no_progress.  A connection is shed before its idle    *)
(* budget only where that gives a refused newcomer its slot.                  *)
THEOREM ShedMakesRoomHolds == SlotSpec => ShedMakesRoom
<1>1. SlotInv /\ [SlotNext]_slotVars =>
        [\A s \in Sock :
           (ended'[s] = "shed" /\ ended[s] = "not") =>
             /\ Cardinality(HeldFrom(from[s])) = MaxPerIp
             /\ silence[s] # "short"]_slotVars
  BY StepSheds
<1> QED  BY <1>1, SlotInvHolds, PTL DEF SlotSpec, ShedMakesRoom

(* Slots are counted right on every path, and only silence at a full address  *)
(* costs one early, for any number of sockets and addresses and any ceilings. *)
THEOREM SlotsHoldAlways == SlotSpec => SlotsHold
BY SlotsAccountedHolds, ShedMakesRoomHolds, PTL DEF SlotsHold

----------------------------------------------------------------------------
(* SHED CADENCE                                                               *)
(* The cadence estimate proved for every heartbeat interval, clock step,      *)
(* floor and budget.                                                          *)

USE DEF CADENCE_LEARN_AFTER

(* The inductive invariant: heartbeats are read after they are sent, and sent *)
(* no earlier than the peer's timer allows, so the connection's life is at    *)
(* least the intervals between the heartbeats that were read.  A threshold    *)
(* learned earlier stays right, for it is compared with the interval itself.  *)
CadenceInv ==
  /\ uptime \in Nat /\ heartbeats \in Nat /\ sent \in Nat /\ after_ms \in Nat
  /\ unread \in Seq(Int)
  /\ heartbeats + Len(unread) = sent
  /\ lag = 0 /\ sent > 0 => uptime >= (sent - 1) * H
  /\ EstimateNotBelow

----------------------------------------------------------------------------
\* What the assumption on the constants says, duration by duration.
LEMMA Durations ==
  /\ H \in Nat \ {0} /\ Step \in Nat \ {0} /\ IdleBudget \in Nat
  /\ FallbackFloor \in Nat /\ SHED_FLOOR \in Nat
BY CadenceConstants

(* The division rounds down, and still not below what goes in m times.        *)
LEMMA DivisionBelow ==
  ASSUME NEW x \in Nat, NEW m \in Nat \ {0}, NEW h \in Nat, x >= m * h
  PROVE  x \div m >= h
OBVIOUS

\* The learned interval is a natural number.
LEMMA DivisionType ==
  ASSUME NEW x \in Nat, NEW m \in Nat \ {0}
  PROVE  x \div m \in Nat
OBVIOUS

(* More heartbeats mean more intervals.                                       *)
LEMMA FewerIntervals ==
  ASSUME NEW m \in Nat, NEW n \in Nat, m <= n, NEW h \in Nat
  PROVE  m * h \in Nat /\ m * h <= n * h
OBVIOUS

\* Before the first heartbeat the fallback is in force.
LEMMA InitCadenceInv == CadenceInit => CadenceInv
<1> SUFFICES ASSUME CadenceInit  PROVE CadenceInv
  OBVIOUS
<1>1. shed_fallback \in Nat
  BY Durations DEF shed_fallback, Greater
<1> QED  BY <1>1 DEF CadenceInit, CadenceInv, EstimateNotBelow

\* A heartbeat that is read re-estimates the interval from the whole uptime.
LEMMA ReadInv ==
  ASSUME CadenceInv, ReadHeartbeat
  PROVE  CadenceInv'
<1>1. /\ unread # <<>> /\ unread' = Tail(unread) /\ heartbeats' = heartbeats + 1
      /\ lag' = lag /\ uptime' = uptime /\ sent' = sent
  BY DEF ReadHeartbeat, observe
<1>2. after_ms' = IF heartbeats' < CADENCE_LEARN_AFTER THEN after_ms ELSE learned(heartbeats')
  BY DEF ReadHeartbeat, observe
<1>3. /\ uptime \in Nat /\ heartbeats \in Nat /\ sent \in Nat /\ after_ms \in Nat
      /\ unread \in Seq(Int) /\ heartbeats + Len(unread) = sent
      /\ lag = 0 /\ sent > 0 => uptime >= (sent - 1) * H
  BY DEF CadenceInv
<1>4. /\ unread' \in Seq(Int) /\ Len(unread') = Len(unread) - 1
      /\ Len(unread) \in Nat \ {0}
  BY <1>1, <1>3
<1>5. /\ heartbeats' \in Nat /\ heartbeats' = heartbeats + 1
      /\ heartbeats' + Len(unread') = sent' /\ heartbeats' <= sent
  BY <1>1, <1>3, <1>4
<1>6. CASE heartbeats' < CADENCE_LEARN_AFTER
  BY <1>1, <1>2, <1>3, <1>4, <1>5, <1>6 DEF CadenceInv, EstimateNotBelow
<1>7. CASE ~(heartbeats' < CADENCE_LEARN_AFTER)
  <2> DEFINE n == heartbeats' - 1
  <2>1. n \in Nat \ {0} /\ n <= sent - 1 /\ sent - 1 \in Nat /\ sent > 0
    BY <1>3, <1>5, <1>7
  <2> HIDE DEF n
  <2>2. uptime \div n \in Nat
    BY <1>3, <2>1, DivisionType
  <2>3. after_ms' = Greater(2 * (uptime \div n), SHED_FLOOR)
    BY <1>2, <1>7 DEF learned, n
  <2>4. after_ms' \in Nat /\ after_ms' >= 2 * (uptime \div n)
    BY <2>2, <2>3, Durations DEF Greater
  <2>5. ASSUME lag = 0  PROVE after_ms' >= 2 * H
    <3>1. n * H \in Nat /\ n * H <= (sent - 1) * H /\ (sent - 1) * H \in Nat
      BY <2>1, FewerIntervals, Durations
    <3>2. uptime >= n * H
      BY <1>3, <2>1, <2>5, <3>1
    <3>3. uptime \div n >= H
      BY <1>3, <2>1, <3>2, DivisionBelow, Durations
    <3> QED  BY <2>2, <2>4, <3>3, Durations
  <2> QED  BY <1>1, <1>3, <1>4, <1>5, <2>4, <2>5 DEF CadenceInv, EstimateNotBelow
<1> QED  BY <1>6, <1>7

\* The peer sends its next heartbeat no sooner than its interval allows.
LEMMA SendInv ==
  ASSUME CadenceInv, SendHeartbeat
  PROVE  CadenceInv'
<1>1. /\ sent' = sent + 1 /\ unread' = Append(unread, 0) /\ uptime + lag >= sent * H
      /\ UNCHANGED <<lag, uptime, after_ms, heartbeats>>
  BY DEF SendHeartbeat, Due
<1>2. unread' \in Seq(Int) /\ Len(unread') = Len(unread) + 1 /\ Len(unread) \in Nat
  BY <1>1 DEF CadenceInv
<1>3. lag' = 0 => uptime' >= (sent' - 1) * H
  <2>1. sent' - 1 = sent
    BY <1>1 DEF CadenceInv
  <2> QED  BY <1>1, <2>1 DEF CadenceInv
<1> QED  BY <1>1, <1>2, <1>3 DEF CadenceInv, EstimateNotBelow

\* Time passing only lengthens the uptime the estimate divides.
LEMMA ElapseInv ==
  ASSUME CadenceInv, Elapse
  PROVE  CadenceInv'
<1>1. /\ uptime' = uptime + Step
      /\ unread' = [i \in 1 .. Len(unread) |-> Lesser(unread[i] + Step, Slack)]
      /\ UNCHANGED <<lag, after_ms, heartbeats, sent>>
  BY DEF Elapse
<1>2. unread \in Seq(Int) /\ Len(unread) \in Nat
  BY DEF CadenceInv
<1>6. Slack \in Int
  BY Durations DEF Slack
<1>3. \A i \in 1 .. Len(unread) : Lesser(unread[i] + Step, Slack) \in Int
  BY <1>2, <1>6, Durations DEF Lesser
<1>4. unread' \in Seq(Int) /\ Len(unread') = Len(unread)
  BY <1>1, <1>2, <1>3
<1>5. lag' = 0 /\ sent' > 0 => uptime' >= (sent' - 1) * H
  <2>1. sent > 0 => (sent - 1) * H \in Nat
    BY FewerIntervals, Durations DEF CadenceInv
  <2> QED  BY <1>1, <2>1, Durations DEF CadenceInv
<1> QED  BY <1>1, <1>4, <1>5, Durations DEF CadenceInv, EstimateNotBelow

\* Every step keeps the estimate at or above the peer's real interval.
LEMMA StepCadenceInv == CadenceInv /\ [CadenceNext]_cadenceVars => CadenceInv'
<1> SUFFICES ASSUME CadenceInv, [CadenceNext]_cadenceVars  PROVE CadenceInv'
  OBVIOUS
<1>1. CASE UNCHANGED <<lag, uptime, after_ms, heartbeats, sent, unread>>
  BY <1>1 DEF CadenceInv, EstimateNotBelow
<1>2. CASE UNCHANGED cadenceVars \/ OtherProgress \/ \E full \in BOOLEAN : Look(full)
  BY <1>1, <1>2, Zenon DEF cadenceVars, OtherProgress, Look
<1>3. CASE SendHeartbeat
  BY <1>3, SendInv
<1>4. CASE ReadHeartbeat
  BY <1>4, ReadInv
<1>5. CASE Elapse
  BY <1>5, ElapseInv
<1> QED  BY <1>2, <1>3, <1>4, <1>5 DEF CadenceNext

(* idle_stream.rs: "The estimate is an upper bound on the interval, whatever  *)
(* the reads look like".  For every interval and every pattern of late and    *)
(* bunched reads, a learned threshold is at least two real intervals.         *)
THEOREM EstimateHolds == CadenceSpec => []EstimateNotBelow
<1>1. CadenceInv => EstimateNotBelow
  BY DEF CadenceInv
<1> QED  BY <1>1, InitCadenceInv, StepCadenceInv, PTL DEF CadenceSpec


(* A peer that sends on time and is read within its slack.  While it has a    *)
(* heartbeat unread, that heartbeat bounds the time since the one before it   *)
(* was read; while it has none, the next tick has not come.                   *)
LongestSilence == IF lag = 0 THEN 2 * H ELSE SHED_FLOOR

PromptInv ==
  /\ CadenceInv
  /\ lag \in Nat /\ silent \in Nat /\ silent <= uptime
  /\ after_ms >= LongestSilence
  /\ prompt \in BOOLEAN /\ stalled \in BOOLEAN
  /\ silent + heartbeats * H <= uptime + lag + H
  /\ sent > 0 => (sent - 1) * H <= uptime + lag
  /\ prompt =>
       /\ closed = "no"
       /\ uptime = 0 \/ uptime + lag <= sent * H
       /\ \A i \in 1 .. Len(unread) :
            /\ unread[i] \in Nat /\ unread[i] < Slack
            /\ \/ unread[i] = uptime
               \/ uptime + lag <= (heartbeats + i - 1) * H + unread[i]

(* The settings under which a prompt peer is safe: its interval is below the  *)
(* floor, and the fallback and the idle budget leave room for two intervals   *)
(* and for the floor.                                                         *)
RoomForHeartbeats ==
  /\ H < SHED_FLOOR
  /\ 2 * H <= IdleBudget /\ SHED_FLOOR <= IdleBudget
  /\ 2 * H <= shed_fallback /\ SHED_FLOOR <= shed_fallback

\* One more heartbeat is one more interval.
LEMMA OneMore ==
  ASSUME NEW n \in Nat, NEW h \in Nat
  PROVE  n * h \in Nat /\ (n + 1) * h = n * h + h
OBVIOUS

\* With room for heartbeats, a prompt peer's silence reaches neither deadline.
LEMMA NeverThatSilent ==
  ASSUME RoomForHeartbeats, PromptInv, prompt
  PROVE  silent < LongestSilence /\ LongestSilence <= IdleBudget
<1>1. /\ uptime \in Nat /\ heartbeats \in Nat /\ sent \in Nat /\ unread \in Seq(Int)
      /\ heartbeats + Len(unread) = sent /\ Len(unread) \in Nat
  BY DEF PromptInv, CadenceInv
<1>2. /\ lag \in Nat /\ silent \in Nat /\ silent <= uptime
      /\ silent + heartbeats * H <= uptime + lag + H
      /\ uptime = 0 \/ uptime + lag <= sent * H
  BY DEF PromptInv
<1>3. heartbeats * H \in Nat
  BY <1>1, OneMore, Durations
<1>4. H < LongestSilence /\ Slack + H <= LongestSilence /\ LongestSilence <= IdleBudget
      /\ Slack \in Int /\ LongestSilence \in Int /\ Slack > 0
  BY Durations DEF RoomForHeartbeats, LongestSilence, Slack
<1>5. CASE Len(unread) = 0
  <2>1. sent * H = heartbeats * H
    BY <1>1, <1>5
  <2> QED  BY <1>1, <1>2, <1>3, <1>4, <2>1, Durations
<1>6. CASE Len(unread) # 0
  <2>1. 1 \in 1 .. Len(unread)
    BY <1>1, <1>6
  <2>2. /\ unread[1] \in Nat /\ unread[1] < Slack
        /\ unread[1] = uptime \/ uptime + lag <= (heartbeats + 1 - 1) * H + unread[1]
    BY <2>1 DEF PromptInv
  <2>3. heartbeats + 1 - 1 = heartbeats
    BY <1>1
  <2>4. unread[1] = uptime \/ uptime + lag <= heartbeats * H + unread[1]
    BY <2>2, <2>3
  <2> QED  BY <1>1, <1>2, <1>3, <1>4, <2>2, <2>4, Durations
<1> QED  BY <1>5, <1>6

\* Before anything is sent no time has passed.
LEMMA InitPromptInv ==
  ASSUME RoomForHeartbeats, CadenceInit
  PROVE  PromptInv
<1>1. CadenceInv
  BY InitCadenceInv
<1>2. /\ uptime = 0 /\ silent = 0 /\ heartbeats = 0 /\ sent = 0 /\ unread = <<>>
      /\ lag \in {0, AcceptLag} /\ prompt \in BOOLEAN /\ stalled = FALSE /\ closed = "no"
      /\ after_ms = shed_fallback
  BY DEF CadenceInit
<1>3. lag \in Nat /\ 0 * H = 0
  BY <1>2, CadenceConstants
<1>4. after_ms >= LongestSilence
  BY <1>2, Durations DEF RoomForHeartbeats, LongestSilence
<1>5. silent + heartbeats * H <= uptime + lag + H
  BY <1>2, <1>3, Durations
<1>6. \A i \in 1 .. Len(unread) : FALSE
  BY <1>2
<1>7. silent \in Nat /\ silent <= uptime /\ ~(sent > 0)
  BY <1>2
<1>8. \A i \in 1 .. Len(unread) :
        /\ unread[i] \in Nat /\ unread[i] < Slack
        /\ unread[i] = uptime \/ uptime + lag <= (heartbeats + i - 1) * H + unread[i]
  BY <1>6, Zenon
<1>9. sent > 0 => (sent - 1) * H <= uptime + lag
  BY <1>7, Zenon
<1>10. stalled \in BOOLEAN
  BY <1>2, Zenon
<1> QED  BY <1>1, <1>2, <1>3, <1>4, <1>5, <1>7, <1>8, <1>9, <1>10, Zenon DEF PromptInv

\* The peer sends, not before its tick and, when prompt, not after it.
LEMMA SendPrompt ==
  ASSUME RoomForHeartbeats, PromptInv, SendHeartbeat
  PROVE  PromptInv'
<1>1. CadenceInv' /\ CadenceInv
  BY SendInv DEF PromptInv
<1>2. /\ sent' = sent + 1 /\ unread' = Append(unread, 0) /\ uptime + lag >= sent * H
      /\ UNCHANGED <<lag, prompt, uptime, silent, after_ms, heartbeats, stalled, closed>>
  BY DEF SendHeartbeat, Due
<1>3. /\ uptime \in Nat /\ heartbeats \in Nat /\ sent \in Nat /\ unread \in Seq(Int)
      /\ heartbeats + Len(unread) = sent /\ Len(unread) \in Nat
  BY <1>1 DEF CadenceInv
<1>4. sent * H \in Nat /\ (sent + 1) * H = sent * H + H
  BY <1>3, OneMore, Durations
<1>5. Slack' = Slack /\ LongestSilence' = LongestSilence /\ Slack > 0 /\ Slack \in Int
  BY <1>2, Durations DEF Slack, LongestSilence, RoomForHeartbeats, PromptInv
<1>6. sent' > 0 => (sent' - 1) * H <= uptime' + lag'
  <2>1. sent' - 1 = sent
    BY <1>2, <1>3
  <2> QED  BY <1>2, <2>1
<1>7. ASSUME prompt
      PROVE  /\ uptime' = 0 \/ uptime' + lag' <= sent' * H
             /\ \A i \in 1 .. Len(unread') :
                  /\ unread'[i] \in Nat /\ unread'[i] < Slack'
                  /\ \/ unread'[i] = uptime'
                     \/ uptime' + lag' <= (heartbeats' + i - 1) * H + unread'[i]
  <2>1. uptime = 0 \/ uptime + lag <= sent * H
    BY <1>7 DEF PromptInv
  <2>2. uptime' = 0 \/ uptime' + lag' <= sent' * H
    BY <1>2, <1>3, <1>4, <2>1, Durations DEF PromptInv
  <2>3. ASSUME NEW i \in 1 .. Len(unread')
        PROVE  /\ unread'[i] \in Nat /\ unread'[i] < Slack'
               /\ \/ unread'[i] = uptime'
                  \/ uptime' + lag' <= (heartbeats' + i - 1) * H + unread'[i]
    <3>1. CASE i = Len(unread) + 1
      <4>1. unread'[i] = 0 /\ heartbeats' + i - 1 = sent
        BY <1>2, <1>3, <3>1
      <4>2. (heartbeats' + i - 1) * H = sent * H /\ lag \in Nat
        BY <4>1 DEF PromptInv
      <4> HIDE DEF PromptInv
      <4>3. unread'[i] = uptime' \/ uptime' + lag' <= sent * H + unread'[i]
        BY <1>2, <1>3, <1>4, <2>1, <4>1, <4>2
      <4> QED  BY <1>5, <4>1, <4>2, <4>3
    <3>2. CASE i # Len(unread) + 1
      <4>1. i \in 1 .. Len(unread) /\ unread'[i] = unread[i]
        BY <1>2, <1>3, <2>3, <3>2
      <4> QED  BY <1>2, <1>5, <1>7, <4>1 DEF PromptInv
    <3> QED  BY <3>1, <3>2
  <2> QED  BY <2>2, <2>3
<1>8. /\ lag' \in Nat /\ silent' \in Nat /\ silent' <= uptime' /\ after_ms' >= LongestSilence'
      /\ prompt' \in BOOLEAN /\ stalled' \in BOOLEAN
      /\ silent' + heartbeats' * H <= uptime' + lag' + H
      /\ prompt' => prompt /\ closed' = "no"
  BY <1>2, <1>5 DEF PromptInv
<1> QED  BY <1>1, <1>6, <1>7, <1>8 DEF PromptInv

\* A heartbeat is read: the silence ends, no sooner than the heartbeat was due.
LEMMA ReadPrompt ==
  ASSUME RoomForHeartbeats, PromptInv, ReadHeartbeat
  PROVE  PromptInv'
<1>1. CadenceInv' /\ CadenceInv
  BY ReadInv DEF PromptInv
<1>2. /\ unread # <<>> /\ unread' = Tail(unread) /\ heartbeats' = heartbeats + 1 /\ silent' = 0
      /\ UNCHANGED <<lag, prompt, uptime, sent, closed>> /\ stalled' \in BOOLEAN
  BY DEF ReadHeartbeat, observe
<1>3. /\ uptime \in Nat /\ heartbeats \in Nat /\ sent \in Nat /\ unread \in Seq(Int)
      /\ heartbeats + Len(unread) = sent /\ Len(unread) \in Nat \ {0} /\ after_ms \in Nat
  BY <1>1, <1>2 DEF CadenceInv
<1>4. /\ heartbeats * H \in Nat /\ (heartbeats + 1) * H = heartbeats * H + H
      /\ heartbeats * H <= (sent - 1) * H /\ (sent - 1) * H \in Nat
  BY <1>3, OneMore, FewerIntervals, Durations
<1>5. Slack' = Slack /\ LongestSilence' = LongestSilence
  BY <1>2 DEF Slack, LongestSilence
<1>6. silent' + heartbeats' * H <= uptime' + lag' + H
  <2>1. (sent - 1) * H <= uptime + lag
    BY <1>3 DEF PromptInv
  <2> QED  BY <1>2, <1>3, <1>4, <2>1, Durations DEF PromptInv
<1>7. after_ms' >= LongestSilence'
  <2>1. CASE heartbeats' < CADENCE_LEARN_AFTER
    BY <1>5, <2>1 DEF PromptInv, ReadHeartbeat, observe
  <2>2. CASE ~(heartbeats' < CADENCE_LEARN_AFTER)
    <3>1. after_ms' = Greater(2 * (uptime \div heartbeats), SHED_FLOOR)
      BY <1>2, <1>3, <2>2 DEF ReadHeartbeat, observe, learned
    <3>2. uptime \div heartbeats \in Nat
      BY <1>2, <1>3, <2>2, DivisionType
    <3>3. after_ms' >= SHED_FLOOR
      BY <3>1, <3>2, Durations DEF Greater
    <3>4. lag = 0 => after_ms' >= 2 * H
      BY <1>1, <1>2, <1>3, <2>2 DEF CadenceInv, EstimateNotBelow
    <3> QED  BY <1>5, <3>3, <3>4 DEF LongestSilence
  <2> QED  BY <2>1, <2>2
<1>8. ASSUME prompt, NEW i \in 1 .. Len(unread')
      PROVE  /\ unread'[i] \in Nat /\ unread'[i] < Slack'
             /\ \/ unread'[i] = uptime'
                \/ uptime' + lag' <= (heartbeats' + i - 1) * H + unread'[i]
  <2>1. i + 1 \in 1 .. Len(unread) /\ unread'[i] = unread[i + 1]
    BY <1>2, <1>3, <1>8
  <2>2. /\ unread[i + 1] \in Nat /\ unread[i + 1] < Slack
        /\ \/ unread[i + 1] = uptime
           \/ uptime + lag <= (heartbeats + (i + 1) - 1) * H + unread[i + 1]
    BY <1>8, <2>1 DEF PromptInv
  <2>3. heartbeats + (i + 1) - 1 = heartbeats' + i - 1
    BY <1>2, <1>3, <1>8
  <2> QED  BY <1>2, <1>5, <2>1, <2>2, <2>3
<1>9. /\ lag' \in Nat /\ silent' \in Nat /\ silent' <= uptime'
      /\ prompt' \in BOOLEAN /\ (sent' > 0 => (sent' - 1) * H <= uptime' + lag')
  BY <1>2, <1>3 DEF PromptInv
<1>10. prompt' => prompt /\ closed' = "no" /\ (uptime' = 0 \/ uptime' + lag' <= sent' * H)
  BY <1>2 DEF PromptInv
<1> QED  BY <1>1, <1>2, <1>6, <1>7, <1>8, <1>9, <1>10 DEF PromptInv

\* Time passes; a prompt peer's next tick and its slack are not passed.
LEMMA ElapsePrompt ==
  ASSUME RoomForHeartbeats, PromptInv, Elapse
  PROVE  PromptInv'
<1>1. CadenceInv' /\ CadenceInv
  BY ElapseInv DEF PromptInv
<1>2. /\ uptime' = uptime + Step /\ silent' = Lesser(silent + Step, IdleBudget)
      /\ unread' = [i \in 1 .. Len(unread) |-> Lesser(unread[i] + Step, Slack)]
      /\ UNCHANGED <<lag, prompt, after_ms, heartbeats, sent, stalled, closed>>
      /\ prompt => Punctual
  BY DEF Elapse
<1>3. /\ uptime \in Nat /\ heartbeats \in Nat /\ sent \in Nat /\ unread \in Seq(Int)
      /\ Len(unread) \in Nat
  BY <1>1 DEF CadenceInv
<1>4. Slack' = Slack /\ LongestSilence' = LongestSilence /\ Slack \in Int
  BY <1>2, Durations DEF Slack, LongestSilence
<1>5. silent' \in Nat /\ silent' <= silent + Step
  BY <1>2, Durations DEF Lesser, PromptInv
<1>6. heartbeats * H \in Nat /\ (sent > 0 => (sent - 1) * H \in Nat)
  BY <1>3, OneMore, Durations
<1>7. /\ silent' <= uptime' /\ silent' + heartbeats' * H <= uptime' + lag' + H
      /\ sent' > 0 => (sent' - 1) * H <= uptime' + lag'
  BY <1>2, <1>3, <1>5, <1>6, Durations DEF PromptInv
<1>8. ASSUME prompt, NEW i \in 1 .. Len(unread')
      PROVE  /\ unread'[i] \in Nat /\ unread'[i] < Slack'
             /\ \/ unread'[i] = uptime'
                \/ uptime' + lag' <= (heartbeats' + i - 1) * H + unread'[i]
  <2>1. i \in 1 .. Len(unread) /\ unread'[i] = Lesser(unread[i] + Step, Slack)
    BY <1>2, <1>3, <1>8
  <2>2. /\ unread[i] \in Nat /\ unread[i] + Step < Slack
        /\ unread[i] = uptime \/ uptime + lag <= (heartbeats + i - 1) * H + unread[i]
    BY <1>2, <1>8, <2>1 DEF PromptInv, Punctual
  <2>3. unread'[i] = unread[i] + Step
    BY <1>4, <2>1, <2>2, Durations DEF Lesser
  <2>4. heartbeats + i - 1 \in Nat
    BY <1>3, <2>1
  <2>5. (heartbeats + i - 1) * H \in Nat
    BY <2>4, OneMore, Durations
  <2> QED  BY <1>2, <1>3, <1>4, <2>2, <2>3, <2>5, Durations DEF PromptInv
<1>9. prompt' => prompt /\ closed' = "no" /\ uptime' + lag' <= sent' * H
  <2>1. sent * H \in Nat
    BY <1>3, OneMore, Durations
  <2> QED  BY <1>2, <1>3, <2>1, Durations DEF PromptInv, Punctual
<1>10. /\ lag' \in Nat /\ after_ms' >= LongestSilence' /\ prompt' \in BOOLEAN
       /\ stalled' \in BOOLEAN
  BY <1>2, <1>4 DEF PromptInv
<1> QED  BY <1>1, <1>5, <1>7, <1>8, <1>9, <1>10 DEF PromptInv

\* A deadline that fires finds a prompt peer short of both limits.
LEMMA LookPrompt ==
  ASSUME RoomForHeartbeats, PromptInv, NEW full \in BOOLEAN, Look(full)
  PROVE  PromptInv'
<1>1. UNCHANGED <<lag, prompt, uptime, silent, after_ms, heartbeats, sent, unread, stalled>>
  BY DEF Look
<1>2. CadenceInv' /\ Slack' = Slack /\ LongestSilence' = LongestSilence
  BY <1>1 DEF PromptInv, CadenceInv, EstimateNotBelow, Slack, LongestSilence
<1>3. prompt => closed' = "no"
  <2>1. SUFFICES ASSUME prompt  PROVE closed' = "no"
    OBVIOUS
  <2>2. silent < IdleBudget /\ silent < after_ms
    BY <2>1, NeverThatSilent, Durations DEF PromptInv, CadenceInv, LongestSilence
  <2>3. ~(silent >= IdleBudget) /\ ~(silent >= after_ms)
    BY <2>2, Durations DEF PromptInv, CadenceInv
  <2> QED  BY <2>3, Zenon DEF Look
<1> QED  BY <1>1, <1>2, <1>3 DEF PromptInv

\* Other bytes end the silence at once.
LEMMA OtherPrompt ==
  ASSUME PromptInv, OtherProgress
  PROVE  PromptInv'
<1>1. /\ silent' = 0 /\ stalled' = FALSE
      /\ UNCHANGED <<lag, prompt, uptime, after_ms, heartbeats, sent, unread, closed>>
  BY DEF OtherProgress
<1>2. CadenceInv' /\ Slack' = Slack /\ LongestSilence' = LongestSilence
  BY <1>1 DEF PromptInv, CadenceInv, EstimateNotBelow, Slack, LongestSilence
<1>3. heartbeats * H \in Nat /\ uptime \in Nat
  BY OneMore, Durations DEF PromptInv, CadenceInv
<1>4. silent' \in Nat /\ silent' <= uptime' /\ silent' + heartbeats' * H <= uptime' + lag' + H
  BY <1>1, <1>3, Durations DEF PromptInv
<1> QED  BY <1>1, <1>2, <1>4, Zenon DEF PromptInv

\* Every step keeps a prompt peer's connection.
LEMMA StepPromptInv ==
  ASSUME RoomForHeartbeats, PromptInv, [CadenceNext]_cadenceVars
  PROVE  PromptInv'
<1>1. CASE UNCHANGED cadenceVars
  BY <1>1 DEF cadenceVars, PromptInv, CadenceInv, EstimateNotBelow, Slack, LongestSilence
<1> QED
  BY <1>1, SendPrompt, ReadPrompt, OtherPrompt, LookPrompt, ElapsePrompt, Zenon DEF CadenceNext

(* idle_stream.rs.  The learned threshold is at least two real intervals, and *)
(* a peer whose timer is on schedule and whose heartbeats are read within its *)
(* slack is never closed, however long its address stays full, for every      *)
(* interval, lag and step for which the settings leave room for heartbeats.   *)
THEOREM SparesLivePeersHolds ==
  ASSUME RoomForHeartbeats
  PROVE  CadenceSpec => []SparesLivePeers
<1>1. CadenceInit => PromptInv
  BY InitPromptInv
<1>2. PromptInv /\ [CadenceNext]_cadenceVars => PromptInv'
  BY StepPromptInv
<1>3. PromptInv => SparesLivePeers
  BY DEF PromptInv, CadenceInv, SparesLivePeers, PromptPeerKept
<1> QED  BY <1>1, <1>2, <1>3, PTL DEF CadenceSpec

HIDE DEF CADENCE_LEARN_AFTER

----------------------------------------------------------------------------
(* ADMINISTRATION                                                             *)
(* The policy in force validates, and what a start serves is what the         *)
(* operator asked for, for every number of requests in flight, every set of   *)
(* policy values and any number of restarts.                                  *)

(* The two properties together are inductive: a start establishes both, a     *)
(* handler stores only what it validated, and none of the handlers touches    *)
(* the environment, the stored file or what main() wired.                     *)
AdminInv == PolicyValid /\ StartIsDeliberate

\* The built-in policy passes PolicyConfig::validate and enforces nothing.
LEMMA PermissiveValidates == validate(Permissive) /\ Permissive.mempool = "off"
<1>1. AnyLevel \in Level
  BY AdminConstants DEF AnyLevel
<1>2. AnyLevel \in Nat
  BY <1>1, AdminConstants
<1> QED
  BY <1>2 DEF validate, Permissive, NoPolicy

\* The process is down before its first start.
LEMMA InitAdmin == AdminInit => AdminInv
  BY DEF AdminInit, AdminInv, PolicyValid, StartIsDeliberate

\* main(): every way a start can end (main.rs, state.rs).
LEMMA BootAdmin == AdminInv /\ Boot => AdminInv'
<1> SUFFICES ASSUME AdminInv, Boot, process' = "up"
             PROVE  AdminInv'
  BY Zenon DEF AdminInv, PolicyValid, StartIsDeliberate
<1> DEFINE first == safe_initial_policy(stored, env.degrade)
<1>1. /\ enforce_api_secret(env) /\ first.ok
      /\ build_phase2_mempool_view(first.cfg).ok
      /\ policy' = first.cfg /\ loaded_ok' = ~first.degraded
      /\ wired' = build_phase2_mempool_view(first.cfg).mempool
      /\ env' = env /\ stored' = stored
  BY DEF Boot
<1>2. env.secret # "unusable" /\ (env.secret = "none" => env.optional)
  BY <1>1 DEF enforce_api_secret
<1>3. CASE validate(stored)
  <2>1. first.cfg = stored /\ ~first.degraded
    BY <1>3 DEF safe_initial_policy
  <2>2. policy' = stored /\ loaded_ok'
    BY <1>1, <2>1, Zenon
  <2>3. stored.mempool # "unusable" /\ (stored.mempool # "off" => wired')
    <3>1. /\ build_phase2_mempool_view(stored).ok = (stored.mempool # "unusable")
          /\ build_phase2_mempool_view(stored).mempool = (stored.mempool # "off")
      BY DEF build_phase2_mempool_view
    <3> QED
      BY <1>1, <2>1, <3>1, Zenon
  <2>4. validate(policy')
    BY <1>3, <2>2
  <2>5. StartIsDeliberate'
    BY <1>1, <1>2, <1>3, <2>2, <2>3, Zenon DEF StartIsDeliberate
  <2> QED
    BY <2>4, <2>5 DEF AdminInv, PolicyValid, validate
<1>4. CASE ~validate(stored)
  <2>1. first.ok = env.degrade /\ first.cfg = Permissive /\ first.degraded
    BY <1>4 DEF safe_initial_policy
  <2>2. policy' = Permissive /\ ~loaded_ok' /\ env.degrade
    BY <1>1, <2>1, Zenon
  <2>3. validate(policy')
    BY <2>2, PermissiveValidates
  <2>4. StartIsDeliberate'
    BY <1>1, <1>2, <1>4, <2>2, Zenon DEF StartIsDeliberate, readiness_check
  <2> QED
    BY <2>3, <2>4 DEF AdminInv, PolicyValid, validate
<1> QED
  BY <1>3, <1>4

\* What StartIsDeliberate is about is written by starts alone.
LEMMA DeliberateStays ==
  ASSUME AdminInv, UNCHANGED <<env, stored, process, loaded_ok, wired>>
  PROVE  StartIsDeliberate'
  BY DEF AdminInv, StartIsDeliberate, validate, readiness_check

\* Every step keeps both properties.
LEMMA StepAdmin == AdminInv /\ [AdminNext]_adminVars => AdminInv'
<1> SUFFICES ASSUME AdminInv, [AdminNext]_adminVars
             PROVE  AdminInv'
  OBVIOUS
<1>1. CASE Boot
  BY <1>1, BootAdmin
<1>2. CASE StopVerifier
  BY <1>2 DEF StopVerifier, AdminInv, PolicyValid, StartIsDeliberate
<1>3. CASE Tick
  <2>1. UNCHANGED <<env, stored, process, loaded_ok, wired>> /\ UNCHANGED policy
    BY <1>3 DEF Tick
  <2> QED
    BY <2>1, DeliberateStays DEF AdminInv, PolicyValid, validate
<1>4. ASSUME NEW r \in Req, StorePolicy(r)
      PROVE  AdminInv'
  <2>1. UNCHANGED <<env, stored, process, loaded_ok, wired>>
    BY <1>4 DEF StorePolicy
  <2>2. policy' = IF validate(request[r].cfg) THEN request[r].cfg ELSE policy
    BY <1>4 DEF StorePolicy
  <2> QED
    BY <2>1, <2>2, DeliberateStays DEF AdminInv, PolicyValid, validate
<1>5. ASSUME NEW r \in Req, NEW patch \in Patches, MergePolicy(r, patch)
      PROVE  AdminInv'
  <2>1. UNCHANGED <<env, stored, process, loaded_ok, wired>> /\ UNCHANGED policy
    BY <1>5 DEF MergePolicy
  <2> QED
    BY <2>1, DeliberateStays DEF AdminInv, PolicyValid, validate
<1>6. ASSUME NEW body \in Policies \cup {NoPolicy}, apply_policy_toml(body)
      PROVE  AdminInv'
  <2>1. UNCHANGED <<env, stored, process, loaded_ok, wired>>
    BY <1>6 DEF apply_policy_toml
  <2>2. policy' = IF validate(body) THEN body ELSE policy
    BY <1>6 DEF apply_policy_toml
  <2> QED
    BY <2>1, <2>2, DeliberateStays DEF AdminInv, PolicyValid, validate
<1>7. ASSUME NEW url \in Setting, apply_settings(url)
      PROVE  AdminInv'
  <2>1. UNCHANGED <<env, stored, process, loaded_ok, wired>> /\ UNCHANGED policy
    BY <1>7 DEF apply_settings
  <2> QED
    BY <2>1, DeliberateStays DEF AdminInv, PolicyValid, validate
<1>8. ASSUME NEW url \in Setting, NEW ok \in BOOLEAN, save_settings(url, ok)
      PROVE  AdminInv'
  <2>1. UNCHANGED <<env, stored, process, loaded_ok, wired>> /\ UNCHANGED policy
    BY <1>8 DEF save_settings
  <2> QED
    BY <2>1, DeliberateStays DEF AdminInv, PolicyValid, validate
<1>9. CASE UNCHANGED adminVars
  <2>1. UNCHANGED <<env, stored, process, loaded_ok, wired>> /\ UNCHANGED policy
    BY <1>9 DEF adminVars
  <2> QED
    BY <2>1, DeliberateStays DEF AdminInv, PolicyValid, validate
<1> QED
  BY <1>1, <1>2, <1>3, <1>4, <1>5, <1>6, <1>7, <1>8, <1>9 DEF AdminNext

(* Concurrent partial updates never leave a policy in force that does not     *)
(* validate (apply_policy and apply_policy_toml, handlers.rs).                *)
THEOREM PolicyValidHolds == AdminSpec => []PolicyValid
<1>1. AdminInv => PolicyValid
  BY DEF AdminInv
<1> QED
  BY InitAdmin, StepAdmin, <1>1, PTL DEF AdminSpec

(* A verifier that serves was configured to serve what it serves, and stays   *)
(* so through every administration request (main(), main.rs).                 *)
THEOREM StartIsDeliberateHolds == AdminSpec => []StartIsDeliberate
<1>1. AdminInv => StartIsDeliberate
  BY DEF AdminInv
<1> QED
  BY InitAdmin, StepAdmin, <1>1, PTL DEF AdminSpec

(* The verifier serves only what somebody chose, for any number of            *)
(* overlapping requests and restarts.                                         *)
THEOREM ServesAsChosenHolds == AdminSpec => []ServesAsChosen
BY PolicyValidHolds, StartIsDeliberateHolds, PTL DEF ServesAsChosen
=============================================================================
