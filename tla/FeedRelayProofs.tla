--------------------------- MODULE FeedRelayProofs ---------------------------
(* The observe-mode feed proved for any number of sockets, any capacity of    *)
(* the broadcast channel and any ceilings.                                    *)
EXTENDS FeedRelay, FiniteSetTheorems, TLAPS

Buffered == {"blocktemplate", "mempoolinfo"}
FrameType == Buffered \union {"heartbeat", "status"}
Frames == [type : FrameType, n : Nat]

\* What the adapter keeps of a type.
Held(type) == IF type = "blocktemplate" THEN block_template ELSE mempool_info

FeedTypeOK ==
  /\ tip \in Nat
  /\ ring \in Seq(Frames) /\ Len(ring) <= Capacity
  /\ server \in [Socket -> {"none", "shake", "open"}]
  /\ behind \in [Socket -> 0 .. Capacity + 1]
  /\ heard \in [Socket -> BOOLEAN]
  /\ onWire \in [Socket -> Seq(Frames)]
  /\ link \in Socket \union {NoSocket}
  /\ block_template \in Int /\ mempool_info \in Int

\* A receiver is behind by frames the channel keeps, or by more than it keeps.
BehindIsKept ==
  \A s \in Socket : behind[s] <= Len(ring) \/ (behind[s] = Capacity + 1 /\ Len(ring) = Capacity)

\* Of each type, the channel's frames follow each other and the node.
RingOrdered ==
  \A type \in Buffered :
    /\ Held(type) <= tip
    /\ \A i \in DOMAIN ring : ring[i].type = type => ring[i].n <= tip
    /\ \A i, j \in DOMAIN ring :
         i < j /\ ring[i].type = type /\ ring[j].type = type => ring[i].n <= ring[j].n

(* Of each type, what the adapter holds comes before what is on its socket,   *)
(* and that before what its receiver has yet to read.                         *)
PathOrdered ==
  link # NoSocket =>
    \A type \in Buffered :
      /\ \A i \in DOMAIN onWire[link] :
           onWire[link][i].type = type =>
             /\ Held(type) <= onWire[link][i].n
             /\ onWire[link][i].n <= tip
      /\ \A i, j \in DOMAIN onWire[link] :
           i < j /\ onWire[link][i].type = type /\ onWire[link][j].type = type
             => onWire[link][i].n <= onWire[link][j].n
      /\ \A j \in DOMAIN ring :
           (j > Len(ring) - behind[link] /\ ring[j].type = type) =>
             /\ Held(type) <= ring[j].n
             /\ \A i \in DOMAIN onWire[link] :
                  onWire[link][i].type = type => onWire[link][i].n <= ring[j].n

(* A kept template that the receiver has read is on the socket, behind no     *)
(* other, or has been taken from it.                                          *)
NewestIsOnItsWay ==
  (link # NoSocket /\ heard[link]) =>
    \A p \in DOMAIN ring :
      (LastTemplate(ring, p) /\ p <= Len(ring) - behind[link]) =>
        /\ \A i \in DOMAIN onWire[link] :
             LastTemplate(onWire[link], i) => onWire[link][i].n = ring[p].n
        /\ (\A i \in DOMAIN onWire[link] : onWire[link][i].type # "blocktemplate")
             => block_template = ring[p].n

OrderInv == FeedTypeOK /\ BehindIsKept /\ RingOrdered /\ PathOrdered /\ NewestIsOnItsWay

(* The counts are of the tasks; the tracker counts nothing without a ceiling. *)
SlotsInv ==
  /\ server \in [Socket -> {"none", "shake", "open"}] /\ link \in Socket \union {NoSocket}
  /\ active \in Nat /\ per_ip \in Nat
  /\ FeedSlotsHeld
  /\ MaxConnsPerIp = 0 => per_ip = 0

\* The feed's tasks as a set: an accept adds one, an end takes one away.
LEMMA TaskCount ==
  ASSUME server \in [Socket -> {"none", "shake", "open"}]
  PROVE  /\ IsFiniteSet({t \in Socket : Live(t)})
         /\ Cardinality({t \in Socket : Live(t)}) \in Nat
         /\ \A s \in Socket, to \in {"none", "shake", "open"} :
              server' = [server EXCEPT ![s] = to] =>
                Cardinality({t \in Socket : Live(t)})' =
                  IF Live(s) THEN IF to = "none" THEN Cardinality({t \in Socket : Live(t)}) - 1
                                                 ELSE Cardinality({t \in Socket : Live(t)})
                             ELSE IF to = "none" THEN Cardinality({t \in Socket : Live(t)})
                                                 ELSE Cardinality({t \in Socket : Live(t)}) + 1
<1> DEFINE S == {t \in Socket : Live(t)}
<1>1. IsFiniteSet(S)
  BY FeedConstants, FS_Subset
<1>2. Cardinality(S) \in Nat
  BY <1>1, FS_CardinalityType
<1>3. ASSUME NEW s \in Socket, NEW to \in {"none", "shake", "open"},
             server' = [server EXCEPT ![s] = to]
      PROVE  S' = IF to = "none" THEN S \ {s} ELSE S \union {s}
  BY <1>3 DEF Live
<1>4. ASSUME NEW s \in Socket
      PROVE  /\ Cardinality(S \ {s}) = IF Live(s) THEN Cardinality(S) - 1 ELSE Cardinality(S)
             /\ Cardinality(S \union {s}) = IF Live(s) THEN Cardinality(S) ELSE Cardinality(S) + 1
  <2>1. s \in S <=> Live(s)
    OBVIOUS
  <2> QED  BY <1>1, <2>1, FS_RemoveElement, FS_AddElement, Zenon
<1>5. ASSUME NEW s \in Socket, NEW to \in {"none", "shake", "open"},
             server' = [server EXCEPT ![s] = to]
      PROVE  Cardinality(S') = IF Live(s) THEN IF to = "none" THEN Cardinality(S) - 1
                                                              ELSE Cardinality(S)
                                          ELSE IF to = "none" THEN Cardinality(S)
                                                              ELSE Cardinality(S) + 1
  BY <1>3, <1>4, <1>5, Zenon
<1> QED  BY <1>1, <1>2, <1>5

\* No task runs before the first connection.
LEMMA InitSlotsInv == RelayInit => SlotsInv
<1> SUFFICES ASSUME RelayInit  PROVE SlotsInv
  OBVIOUS
<1>1. {t \in Socket : Live(t)} = {}
  BY DEF RelayInit, Live
<1>2. Cardinality({t \in Socket : Live(t)}) = 0
  BY <1>1, FS_EmptySet
<1> QED  BY <1>2, FeedConstants DEF RelayInit, SlotsInv, FeedSlotsHeld

\* A task that ends gives back one slot and one of its address's.
LEMMA EndKeepsSlots ==
  ASSUME SlotsInv, NEW s \in Socket, Live(s), EndRelay(s), link' \in Socket \union {NoSocket}
  PROVE  SlotsInv'
<1>1. /\ server' = [server EXCEPT ![s] = "none"] /\ active' = active - 1
      /\ per_ip' = IF per_ip = 0 THEN per_ip ELSE per_ip - 1
  BY DEF EndRelay, ip_released
<1>2. server \in [Socket -> {"none", "shake", "open"}]
  BY DEF SlotsInv
<1>3. /\ Cardinality({t \in Socket : Live(t)})' = Cardinality({t \in Socket : Live(t)}) - 1
      /\ Cardinality({t \in Socket : Live(t)}) \in Nat
  BY <1>1, <1>2, TaskCount, Zenon
<1>4. IsFiniteSet({t \in Socket : Live(t)}) /\ s \in {t \in Socket : Live(t)}
  BY <1>2, TaskCount
<1>5. Cardinality({t \in Socket : Live(t)}) # 0
  BY <1>4, FS_EmptySet
<1>6. server' \in [Socket -> {"none", "shake", "open"}]
  BY <1>1, <1>2
<1> QED  BY <1>1, <1>3, <1>5, <1>6, FeedConstants DEF SlotsInv, FeedSlotsHeld

\* Every step keeps the counts at the tasks that run.
LEMMA StepSlotsInv == SlotsInv /\ [RelayNext]_feedVars => SlotsInv'
<1> SUFFICES ASSUME SlotsInv, [RelayNext]_feedVars  PROVE SlotsInv'
  OBVIOUS
<1>0. server \in [Socket -> {"none", "shake", "open"}] /\ link \in Socket \union {NoSocket}
  BY DEF SlotsInv
<1>1. CASE UNCHANGED <<server, active, per_ip>> /\ link' \in Socket \union {NoSocket}
  BY <1>1 DEF SlotsInv, FeedSlotsHeld, Live
<1>2. CASE UNCHANGED feedVars \/ NodeMoves \/ run_heartbeat \/ process_frame \/ FeedLost
  BY <1>0, <1>1, <1>2 DEF feedVars, NodeMoves, run_heartbeat, process_frame, FeedLost,
                          taskVars, adapterVars
<1>3. CASE \E ok \in BOOLEAN : PollTemplate(ok) \/ PollMempool(ok)
  BY <1>0, <1>1, <1>3 DEF PollTemplate, PollMempool, adapterVars
<1>4. ASSUME NEW s \in Socket, AcceptFeed(s)  PROVE SlotsInv'
  <2>1. /\ ~Live(s) /\ server' = [server EXCEPT ![s] = "shake"] /\ active' = active + 1
        /\ link' = s /\ (MaxConns = 0 \/ active < MaxConns)
        /\ (MaxConnsPerIp = 0 \/ per_ip < MaxConnsPerIp)
        /\ per_ip' = IF MaxConnsPerIp = 0 THEN per_ip ELSE per_ip + 1
    BY <1>4 DEF AcceptFeed, try_accept_ip, ip_held
  <2>2. Cardinality({t \in Socket : Live(t)})' = Cardinality({t \in Socket : Live(t)}) + 1
    BY <1>0, <2>1, TaskCount, Zenon
  <2>3. server' \in [Socket -> {"none", "shake", "open"}]
    BY <1>0, <2>1
  <2> QED  BY <2>1, <2>2, <2>3, FeedConstants DEF SlotsInv, FeedSlotsHeld
<1>5. ASSUME NEW s \in Socket, HandshakeRefused(s)  PROVE SlotsInv'
  <2>1. Live(s) /\ EndRelay(s) /\ link' \in Socket \union {NoSocket}
    BY <1>0, <1>5 DEF HandshakeRefused, Live
  <2> QED  BY <2>1, EndKeepsSlots
<1>6. ASSUME NEW s \in Socket, Upgraded(s)  PROVE SlotsInv'
  <2>1. /\ Live(s) /\ server' = [server EXCEPT ![s] = "open"]
        /\ UNCHANGED <<active, per_ip, link>>
    BY <1>6 DEF Upgraded, Live
  <2>2. Cardinality({t \in Socket : Live(t)})' = Cardinality({t \in Socket : Live(t)})
    BY <1>0, <2>1, TaskCount, Zenon
  <2>3. server' \in [Socket -> {"none", "shake", "open"}]
    BY <1>0, <2>1
  <2> QED  BY <2>1, <2>2, <2>3 DEF SlotsInv, FeedSlotsHeld
<1>7. ASSUME NEW s \in Socket, RelayFrame(s)  PROVE SlotsInv'
  BY <1>0, <1>1, <1>7 DEF RelayFrame, adapterVars
<1>8. ASSUME NEW s \in Socket, Disconnected(s)  PROVE SlotsInv'
  <2>1. Live(s) /\ EndRelay(s) /\ link' \in Socket \union {NoSocket}
    BY <1>0, <1>8 DEF Disconnected, adapterVars
  <2> QED  BY <2>1, EndKeepsSlots
<1> QED  BY <1>2, <1>3, <1>4, <1>5, <1>6, <1>7, <1>8, Zenon DEF RelayNext

\* A frame's number.
LEMMA FrameParts ==
  ASSUME NEW q \in Seq(Frames)
  PROVE  \A i \in DOMAIN q : q[i] \in Frames /\ q[i].n \in Nat
<1>1. \A i \in DOMAIN q : q[i] \in Frames
  OBVIOUS
<1> QED  BY <1>1 DEF Frames

\* The channel's size.
LEMMA FeedSizes == Capacity \in Nat /\ Capacity > 0
BY FeedConstants

\* Nothing has been broadcast at the start.
LEMMA InitOrderInv == RelayInit => OrderInv
<1> SUFFICES ASSUME RelayInit  PROVE OrderInv
  OBVIOUS
<1>1. /\ tip = 0 /\ ring = <<>> /\ link = NoSocket /\ block_template = -1 /\ mempool_info = -1
      /\ server = [s \in Socket |-> "none"] /\ behind = [s \in Socket |-> 0]
      /\ heard = [s \in Socket |-> FALSE] /\ onWire = [s \in Socket |-> <<>>]
  BY DEF RelayInit
<1>2. ring \in Seq(Frames) /\ Len(ring) = 0 /\ DOMAIN ring = {}
  BY <1>1
<1>3. FeedTypeOK
  BY <1>1, <1>2, FeedConstants DEF FeedTypeOK
<1>4. BehindIsKept
  BY <1>1, <1>2 DEF BehindIsKept
<1>5. RingOrdered
  BY <1>1, <1>2 DEF RingOrdered, Held
<1> QED  BY <1>1, <1>3, <1>4, <1>5 DEF OrderInv, PathOrdered, NewestIsOnItsWay

\* A step that leaves the frames where they are keeps their order.
LEMMA OrderFrame ==
  ASSUME OrderInv, UNCHANGED <<ring, behind, heard, onWire, link, block_template, mempool_info>>,
         tip' \in Nat, tip <= tip', server' \in [Socket -> {"none", "shake", "open"}]
  PROVE  OrderInv'
<1>0. tip \in Nat /\ ring \in Seq(Frames) /\ block_template \in Int /\ mempool_info \in Int
      /\ (link # NoSocket => onWire[link] \in Seq(Frames))
  BY DEF OrderInv, FeedTypeOK
<1>1. FeedTypeOK' /\ BehindIsKept' /\ NewestIsOnItsWay'
  BY DEF OrderInv, FeedTypeOK, BehindIsKept, NewestIsOnItsWay, LastTemplate
<1>2. RingOrdered'
  <2>1. \A i \in DOMAIN ring : ring[i].n \in Nat
    BY <1>0, FrameParts
  <2>2. \A type \in Buffered : Held(type)' = Held(type) /\ Held(type) \in Int
    BY <1>0 DEF Held
  <2> QED  BY <1>0, <2>1, <2>2 DEF OrderInv, RingOrdered
<1>3. PathOrdered'
  <2>1. link # NoSocket => \A i \in DOMAIN onWire[link] : onWire[link][i].n \in Nat
    BY <1>0, FrameParts
  <2>2. \A type \in Buffered : Held(type)' = Held(type)
    BY DEF Held
  <2> QED  BY <1>0, <2>1, <2>2 DEF OrderInv, PathOrdered
<1> QED  BY <1>1, <1>2, <1>3 DEF OrderInv

\* What a broadcast leaves in the channel, place by place.
LEMMA RingAfter ==
  ASSUME FeedTypeOK, NEW type \in FrameType, NEW n \in Nat, send(type, n)
  PROVE  \E d \in {0, 1} :
           /\ Len(ring') = Len(ring) + 1 - d /\ Len(ring') <= Capacity
           /\ d = 1 => Len(ring) = Capacity
           /\ ring' \in Seq(Frames) /\ Len(ring) \in Nat
           /\ \A j \in DOMAIN ring' :
                \/ j + d \in DOMAIN ring /\ ring'[j] = ring[j + d]
                \/ j + d = Len(ring) + 1 /\ ring'[j] = [type |-> type, n |-> n]
           /\ ring'[Len(ring')] = [type |-> type, n |-> n]
<1> DEFINE f == [type |-> type, n |-> n]
           all == Append(ring, f)
<1>1. f \in Frames /\ ring \in Seq(Frames) /\ Len(ring) \in Nat /\ Len(ring) <= Capacity
  BY DEF FeedTypeOK, Frames
<1>2. ring' = IF Len(all) > Capacity THEN Tail(all) ELSE all
  BY DEF send
<1> HIDE DEF f
<1>3. /\ all \in Seq(Frames) /\ Len(all) = Len(ring) + 1
      /\ \A j \in 1 .. Len(ring) : all[j] = ring[j]
      /\ all[Len(ring) + 1] = f
  BY <1>1
<1> HIDE DEF all
<1>4. CASE Len(all) > Capacity
  <2>1. ring' = Tail(all) /\ Len(ring) = Capacity
    BY <1>1, <1>2, <1>3, <1>4, FeedConstants
  <2>2. /\ ring' \in Seq(Frames) /\ Len(ring') = Len(ring)
        /\ \A j \in 1 .. Len(ring) : ring'[j] = all[j + 1]
    BY <1>1, <1>3, <2>1
  <2>3. \A j \in DOMAIN ring' :
          \/ j + 1 \in DOMAIN ring /\ ring'[j] = ring[j + 1]
          \/ j + 1 = Len(ring) + 1 /\ ring'[j] = f
    BY <1>1, <1>3, <2>2
  <2>4. ring'[Len(ring')] = f
    BY <1>1, <1>3, <2>1, <2>2, FeedConstants
  <2>5. Len(ring') = Len(ring) + 1 - 1 /\ Len(ring') <= Capacity
    BY <1>1, <2>2
  <2>6. 1 \in {0, 1}
    OBVIOUS
  <2> QED  BY <1>1, <2>1, <2>2, <2>3, <2>4, <2>5, <2>6, Zenon DEF f
<1>5. CASE ~(Len(all) > Capacity)
  <2>1. ring' = all /\ Len(all) <= Capacity
    BY <1>1, <1>2, <1>3, <1>5, FeedConstants
  <2>2. \A j \in DOMAIN ring' :
          \/ j + 0 \in DOMAIN ring /\ ring'[j] = ring[j + 0]
          \/ j + 0 = Len(ring) + 1 /\ ring'[j] = f
    BY <1>1, <1>3, <2>1
  <2>3. 0 \in {0, 1}
    OBVIOUS
  <2> QED  BY <1>1, <1>3, <2>1, <2>2, <2>3 DEF f
<1> QED  BY <1>4, <1>5

(* A broadcast adds a frame that is no older than any; what a receiver had    *)
(* read stays read, and the new frame is unread.                              *)
LEMMA SendKeepsOrder ==
  ASSUME OrderInv, NEW type \in FrameType, NEW n \in Nat, type \in Buffered => n = tip,
         send(type, n), UNCHANGED <<tip, server, onWire, link, block_template, mempool_info>>
  PROVE  OrderInv'
<1>0. FeedTypeOK /\ BehindIsKept /\ RingOrdered /\ PathOrdered /\ NewestIsOnItsWay
  BY DEF OrderInv
<1> DEFINE f == [type |-> type, n |-> n]
<1>1. PICK d \in {0, 1} :
           /\ Len(ring') = Len(ring) + 1 - d /\ Len(ring') <= Capacity
           /\ d = 1 => Len(ring) = Capacity
           /\ ring' \in Seq(Frames) /\ Len(ring) \in Nat
           /\ \A j \in DOMAIN ring' :
                \/ j + d \in DOMAIN ring /\ ring'[j] = ring[j + d]
                \/ j + d = Len(ring) + 1 /\ ring'[j] = f
           /\ ring'[Len(ring')] = f
  BY <1>0, RingAfter
<1>2. f.type = type /\ f.n = n
  OBVIOUS
<1> HIDE DEF f
<1>3. /\ behind' = [s \in Socket |-> IF link = s /\ behind[s] <= Capacity THEN behind[s] + 1
                                     ELSE behind[s]]
      /\ heard' = [s \in Socket |-> heard[s] \/ (link = s /\ type = "blocktemplate")]
  BY DEF send
<1>4. /\ behind \in [Socket -> 0 .. Capacity + 1] /\ ring \in Seq(Frames) /\ tip \in Nat
      /\ Len(ring) <= Capacity /\ link \in Socket \union {NoSocket}
      /\ block_template \in Int /\ mempool_info \in Int
      /\ DOMAIN ring = 1 .. Len(ring) /\ DOMAIN ring' = 1 .. Len(ring')
      /\ (link # NoSocket => onWire[link] \in Seq(Frames))
  BY <1>0, <1>1 DEF FeedTypeOK
<1>13. /\ Len(ring') = Len(ring) + 1 - d /\ Len(ring') <= Capacity /\ Len(ring) <= Capacity
       /\ Len(ring) \in Nat /\ (d = 0 \/ (d = 1 /\ Len(ring) = Capacity))
  BY <1>1, <1>4
<1>5. FeedTypeOK'
  <2>1. behind' \in [Socket -> 0 .. Capacity + 1]
    BY <1>3, <1>4, FeedConstants
  <2>2. heard' \in [Socket -> BOOLEAN]
    BY <1>0, <1>3, Zenon DEF FeedTypeOK
  <2> QED  BY <1>0, <1>1, <2>1, <2>2 DEF FeedTypeOK
<1>6. BehindIsKept'
  <2> SUFFICES ASSUME NEW s \in Socket
               PROVE  \/ behind'[s] <= Len(ring')
                      \/ behind'[s] = Capacity + 1 /\ Len(ring') = Capacity
    BY DEF BehindIsKept
  <2>1. /\ behind[s] \in 0 .. Capacity + 1
        /\ behind[s] <= Len(ring) \/ (behind[s] = Capacity + 1 /\ Len(ring) = Capacity)
    BY <1>0, <1>4 DEF BehindIsKept
  <2>2. CASE link = s /\ behind[s] <= Capacity
    <3>1. behind'[s] = behind[s] + 1
      BY <1>3, <2>2
    <3> QED  BY <1>13, <2>1, <2>2, <3>1, FeedSizes
  <2>3. CASE ~(link = s /\ behind[s] <= Capacity)
    <3>1. behind'[s] = behind[s]
      BY <1>3, <2>3
    <3> QED  BY <1>13, <2>1, <3>1, FeedSizes
  <2> QED  BY <2>2, <2>3
<1>7. \A t \in Buffered : Held(t)' = Held(t) /\ Held(t) \in Int
  BY <1>4 DEF Held
<1>8. /\ \A i \in DOMAIN ring : ring[i].n \in Nat
      /\ \A i \in DOMAIN ring' : ring'[i].n \in Nat
  BY <1>1, <1>4, FrameParts
<1>9. RingOrdered'
  <2>1. ASSUME NEW t \in Buffered  PROVE Held(t)' <= tip'
    BY <1>0, <1>7 DEF RingOrdered
  <2>2. ASSUME NEW t \in Buffered, NEW i \in DOMAIN ring', ring'[i].type = t
        PROVE  ring'[i].n <= tip'
    <3>1. CASE i + d \in DOMAIN ring /\ ring'[i] = ring[i + d]
      BY <1>0, <2>2, <3>1 DEF RingOrdered
    <3>2. CASE ring'[i] = f
      BY <1>2, <1>4, <2>2, <3>2
    <3> QED  BY <1>1, <3>1, <3>2
  <2>3. ASSUME NEW t \in Buffered, NEW i \in DOMAIN ring', NEW j \in DOMAIN ring', i < j,
               ring'[i].type = t, ring'[j].type = t
        PROVE  ring'[i].n <= ring'[j].n
    <3>1. i + d < j + d /\ i + d <= Len(ring)
      BY <1>1, <1>4, <2>3
    <3>2. i + d \in DOMAIN ring /\ ring'[i] = ring[i + d]
      BY <1>1, <1>4, <3>1
    <3>3. CASE j + d \in DOMAIN ring /\ ring'[j] = ring[j + d]
      BY <1>0, <2>3, <3>1, <3>2, <3>3 DEF RingOrdered
    <3>4. CASE ring'[j] = f
      BY <1>0, <1>2, <2>3, <3>2, <3>4 DEF RingOrdered
    <3> QED  BY <1>1, <3>3, <3>4
  <2> QED  BY <2>1, <2>2, <2>3 DEF RingOrdered
<1>10. ASSUME link # NoSocket, NEW j \in DOMAIN ring', j > Len(ring') - behind'[link],
              ring'[j] # f
       PROVE  j + d \in DOMAIN ring /\ ring'[j] = ring[j + d] /\ j + d > Len(ring) - behind[link]
  <2>1. j + d \in DOMAIN ring /\ ring'[j] = ring[j + d]
    BY <1>1, <1>10
  <2>2. link \in Socket /\ behind[link] \in 0 .. Capacity + 1
    BY <1>4, <1>10
  <2>3. CASE behind[link] <= Capacity
    <3>1. behind'[link] = behind[link] + 1
      BY <1>3, <2>2, <2>3
    <3> QED  BY <1>1, <1>4, <1>10, <2>1, <2>2, <3>1
  <2>4. CASE ~(behind[link] <= Capacity)
    <3>1. behind[link] = Capacity + 1 /\ j + d >= 1 /\ j + d \in Nat
      BY <1>4, <2>1, <2>2, <2>4, FeedSizes
    <3>2. j + d > Len(ring) - behind[link]
      BY <1>13, <3>1, FeedSizes
    <3> QED  BY <2>1, <3>2
  <2> QED  BY <2>1, <2>3, <2>4
<1>11. PathOrdered'
  <2> SUFFICES ASSUME link # NoSocket, NEW t \in Buffered
               PROVE  /\ \A i \in DOMAIN onWire[link] :
                           onWire[link][i].type = t =>
                             Held(t) <= onWire[link][i].n /\ onWire[link][i].n <= tip
                      /\ \A i, j \in DOMAIN onWire[link] :
                           i < j /\ onWire[link][i].type = t /\ onWire[link][j].type = t
                             => onWire[link][i].n <= onWire[link][j].n
                      /\ \A j \in DOMAIN ring' :
                           (j > Len(ring') - behind'[link] /\ ring'[j].type = t) =>
                             /\ Held(t) <= ring'[j].n
                             /\ \A i \in DOMAIN onWire[link] :
                                  onWire[link][i].type = t => onWire[link][i].n <= ring'[j].n
    BY <1>7 DEF PathOrdered
  <2>1. ASSUME NEW j \in DOMAIN ring', j > Len(ring') - behind'[link], ring'[j].type = t
        PROVE  /\ Held(t) <= ring'[j].n
               /\ \A i \in DOMAIN onWire[link] :
                    onWire[link][i].type = t => onWire[link][i].n <= ring'[j].n
    <3>1. CASE ring'[j] = f
      BY <1>0, <1>2, <2>1, <3>1 DEF PathOrdered, RingOrdered
    <3>2. CASE ring'[j] # f
      BY <1>0, <1>10, <2>1, <3>2 DEF PathOrdered
    <3> QED  BY <3>1, <3>2
  <2>2. /\ \A i \in DOMAIN onWire[link] :
             onWire[link][i].type = t =>
               Held(t) <= onWire[link][i].n /\ onWire[link][i].n <= tip
        /\ \A i, j \in DOMAIN onWire[link] :
             i < j /\ onWire[link][i].type = t /\ onWire[link][j].type = t
               => onWire[link][i].n <= onWire[link][j].n
    BY <1>0 DEF PathOrdered
  <2> QED  BY <2>1, <2>2
<1>12. NewestIsOnItsWay'
  <2> SUFFICES ASSUME link # NoSocket, heard'[link], NEW p \in DOMAIN ring',
                      LastTemplate(ring', p), p <= Len(ring') - behind'[link]
               PROVE  /\ \A i \in DOMAIN onWire[link] :
                           LastTemplate(onWire[link], i) => onWire[link][i].n = ring'[p].n
                      /\ (\A i \in DOMAIN onWire[link] : onWire[link][i].type # "blocktemplate")
                           => block_template = ring'[p].n
    BY DEF NewestIsOnItsWay, LastTemplate
  <2>1. link \in Socket /\ behind[link] \in 0 .. Capacity + 1
    BY <1>4
  <2>2. behind[link] <= Capacity /\ behind'[link] = behind[link] + 1
    <3>1. CASE behind[link] <= Capacity
      BY <1>3, <2>1, <3>1
    <3>2. CASE ~(behind[link] <= Capacity)
      <4>1. behind'[link] = Capacity + 1
        BY <1>3, <2>1, <3>2, FeedConstants
      <4>2. p \in 1 .. Len(ring') /\ Len(ring') \in Nat
        BY <1>1, <1>4
      <4> QED  BY <1>1, <4>1, <4>2, FeedSizes
    <3> QED  BY <3>1, <3>2
  <2>3. p + d <= Len(ring) - behind[link] /\ p < Len(ring')
    BY <1>1, <1>4, <2>1, <2>2
  <2>4. p + d \in DOMAIN ring /\ ring'[p] = ring[p + d]
    BY <1>1, <1>4, <2>1, <2>3
  <2>5. type # "blocktemplate"
    <3>1. Len(ring') \in DOMAIN ring' /\ Len(ring') > p
      BY <1>1, <1>4, <2>3
    <3> QED  BY <1>1, <1>2, <3>1 DEF LastTemplate
  <2>6. heard[link]
    BY <1>3, <2>1, <2>5, Zenon
  <2>7. LastTemplate(ring, p + d)
    <3>1. ring[p + d].type = "blocktemplate"
      BY <2>4 DEF LastTemplate
    <3>2. ASSUME NEW j \in DOMAIN ring, j > p + d  PROVE ring[j].type # "blocktemplate"
      <4>1. j - d \in DOMAIN ring' /\ j - d > p /\ (j - d) + d = j /\ j # Len(ring) + 1
        BY <1>1, <1>4, <3>2
      <4>2. ring'[j - d] = ring[j]
        BY <1>1, <4>1
      <4> QED  BY <4>1, <4>2 DEF LastTemplate
    <3> QED  BY <2>4, <3>1, <3>2 DEF LastTemplate
  <2> QED  BY <1>0, <2>3, <2>4, <2>6, <2>7 DEF NewestIsOnItsWay
<1> QED  BY <1>5, <1>6, <1>9, <1>11, <1>12 DEF OrderInv

\* A socket that is reset is no longer the adapter's, or has yet to hear anything.
LEMMA ResetKeepsOrder ==
  ASSUME OrderInv, NEW s \in Socket,
         server' \in [Socket -> {"none", "shake", "open"}],
         behind' = [behind EXCEPT ![s] = 0], heard' = [heard EXCEPT ![s] = FALSE],
         onWire' = [onWire EXCEPT ![s] = <<>>],
         link' \in {s, NoSocket} \/ (link' = link /\ link # s),
         UNCHANGED <<tip, ring, block_template, mempool_info>>
  PROVE  OrderInv'
<1>0. FeedTypeOK /\ BehindIsKept /\ RingOrdered /\ PathOrdered /\ NewestIsOnItsWay
  BY DEF OrderInv
<1>1. /\ FeedTypeOK' /\ BehindIsKept' /\ RingOrdered' /\ Len(ring) \in Nat
      /\ DOMAIN ring = 1 .. Len(ring)
  <2>1. ring \in Seq(Frames) /\ Len(ring) \in Nat /\ DOMAIN ring = 1 .. Len(ring)
    BY <1>0 DEF FeedTypeOK
  <2>2. <<>> \in Seq(Frames) /\ 0 \in 0 .. Capacity + 1
    BY FeedSizes
  <2>3. /\ behind' \in [Socket -> 0 .. Capacity + 1] /\ heard' \in [Socket -> BOOLEAN]
        /\ onWire' \in [Socket -> Seq(Frames)]
    BY <1>0, <2>2 DEF FeedTypeOK
  <2>4. link' \in Socket \union {NoSocket}
    BY <1>0 DEF FeedTypeOK
  <2>5. FeedTypeOK'
    BY <1>0, <2>3, <2>4 DEF FeedTypeOK
  <2>6. BehindIsKept'
    BY <1>0, <2>1 DEF BehindIsKept, FeedTypeOK
  <2>7. RingOrdered'
    BY <1>0 DEF RingOrdered, Held
  <2> QED  BY <2>1, <2>5, <2>6, <2>7
<1>2. CASE link' = s
  <2>1. /\ link' \in Socket /\ behind'[s] = 0 /\ heard'[s] = FALSE /\ onWire'[s] = <<>>
    BY <1>0, <1>2 DEF FeedTypeOK
  <2>2. \A j \in DOMAIN ring : ~(j > Len(ring) - 0)
    BY <1>1
  <2>3. DOMAIN onWire'[s] = {}
    BY <2>1
  <2>4. PathOrdered'
    BY <1>2, <2>1, <2>2, <2>3 DEF PathOrdered
  <2>5. NewestIsOnItsWay'
    BY <1>2, <2>1 DEF NewestIsOnItsWay
  <2> QED  BY <1>1, <2>4, <2>5 DEF OrderInv
<1>3. CASE link' = NoSocket
  BY <1>1, <1>3 DEF OrderInv, PathOrdered, NewestIsOnItsWay
<1>4. CASE link' = link /\ link # s /\ link # NoSocket
  <2>1. /\ link \in Socket /\ behind'[link] = behind[link] /\ heard'[link] = heard[link]
        /\ onWire'[link] = onWire[link]
    BY <1>0, <1>4 DEF FeedTypeOK
  <2>2. \A t \in Buffered : Held(t)' = Held(t)
    BY DEF Held
  <2>3. PathOrdered'
    BY <1>0, <1>4, <2>1, <2>2 DEF PathOrdered
  <2>4. NewestIsOnItsWay'
    BY <1>0, <1>4, <2>1 DEF NewestIsOnItsWay, LastTemplate
  <2> QED  BY <1>1, <2>3, <2>4 DEF OrderInv
<1> QED  BY <1>2, <1>3, <1>4

\* The status a client is told on connecting is no template.
LEMMA UpgradeKeepsOrder ==
  ASSUME OrderInv, NEW s \in Socket, Upgraded(s)
  PROVE  OrderInv'
<1>0. FeedTypeOK /\ BehindIsKept /\ RingOrdered /\ PathOrdered /\ NewestIsOnItsWay
  BY DEF OrderInv
<1> DEFINE g == [type |-> "status", n |-> 0]
<1>1. /\ link = s /\ server' = [server EXCEPT ![s] = "open"]
      /\ onWire' = [onWire EXCEPT ![s] = IF rpc_ok THEN Append(@, g) ELSE @]
      /\ UNCHANGED <<tip, ring, behind, heard, link, block_template, mempool_info>>
  BY DEF Upgraded, pollVars
<1>2. /\ server' \in [Socket -> {"none", "shake", "open"}] /\ onWire[s] \in Seq(Frames)
      /\ onWire \in [Socket -> Seq(Frames)] /\ tip \in Nat /\ s # NoSocket
  BY <1>0, <1>1, FeedConstants DEF FeedTypeOK
<1>3. CASE ~rpc_ok
  <2>1. onWire' = onWire
    BY <1>1, <1>2, <1>3
  <2> QED  BY <1>1, <1>2, <2>1, OrderFrame
<1>4. CASE rpc_ok
  <2>1. g \in Frames /\ g.type \notin Buffered
    BY DEF Frames, FrameType, Buffered
  <2>2. onWire' = [onWire EXCEPT ![s] = Append(@, g)]
    BY <1>1, <1>4
  <2> HIDE DEF g
  <2>3. /\ onWire'[s] \in Seq(Frames) /\ onWire' \in [Socket -> Seq(Frames)]
        /\ DOMAIN onWire'[s] = 1 .. Len(onWire[s]) + 1 /\ DOMAIN onWire[s] = 1 .. Len(onWire[s])
        /\ Len(onWire[s]) \in Nat
        /\ \A i \in 1 .. Len(onWire[s]) : onWire'[s][i] = onWire[s][i]
        /\ onWire'[s][Len(onWire[s]) + 1] = g
    BY <1>2, <2>1, <2>2
  <2>4. \A i \in DOMAIN onWire'[s] :
          onWire'[s][i].type \in Buffered => i \in DOMAIN onWire[s] /\ onWire'[s][i] = onWire[s][i]
    BY <2>1, <2>3
  <2>5. FeedTypeOK' /\ BehindIsKept' /\ RingOrdered'
    BY <1>0, <1>1, <1>2, <2>3, Zenon DEF FeedTypeOK, BehindIsKept, RingOrdered, Held
  <2>6. \A t \in Buffered : Held(t)' = Held(t)
    BY <1>1 DEF Held
  <2>7. PathOrdered'
    BY <1>0, <1>1, <1>2, <2>4, <2>6 DEF PathOrdered
  <2>8. \A i \in DOMAIN onWire'[s] :
          LastTemplate(onWire'[s], i) =>
            /\ LastTemplate(onWire[s], i) /\ i \in DOMAIN onWire[s] /\ onWire'[s][i] = onWire[s][i]
    BY <2>3, <2>4 DEF LastTemplate, Buffered
  <2>9. (\A i \in DOMAIN onWire'[s] : onWire'[s][i].type # "blocktemplate")
          => \A i \in DOMAIN onWire[s] : onWire[s][i].type # "blocktemplate"
    BY <2>3
  <2>10. NewestIsOnItsWay'
    <3> SUFFICES ASSUME heard[s], NEW p \in DOMAIN ring, LastTemplate(ring, p),
                        p <= Len(ring) - behind[s]
                 PROVE  /\ \A i \in DOMAIN onWire'[s] :
                             LastTemplate(onWire'[s], i) => onWire'[s][i].n = ring[p].n
                        /\ (\A i \in DOMAIN onWire'[s] : onWire'[s][i].type # "blocktemplate")
                             => block_template = ring[p].n
      BY <1>1 DEF NewestIsOnItsWay, LastTemplate
    <3>1. /\ \A i \in DOMAIN onWire[s] :
               LastTemplate(onWire[s], i) => onWire[s][i].n = ring[p].n
          /\ (\A i \in DOMAIN onWire[s] : onWire[s][i].type # "blocktemplate")
               => block_template = ring[p].n
      BY <1>0, <1>1, <1>2 DEF NewestIsOnItsWay
    <3> QED  BY <2>8, <2>9, <3>1
  <2> QED  BY <2>5, <2>7, <2>10 DEF OrderInv
<1> QED  BY <1>3, <1>4

\* The oldest unread frame goes behind what is on the socket.
LEMMA RelayKeepsOrder ==
  ASSUME OrderInv, NEW s \in Socket, RelayFrame(s)
  PROVE  OrderInv'
<1>0. FeedTypeOK /\ BehindIsKept /\ RingOrdered /\ PathOrdered /\ NewestIsOnItsWay
  BY DEF OrderInv
<1>1. /\ link = s /\ behind[s] > 0
      /\ UNCHANGED <<tip, server, ring, heard, link, block_template, mempool_info>>
  BY Zenon DEF RelayFrame, pollVars, adapterVars
<1>2. /\ ring \in Seq(Frames) /\ Len(ring) \in Nat /\ Len(ring) <= Capacity
      /\ DOMAIN ring = 1 .. Len(ring) /\ behind \in [Socket -> 0 .. Capacity + 1]
      /\ behind[s] \in 0 .. Capacity + 1 /\ s # NoSocket
      /\ onWire \in [Socket -> Seq(Frames)] /\ onWire[s] \in Seq(Frames)
      /\ behind[s] <= Len(ring) \/ (behind[s] = Capacity + 1 /\ Len(ring) = Capacity)
  BY <1>0, <1>1, FeedConstants DEF FeedTypeOK, BehindIsKept
<1>7. /\ Len(ring) \in Nat /\ Len(ring) <= Capacity
      /\ behind[s] \in Nat /\ behind[s] <= Capacity + 1 /\ behind[s] > 0
      /\ behind[s] <= Len(ring) \/ (behind[s] = Capacity + 1 /\ Len(ring) = Capacity)
  <2>1. behind[s] \in 0 .. Capacity + 1 /\ Len(ring) \in Nat /\ Len(ring) <= Capacity
    BY <1>2, Zenon
  <2>2. behind[s] <= Len(ring) \/ (behind[s] = Capacity + 1 /\ Len(ring) = Capacity)
    BY <1>2, Zenon
  <2>3. behind[s] > 0
    BY <1>1, Zenon
  <2> QED  BY <2>1, <2>2, <2>3, FeedSizes
<1>3. \A t \in Buffered : Held(t)' = Held(t)
  BY <1>1 DEF Held
<1>4. RingOrdered'
  BY <1>0, <1>1 DEF RingOrdered, Held
<1>5. CASE behind[s] > Capacity
  <2>1. behind' = [behind EXCEPT ![s] = Capacity] /\ onWire' = onWire
    BY <1>5 DEF RelayFrame
  <2>2. /\ behind'[s] = Capacity /\ behind' \in [Socket -> 0 .. Capacity + 1]
        /\ Len(ring) = Capacity /\ behind[s] = Capacity + 1
        /\ \A t \in Socket : t # s => behind'[t] = behind[t]
    <3>1. Len(ring) = Capacity /\ behind[s] = Capacity + 1 /\ Capacity \in 0 .. Capacity + 1
      BY <1>5, <1>7, FeedSizes
    <3> QED  BY <1>2, <2>1, <3>1
  <2>3. FeedTypeOK' /\ BehindIsKept'
    <3>1. FeedTypeOK'
      BY <1>0, <1>1, <2>1, <2>2 DEF FeedTypeOK
    <3>2. BehindIsKept'
      BY <1>0, <1>1, <1>7, <2>2, FeedSizes DEF BehindIsKept
    <3> QED  BY <3>1, <3>2
  <2>4. \A j \in DOMAIN ring : j > Len(ring) - behind[s] /\ ~(j <= Len(ring) - behind'[s])
    BY <1>2, <2>2, FeedSizes
  <2>5. PathOrdered'
    BY <1>0, <1>1, <1>2, <1>3, <2>1, <2>4 DEF PathOrdered
  <2>6. NewestIsOnItsWay'
    BY <1>1, <2>4, Zenon DEF NewestIsOnItsWay
  <2> QED  BY <1>4, <2>3, <2>5, <2>6 DEF OrderInv
<1>6. CASE ~(behind[s] > Capacity)
  <2> DEFINE k == Len(ring) - behind[s] + 1
             g == ring[k]
  <2>1. behind' = [behind EXCEPT ![s] = @ - 1] /\ onWire' = [onWire EXCEPT ![s] = Append(@, g)]
    BY <1>6 DEF RelayFrame
  <2>2. /\ k \in DOMAIN ring /\ g \in Frames /\ behind[s] <= Len(ring)
        /\ k > Len(ring) - behind[s] /\ k = Len(ring) - behind[s] + 1 /\ k \in Nat
    <3>1. /\ k \in 1 .. Len(ring) /\ behind[s] <= Len(ring) /\ k > Len(ring) - behind[s]
          /\ k \in Nat
      BY <1>6, <1>7, FeedSizes
    <3> HIDE DEF k
    <3>2. k \in DOMAIN ring /\ g \in Frames
      BY <1>2, <3>1
    <3> QED  BY <3>1, <3>2 DEF k
  <2>12. ring[k] = g
    OBVIOUS
  <2> HIDE DEF k, g
  <2>3. /\ behind'[s] = behind[s] - 1 /\ behind' \in [Socket -> 0 .. Capacity + 1]
        /\ \A t \in Socket : t # s => behind'[t] = behind[t]
    <3>1. behind[s] - 1 \in 0 .. Capacity + 1
      BY <1>7, FeedSizes
    <3> QED  BY <1>2, <2>1, <3>1
  <2>4. /\ onWire'[s] \in Seq(Frames) /\ onWire' \in [Socket -> Seq(Frames)]
        /\ DOMAIN onWire'[s] = 1 .. Len(onWire[s]) + 1 /\ DOMAIN onWire[s] = 1 .. Len(onWire[s])
        /\ Len(onWire[s]) \in Nat
        /\ \A i \in 1 .. Len(onWire[s]) : onWire'[s][i] = onWire[s][i]
        /\ onWire'[s][Len(onWire[s]) + 1] = g
    BY <1>2, <2>1, <2>2
  <2>5. FeedTypeOK'
    BY <1>0, <1>1, <2>3, <2>4 DEF FeedTypeOK
  <2>6. BehindIsKept'
    <3>1. behind'[s] <= Len(ring)
      BY <1>7, <2>2, <2>3
    <3> QED  BY <1>0, <1>1, <2>3, <3>1 DEF BehindIsKept
  <2>7. \A j \in DOMAIN ring : j > Len(ring) - behind'[s] <=> j > k
    BY <1>2, <2>2, <2>3
  <2>8. \A i \in DOMAIN onWire'[s] :
          \/ i \in DOMAIN onWire[s] /\ onWire'[s][i] = onWire[s][i] /\ i < Len(onWire[s]) + 1
          \/ i = Len(onWire[s]) + 1 /\ onWire'[s][i] = g
    BY <2>4
  <2>9. PathOrdered'
    <3> SUFFICES ASSUME NEW t \in Buffered
                 PROVE  /\ \A i \in DOMAIN onWire'[s] :
                             onWire'[s][i].type = t =>
                               Held(t) <= onWire'[s][i].n /\ onWire'[s][i].n <= tip
                        /\ \A i, j \in DOMAIN onWire'[s] :
                             i < j /\ onWire'[s][i].type = t /\ onWire'[s][j].type = t
                               => onWire'[s][i].n <= onWire'[s][j].n
                        /\ \A j \in DOMAIN ring :
                             (j > Len(ring) - behind'[s] /\ ring[j].type = t) =>
                               /\ Held(t) <= ring[j].n
                               /\ \A i \in DOMAIN onWire'[s] :
                                    onWire'[s][i].type = t => onWire'[s][i].n <= ring[j].n
      BY <1>1, <1>3, Zenon DEF PathOrdered
    <3>1. g.type = t => /\ Held(t) <= g.n /\ g.n <= tip
                        /\ \A i \in DOMAIN onWire[s] :
                             onWire[s][i].type = t => onWire[s][i].n <= g.n
      BY <1>0, <1>1, <1>2, <2>2, <2>12, Zenon DEF PathOrdered, RingOrdered
    <3>2. \A i \in DOMAIN onWire[s] :
            onWire[s][i].type = t => Held(t) <= onWire[s][i].n /\ onWire[s][i].n <= tip
      BY <1>0, <1>1, <1>2, Zenon DEF PathOrdered
    <3>3. ASSUME NEW i \in DOMAIN onWire'[s], onWire'[s][i].type = t
          PROVE  Held(t) <= onWire'[s][i].n /\ onWire'[s][i].n <= tip
      BY <2>8, <3>1, <3>2, <3>3, Zenon
    <3>4. ASSUME NEW i \in DOMAIN onWire'[s], NEW j \in DOMAIN onWire'[s], i < j,
                 onWire'[s][i].type = t, onWire'[s][j].type = t
          PROVE  onWire'[s][i].n <= onWire'[s][j].n
      <4>1. i \in DOMAIN onWire[s] /\ onWire'[s][i] = onWire[s][i]
        BY <2>4, <2>8, <3>4
      <4>2. CASE j \in DOMAIN onWire[s] /\ onWire'[s][j] = onWire[s][j]
        BY <1>0, <1>1, <1>2, <3>4, <4>1, <4>2, Zenon DEF PathOrdered
      <4>3. CASE onWire'[s][j] = g
        BY <3>1, <3>4, <4>1, <4>3, Zenon
      <4> QED  BY <2>8, <4>2, <4>3, Zenon
    <3>5. ASSUME NEW j \in DOMAIN ring, j > Len(ring) - behind'[s], ring[j].type = t
          PROVE  /\ Held(t) <= ring[j].n
                 /\ \A i \in DOMAIN onWire'[s] :
                      onWire'[s][i].type = t => onWire'[s][i].n <= ring[j].n
      <4>1. j > k /\ j > Len(ring) - behind[s]
        BY <1>2, <2>2, <2>7, <3>5
      <4>2. /\ Held(t) <= ring[j].n
            /\ \A i \in DOMAIN onWire[s] : onWire[s][i].type = t => onWire[s][i].n <= ring[j].n
        BY <1>0, <1>1, <1>2, <3>5, <4>1 DEF PathOrdered
      <4>3. g.type = t => g.n <= ring[j].n
        BY <1>0, <2>2, <2>12, <3>5, <4>1, Zenon DEF RingOrdered
      <4> QED  BY <2>8, <4>2, <4>3
    <3> QED  BY <3>3, <3>4, <3>5, Zenon
  <2>10. NewestIsOnItsWay'
    <3> SUFFICES ASSUME heard[s], NEW p \in DOMAIN ring, LastTemplate(ring, p),
                        p <= Len(ring) - behind'[s]
                 PROVE  /\ \A i \in DOMAIN onWire'[s] :
                             LastTemplate(onWire'[s], i) => onWire'[s][i].n = ring[p].n
                        /\ (\A i \in DOMAIN onWire'[s] : onWire'[s][i].type # "blocktemplate")
                             => block_template = ring[p].n
      BY <1>1 DEF NewestIsOnItsWay, LastTemplate
    <3>1. p <= k /\ Len(onWire[s]) + 1 \in DOMAIN onWire'[s]
      BY <1>2, <2>2, <2>3, <2>4
    <3>2. CASE g.type = "blocktemplate"
      <4>1. p = k
        BY <1>2, <2>2, <2>12, <3>1, <3>2 DEF LastTemplate
      <4>2. \A i \in DOMAIN onWire'[s] : LastTemplate(onWire'[s], i) => onWire'[s][i] = g
        BY <2>4, <2>8, <3>1, <3>2 DEF LastTemplate
      <4> QED  BY <2>4, <2>12, <3>1, <3>2, <4>1, <4>2
    <3>3. CASE g.type # "blocktemplate"
      <4>1. p <= Len(ring) - behind[s]
        <5>1. p # k
          BY <2>12, <3>3 DEF LastTemplate
        <5> QED  BY <1>2, <2>2, <3>1, <5>1
      <4>2. \A i \in DOMAIN onWire'[s] :
              LastTemplate(onWire'[s], i) =>
                i \in DOMAIN onWire[s] /\ LastTemplate(onWire[s], i) /\ onWire'[s][i] = onWire[s][i]
        BY <2>4, <2>8, <3>3 DEF LastTemplate
      <4>3. /\ \A i \in DOMAIN onWire[s] :
                 LastTemplate(onWire[s], i) => onWire[s][i].n = ring[p].n
            /\ (\A i \in DOMAIN onWire[s] : onWire[s][i].type # "blocktemplate")
                 => block_template = ring[p].n
        BY <1>0, <1>1, <1>2, <4>1, Zenon DEF NewestIsOnItsWay
      <4> QED  BY <2>4, <4>2, <4>3
    <3> QED  BY <3>2, <3>3
  <2> QED  BY <1>4, <2>5, <2>6, <2>9, <2>10 DEF OrderInv
<1> QED  BY <1>5, <1>6

\* The adapter takes the oldest frame of its socket.
LEMMA ProcessKeepsOrder ==
  ASSUME OrderInv, process_frame
  PROVE  OrderInv' /\ \A t \in Buffered : Held(t) <= Held(t)'
<1>0. FeedTypeOK /\ BehindIsKept /\ RingOrdered /\ PathOrdered /\ NewestIsOnItsWay
  BY DEF OrderInv
<1> DEFINE q == onWire[link]
           g == Head(q)
<1>1. /\ link # NoSocket /\ q # <<>> /\ onWire' = [onWire EXCEPT ![link] = Tail(@)]
      /\ block_template' = IF g.type = "blocktemplate" THEN g.n ELSE block_template
      /\ mempool_info' = IF g.type = "mempoolinfo" THEN g.n ELSE mempool_info
      /\ UNCHANGED <<tip, server, ring, behind, heard, link>>
  BY DEF process_frame, pollVars
<1>2. link \in Socket /\ onWire \in [Socket -> Seq(Frames)] /\ q \in Seq(Frames)
  BY <1>0, <1>1 DEF FeedTypeOK
<1>3. g = q[1] /\ 1 \in DOMAIN q /\ g \in Frames /\ g.n \in Nat
  <2>1. g = q[1] /\ 1 \in DOMAIN q
    BY <1>1, <1>2
  <2> QED  BY <1>2, <2>1, FrameParts
<1>4. /\ onWire'[link] = Tail(q) /\ Tail(q) \in Seq(Frames)
      /\ onWire' \in [Socket -> Seq(Frames)]
      /\ \A i \in DOMAIN Tail(q) : i + 1 \in DOMAIN q /\ Tail(q)[i] = q[i + 1] /\ i + 1 > 1
      /\ \A i \in DOMAIN q : i = 1 \/ (i - 1 \in DOMAIN Tail(q) /\ Tail(q)[i - 1] = q[i])
      /\ DOMAIN q = 1 .. Len(q) /\ Len(q) \in Nat
      /\ DOMAIN Tail(q) = 1 .. Len(q) - 1
  BY <1>1, <1>2
<1>5. /\ block_template \in Int /\ mempool_info \in Int
      /\ block_template' \in Int /\ mempool_info' \in Int
  BY <1>0, <1>1, <1>3 DEF FeedTypeOK
<1>6. \A t \in Buffered : Held(t)' = IF g.type = t THEN g.n ELSE Held(t)
  BY <1>1 DEF Held, Buffered
<1>7. FeedTypeOK' /\ BehindIsKept'
  BY <1>0, <1>1, <1>4, <1>5 DEF FeedTypeOK, BehindIsKept
<1> DEFINE r == Tail(q)
<1>8. ASSUME NEW t \in Buffered
      PROVE  /\ g.type = t => Held(t) <= g.n /\ g.n <= tip
             /\ g.type = t => \A i \in DOMAIN q : i > 1 /\ q[i].type = t => g.n <= q[i].n
             /\ g.type = t => \A j \in DOMAIN ring :
                  j > Len(ring) - behind[link] /\ ring[j].type = t => g.n <= ring[j].n
  BY <1>0, <1>1, <1>3, Zenon DEF PathOrdered
<1> HIDE DEF q, g, r
<1>9. RingOrdered'
  BY <1>0, <1>1, <1>6, <1>8, Zenon DEF RingOrdered
<1>10. ASSUME NEW t \in Buffered
       PROVE  /\ \A i \in DOMAIN q :
                   q[i].type = t => Held(t) <= q[i].n /\ q[i].n <= tip
              /\ \A i, j \in DOMAIN q :
                   i < j /\ q[i].type = t /\ q[j].type = t => q[i].n <= q[j].n
              /\ \A j \in DOMAIN ring :
                   (j > Len(ring) - behind[link] /\ ring[j].type = t) =>
                     /\ Held(t) <= ring[j].n
                     /\ \A i \in DOMAIN q : q[i].type = t => q[i].n <= ring[j].n
  BY <1>0, <1>1 DEF PathOrdered, q
<1>11. PathOrdered'
  <2> SUFFICES ASSUME NEW t \in Buffered
               PROVE  /\ \A i \in DOMAIN r :
                           r[i].type = t => Held(t)' <= r[i].n /\ r[i].n <= tip
                      /\ \A i, j \in DOMAIN r :
                           i < j /\ r[i].type = t /\ r[j].type = t => r[i].n <= r[j].n
                      /\ \A j \in DOMAIN ring :
                           (j > Len(ring) - behind[link] /\ ring[j].type = t) =>
                             /\ Held(t)' <= ring[j].n
                             /\ \A i \in DOMAIN r : r[i].type = t => r[i].n <= ring[j].n
    BY <1>1, <1>4 DEF PathOrdered, r
  <2>1. \A i \in DOMAIN r : i \in Nat /\ i + 1 \in DOMAIN q /\ r[i] = q[i + 1] /\ i + 1 > 1
    BY <1>4 DEF r
  <2>2. \A i \in DOMAIN r : r[i].type = t => Held(t)' <= r[i].n /\ r[i].n <= tip
    BY <1>6, <1>8, <1>10, <2>1
  <2>3. ASSUME NEW i \in DOMAIN r, NEW j \in DOMAIN r, i < j, r[i].type = t, r[j].type = t
        PROVE  r[i].n <= r[j].n
    <3>1. i + 1 < j + 1
      BY <2>1, <2>3
    <3> QED  BY <1>10, <2>1, <2>3, <3>1
  <2>4. ASSUME NEW j \in DOMAIN ring, j > Len(ring) - behind[link], ring[j].type = t
        PROVE  /\ Held(t)' <= ring[j].n
               /\ \A i \in DOMAIN r : r[i].type = t => r[i].n <= ring[j].n
    BY <1>6, <1>8, <1>10, <2>1, <2>4, Zenon
  <2> QED  BY <2>2, <2>3, <2>4, Zenon
<1>12. NewestIsOnItsWay'
  <2> SUFFICES ASSUME heard[link], NEW p \in DOMAIN ring, LastTemplate(ring, p),
                      p <= Len(ring) - behind[link]
               PROVE  /\ \A i \in DOMAIN r : LastTemplate(r, i) => r[i].n = ring[p].n
                      /\ (\A i \in DOMAIN r : r[i].type # "blocktemplate")
                           => block_template' = ring[p].n
    <3>1. /\ ring' = ring /\ onWire'[link] = r /\ link' = link /\ behind' = behind
          /\ heard' = heard
      BY <1>1, <1>4 DEF r
    <3> QED  BY <3>1 DEF NewestIsOnItsWay, LastTemplate
  <2>1. /\ \A i \in DOMAIN q : LastTemplate(q, i) => q[i].n = ring[p].n
        /\ (\A i \in DOMAIN q : q[i].type # "blocktemplate") => block_template = ring[p].n
    BY <1>0, <1>1 DEF NewestIsOnItsWay, q
  <2>2. ASSUME NEW i \in DOMAIN r, LastTemplate(r, i)  PROVE r[i].n = ring[p].n
    <3>1. i \in Nat /\ i + 1 \in DOMAIN q /\ r[i] = q[i + 1]
      BY <1>4 DEF r
    <3>2. ASSUME NEW j \in DOMAIN q, j > i + 1  PROVE q[j].type # "blocktemplate"
      <4>1. j # 1 /\ j - 1 \in DOMAIN r /\ r[j - 1] = q[j] /\ j - 1 > i
        BY <1>4, <3>1, <3>2 DEF r
      <4> QED  BY <2>2, <4>1 DEF LastTemplate
    <3>3. LastTemplate(q, i + 1)
      BY <2>2, <3>1, <3>2 DEF LastTemplate
    <3> QED  BY <2>1, <3>1, <3>3
  <2>3. ASSUME \A i \in DOMAIN r : r[i].type # "blocktemplate"
        PROVE  block_template' = ring[p].n
    <3>1. \A j \in DOMAIN q : j > 1 => q[j].type # "blocktemplate"
      <4>1. \A j \in DOMAIN q : j > 1 => j - 1 \in DOMAIN r /\ r[j - 1] = q[j]
        BY <1>4 DEF r
      <4> QED  BY <2>3, <4>1
    <3>2. CASE g.type = "blocktemplate"
      <4>1. LastTemplate(q, 1)
        BY <1>3, <3>1, <3>2 DEF LastTemplate
      <4> QED  BY <1>1, <1>3, <2>1, <3>2, <4>1
    <3>3. CASE g.type # "blocktemplate"
      <4>1. \A j \in DOMAIN q : q[j].type # "blocktemplate"
        BY <1>3, <1>4, <3>1, <3>3
      <4> QED  BY <1>1, <2>1, <3>3, <4>1
    <3> QED  BY <3>2, <3>3
  <2> QED  BY <2>2, <2>3
<1>13. \A t \in Buffered : Held(t) <= Held(t)'
  BY <1>5, <1>6, <1>8 DEF Held
<1> QED  BY <1>7, <1>9, <1>11, <1>12, <1>13 DEF OrderInv

\* Every step keeps the frames in order, and only goes forward.
LEMMA StepOrderInv ==
  ASSUME OrderInv, [RelayNext]_feedVars
  PROVE  OrderInv' /\ \A t \in Buffered : Held(t) <= Held(t)'
<1>0. /\ server \in [Socket -> {"none", "shake", "open"}] /\ tip \in Nat
      /\ link \in Socket \union {NoSocket}
  BY DEF OrderInv, FeedTypeOK
<1>1. UNCHANGED <<block_template, mempool_info>> => \A t \in Buffered : Held(t) <= Held(t)'
  BY DEF Held, OrderInv, FeedTypeOK
<1>2. CASE UNCHANGED feedVars
  BY <1>0, <1>1, <1>2, OrderFrame DEF feedVars
<1>3. CASE NodeMoves
  BY <1>0, <1>1, <1>3, OrderFrame DEF NodeMoves, taskVars, adapterVars
<1>4. CASE run_heartbeat
  BY <1>1, <1>4, SendKeepsOrder
  DEF run_heartbeat, adapterVars, FrameType, Buffered
<1>5. ASSUME NEW ok \in BOOLEAN, PollTemplate(ok)
      PROVE  OrderInv' /\ \A t \in Buffered : Held(t) <= Held(t)'
  BY <1>0, <1>1, <1>5, SendKeepsOrder, OrderFrame
  DEF PollTemplate, adapterVars, FrameType, Buffered
<1>6. ASSUME NEW ok \in BOOLEAN, PollMempool(ok)
      PROVE  OrderInv' /\ \A t \in Buffered : Held(t) <= Held(t)'
  BY <1>0, <1>1, <1>6, SendKeepsOrder, OrderFrame
  DEF PollMempool, adapterVars, FrameType, Buffered
<1>7. ASSUME NEW s \in Socket, AcceptFeed(s) \/ HandshakeRefused(s) \/ Disconnected(s)
      PROVE  OrderInv' /\ \A t \in Buffered : Held(t) <= Held(t)'
  BY <1>0, <1>1, <1>7, ResetKeepsOrder
  DEF AcceptFeed, HandshakeRefused, Disconnected, EndRelay, pollVars, adapterVars
<1>8. ASSUME NEW s \in Socket, Upgraded(s)
      PROVE  OrderInv' /\ \A t \in Buffered : Held(t) <= Held(t)'
  BY <1>1, <1>8, UpgradeKeepsOrder, Zenon DEF Upgraded
<1>9. ASSUME NEW s \in Socket, RelayFrame(s)
      PROVE  OrderInv' /\ \A t \in Buffered : Held(t) <= Held(t)'
  BY <1>1, <1>9, RelayKeepsOrder, Zenon DEF RelayFrame, adapterVars
<1>10. CASE process_frame
  BY <1>10, ProcessKeepsOrder
<1>11. CASE FeedLost
  <2>1. link \in Socket
    BY <1>0, <1>11 DEF FeedLost
  <2> QED  BY <1>0, <1>1, <1>11, <2>1, ResetKeepsOrder, Zenon DEF FeedLost, pollVars
<1> QED
  BY <1>2, <1>3, <1>4, <1>5, <1>6, <1>7, <1>8, <1>9, <1>10, <1>11, Zenon DEF RelayNext

\* A receiver with nothing left to read has passed the kept template on.
LEMMA DrainedFollows == OrderInv => DrainedIsLatest
<1> SUFFICES ASSUME OrderInv, link # NoSocket, heard[link], behind[link] = 0,
                    onWire[link] = <<>>, KeptTemplate # -1
             PROVE  block_template = KeptTemplate
  BY DEF DrainedIsLatest
<1>1. \E i \in DOMAIN ring : LastTemplate(ring, i)
  BY DEF KeptTemplate
<1>2. PICK p \in DOMAIN ring : LastTemplate(ring, p) /\ KeptTemplate = ring[p].n
  BY <1>1, Zenon DEF KeptTemplate
<1>3. p <= Len(ring) - behind[link]
  BY <1>2 DEF OrderInv, FeedTypeOK
<1>4. \A i \in DOMAIN onWire[link] : FALSE
  OBVIOUS
<1> QED  BY <1>2, <1>3, <1>4 DEF OrderInv, NewestIsOnItsWay

(* rg-feed-server main.rs, rg-feed-adapter.  What the adapter answers only    *)
(* goes forward, through lag, lost connections and reconnections; a client    *)
(* with nothing left to read serves the newest template that is kept; and the *)
(* two ceilings count exactly the tasks that run, for any number of sockets,  *)
(* any channel capacity and any ceilings.                                     *)
THEOREM FeedHoldsAlways == RelaySpec => FeedHolds
<1>1. OrderInv /\ [RelayNext]_feedVars
        => OrderInv' /\ \A t \in Buffered : Held(t) <= Held(t)'
  BY StepOrderInv
<1>2. OrderInv /\ (\A t \in Buffered : Held(t) <= Held(t)')
        => \A m \in Methods : handle_jsonrpc(m)' >= handle_jsonrpc(m)
  BY DEF Buffered, Held, handle_jsonrpc, OrderInv, FeedTypeOK
<1>3. OrderInv /\ SlotsInv => DrainedIsLatest /\ FeedSlotsHeld
  BY DrainedFollows DEF SlotsInv
<1>4. OrderInv /\ [RelayNext]_feedVars
        => [\A m \in Methods : handle_jsonrpc(m)' >= handle_jsonrpc(m)]_feedVars
  BY <1>1, <1>2
<1>5. OrderInv /\ [RelayNext]_feedVars => OrderInv'
  BY <1>1
<1>6. RelaySpec => []OrderInv
  BY <1>5, InitOrderInv, PTL DEF RelaySpec
<1>7. RelaySpec => []SlotsInv
  BY InitSlotsInv, StepSlotsInv, PTL DEF RelaySpec
<1>8. RelaySpec => AnswersGoForward
  BY <1>4, <1>6, PTL DEF RelaySpec, AnswersGoForward
<1> QED  BY <1>3, <1>6, <1>7, <1>8, PTL DEF FeedHolds

==============================================================================
