------------------------ MODULE ShareAccountingProofs ------------------------
(***************************************************************************)
(* Proofs about ShareAccounting, for every set of shares and connections   *)
(* and every size of a queue, a batch or the dedup window: its types, and  *)
(* that no accepted share is left without an Event 2 line.                 *)
(***************************************************************************)
EXTENDS ShareAccounting, TLAPS

(* Lemmas on what a batch of records does to replay.                       *)

\* Replay of pending records keeps the type of the file, keeps a pending key
\* pending, leaves only waiting completions waiting, and indexes every key of
\* the batch that had no waiting completion (read_pending_index).
LEMMA ReplayPendingFacts ==
  ASSUME NEW f \in [Keys -> Places], NEW b
  PROVE  /\ ReplayPending(f, b) \in [Keys -> Places]
         /\ \A k \in Keys : f[k] = "pending" => ReplayPending(f, b)[k] = "pending"
         /\ \A k \in Keys : ReplayPending(f, b)[k] = "early" => f[k] = "early"
         /\ \A k \in Keys : ReplayPending(f, b)[k] = "pending" => f[k] = "pending" \/ Occurs(b, k)
         /\ \A k \in Keys : Occurs(b, k) /\ f[k] # "early" => ReplayPending(f, b)[k] = "pending"
BY DEF ReplayPending, Places

\* Replay of completed records touches only the keys of the batch.
LEMMA ReplayCompletedFacts ==
  ASSUME NEW f \in [Keys -> Places], NEW b
  PROVE  /\ ReplayCompleted(f, b) \in [Keys -> Places]
         /\ \A k \in Keys : ~Occurs(b, k) => ReplayCompleted(f, b)[k] = f[k]
         /\ \A k \in Keys : ReplayCompleted(f, b)[k] = "pending" => f[k] = "pending"
BY DEF ReplayCompleted, Places

\* A rewritten file replays to the index it was written from.
LEMMA RewrittenFacts ==
  ASSUME NEW p \in SUBSET Keys, NEW e \in SUBSET Keys
  PROVE  /\ Rewritten(p, e) \in [Keys -> Places]
         /\ \A k \in Keys : k \in p <=> Rewritten(p, e)[k] = "pending"
         /\ \A k \in Keys : Rewritten(p, e)[k] = "early" => k \in e
BY DEF Rewritten, Places

\* A part of a batch holds no key the batch does not hold.
LEMMA PrefixOccurs ==
  ASSUME NEW S, NEW b \in Seq(S), NEW n \in 0..Len(b), NEW k, Occurs(SubSeq(b, 1, n), k)
  PROVE  Occurs(b, k)
BY DEF Occurs

-----------------------------------------------------------------------------
(* Types                                                                   *)

\* take_queued splits a queue into two queues of the same kind.
LEMMA TakenFacts ==
  ASSUME NEW S, NEW q \in Seq(S), q # <<>>
  PROVE  /\ Taken(q) \in Seq(S)
         /\ Left(q) \in Seq(S) /\ Len(Left(q)) <= Len(q)
BY WalConstants DEF WalConstants, Taken, Left

\* Writing a line counts it, and uncounts none.
LEMMA LineOutFacts ==
  ASSUME NEW count \in Counts, NEW e
  PROVE  /\ LineOut(count, e) \in Counts
         /\ \A k \in Keys : count[k] > 0 => LineOut(count, e)[k] > 0
         /\ \A k \in Keys : LineOut(count, e)[k] = 0 => count[k] = 0
         /\ e \in Keys => LineOut(count, e)[e] > 0
         /\ \A k \in Keys : k # e => LineOut(count, e)[k] = count[k]
BY DEF LineOut, Counts

\* The initial state is well typed.
LEMMA TypeInit == Init => TypeOK
<1> SUFFICES ASSUME Init PROVE TypeOK
  OBVIOUS
<1>1. WalTypeOK
  BY Zenon DEF Init, WalInit, WalTypeOK, Places
<1>2. stopping \in BOOLEAN /\ moved \in BOOLEAN
  BY Zenon DEF Init
<1>3. QED
  BY <1>1, <1>2, AccountingConstants DEF AccountingConstants, Init, TypeOK, Counts, Events

\* Every operation of the WAL keeps its state well typed.
LEMMA WalStepType ==
  ASSUME WalTypeOK, NEW b,
         \/ Open \/ FinishRecovery \/ FinishRecoveryFails \/ Compact \/ CompactFails \/ Close
         \/ MarkPending(b) \/ MarkPendingFails(b) \/ DieInMarkPending(b)
         \/ MarkCompleted(b) \/ MarkCompletedFails(b) \/ DieInMarkCompleted(b)
         \/ UNCHANGED walVars
  PROVE  WalTypeOK'
<1> USE DEF WalTypeOK
<1>1. ASSUME Open PROVE WalTypeOK'
  BY <1>1 DEF Open
<1>2. ASSUME CompactInner, orphans' \in SUBSET Keys,
             wal' \in {"closed", "recovering", "open", "failed", "off"}
      PROVE  WalTypeOK'
  <2>1. PICK kept \in SUBSET completed_early : /\ completed_early' = kept
                                              /\ file' = Rewritten(pending, kept)
                                              /\ tail' = FALSE
                                              /\ undo' = {}
                                              /\ pending' = pending
    BY <1>2 DEF CompactInner
  <2>2. file' \in [Keys -> Places]
    BY <2>1, RewrittenFacts
  <2>3. QED
    BY <1>2, <2>1, <2>2, Zenon
<1>3. ASSUME CompactInnerFails, orphans' \in SUBSET Keys,
             wal' \in {"closed", "recovering", "open", "failed", "off"}
      PROVE  WalTypeOK'
  BY <1>3 DEF CompactInnerFails
<1>4. ASSUME FinishRecovery \/ FinishRecoveryFails \/ Compact \/ CompactFails PROVE WalTypeOK'
  BY <1>2, <1>3, <1>4 DEF FinishRecovery, FinishRecoveryFails, Compact, CompactFails
<1>5. ASSUME Torn(b, ReplayPending) \/ Torn(b, ReplayCompleted)
      PROVE  file' \in [Keys -> Places] /\ tail' \in BOOLEAN
  BY <1>5, ReplayPendingFacts, ReplayCompletedFacts DEF Torn
<1>6. ASSUME IndexPending(b) \/ IndexCompleted(b)
      PROVE  pending' \in SUBSET Keys /\ completed_early' \in SUBSET Keys
  BY <1>6, Zenon DEF IndexPending, IndexCompleted
<1>7. ASSUME MarkPending(b) PROVE WalTypeOK'
  BY <1>6, <1>7, ReplayPendingFacts, Zenon DEF MarkPending
<1>8. ASSUME MarkCompleted(b) PROVE WalTypeOK'
  BY <1>6, <1>8, ReplayCompletedFacts, Zenon DEF MarkCompleted
<1>9. ASSUME MarkPendingFails(b) \/ MarkCompletedFails(b) PROVE WalTypeOK'
  BY <1>5, <1>6, <1>9 DEF MarkPendingFails, MarkCompletedFails
<1>10. ASSUME Close \/ DieInMarkPending(b) \/ DieInMarkCompleted(b) PROVE WalTypeOK'
  BY <1>5, <1>10 DEF Close, DieInMarkPending, DieInMarkCompleted, Forget
<1>11. ASSUME UNCHANGED walVars PROVE WalTypeOK'
  BY <1>11 DEF walVars
<1>12. QED
  BY <1>1, <1>4, <1>7, <1>8, <1>9, <1>10, <1>11

\* The part of TypeOK outside the WAL, in groups: what the main task holds,
LoopType ==
  /\ pc \in {"down", "recover", "select", "mark_pending", "accepted_lines", "result_lines",
             "compact", "drain_events", "drain_results", "exit", "failing"}
  /\ batch \in Seq(Events) /\ written \in 0..Len(batch)
  /\ synthetic \in SUBSET Keys

\* the connection handlers with their dedup windows,
HandlerType ==
  /\ handler \in [Handlers -> Keys \cup {Idle}]
  /\ dedup \in [Handlers -> Seq(Keys)]

\* the three bounded channels,
QueueType ==
  /\ forwardQ \in Seq(Keys) /\ Len(forwardQ) <= ForwardQueueSize
  /\ eventQ \in Seq(Events) /\ Len(eventQ) <= EventQueueSize
  /\ resultQ \in Seq(Keys) /\ Len(resultQ) <= ResultQueueSize

\* the relay with its semaphore and forward tasks,
RelayType ==
  /\ relay \in Keys \cup {Idle}
  /\ inFlight \in Counts /\ permits \in Nat

\* the history counters,
CountType ==
  /\ queued \in Counts /\ acked \in Counts /\ event1 \in Counts /\ event2 \in Counts
  /\ stops \in Nat /\ crashes \in Nat

\* and all of them.
RestType == LoopType /\ HandlerType /\ QueueType /\ RelayType /\ CountType

\* A step that leaves the variables of a group alone keeps its type.
LEMMA Unchanged ==
  /\ LoopType /\ UNCHANGED loopVars => LoopType'
  /\ HandlerType /\ UNCHANGED handlerVars => HandlerType'
  /\ QueueType /\ UNCHANGED queueVars => QueueType'
  /\ RelayType /\ UNCHANGED relayVars => RelayType'
  /\ CountType /\ UNCHANGED <<minerVars, lineVars, endVars>> => CountType'
<1>1. LoopType /\ UNCHANGED loopVars => LoopType'
  BY DEF LoopType, loopVars
<1>2. HandlerType /\ UNCHANGED handlerVars => HandlerType'
  BY DEF HandlerType, handlerVars
<1>3. QueueType /\ UNCHANGED queueVars => QueueType'
  BY DEF QueueType, queueVars
<1>4. RelayType /\ UNCHANGED relayVars => RelayType'
  BY DEF RelayType, relayVars
<1>5. CountType /\ UNCHANGED <<minerVars, lineVars, endVars>> => CountType'
  BY DEF CountType, minerVars, lineVars, endVars
<1>6. QED
  BY <1>1, <1>2, <1>3, <1>4, <1>5

\* An event queue of legal length stays one when an event is offered to it.
LEMMA EnqueueFacts ==
  ASSUME eventQ \in Seq(Events), Len(eventQ) <= EventQueueSize, NEW e \in Events, Enqueue(e)
  PROVE  eventQ' \in Seq(Events) /\ Len(eventQ') <= EventQueueSize
BY AccountingConstants DEF AccountingConstants, Enqueue

\* Every step of the gateway keeps the state outside the WAL well typed.
LEMMA RestStepType == TypeOK /\ [Next]_vars => RestType'
<1> SUFFICES ASSUME TypeOK, [Next]_vars PROVE RestType'
  OBVIOUS
<1>a. RestType
  BY DEF TypeOK, RestType, LoopType, HandlerType, QueueType, RelayType, CountType
<1>b. \A h \in Handlers : KeysOf[h] \subseteq Keys
  BY AccountingConstants DEF AccountingConstants
<1> USE <1>a DEF RestType
<1>1. ASSUME NEW h \in Handlers, NEW k \in Keys, QueueForward(h, k) PROVE RestType'
  <2>1. Remembered(dedup[h], k) \in Seq(Keys)
    BY AccountingConstants DEF AccountingConstants, Remembered, HandlerType
  <2>2. HandlerType'
    BY <1>1, <2>1 DEF QueueForward, HandlerType
  <2>3. QueueType'
    BY <1>1, AccountingConstants DEF AccountingConstants, QueueForward, QueueType
  <2>4. CountType'
    BY <1>1 DEF QueueForward, CountType, Counts, lineVars, endVars
  <2>5. QED
    BY <1>1, <2>2, <2>3, <2>4, Unchanged DEF QueueForward
<1>2. ASSUME NEW h \in Handlers, NEW k \in Keys, QueueFull(h, k) PROVE RestType'
  <2>1. Remembered(dedup[h], k) \in Seq(Keys)
    BY AccountingConstants DEF AccountingConstants, Remembered, HandlerType
  <2>2. HandlerType'
    BY <1>2, <2>1 DEF QueueFull, HandlerType
  <2>3. QueueType'
    <3>1. Rejected \in Events
      BY DEF Events
    <3>2. Enqueue(Rejected) /\ UNCHANGED <<forwardQ, resultQ>>
      BY <1>2 DEF QueueFull
    <3>3. QED
      BY <3>1, <3>2, EnqueueFacts DEF QueueType
  <2>4. QED
    BY <1>2, <2>2, <2>3, Unchanged DEF QueueFull
<1>3. ASSUME NEW h \in Handlers, Reject(h) PROVE RestType'
  <2>1. QueueType'
    BY <1>3, AccountingConstants
       DEF AccountingConstants, Reject, Enqueue, QueueType, Events, Rejected
  <2>2. QED
    BY <1>3, <2>1, Unchanged DEF Reject
<1>4. ASSUME NEW h \in Handlers, Report(h) PROVE RestType'
  <2>1. handler[h] \in Keys
    BY <1>4 DEF Report, HandlerType
  <2>2. QueueType'
    BY <1>4, <2>1, AccountingConstants
       DEF AccountingConstants, Report, Enqueue, QueueType, Events
  <2>3. HandlerType'
    BY <1>4 DEF Report, HandlerType
  <2>4. CountType'
    BY <1>4, <2>1 DEF Report, CountType, Counts, lineVars, endVars
  <2>5. QED
    BY <1>4, <2>2, <2>3, <2>4, Unchanged DEF Report
<1>5. ASSUME RelayRecv PROVE RestType'
  <2>1. QueueType' /\ Head(forwardQ) \in Keys
    BY <1>5, AccountingConstants DEF AccountingConstants, RelayRecv, QueueType
  <2>2. RelayType'
    BY <1>5, <2>1 DEF RelayRecv, RelayType
  <2>3. QED
    BY <1>5, <2>1, <2>2, Unchanged DEF RelayRecv
<1>6. ASSUME RelaySpawn PROVE RestType'
  <2>1. permits' \in Nat /\ relay' = Idle
    BY <1>6 DEF RelaySpawn, RelayType
  <2>2. inFlight' \in Counts
    BY <1>6 DEF RelaySpawn, RelayType, Counts
  <2>3. RelayType'
    BY <2>1, <2>2 DEF RelayType
  <2>4. QED
    BY <1>6, <2>3, Unchanged DEF RelaySpawn
<1>7. ASSUME NEW k \in Keys, ForwardDone(k) PROVE RestType'
  <2>1. QueueType'
    BY <1>7, AccountingConstants DEF AccountingConstants, ForwardDone, QueueType
  <2>2. RelayType'
    BY <1>7 DEF ForwardDone, RelayType, Counts
  <2>3. QED
    BY <1>7, <2>1, <2>2, Unchanged DEF ForwardDone
<1>8. ASSUME TakeEvents PROVE RestType'
  <2>1. Taken(eventQ) \in Seq(Events) /\ Left(eventQ) \in Seq(Events)
          /\ Len(Left(eventQ)) <= Len(eventQ)
    BY <1>8, TakenFacts DEF TakeEvents, QueueType
  <2>2. LoopType'
    BY <1>8, <2>1 DEF TakeEvents, LoopType
  <2>3. QueueType'
    BY <1>8, <2>1, AccountingConstants DEF AccountingConstants, TakeEvents, QueueType, others
  <2>4. QED
    BY <1>8, <2>2, <2>3, Unchanged DEF TakeEvents, others
<1>9. ASSUME TakeResults PROVE RestType'
  <2>1. Taken(resultQ) \in Seq(Keys) /\ Left(resultQ) \in Seq(Keys)
          /\ Len(Left(resultQ)) <= Len(resultQ)
    BY <1>9, TakenFacts DEF TakeResults, QueueType
  <2>2. Taken(resultQ) \in Seq(Events)
    BY <2>1 DEF Events
  <2>3. LoopType'
    BY <1>9, <2>2 DEF TakeResults, LoopType
  <2>4. QueueType'
    BY <1>9, <2>1, AccountingConstants DEF AccountingConstants, TakeResults, QueueType, others
  <2>5. QED
    BY <1>9, <2>3, <2>4, Unchanged DEF TakeResults, others
<1>10. ASSUME AcceptedLine PROVE RestType'
  <2>1. LoopType'
    BY <1>10 DEF AcceptedLine, LoopType
  <2>2. event1' \in Counts
    BY <1>10, LineOutFacts DEF AcceptedLine, CountType
  <2>3. CountType'
    BY <1>10, <2>2 DEF AcceptedLine, CountType, others, minerVars, endVars
  <2>4. QED
    BY <1>10, <2>1, <2>3, Unchanged DEF AcceptedLine, others, queueVars
<1>11. ASSUME ResultLine PROVE RestType'
  <2>1. LoopType'
    BY <1>11 DEF ResultLine, LoopType
  <2>2. event2' \in Counts
    BY <1>11, LineOutFacts DEF ResultLine, CountType
  <2>3. CountType'
    BY <1>11, <2>2 DEF ResultLine, CountType, others, minerVars, endVars
  <2>4. QED
    BY <1>11, <2>1, <2>3, Unchanged DEF ResultLine, others, queueVars
<1>12. ASSUME \/ RecordPending \/ RecordPendingFails \/ RecordCompleted \/ RecordCompletedFails
              \/ RecordCompacted \/ RecordCompactFails \/ AcceptedDone \/ ResultsUnrecorded
              \/ Stop \/ DrainDeadline \/ DrainNoEvents \/ DrainNoResults
       PROVE  RestType'
  <2> USE DEF RecordPending, RecordPendingFails, RecordCompleted, RecordCompletedFails,
      RecordCompacted, RecordCompactFails, AcceptedDone, ResultsUnrecorded, ForwardedDone,
      Stop, DrainDeadline, DrainNoEvents, DrainNoResults
  <2>1. UNCHANGED <<batch, written>> \/ (batch' = <<>> /\ written' = 0)
    BY <1>12, Zenon
  <2>2. synthetic' = synthetic
    BY <1>12, Zenon
  <2>3. pc' \in {"select", "accepted_lines", "compact", "drain_events", "drain_results", "exit",
                "failing"}
    BY <1>12, Zenon
  <2>4. LoopType'
    <3>1. batch' \in Seq(Events) /\ written' \in 0..Len(batch')
      <4>1. CASE UNCHANGED <<batch, written>>
        BY <4>1 DEF LoopType
      <4>2. CASE batch' = <<>> /\ written' = 0
        BY <4>2
      <4>3. QED
        BY <2>1, <4>1, <4>2
    <3>2. QED
      BY <2>2, <2>3, <3>1 DEF LoopType
  <2>5. UNCHANGED <<others, eventQ, resultQ, lineVars>>
    BY <1>12, Zenon
  <2>6. QED
    BY <2>4, <2>5, Unchanged DEF others, queueVars
<1>13. ASSUME Exit \/ Crash PROVE RestType'
  <2>1. Reset /\ crashes' \in Nat
    BY <1>13 DEF Exit, Crash, CountType
  <2>2. LoopType' /\ QueueType'
    BY <2>1, AccountingConstants DEF AccountingConstants, Reset, LoopType, QueueType
  <2>3. HandlerType'
    BY <2>1 DEF Reset, HandlerType
  <2>4. RelayType' /\ CountType'
    BY <2>1, AccountingConstants
       DEF AccountingConstants, Reset, RelayType, CountType, Counts, minerVars, lineVars
  <2>5. QED
    BY <2>2, <2>3, <2>4
<1>14. ASSUME Start \/ StartWithoutWal \/ Recovered PROVE RestType'
  <2>1. LoopType'
    BY <1>14 DEF Start, StartWithoutWal, Recovered, Open, startVars, LoopType
  <2>2. UNCHANGED <<startVars, event2>>
    BY <1>14 DEF Start, StartWithoutWal, Recovered
  <2>3. QED
    BY <2>1, <2>2, Unchanged DEF startVars, others, queueVars, lineVars
<1>15. ASSUME RecoverLine PROVE RestType'
  <2>1. LoopType'
    BY <1>15 DEF RecoverLine, startVars, LoopType
  <2>2. event2' \in Counts
    BY <1>15, LineOutFacts DEF RecoverLine, CountType
  <2>3. CountType'
    BY <1>15, <2>2 DEF RecoverLine, startVars, others, CountType, minerVars, endVars
  <2>4. QED
    BY <1>15, <2>1, <2>3, Unchanged DEF RecoverLine, startVars, others, queueVars
<1>16. ASSUME UNCHANGED vars PROVE RestType'
  BY <1>16, Unchanged DEF vars
<1>17. QED
  BY <1>b, <1>1, <1>2, <1>3, <1>4, <1>5, <1>6, <1>7, <1>8, <1>9, <1>10, <1>11, <1>12, <1>13,
     <1>14, <1>15, <1>16, Zenon DEF Next, Handle, Relay, Main, Life

\* Every step of the gateway is a step of the WAL, a start without it, or
\* leaves it alone.
LEMMA WalPart ==
  ASSUME [Next]_vars
  PROVE  \/ Open \/ FinishRecovery \/ FinishRecoveryFails \/ Compact \/ CompactFails \/ Close
         \/ MarkPending(batch) \/ MarkPendingFails(batch) \/ DieInMarkPending(batch)
         \/ MarkCompleted(batch) \/ MarkCompletedFails(batch) \/ DieInMarkCompleted(batch)
         \/ UNCHANGED walVars
         \/ StartWithoutWal
<1>1. ASSUME NEW h \in Handlers, Handle(h) PROVE UNCHANGED walVars
  BY <1>1, Zenon DEF Handle, QueueForward, QueueFull, Reject, Report
<1>2. ASSUME Relay PROVE UNCHANGED walVars
  BY <1>2 DEF Relay, RelayRecv, RelaySpawn, ForwardDone
<1>3. ASSUME \/ TakeEvents \/ AcceptedLine \/ AcceptedDone \/ TakeResults \/ ResultLine
             \/ ResultsUnrecorded \/ Stop \/ DrainDeadline \/ DrainNoEvents \/ DrainNoResults
             \/ RecoverLine
      PROVE  UNCHANGED walVars
  BY <1>3, Zenon DEF TakeEvents, AcceptedLine, AcceptedDone, TakeResults, ResultLine,
     ResultsUnrecorded, Stop, DrainDeadline, DrainNoEvents, DrainNoResults, RecoverLine
<1>4. RecordPending => MarkPending(batch)
  BY DEF RecordPending
<1>5. RecordPendingFails => MarkPendingFails(batch)
  BY DEF RecordPendingFails
<1>6. RecordCompleted => MarkCompleted(batch)
  BY DEF RecordCompleted
<1>7. RecordCompletedFails => MarkCompletedFails(batch)
  BY DEF RecordCompletedFails
<1>8. RecordCompacted => Compact \/ UNCHANGED walVars
  BY DEF RecordCompacted
<1>9. RecordCompactFails => CompactFails
  BY DEF RecordCompactFails
<1>10. Exit => Close
  BY DEF Exit
<1>11. Crash => Close \/ DieInMarkPending(batch) \/ DieInMarkCompleted(batch)
  BY DEF Crash
<1>12. Start => Open
  BY DEF Start
<1>13. Recovered => FinishRecovery \/ FinishRecoveryFails
  BY DEF Recovered
<1>14. UNCHANGED vars => UNCHANGED walVars
  BY DEF vars
<1>15. QED
  BY <1>1, <1>2, <1>3, <1>4, <1>5, <1>6, <1>7, <1>8, <1>9, <1>10, <1>11, <1>12, <1>13, <1>14
     DEF Next, Main, Life

\* Every step keeps the two flags of the drain Boolean.
LEMMA FlagType ==
  ASSUME stopping \in BOOLEAN, moved \in BOOLEAN, [Next]_vars
  PROVE  stopping' \in BOOLEAN /\ moved' \in BOOLEAN
<1>1. ASSUME NEW h \in Handlers, Handle(h) PROVE UNCHANGED loopVars
  BY <1>1, Zenon DEF Handle, QueueForward, QueueFull, Reject, Report
<1>2. ASSUME Relay PROVE UNCHANGED loopVars
  BY <1>2 DEF Relay, RelayRecv, RelaySpawn, ForwardDone
<1>3. UNCHANGED vars => UNCHANGED loopVars
  BY DEF vars
<1>4. UNCHANGED loopVars => UNCHANGED <<stopping, moved>>
  BY DEF loopVars
<1>5. ASSUME Main PROVE /\ stopping' = stopping \/ stopping' = TRUE
                        /\ moved' = moved \/ moved' = stopping \/ moved' = FALSE
  BY <1>5, Zenon DEF Main, TakeEvents, RecordPending, RecordPendingFails, AcceptedLine,
     AcceptedDone,
     TakeResults, ResultLine, ResultsUnrecorded, RecordCompleted, RecordCompletedFails,
     RecordCompacted, RecordCompactFails, ForwardedDone, Stop, DrainDeadline, DrainNoEvents,
     DrainNoResults
<1>6. ASSUME Life PROVE /\ stopping' = stopping \/ stopping' = FALSE
                        /\ moved' = moved \/ moved' = FALSE
  BY <1>6 DEF Life, Exit, Crash, Reset, Start, StartWithoutWal, RecoverLine, Recovered, startVars
<1>7. QED
  BY <1>1, <1>2, <1>3, <1>4, <1>5, <1>6, Zenon DEF Next

\* Every step keeps the state well typed.
LEMMA TypeStep == TypeOK /\ [Next]_vars => TypeOK'
<1> SUFFICES ASSUME TypeOK, [Next]_vars PROVE TypeOK'
  OBVIOUS
<1>1. WalTypeOK /\ stopping \in BOOLEAN /\ moved \in BOOLEAN
  BY DEF TypeOK
<1>2. StartWithoutWal => WalTypeOK'
  BY <1>1 DEF StartWithoutWal, WalTypeOK
<1>3. WalTypeOK'
  BY <1>1, <1>2, WalPart, WalStepType
<1>4. stopping' \in BOOLEAN /\ moved' \in BOOLEAN
  BY <1>1, FlagType
<1>5. QED
  BY <1>3, <1>4, RestStepType, Zenon
     DEF TypeOK, RestType, LoopType, HandlerType, QueueType, RelayType, CountType

\* Every reachable state of the share pipeline is well typed, and no queue
\* holds more than its channel's capacity.
THEOREM TypeCorrect == Spec => []TypeOK
<1>1. Init => TypeOK
  BY TypeInit
<1>2. TypeOK /\ [Next]_vars => TypeOK'
  BY TypeStep
<1>3. QED
  BY <1>1, <1>2, PTL DEF Spec

-----------------------------------------------------------------------------
(* No accepted share is left without an Event 2 line                       *)

\* Initially nothing is owed.
LEMMA OwedInit == Init => OwedIsKept
BY DEF Init, WalInit, OwedIsKept, NeverZero, EarlyIsAnswered, WalFollowsLoop, OwedIsIndexed,
   LinesInOrder, AtBatch, Answered

\* A step that leaves the WAL, the lines and the main task alone keeps it.
LEMMA OwedUnchanged ==
  ASSUME OwedIsKept, UNCHANGED <<walVars, loopVars, lineVars>>
  PROVE  OwedIsKept'
BY DEF OwedIsKept, NeverZero, EarlyIsAnswered, WalFollowsLoop, OwedIsIndexed,
   LinesInOrder, AtBatch, Answered, Occurs, walVars, loopVars, lineVars

\* A share without an Event 2 line is not answered.
LEMMA NoLineNoAnswer ==
  ASSUME NEW k, event2[k] = 0
  PROVE  ~Answered(k)
BY DEF Answered

\* A compaction writes back every share that is owed, and only completions
\* that are answered.
LEMMA CompactionKeepsOwed ==
  ASSUME WalTypeOK, EarlyIsAnswered, CompactInner, UNCHANGED lineVars,
         \A k \in Keys : file[k] = "pending" /\ ~Answered(k) => k \in pending
  PROVE  /\ NeverZero => NeverZero'
         /\ EarlyIsAnswered'
         /\ tail' = FALSE
         /\ \A k \in Keys : file'[k] = "pending" => k \in pending'
<1>1. PICK kept \in SUBSET completed_early : /\ completed_early' = kept
                                            /\ file' = Rewritten(pending, kept)
                                            /\ tail' = FALSE
                                            /\ pending' = pending
  BY DEF CompactInner
<1>2. /\ \A k \in Keys : k \in pending <=> file'[k] = "pending"
      /\ \A k \in Keys : file'[k] = "early" => k \in kept
  <2>1. pending \in SUBSET Keys /\ kept \in SUBSET Keys
    BY <1>1 DEF WalTypeOK
  <2>2. QED
    BY <1>1, <2>1, RewrittenFacts, Zenon
<1>3. event1' = event1 /\ event2' = event2
  BY DEF lineVars
<1>4. ASSUME NeverZero PROVE NeverZero'
  <2>1. ASSUME NEW k \in Keys, event1[k] > 0, event2[k] = 0 PROVE file'[k] = "pending"
    <3>1. file[k] = "pending"
      BY <1>4, <2>1 DEF NeverZero
    <3>2. ~Answered(k)
      BY <2>1, NoLineNoAnswer
    <3>3. QED
      BY <1>2, <3>1, <3>2
  <2>2. QED
    BY <1>3, <2>1 DEF NeverZero
<1>5. EarlyIsAnswered'
  <2>1. ASSUME NEW k \in Keys, file'[k] = "early" \/ k \in completed_early' PROVE Answered(k)
    <3>1. k \in completed_early
      BY <1>1, <1>2, <2>1
    <3>2. QED
      BY <3>1 DEF EarlyIsAnswered
  <2>2. QED
    BY <1>3, <2>1 DEF EarlyIsAnswered, Answered
<1>6. QED
  BY <1>1, <1>2, <1>4, <1>5, Zenon

\* A torn append of pending records disturbs no share that is owed.
LEMMA TornPendingKeepsOwed ==
  ASSUME WalTypeOK, NeverZero, EarlyIsAnswered, NEW b, Torn(b, ReplayPending),
         completed_early' \subseteq completed_early, UNCHANGED lineVars
  PROVE  NeverZero' /\ EarlyIsAnswered'
<1>1. PICK c : file' = ReplayPending(file, c)
  BY DEF Torn
<1>2. QED
  BY <1>1, ReplayPendingFacts, Zenon DEF WalTypeOK, NeverZero, EarlyIsAnswered, Answered, lineVars

\* Once every line of a batch of results is written, its shares are answered.
LEMMA BatchAnswered ==
  ASSUME TypeOK, LinesInOrder, pc = "result_lines", written = Len(batch),
         NEW k \in Keys, Occurs(batch, k)
  PROVE  Answered(k)
<1>1. batch \in Seq(Events)
  BY DEF TypeOK
<1>2. PICK i \in 1..Len(batch) : batch[i] = k
  BY <1>1 DEF Occurs
<1>3. i <= written
  BY <1>1, <1>2
<1>4. Answered(batch[i])
  BY <1>2, <1>3 DEF LinesInOrder
<1>5. QED
  BY <1>2, <1>4

\* Appending completed records, whole or torn, of answered shares disturbs
\* no share that is owed.
LEMMA CompletedKeepsOwed ==
  ASSUME WalTypeOK, NeverZero, EarlyIsAnswered, tail = FALSE, UNCHANGED lineVars,
         batch \in Seq(Events), \A k \in Keys : Occurs(batch, k) => Answered(k),
         IndexCompleted(batch) \/ completed_early' = {},
         Torn(batch, ReplayCompleted) \/ file' = ReplayCompleted(file, Lands(batch))
  PROVE  /\ NeverZero' /\ EarlyIsAnswered'
         /\ \A k \in Keys : file'[k] = "pending" => file[k] = "pending"
<1>1. Lands(batch) = batch
  BY DEF Lands
<1>2. PICK c : /\ file' = ReplayCompleted(file, c)
               /\ \A k \in Keys : Occurs(c, k) => Occurs(batch, k)
  <2>1. CASE file' = ReplayCompleted(file, Lands(batch))
    BY <1>1, <2>1
  <2>2. CASE Torn(batch, ReplayCompleted)
    <3>1. PICK n \in 0..Len(batch) : file' = ReplayCompleted(file, SubSeq(batch, 1, n))
      BY <1>1, <2>2 DEF Torn
    <3>2. \A k \in Keys : Occurs(SubSeq(batch, 1, n), k) => Occurs(batch, k)
      BY <3>1, PrefixOccurs
    <3>3. QED
      BY <3>1, <3>2
  <2>3. QED
    BY <2>1, <2>2, Zenon
<1>3. /\ \A k \in Keys : ~Occurs(c, k) => file'[k] = file[k]
      /\ \A k \in Keys : file'[k] = "pending" => file[k] = "pending"
  BY <1>2, ReplayCompletedFacts, Zenon DEF WalTypeOK
<1>4. \A k \in Keys : k \in completed_early' => k \in completed_early \/ Occurs(batch, k)
  BY Zenon DEF IndexCompleted
<1>5. event1' = event1 /\ event2' = event2
  BY DEF lineVars
<1>6. NeverZero'
  <2>1. ASSUME NEW k \in Keys, event1[k] > 0, event2[k] = 0 PROVE file'[k] = "pending"
    <3>1. ~Answered(k)
      BY <2>1, NoLineNoAnswer, Zenon
    <3>2. ~Occurs(c, k)
      BY <1>2, <3>1
    <3>3. file[k] = "pending"
      BY <2>1, Zenon DEF NeverZero
    <3>4. QED
      BY <1>3, <3>2, <3>3, Zenon
  <2>2. QED
    BY <1>5, <2>1 DEF NeverZero
<1>7. EarlyIsAnswered'
  <2>1. ASSUME NEW k \in Keys, file'[k] = "early" \/ k \in completed_early' PROVE Answered(k)
    <3>1. Occurs(batch, k) \/ file[k] = "early" \/ k \in completed_early
      BY <1>2, <1>3, <1>4, <2>1, Zenon
    <3>2. QED
      BY <3>1 DEF EarlyIsAnswered
  <2>2. QED
    BY <1>5, <2>1, Zenon DEF EarlyIsAnswered, Answered
<1>8. QED
  BY <1>3, <1>6, <1>7

\* Every step of a gateway whose WAL opens, and whose recovery compacts if
\* appends may tear a line, keeps the inductive invariant.
LEMMA OwedStep ==
  ASSUME ~OpenMayFail, ~(LinesMayTear /\ RecoveryMayFail), TypeOK, OwedIsKept, [Next]_vars
  PROVE  OwedIsKept'
<1>a. WalTypeOK /\ batch \in Seq(Events) /\ written \in 0..Len(batch) /\ event2 \in Counts
        /\ event1 \in Counts
  BY DEF TypeOK
<1>b. NeverZero /\ EarlyIsAnswered /\ WalFollowsLoop /\ OwedIsIndexed /\ LinesInOrder
  BY DEF OwedIsKept
<1>1. ASSUME NEW h \in Handlers, Handle(h) PROVE OwedIsKept'
  BY <1>1, OwedUnchanged, Zenon DEF Handle, QueueForward, QueueFull, Reject, Report
<1>2. ASSUME Relay PROVE OwedIsKept'
  BY <1>2, OwedUnchanged DEF Relay, RelayRecv, RelaySpawn, ForwardDone
<1>3. ASSUME UNCHANGED vars PROVE OwedIsKept'
  BY <1>3, OwedUnchanged DEF vars
<1>4. ASSUME TakeEvents PROVE OwedIsKept'
  <2>1. pc \in AtBatch /\ UNCHANGED <<walVars, lineVars>>
    BY <1>4 DEF TakeEvents, AtBatch
  <2>2. \/ pc' = "mark_pending"
        \/ pc' = "accepted_lines" /\ \A k \in Keys : ~Occurs(batch', k)
    BY <1>4, <1>b, <2>1 DEF TakeEvents, WalFollowsLoop
  <2>3. QED
    BY <1>b, <2>1, <2>2, Zenon DEF OwedIsKept, NeverZero, EarlyIsAnswered, WalFollowsLoop,
       OwedIsIndexed,
       LinesInOrder, AtBatch, Answered, walVars, lineVars
<1>5. ASSUME RecordPending PROVE OwedIsKept'
  <2>1. /\ pc = "mark_pending" /\ pc' = "accepted_lines" /\ wal = "open" /\ wal' = "open"
        /\ tail = FALSE /\ tail' = FALSE /\ UNCHANGED <<batch, lineVars>>
        /\ IndexPending(batch)
    BY <1>5, <1>b DEF RecordPending, MarkPending, WalFollowsLoop, AtBatch
  <2>2. file' = ReplayPending(file, batch)
    BY <1>5, <2>1 DEF RecordPending, MarkPending, Lands
  <2>3. /\ \A k \in Keys : file[k] = "pending" => file'[k] = "pending"
        /\ \A k \in Keys : file'[k] = "early" => file[k] = "early"
        /\ \A k \in Keys : file'[k] = "pending" => file[k] = "pending" \/ Occurs(batch, k)
        /\ \A k \in Keys : Occurs(batch, k) /\ file[k] # "early" => file'[k] = "pending"
    <3>1. file \in [Keys -> Places]
      BY <1>a DEF WalTypeOK
    <3>2. /\ \A k \in Keys : file[k] = "pending" => ReplayPending(file, batch)[k] = "pending"
          /\ \A k \in Keys : ReplayPending(file, batch)[k] = "early" => file[k] = "early"
          /\ \A k \in Keys : ReplayPending(file, batch)[k] = "pending"
                             => file[k] = "pending" \/ Occurs(batch, k)
          /\ \A k \in Keys : Occurs(batch, k) /\ file[k] # "early"
                             => ReplayPending(file, batch)[k] = "pending"
      BY ONLY <3>1, ReplayPendingFacts, Zenon
    <3>3. QED
      BY ONLY <2>2, <3>2, Zenon
  <2>4. NeverZero' /\ EarlyIsAnswered'
    <3>1. event1' = event1 /\ event2' = event2
      BY <2>1 DEF lineVars
    <3>2. NeverZero'
      BY <1>b, <2>3, <3>1 DEF NeverZero
    <3>3. \A k \in Keys : k \in completed_early' => k \in completed_early
      BY <2>1 DEF IndexPending
    <3>4. EarlyIsAnswered'
      BY <1>b, <2>3, <3>1, <3>3 DEF EarlyIsAnswered, Answered
    <3>5. QED
      BY <3>2, <3>4
  <2>5. OwedIsIndexed'
    <3>1. \A k \in Keys : file[k] = "pending" /\ ~Answered(k) => k \in pending
      BY <1>b, <2>1 DEF OwedIsIndexed, AtBatch
    <3>2. \A k \in Keys : file'[k] = "pending" /\ ~Answered(k) => k \in pending'
      BY <1>b, <2>1, <2>3, <3>1, Zenon DEF EarlyIsAnswered, IndexPending
    <3>3. QED
      BY <2>1, <3>2 DEF OwedIsIndexed, Answered, lineVars
  <2>6. LinesInOrder'
    BY <1>b, <2>1, <2>3 DEF LinesInOrder, EarlyIsAnswered, Answered, Occurs, lineVars
  <2>7. WalFollowsLoop'
    BY <2>1 DEF WalFollowsLoop, AtBatch
  <2>8. QED
    BY <2>4, <2>5, <2>6, <2>7 DEF OwedIsKept
<1>6. ASSUME RecordPendingFails PROVE OwedIsKept'
  <2>1. /\ pc' = "failing" /\ wal' = "failed" /\ Torn(batch, ReplayPending)
        /\ completed_early' = completed_early /\ UNCHANGED lineVars
    BY <1>6 DEF RecordPendingFails, MarkPendingFails
  <2>2. NeverZero' /\ EarlyIsAnswered'
    BY <1>a, <1>b, <2>1, TornPendingKeepsOwed
  <2>3. tail' => LinesMayTear
    BY <2>1 DEF Torn
  <2>4. QED
    BY <2>1, <2>2, <2>3, Zenon DEF OwedIsKept, WalFollowsLoop, OwedIsIndexed, LinesInOrder, AtBatch
<1>7. ASSUME AcceptedLine PROVE OwedIsKept'
  <2>1. /\ pc = "accepted_lines" /\ pc' = pc /\ UNCHANGED <<walVars, batch, event2>>
        /\ written' \in 1..Len(batch) /\ event1' = LineOut(event1, batch[written'])
    BY <1>a, <1>7 DEF AcceptedLine
  <2>2. NeverZero'
    <3>1. \A k \in Keys : k = batch[written'] /\ ~Answered(k) => file[k] = "pending"
      <4>1. Occurs(batch, batch[written'])
        BY <2>1 DEF Occurs
      <4>2. QED
        BY <1>b, <2>1, <4>1, Zenon DEF LinesInOrder
    <3>2. \A k \in Keys : k # batch[written'] => event1'[k] = event1[k]
      BY <1>a, <2>1, LineOutFacts, Zenon
    <3>3. ASSUME NEW k \in Keys, event1'[k] > 0, event2[k] = 0 PROVE file[k] = "pending"
      <4>1. CASE k = batch[written']
        BY <3>1, <3>3, <4>1 DEF Answered
      <4>2. CASE k # batch[written']
        BY <1>b, <3>2, <3>3, <4>2 DEF NeverZero
      <4>3. QED
        BY <4>1, <4>2
    <3>4. file' = file /\ event2' = event2
      BY <2>1 DEF walVars
    <3>5. QED
      BY <3>3, <3>4 DEF NeverZero
  <2>3. EarlyIsAnswered' /\ WalFollowsLoop' /\ OwedIsIndexed' /\ LinesInOrder'
    <3>1. EarlyIsAnswered'
      BY <1>b, <2>1 DEF EarlyIsAnswered, Answered, walVars
    <3>2. WalFollowsLoop'
      BY <1>b, <2>1 DEF WalFollowsLoop, AtBatch, walVars
    <3>3. OwedIsIndexed'
      BY <1>b, <2>1 DEF OwedIsIndexed, AtBatch, Answered, walVars
    <3>4. LinesInOrder'
      BY <1>b, <2>1, Zenon DEF LinesInOrder, Answered, Occurs, walVars
    <3>5. QED
      BY <3>1, <3>2, <3>3, <3>4
  <2>4. QED
    BY <2>2, <2>3 DEF OwedIsKept
<1>8. ASSUME AcceptedDone \/ Stop \/ DrainDeadline \/ DrainNoEvents \/ DrainNoResults
      PROVE  OwedIsKept'
  <2>1. /\ pc \in AtBatch /\ UNCHANGED <<walVars, lineVars>>
        /\ pc' \in {"select", "drain_events", "drain_results", "exit", "failing"}
    BY <1>8 DEF AcceptedDone, Stop, DrainDeadline, DrainNoEvents, DrainNoResults, AtBatch
  <2>2. QED
    BY <1>b, <2>1, Zenon DEF OwedIsKept, NeverZero, EarlyIsAnswered, WalFollowsLoop, OwedIsIndexed,
       LinesInOrder, AtBatch, Answered, walVars, lineVars
<1>9. ASSUME TakeResults PROVE OwedIsKept'
  <2>1. /\ pc \in AtBatch /\ UNCHANGED <<walVars, lineVars>>
        /\ pc' = "result_lines" /\ written' = 0 /\ batch' = Taken(resultQ)
    BY <1>9 DEF TakeResults, AtBatch
  <2>2. batch' \in Seq(Keys)
    BY <1>9, <2>1, TakenFacts DEF TakeResults, TypeOK
  <2>3. \A i \in 1..Len(batch') : batch'[i] \in Keys /\ ~(i <= written')
    BY <2>1, <2>2
  <2>4. QED
    BY <1>b, <2>1, <2>3, Zenon DEF OwedIsKept, NeverZero, EarlyIsAnswered, WalFollowsLoop,
       OwedIsIndexed, LinesInOrder, AtBatch, Answered, walVars, lineVars
<1>10. ASSUME ResultLine PROVE OwedIsKept'
  <2>1. /\ pc = "result_lines" /\ pc' = pc /\ UNCHANGED <<walVars, batch, event1>>
        /\ written' = written + 1 /\ written' \in 1..Len(batch)
        /\ event2' = LineOut(event2, batch[written'])
    BY <1>a, <1>10 DEF ResultLine
  <2>2. PICK e \in Keys : e = batch[written']
    BY <1>b, <2>1 DEF LinesInOrder
  <2>3. /\ event2'[e] > 0
        /\ \A k \in Keys : event2[k] > 0 => event2'[k] > 0
        /\ \A k \in Keys : event2'[k] = 0 => event2[k] = 0
    BY <1>a, <2>1, <2>2, LineOutFacts, Zenon
  <2>4. \A i \in 1..Len(batch) : i <= written' => i <= written \/ i = written'
    BY <1>a, <2>1
  <2>5. LinesInOrder'
    BY <1>b, <2>1, <2>2, <2>3, <2>4, Zenon DEF LinesInOrder, Answered
  <2>6. NeverZero' /\ EarlyIsAnswered' /\ OwedIsIndexed'
    BY <1>b, <2>1, <2>3, Zenon DEF NeverZero, EarlyIsAnswered, OwedIsIndexed, AtBatch, Answered,
       walVars
  <2>7. QED
    BY <1>b, <2>1, <2>5, <2>6 DEF OwedIsKept, WalFollowsLoop, walVars
<1>11. ASSUME RecordCompleted PROVE OwedIsKept'
  <2>1. /\ pc = "result_lines" /\ written = Len(batch) /\ pc' = "compact"
        /\ wal = "open" /\ wal' = "open" /\ tail = FALSE /\ tail' = FALSE
        /\ UNCHANGED lineVars /\ IndexCompleted(batch)
        /\ file' = ReplayCompleted(file, Lands(batch))
    BY <1>11, <1>b, Zenon DEF RecordCompleted, MarkCompleted, WalFollowsLoop, AtBatch
  <2>2. \A k \in Keys : Occurs(batch, k) => Answered(k)
    BY <1>b, <2>1, BatchAnswered
  <2>3. /\ NeverZero' /\ EarlyIsAnswered'
        /\ \A k \in Keys : file'[k] = "pending" => file[k] = "pending"
    BY <1>a, <1>b, <2>1, <2>2, CompletedKeepsOwed, Zenon
  <2>4. \A k \in Keys : file[k] = "pending" /\ ~Answered(k) => k \in pending
    BY <1>b, <2>1 DEF OwedIsIndexed, AtBatch
  <2>5. \A k \in Keys : k \in pending /\ ~Occurs(batch, k) => k \in pending'
    BY <2>1 DEF IndexCompleted
  <2>6. QED
    BY <2>1, <2>2, <2>3, <2>4, <2>5, Zenon DEF OwedIsKept, WalFollowsLoop, OwedIsIndexed,
       LinesInOrder,
       AtBatch, Answered, lineVars
<1>12. ASSUME RecordCompletedFails PROVE OwedIsKept'
  <2>1. /\ pc = "result_lines" /\ written = Len(batch) /\ pc' = "failing"
        /\ wal' = "failed" /\ tail = FALSE /\ UNCHANGED lineVars
        /\ IndexCompleted(batch) /\ Torn(batch, ReplayCompleted)
    BY <1>12, <1>b DEF RecordCompletedFails, MarkCompletedFails, WalFollowsLoop, AtBatch
  <2>2. \A k \in Keys : Occurs(batch, k) => Answered(k)
    BY <1>b, <2>1, BatchAnswered
  <2>3. NeverZero' /\ EarlyIsAnswered'
    BY <1>a, <1>b, <2>1, <2>2, CompletedKeepsOwed, Zenon
  <2>4. tail' => LinesMayTear
    BY <2>1 DEF Torn
  <2>5. QED
    BY <2>1, <2>3, <2>4, Zenon DEF OwedIsKept, WalFollowsLoop, OwedIsIndexed, LinesInOrder, AtBatch
<1>13. ASSUME RecordCompacted PROVE OwedIsKept'
  <2>1. /\ pc = "compact" /\ pc' \in {"drain_events", "select"} /\ UNCHANGED lineVars
        /\ wal = "open" /\ tail = FALSE
        /\ \A k \in Keys : file[k] = "pending" /\ ~Answered(k) => k \in pending
    BY <1>13, <1>b DEF RecordCompacted, ForwardedDone, WalFollowsLoop, OwedIsIndexed, AtBatch
  <2>2. /\ NeverZero' /\ EarlyIsAnswered' /\ wal' = "open" /\ tail' = FALSE
        /\ \A k \in Keys : file'[k] = "pending" /\ ~Answered(k) => k \in pending'
    <3>1. CASE Compact
      BY <1>a, <1>b, <2>1, <3>1, CompactionKeepsOwed, Zenon DEF Compact
    <3>2. CASE UNCHANGED walVars
      BY <1>b, <2>1, <3>2 DEF NeverZero, EarlyIsAnswered, Answered, walVars, lineVars
    <3>3. QED
      BY <1>13, <3>1, <3>2, Zenon DEF RecordCompacted
  <2>3. QED
    BY <2>1, <2>2, Zenon DEF OwedIsKept, WalFollowsLoop, OwedIsIndexed, LinesInOrder, AtBatch,
       Answered,
       lineVars
<1>14. ASSUME RecordCompactFails PROVE OwedIsKept'
  <2>1. /\ pc' = "failing" /\ wal' = "failed" /\ UNCHANGED <<file, tail, lineVars>>
        /\ completed_early' \subseteq completed_early
    BY <1>14 DEF RecordCompactFails, CompactFails, CompactInnerFails
  <2>2. QED
    BY <1>b, <2>1, Zenon DEF OwedIsKept, NeverZero, EarlyIsAnswered, WalFollowsLoop, OwedIsIndexed,
       LinesInOrder, AtBatch, Answered, lineVars
<1>15. ASSUME Exit \/ Crash PROVE OwedIsKept'
  <2>1. /\ pc' = "down" /\ wal' = "closed" /\ completed_early' = {} /\ UNCHANGED lineVars
    BY <1>15, Zenon DEF Exit, Crash, Reset, Close, Forget, DieInMarkPending, DieInMarkCompleted
  <2>2. NeverZero' /\ EarlyIsAnswered'
    <3>1. CASE UNCHANGED file
      BY <1>b, <2>1, <3>1 DEF NeverZero, EarlyIsAnswered, Answered, lineVars
    <3>2. CASE Torn(batch, ReplayPending)
      BY <1>a, <1>b, <2>1, <3>2, TornPendingKeepsOwed
    <3>3. CASE /\ pc = "result_lines" /\ written = Len(batch)
               /\ Torn(batch, ReplayCompleted)
      <4>1. tail = FALSE
        BY <1>b, <3>3 DEF WalFollowsLoop, AtBatch
      <4>2. \A k \in Keys : Occurs(batch, k) => Answered(k)
        BY <1>b, <3>3, BatchAnswered
      <4>3. QED
        BY <1>a, <1>b, <2>1, <3>3, <4>1, <4>2, CompletedKeepsOwed, Zenon
    <3>4. QED
      BY <1>15, <3>1, <3>2, <3>3 DEF Exit, Crash, Close, DieInMarkPending, DieInMarkCompleted
  <2>3. tail' => LinesMayTear
    BY <1>15, <1>b, Zenon DEF Exit, Crash, Close, DieInMarkPending, DieInMarkCompleted, Torn,
       WalFollowsLoop
  <2>4. QED
    BY <2>1, <2>2, <2>3, Zenon DEF OwedIsKept, WalFollowsLoop, OwedIsIndexed, LinesInOrder, AtBatch
<1>16. ASSUME Start PROVE OwedIsKept'
  <2>1. /\ pc' = "recover" /\ wal' = "recovering" /\ UNCHANGED <<file, tail, lineVars>>
        /\ pending' = {} /\ completed_early' = {}
        /\ synthetic' = {k \in Keys : file[k] = "pending"}
    BY <1>16 DEF Start, startVars, Open, lineVars
  <2>2. QED
    BY <1>b, <2>1, Zenon DEF OwedIsKept, NeverZero, EarlyIsAnswered, WalFollowsLoop, OwedIsIndexed,
       LinesInOrder, AtBatch, Answered, lineVars
<1>17. ASSUME RecoverLine PROVE OwedIsKept'
  <2>1. /\ pc = "recover" /\ pc' = pc /\ UNCHANGED <<walVars, event1>>
    BY <1>17 DEF RecoverLine, startVars
  <2>2. PICK r \in synthetic : synthetic' = synthetic \ {r} /\ event2' = LineOut(event2, r)
    BY <1>17 DEF RecoverLine
  <2>3. r \in Keys
    BY <2>2 DEF TypeOK
  <2>4. /\ event2'[r] > 0
        /\ \A k \in Keys : event2[k] > 0 => event2'[k] > 0
        /\ \A k \in Keys : event2'[k] = 0 => event2[k] = 0
    BY <1>a, <2>2, <2>3, LineOutFacts, Zenon
  <2>5. NeverZero' /\ EarlyIsAnswered' /\ OwedIsIndexed'
    <3>1. NeverZero'
      BY <1>b, <2>1, <2>4, Zenon DEF NeverZero, walVars
    <3>2. EarlyIsAnswered'
      BY <1>b, <2>1, <2>4, Zenon DEF EarlyIsAnswered, Answered, walVars
    <3>3. OwedIsIndexed'
      BY <1>b, <2>1, <2>2, <2>4, Zenon DEF OwedIsIndexed, AtBatch, Answered, walVars
    <3>4. QED
      BY <3>1, <3>2, <3>3
  <2>6. QED
    BY <1>b, <2>1, <2>5, Zenon DEF OwedIsKept, WalFollowsLoop, LinesInOrder, AtBatch, walVars
<1>18. ASSUME Recovered PROVE OwedIsKept'
  <2>1. /\ pc = "recover" /\ pc' = "select" /\ UNCHANGED lineVars /\ synthetic = {}
    BY <1>18 DEF Recovered, startVars, lineVars
  <2>2. \A k \in Keys : file[k] = "pending" /\ ~Answered(k) => k \in pending
    BY <1>b, <2>1 DEF OwedIsIndexed
  <2>3. /\ NeverZero' /\ EarlyIsAnswered' /\ tail' = FALSE /\ wal' = "open"
        /\ \A k \in Keys : file'[k] = "pending" /\ ~Answered(k) => k \in pending'
    <3>1. CASE FinishRecovery
      BY <1>a, <1>b, <2>1, <2>2, <3>1, CompactionKeepsOwed, Zenon DEF FinishRecovery
    <3>2. CASE FinishRecoveryFails
      <4>1. tail = FALSE
        BY <1>a, <1>b, <3>2, Zenon DEF FinishRecoveryFails, WalFollowsLoop, WalTypeOK
      <4>2. /\ UNCHANGED <<file, tail, pending>> /\ completed_early' \subseteq completed_early
            /\ wal' = "open"
        BY <3>2 DEF FinishRecoveryFails, CompactInnerFails
      <4>3. QED
        BY <1>b, <2>1, <2>2, <4>1, <4>2, Zenon DEF NeverZero, EarlyIsAnswered, Answered, lineVars
    <3>3. QED
      BY <1>18, <3>1, <3>2, Zenon DEF Recovered
  <2>4. QED
    BY <2>1, <2>3, Zenon DEF Answered, lineVars, OwedIsKept, WalFollowsLoop, OwedIsIndexed,
       LinesInOrder, AtBatch
<1>19. ASSUME ResultsUnrecorded \/ StartWithoutWal PROVE OwedIsKept'
  BY <1>19, <1>b DEF ResultsUnrecorded, StartWithoutWal, WalFollowsLoop, AtBatch
<1>20. QED
  BY <1>1, <1>2, <1>3, <1>4, <1>5, <1>6, <1>7, <1>8, <1>9, <1>10, <1>11, <1>12, <1>13, <1>14,
     <1>15, <1>16, <1>17, <1>18, <1>19 DEF Next, Main, Life

\* accounting.rs:9-25.  In a gateway whose WAL opens, and whose recovery
\* compacts if appends may tear a line, for any number of connections, shares
\* and restarts and any queue sizes: a share with an Event 1 line and no
\* Event 2 line is pending in the WAL file.
THEOREM OwedIsKeptHolds ==
  ASSUME ~OpenMayFail, ~(LinesMayTear /\ RecoveryMayFail)
  PROVE  Spec => []OwedIsKept
<1>1. Init => OwedIsKept
  BY OwedInit
<1>2. TypeOK /\ OwedIsKept /\ [Next]_vars => OwedIsKept'
  BY OwedStep
<1>3. QED
  BY <1>1, <1>2, TypeCorrect, PTL DEF Spec
=============================================================================
