--------------------------- MODULE ShareAccounting ---------------------------
(***************************************************************************)
(* The life of a share in the SV2 gateway: the connection handlers queue   *)
(* it for forward and report it (handler.rs), the relay posts it upstream  *)
(* (upstream.rs), the main loop writes the two accounting lines around the *)
(* WAL records (accounting.rs, main.rs), the process stops, fails, crashes *)
(* and restarts.  The WAL is WalPromise.                                   *)
(*                                                                         *)
(* Event 1 is the ShareAcceptedEvent line, Event 2 the                     *)
(* ShareForwardResultEvent line of a share.                                *)
(***************************************************************************)
EXTENDS WalPromise

CONSTANTS
  Handlers,          \* connection handlers
  KeysOf,            \* the shares a connection can produce
  Idle,              \* a handler or relay that holds no share
  ForwardQueueSize,  \* capacity of share_forward_tx
  EventQueueSize,    \* capacity of share_event_tx
  ResultQueueSize,   \* capacity of share_result_tx
  MaxInFlight,       \* forward_max_in_flight
  DedupWindow,       \* capacity of ShareDedupSet
  OpenMayFail,       \* may ShareWal::open fail?
  MaxAccepts,        \* bound: times one share is accepted
  MaxStops           \* bound: times the process ends

ASSUME AccountingConstants ==
  /\ KeysOf \in [Handlers -> SUBSET Keys]
  /\ Idle \notin Keys
  /\ ForwardQueueSize \in Nat \ {0} /\ EventQueueSize \in Nat \ {0}
  /\ ResultQueueSize \in Nat \ {0} /\ MaxInFlight \in Nat \ {0}
  /\ DedupWindow \in Nat \ {0}
  /\ OpenMayFail \in BOOLEAN
  /\ MaxAccepts \in Nat /\ MaxStops \in Nat

VARIABLES
  pc,         \* where the main task is
  batch,      \* the batch record_accepted or record_forwarded works on
  written,    \* how many lines of the batch are written
  synthetic,  \* startup: synthetic Event 2 lines still to write
  stopping,   \* the shutdown watch channel: drain_on_stop runs
  moved,      \* drain_on_stop: has this pass moved anything?
  handler,    \* per handler: the share it has queued and not yet reported
  dedup,      \* per handler: its ShareDedupSet, oldest first
  forwardQ, eventQ, resultQ,
  relay,      \* the share the relay holds while it waits for a permit
  inFlight,   \* per key: forward tasks not finished
  permits,    \* free permits of the relay's semaphore
  queued,     \* history, per key: times queued for forward
  acked,      \* history, per key: times acknowledged to the miner
  event1,     \* history, per key: Event 1 lines written
  event2,     \* history, per key: Event 2 lines written
  stops,      \* history: times the process has ended
  crashes     \* history: times it ended other than by a complete drain

loopVars == <<pc, batch, written, synthetic, stopping, moved>>
handlerVars == <<handler, dedup>>
relayVars == <<relay, inFlight, permits>>
queueVars == <<forwardQ, eventQ, resultQ>>
minerVars == <<queued, acked>>
lineVars == <<event1, event2>>
endVars == <<stops, crashes>>
vars == <<walVars, loopVars, handlerVars, relayVars, queueVars, minerVars, lineVars, endVars>>

Rejected == NoRecord    \* an accounting event that owes no Event 2

Running == pc \notin {"down", "recover"}

-----------------------------------------------------------------------------
(* Connection handlers: handle_submit_shares.                              *)

\* enqueue_share_event: try_send, the event is dropped when the queue is full.
Enqueue(event) ==
  eventQ' = IF Len(eventQ) < EventQueueSize THEN Append(eventQ, event) ELSE eventQ

\* ShareDedupSet::check_and_insert of a share that is not in the window.
Remembered(window, k) ==
  Append(IF Len(window) >= DedupWindow THEN Tail(window) ELSE window, k)

\* A valid share that is not a replay is queued for forward.
QueueForward(h, k) ==
  /\ Running
  /\ handler[h] = Idle
  /\ ~Occurs(dedup[h], k)
  /\ Len(forwardQ) < ForwardQueueSize
  /\ dedup' = [dedup EXCEPT ![h] = Remembered(@, k)]
  /\ forwardQ' = Append(forwardQ, k)
  /\ handler' = [handler EXCEPT ![h] = k]
  /\ queued' = [queued EXCEPT ![k] = @ + 1]
  /\ UNCHANGED <<walVars, loopVars, relayVars, eventQ, resultQ, acked, lineVars, endVars>>

\* With the forward queue full the miner gets share-dropped-queue-full; the
\* share stays in the dedup window.
QueueFull(h, k) ==
  /\ Running
  /\ handler[h] = Idle
  /\ ~Occurs(dedup[h], k)
  /\ Len(forwardQ) = ForwardQueueSize
  /\ dedup' = [dedup EXCEPT ![h] = Remembered(@, k)]
  /\ Enqueue(Rejected)
  /\ UNCHANGED <<walVars, loopVars, handler, relayVars, forwardQ, resultQ, minerVars,
                 lineVars, endVars>>

\* Every other rejection (rate, job, version bits, ntime, work, replay).
Reject(h) ==
  /\ Running
  /\ handler[h] = Idle
  /\ Enqueue(Rejected)
  /\ UNCHANGED <<walVars, loopVars, handlerVars, relayVars, forwardQ, resultQ, minerVars,
                 lineVars, endVars>>

\* The queued share is reported and acknowledged.
Report(h) ==
  /\ Running
  /\ handler[h] # Idle
  /\ Enqueue(handler[h])
  /\ acked' = [acked EXCEPT ![handler[h]] = @ + 1]
  /\ handler' = [handler EXCEPT ![h] = Idle]
  /\ UNCHANGED <<walVars, loopVars, dedup, relayVars, forwardQ, resultQ, queued, lineVars,
                 endVars>>

Handle(h) ==
  \/ \E k \in KeysOf[h] : queued[k] < MaxAccepts /\ (QueueForward(h, k) \/ QueueFull(h, k))
  \/ Reject(h)
  \/ Report(h)

-----------------------------------------------------------------------------
(* The relay: run_share_relay and its forward tasks.                       *)

\* After a shutdown the relay may take one more share or stop; stopping is
\* never taking another.
RelayRecv ==
  /\ Running
  /\ relay = Idle
  /\ forwardQ # <<>>
  /\ relay' = Head(forwardQ)
  /\ forwardQ' = Tail(forwardQ)
  /\ UNCHANGED <<walVars, loopVars, handlerVars, inFlight, permits, eventQ, resultQ, minerVars,
                 lineVars, endVars>>

RelaySpawn ==
  /\ Running
  /\ relay # Idle
  /\ permits > 0
  /\ permits' = permits - 1
  /\ inFlight' = [inFlight EXCEPT ![relay] = @ + 1]
  /\ relay' = Idle
  /\ UNCHANGED <<walVars, loopVars, handlerVars, queueVars, minerVars, lineVars, endVars>>

\* Variant: a forward task reports and goes on with its retries.
ForwardDoneAgain(k) ==
  /\ Running
  /\ inFlight[k] > 0
  /\ Len(resultQ) < ResultQueueSize
  /\ resultQ' = Append(resultQ, k)
  /\ UNCHANGED <<walVars, loopVars, handlerVars, relayVars, forwardQ, eventQ, minerVars,
                 lineVars, endVars>>

\* forward_share_with_retries has returned, with whatever outcome; the send
\* of the result waits for room and keeps the permit until then.
ForwardDone(k) ==
  /\ Running
  /\ inFlight[k] > 0
  /\ Len(resultQ) < ResultQueueSize
  /\ resultQ' = Append(resultQ, k)
  /\ inFlight' = [inFlight EXCEPT ![k] = @ - 1]
  /\ permits' = permits + 1
  /\ UNCHANGED <<walVars, loopVars, handlerVars, relay, forwardQ, eventQ, minerVars, lineVars,
                 endVars>>

-----------------------------------------------------------------------------
(* The main task: the share_event and share_result arms of the select loop *)
(* (record_accepted, record_forwarded) and drain_on_stop, which runs the   *)
(* same two functions.                                                     *)

others == <<handlerVars, relayVars, forwardQ, minerVars, endVars>>

MayEnd == stops < MaxStops

\* take_queued: what is there, up to WAL_BATCH_MAX.
Taken(q) == SubSeq(q, 1, IF Len(q) < BatchMax THEN Len(q) ELSE BatchMax)
Left(q) == SubSeq(q, Len(Taken(q)) + 1, Len(q))

\* emit_json: one more line of event e.
LineOut(count, e) == [k \in Keys |-> IF k = e THEN count[k] + 1 ELSE count[k]]

TakeEvents ==
  /\ pc \in {"select", "drain_events"}
  /\ eventQ # <<>>
  /\ batch' = Taken(eventQ) /\ eventQ' = Left(eventQ) /\ written' = 0
  /\ moved' = stopping
  /\ pc' = IF wal = "open" /\ \E k \in Keys : Occurs(batch', k)
           THEN "mark_pending" ELSE "accepted_lines"
  /\ UNCHANGED <<walVars, synthetic, stopping, resultQ, lineVars, others>>

RecordPending ==
  /\ pc = "mark_pending"
  /\ MarkPending(batch)
  /\ pc' = "accepted_lines"
  /\ UNCHANGED <<batch, written, synthetic, stopping, moved, eventQ, resultQ, lineVars, others>>

\* A WAL error ends the loop, and the process, without a drain.
RecordPendingFails ==
  /\ pc = "mark_pending" /\ MayEnd
  /\ MarkPendingFails(batch)
  /\ pc' = "failing"
  /\ UNCHANGED <<batch, written, synthetic, stopping, moved, eventQ, resultQ, lineVars, others>>

\* One Event 1 line. The lines of rejected shares, which record_accepted writes
\* before the pending records, are owed no Event 2 and are left out.
AcceptedLine ==
  /\ pc = "accepted_lines"
  /\ written < Len(batch)
  /\ written' = written + 1
  /\ event1' = LineOut(event1, batch[written'])
  /\ UNCHANGED <<walVars, pc, batch, synthetic, stopping, moved, eventQ, resultQ, event2, others>>

AcceptedDone ==
  /\ pc = "accepted_lines"
  /\ written = Len(batch)
  /\ batch' = <<>> /\ written' = 0
  /\ pc' = IF stopping THEN "drain_results" ELSE "select"
  /\ UNCHANGED <<walVars, synthetic, stopping, moved, eventQ, resultQ, lineVars, others>>

TakeResults ==
  /\ pc \in {"select", "drain_results"}
  /\ resultQ # <<>>
  /\ batch' = Taken(resultQ) /\ resultQ' = Left(resultQ) /\ written' = 0
  /\ moved' = stopping
  /\ pc' = "result_lines"
  /\ UNCHANGED <<walVars, synthetic, stopping, eventQ, lineVars, others>>

ResultLine ==
  /\ pc = "result_lines"
  /\ written < Len(batch)
  /\ written' = written + 1
  /\ event2' = LineOut(event2, batch[written'])
  /\ UNCHANGED <<walVars, pc, batch, synthetic, stopping, moved, eventQ, resultQ, event1, others>>

\* The end of record_forwarded; in a drain, of its pass too.
ForwardedDone ==
  /\ pc' = IF stopping THEN "drain_events" ELSE "select"
  /\ moved' = FALSE
  /\ batch' = <<>> /\ written' = 0

ResultsUnrecorded ==
  /\ pc = "result_lines"
  /\ written = Len(batch)
  /\ wal = "off"
  /\ ForwardedDone
  /\ UNCHANGED <<walVars, synthetic, stopping, eventQ, resultQ, lineVars, others>>

RecordCompleted ==
  /\ pc = "result_lines"
  /\ written = Len(batch)
  /\ MarkCompleted(batch)
  /\ pc' = "compact"
  /\ UNCHANGED <<batch, written, synthetic, stopping, moved, eventQ, resultQ, lineVars, others>>

RecordCompletedFails ==
  /\ pc = "result_lines" /\ MayEnd
  /\ written = Len(batch)
  /\ MarkCompletedFails(batch)
  /\ pc' = "failing"
  /\ UNCHANGED <<batch, written, synthetic, stopping, moved, eventQ, resultQ, lineVars, others>>

\* mark_completed compacts when its threshold is reached, which is any time.
RecordCompacted ==
  /\ pc = "compact"
  /\ Compact \/ UNCHANGED walVars
  /\ ForwardedDone
  /\ UNCHANGED <<synthetic, stopping, eventQ, resultQ, lineVars, others>>

RecordCompactFails ==
  /\ pc = "compact" /\ MayEnd
  /\ CompactFails
  /\ pc' = "failing"
  /\ UNCHANGED <<batch, written, synthetic, stopping, moved, eventQ, resultQ, lineVars, others>>

\* A stop signal, or any exit of the loop other than a WAL failure.
Stop ==
  /\ pc = "select" /\ MayEnd
  /\ stopping' = TRUE /\ moved' = FALSE
  /\ pc' = "drain_events"
  /\ UNCHANGED <<walVars, batch, written, synthetic, eventQ, resultQ, lineVars, others>>

DrainDeadline ==
  /\ pc = "drain_events"
  /\ pc' = "failing"
  /\ UNCHANGED <<walVars, batch, written, synthetic, stopping, moved, eventQ, resultQ, lineVars,
                 others>>

DrainNoEvents ==
  /\ pc = "drain_events"
  /\ eventQ = <<>>
  /\ pc' = "drain_results"
  /\ UNCHANGED <<walVars, batch, written, synthetic, stopping, moved, eventQ, resultQ, lineVars,
                 others>>

\* A pass that moved nothing is the last one.
DrainNoResults ==
  /\ pc = "drain_results"
  /\ resultQ = <<>>
  /\ pc' = IF moved THEN "drain_events" ELSE "exit"
  /\ moved' = FALSE
  /\ UNCHANGED <<walVars, batch, written, synthetic, stopping, eventQ, resultQ, lineVars, others>>

-----------------------------------------------------------------------------
(* The process ends and starts.                                            *)

\* Everything that is not the WAL file is gone.
Reset ==
  /\ pc' = "down" /\ batch' = <<>> /\ written' = 0 /\ synthetic' = {}
  /\ stopping' = FALSE /\ moved' = FALSE
  /\ handler' = [h \in Handlers |-> Idle] /\ dedup' = [h \in Handlers |-> <<>>]
  /\ relay' = Idle /\ inFlight' = [k \in Keys |-> 0] /\ permits' = MaxInFlight
  /\ forwardQ' = <<>> /\ eventQ' = <<>> /\ resultQ' = <<>>
  /\ stops' = stops + 1
  /\ UNCHANGED <<minerVars, lineVars>>

Exit ==
  /\ pc \in {"exit", "failing"}
  /\ Reset
  /\ crashes' = IF pc = "exit" THEN crashes ELSE crashes + 1
  /\ Close

\* The process dies, perhaps inside an append of the WAL.
Crash ==
  /\ pc # "down" /\ MayEnd
  /\ Reset
  /\ crashes' = crashes + 1
  /\ \/ Close
     \/ pc = "mark_pending" /\ DieInMarkPending(batch)
     \/ pc = "result_lines" /\ written = Len(batch) /\ DieInMarkCompleted(batch)

startVars == <<batch, written, stopping, moved, eventQ, resultQ, event1, others>>

\* Variant: what recover() returns is dropped.
StartForgetsOrphans ==
  /\ pc = "down"
  /\ Open
  /\ synthetic' = {}
  /\ pc' = "recover"
  /\ UNCHANGED <<startVars, event2>>

\* run_gateway opens the WAL and takes what recover() returns.
Start ==
  /\ pc = "down"
  /\ Open
  /\ synthetic' = orphans'
  /\ pc' = "recover"
  /\ UNCHANGED <<startVars, event2>>

\* open failed: the gateway continues without crash durability.
StartWithoutWal ==
  /\ OpenMayFail
  /\ pc = "down" /\ wal = "closed"
  /\ wal' = "off"
  /\ pc' = "select"
  /\ UNCHANGED <<file, tail, undo, pending, completed_early, orphans, synthetic, startVars,
                 event2>>

RecoverLine ==
  /\ pc = "recover"
  /\ \E k \in synthetic :
       /\ synthetic' = synthetic \ {k}
       /\ event2' = LineOut(event2, k)
  /\ UNCHANGED <<walVars, pc, startVars>>

\* Variant: finish_recovery runs before all synthetic lines are out.
RecoveredEarly ==
  /\ pc = "recover"
  /\ FinishRecovery \/ FinishRecoveryFails
  /\ pc' = "select"
  /\ synthetic' = {}
  /\ UNCHANGED <<startVars, event2>>

Recovered ==
  /\ pc = "recover"
  /\ synthetic = {}
  /\ FinishRecovery \/ FinishRecoveryFails
  /\ pc' = "select"
  /\ UNCHANGED <<synthetic, startVars, event2>>

-----------------------------------------------------------------------------
Init ==
  /\ WalInit
  /\ pc = "down" /\ batch = <<>> /\ written = 0 /\ synthetic = {}
  /\ stopping = FALSE /\ moved = FALSE
  /\ handler = [h \in Handlers |-> Idle] /\ dedup = [h \in Handlers |-> <<>>]
  /\ relay = Idle /\ inFlight = [k \in Keys |-> 0] /\ permits = MaxInFlight
  /\ forwardQ = <<>> /\ eventQ = <<>> /\ resultQ = <<>>
  /\ queued = [k \in Keys |-> 0] /\ acked = [k \in Keys |-> 0]
  /\ event1 = [k \in Keys |-> 0] /\ event2 = [k \in Keys |-> 0]
  /\ stops = 0 /\ crashes = 0

\* The steps of the main task while it runs.
Main ==
  \/ TakeEvents \/ RecordPending \/ RecordPendingFails \/ AcceptedLine \/ AcceptedDone
  \/ TakeResults \/ ResultLine \/ ResultsUnrecorded
  \/ RecordCompleted \/ RecordCompletedFails \/ RecordCompacted \/ RecordCompactFails
  \/ Stop \/ DrainDeadline \/ DrainNoEvents \/ DrainNoResults

Relay == RelayRecv \/ RelaySpawn \/ \E k \in Keys : ForwardDone(k)

Life == Exit \/ Crash \/ Start \/ StartWithoutWal \/ RecoverLine \/ Recovered

Next == (\E h \in Handlers : Handle(h)) \/ Relay \/ Main \/ Life

Spec == Init /\ [][Next]_vars

\* The steps the main task takes on its own once it has a batch or a stop.
Proceed ==
  \/ RecordPending \/ AcceptedLine \/ AcceptedDone
  \/ ResultLine \/ ResultsUnrecorded \/ RecordCompleted \/ RecordCompacted
  \/ Exit \/ Start \/ RecoverLine \/ Recovered

\* Handlers report without an await in between; a forward task ends because
\* its HTTP client has a timeout and its retries are counted, and a waiting
\* send is served in order; select! picks among ready arms at random, so no
\* arm is passed over for ever; the drain passes its deadline; the
\* supervisor restarts the gateway.
Fairness ==
  /\ \A h \in Handlers : WF_vars(Report(h))
  /\ WF_vars(RelaySpawn) /\ WF_vars(~stopping /\ RelayRecv)
  /\ \A k \in Keys : SF_vars(ForwardDone(k))
  /\ WF_vars(Proceed)
  /\ SF_vars(TakeEvents) /\ SF_vars(TakeResults)
  /\ SF_vars(DrainDeadline) /\ WF_vars(DrainNoEvents) /\ WF_vars(DrainNoResults)

FairSpec == Spec /\ Fairness

-----------------------------------------------------------------------------
(* Properties                                                              *)

Counts == [Keys -> Nat]
Events == Keys \cup {Rejected}

\* Every variable holds a value of its kind, and no queue exceeds its bound.
TypeOK ==
  /\ WalTypeOK
  /\ pc \in {"down", "recover", "select", "mark_pending", "accepted_lines", "result_lines",
             "compact", "drain_events", "drain_results", "exit", "failing"}
  /\ batch \in Seq(Events) /\ written \in 0..Len(batch)
  /\ synthetic \in SUBSET Keys
  /\ stopping \in BOOLEAN /\ moved \in BOOLEAN
  /\ handler \in [Handlers -> Keys \cup {Idle}]
  /\ dedup \in [Handlers -> Seq(Keys)]
  /\ forwardQ \in Seq(Keys) /\ Len(forwardQ) <= ForwardQueueSize
  /\ eventQ \in Seq(Events) /\ Len(eventQ) <= EventQueueSize
  /\ resultQ \in Seq(Keys) /\ Len(resultQ) <= ResultQueueSize
  /\ relay \in Keys \cup {Idle}
  /\ inFlight \in Counts /\ permits \in Nat
  /\ queued \in Counts /\ acked \in Counts /\ event1 \in Counts /\ event2 \in Counts
  /\ stops \in Nat /\ crashes \in Nat

\* accounting.rs:9-25, WAL_CONTRACT.md "Delivery semantics".  A share with an
\* Event 1 line and no Event 2 line is pending in the WAL file, so the next
\* start writes its Event 2, whatever the process was doing when it ended.
NeverZero == \A k \in Keys : event1[k] > 0 /\ event2[k] = 0 => file[k] = "pending"

Answered(k) == event2[k] > 0

AtBatch == {"select", "mark_pending", "accepted_lines", "result_lines", "compact",
            "drain_events", "drain_results", "exit"}

\* A completion is on file or remembered only behind an Event 2 line.
EarlyIsAnswered ==
  \A k \in Keys : file[k] = "early" \/ k \in completed_early => Answered(k)

\* The WAL is open, and ends in a whole line, while the main task works.
WalFollowsLoop ==
  /\ tail => LinesMayTear
  /\ pc = "down" <=> wal = "closed"
  /\ pc = "recover" <=> wal = "recovering"
  /\ pc \in AtBatch => wal = "open" /\ tail = FALSE

\* What a compaction would write back, or recovery has still to write, holds
\* every share of the file that has no Event 2 line.
OwedIsIndexed ==
  /\ pc \in AtBatch =>
       \A k \in Keys : file[k] = "pending" /\ ~Answered(k) => k \in pending
  /\ pc = "recover" =>
       /\ pending = {} /\ completed_early = {}
       /\ \A k \in Keys : file[k] = "pending" /\ ~Answered(k) => k \in synthetic

\* An accepted line has its pending record behind it, a completed record its
\* Event 2 line.
LinesInOrder ==
  /\ pc = "accepted_lines" =>
       \A k \in Keys : Occurs(batch, k) /\ ~Answered(k) => file[k] = "pending"
  /\ pc = "result_lines" =>
       \A i \in 1..Len(batch) : batch[i] \in Keys /\ (i <= written => Answered(batch[i]))

\* The inductive strengthening of NeverZero (accounting.rs:9-25), for a
\* gateway whose WAL opens and whose recovery compacts a torn line away.
OwedIsKept ==
  NeverZero /\ EarlyIsAnswered /\ WalFollowsLoop /\ OwedIsIndexed /\ LinesInOrder

\* accounting.rs:15-18, wal.rs:404-409.  A share has one Event 2 line per time
\* it was queued for forward, and one more at most per end of the process
\* that was not a complete drain: a completion that overtakes its pending
\* record brings no line back after a clean stop.
DuplicatesNeedACrash == \A k \in Keys : event2[k] <= queued[k] + crashes

\* wal.rs:265-272, WAL_CONTRACT.md "Recovery".  However recovery fares, a share
\* has at most one Event 2 line more, per end of the process, than times it
\* was queued for forward.
OneDuplicatePerStart == \A k \in Keys : event2[k] <= queued[k] + stops

\* wal.rs:219-222.  Between batches the in-memory index is what a restart
\* would read back from the file, so recovery depends on no lost memory.
IndexIsFile ==
  wal = "open" /\ pc \in {"select", "drain_events", "drain_results", "exit"} =>
    file = Rewritten(pending, completed_early)

\* accounting.rs:15-18, wal.rs:219-222.  The file says what was done: it is the
\* index between batches, and only an end that was no complete drain makes
\* the stream repeat an Event 2 line.
FileIsExact == IndexIsFile /\ DuplicatesNeedACrash

\* accounting.rs:23.  Every Event 1 line is followed by an Event 2 line of its
\* share, through crashes, failed writes and stops.
EventuallyAnswered == \A k \in Keys : event1[k] > 0 ~> event2[k] > 0

\* accounting.rs:133-138.  A stop whose drain completed leaves no share that
\* was acknowledged to its miner without its Event 1 line.
StopKeepsAcknowledged ==
  pc = "down" /\ crashes = 0 => \A k \in Keys : acked[k] <= event1[k]

\* accounting.rs:137-140.  A stop ends the process although the handlers keep
\* sending events while they stop.
StopEnds == stopping ~> pc = "down"

\* accounting.rs:23, 137-140.  What was begun is finished: shares with an
\* Event 1 line get their Event 2 line, and a stop ends the process.
AccountsSettle == EventuallyAnswered /\ StopEnds
=============================================================================
