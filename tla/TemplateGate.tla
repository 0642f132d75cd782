---------------------------- MODULE TemplateGate ----------------------------
(***************************************************************************)
(* The template path of the sv2-gateway: the poller that fetches the       *)
(* template-manager's latest template, the main select loop that proposes  *)
(* it to the pool-verifier and gates it on the verdict (inline mode), the  *)
(* verifier stream that carries proposals out and verdicts in, and the     *)
(* automatic degradation that suspends the gate when the verifier is       *)
(* silent.                                                                 *)
(*                                                                         *)
(* One tick of the model is one period of the degrade check, half of       *)
(* auto_degrade_after_ms.  The loop is assumed to serve a due timer before *)
(* the next tick, unless it is parked inside the proposal's send().await,  *)
(* where no other arm runs.                                                *)
(*                                                                         *)
(* active_prev_hash and latest_job are written by the same function and    *)
(* only there, so one variable `job` stands for both.                      *)
(***************************************************************************)
EXTENDS Integers, Sequences, FiniteSets, FiniteSetsExt

CONSTANTS
    Templates,        \* template ids, naturals in the order the feed first serves them
    NoTemplate,       \* 0: no template
    Prev,             \* the block a template builds on, as a height
    Malformed,        \* templates whose merkle path or coinbase does not decode
    Enforces,         \* the mode is inline (mode.enforces_verdicts)
    AutoDegrade,      \* gateway.auto_degrade
    FailClosed,       \* upstream_failure_policy is fail_closed
    DegradeAfter,     \* auto_degrade_after_ms, in ticks
    MaxTemplateAge,   \* max_template_age_ms, in ticks
    HoldTicks,        \* prevhash_stale_hold_ms, in ticks
    UpstreamStaleMax, \* upstream_stale_max_ms, in ticks
    TemplateMax,      \* capacity of the template channel
    OutboundMax,      \* capacity of the verifier outbound channel
    WireMax,          \* proposals the connection's buffers hold
    VerdictMax,       \* capacity of the verdict broadcast channel
    DedupMax,         \* entries of the dedup cache
    LinkMayDrop,      \* the verifier connection may be lost
    VerifierMaySkip,  \* the verifier may drop a proposal it cannot parse
    StopMayCome,      \* SIGINT or SIGTERM may arrive
    FeedMayReturn,    \* the feed may serve an earlier template of a block again
    MaxMoves,         \* bound: changes of the feed
    MaxSource         \* bound: the template-manager restarts MaxSource - 1 times

ASSUME GateConstants ==
    /\ Templates \subseteq Nat \ {NoTemplate}
    /\ NoTemplate = 0
    /\ Prev \in [Templates -> Nat \ {0}]
    /\ Malformed \subseteq Templates
    /\ {Enforces, AutoDegrade, FailClosed, LinkMayDrop, VerifierMaySkip, StopMayCome,
        FeedMayReturn} \subseteq BOOLEAN
    /\ {DegradeAfter, MaxTemplateAge, HoldTicks, UpstreamStaleMax, TemplateMax,
        OutboundMax, WireMax, VerdictMax, DedupMax, MaxMoves, MaxSource} \subseteq Nat \ {0}

VARIABLES
    latest,      \* what the template-manager's /latest serves
    source,      \* its source_instance_id, new after every restart
    moves,       \* feed changes so far (bounded by MaxMoves)
    templateQ,   \* template_rx
    proposing,   \* the template whose proposal waits for a slot, or NoTemplate
    outbound,    \* verifier_outbound_rx
    connected,   \* the verifier stream is inside run_io_loop
    wire,        \* proposals written to the verifier and not yet answered
    verdictQ,    \* verdict_rx
    seen,        \* TemplateDedupCache.seen, the ids of the current source
    seenSource,  \* TemplateDedupCache.current_source, 0 for None
    pending,     \* pending_templates: id -> [src, age]
    order,       \* pending_order
    job,         \* latest_job, and with it active_prev_hash
    hold,        \* ticks left of stale_hold_deadline, or NoHold
    degraded,    \* "no", or the DegradeTrigger
    ackAge,      \* last_verifier_ack.elapsed()
    clock,       \* StarvationClock: ticks since the anchor, or NoAnchor
    checkDue,    \* degrade_check_ticker is due
    sweepIn,     \* ticks until pending_sweep_ticker is due
    heardAge,    \* last_template_received.elapsed()
    staleIn,     \* ticks until upstream_stale_check_ticker is due
    stopped,     \* the loop was left
    outcome,     \* history: what became of each template
    accepted,    \* history: templates the verifier accepted
    quiet,       \* history: ticks with proposals outstanding and no verdict
    reached,     \* history: the highest block any job was built on
    behind       \* history: ticks since a new block's template was first refused, or -1

feedVars == <<latest, source, moves>>
linkVars == <<outbound, connected, wire>>
seenVars == <<seen, seenSource>>
jobVars == <<job, reached>>
timeVars == <<ackAge, checkDue, sweepIn, heardAge, staleIn>>
vars == <<feedVars, templateQ, proposing, linkVars, verdictQ, seenVars, pending, order, jobVars,
          hold, degraded, clock, timeVars, stopped, outcome, accepted, quiet, behind>>

NoHold == -1
NoAnchor == -1
PendingMax == 2
Triggers == {"HeartbeatStale", "VerdictStarved"}
Outcomes == {"none", "open", "job", "rejected", "unusable"}
Ack == [ack |-> TRUE, id |-> NoTemplate, ok |-> FALSE]
VerdictOf(t, ok) == [ack |-> FALSE, id |-> t, ok |-> ok]
StaleCheckTicks == Max({1, UpstreamStaleMax \div 2})
Older(age, cap) == Min({age + 1, cap + 1})

Without(f, S) == [t \in DOMAIN f \ S |-> f[t]]

\* VecDeque::retain: the j-th member that stays is the one at the j-th place kept.
Keeping(seq, S) ==
    LET kept == {i \in DOMAIN seq : seq[i] \in S}
        Place(j) == CHOOSE i \in kept : Cardinality({k \in kept : k <= i}) = j
    IN  [j \in 1..Cardinality(kept) |-> seq[Place(j)]]

-----------------------------------------------------------------------------
Init ==
    /\ latest \in {t \in Templates : \A u \in Templates : t <= u}
    /\ source = 1
    /\ moves = 0
    /\ templateQ = <<>>
    /\ proposing = NoTemplate
    /\ outbound = <<>>
    /\ connected = FALSE
    /\ wire = <<>>
    /\ verdictQ = <<>>
    /\ seen = {}
    /\ seenSource = 0
    /\ pending = [t \in {} |-> [src |-> 0, age |-> 0]]
    /\ order = <<>>
    /\ job = NoTemplate
    /\ hold = NoHold
    /\ degraded = "no"
    /\ ackAge = 0
    /\ clock = NoAnchor
    /\ checkDue = TRUE
    /\ sweepIn = 0
    /\ heardAge = 0
    /\ staleIn = 0
    /\ stopped = FALSE
    /\ outcome = [t \in Templates |-> "none"]
    /\ accepted = {}
    /\ quiet = 0
    /\ reached = 0
    /\ behind = -1

\* The loop is at its select!, not parked in the proposal's send().await.
AtSelect == ~stopped /\ proposing = NoTemplate

\* mpsc send on a full channel: the arm waits, and the loop with it.
Parked == proposing # NoTemplate /\ Len(outbound) = OutboundMax

\* The broadcast channel overwrites its oldest message for a receiver that lags.
Sent(q, m) == IF Len(q) < VerdictMax THEN Append(q, m) ELSE Append(Tail(q), m)

\* broadcast_job_from_template: a template that does not decode makes no job.
JobAfter(t) == IF t \in Malformed THEN job ELSE t
ReachedAfter(S) == Max({reached} \union {Prev[t] : t \in S \ Malformed})
OutcomeOf(t) == IF t \in Malformed THEN "unusable" ELSE "job"

\* is_prevhash_change
NewBlock(t) == job = NoTemplate \/ Prev[t] # Prev[job]

\* The miners' block changed, so they are no longer behind a refused one.
CaughtUp(newJob) == newJob # job /\ (job = NoTemplate \/ Prev[newJob] # Prev[job])

-----------------------------------------------------------------------------
(* The feed and the poller *)

FeedMoves ==
    /\ ~stopped
    /\ moves < MaxMoves
    /\ \E t \in Templates \ {latest} :
         /\ Prev[t] >= Prev[latest]
         /\ FeedMayReturn \/ t > latest
         /\ latest' = t
    /\ moves' = moves + 1
    /\ UNCHANGED <<source, templateQ, proposing, linkVars, verdictQ, seenVars, pending, order,
                   jobVars, hold, degraded, clock, timeVars, stopped, outcome, accepted, quiet,
                   behind>>

ManagerRestarts ==
    /\ ~stopped
    /\ source < MaxSource
    /\ source' = source + 1
    /\ UNCHANGED <<latest, moves, templateQ, proposing, linkVars, verdictQ, seenVars, pending,
                   order, jobVars, hold, degraded, clock, timeVars, stopped, outcome, accepted,
                   quiet, behind>>

Poll ==
    /\ ~stopped
    /\ Len(templateQ) < TemplateMax
    /\ templateQ' = Append(templateQ, [id |-> latest, src |-> source])
    /\ UNCHANGED <<feedVars, proposing, linkVars, verdictQ, seenVars, pending, order, jobVars, hold,
                   degraded, clock, timeVars, stopped, outcome, accepted, quiet, behind>>

-----------------------------------------------------------------------------
(* The template arm *)

\* The cache is reset when the source changes.
Remembered(m) == IF m.src = seenSource THEN seen ELSE {}

SkipDuplicate ==
    /\ AtSelect
    /\ templateQ # <<>>
    /\ LET m == Head(templateQ) IN
         /\ m.id \in Remembered(m)
         /\ seen' = Remembered(m)
         /\ seenSource' = m.src
    /\ templateQ' = Tail(templateQ)
    /\ heardAge' = 0
    /\ UNCHANGED <<feedVars, proposing, linkVars, verdictQ, pending, order, jobVars, hold, degraded,
                   clock, ackAge, checkDue, sweepIn, staleIn, stopped, outcome, accepted, quiet,
                   behind>>

TakeTemplate ==
    /\ AtSelect
    /\ templateQ # <<>>
    /\ LET m == Head(templateQ)
           kept == IF Cardinality(Remembered(m)) >= DedupMax THEN {} ELSE Remembered(m) IN
         /\ m.id \notin Remembered(m)
         /\ seen' = kept \union {m.id}
         /\ seenSource' = m.src
         /\ proposing' = m.id
         /\ outcome' = [outcome EXCEPT ![m.id] = "open"]
    /\ templateQ' = Tail(templateQ)
    /\ heardAge' = 0
    /\ UNCHANGED <<feedVars, linkVars, verdictQ, pending, order, jobVars, hold, degraded, clock,
                   ackAge, checkDue, sweepIn, staleIn, stopped, accepted, quiet, behind>>

\* send().await returns: the proposal has its slot.
Proposed ==
    /\ proposing # NoTemplate
    /\ Len(outbound) < OutboundMax
    /\ outbound' = Append(outbound, proposing)
    /\ proposing' = NoTemplate

\* TemplateDedupCache::remove
\* Variant: the eviction forgets the cache, as before the H-4 fix.
ReleaseNothing(ids) == seen
Release(ids) == seen \ ids

Enforcing == Enforces /\ degraded = "no"

\* How many ids the FIFO eviction pops before there is room for one more.
Popped ==
    Min({n \in 0..Len(order) :
           \/ n = Len(order)
           \/ Cardinality(DOMAIN pending \ Range(SubSeq(order, 1, n))) < PendingMax})

\* Variant: every enqueue restarts the clock, so eviction churn hides a silence.
OnEnqueueAlways(wasEmpty) == 0

\* Variant: the anchor survives a gap with nothing outstanding.
OnEnqueueKeeps(wasEmpty) == IF clock = NoAnchor THEN 0 ELSE clock

\* StarvationClock::on_enqueue
OnEnqueue(wasEmpty) == IF wasEmpty \/ clock = NoAnchor THEN 0 ELSE clock

Enqueue ==
    /\ Enforcing
    /\ Proposed
    /\ LET evicted == DOMAIN pending \intersect Range(SubSeq(order, 1, Popped))
           left == Without(pending, evicted) IN
         /\ seen' = Release(evicted)
         /\ order' = Append(SubSeq(order, Popped + 1, Len(order)), proposing)
         /\ pending' = [t \in DOMAIN left \union {proposing} |->
                          IF t = proposing THEN [src |-> seenSource, age |-> 0] ELSE left[t]]
    /\ clock' = OnEnqueue(DOMAIN pending = {})
    /\ UNCHANGED <<feedVars, templateQ, connected, wire, verdictQ, seenSource, jobVars, hold,
                   degraded, timeVars, stopped, outcome, accepted, quiet, behind>>

BroadcastNow ==
    /\ ~Enforcing
    /\ Proposed
    /\ job' = JobAfter(proposing)
    /\ reached' = ReachedAfter({proposing})
    /\ outcome' = [outcome EXCEPT ![proposing] = OutcomeOf(proposing)]
    /\ UNCHANGED <<feedVars, templateQ, connected, wire, verdictQ, seenVars, pending, order,
                   hold, degraded, clock, timeVars, stopped, accepted, quiet, behind>>

-----------------------------------------------------------------------------
(* The verdict arm *)

\* Variant: the verdict's content is not looked at.
NextVerdictAny(ok) ==
    /\ AtSelect
    /\ verdictQ # <<>>
    /\ ~Head(verdictQ).ack
    /\ verdictQ' = Tail(verdictQ)
    /\ degraded' = IF degraded = "VerdictStarved" THEN "no" ELSE degraded
    /\ quiet' = 0

NextVerdict(ok) ==
    /\ AtSelect
    /\ verdictQ # <<>>
    /\ ~Head(verdictQ).ack
    /\ Head(verdictQ).ok \in ok
    /\ verdictQ' = Tail(verdictQ)
    /\ degraded' = IF degraded = "VerdictStarved" THEN "no" ELSE degraded
    /\ quiet' = 0

Awaited(t) == Enforces /\ t \in DOMAIN pending

\* Variant: the id stays in pending_order.
SettleKeepsOrder(t) ==
    /\ pending' = Without(pending, {t})
    /\ order' = order
    /\ clock' = IF DOMAIN pending \ {t} = {} THEN NoAnchor ELSE 0

\* The verdict takes its template out of the pending set and restarts the
\* starvation clock (StarvationClock::on_verdict).
Settle(t) ==
    /\ pending' = Without(pending, {t})
    /\ order' = Keeping(order, Templates \ {t})
    /\ clock' = IF DOMAIN pending \ {t} = {} THEN NoAnchor ELSE 0

VerdictAccepts ==
    /\ NextVerdict({TRUE})
    /\ LET t == Head(verdictQ).id IN
         /\ Awaited(t)
         /\ Settle(t)
         /\ job' = JobAfter(t)
         /\ reached' = ReachedAfter({t})
         /\ outcome' = [outcome EXCEPT ![t] = OutcomeOf(t)]
         /\ behind' = IF CaughtUp(JobAfter(t)) THEN -1 ELSE behind
    /\ hold' = NoHold
    /\ UNCHANGED <<feedVars, templateQ, proposing, linkVars, seenVars, timeVars, stopped,
                   accepted>>

\* Variant: every rejection restarts the hold, as before the H-3 fix.
HoldAfterEach(t) == IF NewBlock(t) THEN HoldTicks ELSE hold

\* An armed hold is not restarted by a further rejection.
HoldAfter(t) == IF hold = NoHold /\ NewBlock(t) THEN HoldTicks ELSE hold

VerdictRejects ==
    /\ NextVerdict({FALSE})
    /\ LET t == Head(verdictQ).id IN
         /\ Awaited(t)
         /\ Settle(t)
         /\ hold' = HoldAfter(t)
         /\ outcome' = [outcome EXCEPT ![t] = "rejected"]
         /\ behind' = IF behind = -1 /\ NewBlock(t) THEN 0 ELSE behind
    /\ UNCHANGED <<feedVars, templateQ, proposing, linkVars, seenVars, jobVars, timeVars, stopped,
                   accepted>>

VerdictUnknown ==
    /\ NextVerdict(BOOLEAN)
    /\ ~Awaited(Head(verdictQ).id)
    /\ clock' = IF DOMAIN pending = {} THEN NoAnchor ELSE 0
    /\ UNCHANGED <<feedVars, templateQ, proposing, linkVars, seenVars, pending, order, jobVars,
                   hold, timeVars, stopped, outcome, accepted, behind>>

\* HeartbeatAck: only a heartbeat-triggered degrade ends on it
\* (heartbeat_recovery_allowed), and that clears the pending set.
TakeAck ==
    /\ AtSelect
    /\ verdictQ # <<>>
    /\ Head(verdictQ).ack
    /\ verdictQ' = Tail(verdictQ)
    /\ ackAge' = 0
    /\ IF degraded = "HeartbeatStale"
         THEN /\ degraded' = "no"
              /\ hold' = NoHold
              /\ pending' = Without(pending, DOMAIN pending)
              /\ order' = <<>>
         ELSE UNCHANGED <<degraded, hold, pending, order>>
    /\ UNCHANGED <<feedVars, templateQ, proposing, linkVars, seenVars, jobVars, clock, checkDue,
                   sweepIn, heardAge, staleIn, stopped, outcome, accepted, quiet, behind>>

-----------------------------------------------------------------------------
(* The timer arms *)

\* sweep_stale_pending_templates
Swept == {t \in DOMAIN pending : pending[t].age > MaxTemplateAge}

Sweep ==
    /\ AtSelect
    /\ sweepIn = 0
    /\ pending' = Without(pending, Swept)
    /\ order' = IF Swept = {} THEN order ELSE Keeping(order, DOMAIN pending \ Swept)
    /\ seen' = Release({t \in Swept : pending[t].src = seenSource})
    /\ sweepIn' = MaxTemplateAge
    /\ quiet' = IF DOMAIN pending = Swept THEN 0 ELSE quiet
    /\ UNCHANGED <<feedVars, templateQ, proposing, linkVars, verdictQ, seenSource, jobVars, hold,
                   degraded, clock, ackAge, checkDue, heardAge, staleIn, stopped, outcome,
                   accepted, behind>>

\* Variant: only the heartbeat is watched, as before PB-15 D2.
TriggerHeartbeat == IF ackAge > DegradeAfter THEN "HeartbeatStale" ELSE "no"

\* degrade_trigger_for, with the oldest pending age read through pending_order
\* and StarvationClock::elapsed_while_outstanding.
Trigger ==
    LET starved == \/ /\ order # <<>>
                      /\ Head(order) \in DOMAIN pending
                      /\ pending[Head(order)].age > DegradeAfter
                   \/ order # <<>> /\ clock > DegradeAfter
    IN  IF ackAge > DegradeAfter THEN "HeartbeatStale"
        ELSE IF starved THEN "VerdictStarved" ELSE "no"

DegradeDue == Enforces /\ AutoDegrade /\ degraded = "no" /\ Trigger # "no"

CheckHealthy ==
    /\ AtSelect
    /\ checkDue
    /\ ~DegradeDue
    /\ checkDue' = FALSE
    /\ UNCHANGED <<feedVars, templateQ, proposing, linkVars, verdictQ, seenVars, pending, order,
                   jobVars, hold, degraded, clock, ackAge, sweepIn, heardAge, staleIn, stopped,
                   outcome, accepted, quiet, behind>>

\* The place in pending_order where the flush finds t, at its first occurrence.
FlushAt(t) == Min({i \in DOMAIN order : order[i] = t})

\* Variant: the flush runs from the newest template to the oldest.
FlushedJobReversed ==
    LET made == {t \in DOMAIN pending \intersect Range(order) : t \notin Malformed} IN
    IF made = {} THEN job
    ELSE CHOOSE t \in made : \A u \in made : FlushAt(t) <= FlushAt(u)

\* The job after every pending template was broadcast in pending_order.
FlushedJob ==
    LET made == {t \in DOMAIN pending \intersect Range(order) : t \notin Malformed} IN
    IF made = {} THEN job
    ELSE CHOOSE t \in made : \A u \in made : FlushAt(u) <= FlushAt(t)

Degrade ==
    /\ AtSelect
    /\ checkDue
    /\ DegradeDue
    /\ checkDue' = FALSE
    /\ degraded' = Trigger
    /\ job' = FlushedJob
    /\ reached' = ReachedAfter(DOMAIN pending \intersect Range(order))
    /\ outcome' = [t \in Templates |->
                     IF t \in DOMAIN pending \intersect Range(order)
                       THEN OutcomeOf(t) ELSE outcome[t]]
    /\ pending' = Without(pending, DOMAIN pending)
    /\ order' = <<>>
    /\ hold' = NoHold
    /\ clock' = NoAnchor
    /\ quiet' = 0
    /\ behind' = -1
    /\ UNCHANGED <<feedVars, templateQ, proposing, linkVars, verdictQ, seenVars, ackAge,
                   sweepIn, heardAge, staleIn, stopped, accepted>>

\* The stale hold runs out: the gateway shuts down, unless it is degraded.
HoldExpires ==
    /\ AtSelect
    /\ hold = 0
    /\ hold' = NoHold
    /\ stopped' = (degraded = "no")
    /\ UNCHANGED <<feedVars, templateQ, proposing, linkVars, verdictQ, seenVars, pending, order,
                   jobVars, degraded, clock, timeVars, outcome, accepted, quiet, behind>>

UpstreamStale == heardAge > UpstreamStaleMax

\* upstream_stale_check_ticker; under fail_open the check only logs.
UpstreamCheck ==
    /\ FailClosed
    /\ AtSelect
    /\ staleIn = 0
    /\ staleIn' = StaleCheckTicks
    /\ stopped' = UpstreamStale
    /\ UNCHANGED <<feedVars, templateQ, proposing, linkVars, verdictQ, seenVars, pending, order,
                   jobVars, hold, degraded, clock, ackAge, checkDue, sweepIn, heardAge, outcome,
                   accepted, quiet, behind>>

StopSignal ==
    /\ StopMayCome
    /\ AtSelect
    /\ stopped' = TRUE
    /\ UNCHANGED <<feedVars, templateQ, proposing, linkVars, verdictQ, seenVars, pending, order,
                   jobVars, hold, degraded, clock, timeVars, outcome, accepted, quiet, behind>>

\* Half of auto_degrade_after_ms passes.
Tick ==
    /\ \/ Parked
       \/ AtSelect /\ ~checkDue /\ sweepIn > 0 /\ hold # 0 /\ (FailClosed => staleIn > 0)
    /\ pending' = [t \in DOMAIN pending |->
                     [pending[t] EXCEPT !.age = Older(@, Max({MaxTemplateAge, DegradeAfter}))]]
    /\ ackAge' = Older(ackAge, DegradeAfter)
    /\ clock' = IF clock = NoAnchor THEN clock ELSE Older(clock, DegradeAfter)
    /\ hold' = IF hold > 0 THEN hold - 1 ELSE hold
    /\ checkDue' = TRUE
    /\ sweepIn' = Max({0, sweepIn - 1})
    /\ heardAge' = IF FailClosed THEN Older(heardAge, UpstreamStaleMax) ELSE heardAge
    /\ staleIn' = IF FailClosed THEN Max({0, staleIn - 1}) ELSE staleIn
    /\ quiet' = IF DOMAIN pending = {} THEN 0 ELSE Older(quiet, DegradeAfter)
    /\ behind' = IF behind = -1 THEN behind ELSE Older(behind, HoldTicks)
    /\ UNCHANGED <<feedVars, templateQ, proposing, linkVars, verdictQ, seenVars, order, jobVars,
                   degraded, stopped, outcome, accepted>>

-----------------------------------------------------------------------------
(* The verifier stream, and the verifier as the gateway sees it *)

gateVars == <<feedVars, templateQ, proposing, seenVars, pending, order, jobVars, hold, degraded,
              clock, timeVars, stopped, outcome, quiet, behind>>

Connect ==
    /\ ~stopped
    /\ ~connected
    /\ connected' = TRUE
    /\ UNCHANGED <<gateVars, outbound, wire, verdictQ, accepted>>

\* EOF, a read error, or silence past the read deadline.  What the verifier had
\* not answered is lost; what waits in the outbound channel is not.
Disconnect ==
    /\ ~stopped
    /\ LinkMayDrop
    /\ connected
    /\ connected' = FALSE
    /\ wire' = <<>>
    /\ UNCHANGED <<gateVars, outbound, verdictQ, accepted>>

WriteProposal ==
    /\ ~stopped
    /\ connected
    /\ Len(wire) < WireMax
    /\ outbound # <<>>
    /\ outbound' = Tail(outbound)
    /\ wire' = Append(wire, Head(outbound))
    /\ UNCHANGED <<gateVars, connected, verdictQ, accepted>>

\* The message was taken out of the channel before the write that fails.
WriteFails ==
    /\ ~stopped
    /\ LinkMayDrop
    /\ connected
    /\ outbound # <<>>
    /\ outbound' = Tail(outbound)
    /\ connected' = FALSE
    /\ wire' = <<>>
    /\ UNCHANGED <<gateVars, verdictQ, accepted>>

\* A connection is served one line at a time, so verdicts come in proposal order.
Answer ==
    /\ ~stopped
    /\ wire # <<>>
    /\ \E ok \in BOOLEAN :
         /\ verdictQ' = Sent(verdictQ, VerdictOf(Head(wire), ok))
         /\ accepted' = IF ok THEN accepted \union {Head(wire)} ELSE accepted
    /\ wire' = Tail(wire)
    /\ UNCHANGED <<gateVars, outbound, connected>>

SkipProposal ==
    /\ ~stopped
    /\ VerifierMaySkip
    /\ wire # <<>>
    /\ wire' = Tail(wire)
    /\ UNCHANGED <<gateVars, outbound, connected, verdictQ, accepted>>

\* An ack that follows an unread ack changes nothing, so one is enough.
HeartbeatAck ==
    /\ ~stopped
    /\ connected
    /\ Ack \notin Range(verdictQ)
    /\ verdictQ' = Sent(verdictQ, Ack)
    /\ UNCHANGED <<gateVars, linkVars, accepted>>

-----------------------------------------------------------------------------
Next ==
    \/ FeedMoves \/ ManagerRestarts \/ Poll
    \/ SkipDuplicate \/ TakeTemplate \/ Enqueue \/ BroadcastNow
    \/ VerdictAccepts \/ VerdictRejects \/ VerdictUnknown \/ TakeAck
    \/ Sweep \/ CheckHealthy \/ Degrade \/ HoldExpires \/ UpstreamCheck \/ StopSignal
    \/ Tick
    \/ Connect \/ Disconnect \/ WriteProposal \/ WriteFails
    \/ Answer \/ SkipProposal \/ HeartbeatAck

Spec == Init /\ [][Next]_vars

\* Fairness of the gateway's own tasks: tokio's select! picks among the ready
\* arms at random, the timers run, the poller polls.  Nothing is assumed of the
\* verifier or of the link to it, nor of the feed.
Fairness ==
    /\ WF_vars(Poll)
    /\ WF_vars(SkipDuplicate \/ TakeTemplate)
    /\ WF_vars(Enqueue \/ BroadcastNow)
    /\ WF_vars(VerdictAccepts \/ VerdictRejects \/ VerdictUnknown \/ TakeAck)
    /\ WF_vars(Sweep)
    /\ WF_vars(CheckHealthy \/ Degrade)
    /\ WF_vars(HoldExpires)
    /\ WF_vars(UpstreamCheck)
    /\ WF_vars(Tick)

FairSpec == Spec /\ Fairness

-----------------------------------------------------------------------------
(* Properties *)

\* Every variable of the gateway's template path holds a value of its kind; the
\* channels, the dedup cache and the pending set respect their capacities.
TypeOK ==
    /\ latest \in Templates
    /\ source \in 1..MaxSource
    /\ moves \in 0..MaxMoves
    /\ \A i \in DOMAIN templateQ : templateQ[i] \in [id : Templates, src : 1..MaxSource]
    /\ Len(templateQ) <= TemplateMax
    /\ proposing \in Templates \union {NoTemplate}
    /\ Range(outbound) \union Range(wire) \union Range(order) \subseteq Templates
    /\ Len(outbound) <= OutboundMax
    /\ connected \in BOOLEAN
    /\ ~connected => wire = <<>>
    /\ \A i \in DOMAIN verdictQ :
         verdictQ[i] = Ack \/ \E t \in Templates, ok \in BOOLEAN : verdictQ[i] = VerdictOf(t, ok)
    /\ Len(verdictQ) <= VerdictMax
    /\ seen \subseteq Templates
    /\ Cardinality(seen) <= DedupMax
    /\ seenSource \in 0..MaxSource
    /\ DOMAIN pending \subseteq Templates
    /\ Cardinality(DOMAIN pending) <= PendingMax
    /\ \A t \in DOMAIN pending : pending[t].src \in 1..MaxSource /\ pending[t].age \in Nat
    /\ job \in Templates \union {NoTemplate}
    /\ hold \in {NoHold} \union 0..HoldTicks
    /\ degraded \in {"no"} \union Triggers
    /\ ackAge \in 0..DegradeAfter + 1
    /\ clock \in {NoAnchor} \union 0..DegradeAfter + 1
    /\ checkDue \in BOOLEAN
    /\ sweepIn \in 0..MaxTemplateAge
    /\ heardAge \in 0..UpstreamStaleMax + 1
    /\ staleIn \in 0..StaleCheckTicks
    /\ stopped \in BOOLEAN
    /\ outcome \in [Templates -> Outcomes]
    /\ accepted \subseteq Templates
    /\ quiet \in 0..DegradeAfter + 1
    /\ reached \in {0} \union Range(Prev)
    /\ behind \in -1..HoldTicks + 1

\* A template the dedup cache suppresses is settled or still in hand: eviction,
\* sweep, flush and recovery all keep the cache coupled to the pending set, so
\* an unchanged feed is never locked out by a proposal that got no verdict
\* (the H-4 and PB-15 D1 fixes).
DedupParity ==
    \A t \in seen : outcome[t] = "open" => t \in DOMAIN pending \/ t = proposing

\* While enforcement is suspended nothing is pending and no hold runs: so the
\* clearing of the pending set on heartbeat recovery, which does not release
\* the dedup cache, discards no template, and a hold cannot stop a degraded
\* gateway.
DegradedIsClear ==
    degraded # "no" => DOMAIN pending = {} /\ order = <<>> /\ hold = NoHold

\* Verdict silence with proposals outstanding is noticed at the first check past
\* the threshold, whatever the evictions and re-proposals did to the ages of
\* the pending templates meanwhile (the starvation clock of PB-17).
SilenceIsSeen ==
    Enforces /\ AutoDegrade /\ AtSelect /\ ~checkDue => quiet <= DegradeAfter

\* The gateway declares the verdict service starved only if proposals were
\* outstanding without any verdict, or one template without its own, for longer
\* than the threshold: a gap with nothing outstanding never counts.
HonestAlarm ==
    [][degraded = "no" /\ degraded' = "VerdictStarved"
         => \/ quiet > DegradeAfter
            \/ \E t \in DOMAIN pending : pending[t].age > DegradeAfter]_vars

\* While enforcing, miners only get jobs of templates the verifier accepted.
EnforcedJobs ==
    [][Enforces /\ job' # job /\ degraded = "no" /\ degraded' = "no" => job' \in accepted]_vars

\* Once a template of a new block was refused, miners leave the old block, are
\* served unenforced, or are let go within the stale hold: neither further
\* rejections nor later verdicts prolong it (the H-3 fix).
StaleIsBounded == AtSelect => behind <= HoldTicks

\* The feed never goes back to an earlier block, so neither do the miners: a
\* degraded gateway is still serving them correctly.
NeverBackwards == job # NoTemplate => Prev[job] = reached

\* pending_order lists the pending templates, each once, oldest first.
OrderTracksPending ==
    /\ Range(order) = DOMAIN pending
    /\ Len(order) = Cardinality(DOMAIN pending)
    /\ \A i, j \in DOMAIN order : i < j => pending[order[i]].age >= pending[order[j]].age

\* pending and pending_order are two views of one set of proposals, which is
\* empty whenever enforcement is suspended (TemplatePipeline's fields).
PendingCoherent == OrderTracksPending /\ DegradedIsClear

\* fail_closed: a loop that serves its timers stops within one check of the
\* upstream going stale, whatever else keeps it busy (the PB-16 fix).
UpstreamStaleSeen ==
    FailClosed /\ AtSelect /\ staleIn = StaleCheckTicks
        => heardAge <= UpstreamStaleMax

\* Miners are kept working: a template the feed stays on becomes a job or is
\* refused, or the gateway stops, even if the verifier never answers again.
Served ==
    \A t \in Templates \ Malformed :
        latest = t ~> (latest # t \/ stopped \/ outcome[t] \in {"job", "rejected"})
=============================================================================
