---------------------------- MODULE PendingProofs ----------------------------
(* The gate's bookkeeping proved for every set of templates, every capacity,  *)
(* threshold and interval, and any number of restarts: the dedup cache never  *)
(* locks out a template that is still open, silence of the verifier is seen   *)
(* in time, and only silence is taken for it.                                 *)
EXTENDS TemplateGateProofs

----------------------------------------------------------------------------
\* A step that leaves the check's due time alone and does not lengthen the silence.
LEMMA QuietFrame ==
  ASSUME QuietIsSeen, UNCHANGED checkDue, quiet' \in {quiet, 0}
  PROVE  QuietIsSeen'
<1>1. 0 <= DegradeAfter
  BY GateConstants
<1>2. quiet' = quiet \/ quiet' = 0
  OBVIOUS
<1> QED  BY <1>1, <1>2, Zenon DEF QuietIsSeen

\* The steps that touch neither the pending set nor what is coupled to it.
LEMMA GateFrame ==
  ASSUME GateTypeOK, Coupled, ClockCoupled,
         UNCHANGED <<order, pending, outcome, seen, seenSource, quiet, clock, checkDue, proposing>>
  PROVE  GateTypeOK' /\ Coupled' /\ ClockCoupled'
BY DEF GateTypeOK, Coupled, ClockCoupled, ClockIsSilence, QuietIsSeen,
         DedupParity

LEMMA GateFacts == DegradeAfter \in Nat \ {0} /\ NoTemplate \notin Templates
BY GateConstants

\* A duplicate leaves everything in place.
LEMMA StepSkip ==
  ASSUME GateInv, SkipDuplicate
  PROVE  GateTypeOK' /\ Coupled' /\ ClockCoupled'
<1> USE DEF GateInv
<1>1. /\ seen' = seen /\ seenSource' = seenSource
      /\ UNCHANGED <<order, pending, outcome, quiet, clock, checkDue, proposing>>
  BY Zenon DEF SkipDuplicate, Remembered
<1> QED  BY <1>1, GateFrame

\* A new template is remembered and in hand.
LEMMA StepTake ==
  ASSUME GateInv, TakeTemplate
  PROVE  GateTypeOK' /\ Coupled' /\ ClockCoupled'
<1> USE DEF GateInv
<1>1. PICK m : m = Head(templateQ)
  OBVIOUS
<1>2. /\ seen' \subseteq Remembered(m) \union {m.id} /\ seenSource' = m.src
      /\ proposing = NoTemplate /\ proposing' = m.id
      /\ outcome' = [outcome EXCEPT ![m.id] = "open"]
      /\ UNCHANGED <<order, pending, quiet, clock, checkDue>>
  BY <1>1 DEF TakeTemplate, AtSelect
<1>3. m.id \in Templates /\ m.src \in Nat
  <2>1. m \in [id : Templates, src : Nat]
    BY <1>1, SeqFacts, Zenon DEF TakeTemplate, FlowTypeOK
  <2> QED  BY <2>1
<1>4. GateTypeOK'
  <2>1. seen' \subseteq Templates
    BY <1>2, <1>3 DEF GateTypeOK, Remembered
  <2>2. outcome' \in [Templates -> Outcomes]
    BY <1>2, <1>3 DEF GateTypeOK, Outcomes
  <2> QED  BY <1>2, <1>3, <2>1, <2>2 DEF GateTypeOK
<1>5. Coupled'
  <2>1. \A t \in seen' :
          t = proposing' \/ (t \in seen /\ t # m.id /\ seenSource' = seenSource)
    BY <1>2 DEF Remembered
  <2>2. \A t \in seen' \intersect DOMAIN pending' :
           pending'[t].src = seenSource' \/ t = proposing'
    BY GateFacts, <1>2, <2>1 DEF Coupled, GateTypeOK
  <2>3. DedupParity'
    BY <1>2, <1>3, <2>1, GateFacts DEF Coupled, DedupParity, GateTypeOK
  <2> QED  BY <1>2, <2>2, <2>3 DEF Coupled
<1>6. ClockCoupled'
  BY <1>2, QuietFrame DEF ClockCoupled, ClockIsSilence
<1> QED  BY <1>4, <1>5, <1>6

\* An eviction releases what it evicts.
LEMMA StepEnqueue ==
  ASSUME GateInv, Enqueue
  PROVE  GateTypeOK' /\ Coupled' /\ ClockCoupled'
<1> USE DEF GateInv
<1>1. PICK evicted \in SUBSET DOMAIN pending :
        /\ seen' = seen \ evicted
        /\ DOMAIN pending' = (DOMAIN pending \ evicted) \union {proposing}
        /\ pending'[proposing] = [src |-> seenSource, age |-> 0]
        /\ \A t \in DOMAIN pending \ evicted : t # proposing => pending'[t] = pending[t]
        /\ order' \in Seq(Templates)
        /\ DOMAIN pending' \subseteq Range(order')
  BY EnqueueDoes, Zenon
<1>2. /\ Enforces /\ proposing \in Templates /\ proposing' = NoTemplate
      /\ clock' = OnEnqueue(DOMAIN pending = {})
      /\ UNCHANGED <<outcome, seenSource, quiet, checkDue>>
  BY DEF Enqueue, Enforcing, Proposed, FlowTypeOK, timeVars
<1>3. GateTypeOK'
  <2>1. clock' \in Nat \union {NoAnchor}
    BY <1>2 DEF GateTypeOK, OnEnqueue
  <2>2. \A t \in DOMAIN pending' : pending'[t] \in [src : Nat, age : Nat]
    BY <1>1 DEF GateTypeOK
  <2> QED  BY <1>1, <1>2, <2>1, <2>2 DEF GateTypeOK
<1>4. Coupled'
  <2>1. \A t \in seen' \intersect DOMAIN pending' : pending'[t].src = seenSource'
    BY <1>1, <1>2 DEF Coupled
  <2>2. DedupParity'
    BY <1>1, <1>2 DEF Coupled, DedupParity
  <2> QED  BY <1>1, <1>2, <2>1, <2>2 DEF Coupled
<1>5. ClockCoupled'
  <2>1. DOMAIN pending' # {} /\ clock' = quiet'
    <3>1. CASE DOMAIN pending = {}
      BY <1>1, <1>2, <3>1 DEF ClockCoupled, ClockIsSilence, OnEnqueue
    <3>2. CASE DOMAIN pending # {}
      <4>1. clock = quiet /\ clock # NoAnchor
        BY <3>2 DEF ClockCoupled, ClockIsSilence, GateTypeOK, NoAnchor
      <4> QED  BY <1>1, <1>2, <3>2, <4>1 DEF OnEnqueue
    <3> QED  BY <3>1, <3>2
  <2>2. QuietIsSeen'
    BY <1>2, QuietFrame DEF ClockCoupled
  <2> QED  BY <2>1, <2>2 DEF ClockCoupled, ClockIsSilence
<1> QED  BY <1>3, <1>4, <1>5

\* Without enforcement the template is settled at once.
LEMMA StepBroadcast ==
  ASSUME GateInv, BroadcastNow
  PROVE  GateTypeOK' /\ Coupled' /\ ClockCoupled'
<1> USE DEF GateInv
<1>1. /\ proposing \in Templates /\ proposing' = NoTemplate /\ DOMAIN pending = {}
      /\ outcome' = [outcome EXCEPT ![proposing] = OutcomeOf(proposing)]
      /\ UNCHANGED <<order, pending, seen, seenSource, quiet, clock, checkDue>>
  BY DEF BroadcastNow, Enforcing, Proposed, FlowTypeOK, DegradedIsClear, Coupled, timeVars,
       seenVars
<1>2. OutcomeOf(proposing) \in {"unusable", "job"}
  BY DEF OutcomeOf
<1>3. GateTypeOK' /\ ClockCoupled'
  BY <1>1, <1>2, QuietFrame DEF GateTypeOK, ClockCoupled, ClockIsSilence, Outcomes
<1>4. Coupled'
  BY <1>1, <1>2 DEF Coupled, DedupParity, GateTypeOK
<1> QED  BY <1>3, <1>4

\* A verdict settles its template.
LEMMA StepVerdict ==
  ASSUME GateInv, VerdictAccepts \/ VerdictRejects
  PROVE  GateTypeOK' /\ Coupled' /\ ClockCoupled'
<1> USE DEF GateInv
<1>1. PICK t : t = Head(verdictQ).id
  OBVIOUS
<1>2. /\ AtSelect /\ Enforces /\ t \in DOMAIN pending /\ Settle(t) /\ quiet' = 0
      /\ outcome' \in {[outcome EXCEPT ![t] = OutcomeOf(t)], [outcome EXCEPT ![t] = "rejected"]}
      /\ UNCHANGED <<proposing, seen, seenSource, checkDue>>
  BY <1>1, Zenon DEF VerdictAccepts, VerdictRejects, NextVerdict, Awaited, seenVars,
       timeVars
<1>3. t \in Templates
  BY <1>2 DEF GateTypeOK
<1>4. /\ order' \in Seq(Templates) /\ DOMAIN pending' = DOMAIN pending \ {t}
      /\ DOMAIN pending' \subseteq Range(order')
      /\ \A u \in DOMAIN pending' : pending'[u] = pending[u]
      /\ clock' = IF DOMAIN pending' = {} THEN NoAnchor ELSE 0
  BY <1>2, <1>3, SettleDoes, Zenon
<1>5. OutcomeOf(t) \in {"unusable", "job"}
  BY DEF OutcomeOf
<1>6. outcome' \in [Templates -> Outcomes] /\ outcome'[t] # "open"
      /\ \A u \in Templates : u # t => outcome'[u] = outcome[u]
  BY <1>2, <1>3, <1>5 DEF GateTypeOK, Outcomes
<1>7. GateTypeOK' /\ ClockCoupled'
  BY <1>2, <1>4, <1>6, QuietFrame DEF GateTypeOK, ClockCoupled, ClockIsSilence
<1>8. Coupled'
  <2>1. \A u \in seen' : outcome'[u] = "open" => u \in DOMAIN pending' \/ u = proposing'
    <3> TAKE u \in seen'
    <3> HAVE outcome'[u] = "open"
    <3>1. u # t
      BY <1>6
    <3>2. outcome[u] = "open"
      <4>1. u \in Templates
        BY <1>2 DEF GateTypeOK
      <4> QED  BY <1>6, <3>1, <4>1
    <3> QED  BY <1>2, <1>4, <3>1, <3>2 DEF Coupled, DedupParity
  <2> QED  BY <1>2, <1>4, <2>1 DEF Coupled, DedupParity
<1> QED  BY <1>7, <1>8

\* A verdict nobody waits for still ends the silence.
LEMMA StepUnknown ==
  ASSUME GateInv, VerdictUnknown
  PROVE  GateTypeOK' /\ Coupled' /\ ClockCoupled'
<1> USE DEF GateInv
<1>1. /\ quiet' = 0 /\ clock' = IF DOMAIN pending = {} THEN NoAnchor ELSE 0
      /\ UNCHANGED <<order, pending, outcome, seen, seenSource, checkDue, proposing>>
  BY Zenon DEF VerdictUnknown, NextVerdict, seenVars, timeVars
<1>2. GateTypeOK' /\ Coupled'
  BY <1>1 DEF GateTypeOK, Coupled, DedupParity
<1>3. ClockCoupled'
  BY <1>1, QuietFrame DEF ClockCoupled, ClockIsSilence
<1> QED  BY <1>2, <1>3

\* Recovery by heartbeat finds nothing pending.
LEMMA StepAck ==
  ASSUME GateInv, TakeAck
  PROVE  GateTypeOK' /\ Coupled' /\ ClockCoupled'
<1> USE DEF GateInv
<1>1. UNCHANGED <<outcome, seen, seenSource, quiet, clock, checkDue, proposing>>
  BY DEF TakeAck, seenVars
<1>2. CASE degraded # "HeartbeatStale"
  BY <1>1, <1>2, GateFrame DEF TakeAck
<1>3. CASE degraded = "HeartbeatStale"
  <2>1. DOMAIN pending = {} /\ order = <<>> /\ order' = <<>>
        /\ pending' = Without(pending, DOMAIN pending)
    BY <1>3 DEF TakeAck, DegradedIsClear
  <2>2. DOMAIN pending' = {}
    BY <2>1, WithoutIs, Zenon
  <2> QED  BY <1>1, <2>1, <2>2, QuietFrame
           DEF GateTypeOK, Coupled, ClockCoupled, ClockIsSilence, DedupParity
<1> QED  BY <1>2, <1>3

\* The sweep releases every open template it drops.
LEMMA StepSweep ==
  ASSUME GateInv, Sweep
  PROVE  GateTypeOK' /\ Coupled' /\ ClockCoupled'
<1> USE DEF GateInv
<1>1. /\ proposing = NoTemplate
      /\ seen' = seen \ {t \in Swept : pending[t].src = seenSource}
      /\ quiet' = IF DOMAIN pending = Swept THEN 0 ELSE quiet
      /\ UNCHANGED <<outcome, seenSource, clock, checkDue, proposing>>
  BY DEF Sweep, Release, AtSelect
<1>2. /\ order' \in Seq(Templates)
      /\ Swept \subseteq DOMAIN pending
      /\ DOMAIN pending' = DOMAIN pending \ Swept
      /\ DOMAIN pending' \subseteq Range(order')
      /\ \A u \in DOMAIN pending' : pending'[u] = pending[u]
      /\ Swept = {} => order' = order
      /\ Swept # {} /\ DOMAIN pending' = {} => order' = <<>>
  BY SweepDoes
<1>3. GateTypeOK'
  BY <1>1, <1>2 DEF GateTypeOK
<1>4. Coupled'
  <2>1. ASSUME NEW t \in seen', t \in Swept PROVE FALSE
    <3>1. pending[t].src = seenSource \/ t = proposing
      BY <1>1, <1>2, <2>1 DEF Coupled
    <3>2. t \in Templates
      BY <1>2, <2>1 DEF GateTypeOK
    <3> QED  BY GateFacts, <1>1, <2>1, <3>1, <3>2
  <2>2. \A t \in seen' : t \in seen /\ t \notin Swept
    BY <1>1, <2>1
  <2>3. DedupParity'
    BY <1>1, <1>2, <2>2 DEF Coupled, DedupParity
  <2> QED  BY <1>1, <1>2, <2>2, <2>3 DEF Coupled
<1>5. ClockCoupled'
  <2>1. QuietIsSeen'
    BY <1>1, QuietFrame DEF ClockCoupled
  <2>2. CASE DOMAIN pending' = {}
    <3>1. quiet' = 0
      BY <1>1, <1>2, <2>2, Zenon
    <3>2. order' = <<>> \/ clock' = NoAnchor
      BY <1>1, <1>2, <2>2 DEF ClockCoupled, ClockIsSilence
    <3> QED  BY <2>1, <2>2, <3>1, <3>2 DEF ClockCoupled, ClockIsSilence
  <2>3. CASE DOMAIN pending' # {}
    BY <1>1, <1>2, <2>1, <2>3 DEF ClockCoupled, ClockIsSilence
  <2> QED  BY <2>2, <2>3
<1> QED  BY <1>3, <1>4, <1>5

\* A check that finds the verifier healthy found no long silence.
LEMMA StepCheck ==
  ASSUME GateInv, CheckHealthy
  PROVE  GateTypeOK' /\ Coupled' /\ ClockCoupled'
<1> USE DEF GateInv
<1>1. /\ ~DegradeDue
      /\ UNCHANGED <<order, pending, outcome, seen, seenSource, quiet, clock, proposing>>
  BY DEF CheckHealthy, seenVars
<1>2. Enforces /\ AutoDegrade => quiet <= DegradeAfter
  <2> SUFFICES ASSUME Enforces, AutoDegrade, DOMAIN pending # {} PROVE quiet <= DegradeAfter
    <3>1. DOMAIN pending = {} => quiet = 0
      BY DEF ClockCoupled, ClockIsSilence
    <3>2. 0 <= DegradeAfter
      BY GateFacts
    <3> QED  BY <3>1, <3>2, Zenon
  <2>1. degraded = "no" /\ order # <<>> /\ clock = quiet
    BY DEF DegradedIsClear, ClockCoupled, ClockIsSilence, Coupled, Range
  <2>2. Trigger = "no"
    BY <1>1, <2>1 DEF DegradeDue
  <2>3. ~(clock > DegradeAfter)
    BY <2>1, <2>2 DEF Trigger
  <2> QED  BY GateFacts, <2>1, <2>3 DEF GateTypeOK
<1>3. GateTypeOK' /\ Coupled' /\ ClockIsSilence'
  BY <1>1 DEF GateTypeOK, Coupled, ClockCoupled, ClockIsSilence, DedupParity
<1>4. QuietIsSeen'
  BY <1>1, <1>2, Zenon DEF QuietIsSeen
<1> QED  BY <1>3, <1>4 DEF ClockCoupled

\* The flush settles everything pending.
LEMMA StepDegrade ==
  ASSUME GateInv, Degrade
  PROVE  GateTypeOK' /\ Coupled' /\ ClockCoupled'
<1> USE DEF GateInv
<1>1. /\ proposing = NoTemplate
      /\ outcome' = [t \in Templates |-> IF t \in DOMAIN pending \intersect Range(order)
                                           THEN OutcomeOf(t) ELSE outcome[t]]
      /\ pending' = Without(pending, DOMAIN pending) /\ order' = <<>>
      /\ clock' = NoAnchor /\ quiet' = 0
      /\ UNCHANGED <<seen, seenSource, proposing>>
  BY Zenon DEF Degrade, AtSelect, seenVars
<1>2. DOMAIN pending' = {}
  BY <1>1, WithoutIs, Zenon
<1>3. \A t : OutcomeOf(t) \in {"unusable", "job"}
  BY DEF OutcomeOf
<1>4. \A t \in DOMAIN pending : t \in Templates /\ outcome'[t] # "open"
  BY <1>1, <1>3, Zenon DEF Coupled, GateTypeOK
<1>5. outcome' \in [Templates -> Outcomes]
  BY <1>1, <1>3 DEF GateTypeOK, Outcomes
<1>6. GateTypeOK' /\ ClockIsSilence'
  BY <1>1, <1>2, <1>5 DEF GateTypeOK, ClockIsSilence
<1>8. QuietIsSeen'
  BY GateFacts, <1>1 DEF QuietIsSeen
<1>7. DedupParity'
  <2>1. \A t \in Templates : t \in DOMAIN pending \/ outcome'[t] = outcome[t]
    BY <1>1
  <2> QED  BY <1>1, <1>4, <2>1, Zenon DEF Coupled, DedupParity, GateTypeOK
<1> QED  BY <1>1, <1>2, <1>6, <1>7, <1>8 DEF Coupled, ClockCoupled

\* Silence and clock grow together.
LEMMA StepTick ==
  ASSUME GateInv, Tick
  PROVE  GateTypeOK' /\ Coupled' /\ ClockCoupled'
<1> USE DEF GateInv
<1>1. /\ DOMAIN pending' = DOMAIN pending
      /\ \A t \in DOMAIN pending :
           pending'[t] \in [src : Nat, age : Nat] /\ pending'[t].src = pending[t].src
  BY TickDoes
<1>2. /\ clock' = IF clock = NoAnchor THEN clock ELSE Older(clock, DegradeAfter)
      /\ quiet' = IF DOMAIN pending = {} THEN 0 ELSE Older(quiet, DegradeAfter)
      /\ UNCHANGED <<order, outcome, seen, seenSource, proposing>>
  BY DEF Tick, seenVars
<1>3. checkDue' = TRUE
  BY Zenon DEF Tick
<1>4. \A n \in Nat : Older(n, DegradeAfter) \in Nat
  BY GateFacts, OlderIs
<1>5. GateTypeOK'
  BY <1>1, <1>2, <1>4 DEF GateTypeOK
<1>6. Coupled'
  BY <1>1, <1>2 DEF Coupled, DedupParity
<1>7. ClockCoupled'
  BY <1>1, <1>2, <1>3 DEF ClockCoupled, ClockIsSilence, QuietIsSeen, GateTypeOK, NoAnchor
<1> QED  BY <1>5, <1>6, <1>7

\* Every step keeps pending set, dedup cache and starvation clock coupled.
LEMMA StepGate ==
  ASSUME GateInv, [Next]_vars
  PROVE  GateTypeOK' /\ Coupled' /\ ClockCoupled'
<1> USE DEF GateInv
<1>1. CASE UNCHANGED vars \/ FeedMoves \/ ManagerRestarts \/ Poll \/ HoldExpires \/ UpstreamCheck
           \/ StopSignal
  <2>1. UNCHANGED <<order, pending, outcome, seen, seenSource, quiet, clock, checkDue, proposing>>
    BY <1>1, Zenon DEF vars, seenVars, timeVars, FeedMoves, ManagerRestarts, Poll, HoldExpires,
         UpstreamCheck, StopSignal
  <2> QED  BY <2>1, GateFrame
<1>2. CASE Connect \/ Disconnect \/ WriteProposal \/ WriteFails \/ Answer \/ SkipProposal
           \/ HeartbeatAck
  <2>1. UNCHANGED <<order, pending, outcome, seen, seenSource, quiet, clock, checkDue, proposing>>
    BY <1>2, Zenon DEF Connect, Disconnect, WriteProposal, WriteFails, Answer, SkipProposal,
         HeartbeatAck, gateVars, seenVars, timeVars
  <2> QED  BY <2>1, GateFrame
<1>3. CASE SkipDuplicate
  BY <1>3, StepSkip
<1>4. CASE TakeTemplate
  BY <1>4, StepTake
<1>5. CASE Enqueue
  BY <1>5, StepEnqueue
<1>6. CASE BroadcastNow
  BY <1>6, StepBroadcast
<1>7. CASE VerdictAccepts \/ VerdictRejects
  BY <1>7, StepVerdict
<1>8. CASE VerdictUnknown
  BY <1>8, StepUnknown
<1>9. CASE TakeAck
  BY <1>9, StepAck
<1>10. CASE Sweep
  BY <1>10, StepSweep
<1>11. CASE CheckHealthy
  BY <1>11, StepCheck
<1>12. CASE Degrade
  BY <1>12, StepDegrade
<1>13. CASE Tick
  BY <1>13, StepTick
<1> QED
  BY <1>1, <1>2, <1>3, <1>4, <1>5, <1>6, <1>7, <1>8, <1>9, <1>10, <1>11, <1>12, <1>13, Zenon
     DEF Next

LEMMA GateInvHolds == Spec => []GateInv
<1>1. Init => GateInv
  BY InitGate, InitFlow, InitClear DEF GateInv
<1>2. AcceptancesAreTrue /\ GateInv /\ [Next]_vars => GateInv'
  BY StepGate, StepFlow, StepClear DEF GateInv
<1> QED  BY <1>1, <1>2, FlowHolds, PTL DEF Spec

(* TemplateDedupCache and the H-4 and PB-15 D1 fixes.  For any number of       *)
(* templates, restarts and evictions, and any capacity of the cache: a         *)
(* template the cache suppresses is settled or in hand.                        *)
THEOREM DedupParityHolds == Spec => []DedupParity
BY GateInvHolds, PTL DEF GateInv, Coupled

(* StarvationClock, PB-17.  With auto_degrade, whatever the evictions and      *)
(* re-proposals do, verdict silence is noticed at the first check past the     *)
(* threshold.                                                                  *)
THEOREM SilenceIsSeenHolds == Spec => []SilenceIsSeen
<1>1. GateInv => SilenceIsSeen
  BY Zenon DEF GateInv, ClockCoupled, QuietIsSeen, SilenceIsSeen
<1> QED  BY <1>1, GateInvHolds, PTL

\* A starvation alarm is a silence as long as the threshold, at the moment it is raised.
LEMMA StepHonest ==
  ASSUME GateInv, Next, degraded = "no", degraded' = "VerdictStarved"
  PROVE  quiet > DegradeAfter \/ \E t \in DOMAIN pending : pending[t].age > DegradeAfter
<1>1. Degrade
  BY Zenon DEF Next, FeedMoves, ManagerRestarts, Poll, SkipDuplicate, TakeTemplate, Enqueue,
       BroadcastNow, VerdictAccepts, VerdictRejects, VerdictUnknown, NextVerdict, TakeAck, Sweep,
       CheckHealthy, HoldExpires, UpstreamCheck, StopSignal, Tick, Connect, Disconnect,
       WriteProposal, WriteFails, Answer, SkipProposal, HeartbeatAck, gateVars
<1>2. Trigger = "VerdictStarved"
  BY <1>1 DEF Degrade
<1>3. \/ \E t \in DOMAIN pending : pending[t].age > DegradeAfter
      \/ order # <<>> /\ clock > DegradeAfter
  BY <1>2 DEF Trigger
<1>4. DegradeAfter \in Nat /\ clock \in Nat \union {NoAnchor}
  BY GateConstants DEF GateInv, GateTypeOK
<1>5. order # <<>> /\ clock > DegradeAfter => quiet > DegradeAfter
  <2>1. DOMAIN pending # {} => clock = quiet
    BY DEF GateInv, ClockCoupled, ClockIsSilence
  <2>2. DOMAIN pending = {} => order = <<>> \/ clock = NoAnchor
    BY DEF GateInv, ClockCoupled, ClockIsSilence
  <2>3. ~(NoAnchor > DegradeAfter)
    BY <1>4 DEF NoAnchor
  <2> QED  BY <2>1, <2>2, <2>3, Zenon
<1> QED  BY <1>3, <1>5

(* StarvationClock::elapsed_while_outstanding.  The gateway declares the       *)
(* verdict service starved only after real silence, for every threshold,       *)
(* sweep interval and number of restarts.                                      *)
THEOREM HonestAlarmHolds == Spec => HonestAlarm
<1>1. GateInv /\ [Next]_vars =>
        [degraded = "no" /\ degraded' = "VerdictStarved"
           => \/ quiet > DegradeAfter
              \/ \E t \in DOMAIN pending : pending[t].age > DegradeAfter]_vars
  BY StepHonest
<1> QED  BY <1>1, GateInvHolds, PTL DEF Spec, HonestAlarm
=============================================================================
