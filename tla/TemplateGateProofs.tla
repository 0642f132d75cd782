------------------------- MODULE TemplateGateProofs -------------------------
(* The inline gate proved for every set of templates, every queue capacity,   *)
(* every threshold and any number of restarts of the template-manager.        *)
EXTENDS TemplateGate, FiniteSetTheorems, WellFoundedInduction, NaturalsInduction, TLAPS

Message == [ack : BOOLEAN, id : Templates \union {NoTemplate}, ok : BOOLEAN]

(* What travels is what was put in: templates to the verifier, its answers    *)
(* back.                                                                      *)
FlowTypeOK ==
  /\ latest \in Templates
  /\ templateQ \in Seq([id : Templates, src : Nat])
  /\ source \in Nat
  /\ proposing \in Templates \union {NoTemplate}
  /\ outbound \in Seq(Templates)
  /\ wire \in Seq(Templates)
  /\ verdictQ \in Seq(Message)

\* An acceptance on its way to the loop is one the verifier gave, although the
\* channel drops messages and the template may be long gone from the pending set.
AcceptancesAreTrue ==
  \A i \in 1 .. Len(verdictQ) : verdictQ[i].ok = TRUE => verdictQ[i].id \in accepted

----------------------------------------------------------------------------
(* Suspended enforcement *)

\* The gateway starts with enforcement in force and nothing pending.
LEMMA InitClear == Init => DegradedIsClear
BY DEF Init, DegradedIsClear

\* Without leaves no more than there was.
LEMMA WithoutDomain ==
  ASSUME NEW f, NEW S
  PROVE  DOMAIN Without(f, S) = DOMAIN f \ S
BY DEF Without

\* Every step keeps what suspended enforcement means for the pending table.
LEMMA StepClear == DegradedIsClear /\ [Next]_vars => DegradedIsClear'
<1> SUFFICES ASSUME DegradedIsClear, [Next]_vars  PROVE DegradedIsClear'
  OBVIOUS
<1>1. CASE UNCHANGED <<pending, order, hold, degraded>>
  BY <1>1 DEF DegradedIsClear
<1>2. CASE UNCHANGED vars \/ FeedMoves \/ ManagerRestarts \/ Poll \/ SkipDuplicate \/ TakeTemplate
           \/ BroadcastNow \/ CheckHealthy \/ UpstreamCheck \/ StopSignal
  BY <1>1, <1>2, Zenon DEF vars, FeedMoves, ManagerRestarts, Poll, SkipDuplicate, TakeTemplate,
       BroadcastNow, CheckHealthy, UpstreamCheck, StopSignal
<1>3. CASE Connect \/ Disconnect \/ WriteProposal \/ WriteFails \/ Answer \/ SkipProposal
           \/ HeartbeatAck
  BY <1>1, <1>3, Zenon DEF Connect, Disconnect, WriteProposal, WriteFails, Answer, SkipProposal,
       HeartbeatAck, gateVars
<1>4. CASE Enqueue
  BY <1>4 DEF Enqueue, Enforcing, DegradedIsClear
<1>5. CASE VerdictAccepts \/ VerdictRejects
  <2>1. degraded = "no" /\ degraded' = degraded
    BY <1>5, Zenon DEF VerdictAccepts, VerdictRejects, Awaited, NextVerdict, DegradedIsClear
  <2> QED  BY <2>1 DEF DegradedIsClear
<1>6. CASE VerdictUnknown
  BY <1>6 DEF VerdictUnknown, NextVerdict, DegradedIsClear
<1>7. CASE TakeAck
  BY <1>7 DEF TakeAck, DegradedIsClear
<1>8. CASE Sweep
  <2>1. degraded' = degraded /\ hold' = hold
    BY <1>8 DEF Sweep
  <2>2. DOMAIN pending = {} => DOMAIN pending' = {} /\ Swept = {}
    BY <1>8, WithoutDomain, Zenon DEF Sweep, Swept
  <2>3. Swept = {} => order' = order
    BY <1>8 DEF Sweep
  <2> QED  BY <2>1, <2>2, <2>3 DEF DegradedIsClear
<1>9. CASE Degrade
  <2>1. pending' = Without(pending, DOMAIN pending) /\ order' = <<>> /\ hold' = NoHold
    BY <1>9 DEF Degrade
  <2>2. DOMAIN Without(pending, DOMAIN pending) = {}
    BY WithoutDomain, Zenon
  <2> QED  BY <2>1, <2>2 DEF DegradedIsClear
<1>10. CASE HoldExpires
  BY <1>10 DEF HoldExpires, DegradedIsClear
<1>11. CASE Tick
  <2>1. degraded' = degraded /\ order' = order /\ DOMAIN pending' = DOMAIN pending
    BY <1>11 DEF Tick
  <2>2. hold = NoHold => hold' = NoHold
    BY <1>11 DEF Tick, NoHold
  <2> QED  BY <2>1, <2>2 DEF DegradedIsClear
<1> QED
  BY <1>2, <1>3, <1>4, <1>5, <1>6, <1>7, <1>8, <1>9, <1>10, <1>11 DEF Next

(* sv2-gateway main.rs, the degrade and recovery arms.  Recovery by heartbeat *)
(* clears the pending set and forgets nothing, and no hold stops a degraded   *)
(* gateway.                                                                   *)
THEOREM DegradedIsClearHolds == Spec => []DegradedIsClear
BY InitClear, StepClear, PTL DEF Spec

----------------------------------------------------------------------------
(* What travels *)

\* What Append, Head and Tail do to the members of a queue.
LEMMA SeqFacts ==
  ASSUME NEW S, NEW q \in Seq(S)
  PROVE  /\ \A x \in S : Append(q, x) \in Seq(S)
         /\ q # <<>> => Head(q) \in S /\ Tail(q) \in Seq(S)
OBVIOUS

\* Nothing travels between the gateway and the verifier at the start.
LEMMA InitFlow == Init => FlowTypeOK /\ AcceptancesAreTrue
<1> SUFFICES ASSUME Init  PROVE FlowTypeOK /\ AcceptancesAreTrue
  OBVIOUS
<1>1. /\ latest \in Templates /\ source = 1 /\ templateQ = <<>> /\ proposing = NoTemplate
      /\ outbound = <<>> /\ wire = <<>> /\ verdictQ = <<>>
  BY DEF Init
<1> QED  BY <1>1 DEF FlowTypeOK, AcceptancesAreTrue

\* The verdict channel of the stream: a lagging receiver loses the oldest message.
LEMMA SentFlow ==
  ASSUME verdictQ \in Seq(Message), AcceptancesAreTrue, NEW m \in Message,
         verdictQ' = Sent(verdictQ, m),
         accepted \subseteq accepted', m.ok = TRUE => m.id \in accepted'
  PROVE  verdictQ' \in Seq(Message) /\ AcceptancesAreTrue'
<1>0. VerdictMax \in Nat \ {0}
  BY GateConstants
<1>1. PICK q \in Seq(Message) :
        /\ verdictQ' = Append(q, m)
        /\ \A i \in 1 .. Len(q) : q[i].ok = TRUE => q[i].id \in accepted
  <2>1. CASE Len(verdictQ) < VerdictMax
    BY <2>1 DEF Sent, AcceptancesAreTrue
  <2>2. CASE ~(Len(verdictQ) < VerdictMax)
    <3>1. verdictQ # <<>> /\ verdictQ' = Append(Tail(verdictQ), m)
      BY <1>0, <2>2 DEF Sent
    <3>2. /\ Tail(verdictQ) \in Seq(Message)
          /\ \A i \in 1 .. Len(Tail(verdictQ)) :
               i + 1 \in 1 .. Len(verdictQ) /\ Tail(verdictQ)[i] = verdictQ[i + 1]
      BY <3>1
    <3> QED  BY <3>1, <3>2, Zenon DEF AcceptancesAreTrue
  <2> QED  BY <2>1, <2>2, Zenon
<1>2. verdictQ' \in Seq(Message) /\ Len(verdictQ') = Len(q) + 1
  BY <1>1
<1>3. ASSUME NEW i \in 1 .. Len(verdictQ'), verdictQ'[i].ok = TRUE
      PROVE  verdictQ'[i].id \in accepted'
  <2>1. CASE i = Len(q) + 1
    <3>1. verdictQ'[i] = m
      BY <1>1, <2>1
    <3> QED  BY <1>3, <3>1
  <2>2. CASE i # Len(q) + 1
    <3>1. i \in 1 .. Len(q) /\ verdictQ'[i] = q[i]
      BY <1>1, <1>2, <2>2
    <3> QED  BY <1>1, <1>3, <3>1
  <2> QED  BY <2>1, <2>2
<1> QED  BY <1>2, <1>3, Zenon DEF AcceptancesAreTrue

\* The loop takes the oldest message.
LEMMA TakenFlow ==
  ASSUME verdictQ \in Seq(Message), AcceptancesAreTrue, verdictQ # <<>>,
         verdictQ' = Tail(verdictQ), accepted' = accepted
  PROVE  verdictQ' \in Seq(Message) /\ AcceptancesAreTrue'
<1>1. /\ verdictQ' \in Seq(Message)
      /\ \A i \in 1 .. Len(verdictQ') :
           i + 1 \in 1 .. Len(verdictQ) /\ verdictQ'[i] = verdictQ[i + 1]
  OBVIOUS
<1> QED  BY <1>1 DEF AcceptancesAreTrue

\* Every step keeps the queues well formed and their acceptances true.
LEMMA StepFlow ==
  ASSUME FlowTypeOK, AcceptancesAreTrue, [Next]_vars
  PROVE  FlowTypeOK' /\ AcceptancesAreTrue'
<1> USE DEF FlowTypeOK
<1>0. UNCHANGED <<verdictQ, accepted>> => AcceptancesAreTrue'
  BY DEF AcceptancesAreTrue
<1>1. CASE UNCHANGED <<latest, source, templateQ, proposing, outbound, wire, verdictQ, accepted>>
  BY <1>0, <1>1
<1>2. CASE UNCHANGED vars \/ CheckHealthy \/ Sweep \/ Degrade \/ HoldExpires \/ UpstreamCheck
           \/ StopSignal \/ Tick
  BY <1>1, <1>2, Zenon DEF vars, feedVars, linkVars, CheckHealthy, Sweep, Degrade, HoldExpires,
       UpstreamCheck, StopSignal, Tick
<1>3. CASE Connect
  BY <1>1, <1>3 DEF Connect, gateVars, feedVars
<1>4. CASE FeedMoves \/ ManagerRestarts
  BY <1>0, <1>4 DEF FeedMoves, ManagerRestarts, linkVars
<1>5. CASE Poll
  <2>1. /\ templateQ' \in Seq([id : Templates, src : Nat])
        /\ UNCHANGED <<latest, source, proposing, outbound, wire, verdictQ, accepted>>
    BY <1>5 DEF Poll, feedVars, linkVars
  <2> QED  BY <1>0, <2>1
<1>6. CASE SkipDuplicate \/ TakeTemplate
  <2>1. /\ templateQ # <<>> /\ templateQ' = Tail(templateQ)
        /\ proposing' \in {proposing, Head(templateQ).id}
        /\ UNCHANGED <<latest, source, outbound, wire, verdictQ, accepted>>
    <3>1. CASE SkipDuplicate
      BY <3>1, Zenon DEF SkipDuplicate, feedVars, linkVars
    <3>2. CASE TakeTemplate
      BY <3>2, Zenon DEF TakeTemplate, feedVars, linkVars
    <3> QED  BY <1>6, <3>1, <3>2
  <2>2. Head(templateQ).id \in Templates /\ templateQ' \in Seq([id : Templates, src : Nat])
    <3>1. /\ Head(templateQ) \in [id : Templates, src : Nat]
          /\ Tail(templateQ) \in Seq([id : Templates, src : Nat])
      BY <2>1, SeqFacts, Zenon
    <3> QED  BY <2>1, <3>1
  <2> QED  BY <1>0, <2>1, <2>2
<1>7. CASE Enqueue \/ BroadcastNow
  <2>1. /\ proposing # NoTemplate /\ outbound' = Append(outbound, proposing)
        /\ proposing' = NoTemplate
        /\ UNCHANGED <<latest, source, templateQ, wire, verdictQ, accepted>>
    BY <1>7, Zenon DEF Enqueue, BroadcastNow, Proposed, feedVars
  <2>2. outbound' \in Seq(Templates)
    BY <2>1
  <2> QED  BY <1>0, <2>1, <2>2
<1>8. CASE VerdictAccepts \/ VerdictRejects \/ VerdictUnknown \/ TakeAck
  <2>1. /\ verdictQ # <<>> /\ verdictQ' = Tail(verdictQ)
        /\ UNCHANGED <<latest, source, templateQ, proposing, outbound, wire, accepted>>
    <3>1. CASE VerdictAccepts \/ VerdictRejects
      BY <3>1, Zenon DEF VerdictAccepts, VerdictRejects, NextVerdict, feedVars, linkVars
    <3>2. CASE VerdictUnknown \/ TakeAck
      BY <3>2, Zenon DEF VerdictUnknown, TakeAck, NextVerdict, feedVars, linkVars
    <3> QED  BY <1>8, <3>1, <3>2
  <2> QED  BY <2>1, TakenFlow
<1>9. CASE Disconnect \/ WriteProposal \/ WriteFails \/ SkipProposal
  <2>1. UNCHANGED <<latest, source, templateQ, proposing, verdictQ, accepted>>
    BY <1>9 DEF Disconnect, WriteProposal, WriteFails, SkipProposal, gateVars, feedVars
  <2>2. outbound' \in Seq(Templates) /\ wire' \in Seq(Templates)
    <3>1. /\ \A q \in Seq(Templates) :
               q # <<>> => Head(q) \in Templates /\ Tail(q) \in Seq(Templates)
          /\ \A q \in Seq(Templates), t \in Templates : Append(q, t) \in Seq(Templates)
          /\ <<>> \in Seq(Templates)
      BY SeqFacts
    <3> QED
      BY <1>9, <3>1, Zenon DEF Disconnect, WriteProposal, WriteFails, SkipProposal
  <2> QED  BY <1>0, <2>1, <2>2
<1>10. CASE Answer
  <2>1. PICK ok \in BOOLEAN :
          /\ verdictQ' = Sent(verdictQ, VerdictOf(Head(wire), ok))
          /\ accepted' = IF ok THEN accepted \union {Head(wire)} ELSE accepted
    BY <1>10 DEF Answer
  <2>2. /\ wire # <<>> /\ wire' = Tail(wire)
        /\ UNCHANGED <<latest, source, templateQ, proposing, outbound>>
    BY <1>10 DEF Answer, gateVars, feedVars
  <2>3. Head(wire) \in Templates /\ wire' \in Seq(Templates)
    BY <2>2
  <2>4. VerdictOf(Head(wire), ok) \in Message
    BY <2>3 DEF VerdictOf, Message
  <2>5. /\ accepted \subseteq accepted'
        /\ VerdictOf(Head(wire), ok).ok = TRUE => VerdictOf(Head(wire), ok).id \in accepted'
    BY <2>1 DEF VerdictOf
  <2> QED  BY <2>1, <2>2, <2>3, <2>4, <2>5, SentFlow, Zenon
<1>11. CASE HeartbeatAck
  <2>1. /\ verdictQ' = Sent(verdictQ, Ack) /\ accepted' = accepted
        /\ UNCHANGED <<latest, source, templateQ, proposing, outbound, wire>>
    BY <1>11 DEF HeartbeatAck, gateVars, feedVars, linkVars
  <2>2. Ack \in Message /\ Ack.ok # TRUE
    BY DEF Ack, Message
  <2> QED  BY <2>1, <2>2, SentFlow, Zenon
<1> QED
  BY <1>2, <1>3, <1>4, <1>5, <1>6, <1>7, <1>8, <1>9, <1>10, <1>11, Zenon DEF Next

\* What travels on the link is well formed, and an acceptance on it is one the verifier gave.
THEOREM FlowHolds == Spec => [](FlowTypeOK /\ AcceptancesAreTrue)
BY InitFlow, StepFlow, PTL DEF Spec

----------------------------------------------------------------------------
\* While the gate enforces, only an acceptance taken from the channel makes a job.
LEMMA StepEnforced ==
  ASSUME FlowTypeOK, AcceptancesAreTrue, Next,
         Enforces, job' # job, degraded = "no", degraded' = "no"
  PROVE  job' \in accepted
<1>1. ~BroadcastNow /\ ~Degrade
  BY DEF BroadcastNow, Enforcing, Degrade, DegradeDue
<1>2. VerdictAccepts
  BY <1>1, Zenon DEF Next, FeedMoves, ManagerRestarts, Poll, SkipDuplicate, TakeTemplate, Enqueue,
       VerdictRejects, VerdictUnknown, TakeAck, Sweep, CheckHealthy, HoldExpires, UpstreamCheck,
       StopSignal, Tick, Connect, Disconnect, WriteProposal, WriteFails, Answer, SkipProposal,
       HeartbeatAck, gateVars, jobVars
<1>3. verdictQ # <<>> /\ Head(verdictQ).ok = TRUE /\ job' = JobAfter(Head(verdictQ).id)
  BY <1>2, Zenon DEF VerdictAccepts, NextVerdict
<1>4. job' = Head(verdictQ).id
  BY <1>3 DEF JobAfter
<1>5. 1 \in 1 .. Len(verdictQ) /\ Head(verdictQ) = verdictQ[1]
  BY <1>3 DEF FlowTypeOK
<1> QED  BY <1>3, <1>4, <1>5 DEF AcceptancesAreTrue

(* sv2-gateway main.rs, the verdict arm.  For every capacity, loss of the     *)
(* link and order of verdicts: while verdicts are enforced, miners only get   *)
(* jobs of templates the verifier accepted.                                   *)
THEOREM EnforcedJobsHolds == Spec => EnforcedJobs
<1>1. FlowTypeOK /\ AcceptancesAreTrue /\ [Next]_vars =>
        [Enforces /\ job' # job /\ degraded = "no" /\ degraded' = "no"
           => job' \in accepted]_vars
  BY StepEnforced
<1> QED  BY <1>1, FlowHolds, PTL DEF Spec, EnforcedJobs

----------------------------------------------------------------------------
(* The helpers *)

\* A nonempty set of naturals has a least member, and Min is it.
LEMMA MinOfNaturals ==
  ASSUME NEW S \in SUBSET Nat, S # {}
  PROVE  Min(S) \in S /\ \A n \in S : Min(S) <= n
<1> DEFINE R == {p \in Nat \X Nat : p[1] < p[2]}
<1>1. IsWellFoundedOn(R, Nat)
  BY NatLessThanWellFounded DEF OpToRel
<1>2. PICK x \in S : \A y \in S : ~(<<y, x>> \in R)
  BY <1>1, WFMin, Zenon
<1>3. ASSUME NEW y \in S PROVE x <= y
  <2>1. x \in Nat /\ y \in Nat
    OBVIOUS
  <2>2. ~(<<y, x>> \in R)
    BY <1>2
  <2>3. ~(y < x)
    BY <2>1, <2>2
  <2> QED  BY <2>1, <2>3
<1> QED  BY <1>3, Zenon DEF Min

LEMMA MinOfTwo ==
  ASSUME NEW a \in Int, NEW b \in Int
  PROVE  Min({a, b}) = IF a <= b THEN a ELSE b
BY DEF Min

LEMMA MaxOfTwo ==
  ASSUME NEW a \in Int, NEW b \in Int
  PROVE  Max({a, b}) = IF a >= b THEN a ELSE b
BY DEF Max

LEMMA OlderIs ==
  ASSUME NEW a \in Nat, NEW b \in Nat
  PROVE  /\ Older(a, b) \in Nat
         /\ Older(a, b) = IF a <= b THEN a + 1 ELSE b + 1
BY MinOfTwo DEF Older

----------------------------------------------------------------------------
\* The places a retain keeps and the rank of each among them.
Kept(seq, S) == {i \in DOMAIN seq : seq[i] \in S}
Rank(K, i) == Cardinality({k \in K : k <= i})

\* Among finitely many places the rank tells them apart, and is at most their number.
LEMMA RankIs ==
  ASSUME NEW n \in Nat, NEW K \in SUBSET (1 .. n), NEW i \in K
  PROVE  /\ IsFiniteSet(K)
         /\ Rank(K, i) \in 1 .. Cardinality(K)
         /\ \A j \in K : i < j => Rank(K, i) < Rank(K, j)
<1>1. IsFiniteSet(1 .. n)
  BY FS_Interval
<1>2. IsFiniteSet(K)
  BY <1>1, FS_Subset, Zenon
<1>3. ASSUME NEW j \in K PROVE /\ IsFiniteSet({k \in K : k <= j}) /\ Rank(K, j) \in Nat
                               /\ Rank(K, j) <= Cardinality(K) /\ Rank(K, j) # 0
  <2> DEFINE B == {k \in K : k <= j}
  <2>1. B \in SUBSET K /\ j \in B
    OBVIOUS
  <2>2. IsFiniteSet(B) /\ Cardinality(B) <= Cardinality(K)
    BY <1>2, <2>1, FS_Subset
  <2>3. Cardinality(B) \in Nat
    BY <2>2, FS_CardinalityType
  <2>4. Cardinality(B) # 0
    BY <2>1, <2>2, FS_EmptySet
  <2> QED  BY <2>2, <2>3, <2>4 DEF Rank
<1>4. Cardinality(K) \in Nat
  BY <1>2, FS_CardinalityType
<1>5. ASSUME NEW j \in K, i < j PROVE Rank(K, i) < Rank(K, j)
  <2> DEFINE A == {k \in K : k <= i}  B == {k \in K : k <= j}
  <2>0. \A k \in K : k \in Nat
    OBVIOUS
  <2>1. A \in SUBSET B /\ j \in B /\ j \notin A
    <3>1. i \in Nat /\ j \in Nat
      BY <2>0
    <3>2. ASSUME NEW k \in A PROVE k \in B
      BY <1>5, <2>0, <3>1
    <3>3. j \in B /\ j \notin A
      BY <1>5, <3>1
    <3> QED  BY <3>2, <3>3, Zenon
  <2>2. IsFiniteSet(B) /\ Cardinality(A) \in Nat /\ Cardinality(B) \in Nat
    BY <1>3 DEF Rank
  <2>3. Cardinality(A) <= Cardinality(B) /\ (Cardinality(B) = Cardinality(A) => B = A)
    BY <2>1, <2>2, FS_Subset
  <2>4. Cardinality(A) < Cardinality(B)
    <3>1. A # B
      BY <2>1
    <3> HIDE DEF A, B
    <3> QED  BY <2>2, <2>3, <3>1
  <2> QED  BY <2>4 DEF Rank
<1>6. Rank(K, i) \in 1 .. Cardinality(K)
  <2>1. Rank(K, i) \in Nat /\ Rank(K, i) <= Cardinality(K) /\ Rank(K, i) # 0
    BY <1>3, Zenon
  <2> QED  BY <1>4, <2>1
<1> QED  BY <1>2, <1>5, <1>6

\* A retain loses none of the members it is to keep, and keeps no others.
LEMMA KeepingIs ==
  ASSUME NEW T, NEW seq \in Seq(T), NEW S
  PROVE  /\ Keeping(seq, S) \in Seq(T)
         /\ Range(Keeping(seq, S)) = Range(seq) \intersect S
<1> DEFINE K == Kept(seq, S)
           R == [i \in K |-> Rank(K, i)]
           Place(j) == CHOOSE i \in K : Rank(K, i) = j
           C == Cardinality(K)
<1>1. K \in SUBSET (1 .. Len(seq)) /\ Len(seq) \in Nat
  BY DEF Kept
<1>2. \A i \in K : Rank(K, i) \in 1 .. C /\ \A j \in K : i < j => Rank(K, i) < Rank(K, j)
  BY <1>1, RankIs, Zenon
<1>3. IsFiniteSet(K)
  <2>1. IsFiniteSet(1 .. Len(seq))
    BY FS_Interval
  <2> HIDE DEF K
  <2> QED  BY <1>1, <2>1, FS_Subset, Zenon
<1>4. C \in Nat
  BY <1>3, FS_CardinalityType
<1>5. \A i, j \in K : Rank(K, i) = Rank(K, j) => i = j
  <2> HIDE DEF K
  <2> TAKE i, j \in K
  <2>1. i \in Nat /\ j \in Nat /\ Rank(K, i) \in Nat /\ Rank(K, j) \in Nat
    BY <1>1, <1>2, <1>4
  <2>2. (i < j => Rank(K, i) < Rank(K, j)) /\ (j < i => Rank(K, j) < Rank(K, i))
    BY <1>2
  <2> QED  BY <2>1, <2>2
<1>6. R \in Injection(K, 1 .. C)
  <2> HIDE DEF K
  <2> QED  BY <1>2, <1>5 DEF Injection, IsInjective
<1>7. R \in Surjection(K, 1 .. C)
  <2>1. IsFiniteSet(1 .. C) /\ Cardinality(1 .. C) = C
    BY <1>4, FS_Interval
  <2> HIDE DEF K
  <2> QED  BY <1>6, <2>1, FS_Injection
<1>8. \A j \in 1 .. C : Place(j) \in K /\ Rank(K, Place(j)) = j
  <2> HIDE DEF K
  <2> TAKE j \in 1 .. C
  <2>1. \E i \in K : Rank(K, i) = j
    BY <1>7, Zenon DEF Surjection
  <2> QED  BY <2>1
<1>9. \A i \in K : Place(Rank(K, i)) = i
  <2> HIDE DEF K
  <2> QED  BY <1>2, <1>5, <1>8
<1>10. Keeping(seq, S) = [j \in 1 .. C |-> seq[Place(j)]]
  BY DEF Keeping, Kept, Rank
<1> HIDE DEF K, Place, C
<1>11. Keeping(seq, S) \in Seq(T)
  <2>1. \A j \in 1 .. C : seq[Place(j)] \in T
    <3>1. \A i \in 1 .. Len(seq) : seq[i] \in T
      OBVIOUS
    <3>2. \A j \in 1 .. C : Place(j) \in 1 .. Len(seq)
      BY <1>1, <1>8, Zenon
    <3> QED  BY <3>1, <3>2, Zenon
  <2> QED  BY <1>4, <1>10, <2>1
<1>12. ASSUME NEW x \in Range(Keeping(seq, S)) PROVE x \in Range(seq) \intersect S
  <2>1. PICK j \in 1 .. C : x = seq[Place(j)]
    BY <1>10 DEF Range
  <2> QED  BY <1>8, <2>1, Zenon DEF K, Kept, Range
<1>13. ASSUME NEW x \in Range(seq) \intersect S PROVE x \in Range(Keeping(seq, S))
  <2>1. PICK i \in DOMAIN seq : x = seq[i]
    BY DEF Range
  <2>2. i \in K
    BY <2>1 DEF K, Kept
  <2>3. Rank(K, i) \in 1 .. C /\ Place(Rank(K, i)) = i
    BY <1>2, <1>9, <2>2
  <2> QED  BY <1>10, <2>1, <2>3 DEF Range
<1> QED  BY <1>11, <1>12, <1>13

----------------------------------------------------------------------------
(* The pending set, the dedup cache and the starvation clock *)

\* pending, pending_order, the cache's source, the outcomes and the clocks have
\* values of their kinds.
GateTypeOK ==
  /\ order \in Seq(Templates)
  /\ DOMAIN pending \subseteq Templates
  /\ \A t \in DOMAIN pending : pending[t] \in [src : Nat, age : Nat]
  /\ outcome \in [Templates -> Outcomes]
  /\ seen \subseteq Templates
  /\ seenSource \in Nat
  /\ quiet \in Nat
  /\ clock \in Nat \union {NoAnchor}

\* Every pending template has a place in pending_order, none is pending where
\* verdicts are not enforced, and one the cache still remembers was proposed by
\* the source whose ids it remembers, unless it is being proposed again: so the
\* sweep, which releases only ids of that source, releases every open one.
Coupled ==
  /\ DOMAIN pending \subseteq Range(order)
  /\ ~Enforces => DOMAIN pending = {}
  /\ \A t \in seen \intersect DOMAIN pending : pending[t].src = seenSource \/ t = proposing
  /\ DedupParity

\* The starvation clock is the silence itself while something is outstanding;
\* with nothing outstanding it has no anchor, or no order to be read through.
ClockIsSilence ==
  /\ DOMAIN pending # {} => clock = quiet
  /\ DOMAIN pending = {} => quiet = 0 /\ (order = <<>> \/ clock = NoAnchor)

\* Between the check and the next tick the silence is within the threshold.
QuietIsSeen == Enforces /\ AutoDegrade /\ ~checkDue => quiet <= DegradeAfter

ClockCoupled == ClockIsSilence /\ QuietIsSeen

GateInv == FlowTypeOK /\ DegradedIsClear /\ GateTypeOK /\ Coupled /\ ClockCoupled

LEMMA InitGate == Init => GateTypeOK /\ Coupled /\ ClockCoupled
<1> SUFFICES ASSUME Init PROVE GateTypeOK /\ Coupled /\ ClockCoupled
  OBVIOUS
<1>1. /\ order = <<>> /\ DOMAIN pending = {} /\ seen = {} /\ seenSource = 0 /\ quiet = 0
      /\ clock = NoAnchor /\ outcome = [t \in Templates |-> "none"]
  BY Zenon DEF Init
<1>2. checkDue
  BY Zenon DEF Init
<1>3. DegradeAfter \in Nat
  BY GateConstants
<1>4. outcome \in [Templates -> Outcomes]
  BY <1>1 DEF Outcomes
<1> QED  BY <1>1, <1>2, <1>3, <1>4
         DEF GateTypeOK, Coupled, ClockCoupled, ClockIsSilence, QuietIsSeen, DedupParity

\* The eviction pops a prefix of pending_order.
LEMMA PoppedIs ==
  ASSUME order \in Seq(Templates)
  PROVE  Popped \in 0 .. Len(order)
<1> DEFINE N == {n \in 0 .. Len(order) :
                  \/ n = Len(order)
                  \/ Cardinality(DOMAIN pending \ Range(SubSeq(order, 1, n))) < PendingMax}
<1>1. N \in SUBSET Nat /\ Len(order) \in N
  OBVIOUS
<1>2. Min(N) \in N
  BY <1>1, MinOfNaturals, Zenon
<1> QED  BY <1>2 DEF Popped

LEMMA InRange ==
  ASSUME NEW S, NEW q \in Seq(S), NEW i \in 1 .. Len(q)
  PROVE  q[i] \in Range(q)
BY DEF Range

\* Dropping a prefix and appending loses the prefix and gains the new member.
LEMMA RangeAfter ==
  ASSUME NEW S, NEW q \in Seq(S), NEW n \in 0 .. Len(q), NEW x \in S
  PROVE  LET r == Append(SubSeq(q, n + 1, Len(q)), x) IN
         /\ r \in Seq(S)
         /\ x \in Range(r)
         /\ Range(q) \ Range(SubSeq(q, 1, n)) \subseteq Range(r)
<1> DEFINE s == SubSeq(q, n + 1, Len(q))
           r == Append(s, x)
<1>1. /\ s \in Seq(S) /\ Len(s) = Len(q) - n
      /\ \A i \in 1 .. Len(q) - n : s[i] = q[n + i]
  OBVIOUS
<1>2. /\ r \in Seq(S) /\ Len(r) = Len(q) - n + 1 /\ r[Len(q) - n + 1] = x
      /\ \A i \in 1 .. Len(q) - n : r[i] = q[n + i]
  BY <1>1
<1>3. /\ SubSeq(q, 1, n) \in Seq(S) /\ Len(SubSeq(q, 1, n)) = n
      /\ \A i \in 1 .. n : SubSeq(q, 1, n)[i] = q[i]
  OBVIOUS
<1>4. x \in Range(r)
  <2>1. Len(q) - n + 1 \in 1 .. Len(r)
    BY <1>2
  <2> HIDE DEF r
  <2> QED  BY <1>2, <2>1, InRange
<1>5. ASSUME NEW y \in Range(q), y \notin Range(SubSeq(q, 1, n)) PROVE y \in Range(r)
  <2>1. PICK i \in 1 .. Len(q) : y = q[i]
    BY DEF Range
  <2>2. ~(i <= n)
    <3> SUFFICES ASSUME i <= n PROVE FALSE
      OBVIOUS
    <3>1. i \in 1 .. Len(SubSeq(q, 1, n)) /\ SubSeq(q, 1, n)[i] = y
      BY <1>3, <2>1
    <3> QED  BY <1>3, <1>5, <3>1, InRange, Zenon
  <2>3. i - n \in 1 .. Len(q) - n /\ n + (i - n) = i
    BY <2>2
  <2>4. r[i - n] = y /\ i - n \in DOMAIN r
    BY <1>2, <2>1, <2>3
  <2> QED  BY <2>4, Zenon DEF Range
<1> QED  BY <1>2, <1>4, <1>5

\* What the enqueue does to the pending set: it makes room and adds the proposal.
LEMMA EnqueueDoes ==
  ASSUME FlowTypeOK, GateTypeOK, Coupled, Enqueue
  PROVE  \E evicted \in SUBSET DOMAIN pending :
           /\ seen' = seen \ evicted
           /\ DOMAIN pending' = (DOMAIN pending \ evicted) \union {proposing}
           /\ pending'[proposing] = [src |-> seenSource, age |-> 0]
           /\ \A t \in DOMAIN pending \ evicted : t # proposing => pending'[t] = pending[t]
           /\ order' \in Seq(Templates)
           /\ DOMAIN pending' \subseteq Range(order')
<1> DEFINE evicted == DOMAIN pending \intersect Range(SubSeq(order, 1, Popped))
           rest == Append(SubSeq(order, Popped + 1, Len(order)), proposing)
<1>1. /\ seen' = seen \ evicted /\ order' = rest
      /\ pending' = [t \in (DOMAIN pending \ evicted) \union {proposing} |->
                       IF t = proposing THEN [src |-> seenSource, age |-> 0]
                       ELSE Without(pending, evicted)[t]]
  BY WithoutDomain, Zenon DEF Enqueue, Release
<1>2. proposing \in Templates
  BY DEF Enqueue, Proposed, FlowTypeOK
<1>3. /\ rest \in Seq(Templates) /\ proposing \in Range(rest)
      /\ Range(order) \ Range(SubSeq(order, 1, Popped)) \subseteq Range(rest)
  BY <1>2, PoppedIs, RangeAfter DEF GateTypeOK
<1> HIDE DEF rest
<1>4. DOMAIN pending \ evicted \subseteq Range(rest)
  BY <1>3 DEF Coupled
<1> HIDE DEF evicted
<1>5. \A t \in DOMAIN pending \ evicted : Without(pending, evicted)[t] = pending[t]
  BY DEF Without
<1>6. evicted \in SUBSET DOMAIN pending
  BY DEF evicted
<1>7. /\ DOMAIN pending' = (DOMAIN pending \ evicted) \union {proposing}
      /\ pending'[proposing] = [src |-> seenSource, age |-> 0]
      /\ \A t \in DOMAIN pending \ evicted : t # proposing => pending'[t] = pending[t]
  BY <1>1, <1>5
<1>8. order' \in Seq(Templates) /\ DOMAIN pending' \subseteq Range(order')
  BY <1>1, <1>3, <1>4, <1>7
<1> QED  BY <1>1, <1>6, <1>7, <1>8, Zenon

\* What a verdict of a pending template, and the sweep, do to the pending set.
LEMMA WithoutIs ==
  ASSUME NEW S, pending' = Without(pending, S)
  PROVE  /\ DOMAIN pending' = DOMAIN pending \ S
         /\ \A t \in DOMAIN pending' : pending'[t] = pending[t]
BY DEF Without

LEMMA SettleDoes ==
  ASSUME GateTypeOK, Coupled, NEW t \in Templates, Settle(t)
  PROVE  /\ order' \in Seq(Templates)
         /\ DOMAIN pending' = DOMAIN pending \ {t}
         /\ DOMAIN pending' \subseteq Range(order')
         /\ \A u \in DOMAIN pending' : pending'[u] = pending[u]
         /\ clock' = IF DOMAIN pending' = {} THEN NoAnchor ELSE 0
<1>1. pending' = Without(pending, {t}) /\ order' = Keeping(order, Templates \ {t})
      /\ clock' = IF DOMAIN pending \ {t} = {} THEN NoAnchor ELSE 0
  BY DEF Settle
<1>2. order' \in Seq(Templates) /\ Range(order') = Range(order) \intersect (Templates \ {t})
  BY <1>1, KeepingIs DEF GateTypeOK
<1>3. /\ DOMAIN pending' = DOMAIN pending \ {t}
      /\ \A u \in DOMAIN pending' : pending'[u] = pending[u]
  BY <1>1, WithoutIs, Zenon
<1> QED  BY <1>1, <1>2, <1>3, Zenon DEF GateTypeOK, Coupled

LEMMA SweepDoes ==
  ASSUME GateTypeOK, Coupled, Sweep
  PROVE  /\ order' \in Seq(Templates)
         /\ Swept \subseteq DOMAIN pending
         /\ DOMAIN pending' = DOMAIN pending \ Swept
         /\ DOMAIN pending' \subseteq Range(order')
         /\ \A u \in DOMAIN pending' : pending'[u] = pending[u]
         /\ Swept = {} => order' = order
         /\ Swept # {} /\ DOMAIN pending' = {} => order' = <<>>
<1>1. pending' = Without(pending, Swept)
      /\ order' = IF Swept = {} THEN order ELSE Keeping(order, DOMAIN pending \ Swept)
  BY DEF Sweep
<1>2. /\ DOMAIN pending' = DOMAIN pending \ Swept
      /\ \A u \in DOMAIN pending' : pending'[u] = pending[u]
  BY <1>1, WithoutIs, Zenon
<1>3. Swept \subseteq DOMAIN pending
  BY DEF Swept
<1>4. CASE Swept = {}
  BY <1>1, <1>2, <1>3, <1>4 DEF GateTypeOK, Coupled
<1>5. CASE Swept # {}
  <2>1. /\ order' \in Seq(Templates)
        /\ Range(order') = Range(order) \intersect (DOMAIN pending \ Swept)
    BY <1>1, <1>5, KeepingIs DEF GateTypeOK
  <2>2. DOMAIN pending' \subseteq Range(order')
    BY <1>2, <2>1 DEF Coupled
  <2>3. DOMAIN pending' = {} => order' = <<>>
    <3> SUFFICES ASSUME DOMAIN pending' = {}, order' # <<>> PROVE FALSE
      OBVIOUS
    <3>1. Range(order') = {}
      BY <1>2, <2>1
    <3>2. 1 \in 1 .. Len(order')
      BY <2>1
    <3> QED  BY <2>1, <3>1, <3>2, InRange
  <2> QED  BY <1>2, <1>3, <1>5, <2>1, <2>2, <2>3
<1> QED  BY <1>4, <1>5

\* One tick ages the pending templates and nothing else about them.
LEMMA TickDoes ==
  ASSUME GateTypeOK, Tick
  PROVE  /\ DOMAIN pending' = DOMAIN pending
         /\ \A t \in DOMAIN pending :
              pending'[t] \in [src : Nat, age : Nat] /\ pending'[t].src = pending[t].src
<1>1. pending' = [t \in DOMAIN pending |->
                    [pending[t] EXCEPT !.age = Older(@, Max({MaxTemplateAge, DegradeAfter}))]]
  BY DEF Tick
<1>2. Max({MaxTemplateAge, DegradeAfter}) \in Nat
  <2>1. MaxTemplateAge \in Nat /\ DegradeAfter \in Nat
    BY GateConstants
  <2> QED  BY <2>1, MaxOfTwo
<1>3. ASSUME NEW t \in DOMAIN pending
      PROVE  pending'[t] \in [src : Nat, age : Nat] /\ pending'[t].src = pending[t].src
  <2> DEFINE a == Older(pending[t].age, Max({MaxTemplateAge, DegradeAfter}))
  <2>1. pending[t] \in [src : Nat, age : Nat]
    BY DEF GateTypeOK
  <2>2. a \in Nat
    <3>1. pending[t].age \in Nat
      BY <2>1
    <3> QED  BY <1>2, <3>1, OlderIs, Zenon
  <2>3. pending'[t] = [pending[t] EXCEPT !.age = a]
    BY <1>1
  <2> HIDE DEF a
  <2> QED  BY <2>1, <2>2, <2>3
<1> QED  BY <1>1, <1>3
=============================================================================
