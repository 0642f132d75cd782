---------------------------- MODULE GatewayProofs ----------------------------
(* What is proved of the gateway's share checks, the ntime rule and the dedup *)
(* window, and of its connection to the verifier.  They share no state.       *)
EXTENDS ShareClock, SharePipeline, VerifierLink, TLAPS

----------------------------------------------------------------------------
(* THE NTIME RULE                                                             *)
(* The ntime rule proved for every slack, skew, refresh interval and word     *)
(* size that satisfy ClockConstants and SlackCovers.                          *)

USE DEF Unset

----------------------------------------------------------------------------
(* The inductive invariant.  What RolledTimeAccepted compares are a time the  *)
(* miner rolled from the last job and a bound that the channel may have taken *)
(* from a much older one, so the invariant places both activation times       *)
(* against the clock of the moment they were taken.                           *)

FirstTime == ClockStart - TemplateDelay

\* The latest job is recent, and its activation is what its times give.
JobInv ==
  published.born # Unset =>
    /\ published.born \in ClockStart .. clock
    /\ clock - published.born <= RefreshGap
    /\ published.curtime >= published.born - TemplateDelay
    /\ published.curtime <= published.born + TemplateLead
    /\ published.activation =
         effective_min_ntime(FirstTime, published.curtime, published.born)

\* The miner works on the latest job; what the channel tracks is no later, and
\* was near the clock when the channel took it.
ChannelInv ==
  /\ ~chan.open => chan = ClosedChannel
  /\ chan.open =>
       /\ published.born # Unset
       /\ given.min = published.activation
       /\ given.at >= published.born /\ given.at <= clock
       /\ chan.activation = Unset <=> chan.at = Unset
       /\ chan.at # Unset =>
            /\ chan.at <= clock
            /\ chan.activation <= published.activation
            /\ chan.activation >= chan.at - RefreshGap - TemplateDelay
            /\ chan.activation <= chan.at + SkewAllowance

ClockInv == ClockTypeOK /\ JobInv /\ ChannelInv

----------------------------------------------------------------------------
(* What effective_min_ntime makes of a template's time: a time of the word,   *)
(* not earlier than the template is late, not later than the node's clock is  *)
(* ahead or the skew allowance permits, and never below an earlier one.       *)
LEMMA Activation ==
  ASSUME NEW now \in ClockStart .. ClockEnd, NEW curtime \in 0 .. MaxU32,
         curtime >= now - TemplateDelay, curtime <= now + TemplateLead
  PROVE  LET e == effective_min_ntime(FirstTime, curtime, now) IN
           /\ e \in 0 .. MaxU32
           /\ e >= now - TemplateDelay
           /\ e <= now + TemplateLead
           /\ e <= now + SkewAllowance
           /\ \A before \in ClockStart .. now, c \in 0 .. curtime :
                effective_min_ntime(FirstTime, c, before) <= e
<1> DEFINE latest(t) == Low(t + SkewAllowance, MaxU32)
<1>1. now \in Nat /\ curtime \in Nat /\ FirstTime \in Nat /\ FirstTime <= now - TemplateDelay
  BY ClockConstants DEF FirstTime
<1>2. now <= MaxU32
  BY ClockConstants
<1>3. FirstTime <= MaxU32
  BY <1>1, <1>2, ClockConstants
<1>4. \A t \in Nat, c \in Nat :
        effective_min_ntime(FirstTime, c, t) = Low(High(FirstTime, c), latest(t))
  BY DEF effective_min_ntime, saturating_add
<1>5. ASSUME NEW before \in ClockStart .. now, NEW c \in 0 .. curtime
      PROVE  Low(High(FirstTime, c), latest(before)) <= Low(High(FirstTime, curtime), latest(now))
  BY <1>1, <1>2, ClockConstants DEF Low, High
<1>6. LET e == Low(High(FirstTime, curtime), latest(now)) IN
        /\ e \in 0 .. MaxU32
        /\ e >= now - TemplateDelay
        /\ e <= now + TemplateLead
        /\ e <= now + SkewAllowance
  BY <1>1, <1>2, <1>3, ClockConstants DEF Low, High
<1> HIDE DEF latest
<1>7. \A before \in ClockStart .. now, c \in 0 .. curtime :
        effective_min_ntime(FirstTime, c, before) <= effective_min_ntime(FirstTime, curtime, now)
  <2> SUFFICES ASSUME NEW before \in ClockStart .. now, NEW c \in 0 .. curtime
               PROVE  effective_min_ntime(FirstTime, c, before)
                        <= effective_min_ntime(FirstTime, curtime, now)
    OBVIOUS
  <2>1. before \in Nat /\ c \in Nat
    BY <1>1, ClockConstants
  <2> QED  BY <2>1, <1>1, <1>4, <1>5
<1> QED  BY <1>1, <1>4, <1>6, <1>7

----------------------------------------------------------------------------
(* A job as PublishJob makes it, and what follows for any job that satisfies  *)
(* JobInv: where its activation lies.                                         *)
LEMMA JobTimes ==
  ASSUME ClockTypeOK, JobInv, published.born # Unset
  PROVE  /\ published.activation \in 0 .. MaxU32
         /\ published.activation >= clock - RefreshGap - TemplateDelay
         /\ published.activation <= published.born + TemplateLead
         /\ published.activation <= published.born + SkewAllowance
<1>1. published.born \in ClockStart .. ClockEnd /\ published.curtime \in 0 .. MaxU32
      /\ clock \in Nat /\ published.born \in Nat
  BY ClockConstants DEF ClockTypeOK, JobInv
<1>2. LET e == effective_min_ntime(FirstTime, published.curtime, published.born) IN
        /\ e \in 0 .. MaxU32
        /\ e >= published.born - TemplateDelay
        /\ e <= published.born + TemplateLead
        /\ e <= published.born + SkewAllowance
  BY <1>1, Activation DEF JobInv
<1>3. published.activation = effective_min_ntime(FirstTime, published.curtime, published.born)
      /\ clock - published.born <= RefreshGap
  BY DEF JobInv
<1> QED  BY <1>1, <1>2, <1>3, ClockConstants

\* No job has been made and no channel is open.
LEMMA InitClockInv == ClockInit => ClockInv
BY ClockConstants
   DEF ClockInit, ClockInv, ClockTypeOK, JobInv, ChannelInv, NoJob, ClosedChannel

(* A step of the clock: the template-manager's promise keeps the job recent.  *)
LEMMA SecondPassesInv == ClockInv /\ SecondPasses => ClockInv'
<1> SUFFICES ASSUME ClockInv, SecondPasses PROVE ClockInv'
  OBVIOUS
<1> USE ClockConstants
<1>1. clock \in Nat /\ clock' = clock + 1 /\ clock' \in ClockStart .. ClockEnd
  BY DEF ClockInv, ClockTypeOK, SecondPasses
<1>2. ClockTypeOK'
  BY <1>1 DEF ClockInv, ClockTypeOK, SecondPasses
<1>3. JobInv'
  <2> SUFFICES ASSUME published.born # Unset PROVE JobInv'
    BY DEF JobInv, SecondPasses
  <2>1. published.born \in Nat
    BY DEF ClockInv, ClockTypeOK, JobInv
  <2> QED  BY <1>1, <2>1 DEF ClockInv, JobInv, SecondPasses
<1>4. ChannelInv'
  <2>1. given.at \in Int /\ chan.at \in Int
    BY DEF ClockInv, ClockTypeOK
  <2> QED  BY <1>1, <2>1 DEF ClockInv, ChannelInv, SecondPasses
<1> QED  BY <1>2, <1>3, <1>4 DEF ClockInv

\* Closing the channel leaves nothing that a time window could be wrong for.
LEMMA CloseMiningInv == ClockInv /\ CloseMining => ClockInv'
<1> SUFFICES ASSUME ClockInv, CloseMining PROVE ClockInv'
  OBVIOUS
<1>1. ClockTypeOK'
  BY ClockConstants DEF ClockInv, ClockTypeOK, CloseMining, ClosedChannel
<1>2. JobInv'
  BY DEF ClockInv, JobInv, CloseMining
<1>3. ChannelInv'
  BY DEF ChannelInv, CloseMining, ClosedChannel
<1> QED  BY <1>1, <1>2, <1>3 DEF ClockInv

(* A channel opened on the latest job, with its prevhash or without.          *)
LEMMA OpenOnLatestInv == ClockInv /\ OpenOnLatest => ClockInv'
<1> SUFFICES ASSUME ClockInv, OpenOnLatest PROVE ClockInv'
  OBVIOUS
<1>1. ~chan.open /\ published.born # Unset /\ GiveToMiner(published)
  BY DEF OpenOnLatest
<1>2. chan = ClosedChannel
  BY <1>1 DEF ClockInv, ChannelInv
<1>3. chan.activation = Unset /\ chan.at = Unset
  BY <1>2 DEF ClosedChannel
<1>4. clock' = clock /\ published' = published
  BY DEF OpenOnLatest
<1>5. /\ given' = [min |-> published.activation, at |-> clock]
      /\ chan' = [open |-> TRUE,
                  activation |-> IF published.update THEN published.activation ELSE Unset,
                  at |-> IF published.update THEN clock ELSE Unset]
  BY <1>1, <1>3 DEF GiveToMiner
<1>6. /\ published.activation \in 0 .. MaxU32
      /\ published.activation >= clock - RefreshGap - TemplateDelay
      /\ published.activation <= published.born + SkewAllowance
      /\ published.born <= clock
  BY <1>1, JobTimes DEF ClockInv, JobInv
<1>7. clock \in 0 .. ClockEnd /\ published.born \in Int /\ published.update \in BOOLEAN
  BY ClockConstants DEF ClockInv, ClockTypeOK
<1>8. ClockTypeOK'
  BY <1>4, <1>5, <1>6, <1>7 DEF ClockInv, ClockTypeOK
<1>9. JobInv'
  BY <1>4 DEF ClockInv, JobInv
<1>10. ChannelInv'
  BY <1>4, <1>5, <1>6, <1>7, <1>1, ClockConstants DEF ChannelInv
<1> QED  BY <1>8, <1>9, <1>10 DEF ClockInv

(* A new job: its activation is not below the last one's, so what an open     *)
(* channel tracks from before stays a lower bound of what it is given.        *)
LEMMA PublishJobInv ==
  ASSUME ClockInv, NEW off \in -TemplateDelay .. TemplateLead, NEW update \in BOOLEAN,
         PublishJob(clock + off, FirstTime, update)
  PROVE  ClockInv'
<1> DEFINE e == effective_min_ntime(FirstTime, clock + off, clock)
<1>1. /\ clock' = clock
      /\ published' = [curtime |-> clock + off, activation |-> e, update |-> update,
                       born |-> clock]
      /\ published.curtime <= clock + off /\ clock + off <= MaxU32
  BY DEF PublishJob
<1>2. clock \in ClockStart .. ClockEnd /\ off \in Int /\ clock \in Nat
  BY ClockConstants DEF ClockInv, ClockTypeOK
<1>3. clock + off \in 0 .. MaxU32 /\ clock + off >= clock - TemplateDelay
      /\ clock + off <= clock + TemplateLead
  BY <1>1, <1>2, ClockConstants
<1>4. /\ e \in 0 .. MaxU32
      /\ e >= clock - TemplateDelay
      /\ e <= clock + TemplateLead
      /\ e <= clock + SkewAllowance
      /\ \A before \in ClockStart .. clock, c \in 0 .. clock + off :
           effective_min_ntime(FirstTime, c, before) <= e
  BY <1>2, <1>3, Activation
<1>5. published.born # Unset => published.activation <= e
  <2> SUFFICES ASSUME published.born # Unset PROVE published.activation <= e
    OBVIOUS
  <2>1. published.born \in ClockStart .. clock /\ published.curtime \in 0 .. clock + off
    BY <1>1, <1>2 DEF ClockInv, ClockTypeOK, JobInv
  <2> QED  BY <2>1, <1>4 DEF ClockInv, JobInv
<1> HIDE DEF e
<1>6. published' \in [curtime : 0 .. MaxU32, activation : 0 .. MaxU32, update : BOOLEAN,
                      born : {Unset} \union 0 .. ClockEnd]
  BY <1>1, <1>2, <1>3, <1>4
<1>7. JobInv'
  <2>1. /\ published'.born = clock /\ published'.curtime = clock + off
        /\ published'.activation = e
    BY <1>1
  <2>2. e = effective_min_ntime(FirstTime, clock + off, clock)
    BY DEF e
  <2>3. (effective_min_ntime(FirstTime, published.curtime, published.born))'
          = effective_min_ntime(FirstTime, published'.curtime, published'.born)
    BY DEF effective_min_ntime, saturating_add, FirstTime
  <2> QED  BY <1>1, <1>2, <1>3, <2>1, <2>2, <2>3, ClockConstants DEF JobInv
<1>8. CASE ~chan.open
  <2>1. UNCHANGED <<chan, given>>
    BY <1>8 DEF PublishJob
  <2>2. ClockTypeOK'
    BY <1>1, <1>6, <2>1 DEF ClockInv, ClockTypeOK
  <2>3. ChannelInv'
    BY <1>8, <2>1 DEF ClockInv, ChannelInv, ClosedChannel
  <2> QED  BY <1>7, <2>2, <2>3 DEF ClockInv
<1>9. CASE chan.open
  <2>1. /\ given' = [min |-> e, at |-> clock]
        /\ chan' = [open |-> TRUE,
                    activation |-> IF update THEN e ELSE chan.activation,
                    at |-> IF update THEN clock ELSE chan.at]
    BY <1>9 DEF PublishJob, GiveToMiner, e
  <2>2. /\ published.born # Unset
        /\ chan.activation = Unset <=> chan.at = Unset
        /\ chan.at # Unset =>
             /\ chan.at <= clock
             /\ chan.activation <= published.activation
             /\ chan.activation >= chan.at - RefreshGap - TemplateDelay
             /\ chan.activation <= chan.at + SkewAllowance
    BY <1>9 DEF ClockInv, ChannelInv
  <2>3. /\ chan.activation \in {Unset} \union 0 .. MaxU32
        /\ chan.at \in {Unset} \union 0 .. ClockEnd
        /\ published.activation \in 0 .. MaxU32
    BY DEF ClockInv, ClockTypeOK
  <2>4. ClockTypeOK'
    BY <1>1, <1>2, <1>4, <1>6, <2>1, <2>3, ClockConstants DEF ClockInv, ClockTypeOK
  <2>5. ChannelInv'
    <3>1. /\ published'.born = clock /\ published'.activation = e /\ clock' = clock
          /\ given'.min = e /\ given'.at = clock /\ chan'.open
      BY <1>1, <2>1
    <3>2. CASE update
      <4>1. chan'.activation = e /\ chan'.at = clock
        BY <2>1, <3>2
      <4> QED  BY <1>2, <1>4, <3>1, <4>1, ClockConstants DEF ChannelInv
    <3>3. CASE ~update
      <4>1. chan'.activation = chan.activation /\ chan'.at = chan.at
        BY <2>1, <3>3
      <4> QED  BY <1>2, <1>4, <1>5, <2>2, <2>3, <3>1, <4>1, ClockConstants DEF ChannelInv
    <3> QED  BY <3>2, <3>3
  <2> QED  BY <1>7, <2>4, <2>5 DEF ClockInv
<1> QED  BY <1>8, <1>9

\* Every step of the clock, the jobs, the channel and the miner keeps the windows.
LEMMA StepClockInv == ClockInv /\ [ClockNext]_clockVars => ClockInv'
<1> SUFFICES ASSUME ClockInv, [ClockNext]_clockVars PROVE ClockInv'
  OBVIOUS
<1>1. ASSUME NEW off \in -TemplateDelay .. TemplateLead, NEW update \in BOOLEAN,
             PublishJob(clock + off, ClockStart - TemplateDelay, update)
      PROVE  ClockInv'
  BY <1>1, PublishJobInv DEF FirstTime
<1>2. CASE UNCHANGED clockVars
  BY <1>2 DEF clockVars, ClockInv, ClockTypeOK, JobInv, ChannelInv, effective_min_ntime,
              saturating_add
<1> QED
  BY <1>1, <1>2, OpenOnLatestInv, CloseMiningInv, SecondPassesInv DEF ClockNext

(* The type invariant and where the times lie, for every behaviour.           *)
THEOREM ClockInvHolds == ClockSpec => []ClockInv
BY InitClockInv, StepClockInv, PTL DEF ClockSpec

----------------------------------------------------------------------------
(* The properties *)

(* Why no rolled time is refused: the miner's time is at most TemplateLead    *)
(* ahead of the clock, and what the channel tracks was at most RefreshGap and *)
(* TemplateDelay behind it, which together the slack covers.                  *)
LEMMA InvRolledTime == ClockInv => RolledTimeAccepted
<1> SUFFICES ASSUME ClockInv, chan.open,
                    NEW ntime \in given.min .. saturating_add(given.min, clock - given.at)
             PROVE  NtimeAccepted(ntime)
  BY DEF RolledTimeAccepted
<1> DEFINE activation == IF chan.activation # Unset THEN chan.activation
                                                     ELSE published.activation
           elapsed == IF chan.at # Unset THEN clock - chan.at ELSE 0
<1>1. /\ published.born # Unset
      /\ given.min = published.activation
      /\ given.at >= published.born /\ given.at <= clock
      /\ chan.activation = Unset <=> chan.at = Unset
      /\ chan.at # Unset =>
           /\ chan.at <= clock
           /\ chan.activation <= published.activation
           /\ chan.activation >= chan.at - RefreshGap - TemplateDelay
  BY DEF ClockInv, ChannelInv
<1>2. /\ published.activation \in 0 .. MaxU32
      /\ published.activation <= published.born + TemplateLead
      /\ clock - published.born <= RefreshGap
  BY <1>1, JobTimes DEF ClockInv, JobInv
<1>3. /\ clock \in Nat /\ published.born \in Int /\ given.at \in Int
      /\ chan.activation \in {Unset} \union 0 .. MaxU32
      /\ chan.at \in {Unset} \union 0 .. ClockEnd
  BY ClockConstants DEF ClockInv, ClockTypeOK
<1>4. activation \in Nat /\ elapsed \in Nat /\ activation <= published.activation
  BY <1>1, <1>2, <1>3
<1>5. published.activation - given.at <= activation + elapsed + SlackSeconds - clock
  BY <1>1, <1>2, <1>3, ClockConstants, SlackCovers
<1> HIDE DEF activation, elapsed
<1>6. clock - given.at \in Nat
  BY <1>1, <1>3
<1>7. /\ ntime \in Int /\ published.activation <= ntime /\ ntime <= MaxU32
      /\ ntime <= published.activation + (clock - given.at)
  BY <1>1, <1>2, <1>6, ClockConstants DEF saturating_add, Low
<1>8. ntime <= saturating_add(saturating_add(activation, elapsed), SlackSeconds)
  <2>1. saturating_add(activation, elapsed) \in Nat
        /\ saturating_add(activation, elapsed) \in {MaxU32, activation + elapsed}
    BY <1>4, ClockConstants DEF saturating_add, Low
  <2>2. saturating_add(saturating_add(activation, elapsed), SlackSeconds)
          \in {MaxU32, saturating_add(activation, elapsed) + SlackSeconds}
    BY <2>1, ClockConstants DEF saturating_add, Low
  <2> QED  BY <2>1, <2>2, <1>2, <1>3, <1>4, <1>5, <1>7, ClockConstants
<1>9. ntime <= saturating_add(clock, MaxFuture)
  <2>1. saturating_add(clock, MaxFuture) \in {MaxU32, clock + MaxFuture}
    BY <1>3, ClockConstants DEF saturating_add, Low
  <2> QED  BY <2>1, <1>1, <1>2, <1>3, <1>7, ClockConstants, SlackCovers
<1>10. ntime >= activation
  BY <1>2, <1>4, <1>7
<1> QED  BY <1>8, <1>9, <1>10 DEF NtimeAccepted, check_ntime_bounds, activation, elapsed

(* Why no accepted time is far ahead: the activation was within the skew      *)
(* allowance of the clock when it was taken, and only elapsed time and the    *)
(* slack are added to it.                                                     *)
LEMMA InvNoFuture == ClockInv => NoTimeFromTheFuture
<1> SUFFICES ASSUME ClockInv, chan.open, NEW ntime \in 0 .. MaxU32, NtimeAccepted(ntime)
             PROVE  ntime <= clock + Low(MaxFuture, SkewAllowance + SlackSeconds)
  BY DEF NoTimeFromTheFuture
<1> DEFINE activation == IF chan.activation # Unset THEN chan.activation
                                                     ELSE published.activation
           elapsed == IF chan.at # Unset THEN clock - chan.at ELSE 0
<1>1. /\ published.born # Unset
      /\ chan.activation = Unset <=> chan.at = Unset
      /\ chan.at # Unset => chan.at <= clock /\ chan.activation <= chan.at + SkewAllowance
  BY DEF ClockInv, ChannelInv
<1>2. /\ published.activation \in 0 .. MaxU32
      /\ published.activation <= published.born + SkewAllowance
      /\ published.born <= clock
  BY <1>1, JobTimes DEF ClockInv, JobInv
<1>3. /\ clock \in Nat /\ published.born \in Int
      /\ chan.activation \in {Unset} \union 0 .. MaxU32
      /\ chan.at \in {Unset} \union 0 .. ClockEnd
  BY ClockConstants DEF ClockInv, ClockTypeOK
<1>4. activation \in Nat /\ elapsed \in Nat /\ activation + elapsed <= clock + SkewAllowance
  BY <1>1, <1>2, <1>3, ClockConstants
<1>5. /\ ntime <= saturating_add(saturating_add(activation, elapsed), SlackSeconds)
      /\ ntime <= saturating_add(clock, MaxFuture)
  BY DEF NtimeAccepted, check_ntime_bounds
<1> HIDE DEF activation, elapsed
<1>6. saturating_add(activation, elapsed) \in Nat
      /\ saturating_add(activation, elapsed) <= activation + elapsed
  BY <1>4, ClockConstants DEF saturating_add, Low
<1>7. saturating_add(saturating_add(activation, elapsed), SlackSeconds) \in Nat
      /\ saturating_add(saturating_add(activation, elapsed), SlackSeconds)
           <= saturating_add(activation, elapsed) + SlackSeconds
  BY <1>6, ClockConstants DEF saturating_add, Low
<1>8. saturating_add(clock, MaxFuture) \in Nat
      /\ saturating_add(clock, MaxFuture) <= clock + MaxFuture
  BY <1>3, ClockConstants DEF saturating_add, Low
<1> QED  BY <1>3, <1>4, <1>5, <1>6, <1>7, <1>8, ClockConstants DEF Low

(* shares.rs:206-213.  For every slack that covers the refresh interval, the  *)
(* templates' delay and the node clock's lead, a miner that rolls ntime from  *)
(* the min_ntime it was given is never refused for it.                        *)
THEOREM RolledTimeHolds == ClockSpec => []RolledTimeAccepted
BY ClockInvHolds, InvRolledTime, PTL

(* shares.rs:206-219, jobs.rs:187-198.  No accepted time is further ahead of  *)
(* the gateway's clock than slack and skew allowance together.                *)
THEOREM NoFutureHolds == ClockSpec => []NoTimeFromTheFuture
BY ClockInvHolds, InvNoFuture, PTL

(* Both sides of the ntime rule, for every slack that covers the refresh      *)
(* interval, the templates' delay and the node clock's lead.                  *)
THEOREM NtimeWindowHolds == ClockSpec => []NtimeWindow
BY RolledTimeHolds, NoFutureHolds, PTL DEF NtimeWindow

HIDE DEF Unset

----------------------------------------------------------------------------
(* SUBMISSIONS                                                                *)
(* The dedup window proved for every window size, queue capacity, rate limit  *)
(* and job table.                                                             *)

USE DEF Never

(* The inductive invariant: as long as fewer ids than the window holds went   *)
(* in after the mark, the mark is in the set, exactly that many places before *)
(* the end.  What evicts is the count of insertions and nothing else.         *)
DedupInv ==
  /\ mark \in ShareIds
  /\ recent \in Seq(ShareIds) /\ Len(recent) <= DedupEntries
  /\ forwards \in Seq(ShareIds)
  /\ sinceMark \in Never .. DedupEntries
  /\ sinceMark \in 0 .. DedupEntries - 1 =>
       /\ sinceMark < Len(recent)
       /\ recent[Len(recent) - sinceMark] = mark

----------------------------------------------------------------------------
\* The dedup window has room for at least one id.
LEMMA Window == DedupEntries \in Nat \ {0}
BY PipelineConstants

\* The dedup set is empty and the mark has not been seen.
LEMMA InitDedupInv == PipeInit => DedupInv
<1> SUFFICES ASSUME PipeInit  PROVE DedupInv
  OBVIOUS
<1>1. mark \in ShareIds /\ recent = <<>> /\ forwards = <<>> /\ sinceMark = Never
  BY DEF PipeInit
<1> QED  BY <1>1, Window DEF DedupInv

(* An insertion moves every remembered id one place towards the front.        *)
LEMMA InsertInv ==
  ASSUME DedupInv, NEW id \in ShareIds, check_and_insert(id),
         mark' = mark, forwards' \in Seq(ShareIds)
  PROVE  DedupInv'
<1>1. /\ recent \in Seq(ShareIds) /\ Len(recent) \in Nat /\ Len(recent) <= DedupEntries
      /\ sinceMark \in Never .. DedupEntries
  BY DEF DedupInv
<1>2. CASE Len(recent) >= DedupEntries
  <2>1. /\ recent # <<>> /\ Len(recent) = DedupEntries
        /\ recent' = Append(Tail(recent), id)
    BY <1>1, <1>2, Window DEF check_and_insert
  <2>2. /\ Tail(recent) \in Seq(ShareIds) /\ Len(Tail(recent)) = DedupEntries - 1
        /\ \A i \in 1 .. DedupEntries - 1 : Tail(recent)[i] = recent[i + 1]
    BY <1>1, <2>1, Window
  <2>3. /\ recent' \in Seq(ShareIds) /\ Len(recent') = DedupEntries
        /\ recent'[DedupEntries] = id
        /\ \A i \in 1 .. DedupEntries - 1 : recent'[i] = recent[i + 1]
    BY <2>1, <2>2, Window
  <2>4. CASE id = mark
    BY <1>1, <2>3, <2>4, Window DEF DedupInv, check_and_insert
  <2>5. CASE id # mark /\ sinceMark \in 0 .. DedupEntries - 2
    <3>1. recent[DedupEntries - sinceMark] = mark
      BY <2>1, <2>5, Window DEF DedupInv
    <3>2. DedupEntries - sinceMark - 1 \in 1 .. DedupEntries - 1
      BY <2>5, Window
    <3>3. recent'[DedupEntries - (sinceMark + 1)] = mark
      <4> DEFINE i == DedupEntries - sinceMark - 1
      <4>1. i + 1 = DedupEntries - sinceMark /\ i = DedupEntries - (sinceMark + 1)
        BY <2>5, Window
      <4>2. recent'[i] = recent[i + 1]
        BY <2>3, <3>2
      <4> QED  BY <3>1, <4>1, <4>2, Zenon
    <3>4. sinceMark' = sinceMark + 1
      BY <2>5, Window DEF check_and_insert
    <3> QED  BY <2>3, <2>5, <3>3, <3>4, Window DEF DedupInv
  <2>6. CASE id # mark /\ sinceMark \notin 0 .. DedupEntries - 2
    <3>1. sinceMark' \in {Never, DedupEntries}
      BY <1>1, <2>6, Window DEF check_and_insert
    <3>2. sinceMark' \in Never .. DedupEntries /\ sinceMark' \notin 0 .. DedupEntries - 1
      BY <3>1, Window
    <3>3. mark' \in ShareIds /\ Len(recent') <= DedupEntries
      BY <2>3, Window DEF DedupInv
    <3> QED  BY <2>3, <3>2, <3>3, Zenon DEF DedupInv
  <2> QED  BY <2>4, <2>5, <2>6
<1>3. CASE Len(recent) < DedupEntries
  <2>1. recent' = Append(recent, id)
    BY <1>1, <1>3, Window DEF check_and_insert
  <2>2. /\ recent' \in Seq(ShareIds) /\ Len(recent') = Len(recent) + 1
        /\ recent'[Len(recent) + 1] = id
        /\ \A i \in 1 .. Len(recent) : recent'[i] = recent[i]
    BY <1>1, <2>1
  <2>3. CASE id = mark
    BY <1>1, <1>3, <2>2, <2>3, Window DEF DedupInv, check_and_insert
  <2>4. CASE id # mark /\ sinceMark \in 0 .. DedupEntries - 1
    <3>1. sinceMark < Len(recent) /\ recent[Len(recent) - sinceMark] = mark
      BY <2>4 DEF DedupInv
    <3>2. sinceMark' = sinceMark + 1
      BY <2>4, Window DEF check_and_insert
    <3>3. Len(recent) - sinceMark \in 1 .. Len(recent)
      BY <1>1, <2>4, <3>1
    <3>4. recent'[Len(recent') - sinceMark'] = mark
      <4>1. Len(recent') - sinceMark' = Len(recent) - sinceMark
        BY <1>1, <2>2, <2>4, <3>2
      <4> QED  BY <2>2, <3>1, <3>3, <4>1, Zenon
    <3> QED  BY <1>1, <1>3, <2>2, <2>4, <3>1, <3>2, <3>4, Window DEF DedupInv
  <2>5. CASE id # mark /\ sinceMark \notin 0 .. DedupEntries - 1
    <3>1. sinceMark' \in {Never, DedupEntries}
      BY <1>1, <2>5, Window DEF check_and_insert
    <3> QED  BY <1>1, <1>3, <2>2, <3>1, Window DEF DedupInv
  <2> QED  BY <2>3, <2>4, <2>5
<1> QED  BY <1>1, <1>2, <1>3, Window

\* A share that passed its checks.
LEMMA SettledInv ==
  ASSUME DedupInv, NEW id \in ShareIds, Settled(id), mark' = mark
  PROVE  DedupInv'
<1>1. CASE Replayed(id)
  BY <1>1 DEF Replayed, DedupInv
<1>2. CASE DroppedAtQueue(id)
  <2>1. forwards' \in Seq(ShareIds) /\ check_and_insert(id)
    BY <1>2 DEF DroppedAtQueue, DedupInv
  <2> QED  BY <2>1, InsertInv
<1>3. CASE Credited(id)
  <2>1. forwards' \in Seq(ShareIds) /\ check_and_insert(id)
    BY <1>3 DEF Credited, DedupInv
  <2> QED  BY <2>1, InsertInv
<1> QED  BY <1>1, <1>2, <1>3 DEF Settled

\* Steps that put nothing into the dedup set.
LEMMA KeptInv ==
  ASSUME DedupInv, UNCHANGED <<recent, mark, sinceMark>>, forwards' \in Seq(ShareIds)
  PROVE  DedupInv'
BY DEF DedupInv

\* Every submission is refused, before or after the checks, or settled.
LEMMA SubmitCases ==
  ASSUME NEW s \in Shares,
         handle_submit_shares(s) \/ handle_submit_shares_extended(s)
  PROVE  /\ mark' = mark
         /\ \/ UNCHANGED <<recent, forwards, sinceMark>>
            \/ Settled(compute_share_id(s))
BY DEF handle_submit_shares, handle_submit_shares_extended, Rejected, RejectedSilently

\* Every step keeps the mark at the place its age says it has.
LEMMA StepDedupInv == DedupInv /\ [PipeNext]_pipeVars => DedupInv'
<1> SUFFICES ASSUME DedupInv, [PipeNext]_pipeVars  PROVE DedupInv'
  OBVIOUS
<1>0. forwards \in Seq(ShareIds)
  BY DEF DedupInv
<1>1. CASE UNCHANGED pipeVars
  BY <1>0, <1>1, KeptInv DEF pipeVars
<1>2. ASSUME NEW old \in 0 .. newest, InsertJob(old)  PROVE DedupInv'
  BY <1>0, <1>2, KeptInv DEF InsertJob
<1>3. ASSUME NEW ch \in Kinds, Refill(ch) \/ CloseOther(ch)  PROVE DedupInv'
  BY <1>0, <1>3, KeptInv DEF Refill, CloseOther
<1>4. CASE RelayTakes
  <2>1. forwards' \in Seq(ShareIds)
    BY <1>0, <1>4 DEF RelayTakes
  <2> QED  BY <1>4, <2>1, KeptInv DEF RelayTakes
<1>5. CASE LoopTakes
  BY <1>0, <1>5, KeptInv DEF LoopTakes
<1>6. ASSUME NEW s \in Shares,
             handle_submit_shares(s) \/ handle_submit_shares_extended(s)
      PROVE  DedupInv'
  <2>1. compute_share_id(s) \in ShareIds
    BY DEF ShareIds
  <2>2. CASE UNCHANGED <<recent, forwards, sinceMark>>
    BY <1>0, <1>6, <2>2, SubmitCases, KeptInv
  <2>3. CASE Settled(compute_share_id(s))
    BY <1>6, <2>1, <2>3, SubmitCases, SettledInv
  <2> QED  BY <1>6, <2>2, <2>3, SubmitCases
<1> QED  BY <1>1, <1>2, <1>3, <1>4, <1>5, <1>6 DEF PipeNext

\* The inductive invariant of the dedup set holds in every reachable state.
THEOREM DedupInvHolds == PipeSpec => []DedupInv
BY InitDedupInv, StepDedupInv, PTL DEF PipeSpec

----------------------------------------------------------------------------
\* A queue that grew by the mark took it from Credited, which found it unknown.
LEMMA StepCredits ==
  ASSUME DedupInv, PipeNext, forwards' = Append(forwards, mark)
  PROVE  sinceMark \in {Never, DedupEntries}
<1>0. /\ forwards \in Seq(ShareIds) /\ mark \in ShareIds
      /\ recent \in Seq(ShareIds) /\ sinceMark \in Never .. DedupEntries
  BY DEF DedupInv
<1>1. /\ Len(forwards') = Len(forwards) + 1 /\ Len(forwards) \in Nat
      /\ forwards'[Len(forwards) + 1] = mark
  BY <1>0
<1>2. forwards' # forwards
  BY <1>1
<1>3. ~RelayTakes
  <2> SUFFICES ASSUME RelayTakes  PROVE FALSE
    OBVIOUS
  <2>1. forwards # <<>> /\ forwards' = Tail(forwards)
    BY DEF RelayTakes
  <2>2. Len(forwards') = Len(forwards) - 1
    BY <1>0, <2>1
  <2> QED  BY <1>1, <2>2
<1>4. PICK s \in Shares : handle_submit_shares(s) \/ handle_submit_shares_extended(s)
  BY <1>2, <1>3 DEF PipeNext, InsertJob, Refill, CloseOther, LoopTakes
<1>5. Settled(compute_share_id(s))
  BY <1>2, <1>4, SubmitCases
<1>6. Credited(compute_share_id(s))
  BY <1>2, <1>5 DEF Settled, Replayed, DroppedAtQueue
<1>7. compute_share_id(s) = mark
  <2>1. /\ forwards' = Append(forwards, compute_share_id(s))
        /\ compute_share_id(s) \in ShareIds
    BY <1>6 DEF Credited, ShareIds
  <2>2. forwards'[Len(forwards) + 1] = compute_share_id(s)
    BY <1>0, <2>1
  <2> QED  BY <1>1, <2>2
<1>8. mark \notin Range(recent)
  BY <1>6, <1>7 DEF Credited
<1>9. ASSUME sinceMark \in 0 .. DedupEntries - 1  PROVE FALSE
  <2>1. /\ Len(recent) - sinceMark \in DOMAIN recent
        /\ recent[Len(recent) - sinceMark] = mark
    BY <1>0, <1>9 DEF DedupInv
  <2> QED  BY <1>8, <2>1, Zenon DEF Range
<1> QED  BY <1>0, <1>9, Window

(* shares.rs:229-277.  For every window size: a share is forwarded a second   *)
(* time only after the dedup set took in a whole window of other shares.      *)
THEOREM CreditedTwiceHolds == PipeSpec => CreditedTwiceNeedsEviction
<1>1. DedupInv /\ [PipeNext]_pipeVars =>
        [forwards' = Append(forwards, mark) => sinceMark \in {Never, DedupEntries}]_pipeVars
  BY StepCredits
<1> QED  BY <1>1, DedupInvHolds, PTL DEF PipeSpec, CreditedTwiceNeedsEviction

HIDE DEF Never

(* The job just inserted is in the table, whatever left it for room or age.   *)
LEMMA StepNewest == NewestIsMinable /\ [PipeNext]_pipeVars => NewestIsMinable'
<1> SUFFICES ASSUME NewestIsMinable, [PipeNext]_pipeVars  PROVE NewestIsMinable'
  OBVIOUS
<1>1. ASSUME NEW old \in 0 .. newest, InsertJob(old)  PROVE NewestIsMinable'
  BY <1>1 DEF InsertJob, NewestIsMinable
<1>2. ASSUME UNCHANGED <<table, newest>>  PROVE NewestIsMinable'
  BY <1>2 DEF NewestIsMinable
<1> QED
  BY <1>1, <1>2 DEF PipeNext, pipeVars, Refill, CloseOther, RelayTakes, LoopTakes,
     handle_submit_shares, handle_submit_shares_extended

(* jobs.rs:224-236 and shares.rs:229-277, for every size of the job table and *)
(* of the dedup window: shares of the job just published find it, and none is *)
(* credited twice within the window.                                          *)
THEOREM PipelineHoldsAlways == PipeSpec => PipelineHolds
<1>1. PipeInit => NewestIsMinable
  BY DEF PipeInit, NewestIsMinable
<1> QED  BY <1>1, StepNewest, CreditedTwiceHolds, PTL DEF PipelineHolds, PipeSpec

----------------------------------------------------------------------------
(* THE CONNECTION TO THE VERIFIER                                             *)
(* Proved for every heartbeat interval, send buffer and template size, and    *)
(* for a runtime that holds the loop up for less than the read deadline.      *)

\* A write that only the verifier's reading can move on.
Stuck == Writing /\ to_write > 0 /\ room = 0

\* The time the path has been dead, less what the runtime held the loop up.
DeadFor == hole - jammed

ClocksOK ==
  /\ last_heard \in Nat /\ next_tick \in 0 .. Interval /\ blocked \in Nat
  /\ to_write \in Nat /\ room \in Nat /\ jammed \in 0 .. Jam
  /\ hole \in Nat \union {NoHole}

(* In a hole a write that is stuck stays so and its stall clock runs out; one *)
(* that is not costs no time.  Outside of writes the verifier is heard from   *)
(* for as long as lines are left to read, which costs no time either, and     *)
(* after that the silence is as old as the hole and seen at the next tick.    *)
HoleInv ==
  hole # NoHole =>
    /\ Up
    /\ Stuck => DeadFor <= 4 * Interval + blocked /\ DeadFor <= 7 * Interval
    /\ ~Stuck => /\ DeadFor <= last_heard
                 /\ DeadFor + next_tick <= 4 * Interval
                 /\ incoming # <<>> => DeadFor <= 0

(* An answer that was there when the silence was noticed is read before the   *)
(* next look at the clock, and that look finds the verifier heard from.       *)
RecheckInv ==
  /\ rechecking => next_tick = 0 /\ io \in {"select", "template", "recheck"}
  /\ io = "recheck" => rechecking
  /\ (rechecking /\ unread) =>
       \/ io = "recheck" /\ HasNewline(incoming)
       \/ io = "select" /\ ready /\ HasNewline(incoming)
       \/ last_heard <= jammed
  /\ AnswerIsRead

\* The parts that may wait together: of one line, or of one and the next.
Start == <<"a">>
End == <<"z">>
Whole == <<"a", "z">>
Endless == <<"a", "a">>
EndStart == <<"z", "a">>

(* What was read of a line and what waits to be read are what was sent, cut   *)
(* anywhere; half says that the last part sent did not end a line.            *)
StreamInv ==
  /\ line_buf \in {<<>>, Start}
  /\ incoming \in {<<>>, Start, End, Endless, Whole, EndStart}
  /\ line_buf = <<>> => incoming \notin {End, EndStart}
  /\ incoming = <<>> /\ half => line_buf = Start
  /\ incoming \in {End, Whole} => ~half
  /\ LinesIntact

----------------------------------------------------------------------------
\* The constants one by one.
LEMMA LinkSizes ==
  /\ Interval \in Nat /\ Interval > 0 /\ SendRoom \in Nat /\ TemplateLen \in Nat /\ Jam \in Nat
  /\ read_deadline = 3 * Interval
BY LinkConstants DEF read_deadline, READ_DEADLINE_BEATS

\* What held of a clock's bounds holds when they widen.
LEMMA NoLater ==
  ASSUME NEW dead \in Int, NEW most \in Int, NEW heard \in Int, NEW later \in Int,
         NEW tick \in Int, NEW sooner \in Int,
         dead <= heard, dead + tick <= most, heard <= later, sooner <= tick
  PROVE  dead <= later /\ dead + sooner <= most
OBVIOUS

\* A loop that has returned is in no hole and rechecks nothing.
LEMMA ReturnIs ==
  ASSUME NEW how, Return(how)
  PROVE  /\ io' = how /\ last_heard' = 0 /\ next_tick' = 0 /\ rechecking' = FALSE
         /\ line_buf' = <<>> /\ to_write' = 0 /\ blocked' = 0 /\ room' = SendRoom
         /\ incoming' = <<>> /\ ready' = FALSE /\ half' = FALSE /\ hole' = NoHole /\ jammed' = 0
BY DEF Return, Fresh

\* The loop's clocks start at nothing.
LEMMA InitClocks == LinkInit => ClocksOK /\ HoleInv
BY LinkSizes DEF LinkInit, Fresh, ClocksOK, HoleInv

\* A loop that returns leaves every clock at its start.
LEMMA ReturnClocks ==
  ASSUME NEW how, Return(how)
  PROVE  ClocksOK' /\ HoleInv'
<1>1. /\ last_heard' = 0 /\ next_tick' = 0 /\ to_write' = 0 /\ blocked' = 0
      /\ room' = SendRoom /\ hole' = NoHole /\ jammed' = 0
  BY ReturnIs, Zenon
<1> QED  BY <1>1, LinkSizes DEF ClocksOK, HoleInv

\* A step of the read arm or of the driver moves no clock but last_heard's.
LEMMA ReadClocks ==
  ASSUME ClocksOK, HoleInv,
         UNCHANGED <<io, next_tick, blocked, to_write, room, jammed, hole>>,
         \/ last_heard' = last_heard /\ (incoming = <<>> => incoming' = <<>>)
         \/ last_heard' = 0 /\ incoming # <<>> /\ io = "select"
  PROVE  ClocksOK' /\ HoleInv'
<1>1. ClocksOK'
  BY DEF ClocksOK
<1>2. Stuck' = Stuck /\ Up' = Up /\ DeadFor' = DeadFor
  BY DEF Stuck, Writing, Up, DeadFor
<1>3. io = "select" => ~Stuck
  BY DEF Stuck, Writing
<1>4. DeadFor <= 0 => DeadFor <= last_heard'
  BY <1>1 DEF DeadFor, ClocksOK, NoHole
<1> QED  BY <1>1, <1>2, <1>3, <1>4 DEF HoleInv

\* A write begins, moves on or ends.
LEMMA WriteClocks ==
  ASSUME ClocksOK, HoleInv, UNCHANGED <<last_heard, jammed, hole, incoming>>, Up, Up',
         ~Stuck, next_tick' \in 0 .. Interval, to_write' \in Nat, room' \in Nat,
         blocked' \in Nat,
         next_tick' = next_tick \/ ~Silent
  PROVE  ClocksOK' /\ HoleInv'
<1>1. ClocksOK'
  BY DEF ClocksOK
<1>2. DeadFor' = DeadFor
  BY DEF DeadFor
<1>3. hole # NoHole => /\ DeadFor \in Int /\ DeadFor <= last_heard
                       /\ DeadFor + next_tick <= 4 * Interval
                       /\ incoming # <<>> => DeadFor <= 0
  BY DEF HoleInv, DeadFor, ClocksOK
<1>4. ~Silent => last_heard <= 3 * Interval
  BY LinkSizes DEF Silent, ClocksOK
<1>5. hole # NoHole => DeadFor + next_tick' <= 4 * Interval
  BY <1>3, <1>4, LinkSizes DEF ClocksOK
<1>6. hole # NoHole => DeadFor <= 4 * Interval + blocked' /\ DeadFor <= 7 * Interval
  BY <1>3, LinkSizes DEF ClocksOK
<1> QED  BY <1>1, <1>2, <1>3, <1>5, <1>6 DEF HoleInv

\* Time passes for a loop that is stuck in a dead path, held up, or idle.
LEMMA TimeClocks ==
  ASSUME ClocksOK, HoleInv, RecheckInv, LinkTime
  PROVE  ClocksOK' /\ HoleInv'
<1>1. /\ last_heard' = Aged /\ next_tick' = Less(next_tick)
      /\ blocked' = IF Writing THEN blocked + 1 ELSE 0
      /\ hole' = IF hole = NoHole THEN NoHole ELSE hole + 1
      /\ UNCHANGED <<io, incoming, to_write, room>>
  BY DEF LinkTime, readVars
<1>2. \/ Busy /\ jammed < Jam /\ jammed' = jammed + 1
      \/ ~Busy /\ (ready \/ incoming = <<>>) /\ jammed' = jammed
  BY DEF LinkTime
<1>3. /\ last_heard \in Nat /\ next_tick \in 0 .. Interval /\ blocked \in Nat
      /\ jammed \in 0 .. Jam /\ hole \in Nat \union {NoHole}
  BY DEF ClocksOK
<1>4. /\ last_heard' \in Nat /\ last_heard <= last_heard'
      /\ io # "template" => last_heard' = last_heard + 1
      /\ next_tick' \in 0 .. Interval /\ next_tick' <= next_tick
      /\ next_tick # 0 => next_tick' = next_tick - 1
      /\ blocked' \in Nat /\ (Writing => blocked' = blocked + 1)
      /\ jammed' \in 0 .. Jam
  BY <1>1, <1>2, <1>3, LinkSizes DEF Aged, Less
<1>5. ClocksOK'
  <2>1. hole' \in Nat \union {NoHole}
    BY <1>1, <1>3
  <2> QED  BY <1>1, <1>4, <2>1 DEF ClocksOK
<1>6. CASE hole = NoHole
  BY <1>1, <1>5, <1>6 DEF HoleInv
<1>7. CASE hole # NoHole
  <2>1. Stuck' = Stuck /\ Up' = Up /\ hole \in Nat /\ hole' = hole + 1 /\ Up
    BY <1>1, <1>3, <1>7 DEF Stuck, Writing, Up, HoleInv
  <2>2. CASE Busy
    <3>1. DeadFor' = DeadFor /\ DeadFor \in Int
      BY <1>2, <1>3, <2>1, <2>2 DEF DeadFor
    <3>2. Stuck => blocked' = blocked + 1
      BY <1>4 DEF Stuck
    <3> HIDE DEF DeadFor
    <3>3. Stuck => DeadFor <= 4 * Interval + blocked' /\ DeadFor <= 7 * Interval
      BY <1>3, <1>7, <3>1, <3>2, LinkSizes DEF HoleInv
    <3>4. ~Stuck => /\ DeadFor <= last_heard' /\ DeadFor + next_tick' <= 4 * Interval
                    /\ incoming # <<>> => DeadFor <= 0
      <4>1. ~Stuck => /\ DeadFor <= last_heard /\ DeadFor + next_tick <= 4 * Interval
                      /\ incoming # <<>> => DeadFor <= 0
        BY <1>7, Zenon DEF HoleInv
      <4>2. last_heard <= last_heard' /\ next_tick' <= next_tick
        BY <1>4
      <4>3. /\ last_heard \in Int /\ last_heard' \in Int /\ next_tick \in Int
            /\ next_tick' \in Int
        BY <1>3, <1>4
      <4>4. ASSUME DeadFor <= last_heard, DeadFor + next_tick <= 4 * Interval
            PROVE  DeadFor <= last_heard' /\ DeadFor + next_tick' <= 4 * Interval
        <5>1. 4 * Interval \in Int
          BY LinkSizes
        <5> QED  BY <3>1, <4>2, <4>3, <4>4, <5>1, NoLater, Zenon
      <4> QED  BY <4>1, <4>4, Zenon
    <3> QED  BY <1>1, <1>5, <2>1, <3>1, <3>3, <3>4 DEF HoleInv
  <2>3. CASE ~Busy
    <3>1. DeadFor' = DeadFor + 1 /\ DeadFor \in Int
      BY <1>2, <1>3, <2>1, <2>3 DEF DeadFor
    <3> HIDE DEF DeadFor
    <3>2. Stuck => DeadFor' <= 4 * Interval + blocked' /\ DeadFor' <= 7 * Interval
      <4>1. SUFFICES ASSUME Stuck
                     PROVE  DeadFor' <= 4 * Interval + blocked' /\ DeadFor' <= 7 * Interval
        OBVIOUS
      <4>2. Writing /\ ~Stalled
        BY <2>3, <4>1 DEF Stuck, Busy
      <4>3. blocked' = blocked + 1 /\ blocked < 3 * Interval
        BY <1>3, <1>4, <4>2, LinkSizes DEF Stalled
      <4>4. DeadFor <= 4 * Interval + blocked
        BY <1>7, <4>1 DEF HoleInv
      <4> QED  BY <1>3, <3>1, <4>3, <4>4, LinkSizes
    <3>3. ~Stuck => /\ DeadFor' <= last_heard' /\ DeadFor' + next_tick' <= 4 * Interval
                    /\ incoming # <<>> => DeadFor' <= 0
      <4>1. SUFFICES ASSUME ~Stuck
                     PROVE  /\ DeadFor' <= last_heard' /\ DeadFor' + next_tick' <= 4 * Interval
                            /\ incoming # <<>> => DeadFor' <= 0
        OBVIOUS
      <4>2. io = "select" /\ ~ready /\ next_tick # 0
        <5>1. ~Writing
          BY <2>3, <4>1 DEF Stuck, Busy, ClocksOK
        <5> QED  BY <2>1, <2>3, <5>1 DEF Busy, Writing, Up
      <4>3. incoming = <<>>
        BY <1>2, <2>3, <4>2
      <4>4. DeadFor <= last_heard /\ DeadFor + next_tick <= 4 * Interval
        BY <1>7, <4>1 DEF HoleInv
      <4>5. last_heard' = last_heard + 1 /\ next_tick' = next_tick - 1
        BY <1>4, <4>2
      <4> QED  BY <1>3, <3>1, <4>3, <4>4, <4>5, LinkSizes
    <3> QED  BY <1>1, <1>5, <2>1, <3>2, <3>3 DEF HoleInv
  <2> QED  BY <2>2, <2>3
<1> QED  BY <1>6, <1>7

\* Every step keeps a dead path's bound.
LEMMA StepClocks ==
  ASSUME ClocksOK, HoleInv, RecheckInv, [LinkNext]_linkVars
  PROVE  ClocksOK' /\ HoleInv'
<1>1. CASE UNCHANGED linkVars
  BY <1>1, ReadClocks DEF linkVars, ioVars, readVars, writeVars, pathVars
<1>2. CASE ReadPart
  <2>1. CASE Len(Resumed) >= MaxLine
    BY <1>2, <2>1, ReturnClocks DEF ReadPart
  <2>2. CASE ~(Len(Resumed) >= MaxLine)
    <3>1. /\ UNCHANGED <<io, last_heard, next_tick, blocked, to_write, room, jammed, hole>>
          /\ incoming' = SubSeq(incoming, Upto(incoming) + 1, Len(incoming))
          /\ ~HasNewline(incoming)
      BY <1>2, <2>2 DEF ReadPart, Consume, ioVars, writeVars, pathVars
    <3>2. incoming = <<>> => incoming' = <<>>
      BY <3>1 DEF Upto
    <3> QED  BY <3>1, <3>2, ReadClocks
  <2> QED  BY <2>1, <2>2
<1>3. ASSUME NEW p \in BOOLEAN, ReadWhole(p)  PROVE ClocksOK' /\ HoleInv'
  <2>1. incoming # <<>> /\ io = "select"
    BY <1>3 DEF ReadWhole, HasNewline
  <2>2. CASE \E how : Return(how)
    BY <2>2, ReturnClocks
  <2>3. CASE /\ last_heard' = 0
             /\ UNCHANGED <<io, next_tick, blocked, to_write, room, jammed, hole>>
    BY <2>1, <2>3, ReadClocks
  <2> QED  BY <1>3, <2>2, <2>3 DEF ReadWhole, writeVars, pathVars
<1>4. CASE ReadFails \/ DropSilent \/ poll_stalled \/ Shutdown
  BY <1>4, ReturnClocks DEF ReadFails, DropSilent, poll_stalled, Shutdown
<1>5. CASE SendTemplate
  BY <1>5, WriteClocks, LinkSizes
  DEF SendTemplate, StartWrite, ioVars, pathVars, Up, Stuck, Writing, ClocksOK
<1>6. CASE SendHeartbeat
  BY <1>6, WriteClocks, LinkSizes
  DEF SendHeartbeat, TickDue, StartWrite, pathVars, Up, Stuck, Writing, ClocksOK
<1>7. CASE Recheck \/ Woken
  BY <1>7, WriteClocks
  DEF Recheck, TickDue, Woken, ioVars, readVars, writeVars, pathVars, Up, Stuck, Writing, ClocksOK
<1>8. CASE poll_write
  BY <1>8, WriteClocks
  DEF poll_write, ioVars, readVars, pathVars, Up, Stuck, Writing, ClocksOK
<1>9. CASE WriteDone
  BY <1>9, WriteClocks
  DEF WriteDone, ioVars, readVars, writeVars, pathVars, Up, Stuck, Writing, ClocksOK
<1>10. ASSUME NEW part \in {"a", "z"}, VerifierSends(part)  PROVE ClocksOK' /\ HoleInv'
  BY <1>10 DEF VerifierSends, ioVars, writeVars, ClocksOK, HoleInv
<1>11. CASE VerifierReads
  BY <1>11, LinkSizes DEF VerifierReads, ioVars, pathVars, ClocksOK, HoleInv
<1>12. CASE PathDies
  <2>1. /\ Up /\ hole' = 0 /\ UNCHANGED <<io, incoming, jammed, ioVars, writeVars>>
    BY <1>12 DEF PathDies, readVars
  <2>2. Up' /\ DeadFor' = 0 - jammed /\ jammed \in Nat
    BY <2>1, LinkSizes DEF Up, DeadFor, ClocksOK
  <2> QED  BY <2>1, <2>2, LinkSizes DEF ClocksOK, HoleInv, ioVars, writeVars
<1>13. CASE DriverTurn
  BY <1>13, ReadClocks DEF DriverTurn, ioVars, writeVars, pathVars
<1>14. CASE LinkTime
  BY <1>14, TimeClocks
<1> QED
  BY <1>1, <1>2, <1>3, <1>4, <1>5, <1>6, <1>7, <1>8, <1>9, <1>10, <1>11, <1>12, <1>13, <1>14,
     Zenon DEF LinkNext

\* The fact that rests on all of the loop: its four states.
StatesOK == io \in {"select", "template", "heartbeat", "recheck"} \/ ~Up

\* A part that arrives leaves a waiting newline where it was.
LEMMA NewlineStays ==
  ASSUME incoming \in Seq({"a", "z"}), NEW part \in {"a", "z"}, HasNewline(incoming)
  PROVE  HasNewline(Append(incoming, part))
BY DEF HasNewline

\* The loop has just begun: nothing is rechecked.
LEMMA InitRecheck == LinkInit => RecheckInv
BY DEF LinkInit, Fresh, RecheckInv, AnswerIsRead

\* A loop that returns for another reason than silence.
LEMMA ReturnRecheck ==
  ASSUME NEW how \in {"over", "malformed", "closed", "stalled", "shutdown"}, Return(how)
  PROVE  RecheckInv'
<1>1. io' = how /\ rechecking' = FALSE
  BY ReturnIs, Zenon
<1> QED  BY <1>1 DEF RecheckInv, AnswerIsRead

\* Every step keeps an answer that was there from being overlooked.
LEMMA StepRecheck ==
  ASSUME Jam <= read_deadline, ClocksOK, incoming \in Seq({"a", "z"}),
         RecheckInv, [LinkNext]_linkVars
  PROVE  RecheckInv'
<1>0. /\ last_heard \in Nat /\ jammed \in 0 .. Jam /\ next_tick \in 0 .. Interval
  BY DEF ClocksOK
<1>1. CASE UNCHANGED linkVars
  BY <1>1 DEF linkVars, ioVars, readVars, pathVars, RecheckInv, AnswerIsRead, HasNewline
<1>2. CASE ReadPart
  <2>1. CASE Len(Resumed) >= MaxLine
    BY <1>2, <2>1, ReturnRecheck DEF ReadPart
  <2>2. CASE ~(Len(Resumed) >= MaxLine)
    BY <1>2, <2>2 DEF ReadPart, ioVars, pathVars, RecheckInv, AnswerIsRead
  <2> QED  BY <2>1, <2>2
<1>3. ASSUME NEW p \in BOOLEAN, ReadWhole(p)  PROVE RecheckInv'
  <2>1. CASE Return("over") \/ Return("malformed")
    BY <2>1, ReturnRecheck
  <2>2. CASE last_heard' = 0 /\ UNCHANGED <<io, next_tick, rechecking, unread, jammed>>
    <3>1. last_heard' <= jammed'
      BY <1>0, <2>2, LinkSizes
    <3>2. io = "select"
      BY <1>3 DEF ReadWhole
    <3> QED  BY <2>2, <3>1, <3>2 DEF RecheckInv, AnswerIsRead
  <2> QED  BY <1>3, <2>1, <2>2 DEF ReadWhole, pathVars
<1>4. CASE ReadFails \/ poll_stalled \/ Shutdown
  BY <1>4, ReturnRecheck DEF ReadFails, poll_stalled, Shutdown
<1>5. CASE SendTemplate
  BY <1>5 DEF SendTemplate, StartWrite, ioVars, pathVars, RecheckInv, AnswerIsRead
<1>6. CASE SendHeartbeat
  BY <1>6 DEF SendHeartbeat, StartWrite, RecheckInv, AnswerIsRead
<1>7. CASE Recheck
  BY <1>7 DEF Recheck, TickDue, readVars, RecheckInv, AnswerIsRead, HasNewline
<1>8. CASE Woken
  <2>1. HasNewline(incoming) => incoming # <<>>
    BY DEF HasNewline
  <2> QED  BY <1>8, <2>1, Zenon DEF Woken, ioVars, pathVars, RecheckInv, AnswerIsRead, HasNewline
<1>9. CASE DropSilent
  <2>1. last_heard > jammed
    BY <1>0, <1>9, LinkSizes DEF DropSilent, Silent
  <2>2. ~(last_heard <= jammed)
    BY <1>0, <2>1, LinkSizes
  <2>3. ~unread
    BY <1>9, <2>2 DEF DropSilent, TickDue, RecheckInv
  <2>4. unread' = unread /\ io' = "silent" /\ rechecking' = FALSE
    BY <1>9, ReturnIs, Zenon DEF DropSilent
  <2> QED  BY <2>3, <2>4 DEF RecheckInv, AnswerIsRead
<1>10. CASE poll_write \/ WriteDone
  BY <1>10 DEF poll_write, WriteDone, Writing, ioVars, readVars, pathVars, RecheckInv, AnswerIsRead
<1>11. ASSUME NEW part \in {"a", "z"}, VerifierSends(part)  PROVE RecheckInv'
  <2>1. /\ UNCHANGED <<io, unread, last_heard, next_tick, rechecking, ready, jammed>>
        /\ incoming' = Append(incoming, part)
    BY <1>11 DEF VerifierSends, ioVars
  <2>2. HasNewline(incoming) => HasNewline(incoming)'
    BY <2>1, NewlineStays DEF HasNewline
  <2> QED  BY <2>1, <2>2 DEF RecheckInv, AnswerIsRead
<1>12. CASE VerifierReads \/ PathDies
  BY <1>12 DEF VerifierReads, PathDies, ioVars, readVars, pathVars, RecheckInv, AnswerIsRead,
               HasNewline
<1>13. CASE DriverTurn
  BY <1>13 DEF DriverTurn, ioVars, pathVars, RecheckInv, AnswerIsRead, HasNewline
<1>14. CASE LinkTime
  <2>1. /\ UNCHANGED <<io, unread, rechecking, ready, incoming>>
        /\ last_heard' = Aged /\ next_tick' = Less(next_tick)
    BY <1>14 DEF LinkTime, readVars
  <2>2. rechecking => io = "template" \/ Busy
    BY DEF RecheckInv, Busy
  <2>3. jammed' = jammed \/ (Busy /\ jammed' = jammed + 1)
    BY <1>14 DEF LinkTime
  <2>4. ASSUME rechecking, last_heard <= jammed  PROVE last_heard' <= jammed'
    <3>1. CASE io = "template"
      BY <1>0, <2>1, <2>3, <2>4, <3>1, LinkSizes DEF Aged
    <3>2. CASE io # "template"
      <4>1. jammed' = jammed + 1
        BY <1>14, <2>2, <2>4, <3>2 DEF LinkTime
      <4> QED  BY <1>0, <2>1, <2>4, <3>2, <4>1, LinkSizes DEF Aged
    <3> QED  BY <3>1, <3>2
  <2>5. next_tick = 0 => next_tick' = 0
    BY <2>1 DEF Less
  <2> QED  BY <2>1, <2>4, <2>5 DEF RecheckInv, AnswerIsRead, HasNewline
<1> QED
  BY <1>1, <1>2, <1>3, <1>4, <1>5, <1>6, <1>7, <1>8, <1>9, <1>10, <1>11, <1>12, <1>13, <1>14,
     Zenon DEF LinkNext

Part == {"a", "z"}

\* A sequence of one part, or of two, is told by its parts.
LEMMA OneLong ==
  ASSUME NEW s \in Seq(Part), NEW x \in Part, Len(s) = 1, s[1] = x
  PROVE  s = <<x>>
<1>1. <<x>> \in Seq(Part) /\ Len(<<x>>) = 1 /\ <<x>>[1] = x
  OBVIOUS
<1> QED  BY <1>1

LEMMA TwoLong ==
  ASSUME NEW s \in Seq(Part), NEW x \in Part, NEW y \in Part, Len(s) = 2, s[1] = x, s[2] = y
  PROVE  s = <<x, y>>
<1>1. <<x, y>> \in Seq(Part) /\ Len(<<x, y>>) = 2 /\ <<x, y>>[1] = x /\ <<x, y>>[2] = y
  OBVIOUS
<1>2. \A i \in 1 .. Len(s) : i = 1 \/ i = 2
  OBVIOUS
<1>3. \A i \in 1 .. Len(s) : s[i] = <<x, y>>[i]
  BY <1>1, <1>2
<1> QED  BY <1>1, <1>3

LEMMA Appended ==
  ASSUME NEW x \in Part, NEW y \in Part
  PROVE  Append(<<x>>, y) = <<x, y>>
<1> DEFINE s == Append(<<x>>, y)
<1>1. s \in Seq(Part) /\ Len(s) = 2 /\ s[1] = x /\ s[2] = y
  OBVIOUS
<1> HIDE DEF s
<1>2. s = <<x, y>>
  BY <1>1, TwoLong
<1> QED  BY <1>2 DEF s

LEMMA LinesApart ==
  /\ Start # <<>> /\ End # <<>> /\ Whole # <<>> /\ Endless # <<>> /\ EndStart # <<>>
  /\ Start # End /\ Start # Whole /\ Start # Endless /\ Start # EndStart
  /\ End # Whole /\ End # Endless /\ End # EndStart
  /\ Whole # Endless /\ Whole # EndStart /\ Endless # EndStart
BY DEF Start, End, Whole, Endless, EndStart

LEMMA LinesAreParts ==
  /\ <<>> \in Seq(Part) /\ Start \in Seq(Part) /\ End \in Seq(Part) /\ Whole \in Seq(Part)
  /\ Endless \in Seq(Part) /\ EndStart \in Seq(Part)
BY DEF Start, End, Whole, Endless, EndStart, Part

LEMMA Newlines ==
  /\ ~HasNewline(<<>>) /\ ~HasNewline(Start) /\ ~HasNewline(Endless)
  /\ HasNewline(End) /\ HasNewline(Whole) /\ HasNewline(EndStart)
BY DEF HasNewline, Start, End, Whole, Endless, EndStart

LEMMA Cuts ==
  /\ Upto(<<>>) = 0 /\ Upto(Start) = 1 /\ Upto(Endless) = 2
  /\ Upto(End) = 1 /\ Upto(Whole) = 2 /\ Upto(EndStart) = 1
BY DEF HasNewline, Upto, Start, End, Whole, Endless, EndStart

\* What a read leaves behind.
LEMMA Remaining ==
  /\ SubSeq(<<>>, 1, 0) = <<>> /\ SubSeq(Start, 2, 1) = <<>> /\ SubSeq(End, 2, 1) = <<>>
  /\ SubSeq(Whole, 3, 2) = <<>> /\ SubSeq(EndStart, 2, 2) = Start
  /\ Len(<<>>) = 0 /\ Len(Start) = 1 /\ Len(End) = 1 /\ Len(Whole) = 2
  /\ Len(Endless) = 2 /\ Len(EndStart) = 2
<1> DEFINE s == SubSeq(EndStart, 2, 2)
<1>1. s \in Seq(Part) /\ Len(s) = 1 /\ s[1] = "a" /\ "a" \in Part
  BY DEF Part, EndStart
<1> HIDE DEF s
<1>2. s = Start
  BY <1>1, OneLong DEF Start
<1>3. /\ SubSeq(<<>>, 1, 0) = <<>> /\ SubSeq(Start, 2, 1) = <<>> /\ SubSeq(End, 2, 1) = <<>>
      /\ SubSeq(Whole, 3, 2) = <<>>
  BY DEF Start, End, Whole
<1>4. /\ Len(<<>>) = 0 /\ Len(Start) = 1 /\ Len(End) = 1 /\ Len(Whole) = 2
      /\ Len(Endless) = 2 /\ Len(EndStart) = 2
  BY DEF Start, End, Whole, Endless, EndStart
<1> QED  BY <1>2, <1>3, <1>4 DEF s

\* The ways in which a line comes in, and those in which it grows too long.
LEMMA Joined ==
  /\ Start \o SubSeq(End, 1, 1) = Whole
  /\ Start \o SubSeq(EndStart, 1, 1) = Whole
  /\ <<>> \o SubSeq(Whole, 1, 2) = Whole
  /\ <<>> \o SubSeq(Start, 1, 1) = Start
  /\ Len(Start \o SubSeq(Whole, 1, 2)) = 3
  /\ Len(Start \o SubSeq(Start, 1, 1)) = 2
  /\ Len(<<>> \o SubSeq(Endless, 1, 2)) = 2
  /\ Len(Start \o SubSeq(Endless, 1, 2)) = 3
  /\ <<>> \o SubSeq(<<>>, 1, 0) = <<>> /\ Start \o SubSeq(<<>>, 1, 0) = Start
<1> DEFINE s == Start \o SubSeq(End, 1, 1)
           t == Start \o SubSeq(EndStart, 1, 1)
           u == <<>> \o SubSeq(Whole, 1, 2)
           v == <<>> \o SubSeq(Start, 1, 1)
           w == Start \o SubSeq(<<>>, 1, 0)
<1>0. "a" \in Part /\ "z" \in Part
  BY DEF Part
<1>1. s \in Seq(Part) /\ Len(s) = 2 /\ s[1] = "a" /\ s[2] = "z"
  BY DEF Part, Start, End
<1>2. t \in Seq(Part) /\ Len(t) = 2 /\ t[1] = "a" /\ t[2] = "z"
  BY DEF Part, Start, EndStart
<1>3. u \in Seq(Part) /\ Len(u) = 2 /\ u[1] = "a" /\ u[2] = "z"
  BY DEF Part, Whole
<1>4. v \in Seq(Part) /\ Len(v) = 1 /\ v[1] = "a"
  BY DEF Part, Start
<1>5. w \in Seq(Part) /\ Len(w) = 1 /\ w[1] = "a"
  BY DEF Part, Start
<1> HIDE DEF s, t, u, v, w
<1>6. s = Whole /\ t = Whole /\ u = Whole
  BY <1>0, <1>1, <1>2, <1>3, TwoLong DEF Whole
<1>7. v = Start /\ w = Start
  BY <1>0, <1>4, <1>5, OneLong DEF Start
<1>8. /\ Len(Start \o SubSeq(Whole, 1, 2)) = 3 /\ Len(Start \o SubSeq(Start, 1, 1)) = 2
      /\ Len(<<>> \o SubSeq(Endless, 1, 2)) = 2 /\ Len(Start \o SubSeq(Endless, 1, 2)) = 3
  BY DEF Start, Whole, Endless
<1>9. <<>> \o SubSeq(<<>>, 1, 0) = <<>>
  OBVIOUS
<1> QED  BY <1>6, <1>7, <1>8, <1>9 DEF s, t, u, v, w

\* A loop that returns forgets what it had read.
LEMMA ReturnStream ==
  ASSUME NEW how, Return(how), ~torn'
  PROVE  StreamInv'
<1>1. line_buf' = <<>> /\ incoming' = <<>> /\ half' = FALSE
  BY ReturnIs, Zenon
<1> QED  BY <1>1, LinesApart, Zenon DEF StreamInv, LinesIntact

\* A part of a line is read.
LEMMA ReadPartStream ==
  ASSUME StreamInv, ReadPart
  PROVE  StreamInv'
<1>0. ~torn' /\ ~torn /\ ~HasNewline(incoming)
  BY DEF ReadPart, StreamInv, LinesIntact
<1>1. CASE Return("over")
  BY <1>0, <1>1, ReturnStream
<1>2. CASE line_buf' = Resumed /\ Consume /\ half' = half /\ Len(Resumed) < 2
  <2>1. incoming' = SubSeq(incoming, Upto(incoming) + 1, Len(incoming))
    BY <1>2 DEF Consume
  <2>2. incoming \in {<<>>, Start, Endless}
    BY <1>0, Newlines, Zenon DEF StreamInv
  <2>3. CASE incoming = <<>>
    <3>1. incoming' = <<>>
      BY <2>1, <2>3, Cuts, Remaining
    <3>2. line_buf' = line_buf
      BY <1>2, <2>3, Cuts, Joined DEF Resumed, StreamInv
    <3> QED  BY <1>0, <1>2, <2>3, <3>1, <3>2, LinesApart, Zenon DEF StreamInv, LinesIntact
  <2>4. CASE incoming = Start
    <3>1. incoming' = <<>>
      BY <2>1, <2>4, Cuts, Remaining
    <3>2. line_buf # Start
      BY <1>2, <2>4, Cuts, Joined DEF Resumed
    <3>3. line_buf' = Start
      BY <1>2, <2>4, <3>2, Cuts, Joined DEF Resumed, StreamInv
    <3> QED  BY <1>0, <1>2, <3>1, <3>3, LinesApart, Zenon DEF StreamInv, LinesIntact
  <2>5. CASE incoming = Endless
    BY <1>2, <2>5, Cuts, Joined DEF Resumed, StreamInv
  <2> QED  BY <2>2, <2>3, <2>4, <2>5, Zenon
<1>3. Len(Resumed) \in Int
  BY LinesAreParts, Cuts DEF Resumed, StreamInv
<1> QED  BY <1>1, <1>2, <1>3 DEF ReadPart, MaxLine, pathVars

\* The end of a line is read.
LEMMA ReadWholeStream ==
  ASSUME StreamInv, NEW p \in BOOLEAN, ReadWhole(p)
  PROVE  StreamInv'
<1>0. /\ ~torn /\ HasNewline(incoming)
      /\ torn' = (torn \/ (Len(Resumed) <= 2 /\ Resumed # Whole))
  BY DEF ReadWhole, StreamInv, LinesIntact, MaxLine, Whole
<1>1. \/ line_buf = Start /\ incoming \in {End, EndStart, Whole}
      \/ line_buf = <<>> /\ incoming = Whole
  BY <1>0, Newlines, Zenon DEF StreamInv
<1>2. \/ Len(Resumed) = 3
      \/ Resumed = Whole /\ Len(Resumed) = 2
  BY <1>1, Cuts, Joined, Remaining DEF Resumed
<1>3. ~torn'
  <2>1. Len(Resumed) = 3 => ~(Len(Resumed) <= 2)
    OBVIOUS
  <2> QED  BY <1>0, <1>2, <2>1, Zenon
<1>4. CASE \E how \in {"over", "malformed"} : Return(how)
  BY <1>3, <1>4, ReturnStream
<1>5. CASE Len(Resumed) = 2 /\ line_buf' = <<>> /\ Consume /\ half' = half
  <2>1. incoming' = SubSeq(incoming, Upto(incoming) + 1, Len(incoming))
    BY <1>5 DEF Consume
  <2>2. CASE incoming = End \/ incoming = Whole
    <3>1. incoming' = <<>>
      <4>1. CASE incoming = End
        BY <2>1, <4>1, Cuts, Remaining
      <4>2. CASE incoming = Whole
        BY <2>1, <4>2, Cuts, Remaining
      <4> QED  BY <2>2, <4>1, <4>2
    <3>2. ~half
      BY <2>2, Zenon DEF StreamInv
    <3> QED  BY <1>3, <1>5, <3>1, <3>2, LinesApart, Zenon DEF StreamInv, LinesIntact
  <2>3. CASE incoming = EndStart
    <3>1. incoming' = Start
      BY <2>1, <2>3, Cuts, Remaining
    <3> QED  BY <1>3, <1>5, <3>1, LinesApart, Zenon DEF StreamInv, LinesIntact
  <2> QED  BY <1>1, <2>2, <2>3, Zenon
<1> QED  BY <1>2, <1>4, <1>5 DEF ReadWhole, MaxLine, pathVars

\* The verifier sends a part.
LEMMA SendsStream ==
  ASSUME StreamInv, NEW part \in Part, VerifierSends(part)
  PROVE  StreamInv'
<1>1. /\ Len(incoming) < 2 /\ (part = "z" => half) /\ UNCHANGED <<line_buf, torn>>
      /\ incoming' = Append(incoming, part) /\ half' = (part = "a")
  BY DEF VerifierSends
<1>2. incoming \in {<<>>, Start, End}
  BY <1>1, Remaining DEF StreamInv
<1>3. part = "a" \/ part = "z"
  BY DEF Part
<1>4. CASE incoming = <<>>
  <2>1. incoming' = IF part = "a" THEN Start ELSE End
    BY <1>1, <1>3, <1>4 DEF Start, End
  <2> QED  BY <1>1, <1>3, <1>4, <2>1, LinesApart, Zenon DEF StreamInv, LinesIntact
<1>5. CASE incoming = Start
  <2>1. incoming' = IF part = "a" THEN Endless ELSE Whole
    BY <1>1, <1>3, <1>5, Appended DEF Start, Endless, Whole, Part
  <2>2. part = "z" => half' = FALSE
    BY <1>1, Zenon
  <2> QED  BY <1>1, <1>3, <1>5, <2>1, <2>2, LinesApart, Zenon DEF StreamInv, LinesIntact
<1>6. CASE incoming = End
  <2>1. part = "a"
    BY <1>1, <1>3, <1>6, Zenon DEF StreamInv
  <2>2. incoming' = EndStart
    BY <1>1, <1>6, <2>1, Appended DEF End, EndStart, Part
  <2> QED  BY <1>1, <1>6, <2>1, <2>2, LinesApart, Zenon DEF StreamInv, LinesIntact
<1> QED  BY <1>2, <1>4, <1>5, <1>6, Zenon

\* Every step keeps the lines as they were sent.
LEMMA StepStream ==
  ASSUME StreamInv, [LinkNext]_linkVars
  PROVE  StreamInv'
<1>1. CASE UNCHANGED <<line_buf, incoming, half, torn>>
  BY <1>1, Zenon DEF StreamInv, LinesIntact
<1>2. CASE ReadFails \/ DropSilent \/ poll_stalled \/ Shutdown
  BY <1>2, ReturnStream DEF ReadFails, DropSilent, poll_stalled, Shutdown, StreamInv, LinesIntact
<1>3. CASE SendTemplate \/ SendHeartbeat
  BY <1>1, <1>3 DEF SendTemplate, SendHeartbeat, StartWrite, Kept, pathVars
<1>4. CASE \/ UNCHANGED linkVars \/ Recheck \/ Woken \/ poll_write \/ WriteDone
           \/ VerifierReads \/ PathDies \/ DriverTurn \/ LinkTime
  BY <1>1, <1>4, Zenon DEF linkVars, readVars, pathVars, Recheck, Woken, poll_write, WriteDone,
                    VerifierReads, PathDies, DriverTurn, LinkTime
<1>5. ASSUME NEW part \in {"a", "z"}, VerifierSends(part)  PROVE StreamInv'
  BY <1>5, SendsStream DEF Part
<1> QED
  BY <1>2, <1>3, <1>4, <1>5, ReadPartStream, ReadWholeStream, Zenon DEF LinkNext

(* verifier_stream.rs.  A path that swallows everything is given up within    *)
(* seven heartbeat intervals, a verifier whose answer had arrived is not      *)
(* dropped as silent, and no line is torn by what interrupts its read, for    *)
(* every interval, send buffer and template size, if the runtime does not     *)
(* hold the loop up for longer than the read deadline.                        *)
THEOREM LinkHoldsAlways ==
  ASSUME Jam <= read_deadline
  PROVE  LinkSpec => []LinkHolds
<1> DEFINE LinkInv == ClocksOK /\ HoleInv /\ RecheckInv /\ StreamInv
<1>1. LinkInit => LinkInv
  <2>1. LinkInit => StreamInv
    BY LinesApart, Zenon DEF LinkInit, Fresh, StreamInv, LinesIntact
  <2> QED  BY <2>1, InitClocks, InitRecheck
<1>2. LinkInv /\ [LinkNext]_linkVars => LinkInv'
  <2>1. StreamInv => incoming \in Seq({"a", "z"})
    BY LinesAreParts, Zenon DEF StreamInv, Part
  <2> QED  BY <2>1, StepClocks, StepRecheck, StepStream
<1>3. LinkInv => LinkHolds
  <2>1. ClocksOK /\ HoleInv => HoleIsDropped
    BY LinkSizes DEF ClocksOK, HoleInv, HoleIsDropped, DeadFor, NoHole
  <2> QED  BY <2>1 DEF RecheckInv, StreamInv, LinkHolds
<1> QED  BY <1>1, <1>2, <1>3, PTL DEF LinkSpec
==============================================================================
