----------------------------- MODULE ShareClock -----------------------------
(* The ntime rule of a mining channel (services/sv2-gateway/src): the         *)
(* min_ntime a job is published with (jobs.rs, main.rs), what a channel       *)
(* remembers of it (channels.rs), and the bounds a share's ntime is held to   *)
(* (shares.rs, step 3 of handle_submit_shares).                               *)
(*                                                                            *)
(* The miner follows the SV2 rule: on a job it was given with a min_ntime it  *)
(* submits times from there up to min_ntime plus the seconds that passed      *)
(* since it was given the job.  One unit of time is a second of both clocks.  *)
EXTENDS Integers

CONSTANTS
  SlackSeconds,       \* ntime_elapsed_slack_seconds
  MaxFuture,          \* max_future_block_time_seconds
  SkewAllowance,      \* the skew effective_min_ntime allows
  RefreshGap,         \* seconds within which a template follows the last one
  TemplateDelay,      \* seconds a template may be old when its job is published
  TemplateLead,       \* seconds the node's clock may be ahead of the gateway's
  MaxU32,             \* largest u32
  ClockStart,         \* the time the model starts at
  ClockEnd            \* bound: the time it ends at

ASSUME ClockConstants ==
  /\ SlackSeconds \in Nat /\ MaxFuture \in Nat /\ SkewAllowance \in Nat
  /\ RefreshGap \in Nat /\ TemplateDelay \in Nat /\ TemplateLead \in Nat
  /\ MaxU32 \in Nat /\ ClockStart \in Nat /\ ClockEnd \in Nat
  /\ TemplateDelay <= ClockStart /\ ClockStart <= ClockEnd /\ ClockEnd <= MaxU32

\* The slack covers a refresh, a late template and a node clock that is ahead.
ASSUME SlackCovers ==
  /\ SlackSeconds >= RefreshGap + TemplateDelay + TemplateLead
  /\ MaxFuture >= TemplateLead

VARIABLES
  clock,      \* UNIX time of the gateway
  published,  \* latest_job: [curtime, activation, update, born]
  chan,       \* the channel: [open, activation, at], Unset before a prevhash
  given       \* what the miner works on: [min, at]

clockVars == <<clock, published, chan, given>>

Unset == -1
Low(a, b) == IF a < b THEN a ELSE b
High(a, b) == IF a > b THEN a ELSE b
saturating_add(a, b) == Low(a + b, MaxU32)

NoJob == [curtime |-> 0, activation |-> 0, update |-> TRUE, born |-> Unset]
ClosedChannel == [open |-> FALSE, activation |-> Unset, at |-> Unset]

ClockInit ==
  /\ clock = ClockStart
  /\ published = NoJob
  /\ chan = ClosedChannel
  /\ given = [min |-> Unset, at |-> Unset]

effective_min_ntime(min, curtime, now) ==
  Low(High(min, curtime), saturating_add(now, SkewAllowance))

\* NewMiningJob, and SetNewPrevHash when the job carries an update.
GiveToMiner(j) ==
  /\ given' = [min |-> j.activation, at |-> clock]
  /\ chan' = [open |-> TRUE,
              activation |-> IF j.update THEN j.activation ELSE chan.activation,
              at |-> IF j.update THEN clock ELSE chan.at]

\* broadcast_job_from_template, and distribute_job on an open channel.
PublishJob(curtime, min, update) ==
  /\ published.curtime <= curtime /\ curtime <= MaxU32
  /\ published.born = Unset => update
  /\ LET j == [curtime |-> curtime, activation |-> effective_min_ntime(min, curtime, clock),
               update |-> update, born |-> clock] IN
       /\ published' = j
       /\ IF chan.open THEN GiveToMiner(j) ELSE UNCHANGED <<chan, given>>
  /\ UNCHANGED clock

\* A channel is opened on the latest job.
OpenOnLatest ==
  /\ ~chan.open /\ published.born # Unset
  /\ GiveToMiner(published)
  /\ UNCHANGED <<clock, published>>

\* The miner goes, and may come back later.
CloseMining ==
  /\ chan.open
  /\ chan' = ClosedChannel
  /\ given' = [min |-> Unset, at |-> Unset]
  /\ UNCHANGED <<clock, published>>

\* The template-manager publishes again within RefreshGap seconds.
SecondPasses ==
  /\ clock < ClockEnd
  /\ published.born # Unset => clock - published.born < RefreshGap
  /\ clock' = clock + 1
  /\ UNCHANGED <<published, chan, given>>

ClockNext ==
  \/ \E off \in -TemplateDelay .. TemplateLead, update \in BOOLEAN :
       PublishJob(clock + off, ClockStart - TemplateDelay, update)
  \/ OpenOnLatest \/ CloseMining \/ SecondPasses

ClockSpec == ClockInit /\ [][ClockNext]_clockVars

----------------------------------------------------------------------------
\* Variant: no slack beyond the time that has passed.
NtimeBoundsExact(ntime, activation, elapsed) ==
  /\ ntime >= activation
  /\ ntime <= saturating_add(activation, elapsed)
  /\ ntime <= saturating_add(clock, MaxFuture)

check_ntime_bounds(ntime, activation, elapsed) ==
  /\ ntime >= activation
  /\ ntime <= saturating_add(saturating_add(activation, elapsed), SlackSeconds)
  /\ ntime <= saturating_add(clock, MaxFuture)

\* Step 3: the channel's own tracking, or the job's activation and no time.
NtimeAccepted(ntime) ==
  check_ntime_bounds(ntime,
                     IF chan.activation # Unset THEN chan.activation ELSE published.activation,
                     IF chan.at # Unset THEN clock - chan.at ELSE 0)

\* One type invariant for the module.
ClockTypeOK ==
  /\ clock \in ClockStart .. ClockEnd
  /\ published \in [curtime : 0 .. MaxU32, activation : 0 .. MaxU32, update : BOOLEAN,
                    born : {Unset} \union 0 .. ClockEnd]
  /\ chan \in [open : BOOLEAN, activation : {Unset} \union 0 .. MaxU32,
               at : {Unset} \union 0 .. ClockEnd]
  /\ given \in [min : {Unset} \union 0 .. MaxU32, at : {Unset} \union 0 .. ClockEnd]

(* shares.rs:206-213.  As long as templates keep coming within the slack, a   *)
(* miner that rolls ntime from the min_ntime it was given is not refused for  *)
(* it: not on a channel opened late in a block, not on a refresh, not on a    *)
(* channel that was never sent a prevhash, and not near the end of u32.       *)
RolledTimeAccepted ==
  chan.open =>
    \A ntime \in given.min .. saturating_add(given.min, clock - given.at) : NtimeAccepted(ntime)

(* shares.rs:206-219, jobs.rs:187-198.  No accepted time is further ahead of  *)
(* the gateway's clock than the slack and the skew allowance together,        *)
(* whatever the node's clock said and however long ago the channel was told   *)
(* of its block.                                                              *)
NoTimeFromTheFuture ==
  chan.open =>
    \A ntime \in 0 .. MaxU32 :
      NtimeAccepted(ntime) => ntime <= clock + Low(MaxFuture, SkewAllowance + SlackSeconds)

(* shares.rs:189-227.  The ntime rule from both sides: what the miner may     *)
(* roll to is accepted, and nothing is accepted from the future.              *)
NtimeWindow == RolledTimeAccepted /\ NoTimeFromTheFuture
=============================================================================
