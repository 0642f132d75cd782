----------------------------- MODULE MinerClient -----------------------------
(* The test miner (services/test-miner/src/session.rs, transport.rs, main.rs) *)
(* on one channel of the gateway, which is here what handler.rs lets a client *)
(* see: an answer to each message, jobs, and SetNewPrevHash with a new block  *)
(* (it never closes a standard channel itself, and the miner ignores targets  *)
(* after the first).                                                          *)
(*                                                                            *)
(* The miner's read_frame takes a length and then as many bytes.  In the      *)
(* steady state it runs beside the share timer in a select!, and a timer that *)
(* fires between the two reads drops the length that was read: the stream is  *)
(* out of step from there on and nothing decrypts any more.                   *)
EXTENDS Integers, Sequences

CONSTANTS
  NumShares,     \* num_shares
  JobTimeout,    \* job_timeout_secs, in periods of the share timer
  LastClientJob  \* bound: jobs the gateway publishes

ASSUME ClientConstants == {NumShares, JobTimeout} \subseteq Nat \ {0} /\ LastClientJob \in Nat

VARIABLES
  miner,       \* the miner's stage
  exited,      \* its exit code, "" while it runs
  midFrame,    \* a read_frame in progress has taken a frame's length
  outOfStep,   \* ... and one was dropped there
  assigned,    \* current_job and current_prevhash, 0 for none
  submitted,   \* shares_submitted
  won,         \* shares_accepted
  periods,     \* ticks of share_timer in the steady state
  inbound,     \* frames on their way to the miner
  outbound,    \* messages on their way to the gateway
  gwSide,      \* the gateway's channel: [open, job, prev] with 0 for none
  gwJob,       \* its latest_job: [job, prev, update]
  credited     \* history: shares the gateway answered with success

sideVars == <<gwSide, gwJob, credited>>
clientVars == <<miner, exited, midFrame, outOfStep, assigned, submitted, won, periods,
                inbound, outbound, sideVars>>

FrameOf(kind, n) == [kind |-> kind, n |-> n]
Message(kind, job, prev) == [kind |-> kind, job |-> job, prev |-> prev]

ClientInit ==
  /\ miner = "connect" /\ exited = ""
  /\ midFrame = FALSE /\ outOfStep = FALSE
  /\ assigned = [job |-> 0, prev |-> 0]
  /\ submitted = 0 /\ won = 0 /\ periods = 0
  /\ inbound = <<>> /\ outbound = <<>>
  /\ gwSide = [open |-> FALSE, job |-> 0, prev |-> 0]
  /\ gwJob = [job |-> 0, prev |-> 0, update |-> TRUE]
  /\ credited = 0

----------------------------------------------------------------------------
(* The gateway's side. *)

\* NewMiningJob, and SetNewPrevHash when the job carries an update.
JobFrames(l) ==
  <<FrameOf("job", l.job)>> \o (IF l.update THEN <<FrameOf("prev", l.prev)>> ELSE <<>>)

Holding(l) == [open |-> TRUE, job |-> l.job, prev |-> IF l.update THEN l.prev ELSE gwSide.prev]

\* Every job of a new block carries an update; a refresh of the block does not.
PublishNext(update) ==
  /\ gwJob.job < LastClientJob
  /\ gwJob.job = 0 => update
  /\ gwJob' = [job |-> gwJob.job + 1, update |-> update,
                prev |-> IF update THEN gwJob.prev + 1 ELSE gwJob.prev]
  /\ IF gwSide.open
       THEN gwSide' = Holding(gwJob') /\ inbound' = inbound \o JobFrames(gwJob')
       ELSE UNCHANGED <<gwSide, inbound>>
  /\ UNCHANGED <<miner, exited, midFrame, outOfStep, assigned, submitted, won, periods, outbound,
                 credited>>

\* Setup and open are answered, or refused; the open's answer is followed by
\* SetTarget and the latest job.
AnswerOpen(ok) ==
  /\ outbound # <<>> /\ Head(outbound).kind \in {"setup", "open"}
  /\ outbound' = Tail(outbound)
  /\ IF ok /\ Head(outbound).kind = "open"
       THEN /\ gwSide' = IF gwJob.job = 0 THEN [gwSide EXCEPT !.open = TRUE]
                                           ELSE Holding(gwJob)
            /\ inbound' = inbound \o <<FrameOf("open_success", 0), FrameOf("target", 0)>>
                         \o (IF gwJob.job = 0 THEN <<>> ELSE JobFrames(gwJob))
       ELSE /\ inbound' = Append(inbound, FrameOf(IF ok THEN "setup_success" ELSE "refused", 0))
            /\ UNCHANGED gwSide
  /\ UNCHANGED <<miner, exited, midFrame, outOfStep, assigned, submitted, won, periods, gwJob,
                 credited>>

\* A share is refused when its time is from before the gwSide's block, and may
\* be refused for its work or by a limit.
AnswerShare(ok) ==
  LET s == Head(outbound)
      good == ok /\ s.prev >= gwSide.prev
  IN
  /\ outbound # <<>> /\ s.kind = "share"
  /\ outbound' = Tail(outbound)
  /\ inbound' = Append(inbound, FrameOf(IF good THEN "success" ELSE "error", 1))
  /\ credited' = IF good THEN credited + 1 ELSE credited
  /\ UNCHANGED <<miner, exited, midFrame, outOfStep, assigned, submitted, won, periods, gwSide,
                 gwJob>>

----------------------------------------------------------------------------
(* The miner. *)

\* main: the session's result as an exit code.
ExitWith(ok, accepted) ==
  /\ miner' = "done"
  /\ exited' = IF ok /\ accepted >= NumShares THEN "success" ELSE "failure"

\* A session that ends well closes its channel; it failed if it cannot.
Complete(accepted) ==
  \E sent \in BOOLEAN :
    /\ ExitWith(sent, accepted)
    /\ outbound' = IF sent THEN Append(outbound, Message("close", 0, 0)) ELSE outbound

Connect(ok) ==
  /\ miner = "connect"
  /\ IF ok THEN /\ miner' = "setup" /\ outbound' = <<Message("setup", 0, 0)>>
                /\ UNCHANGED exited
     ELSE ExitWith(FALSE, 0) /\ UNCHANGED outbound
  /\ UNCHANGED <<midFrame, outOfStep, assigned, submitted, won, periods, inbound, sideVars>>

\* read_frame takes the length of the next frame.
ReadLength ==
  /\ miner \in {"setup", "open", "target", "steady", "drain"}
  /\ inbound # <<>> /\ ~midFrame /\ ~outOfStep
  /\ midFrame' = TRUE
  /\ UNCHANGED <<miner, exited, outOfStep, assigned, submitted, won, periods, inbound, outbound,
                 sideVars>>

\* The rest of the frame, which read_frame returns.
Received(kinds) ==
  /\ midFrame /\ Head(inbound).kind \in kinds
  /\ midFrame' = FALSE
  /\ inbound' = Tail(inbound)
  /\ UNCHANGED <<outOfStep, periods, sideVars>>

setup_connection ==
  /\ miner = "setup"
  /\ \/ /\ Received({"setup_success"})
        /\ miner' = "open" /\ outbound' = Append(outbound, Message("open", 0, 0))
        /\ UNCHANGED exited
     \/ Received({"refused"}) /\ ExitWith(FALSE, 0) /\ UNCHANGED outbound
  /\ UNCHANGED <<assigned, submitted, won>>

\* What follows the success is taken for SetTarget, whatever it is.
open_channel ==
  /\ miner \in {"open", "target"}
  /\ \/ /\ Received({"open_success", "target"})
        /\ miner' = IF miner = "open" THEN "target" ELSE "steady"
        /\ UNCHANGED exited
     \/ Received({"refused"}) /\ ExitWith(FALSE, 0)
  /\ UNCHANGED <<assigned, submitted, won, outbound>>

\* steady_state, the read arm.
TakeJob ==
  /\ miner = "steady"
  /\ Received({"job", "prev"})
  /\ assigned' = IF Head(inbound).kind = "job" THEN [assigned EXCEPT !.job = Head(inbound).n]
                                        ELSE [assigned EXCEPT !.prev = Head(inbound).n]
  /\ UNCHANGED <<miner, exited, submitted, won, outbound>>

TakeSuccess ==
  /\ miner = "steady"
  /\ Received({"success"})
  /\ won' = won + Head(inbound).n
  /\ IF won' >= NumShares THEN Complete(won') ELSE UNCHANGED <<miner, exited, outbound>>
  /\ UNCHANGED <<assigned, submitted>>

TakeError ==
  /\ miner = "steady"
  /\ Received({"error"})
  /\ UNCHANGED <<miner, exited, assigned, submitted, won, outbound>>

\* The timer drops a read that is under way.
CancelRead ==
  /\ outOfStep' = (outOfStep \/ midFrame)
  /\ midFrame' = FALSE

Ready == assigned.job # 0 /\ assigned.prev # 0

\* steady_state, the timer arm.  The last share is followed by the drain.
SubmitShare ==
  /\ miner = "steady" /\ Ready
  /\ CancelRead
  /\ outbound' = Append(outbound, Message("share", assigned.job, assigned.prev))
  /\ submitted' = submitted + 1
  /\ miner' = IF submitted' >= NumShares THEN "drain" ELSE "steady"
  /\ periods' = periods + 1
  /\ UNCHANGED <<exited, assigned, won, inbound, sideVars>>

\* Variant: the deadline is kept only until the first job came.
NoWorkYetWithoutJob ==
  /\ miner = "steady" /\ ~Ready
  /\ CancelRead
  /\ periods' = periods + 1
  /\ IF periods' >= JobTimeout /\ assigned.job = 0
       THEN ExitWith(FALSE, 0) ELSE UNCHANGED <<miner, exited>>
  /\ UNCHANGED <<assigned, submitted, won, inbound, outbound, sideVars>>

NoWorkYet ==
  /\ miner = "steady" /\ ~Ready
  /\ CancelRead
  /\ periods' = periods + 1
  /\ IF periods' >= JobTimeout THEN ExitWith(FALSE, 0) ELSE UNCHANGED <<miner, exited>>
  /\ UNCHANGED <<assigned, submitted, won, inbound, outbound, sideVars>>

\* The drain counts the answers that come and ignores the rest.
Drain ==
  /\ miner = "drain"
  /\ Received({"success", "error", "job", "prev"})
  /\ won' = IF Head(inbound).kind = "success" THEN won + Head(inbound).n ELSE won
  /\ UNCHANGED <<miner, exited, assigned, submitted, outbound>>

\* It ends when nothing comes in time, and on a frame that does not decrypt.
DrainOver ==
  /\ miner = "drain"
  /\ Complete(won)
  /\ UNCHANGED <<midFrame, outOfStep, assigned, submitted, won, periods, inbound, sideVars>>

\* Elsewhere a frame that does not decrypt, or a lost connection, is an error.
ReadFrameFails ==
  /\ miner \in {"setup", "open", "target", "steady"}
  /\ ExitWith(FALSE, 0)
  /\ UNCHANGED <<midFrame, outOfStep, assigned, submitted, won, periods, inbound, outbound,
                 sideVars>>

ClientNext ==
  \/ \E update \in BOOLEAN : PublishNext(update)
  \/ \E ok \in BOOLEAN : AnswerOpen(ok) \/ AnswerShare(ok) \/ Connect(ok)
  \/ ReadLength \/ setup_connection \/ open_channel
  \/ TakeJob \/ TakeSuccess \/ TakeError \/ SubmitShare \/ NoWorkYet
  \/ Drain \/ DrainOver \/ ReadFrameFails

----------------------------------------------------------------------------
(* Properties *)

Successes == Len(SelectSeq(inbound, LAMBDA f : f.kind = "success"))

(* session.rs:306-321, 375-392.  The miner's count and the gateway's are the  *)
(* same but for the answers still on their way, also through the drain, and   *)
(* although a cancelled read may have left the stream unreadable.             *)
CountsAgree == won + Successes = credited

(* main.rs:112-129.  The exit code is success only when the gateway accepted  *)
(* every share: no error, no early end and no lost frame passes for a         *)
(* complete session.                                                          *)
ExitIsHonest == exited = "success" => credited = NumShares /\ miner = "done"

(* session.rs:252-258, 400-415.  The session lasts no longer than the wait    *)
(* for its work and its shares, whatever the gateway sends: a job without a   *)
(* block, a block without a job, refusals, or nothing.                        *)
SessionIsBounded == miner = "steady" => periods < JobTimeout + NumShares

(* session.rs:240-430, main.rs:112-129.  The session reports what happened,   *)
(* and ends.                                                                  *)
SessionIsHonest == CountsAgree /\ ExitIsHonest /\ SessionIsBounded
=============================================================================
