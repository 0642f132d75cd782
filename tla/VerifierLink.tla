---------------------------- MODULE VerifierLink ----------------------------
(* One connection from the gateway to the verifier, on the clock: run_io_loop *)
(* of services/sv2-gateway/src/verifier_stream.rs with its StallGuard and     *)
(* read_bounded_line.  TemplateGate has what the messages mean; this module   *)
(* has when a connection is given up, and that no line is torn on the way.    *)
(*                                                                            *)
(* Time is counted in units of which Interval make a heartbeat interval.      *)
(* The loop acts as soon as it can, except that the runtime may hold it up    *)
(* for Jam units in all; ticks missed in a stall are made up for by one tick, *)
(* which looks at the silence no earlier than the code.  A line is sent in    *)
(* two parts, "a" and then "z" with the newline, or without a newline for as  *)
(* long as its sender likes.                                                  *)
EXTENDS Integers, Sequences

CONSTANTS
  Interval,       \* units in a heartbeat interval
  SendRoom,       \* writes the kernel's send buffer takes
  TemplateLen,    \* writes a template's line needs
  Jam             \* units of time the runtime may hold the loop up

ASSUME LinkConstants ==
  Interval \in Nat \ {0} /\ SendRoom \in Nat /\ TemplateLen \in Nat /\ Jam \in Nat

READ_DEADLINE_BEATS == 3
read_deadline == READ_DEADLINE_BEATS * Interval

\* MAX_INTERNAL_LINE_BYTES, in parts.
MaxLine == 2

VARIABLES
  io,             \* "select", "template", "heartbeat", "recheck", or how it ended
  last_heard,     \* how long ago, in units
  next_tick,      \* units to the next heartbeat tick
  rechecking,
  malformed_count,
  line_buf,       \* the parts of the line being read
  to_write,       \* what the current write still has to hand over
  blocked,        \* StallGuard: for how long nothing was accepted
  room,           \* what the send buffer still takes
  incoming,       \* parts that reached the kernel and were not read
  ready,          \* the runtime's driver has reported the socket readable
  half,           \* the verifier is in the middle of a line
  hole,           \* for how long the path has been black-holed, or NoHole
  jammed,         \* for how long the loop has been held up
  unread,         \* a newline was in the kernel when a recheck began
  torn            \* a line was taken that was never sent

ioVars == <<last_heard, next_tick, rechecking, malformed_count>>
readVars == <<line_buf, incoming, ready, torn>>
writeVars == <<to_write, blocked, room>>
pathVars == <<half, hole, jammed>>
linkVars == <<io, unread, ioVars, readVars, writeVars, pathVars>>

NoHole == -1
Up == io \in {"select", "template", "heartbeat", "recheck"}
HasNewline(parts) == \E i \in DOMAIN parts : parts[i] = "z"

\* A new connection: its locals start afresh.
Fresh(h, n, r, m, lb, tw, b, rm, inc, rd, hf, ho, j) ==
  /\ h = 0 /\ n = 0 /\ r = FALSE /\ m = 0 /\ lb = <<>> /\ tw = 0 /\ b = 0
  /\ rm = SendRoom /\ inc = <<>> /\ rd = FALSE /\ hf = FALSE /\ ho = NoHole /\ j = 0

LinkInit ==
  /\ io = "select" /\ unread = FALSE /\ torn = FALSE
  /\ Fresh(last_heard, next_tick, rechecking, malformed_count, line_buf, to_write, blocked,
           room, incoming, ready, half, hole, jammed)

\* The loop returns: its locals and the socket go with it.
Return(how) ==
  /\ io' = how
  /\ Fresh(last_heard', next_tick', rechecking', malformed_count', line_buf', to_write',
           blocked', room', incoming', ready', half', hole', jammed')

----------------------------------------------------------------------------
(* The read arm, first in the biased select.                                  *)

\* The parts up to and including the first newline, or all there are.
Upto(parts) ==
  IF HasNewline(parts) THEN CHOOSE i \in DOMAIN parts :
       parts[i] = "z" /\ \A j \in 1 .. i - 1 : parts[j] # "z"
  ELSE Len(parts)

\* read_until appends to line_buf, which outlives the read.
Resumed == line_buf \o SubSeq(incoming, 1, Upto(incoming))

Consume ==
  /\ incoming' = SubSeq(incoming, Upto(incoming) + 1, Len(incoming))
  /\ ready' = (incoming' # <<>>)

\* No newline yet: the arm stays pending, or the budget is spent.
ReadPart ==
  /\ io = "select" /\ ready /\ ~HasNewline(incoming)
  /\ UNCHANGED <<unread, torn>>
  /\ IF Len(Resumed) >= MaxLine THEN Return("over")
     ELSE /\ line_buf' = Resumed /\ Consume
          /\ UNCHANGED <<io, ioVars, writeVars, pathVars>>

\* A line: heard from, whether or not it parses; three that do not end it.
ReadWhole(parses) ==
  /\ io = "select" /\ ready /\ HasNewline(incoming)
  /\ UNCHANGED unread
  /\ torn' = (torn \/ (Len(Resumed) <= MaxLine /\ Resumed # <<"a", "z">>))
  /\ IF Len(Resumed) > MaxLine THEN Return("over")
     ELSE IF ~parses /\ malformed_count = 2 THEN Return("malformed")
     ELSE /\ malformed_count' = IF parses THEN malformed_count ELSE malformed_count + 1
          /\ last_heard' = 0 /\ line_buf' = <<>> /\ Consume
          /\ UNCHANGED <<io, next_tick, rechecking, writeVars, pathVars>>

\* EOF or a read error, when the peer or the path says so.
ReadFails ==
  /\ io = "select" /\ hole = NoHole /\ ~ready
  /\ Return("closed")
  /\ UNCHANGED <<unread, torn>>

----------------------------------------------------------------------------
(* The other arms, and the writes they wait for.                              *)

\* The read's future is dropped when another arm wins; line_buf is not.
Kept == line_buf

StartWrite(stage, units) ==
  /\ io' = stage /\ to_write' = units /\ blocked' = 0
  /\ line_buf' = Kept
  /\ UNCHANGED <<room, incoming, ready, torn, pathVars, unread>>

SendTemplate ==
  /\ io = "select" /\ ~ready
  /\ StartWrite("template", TemplateLen)
  /\ UNCHANGED ioVars

TickDue == io = "select" /\ ~ready /\ next_tick = 0
Silent == last_heard > read_deadline

SendHeartbeat ==
  /\ TickDue /\ ~Silent
  /\ next_tick' = Interval /\ rechecking' = FALSE
  /\ StartWrite("heartbeat", 1)
  /\ UNCHANGED <<last_heard, malformed_count>>

\* The first tick past the deadline: tick again at once, after a short sleep.
Recheck ==
  /\ TickDue /\ Silent /\ ~rechecking
  /\ rechecking' = TRUE /\ io' = "recheck"
  /\ unread' = HasNewline(incoming)
  /\ UNCHANGED <<last_heard, next_tick, malformed_count, readVars, writeVars, pathVars>>

\* The timer fires only in a driver turn that polled the sockets first.
Woken ==
  /\ io = "recheck"
  /\ io' = "select" /\ ready' = (incoming # <<>>)
  /\ UNCHANGED <<unread, ioVars, line_buf, incoming, torn, writeVars, pathVars>>

DropSilent ==
  /\ TickDue /\ Silent /\ rechecking
  /\ Return("silent")
  /\ UNCHANGED <<unread, torn>>

Writing == io \in {"template", "heartbeat"}

\* StallGuard::poll_write: what is accepted restarts the stall clock.
poll_write ==
  /\ Writing /\ to_write > 0 /\ room > 0
  /\ to_write' = to_write - 1 /\ room' = room - 1 /\ blocked' = 0
  /\ UNCHANGED <<io, unread, ioVars, readVars, pathVars>>

\* Variant: a write is given twice the deadline.
StalledSlowly == blocked >= 2 * read_deadline

Stalled == blocked >= read_deadline

poll_stalled ==
  /\ Writing /\ to_write > 0 /\ room = 0 /\ Stalled
  /\ Return("stalled")
  /\ UNCHANGED <<unread, torn>>

WriteDone ==
  /\ Writing /\ to_write = 0
  /\ io' = "select"
  /\ UNCHANGED <<unread, ioVars, readVars, writeVars, pathVars>>

Shutdown ==
  /\ io = "select" /\ ~ready
  /\ Return("shutdown")
  /\ UNCHANGED <<unread, torn>>

----------------------------------------------------------------------------
(* The verifier, the path and the runtime.                                    *)

VerifierSends(part) ==
  /\ Up /\ hole = NoHole /\ Len(incoming) < 2
  /\ part = "z" => half
  /\ incoming' = Append(incoming, part) /\ half' = (part = "a")
  /\ UNCHANGED <<io, unread, ioVars, line_buf, ready, torn, writeVars, hole, jammed>>

VerifierReads ==
  /\ Up /\ hole = NoHole /\ room < SendRoom
  /\ room' = room + 1
  /\ UNCHANGED <<io, unread, ioVars, readVars, to_write, blocked, pathVars>>

\* Nothing moves on the path any more, and nobody is told.
PathDies ==
  /\ Up /\ hole = NoHole
  /\ hole' = 0
  /\ UNCHANGED <<io, unread, ioVars, readVars, writeVars, half, jammed>>

\* The loop can do something without waiting.
Busy ==
  \/ io = "select" /\ (ready \/ next_tick = 0)
  \/ Writing /\ (to_write = 0 \/ room > 0 \/ Stalled)
  \/ io = "recheck"

\* A runtime with nothing to run turns its driver.
DriverTurn ==
  /\ Up /\ ~Busy /\ ~ready /\ incoming # <<>>
  /\ ready' = TRUE
  /\ UNCHANGED <<io, unread, ioVars, line_buf, incoming, torn, writeVars, pathVars>>

Less(t) == IF t = 0 THEN 0 ELSE t - 1

(* Time blocked in a template's write is not the verifier's silence: the code *)
(* moves last_heard on by it when the write is done, and looks at it at no    *)
(* time before.                                                               *)
Aged == IF io = "template" THEN last_heard ELSE last_heard + 1

LinkTime ==
  /\ Up
  /\ IF Busy THEN jammed < Jam /\ jammed' = jammed + 1
             ELSE (ready \/ incoming = <<>>) /\ UNCHANGED jammed
  /\ last_heard' = Aged /\ next_tick' = Less(next_tick)
  /\ blocked' = IF Writing THEN blocked + 1 ELSE 0
  /\ hole' = IF hole = NoHole THEN NoHole ELSE hole + 1
  /\ UNCHANGED <<io, unread, rechecking, malformed_count, readVars, to_write, room, half>>

LinkNext ==
  \/ ReadPart \/ (\E p \in BOOLEAN : ReadWhole(p)) \/ ReadFails
  \/ SendTemplate \/ SendHeartbeat \/ Recheck \/ Woken \/ DropSilent
  \/ poll_write \/ poll_stalled \/ WriteDone \/ Shutdown
  \/ (\E part \in {"a", "z"} : VerifierSends(part)) \/ VerifierReads \/ PathDies
  \/ DriverTurn \/ LinkTime

LinkSpec == LinkInit /\ [][LinkNext]_linkVars

----------------------------------------------------------------------------
(* Properties *)

\* One type invariant for the module.
LinkTypeOK ==
  /\ io \in {"select", "template", "heartbeat", "recheck", "over", "malformed", "closed",
             "silent", "stalled", "shutdown"}
  /\ last_heard \in Nat /\ next_tick \in 0 .. Interval
  /\ rechecking \in BOOLEAN /\ malformed_count \in 0 .. 2
  /\ to_write \in 0 .. TemplateLen /\ room \in 0 .. SendRoom /\ blocked \in Nat
  /\ Len(line_buf) < MaxLine /\ (ready => incoming # <<>>)
  /\ hole \in Nat \union {NoHole} /\ jammed \in 0 .. Jam

(* verifier_stream.rs:221-229.  A path that swallows everything is given up   *)
(* within seven heartbeat intervals of its death, whatever the loop was doing *)
(* and whatever it still had to send.                                         *)
HoleIsDropped == hole <= 7 * Interval + jammed

(* verifier_stream.rs:577-604.  The silence check never drops a verifier      *)
(* whose answer had reached the kernel when the check found it silent, on a   *)
(* runtime whose driver turn reports every socket that is readable.           *)
AnswerIsRead == io = "silent" => ~unread

(* verifier_stream.rs:411-428.  A line is taken as it was sent, however often *)
(* ticks and templates interrupt its read.                                    *)
LinesIntact == ~torn

(* verifier_stream.rs:460-629.  A connection is given up when it should be    *)
(* and only then: a path that swallows everything is noticed within a bound,  *)
(* a verifier that answered in time is not dropped, and no line is torn       *)
(* meanwhile.                                                                 *)
LinkHolds == HoleIsDropped /\ AnswerIsRead /\ LinesIntact
=============================================================================
