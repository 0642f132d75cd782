---------------------------- MODULE FrameStream ----------------------------
(* The miner's byte stream: Sv2Transport of                                   *)
(* services/sv2-gateway/src/transport.rs, read by a session loop that waits   *)
(* for the next frame and for the next job at once and drops the unfinished   *)
(* read whenever a job comes first (PB-50).                                   *)
(*                                                                            *)
(* A unit is a byte's worth of position in the stream.  An SV2 frame is a     *)
(* header of HeaderLen units, which says how long the payload is, and its     *)
(* payload; the writer cuts it into noise frames of at most MaxPlain units,   *)
(* each behind a length of LengthLen units.  Encryption keeps positions, so   *)
(* a decrypted unit is the unit that was written.                             *)
EXTENDS Integers, Sequences, SequencesExt

CONSTANTS
  Payloads,       \* payload lengths of the frames the peer writes, in order
  HeaderLen, LengthLen, MaxPlain,
  ReadChunk,      \* READ_CHUNK
  MaxPayload      \* MAX_SV2_PAYLOAD_LEN

VARIABLES
  unsent,     \* frames the peer has still to write
  wire,       \* units written and not yet read from the socket
  raw_buf, read_buf,
  reading,    \* a read_frame future exists
  frames,     \* frames handed to the session
  broken      \* the read ended the session

streamVars == <<unsent, wire, raw_buf, read_buf, reading, frames, broken>>

Frame(f) == [u \in 1 .. HeaderLen + Payloads[f] |-> [frame |-> f, unit |-> u]]
Written == [f \in DOMAIN Payloads |-> Frame(f)]

\* One noise frame: its length, of which the last unit says it all, and a chunk.
Length(n) == [u \in 1 .. LengthLen |-> [frame |-> 0, unit |-> IF u = LengthLen THEN n ELSE 0]]
Noise(chunk) == Length(Len(chunk)) \o chunk

Smaller(a, b) == IF a < b THEN a ELSE b

(* write_frame of the peer: the frame in chunks, the last one shorter.        *)
Chunks(units) ==
  LET count == (Len(units) + MaxPlain - 1) \div MaxPlain IN
    [c \in 1 .. count |-> SubSeq(units, (c - 1) * MaxPlain + 1, Smaller(c * MaxPlain, Len(units)))]

write_frame(f) == FlattenSeq([c \in DOMAIN Chunks(Frame(f)) |-> Noise(Chunks(Frame(f))[c])])

StreamInit ==
  /\ unsent = [f \in DOMAIN Payloads |-> f]
  /\ wire = <<>> /\ raw_buf = <<>> /\ read_buf = <<>>
  /\ reading = TRUE /\ frames = <<>> /\ broken = FALSE

PeerWrites ==
  /\ unsent # <<>>
  /\ wire' = wire \o write_frame(Head(unsent))
  /\ unsent' = Tail(unsent)
  /\ UNCHANGED <<raw_buf, read_buf, reading, frames, broken>>

----------------------------------------------------------------------------
\* The session loop waits again.
PollRead ==
  /\ ~reading /\ ~broken
  /\ reading' = TRUE
  /\ UNCHANGED <<unsent, wire, raw_buf, read_buf, frames, broken>>

\* A job comes first: the future is dropped, the buffers stay in the struct.
JobComesFirst ==
  /\ reading
  /\ reading' = FALSE
  /\ UNCHANGED <<unsent, wire, raw_buf, read_buf, frames, broken>>

NoiseLen == raw_buf[LengthLen].unit
NoiseReady == Len(raw_buf) >= LengthLen /\ Len(raw_buf) >= LengthLen + NoiseLen

FrameLen == HeaderLen + Payloads[read_buf[1].frame]
HeaderReady == Len(read_buf) >= HeaderLen

FrameReady == HeaderReady /\ Len(read_buf) >= FrameLen

Oversize == HeaderReady /\ Payloads[read_buf[1].frame] > MaxPayload
Filling == reading /\ ~FrameReady /\ ~Oversize

(* read_noise_frame, its loop body without a whole noise frame buffered: one  *)
(* socket read, whose bytes join raw_buf before the next await.               *)
SocketRead ==
  /\ Filling /\ ~NoiseReady
  /\ wire # <<>>
  /\ \E n \in 1 .. Smaller(ReadChunk, Len(wire)) :
       /\ raw_buf' = raw_buf \o SubSeq(wire, 1, n)
       /\ wire' = SubSeq(wire, n + 1, Len(wire))
  /\ UNCHANGED <<unsent, read_buf, reading, frames, broken>>

(* read_noise_frame with one: decrypted and appended without an await.        *)
TakeNoise ==
  /\ Filling /\ NoiseReady
  /\ read_buf' = read_buf \o SubSeq(raw_buf, LengthLen + 1, LengthLen + NoiseLen)
  /\ raw_buf' = SubSeq(raw_buf, LengthLen + NoiseLen + 1, Len(raw_buf))
  /\ UNCHANGED <<unsent, wire, reading, frames, broken>>

\* A header that asks for too much ends the session.
RefuseOversize ==
  /\ reading /\ Oversize
  /\ broken' = TRUE /\ reading' = FALSE
  /\ UNCHANGED <<unsent, wire, raw_buf, read_buf, frames>>

\* Variant: the last unit of a frame stays in the buffer.
ReadFrameRepeats ==
  /\ reading /\ FrameReady /\ ~Oversize
  /\ frames' = Append(frames, SubSeq(read_buf, 1, FrameLen))
  /\ read_buf' = SubSeq(read_buf, FrameLen, Len(read_buf))
  /\ reading' = FALSE
  /\ UNCHANGED <<unsent, wire, raw_buf, broken>>

(* The end of read_frame: exactly one frame leaves the buffer.                *)
read_frame ==
  /\ reading /\ FrameReady /\ ~Oversize
  /\ frames' = Append(frames, SubSeq(read_buf, 1, FrameLen))
  /\ read_buf' = SubSeq(read_buf, FrameLen + 1, Len(read_buf))
  /\ reading' = FALSE
  /\ UNCHANGED <<unsent, wire, raw_buf, broken>>

StreamNext ==
  \/ PeerWrites \/ PollRead \/ JobComesFirst \/ SocketRead \/ TakeNoise
  \/ RefuseOversize \/ read_frame

(* Fairness: the loop polls again after every event, and the select! that     *)
(* races the read against the jobs polls its arms in random order, so a read  *)
(* that can proceed again and again does.  Nothing is asked of the peer.      *)
StreamFairness ==
  /\ WF_streamVars(PollRead)
  /\ SF_streamVars(SocketRead \/ TakeNoise \/ read_frame \/ RefuseOversize)

----------------------------------------------------------------------------
(* Properties *)

(* transport.rs:243-244.  "dropping the future before it completes loses no   *)
(* bytes": the session sees the frames the peer wrote, whole, in order and    *)
(* none twice, wherever jobs interrupted its reads.                           *)
FramesIntact == IsPrefix(frames, Written)

(* The stream never gets stuck between two frames: every frame the peer wrote *)
(* is handed over, or an oversized one has ended the session, however often   *)
(* jobs interrupt the reads.                                                  *)
FramesArrive == []<>(broken \/ Len(frames) + Len(unsent) = Len(Payloads))

(* transport.rs:258-261.  A frame that announces too much is never buffered   *)
(* beyond the noise frame that announced it.                                  *)
OversizeNotBuffered ==
  \A u \in Range(read_buf) :
    Payloads[u.frame] > MaxPayload => u.unit <= MaxPlain

(* transport.rs:240-300.  Delivery as a whole: frames come whole and in       *)
(* order, an oversized one is not collected, and every frame written arrives. *)
FramesDelivered == [](FramesIntact /\ OversizeNotBuffered) /\ FramesArrive
=============================================================================
