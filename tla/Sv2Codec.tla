------------------------------ MODULE Sv2Codec ------------------------------
(* The payload codec of services/sv2-gateway/src/sv2_codec.rs: what encode    *)
(* writes and what decode makes of it, for every message the gateway and its  *)
(* miners exchange.  encode and decode are written apart in the code, field   *)
(* by field, and so they are here.                                            *)
(*                                                                            *)
(* A byte is a digit of base Base, so a one-byte length reaches Base - 1      *)
(* instead of 255 and a two-byte length Base^2 - 1 instead of 65535; integers *)
(* keep their number of bytes.  A U256 is Wide raw bytes.  An f32 is its four *)
(* bytes.  A string is its bytes: that they are UTF-8 is left out.            *)
EXTENDS Integers, Sequences, SequencesExt

CONSTANTS
  Base,       \* values of a byte
  Wide,       \* bytes of a U256
  Max32       \* the most bytes of a B0_32, below Base - 1

VARIABLES
  message,    \* the message being sent
  value,      \* its fields
  wire,       \* the bytes of the payload that arrived
  whole,      \* did all of them arrive
  got         \* what decode made of them

codecVars == <<message, value, wire, whole, got>>

Refused == [ok |-> FALSE]
Done(v) == [ok |-> TRUE, value |-> v]

----------------------------------------------------------------------------
(* Writer and Reader *)

Width(kind) == CASE kind = "u8" -> 1 [] kind = "u16" -> 2 [] kind \in {"u32", "f32"} -> 4
                 [] kind = "u64" -> 8 [] kind = "u256" -> Wide [] OTHER -> 0

to_le_bytes(n, w) == [i \in 1 .. w |-> (n \div Base ^ (i - 1)) % Base]
from_le_bytes(b) == FoldRight(LAMBDA d, n : d + Base * n, b, 0)

Max255 == Base - 1
Max64k == Base * Base - 1
Longest(kind) == CASE kind = "b0_32" -> Max32 [] kind = "b0_64k" -> Max64k [] OTHER -> Max255

\* The length prefix is cast to its width after the length was checked.
write_counted(kind, n, bytes) ==
  IF n > Longest(kind) THEN Refused
  ELSE Done(to_le_bytes(n, IF kind = "b0_64k" THEN 2 ELSE 1) \o bytes)

write_option_u32(v) == IF v = <<>> THEN <<0>> ELSE <<1>> \o to_le_bytes(v[1], 4)

WriteField(kind, v) ==
  CASE kind \in {"str", "b0_32", "b0_255", "b0_64k"} -> write_counted(kind, Len(v), v)
    [] kind = "seq" -> write_counted(kind, Len(v), FlattenSeq(v))
    [] kind = "option" -> Done(write_option_u32(v))
    [] kind = "bool" -> Done(<<IF v THEN 1 ELSE 0>>)
    [] kind = "u256" -> Done(v)
    [] OTHER -> Done(to_le_bytes(v, Width(kind)))

\* A reader: what is left of the payload and the fields read so far.
ensure(r, n) == Len(r.left) >= n
Take(r, n) == SubSeq(r.left, 1, n)
Rest(r, n) == SubSeq(r.left, n + 1, Len(r.left))
Read(r, n, v) == [ok |-> TRUE, left |-> Rest(r, n), fields |-> Append(r.fields, v)]

read_fixed(r, kind) ==
  LET w == Width(kind) IN
    IF ~ensure(r, w) THEN Refused
    ELSE Read(r, w, IF kind = "u256" THEN Take(r, w) ELSE from_le_bytes(Take(r, w)))

\* Variant: every length prefix is read as one byte.
ReadCountedByte(r, kind) ==
  LET n == from_le_bytes(Take(r, 1)) IN
    IF ~ensure(r, 1) \/ ~ensure(r, 1 + n) THEN Refused
    ELSE Read(r, 1 + n, SubSeq(r.left, 2, 1 + n))

\* Only read_b0_32 tests the length it was given against a bound of its own.
read_counted(r, kind) ==
  LET p == IF kind = "b0_64k" THEN 2 ELSE 1
      n == from_le_bytes(Take(r, p))
  IN IF ~ensure(r, p) \/ (kind = "b0_32" /\ n > Max32) \/ ~ensure(r, p + n) THEN Refused
     ELSE Read(r, p + n, SubSeq(r.left, p + 1, p + n))

read_seq_u256(r) ==
  LET n == r.left[1] IN
    IF ~ensure(r, 1) \/ ~ensure(r, 1 + n * Wide) THEN Refused
    ELSE Read(r, 1 + n * Wide,
              [i \in 1 .. n |-> SubSeq(r.left, 2 + (i - 1) * Wide, 1 + i * Wide)])

read_option_u32(r) ==
  CASE ~ensure(r, 1) -> Refused
    [] ensure(r, 1) /\ r.left[1] = 0 -> Read(r, 1, <<>>)
    [] ensure(r, 5) /\ r.left[1] = 1 -> Read(r, 5, <<from_le_bytes(SubSeq(r.left, 2, 5))>>)
    [] OTHER -> Refused

ReadField(r, kind) ==
  CASE kind \in {"str", "b0_32", "b0_255", "b0_64k"} -> read_counted(r, kind)
    [] kind = "seq" -> read_seq_u256(r)
    [] kind = "option" -> read_option_u32(r)
    [] kind = "bool" -> IF ensure(r, 1) THEN Read(r, 1, r.left[1] # 0) ELSE Refused
    [] OTHER -> read_fixed(r, kind)

----------------------------------------------------------------------------
(* The messages: the fields encode writes, then the ones decode reads, each   *)
(* in its order and with the Writer or Reader call it makes.                  *)

SetupConnection == [
  encode |-> <<<<"u8", "protocol">>, <<"u16", "min_version">>, <<"u16", "max_version">>,
               <<"u32", "flags">>, <<"str", "endpoint_host">>, <<"u16", "endpoint_port">>,
               <<"str", "vendor">>, <<"str", "hardware_version">>, <<"str", "firmware">>,
               <<"str", "device_id">>>>,
  decode |-> <<<<"u8", "protocol">>, <<"u16", "min_version">>, <<"u16", "max_version">>,
               <<"u32", "flags">>, <<"str", "endpoint_host">>, <<"u16", "endpoint_port">>,
               <<"str", "vendor">>, <<"str", "hardware_version">>, <<"str", "firmware">>,
               <<"str", "device_id">>>>]

SetupConnectionSuccess == [
  encode |-> <<<<"u16", "used_version">>, <<"u32", "flags">>>>,
  decode |-> <<<<"u16", "used_version">>, <<"u32", "flags">>>>]

SetupConnectionError == [
  encode |-> <<<<"u32", "flags">>, <<"str", "error_code">>>>,
  decode |-> <<<<"u32", "flags">>, <<"str", "error_code">>>>]

OpenStandardMiningChannel == [
  encode |-> <<<<"u32", "request_id">>, <<"str", "user_identity">>,
               <<"f32", "nominal_hash_rate">>, <<"u256", "max_target">>>>,
  decode |-> <<<<"u32", "request_id">>, <<"str", "user_identity">>,
               <<"f32", "nominal_hash_rate">>, <<"u256", "max_target">>>>]

OpenStandardMiningChannelSuccess == [
  encode |-> <<<<"u32", "request_id">>, <<"u32", "channel_id">>, <<"u256", "target">>,
               <<"b0_32", "extranonce_prefix">>, <<"u32", "group_channel_id">>>>,
  decode |-> <<<<"u32", "request_id">>, <<"u32", "channel_id">>, <<"u256", "target">>,
               <<"b0_32", "extranonce_prefix">>, <<"u32", "group_channel_id">>>>]

OpenMiningChannelError == [
  encode |-> <<<<"u32", "request_id">>, <<"str", "error_code">>>>,
  decode |-> <<<<"u32", "request_id">>, <<"str", "error_code">>>>]

NewMiningJob == [
  encode |-> <<<<"u32", "channel_id">>, <<"u32", "job_id">>, <<"option", "min_ntime">>,
               <<"u32", "version">>, <<"u256", "merkle_root">>>>,
  decode |-> <<<<"u32", "channel_id">>, <<"u32", "job_id">>, <<"option", "min_ntime">>,
               <<"u32", "version">>, <<"u256", "merkle_root">>>>]

SetNewPrevHash == [
  encode |-> <<<<"u32", "channel_id">>, <<"u32", "job_id">>, <<"u256", "prev_hash">>,
               <<"u32", "min_ntime">>, <<"u32", "nbits">>>>,
  decode |-> <<<<"u32", "channel_id">>, <<"u32", "job_id">>, <<"u256", "prev_hash">>,
               <<"u32", "min_ntime">>, <<"u32", "nbits">>>>]

SetTarget == [
  encode |-> <<<<"u32", "channel_id">>, <<"u256", "maximum_target">>>>,
  decode |-> <<<<"u32", "channel_id">>, <<"u256", "maximum_target">>>>]

SubmitSharesStandard == [
  encode |-> <<<<"u32", "channel_id">>, <<"u32", "sequence_number">>, <<"u32", "job_id">>,
               <<"u32", "nonce">>, <<"u32", "ntime">>, <<"u32", "version">>>>,
  decode |-> <<<<"u32", "channel_id">>, <<"u32", "sequence_number">>, <<"u32", "job_id">>,
               <<"u32", "nonce">>, <<"u32", "ntime">>, <<"u32", "version">>>>]

SubmitSharesSuccess == [
  encode |-> <<<<"u32", "channel_id">>, <<"u32", "last_sequence_number">>,
               <<"u32", "new_submits_accepted_count">>, <<"u64", "new_shares_sum">>>>,
  decode |-> <<<<"u32", "channel_id">>, <<"u32", "last_sequence_number">>,
               <<"u32", "new_submits_accepted_count">>, <<"u64", "new_shares_sum">>>>]

SubmitSharesError == [
  encode |-> <<<<"u32", "channel_id">>, <<"u32", "sequence_number">>, <<"str", "error_code">>>>,
  decode |-> <<<<"u32", "channel_id">>, <<"u32", "sequence_number">>, <<"str", "error_code">>>>]

OpenExtendedMiningChannel == [
  encode |-> <<<<"u32", "request_id">>, <<"str", "user_identity">>,
               <<"f32", "nominal_hash_rate">>, <<"u256", "max_target">>,
               <<"u16", "min_extranonce_size">>>>,
  decode |-> <<<<"u32", "request_id">>, <<"str", "user_identity">>,
               <<"f32", "nominal_hash_rate">>, <<"u256", "max_target">>,
               <<"u16", "min_extranonce_size">>>>]

OpenExtendedMiningChannelSuccess == [
  encode |-> <<<<"u32", "request_id">>, <<"u32", "channel_id">>, <<"u256", "target">>,
               <<"u16", "extranonce_size">>, <<"b0_255", "extranonce_prefix">>>>,
  decode |-> <<<<"u32", "request_id">>, <<"u32", "channel_id">>, <<"u256", "target">>,
               <<"u16", "extranonce_size">>, <<"b0_255", "extranonce_prefix">>>>]

NewExtendedMiningJob == [
  encode |-> <<<<"u32", "channel_id">>, <<"u32", "job_id">>, <<"option", "min_ntime">>,
               <<"u32", "version">>, <<"bool", "version_rolling_allowed">>,
               <<"seq", "merkle_path">>, <<"b0_64k", "coinbase_tx_prefix">>,
               <<"b0_64k", "coinbase_tx_suffix">>>>,
  decode |-> <<<<"u32", "channel_id">>, <<"u32", "job_id">>, <<"option", "min_ntime">>,
               <<"u32", "version">>, <<"bool", "version_rolling_allowed">>,
               <<"seq", "merkle_path">>, <<"b0_64k", "coinbase_tx_prefix">>,
               <<"b0_64k", "coinbase_tx_suffix">>>>]

SubmitSharesExtended == [
  encode |-> <<<<"u32", "channel_id">>, <<"u32", "sequence_number">>, <<"u32", "job_id">>,
               <<"u32", "nonce">>, <<"u32", "ntime">>, <<"u32", "version">>,
               <<"b0_255", "extranonce">>>>,
  decode |-> <<<<"u32", "channel_id">>, <<"u32", "sequence_number">>, <<"u32", "job_id">>,
               <<"u32", "nonce">>, <<"u32", "ntime">>, <<"u32", "version">>,
               <<"b0_255", "extranonce">>>>]

CloseChannel == [
  encode |-> <<<<"u32", "channel_id">>, <<"str", "reason_code">>>>,
  decode |-> <<<<"u32", "channel_id">>, <<"str", "reason_code">>>>]

Messages == <<
  SetupConnection, SetupConnectionSuccess, SetupConnectionError,
  OpenStandardMiningChannel, OpenStandardMiningChannelSuccess, OpenMiningChannelError,
  NewMiningJob, SetNewPrevHash, SetTarget,
  SubmitSharesStandard, SubmitSharesSuccess, SubmitSharesError,
  OpenExtendedMiningChannel, OpenExtendedMiningChannelSuccess, NewExtendedMiningJob,
  SubmitSharesExtended, CloseChannel>>

\* encode: the first field that is too long ends it.
encode(m, v) ==
  LET fields == Messages[m].encode
      parts == [f \in DOMAIN fields |-> WriteField(fields[f][1], v[fields[f][2]])]
  IN IF \E f \in DOMAIN parts : ~parts[f].ok THEN Refused
     ELSE Done(FlattenSeq([f \in DOMAIN parts |-> parts[f].value]))

\* decode: the first field that does not read ends it; bytes left over are ignored.
decode(m, payload) ==
  LET fields == Messages[m].decode
      r == FoldLeft(LAMBDA acc, f : IF acc.ok THEN ReadField(acc, f[1]) ELSE acc,
                    [ok |-> TRUE, left |-> payload, fields |-> <<>>], fields)
      Name(f) == fields[f][2]
  IN IF ~r.ok THEN Refused
     ELSE Done([n \in {Name(f) : f \in DOMAIN fields} |->
                  r.fields[CHOOSE f \in DOMAIN fields : Name(f) = n]])

----------------------------------------------------------------------------
(* A sender and a receiver.                                                   *)

Bytes(n, p) == [i \in 1 .. n |-> (i * 3 + p) % Base]
Long(kind, class) == CASE class = "empty" -> 0 [] class = "one" -> 1
                       [] class = "most" -> Longest(kind) [] class = "over" -> Longest(kind) + 1

\* A value for field number i: integers spread over their width, variable
\* lengths by class.
Sample(kind, i, class, p) ==
  CASE kind \in {"str", "b0_32", "b0_255", "b0_64k"} -> Bytes(Long(kind, class), i + p)
    [] kind = "seq" -> [k \in 1 .. Long(kind, class) |-> Bytes(Wide, i + k + p)]
    [] kind = "option" -> IF class = "empty" THEN <<>> ELSE <<(i * 37 + p * 91) % Base ^ 4>>
    [] kind = "bool" -> class # "empty"
    [] kind = "u256" -> Bytes(Wide, i + p)
    [] OTHER -> (i * 37 + p * 91 + 2) % Base ^ Width(kind)

\* All the fields alike, or one of them too long for its length prefix.
Samples(m) ==
  LET fields == Messages[m].encode IN
    {[n \in {fields[f][2] : f \in DOMAIN fields} |->
        LET f == CHOOSE g \in DOMAIN fields : fields[g][2] = n
        IN Sample(fields[f][1], f, IF f = over THEN "over" ELSE class, p)] :
     over \in 0 .. Len(fields), class \in {"empty", "one", "most"}, p \in {0, 5}}

CodecInit ==
  /\ message \in DOMAIN Messages
  /\ value \in Samples(message)
  /\ wire = Refused /\ whole = FALSE /\ got = Refused

\* A message that does not encode is not sent.
Encode ==
  /\ ~wire.ok /\ ~got.ok
  /\ encode(message, value).ok
  /\ wire' = encode(message, value) /\ whole' = TRUE
  /\ UNCHANGED <<message, value, got>>

\* The frame header was cut short, or names a shorter payload.
CutShort ==
  /\ wire.ok /\ whole /\ ~got.ok
  /\ \E n \in 0 .. Len(wire.value) - 1 : wire' = Done(SubSeq(wire.value, 1, n))
  /\ whole' = FALSE
  /\ UNCHANGED <<message, value, got>>

Decode ==
  /\ wire.ok /\ ~got.ok
  /\ decode(message, wire.value).ok
  /\ got' = decode(message, wire.value)
  /\ UNCHANGED <<message, value, wire, whole>>

CodecNext == Encode \/ CutShort \/ Decode

----------------------------------------------------------------------------
(* Properties *)

(* sv2_codec.rs:86-99, 504-909.  Decode answers with what encode was given,   *)
(* or not at all, for every message: the two field lists agree in order and   *)
(* in form, no length is cast to a prefix it does not fit, and a payload cut  *)
(* short anywhere is refused, never read as a message with other fields.      *)
RoundTrip ==
  /\ got.ok => whole /\ got.value = value
  /\ wire.ok /\ whole => decode(message, wire.value).ok
=============================================================================
