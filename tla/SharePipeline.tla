---------------------------- MODULE SharePipeline ----------------------------
(* What a connection does with the shares it is sent: handle_submit_shares    *)
(* and handle_submit_shares_extended of services/sv2-gateway/src/handler.rs,  *)
(* with the job table of jobs.rs, the rate limiter and the channel kinds of   *)
(* channels.rs, the dedup set of shares.rs and the wire codes of reason.rs.   *)
(*                                                                            *)
(* A share names its channel, its job and a nonce; "flaw" is what a check of  *)
(* its bytes would find (version bits, ntime, work, extranonce length).  Its  *)
(* id is the hash of its header, which the form, the channel's extranonce,    *)
(* the job and the nonce determine.                                           *)
EXTENDS Integers, Sequences, FiniteSets, Functions

CONSTANTS
  Nonce,              \* nonces a miner tries
  Flaws,              \* flaws that occur, "none" among them
  DedupEntries,       \* share_dedup_window_size
  SharesPerSecond,    \* max_shares_per_second_per_channel, 0: unlimited
  ForwardSlots,       \* capacity of share_forward_tx
  EventSlots,         \* capacity of share_event_tx
  TableEntries,       \* entries of the job table
  LastJob             \* bound: jobs published

ASSUME PipelineConstants ==
  /\ {DedupEntries, ForwardSlots, EventSlots, TableEntries} \subseteq Nat \ {0}
  /\ SharesPerSecond \in Nat /\ LastJob \in Nat
  /\ Flaws \subseteq {"none", "version", "ntime", "work", "length"}

VARIABLES
  table,      \* jobs in the job table
  newest,     \* the last job published
  channels,   \* the open channels: "std" and "ext"
  tokens,     \* tokens[ch]: the rate limiter's bucket
  recent,     \* the ShareDedupSet, oldest first
  forwards,   \* ids in the forward queue
  events,     \* accounting events in their queue
  mark,       \* history: any one id, and
  sinceMark       \*   the ids the dedup set took in since it took in the mark

pipeVars == <<table, newest, channels, tokens, recent, forwards, events, mark, sinceMark>>

Kinds == {"std", "ext"}
Shares ==
  [form : {"standard", "extended"}, ch : Kinds, job : 1 .. LastJob, nonce : Nonce, flaw : Flaws]
Never == -1

\* A standard submission on an extended channel leaves the miner's part of the
\* extranonce out, so the form is part of the header.
compute_share_id(s) == [form |-> s.form, ch |-> s.ch, job |-> s.job, nonce |-> s.nonce]
ShareIds == {compute_share_id(s) : s \in Shares}

PipeInit ==
  /\ table = {} /\ newest = 0
  /\ channels = Kinds
  /\ tokens = [ch \in Kinds |-> SharesPerSecond]
  /\ recent = <<>> /\ forwards = <<>> /\ events = 0
  /\ mark \in {id \in ShareIds : id.job = 1} /\ sinceMark = Never   \* jobs are alike

----------------------------------------------------------------------------

(* JobTable::insert: retention first (jobs are stored in the order of their   *)
(* ids, so what is too old is a lower part), then room for the new one.       *)
InsertJob(old) ==
  /\ newest < LastJob
  /\ newest' = newest + 1
  /\ LET kept == {j \in table : j > old} IN
       table' = {newest + 1} \union
                (IF Cardinality(kept) < TableEntries
                   THEN kept ELSE {j \in kept : \E k \in kept : k < j})
  /\ UNCHANGED <<channels, tokens, recent, forwards, events, mark, sinceMark>>

\* ShareRateLimiter::refill over a second; the bucket never exceeds the rate.
Refill(ch) ==
  /\ tokens[ch] # SharesPerSecond
  /\ tokens' = [tokens EXCEPT ![ch] = SharesPerSecond]
  /\ UNCHANGED <<table, newest, channels, recent, forwards, events, mark, sinceMark>>

\* CloseChannel while the connection keeps another.
CloseOther(ch) ==
  /\ channels = Kinds
  /\ channels' = channels \ {ch}
  /\ UNCHANGED <<table, newest, tokens, recent, forwards, events, mark, sinceMark>>

RelayTakes ==
  /\ forwards # <<>>
  /\ forwards' = Tail(forwards)
  /\ UNCHANGED <<table, newest, channels, tokens, recent, events, mark, sinceMark>>

LoopTakes ==
  /\ events > 0
  /\ events' = events - 1
  /\ UNCHANGED <<table, newest, channels, tokens, recent, forwards, mark, sinceMark>>

----------------------------------------------------------------------------
try_acquire(ch) == SharesPerSecond = 0 \/ tokens[ch] > 0

(* The checks up to the replay test, in the order of the code: does it pass,  *)
(* and what a refusal answers.                                                *)
ChannelChecks(s) ==
  << <<s.ch \in channels, "InvalidChannelId">>,
     <<try_acquire(s.ch), "ShareRateLimited">> >>

ExtranonceChecks(s) ==
  << <<s.ch # "std", "InvalidChannelId">>,
     <<s.flaw # "length", "ShareInvalidNonce">> >>

HeaderChecks(s) ==
  << <<s.job \in table, "ShareInvalidJobId">>,
     <<s.flaw # "version", "VersionBitViolation">>,
     <<s.flaw # "ntime", "NtimeOutOfRange">>,
     <<s.flaw # "work", "ShareDifficultyBelowTarget">> >>

ExtendedChecks(s) == ChannelChecks(s) \o ExtranonceChecks(s) \o HeaderChecks(s)

Passes(checks) == \A i \in DOMAIN checks : checks[i][1]

\* The bucket pays for every share that finds its channel and a token.
Spend(s) ==
  tokens' = IF SharesPerSecond # 0 /\ s.ch \in channels /\ tokens[s.ch] > 0
              THEN [tokens EXCEPT ![s.ch] = @ - 1] ELSE tokens

\* A full queue drops the event.
enqueue_share_event == events' = IF events < EventSlots THEN events + 1 ELSE events

(* ShareDedupSet::check_and_insert, for an id that is not in the set.         *)
check_and_insert(id) ==
  /\ recent' = Append(IF Len(recent) >= DedupEntries THEN Tail(recent) ELSE recent, id)
  /\ sinceMark' = IF id = mark THEN 0
                  ELSE IF sinceMark = Never \/ sinceMark = DedupEntries THEN sinceMark
                  ELSE sinceMark + 1

\* A check refuses the share: an accounting event, no place in the dedup set.
Rejected(checks) ==
  /\ ~Passes(checks)
  /\ enqueue_share_event
  /\ UNCHANGED <<recent, forwards, sinceMark>>

\* The checks only the extended form has report nothing.
RejectedSilently(s) ==
  /\ Passes(ChannelChecks(s)) /\ ~Passes(ExtranonceChecks(s))
  /\ UNCHANGED <<events, recent, forwards, sinceMark>>

\* Variant: a replay takes a place in the set as well.
ReplayedAges(id) ==
  /\ id \in Range(recent)
  /\ enqueue_share_event
  /\ recent' = Append(Tail(recent), id)
  /\ UNCHANGED <<forwards, sinceMark>>

Replayed(id) ==
  /\ id \in Range(recent)
  /\ enqueue_share_event
  /\ UNCHANGED <<recent, forwards, sinceMark>>

\* The share is new, and stays remembered although try_send finds no room.
DroppedAtQueue(id) ==
  /\ id \notin Range(recent)
  /\ Len(forwards) = ForwardSlots
  /\ check_and_insert(id)
  /\ enqueue_share_event
  /\ UNCHANGED forwards

Credited(id) ==
  /\ id \notin Range(recent)
  /\ Len(forwards) < ForwardSlots
  /\ check_and_insert(id)
  /\ forwards' = Append(forwards, id)
  /\ enqueue_share_event

\* What passed the checks.
Settled(id) == Replayed(id) \/ DroppedAtQueue(id) \/ Credited(id)

handle_submit_shares(s) ==
  LET checks == ChannelChecks(s) \o HeaderChecks(s) IN
    /\ s.form = "standard"
    /\ Spend(s)
    /\ Rejected(checks) \/ (Passes(checks) /\ Settled(compute_share_id(s)))
    /\ UNCHANGED <<table, newest, channels, mark>>

handle_submit_shares_extended(s) ==
  /\ s.form = "extended"
  /\ Spend(s)
  /\ \/ Rejected(ChannelChecks(s))
     \/ RejectedSilently(s)
     \/ Passes(ChannelChecks(s) \o ExtranonceChecks(s)) /\ Rejected(HeaderChecks(s))
     \/ Passes(ExtendedChecks(s)) /\ Settled(compute_share_id(s))
  /\ UNCHANGED <<table, newest, channels, mark>>

PipeNext ==
  \/ \E old \in 0 .. newest : InsertJob(old)
  \/ \E ch \in Kinds : Refill(ch) \/ CloseOther(ch)
  \/ RelayTakes \/ LoopTakes
  \/ \E s \in Shares : handle_submit_shares(s) \/ handle_submit_shares_extended(s)

PipeSpec == PipeInit /\ [][PipeNext]_pipeVars

----------------------------------------------------------------------------
(* Properties *)

\* One type invariant for the module.
PipeTypeOK ==
  /\ table \subseteq 1 .. newest /\ Cardinality(table) <= TableEntries
  /\ newest \in 0 .. LastJob
  /\ channels \in SUBSET Kinds
  /\ tokens \in [Kinds -> 0 .. SharesPerSecond]
  /\ Range(recent) \subseteq ShareIds /\ Len(recent) <= DedupEntries
  /\ Range(forwards) \subseteq ShareIds /\ Len(forwards) <= ForwardSlots
  /\ events \in 0 .. EventSlots
  /\ mark \in ShareIds /\ sinceMark \in Never .. DedupEntries

(* shares.rs:229-277, handler.rs:1542, 2085.  A share is credited a second    *)
(* time only after the dedup set took in as many other shares as it has room  *)
(* for: no refusal, no full forward queue and no replay that is turned away   *)
(* shortens the time an id is remembered.                                     *)
CreditedTwiceNeedsEviction ==
  [][forwards' = Append(forwards, mark) => sinceMark \in {Never, DedupEntries}]_pipeVars

(* jobs.rs:224-236.  Neither the retention nor the size of the table evicts   *)
(* the job the miners have just been given, so its shares find it.            *)
NewestIsMinable == newest # 0 => newest \in table

(* Shares of the job just published find it, and none is credited twice       *)
(* within the dedup window.                                                   *)
PipelineHolds == []NewestIsMinable /\ CreditedTwiceNeedsEviction
=============================================================================
