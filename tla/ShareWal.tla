------------------------------ MODULE ShareWal ------------------------------
(***************************************************************************)
(* The share write-ahead log of services/sv2-gateway/src/wal.rs on its     *)
(* own: the file as the sequence of lines replay reads, the in-memory      *)
(* index, batch appends that may be torn, compaction by rename and a       *)
(* best-effort directory sync, process crashes and power loss.             *)
(*                                                                         *)
(* The caller is the gateway's main loop: one operation at a time, and a   *)
(* failed mark_pending or mark_completed ends the process.                 *)
(***************************************************************************)
EXTENDS Naturals, Sequences, SequencesExt

CONSTANTS
  Keys,               \* share keys (share_id_hex, event_id_hex)
  EarlyCap,           \* EARLY_COMPLETION_CAP
  BatchMax,           \* WAL_BATCH_MAX
  Threshold,          \* compaction_threshold; 0 disables compaction
  LinesMayTear,       \* may a failed append stop inside a line?
  RecoveryMayFail,    \* may the compaction of finish_recovery fail?
  PowerMayFail,       \* may the host lose power?
  DirSyncMayFail,     \* may the directory sync after the rename fail?
  TtlMayExpire,       \* may EARLY_COMPLETION_TTL pass?
  MaxLog,             \* bound: lines in the file
  MaxOld              \* bound: contents a power loss could bring back

ASSUME ShareWalConstants ==
  /\ {EarlyCap, Threshold, MaxLog, MaxOld} \subseteq Nat
  /\ BatchMax \in Nat \ {0}
  /\ {LinesMayTear, RecoveryMayFail, PowerMayFail, DirSyncMayFail, TtlMayExpire} \subseteq BOOLEAN

VARIABLES
  st,               \* closed, recovering, ready, compacting, renamed or failed
  log,              \* the lines behind the WAL's name
  under,            \* the lines the running compaction has renamed over
  former,           \* other contents the name may have after a power loss
  pending,          \* ShareWal::pending
  completed_early,  \* ShareWal::completed_early
  pruned,           \* completed_early as the running compaction pruned it
  since,            \* completed_since_compaction
  orphans,          \* shares of the synthetic events recover() returned
  acked,            \* history: keys mark_pending returned Ok for
  answered,         \* history: keys whose Event 2 line the caller has written
  unhealed          \* history: a start went on although its compaction failed

memory == <<pending, completed_early, pruned, since, orphans>>
disk == <<log, under, former>>
vars == <<st, disk, memory, acked, answered, unhealed>>

Record == [status : {"pending", "completed"}, key : Keys]

\* A line that broke off before its newline; it can only be the last one.
Partial == [status |-> "partial"]

-----------------------------------------------------------------------------
(* read_pending_index                                                      *)

\* One line of the replay: r.p is the pending index, r.e the completions
\* that still wait.  A line that does not parse is skipped.
ReplayLine(r, line) ==
  CASE line.status = "pending" ->
         IF line.key \in r.e THEN [r EXCEPT !.e = @ \ {line.key}]
                             ELSE [r EXCEPT !.p = @ \cup {line.key}]
    [] line.status = "completed" ->
         IF line.key \in r.p THEN [r EXCEPT !.p = @ \ {line.key}]
                             ELSE [r EXCEPT !.e = @ \cup {line.key}]
    [] OTHER -> r

Replay(lines) == FoldLeft(ReplayLine, [p |-> {}, e |-> {}], lines)

-----------------------------------------------------------------------------
(* append_records                                                          *)

EndsPartial(lines) == lines # <<>> /\ Last(lines) = Partial

\* The file after appending records: behind a partial line the first record
\* becomes part of a line that does not parse.
Appended(lines, records) ==
  IF EndsPartial(lines) /\ records # <<>>
  THEN Front(lines) \o Tail(records)
  ELSE lines \o records

\* What a failed or interrupted append can leave: a prefix of the records,
\* perhaps with part of the next line.  (A last line that lacks only its
\* newline parses; it counts as written.)
TornAppends(lines, records) ==
  LET prefixes == {Appended(lines, SubSeq(records, 1, n)) : n \in 0..Len(records)}
  IN  prefixes \cup {Append(l, Partial) : l \in {l \in prefixes : LinesMayTear /\ ~EndsPartial(l)}}

Records(status, batch) == [i \in DOMAIN batch |-> [status |-> status, key |-> batch[i]]]

Fits(lines) == Len(lines) <= MaxLog

-----------------------------------------------------------------------------
(* The in-memory index                                                     *)

\* mark_pending, one share after the other.  m.consumed holds the shares of
\* this batch that have consumed their waiting completion.
IndexPending(batch) ==
  LET step(m, k) == IF k \in completed_early \ m.consumed
                    THEN [m EXCEPT !.consumed = @ \cup {k}]
                    ELSE [m EXCEPT !.p = @ \cup {k}]
      end == FoldLeft(step, [p |-> pending, consumed |-> {}], batch)
  IN  /\ pending' = end.p
      /\ completed_early' = completed_early \ end.consumed

\* mark_completed, one share after the other.
IndexCompleted(batch) ==
  LET step(m, k) ==
        CASE k \in m.p -> [m EXCEPT !.p = @ \ {k}]
          [] k \notin m.p /\ Cardinality(m.e) < EarlyCap -> [m EXCEPT !.e = @ \cup {k}]
          [] OTHER -> m
      end == FoldLeft(step, [p |-> pending, e |-> completed_early], batch)
  IN  /\ pending' = end.p
      /\ completed_early' = end.e

-----------------------------------------------------------------------------
Init ==
  /\ st = "closed" /\ log = <<>> /\ under = <<>> /\ former = {}
  /\ pending = {} /\ completed_early = {} /\ pruned = {} /\ since = 0 /\ orphans = {}
  /\ acked = {} /\ answered = {} /\ unhealed = FALSE

\* open followed by recover.
Open ==
  /\ st = "closed"
  /\ st' = "recovering"
  /\ orphans' = Replay(log).p
  /\ pending' = {} /\ completed_early' = {} /\ pruned' = {} /\ since' = 0
  /\ UNCHANGED <<disk, acked, answered, unhealed>>

Batches == SeqOf(Keys, BatchMax) \ {<<>>}

MarkPending(batch) ==
  LET records == Records("pending", batch)
  IN  /\ st = "ready"
      /\ log' = Appended(log, records) /\ Fits(log')
      /\ IndexPending(batch)
      /\ acked' = acked \cup ToSet(batch)
      /\ UNCHANGED <<st, under, former, pruned, since, orphans, answered, unhealed>>

\* The append fails: the index is not updated, the caller stops the process.
MarkPendingFails(batch) ==
  /\ st = "ready"
  /\ st' = "failed"
  /\ log' \in TornAppends(log, Records("pending", batch)) /\ Fits(log')
  /\ UNCHANGED <<under, former, memory, acked, answered, unhealed>>

\* The caller has written the batch's Event 2 lines before this call.
MarkCompleted(batch) ==
  /\ st = "ready"
  /\ IndexCompleted(batch)
  /\ log' = Appended(log, Records("completed", batch)) /\ Fits(log')
  /\ since' = since + Len(batch)
  /\ st' = IF Threshold > 0 /\ since' >= Threshold THEN "compacting" ELSE "ready"
  /\ answered' = answered \cup ToSet(batch)
  /\ UNCHANGED <<under, former, pruned, orphans, acked, unhealed>>

MarkCompletedFails(batch) ==
  /\ st = "ready"
  /\ st' = "failed"
  /\ IndexCompleted(batch)
  /\ log' \in TornAppends(log, Records("completed", batch)) /\ Fits(log')
  /\ answered' = answered \cup ToSet(batch)
  /\ UNCHANGED <<under, former, pruned, since, orphans, acked, unhealed>>

-----------------------------------------------------------------------------
(* compact_inner, from mark_completed or from finish_recovery.  Nothing    *)
(* reads the memory while it runs, so its pruning shows at its end.        *)

PrunedEarly == IF TtlMayExpire THEN SUBSET completed_early ELSE {completed_early}

\* Variant: recovery compacts before the synthetic lines are written.
AnsweringLate == answered

\* The caller of finish_recovery has written the synthetic Event 2 lines.
Answering == IF st = "recovering" THEN answered \cup orphans ELSE answered

\* Variant: the replacement leaves the waiting completions out.
RenamePendingOnly ==
  /\ st \in {"recovering", "compacting"}
  /\ pruned' \in PrunedEarly
  /\ log' = Records("pending", SetToSeq(pending))
  /\ under' = log
  /\ answered' = Answering
  /\ st' = "renamed"
  /\ UNCHANGED <<former, pending, completed_early, since, orphans, acked, unhealed>>

\* Prune, write and sync the replacement, rename it over the log.
Rename ==
  /\ st \in {"recovering", "compacting"}
  /\ \E remembered \in PrunedEarly :
       /\ pruned' = remembered
       /\ log' = Records("pending", SetToSeq(pending))
                   \o Records("completed", SetToSeq(remembered))
  /\ under' = log
  /\ answered' = Answering
  /\ st' = "renamed"
  /\ UNCHANGED <<former, pending, completed_early, since, orphans, acked, unhealed>>

\* What a power loss can put back behind the WAL's name.
Undoable == IF st = "renamed" THEN former \cup {under} ELSE former

\* Sync the parent directory, or warn; then take the new file's handle.
SyncDir ==
  /\ st = "renamed"
  /\ \/ former' = {}
     \/ DirSyncMayFail /\ former' = Undoable /\ Cardinality(former') <= MaxOld
  /\ under' = <<>>
  /\ completed_early' = pruned
  /\ pruned' = {} /\ since' = 0 /\ orphans' = {}
  /\ st' = "ready"
  /\ UNCHANGED <<log, pending, acked, answered, unhealed>>

\* Any step up to the rename fails.  mark_completed returns the error;
\* the caller of finish_recovery only logs it.
CompactFails ==
  /\ \/ st = "compacting" /\ st' = "failed"
     \/ st = "recovering" /\ RecoveryMayFail /\ st' = "ready"
  /\ completed_early' \in PrunedEarly
  /\ orphans' = {}
  /\ answered' = Answering
  /\ unhealed' = (unhealed \/ st = "recovering")
  /\ UNCHANGED <<disk, pending, pruned, since, acked>>

-----------------------------------------------------------------------------
Forget ==
  /\ st' = "closed" /\ under' = <<>>
  /\ pending' = {} /\ completed_early' = {} /\ pruned' = {} /\ since' = 0 /\ orphans' = {}

\* The process ends, by itself or not; every write it finished is in the file.
Crash ==
  /\ st # "closed"
  /\ Forget
  /\ former' = Undoable /\ Cardinality(former') <= MaxOld
  /\ UNCHANGED <<log, acked, answered, unhealed>>

\* The process dies inside append_records.
CrashInAppend(batch) ==
  /\ st = "ready"
  /\ \/ /\ log' \in TornAppends(log, Records("pending", batch))
        /\ UNCHANGED answered
     \/ /\ log' \in TornAppends(log, Records("completed", batch))
        /\ answered' = answered \cup ToSet(batch)
  /\ Fits(log')
  /\ Forget
  /\ UNCHANGED <<former, acked, unhealed>>

\* The host loses power: a rename whose directory was not synced may undo.
PowerLoss ==
  /\ PowerMayFail
  /\ log' \in {log} \cup Undoable
  /\ former' = {}
  /\ Forget
  /\ UNCHANGED <<acked, answered, unhealed>>

Next ==
  \/ Open
  \/ \E batch \in Batches : \/ MarkPending(batch) \/ MarkPendingFails(batch)
                            \/ MarkCompleted(batch) \/ MarkCompletedFails(batch)
                            \/ CrashInAppend(batch)
  \/ Rename \/ SyncDir \/ CompactFails
  \/ Crash \/ PowerLoss

Spec == Init /\ [][Next]_vars

-----------------------------------------------------------------------------
(* Properties                                                              *)

\* Every variable holds a value of its kind; a partial line is the last line
\* and completed_early respects its cap.
TypeOK ==
  /\ st \in {"closed", "recovering", "ready", "compacting", "renamed", "failed"}
  /\ \A i \in DOMAIN log : log[i] \in Record \/ (i = Len(log) /\ log[i] = Partial)
  /\ {pending, completed_early, pruned, orphans, acked, answered} \subseteq SUBSET Keys
  /\ Cardinality(completed_early) <= EarlyCap
  /\ since \in Nat /\ unhealed \in BOOLEAN

\* wal.rs:3-7.  A share mark_pending returned Ok for is found pending by every
\* later replay, whatever crash, torn write, compaction or power loss comes in
\* between, until the caller has written an Event 2 line for it; only a start
\* that goes on although its compaction failed puts it at risk.
PendingSurvives == ~unhealed => acked \ answered \subseteq Replay(log).p

\* wal.rs:147-154.  Where the cap does turn completions away, the memory
\* forgets at most the one completion it turned away: for each key, memory is
\* where replay is, or one completion short of it.
OneCompletionShort ==
  st = "ready" /\ ~unhealed =>
    \A k \in Keys :
      LET f == Replay(log)
      IN  \/ (k \in f.p <=> k \in pending) /\ (k \in f.e <=> k \in completed_early)
          \/ k \in f.e /\ k \notin pending \cup completed_early
          \/ k \notin f.p \cup f.e /\ k \in pending

-----------------------------------------------------------------------------
(* Refinement: the line-by-line WAL implements WalPromise.  A compaction   *)
(* takes effect when its directory sync returns.                           *)

Durable == IF st = "renamed" THEN under ELSE log

PlaceOf(lines) ==
  LET f == Replay(lines)
  IN  [k \in f.p |-> "pending"] @@ [k \in f.e |-> "early"] @@ [k \in Keys |-> "none"]

Promise == INSTANCE WalPromise WITH
  NoRecord <- "none",
  wal  <- CASE st = "compacting" \/ st = "ready" -> "open"
            [] st = "renamed" -> IF since = 0 THEN "recovering" ELSE "open"
            [] OTHER -> st,
  file <- PlaceOf(Durable),
  tail <- EndsPartial(Durable),
  undo <- {<<PlaceOf(l), EndsPartial(l)>> : l \in former}

(* wal.rs:380-640.  The file keeps what was promised, and memory is behind it *)
(* by at most the completion the cap turned away.                             *)
FileKeepsUp == PendingSurvives /\ OneCompletionShort
=============================================================================
