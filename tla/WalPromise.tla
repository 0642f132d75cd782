----------------------------- MODULE WalPromise -----------------------------
(***************************************************************************)
(* What the share write-ahead log (services/sv2-gateway/src/wal.rs)        *)
(* promises the gateway's main loop, one share key at a time.              *)
(*                                                                         *)
(* A key stands for the pair (share_id_hex, event_id_hex).  Replaying the  *)
(* file puts every key in one of three places: "pending" (accepted, still  *)
(* owed an Event 2), "early" (a completion that waits for its pending      *)
(* record) or "none".  Records of different keys do not interact, so the   *)
(* file is represented by the place replay reaches for every key.          *)
(* ShareWal keeps the file as a sequence of lines and is checked to        *)
(* implement this module; ShareAccounting is built on it.                  *)
(***************************************************************************)
EXTENDS Naturals, Sequences, FiniteSets

CONSTANTS
  Keys,                \* share keys
  NoRecord,            \* a batch element that writes no record
  EarlyCap,            \* EARLY_COMPLETION_CAP
  BatchMax,            \* WAL_BATCH_MAX
  LinesMayTear,        \* may a failed append stop inside a line?
  RecoveryMayFail,     \* may the compaction of finish_recovery fail?
  TtlMayExpire         \* may EARLY_COMPLETION_TTL pass before a pending record?

ASSUME WalConstants ==
  /\ NoRecord \notin Keys
  /\ EarlyCap \in Nat
  /\ BatchMax \in Nat \ {0}
  /\ LinesMayTear \in BOOLEAN
  /\ RecoveryMayFail \in BOOLEAN
  /\ TtlMayExpire \in BOOLEAN

VARIABLES
  wal,               \* "closed", "recovering", "open", "failed" or "off"
  file,              \* the place replay of the file reaches for each key
  tail,              \* does the file end in a line without its newline?
  undo,              \* (file, tail) pairs a power loss may bring back
  pending,           \* ShareWal::pending
  completed_early,   \* ShareWal::completed_early
  orphans            \* what recover() handed out and finish_recovery drops

walVars == <<wal, file, tail, undo, pending, completed_early, orphans>>

Places == {"none", "pending", "early"}

Batches == UNION {[1..n -> Keys \cup {NoRecord}] : n \in 1..BatchMax}

WalTypeOK ==
  /\ wal \in {"closed", "recovering", "open", "failed", "off"}
  /\ file \in [Keys -> Places]
  /\ tail \in BOOLEAN
  /\ undo \in SUBSET ([Keys -> Places] \X BOOLEAN)
  /\ pending \in SUBSET Keys
  /\ completed_early \in SUBSET Keys
  /\ orphans \in SUBSET Keys

-----------------------------------------------------------------------------
(* Batches.                                                                *)

\* Key k has a record in batch b.
Occurs(b, k) == \E i \in DOMAIN b : b[i] = k

\* Key k has at least two records in batch b.
OccursTwice(b, k) == \E i, j \in DOMAIN b : i # j /\ b[i] = k /\ b[j] = k

\* The batch as replay sees it once appended: behind a line without its
\* newline, the first record merges into a line that does not parse.
Lands(b) ==
  IF ~tail THEN b
  ELSE [i \in DOMAIN b |->
          IF b[i] \in Keys /\ \A j \in 1..(i-1) : b[j] \notin Keys
          THEN NoRecord ELSE b[i]]

-----------------------------------------------------------------------------
(* Replay (read_pending_index): what a batch at the end of the file does   *)
(* to the place replay reaches.                                            *)

\* Pending records: the first one consumes a waiting completion, every
\* other one indexes the key.
ReplayPending(f, b) ==
  [k \in Keys |->
     IF ~Occurs(b, k) THEN f[k]
     ELSE IF f[k] = "early" /\ ~OccursTwice(b, k) THEN "none" ELSE "pending"]

\* Completed records: the first one removes a pending entry, every other
\* one waits.
ReplayCompleted(f, b) ==
  [k \in Keys |->
     IF ~Occurs(b, k) THEN f[k]
     ELSE IF f[k] = "pending" /\ ~OccursTwice(b, k) THEN "none" ELSE "early"]

\* What replay reads back from a file rewritten from the in-memory index.
Rewritten(pend, early) ==
  [k \in Keys |-> IF k \in pend THEN "pending"
                  ELSE IF k \in early THEN "early" ELSE "none"]

-----------------------------------------------------------------------------
(* The in-memory index.                                                    *)

\* mark_pending: a key with a waiting completion consumes it once per batch.
IndexPending(b) ==
  /\ pending' = pending \cup {k \in Keys : /\ Occurs(b, k)
                                           /\ k \in completed_early => OccursTwice(b, k)}
  /\ completed_early' = {k \in completed_early : ~Occurs(b, k)}

\* Variant: a completion that overtakes its pending record is not remembered.
IndexCompletedPlain(b) ==
  pending' = {k \in pending : ~Occurs(b, k)} /\ UNCHANGED completed_early

\* mark_completed: a key with nothing pending is remembered while fewer than
\* EARLY_COMPLETION_CAP are; the order inside the batch decides which.
IndexCompleted(b) ==
  LET late == {k \in Keys : Occurs(b, k) /\ (k \in pending => OccursTwice(b, k))}
  IN  /\ pending' = {k \in pending : ~Occurs(b, k)}
      /\ \E admitted \in SUBSET late :
           /\ completed_early' = completed_early \cup admitted
           /\ \/ admitted = late
              \/ Cardinality(completed_early \cup admitted) >= EarlyCap
           /\ \/ admitted \subseteq completed_early
              \/ Cardinality(completed_early \cup admitted) <= EarlyCap

-----------------------------------------------------------------------------
(* Operations.                                                             *)

WalInit ==
  /\ wal = "closed"
  /\ file = [k \in Keys |-> "none"]
  /\ tail = FALSE
  /\ undo = {}
  /\ pending = {} /\ completed_early = {} /\ orphans = {}

\* open, then recover: the pending index moves into the synthetic events.
\* A completion still waiting in the file is not loaded.
Open ==
  /\ wal = "closed"
  /\ wal' = "recovering"
  /\ orphans' = {k \in Keys : file[k] = "pending"}
  /\ pending' = {} /\ completed_early' = {}
  /\ UNCHANGED <<file, tail, undo>>

\* compact_inner: prune the completions older than the TTL, rewrite the file,
\* rename it and sync the directory.
CompactInner ==
  \E kept \in SUBSET completed_early :
    /\ TtlMayExpire \/ kept = completed_early
    /\ completed_early' = kept
    /\ file' = Rewritten(pending, kept)
    /\ tail' = FALSE
    /\ undo' = {}
    /\ UNCHANGED pending

\* compact_inner failing before its rename: only the pruning has happened.
CompactInnerFails ==
  \E kept \in SUBSET completed_early :
    /\ TtlMayExpire \/ kept = completed_early
    /\ completed_early' = kept
    /\ UNCHANGED <<file, tail, undo, pending>>

\* finish_recovery: the orphans leave the file.
FinishRecovery ==
  /\ wal = "recovering"
  /\ wal' = "open"
  /\ orphans' = {}
  /\ CompactInner

\* finish_recovery failing: the caller logs it and goes on.
FinishRecoveryFails ==
  /\ RecoveryMayFail
  /\ wal = "recovering"
  /\ wal' = "open"
  /\ orphans' = {}
  /\ CompactInnerFails

\* A prefix of batch b reaches the file, perhaps with part of a line after it.
Torn(b, Replay(_, _)) ==
  \E n \in 0..Len(b) :
    /\ file' = Replay(file, SubSeq(Lands(b), 1, n))
    /\ tail' \in BOOLEAN
    /\ tail' => LinesMayTear
    /\ (n = 0 /\ tail) => tail'

MarkPending(b) ==
  /\ wal = "open"
  /\ IndexPending(b)
  /\ tail' = FALSE
  /\ file' = ReplayPending(file, Lands(b))
  /\ UNCHANGED <<wal, orphans, undo>>

\* The append or its sync failed: the memory is untouched.
MarkPendingFails(b) ==
  /\ wal = "open"
  /\ wal' = "failed"
  /\ UNCHANGED <<pending, completed_early, orphans, undo>>
  /\ Torn(b, ReplayPending)

MarkCompleted(b) ==
  /\ wal = "open"
  /\ IndexCompleted(b)
  /\ tail' = FALSE
  /\ UNCHANGED <<wal, orphans, undo>>
  /\ file' = ReplayCompleted(file, Lands(b))

\* The append or its sync failed: the memory was changed up front.
MarkCompletedFails(b) ==
  /\ wal = "open"
  /\ wal' = "failed"
  /\ IndexCompleted(b)
  /\ Torn(b, ReplayCompleted)
  /\ UNCHANGED <<orphans, undo>>

\* The compaction a full completed_since_compaction triggers.
Compact ==
  /\ wal = "open"
  /\ CompactInner
  /\ UNCHANGED <<wal, orphans>>

CompactFails ==
  /\ wal = "open"
  /\ wal' = "failed"
  /\ CompactInnerFails
  /\ UNCHANGED orphans

\* The process is gone: the memory with it, the file stays.
Forget ==
  /\ wal' = "closed"
  /\ pending' = {} /\ completed_early' = {} /\ orphans' = {}

Close == wal # "closed" /\ Forget /\ UNCHANGED <<file, tail, undo>>

\* The process or the host dies inside append_records.
DieInMarkPending(b) ==
  wal = "open" /\ Forget /\ Torn(b, ReplayPending) /\ UNCHANGED undo
DieInMarkCompleted(b) ==
  wal = "open" /\ Forget /\ Torn(b, ReplayCompleted) /\ UNCHANGED undo

\* The process (or the host: then nothing is left to undo) dies inside
\* compact_inner, between the rename and the sync of the directory.
DieInCompact ==
  /\ wal \in {"recovering", "open"}
  /\ Forget
  /\ undo' \in {undo \cup {<<file, tail>>}, {}}
  /\ tail' = FALSE
  /\ \E kept \in SUBSET completed_early : /\ TtlMayExpire \/ kept = completed_early
                                          /\ file' = Rewritten(pending, kept)

\* The host loses power: a rename whose directory is not synced may undo.
PowerLoss ==
  /\ Forget
  /\ undo' = {}
  /\ \E before \in undo \cup {<<file, tail>>} : file' = before[1] /\ tail' = before[2]

WalNext ==
  \/ Open \/ FinishRecovery \/ FinishRecoveryFails
  \/ \E b \in Batches : \/ MarkPending(b) \/ MarkPendingFails(b)
                        \/ MarkCompleted(b) \/ MarkCompletedFails(b)
                        \/ DieInMarkPending(b) \/ DieInMarkCompleted(b)
  \/ Compact \/ CompactFails
  \/ Close \/ DieInCompact \/ PowerLoss

WalSpec == WalInit /\ [][WalNext]_walVars
=============================================================================
