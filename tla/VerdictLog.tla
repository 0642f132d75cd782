----------------------------- MODULE VerdictLog -----------------------------
(* The verifier's record of its verdicts (services/pool-verifier/src/         *)
(* verdicts.rs and the end of handle_tcp_connection): ids from a shared       *)
(* counter, the capped list in memory, appends handed to blocking threads,    *)
(* rotation by size, and what a restart reads back.                           *)
EXTENDS Integers, Sequences, SequencesExt, FiniteSets

CONSTANTS
  Conn,              \* ingress connections that reach a verdict
  Worker,            \* blocking threads that append
  MaxEntries,        \* VELDRA_VERDICT_LOG_MAX_ENTRIES
  MaxLines,          \* VERDICT_LOG_MAX_BYTES, in lines
  ROTATIONS,         \* VERDICT_LOG_ROTATIONS
  Persist,           \* DeployMode::persist_verdicts
  MaxVerdicts,       \* bound: verdicts reached
  MaxLogCrashes         \* bound: crashes of the process

VARIABLES
  counter,   \* the next log id
  taken,     \* taken[c]: the id a connection took and has not pushed, or 0
  entries,   \* the list in memory
  backlog,   \* ids handed to the blocking pool
  worker,    \* worker[w]: [at, id, slot]
  files,      \* files[0]: the log; files[i]: its i-th rotation; 0 is a broken line
  broken,    \* does the log end in the middle of a line
  verdicts, logCrashes

logVars == <<counter, taken, entries, backlog, worker, files, broken, verdicts,
             logCrashes>>

Resting == [at |-> "rest", id |-> 0, slot |-> 0]

LogTypeOK ==
  /\ counter \in Nat \ {0} /\ taken \in [Conn -> Nat]
  /\ entries \in Seq(Nat) /\ backlog \subseteq Nat
  /\ \A w \in Worker : worker[w].at \in {"rest", "size", "remove", "rename", "write"}
  /\ files \in [0 .. ROTATIONS -> Seq(Nat)] /\ broken \in BOOLEAN

LogInit ==
  /\ counter = 1 /\ taken = [c \in Conn |-> 0] /\ entries = <<>>
  /\ backlog = {} /\ worker = [w \in Worker |-> Resting]
  /\ files = [i \in 0 .. ROTATIONS |-> <<>>] /\ broken = FALSE
  /\ verdicts = 0 /\ logCrashes = 0

----------------------------------------------------------------------------
(* A verdict takes its id from the counter, then is pushed on the list and    *)
(* handed to the pool; other connections run in between.                      *)
Capped(seq) ==
  IF Len(seq) > MaxEntries THEN SubSeq(seq, Len(seq) - MaxEntries + 1, Len(seq))
                           ELSE seq

TakeId(c) ==
  /\ taken[c] = 0 /\ verdicts < MaxVerdicts
  /\ taken' = [taken EXCEPT ![c] = counter]
  /\ counter' = counter + 1
  /\ verdicts' = verdicts + 1
  /\ UNCHANGED <<entries, backlog, worker, files, broken, logCrashes>>

Push(c) ==
  /\ taken[c] # 0
  /\ entries' = Capped(Append(entries, taken[c]))
  /\ backlog' = IF Persist THEN backlog \cup {taken[c]} ELSE backlog
  /\ taken' = [taken EXCEPT ![c] = 0]
  /\ UNCHANGED <<counter, worker, files, broken, verdicts, logCrashes>>

(* append_verdict_to_disk on a blocking thread: rotate if needed, then open   *)
(* and append.  The threads share the files and take no lock.                 *)
Become(w, at, slot) ==
  worker' = [worker EXCEPT ![w].at = at, ![w].slot = slot]

Begin(w) ==
  /\ worker[w] = Resting
  /\ \E id \in backlog :
       /\ worker' = [worker EXCEPT ![w] = [at |-> "size", id |-> id, slot |-> 0]]
       /\ backlog' = backlog \ {id}
  /\ UNCHANGED <<counter, taken, entries, files, broken, verdicts, logCrashes>>

rotate_verdict_log_if_needed(w) ==
  /\ worker[w].at = "size"
  /\ IF Len(files[0]) < MaxLines THEN Become(w, "write", 0)
                                ELSE Become(w, "remove", ROTATIONS)
  /\ UNCHANGED <<counter, taken, entries, backlog, files, broken, verdicts, logCrashes>>

RemoveSlot(w) ==
  /\ worker[w].at = "remove"
  /\ files' = [files EXCEPT ![worker[w].slot] = <<>>]
  /\ Become(w, "rename", worker[w].slot)
  /\ UNCHANGED <<counter, taken, entries, backlog, broken, verdicts, logCrashes>>

RenameSlot(w) ==
  LET dst == worker[w].slot  src == dst - 1 IN
  /\ worker[w].at = "rename"
  /\ files' = IF files[src] = <<>> THEN files
             ELSE [files EXCEPT ![dst] = files[src], ![src] = <<>>]
  /\ broken' = IF src = 0 THEN FALSE ELSE broken
  /\ IF dst = 1 THEN Become(w, "write", 0) ELSE Become(w, "remove", src)
  /\ UNCHANGED <<counter, taken, entries, backlog, verdicts, logCrashes>>

\* A line added to a log that ends mid-line runs on from the broken one.
WithLine(lines, id) == IF broken THEN lines ELSE Append(lines, id)

AppendLine(w) ==
  /\ worker[w].at = "write"
  /\ files' = [files EXCEPT ![0] = WithLine(@, worker[w].id)]
  /\ broken' = FALSE
  /\ worker' = [worker EXCEPT ![w] = Resting]
  /\ UNCHANGED <<counter, taken, entries, backlog, verdicts, logCrashes>>

\* The write fails: counted and logged, and the verdict is not on disk.
AppendFails(w) ==
  /\ worker[w].at = "write"
  /\ worker' = [worker EXCEPT ![w] = Resting]
  /\ UNCHANGED <<counter, taken, entries, backlog, files, broken, verdicts, logCrashes>>

----------------------------------------------------------------------------
(* load_verdict_log at the next start: the log alone is read, not its         *)
(* rotations; lines that do not parse are skipped.                            *)
Loaded(lines) == SelectSeq(lines, LAMBDA id : id # 0)

LargestId(lines) == FoldLeft(LAMBDA a, b : IF a >= b THEN a ELSE b, 0, lines)

\* Variant: the counter goes on with the number of lines.
LoadCountsLines(lines) ==
  /\ entries' = Capped(Loaded(lines))
  /\ counter' = Len(Loaded(lines)) + 1

load_verdict_log(lines) ==
  /\ entries' = Capped(Loaded(lines))
  /\ counter' = LargestId(Loaded(lines)) + 1

\* The process dies, possibly in the middle of a write, and is started again.
CrashVerifier ==
  /\ logCrashes < MaxLogCrashes
  /\ logCrashes' = logCrashes + 1
  /\ \E torn \in BOOLEAN :
       /\ torn => \E w \in Worker : worker[w].at = "write"
       /\ files' = IF torn /\ ~broken THEN [files EXCEPT ![0] = Append(@, 0)] ELSE files
       /\ broken' = (broken \/ torn)
  /\ taken' = [c \in Conn |-> 0] /\ backlog' = {}
  /\ worker' = [w \in Worker |-> Resting]
  /\ load_verdict_log(files'[0])
  /\ UNCHANGED verdicts

LogNext ==
  \/ \E c \in Conn : TakeId(c) \/ Push(c)
  \/ \E w \in Worker : \/ Begin(w) \/ rotate_verdict_log_if_needed(w)
                       \/ RemoveSlot(w) \/ RenameSlot(w)
                       \/ AppendLine(w) \/ AppendFails(w)
  \/ CrashVerifier

----------------------------------------------------------------------------
NoRepeat(seq) == \A i, j \in DOMAIN seq : (i # j /\ seq[i] # 0) => seq[i] # seq[j]

(* The ids a reader of the log or of the list in memory sees tell the         *)
(* verdicts apart, whatever order the threads wrote in and wherever the       *)
(* process was restarted; an id is in the log before it is in a rotation.     *)
LogIdsDistinct == NoRepeat(entries) /\ \A i \in DOMAIN files : NoRepeat(files[i])

(* An id that is still to be given out, or was given out and not yet written, *)
(* is not in the log: no later line can repeat one that is there.             *)
CounterAhead ==
  /\ \A i \in DOMAIN files[0] : files[0][i] < counter
  /\ \A w \in Worker : worker[w].at # "rest" =>
       \A i \in DOMAIN files[0] : files[0][i] # worker[w].id

(* verdicts.rs:100-230.  An id is given to one verdict, over rotations,       *)
(* crashes and reloads, and what is still to be written cannot meet it again. *)
LogHolds == LogIdsDistinct /\ CounterAhead
=============================================================================
