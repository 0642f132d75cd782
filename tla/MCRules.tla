------------------------------ MODULE MCRules ------------------------------
(* Small instances of components that share no state, in one state graph:    *)
(* focus, which no step changes, says which of them moves in a behaviour; the *)
(* others stay in one of their initial states.  The write-ahead log comes     *)
(* twice: with a recovery that always compacts ("wal") and with one that may  *)
(* fail to ("wal_faults", one key).                                           *)
EXTENDS ShareWal, ShedCadence, Policy, ShareClock, SharePipeline, Vardiff,
        Allocators, TLC

CONSTANTS k1, k2

VARIABLE focus

\* A template's possible defects, two of which are present at most.
AllFaults ==
  {"null_prevout", "sigops_over", "weight_over", "heavy", "empty", "duplicate", "bip34",
   "script_len", "zero_value", "over_money", "overflow", "coinbase_prevout",
   "coinbase_inputs", "no_outputs", "commit_missing", "commit_wrong", "no_coinbase",
   "header", "root", "version", "prev_len", "prev_hex", "many", "count", "value",
   "low_fees", "low_average", "undeclared", "weight", "old", "sigops",
   "coinbase_sigops", "height", "no_raw", "garbage"}

\* Difficulty one, as a high and a low half of HalfBits bits.
DifficultyOne == <<0, 14>>

FaultyWal == INSTANCE ShareWal WITH
  Keys <- {k1}, RecoveryMayFail <- TRUE, MaxLog <- 3, MaxOld <- 1

rulesVars == <<focus, vars, cadenceVars, policyVars, clockVars, pipeVars,
               vardiffVars, allocVars>>

Parts == {"wal", "wal_faults", "cadence", "policy", "clock", "pipeline",
          "vardiff", "allocators"}

RulesInit ==
  /\ focus \in Parts
  /\ Init
  /\ focus # "cadence" => lag = 0 /\ prompt = TRUE
  /\ CadenceInit
  /\ focus # "policy" =>
       /\ faults = {} /\ cfg = Config(TRUE) /\ mempool_tx = None
       /\ snap = CHOOSE s \in Snapshots : TRUE
  /\ PolicyInit
  /\ ClockInit
  /\ focus # "pipeline" => mark = CHOOSE m \in ShareIds : m.job = 1
  /\ PipeInit
  /\ focus # "vardiff" => maximum_target = DifficultyOne
  /\ VardiffInit
  /\ AllocInit

RulesNext ==
  \/ /\ focus = "wal" /\ Next
     /\ UNCHANGED <<focus, cadenceVars, policyVars, clockVars, pipeVars,
                    vardiffVars, allocVars>>
  \/ /\ focus = "wal_faults" /\ FaultyWal!Next
     /\ UNCHANGED <<focus, cadenceVars, policyVars, clockVars, pipeVars,
                    vardiffVars, allocVars>>
  \/ /\ focus = "cadence" /\ CadenceNext
     /\ UNCHANGED <<focus, vars, policyVars, clockVars, pipeVars, vardiffVars,
                    allocVars>>
  \/ /\ focus = "policy" /\ PolicyNext
     /\ UNCHANGED <<focus, vars, cadenceVars, clockVars, pipeVars,
                    vardiffVars, allocVars>>
  \/ /\ focus = "clock" /\ ClockNext
     /\ UNCHANGED <<focus, vars, cadenceVars, policyVars, pipeVars,
                    vardiffVars, allocVars>>
  \/ /\ focus = "pipeline" /\ PipeNext
     /\ UNCHANGED <<focus, vars, cadenceVars, policyVars, clockVars,
                    vardiffVars, allocVars>>
  \/ /\ focus = "vardiff" /\ VardiffNext
     /\ UNCHANGED <<focus, vars, cadenceVars, policyVars, clockVars, pipeVars,
                    allocVars>>
  \/ /\ focus = "allocators" /\ AllocNext
     /\ UNCHANGED <<focus, vars, cadenceVars, policyVars, clockVars, pipeVars,
                    vardiffVars>>

RulesSpec == RulesInit /\ [][RulesNext]_rulesVars

\* wal.rs as a whole does what its caller relies on, with and without failing
\* recoveries: each operation has on every key the effect WalPromise states, and
\* a crash anywhere leaves the file as it was or as the operation in progress
\* would have left it.
WalImplementsPromise ==
  /\ Promise!WalInit
  /\ [][/\ focus = "wal" =>
             Promise!WalNext \/ UNCHANGED Promise!walVars
        /\ focus = "wal_faults" =>
             FaultyWal!Promise!WalNext \/ UNCHANGED FaultyWal!Promise!walVars]_rulesVars
============================================================================
