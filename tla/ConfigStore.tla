----------------------------- MODULE ConfigStore -----------------------------
(* Saving settings from the dashboard: save_settings of the template manager  *)
(* and gw_save_settings of the gateway, over atomic_write_toml of             *)
(* services/reservegrid-common/src/config_io.rs.  The handlers use blocking   *)
(* file calls on a multi-threaded runtime, so two requests interleave at      *)
(* every one of them.                                                         *)
(*                                                                            *)
(* A configuration is a record of two settings; a file is a configuration,    *)
(* TornFile (truncated, or not written to the end) or Missing.                *)
EXTENDS Integers, FiniteSets

CONSTANTS
  Saver,          \* requests that may be under way at once
  Value,          \* values a setting can take, Bad among them
  Bad,            \* a value from_path refuses
  MaxCrashes      \* bound: crashes of the process

ASSUME ConfigConstants == \E v \in Value : v # Bad

VARIABLES
  config,         \* the configuration file
  service,        \* whose file it is: "gateway" or "manager"
  probe,          \* {path}.validate, which every save of the manager uses
  tmp,            \* {path}.tmp, which every save uses
  fd,             \* fd[s]: the file request s has open, by its present name: none,
                  \*        probe, tmp, config, or gone when it has no name any more
  step,           \* step[s]: the next file call of request s
  doc,            \* doc[s]: the document it has read and patched
  saverCrashes    \* crashes so far

configVars == <<config, service, probe, tmp, fd, step, doc, saverCrashes>>

File(kind, settings) == [kind |-> kind, is |-> settings]
Default == [x \in {"a", "b"} |-> CHOOSE v \in Value : v # Bad]
TornFile == File("torn", Default)
Missing == File("missing", Default)
Whole(settings) == File("whole", settings)

Valid(settings) == settings.a # Bad /\ settings.b # Bad

ConfigInit ==
  /\ service \in {"gateway", "manager"}
  /\ config = Whole(Default) /\ probe = Missing /\ tmp = Missing
  /\ fd = [s \in Saver |-> "none"]
  /\ step = [s \in Saver |-> "idle"]
  /\ doc = [s \in Saver |-> Default]
  /\ saverCrashes = 0

Then(s, next) == step' = [step EXCEPT ![s] = next]

\* The request ends, in success or in an error.
Answer(s) ==
  /\ Then(s, "idle")
  /\ doc' = [doc EXCEPT ![s] = Default]

\* The file is read and the request's setting patched in.
ReadAndPatch(s, key, v) ==
  /\ step[s] = "idle" /\ config.kind = "whole"
  /\ doc' = [doc EXCEPT ![s] = [config.is EXCEPT ![key] = v]]
  /\ Then(s, "validate")
  /\ UNCHANGED <<config, service, probe, tmp, fd, saverCrashes>>

\* The gateway parses and validates the patched text in memory.
ValidateInMemory(s) ==
  /\ service = "gateway" /\ step[s] = "validate"
  /\ IF Valid(doc[s]) THEN Then(s, "truncate") /\ UNCHANGED doc ELSE Answer(s)
  /\ UNCHANGED <<config, service, probe, tmp, fd, saverCrashes>>

\* The manager writes it to a file beside the configuration, loads that file
\* and removes it.
TruncateProbe(s) ==
  /\ service = "manager" /\ step[s] = "validate"
  /\ probe' = TornFile
  /\ fd' = [fd EXCEPT ![s] = "probe"]
  /\ Then(s, "fill_probe")
  /\ UNCHANGED <<config, service, tmp, doc, saverCrashes>>

FillProbe(s) ==
  /\ step[s] = "fill_probe"
  /\ probe' = IF fd[s] = "probe" THEN Whole(doc[s]) ELSE probe
  /\ fd' = [fd EXCEPT ![s] = "none"]
  /\ Then(s, "load")
  /\ UNCHANGED <<config, service, tmp, doc, saverCrashes>>

LoadProbe(s) ==
  /\ step[s] = "load"
  /\ probe' = Missing
  /\ fd' = [r \in Saver |-> IF fd[r] = "probe" THEN "gone" ELSE fd[r]]
  /\ IF probe.kind = "whole" /\ Valid(probe.is)
       THEN Then(s, "truncate") /\ UNCHANGED doc
       ELSE Answer(s)
  /\ UNCHANGED <<config, service, tmp, saverCrashes>>

\* Variant: the configuration is written in place.
TruncateInPlace(s) ==
  /\ step[s] = "truncate"
  /\ config' = TornFile
  /\ fd' = [fd EXCEPT ![s] = "config"]
  /\ Then(s, "fill")
  /\ UNCHANGED <<service, probe, tmp, doc, saverCrashes>>

\* fs::write opens the temporary file, which empties it, and then fills the file
\* it has open, under whatever name that is by now.
TruncateTmp(s) ==
  /\ step[s] = "truncate"
  /\ tmp' = TornFile
  /\ fd' = [fd EXCEPT ![s] = "tmp"]
  /\ Then(s, "fill")
  /\ UNCHANGED <<config, service, probe, doc, saverCrashes>>

FillOpenFile(s) ==
  /\ step[s] = "fill"
  /\ tmp' = IF fd[s] = "tmp" THEN Whole(doc[s]) ELSE tmp
  /\ config' = IF fd[s] = "config" THEN Whole(doc[s]) ELSE config
  /\ fd' = [fd EXCEPT ![s] = "none"]
  /\ Then(s, "rename")
  /\ UNCHANGED <<service, probe, doc, saverCrashes>>

\* (The best-effort copy to {path}.bak in between is read by nobody.)  A
\* temporary file that another save has renamed away is an error.
RenameTmp(s) ==
  /\ step[s] = "rename"
  /\ IF tmp.kind = "missing" THEN UNCHANGED <<config, tmp, fd>>
     ELSE /\ config' = tmp /\ tmp' = Missing
          /\ fd' = [r \in Saver |-> CASE fd[r] = "tmp" -> "config"
                                      [] fd[r] = "config" -> "gone"
                                      [] OTHER -> fd[r]]
  /\ Answer(s)
  /\ UNCHANGED <<service, probe, saverCrashes>>

\* The process dies and starts again from what is on disk.
CrashRestart ==
  /\ saverCrashes < MaxCrashes
  /\ saverCrashes' = saverCrashes + 1
  /\ step' = [s \in Saver |-> "idle"]
  /\ doc' = [s \in Saver |-> Default]
  /\ fd' = [s \in Saver |-> "none"]
  /\ UNCHANGED <<config, service, probe, tmp>>

SaveStep(s) ==
  \/ \E key \in {"a", "b"}, v \in Value : ReadAndPatch(s, key, v)
  \/ ValidateInMemory(s) \/ TruncateProbe(s) \/ FillProbe(s) \/ LoadProbe(s)
  \/ TruncateTmp(s) \/ FillOpenFile(s) \/ RenameTmp(s)

ConfigNext == CrashRestart \/ \E s \in Saver : SaveStep(s)

ConfigSpec == ConfigInit /\ [][ConfigNext]_configVars

----------------------------------------------------------------------------
(* Properties *)

(* config_io.rs:3-5.  "Writes use atomic rename to prevent corruption on      *)
(* crash or concurrent access": the configuration file is whole and valid at  *)
(* every moment, so a restart always finds one to start from.                 *)
ConfigStaysWhole == config.kind = "whole" /\ Valid(config.is)
============================================================================
