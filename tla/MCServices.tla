----------------------------- MODULE MCServices -----------------------------
(* Small instances of components that share no state, in one state graph:    *)
(* focus, which no step changes, says which of them moves in a behaviour; the *)
(* others stay in one of their initial states.  Share accounting comes here   *)
(* with the faults that MCEdges leaves out: a compaction of the recovery that *)
(* fails, records that expire, a log that cannot be opened.                   *)
EXTENDS ShareAccounting, VerdictLog, VerifierAdmin, ClassM, ConfigStore, ShareIngest,
        Accounts, TLC

CONSTANTS k1, k2, h1, r1, r2

\* Requests are interchangeable.
Requests == Permutations({r1, r2})

\* One connection that produces both shares.
OneConnection == h1 :> {k1, k2}

VARIABLE focus

servicesVars == <<focus, vars, logVars, adminVars, classMVars, configVars, ingestVars,
                  accountVars>>

ServicesInit ==
  /\ focus \in {"accounting", "verdicts", "admin", "class_m", "config", "ingest", "accounts"}
  /\ Init /\ LogInit
  /\ focus # "admin" =>
       /\ env = [secret |-> "good", optional |-> FALSE, degrade |-> FALSE]
       /\ stored = NoPolicy /\ boot = CHOOSE u \in Setting : TRUE
  /\ AdminInit
  /\ focus # "class_m" => pool = {}
  /\ ClassMInit
  /\ focus # "config" => service = "gateway"
  /\ ConfigInit
  /\ focus # "ingest" => gatewaySecret = NoSecret /\ managerSecret = NoSecret
  /\ IngestInit
  /\ AccountInit

ServicesNext ==
  \/ /\ focus = "accounting" /\ Next
     /\ UNCHANGED <<focus, logVars, adminVars, classMVars, configVars, ingestVars, accountVars>>
  \/ /\ focus = "verdicts" /\ LogNext
     /\ UNCHANGED <<focus, vars, adminVars, classMVars, configVars, ingestVars, accountVars>>
  \/ /\ focus = "admin" /\ AdminNext
     /\ UNCHANGED <<focus, vars, logVars, classMVars, configVars, ingestVars, accountVars>>
  \/ /\ focus = "class_m" /\ ClassMNext
     /\ UNCHANGED <<focus, vars, logVars, adminVars, configVars, ingestVars, accountVars>>
  \/ /\ focus = "config" /\ ConfigNext
     /\ UNCHANGED <<focus, vars, logVars, adminVars, classMVars, ingestVars, accountVars>>
  \/ /\ focus = "ingest" /\ IngestNext
     /\ UNCHANGED <<focus, vars, logVars, adminVars, classMVars, configVars, accountVars>>
  \/ /\ focus = "accounts" /\ AccountNext
     /\ UNCHANGED <<focus, vars, logVars, adminVars, classMVars, configVars, ingestVars>>

ServicesSpec == ServicesInit /\ [][ServicesNext]_servicesVars
=============================================================================
