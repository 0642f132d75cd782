----------------------------- MODULE MCProgress -----------------------------
(* Small instances of the components whose liveness matters, in one state     *)
(* graph: focus, which no step changes, says which of them moves in a         *)
(* behaviour; the others stay in an initial state, in which nothing that      *)
(* their fairness asks for is enabled.                                        *)
EXTENDS IngressSlots, MinerSessions, FrameStream, ManagerLoop, TLC

VARIABLE focus

\* Payload lengths a miner sends, the last of them over the limit.
FourFrames == <<1, 3, 0, 5>>

\* coinbaseaux: two bytes at one height, none elsewhere.
AuxAtHeight == [h \in Tips |-> IF h = 128 THEN 2 ELSE 0]

progressVars == <<focus, slotVars, sessionVars, streamVars, managerVars>>

ProgressInit ==
  /\ focus \in {"slots", "sessions", "stream", "manager"}
  /\ SlotInit /\ SessionInit /\ StreamInit
  /\ focus # "manager" => node = (CHOOSE t \in NodeTemplates : TRUE) /\ answers = FALSE
  /\ ManagerInit

ProgressNext ==
  \/ /\ focus = "slots" /\ SlotNext
     /\ UNCHANGED <<focus, sessionVars, streamVars, managerVars>>
  \/ /\ focus = "sessions" /\ SessionNext
     /\ UNCHANGED <<focus, slotVars, streamVars, managerVars>>
  \/ /\ focus = "stream" /\ StreamNext
     /\ UNCHANGED <<focus, slotVars, sessionVars, managerVars>>
  \/ /\ focus = "manager" /\ ManagerNext
     /\ UNCHANGED <<focus, slotVars, sessionVars, streamVars>>

(* The manager's loop runs: every wait in it has a deadline.                  *)
ProgressSpec ==
  /\ ProgressInit /\ [][ProgressNext]_progressVars
  /\ SlotFairness /\ SessionFairness /\ StreamFairness
  /\ WF_managerVars(focus = "manager" /\ LoopStep)
=============================================================================
