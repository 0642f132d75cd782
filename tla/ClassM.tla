------------------------------- MODULE ClassM -------------------------------
(* The verifier's mempool ground truth (services/pool-verifier/src:           *)
(* mempool_view.rs, second_chance.rs, bitcoind_rpc.rs and run_second_chance   *)
(* of ingress.rs): a polled view of bitcoind's mempool, the check of a        *)
(* template against it, and the lookup that asks bitcoind again before a      *)
(* rejection stands.  bitcoind goes on working between any two calls.         *)
EXTENDS Integers, Sequences, FiniteSets

CONSTANTS
  Tx,
  TolerancePct,               \* policy.mempool.tolerance_pct
  MaxStale,                   \* mempool_max_stale_secs, in polls
  MAX_RECENT_BLOCKS_SCANNED,
  MEMPOOL_PROBE_CHUNK,
  MaxTip,                     \* bound: blocks in the chain
  Restarts                    \* bound: restarts of bitcoind

MIN_INSTALLABLE_MEMPOOL_SIZE == 1

VARIABLES
  pool,      \* bitcoind's mempool
  unloaded,  \* what bitcoind has yet to replay from mempool.dat
  loaded,    \* getmempoolinfo's loaded
  chain,     \* chain[h]: transactions of the block at height h
  restarts,  \* restarts so far
  view,      \* the polled view
  view_age,       \* since the view was installed, up to degraded; -1: unprimed
  ask,       \* the lookup in progress, or where none is
  last,      \* the last verdict of Class M
  held,      \* unknowns bitcoind held at every moment of the lookup
  seen,      \* unknowns bitcoind held at some moment of the lookup
  calm       \* no block and no restart since the lookup's first answer

nodeVars == <<pool, unloaded, loaded, chain, restarts>>
viewVars == <<view, view_age>>
classMVars == <<nodeVars, viewVars, ask, last, held, seen, calm>>

NoAsk == [st |-> "none"]
NoVerdict == [kind |-> "none"]

Tip == Len(chain)
MinedFrom(h) == UNION {chain[i] : i \in {j \in 1 .. Tip : j >= h}}
Holds(t, h) == t \in pool \cup unloaded \cup MinedFrom(h)

ClassMTypeOK ==
  /\ pool \subseteq Tx /\ unloaded \subseteq Tx /\ view \subseteq Tx
  /\ loaded \in BOOLEAN /\ calm \in BOOLEAN
  /\ chain \in Seq(SUBSET Tx) /\ restarts \in 0 .. Restarts
  /\ view_age \in -1 .. (2 * MaxStale + 1)
  /\ ask.st \in {"none", "info", "best", "walk", "probe"}
  /\ ask.st \in {"walk", "probe"} => ask.scanned \in 0 .. MAX_RECENT_BLOCKS_SCANNED
  /\ ask.st = "probe" => ask.todo \subseteq ask.unknown \ ask.mined
  /\ last.kind \in {"none", "skipped", "stale", "agreed", "withdrawn", "upheld",
                    "lookup_failed"}
  /\ held \subseteq Tx /\ seen \subseteq Tx

ClassMInit ==
  /\ pool \in SUBSET Tx /\ unloaded = {} /\ loaded = TRUE
  /\ chain = << {} >> /\ restarts = 0
  /\ view = {} /\ view_age = -1
  /\ ask = NoAsk /\ last = NoVerdict
  /\ held = {} /\ seen = {} /\ calm = TRUE

----------------------------------------------------------------------------
(* bitcoind: transactions arrive and leave, blocks take them, it restarts.   *)

\* What the moments of a lookup saw, after a step of bitcoind.
Witness ==
  IF ask.st = "none" THEN UNCHANGED <<held, seen>>
  ELSE LET there == {t \in ask.unknown :
                       t \in pool' \cup unloaded'
                             \cup UNION {chain'[i] : i \in ask.height .. Len(chain')}}
       IN held' = held \cap there /\ seen' = seen \cup there

NodeStep ==
  /\ Witness
  /\ UNCHANGED <<viewVars, ask, last>>

TxArrives(t) ==
  /\ t \notin pool \cup unloaded \cup MinedFrom(1)
  /\ pool' = pool \cup {t}
  /\ UNCHANGED <<unloaded, loaded, chain, restarts, calm>>
  /\ NodeStep

TxLeaves(t) ==
  /\ t \in pool
  /\ pool' = pool \ {t}
  /\ UNCHANGED <<unloaded, loaded, chain, restarts, calm>>
  /\ NodeStep

BlockArrives ==
  /\ loaded /\ Tip < MaxTip
  /\ \E txs \in SUBSET pool :
       /\ chain' = Append(chain, txs)
       /\ pool' = pool \ txs
  /\ calm' = FALSE
  /\ UNCHANGED <<unloaded, loaded, restarts>>
  /\ NodeStep

NodeRestarts ==
  /\ loaded /\ restarts < Restarts
  /\ restarts' = restarts + 1
  /\ loaded' = FALSE
  /\ \E replayed \in SUBSET pool :
       pool' = replayed /\ unloaded' = pool \ replayed
  /\ calm' = FALSE
  /\ UNCHANGED chain
  /\ NodeStep

NodeLoaded ==
  /\ ~loaded
  /\ loaded' = TRUE
  /\ pool' = pool \cup unloaded /\ unloaded' = {}
  /\ UNCHANGED <<chain, restarts, calm>>
  /\ NodeStep

----------------------------------------------------------------------------
(* MempoolView: the polling task installs what getrawmempool returned unless *)
(* it is empty; an error keeps the view, which grows old.                     *)

install_at(txs) ==
  IF Cardinality(txs) < MIN_INSTALLABLE_MEMPOOL_SIZE
    THEN UNCHANGED viewVars
    ELSE view' = txs /\ view_age' = 0

Poll ==
  /\ install_at(pool)
  /\ viewVars' # viewVars
  /\ UNCHANGED <<nodeVars, ask, last, held, seen, calm>>

ViewAges ==
  /\ view_age \in 0 .. 2 * MaxStale
  /\ view_age' = view_age + 1
  /\ UNCHANGED <<nodeVars, view, ask, last, held, seen, calm>>

snapshot ==
  IF view_age = -1 THEN "unprimed"
  ELSE IF view_age > 2 * MaxStale THEN "degraded"
  ELSE IF view_age > MaxStale THEN "stale" ELSE "fresh"

exceeds_tolerance(unknown, total) ==
  total # 0 /\ unknown * 100 > TolerancePct * total

Verdict(kind) == [kind |-> kind]

(* evaluate: a template for height h against the view.  A view that is too   *)
(* old, or was never filled, is no evidence and the check is skipped.         *)
Propose(h, txs) ==
  LET unknown == txs \ view IN
  /\ ask.st = "none"
  /\ \/ /\ snapshot \in {"unprimed", "degraded"}
        /\ last' = Verdict("skipped")
        /\ UNCHANGED <<ask, held, seen>>
     \/ /\ snapshot \in {"fresh", "stale"}
        /\ IF exceeds_tolerance(Cardinality(unknown), Cardinality(txs))
             THEN /\ ask' = [st |-> "info", height |-> h, unknown |-> unknown,
                             total |-> Cardinality(txs)]
                  /\ held' = {t \in unknown : Holds(t, h)}
                  /\ seen' = held'
                  /\ last' = NoVerdict
             ELSE /\ last' = Verdict(IF snapshot = "stale" THEN "stale"
                                                           ELSE "agreed")
                  /\ UNCHANGED <<ask, held, seen>>
  /\ calm' = TRUE
  /\ UNCHANGED <<nodeVars, viewVars>>

----------------------------------------------------------------------------
(* SecondChance::gather, one step per call to bitcoind.                       *)

LookupStep == UNCHANGED <<nodeVars, viewVars, held, seen>>

Decide(verdict) == last' = verdict /\ ask' = NoAsk

LookupFailed(why) ==
  Decide([kind |-> "lookup_failed", why |-> why, total |-> ask.total,
          unknown |-> ask.unknown])

\* 1. Degenerate-node guards before any probe.
AskInfo ==
  /\ ask.st = "info"
  /\ CASE ~loaded -> LookupFailed("mempool_loading")
       [] loaded /\ Cardinality(pool) < MIN_INSTALLABLE_MEMPOOL_SIZE ->
            LookupFailed("empty_mempool")
       [] OTHER -> /\ ask' = [ask EXCEPT !.st = "best"]
                   /\ UNCHANGED last
  /\ calm' = TRUE
  /\ LookupStep

WalkOver(cover, txids, scanned) ==
  ask' = [st |-> "probe", height |-> ask.height, unknown |-> ask.unknown,
          total |-> ask.total, cover |-> cover, mined |-> txids,
          scanned |-> scanned, todo |-> ask.unknown \ txids,
          present |-> {}, unadjudicated |-> {}]

\* 2. The block walk, from the tip down to the template's height; an error
\* ends it short.
AskBestBlock(ok) ==
  /\ ask.st = "best"
  /\ IF ok THEN ask' = [st |-> "walk", height |-> ask.height,
                        unknown |-> ask.unknown, total |-> ask.total,
                        at |-> Tip, mined |-> {}, scanned |-> 0]
           ELSE WalkOver("failed", {}, 0)
  /\ UNCHANGED <<last, calm>>
  /\ LookupStep

AskBlock(ok) ==
  LET txids == ask.mined \cup chain[ask.at]
      scanned == ask.scanned + 1
  IN
  /\ ask.st = "walk"
  /\ CASE ~ok -> WalkOver("failed", ask.mined, ask.scanned)
       [] ok /\ ask.at < ask.height ->
            WalkOver("complete", ask.mined, ask.scanned)
       [] ok /\ ask.at = ask.height -> WalkOver("complete", txids, scanned)
       [] ok /\ ask.at > ask.height /\ scanned >= MAX_RECENT_BLOCKS_SCANNED ->
            WalkOver("truncated", txids, scanned)
       [] OTHER -> ask' = [ask EXCEPT !.at = @ - 1, !.mined = txids,
                                      !.scanned = scanned]
  /\ UNCHANGED <<last, calm>>
  /\ LookupStep

\* Variant: an answer that is no answer is read as absence.
ProbeErrorIsAbsence(t, answer) ==
  IF answer = "clean" /\ t \in pool THEN "present" ELSE "absent"

(* probe_mempool for one chunk.  The batch's answers are matched by id: one   *)
(* that is missing, doubled, or an error other than "not in mempool" leaves   *)
(* its transaction unadjudicated.                                             *)
probe_from_item(t, answer) ==
  IF answer # "clean" THEN "unadjudicated"
  ELSE IF t \in pool THEN "present" ELSE "absent"

Probe(chunk, answer) ==
  /\ ask.st = "probe" /\ chunk \subseteq ask.todo /\ chunk # {}
  /\ \/ Cardinality(chunk) = MEMPOOL_PROBE_CHUNK
     \/ chunk = ask.todo /\ Cardinality(chunk) < MEMPOOL_PROBE_CHUNK
  /\ LET said(p) == {t \in chunk : probe_from_item(t, answer[t]) = p} IN
     ask' = [ask EXCEPT !.todo = @ \ chunk,
                        !.present = @ \cup said("present"),
                        !.unadjudicated = @ \cup said("unadjudicated")]
  /\ UNCHANGED <<last, calm>>
  /\ LookupStep

\* A transport failure, or the deadline over the whole lookup.
AskFails ==
  /\ ask.st \in {"info", "best", "walk", "probe"}
  /\ \E why \in {"deadline"} \cup
                (IF ask.st \in {"info", "probe"} THEN {"rpc"} ELSE {}) :
       LookupFailed(why)
  /\ UNCHANGED calm
  /\ LookupStep

----------------------------------------------------------------------------
(* adjudicate and run_second_chance *)

classify(t) ==
  CASE t \in ask.present -> "in_mempool"
    [] t \notin ask.present /\ t \in ask.mined -> "mined"
    [] t \notin ask.present \cup ask.mined /\ t \in ask.unadjudicated ->
         "unadjudicated"
    [] OTHER -> "absent"

Classed(c) == {t \in ask.unknown : classify(t) = c}

still_exceeds ==
  exceeds_tolerance(Cardinality(Classed("absent") \cup Classed("unadjudicated")),
                    ask.total)

run_second_chance ==
  /\ ask.st = "probe" /\ ask.todo = {}
  /\ CASE ~still_exceeds ->
            Decide([kind |-> "withdrawn", total |-> ask.total,
                    unknown |-> ask.unknown, absent |-> Classed("absent")])
       [] still_exceeds /\ Classed("unadjudicated") # {} ->
            LookupFailed("mempool_probe_incomplete")
       [] still_exceeds /\ Classed("unadjudicated") = {}
                        /\ ask.cover # "complete" ->
            LookupFailed("block_walk_incomplete")
       [] OTHER -> Decide([kind |-> "upheld", total |-> ask.total,
                           unknown |-> ask.unknown,
                           absent |-> Classed("absent")])
  /\ UNCHANGED calm
  /\ LookupStep

LookupNext ==
  \/ AskInfo \/ AskFails \/ run_second_chance
  \/ \E ok \in BOOLEAN : AskBestBlock(ok) \/ AskBlock(ok)
  \/ /\ ask.st = "probe"
     /\ \E chunk \in SUBSET ask.todo :
          \E answer \in [chunk -> {"clean", "unusable"}] : Probe(chunk, answer)

ClassMNext ==
  \/ \E t \in Tx : TxArrives(t) \/ TxLeaves(t)
  \/ BlockArrives \/ NodeRestarts \/ NodeLoaded
  \/ Poll \/ ViewAges
  \/ \E h \in 2 .. Tip + 1, txs \in SUBSET Tx \ {{}} : Propose(h, txs)
  \/ LookupNext

----------------------------------------------------------------------------
(* A rejection is withdrawn only on transactions bitcoind really held at     *)
(* some moment of the lookup: what it never held stays within tolerance.      *)
WithdrawnIsEarned ==
  last.kind = "withdrawn" =>
    ~exceeds_tolerance(Cardinality(last.unknown \ seen), last.total)

(* An upheld rejection is evidence: unless a block or a restart came between *)
(* the lookup's answers, no transaction it calls absent was one that bitcoind *)
(* held all along.  A failed, truncated or unusable answer never counts as    *)
(* absence.                                                                   *)
UpheldIsEvidence ==
  (last.kind = "upheld" /\ calm) => last.absent \cap held = {}

(* second_chance.rs:660-900.  Both answers of the lookup rest on evidence: a  *)
(* rejection is withdrawn only for transactions bitcoind was seen to have,    *)
(* and upheld only for some it did not have.                                  *)
LookupIsEvidence == WithdrawnIsEarned /\ UpheldIsEvidence
============================================================================
