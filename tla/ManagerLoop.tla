----------------------------- MODULE ManagerLoop -----------------------------
(* The template manager (services/template-manager/src/main.rs): the poll of  *)
(* getblocktemplate with its retries, the fingerprint that suppresses what    *)
(* has not changed, the coinbase and the merkle branch built for miners, the  *)
(* courtesy proposal to the verifier, and what /latest serves.                *)
(*                                                                            *)
(* The node is external: what it would answer now is a tip height and an      *)
(* ordered list of transactions.  Hashing is a free constructor, so a         *)
(* template's id is its fingerprint.                                          *)
EXTENDS Consensus

CONSTANTS
  Pooled,             \* transactions the node may put into a template: naturals
  Tips,               \* heights of the blocks it may be building
  AuxLength,          \* AuxLength[h]: bytes of coinbaseaux at that height
  ExtranonceSize,
  RpcAttempts,        \* attempts per poll
  TEMPLATE_LOG_CAP

VARIABLES
  node,               \* what getblocktemplate would answer: [height, txs]
  answers,            \* does the node answer
  at,                 \* where the loop stands
  attempts,           \* failed attempts of the running call
  last_fp,            \* BitcoindTemplateSource::last_fp
  propose,            \* the template in hand
  latest,             \* what /latest serves
  logged              \* entries of the template log

managerVars == <<node, answers, at, attempts, last_fp, propose, latest, logged>>

NodeTemplates ==
  [height : Tips,
   txs : {<<>>} \union {<<t>> : t \in Pooled}
         \union {p \in Pooled \X Pooled : p[1] # p[2]}]
Nothing == [height |-> -1, txs |-> <<>>]

\* hash_txids sorts first, so the order of the transactions does not count.
Fingerprint(t) == [height |-> t.height, txids_hash |-> ToSet(t.txs)]
stable_template_id(t) == Fingerprint(t)

----------------------------------------------------------------------------
(* What is built from a template.                                             *)

RECURSIVE LittleEndian(_)
LittleEndian(n) == IF n = 0 THEN <<>> ELSE <<n % 256>> \o LittleEndian(n \div 256)

\* Minimal little-endian bytes behind their count; a set high bit is padded.
bip34_height_push(height) ==
  LET v == LittleEndian(height)
      padded == IF v[Len(v)] >= 128 THEN Append(v, 0) ELSE v
  IN IF height = 0 THEN <<1, 0>> ELSE <<Len(padded)>> \o padded

scriptsig_len(t) == Len(bip34_height_push(t.height)) + AuxLength[t.height] + ExtranonceSize

build_coinbase_halves(t) == scriptsig_len(t) <= MAX_COINBASE_SCRIPT_LEN

(* The sibling of the coinbase's ancestor at each level.  The coinbase itself *)
(* is a placeholder: it is no sibling of its own path.                        *)
RECURSIVE BranchOf(_)
BranchOf(level) ==
  IF Len(level) <= 1 THEN <<>> ELSE <<level[2]>> \o BranchOf(Paired(level))

compute_merkle_branch(txs) ==
  BranchOf(<<(<<-1>>)>> \o [i \in DOMAIN txs |-> <<txs[i]>>])

\* Variant: the sibling goes to the left.
FoldBranchSwapped(coinbase, branch) ==
  FoldLeft(LAMBDA hash, sibling : <<sibling, hash>>, <<coinbase>>, branch)

\* The gateway's side (jobs.rs): the coinbase hash folded with the branch.
FoldBranch(coinbase, branch) ==
  FoldLeft(LAMBDA hash, sibling : <<hash, sibling>>, <<coinbase>>, branch)

----------------------------------------------------------------------------
ManagerInit ==
  /\ node \in NodeTemplates /\ answers \in BOOLEAN
  /\ at = "poll" /\ attempts = 0
  /\ last_fp = Fingerprint(Nothing)
  /\ propose = Nothing /\ latest = Nothing /\ logged = 0

\* external: the node's mempool, its tip, which a reorganisation replaces by one
\* at least as high, and whether its RPC works.
NodeChanges ==
  /\ node' \in {t \in NodeTemplates : t # node /\ t.height >= node.height}
  /\ UNCHANGED <<answers, at, attempts, last_fp, propose, latest, logged>>

NodeToggles ==
  /\ answers' = ~answers
  /\ UNCHANGED <<node, at, attempts, last_fp, propose, latest, logged>>

(* next_template: a failed call is retried, and after the last attempt the    *)
(* poll gives up until the next tick.                                         *)
RpcFails ==
  /\ at = "poll" /\ ~answers
  /\ IF attempts + 1 >= RpcAttempts
       THEN attempts' = 0 /\ at' = "sleep"
       ELSE attempts' = attempts + 1 /\ at' = at
  /\ UNCHANGED <<node, answers, last_fp, propose, latest, logged>>

(* An answer: nothing new, a template that cannot be built (an error, after   *)
(* the fingerprint was remembered), or a proposal.                            *)
RpcAnswers ==
  /\ at = "poll" /\ answers
  /\ attempts' = 0
  /\ last_fp' = Fingerprint(node)
  /\ IF last_fp = Fingerprint(node) \/ ~build_coinbase_halves(node)
       THEN at' = "sleep" /\ UNCHANGED propose
       ELSE at' = "send" /\ propose' = node
  /\ UNCHANGED <<node, answers, latest, logged>>

\* Variant: a template the verifier does not take is dropped.
SendOrDrop ==
  /\ at = "send"
  /\ at' \in {"log", "sleep"}
  /\ UNCHANGED <<node, answers, attempts, last_fp, propose, latest, logged>>

\* Connecting and waiting for the verdict are bounded, and every outcome,
\* a refusal included, is only logged.
SendToVerifier ==
  /\ at = "send"
  /\ at' = "log"
  /\ UNCHANGED <<node, answers, attempts, last_fp, propose, latest, logged>>

LogTemplate ==
  /\ at = "log"
  /\ at' = "store"
  /\ logged' = IF logged < TEMPLATE_LOG_CAP THEN logged + 1 ELSE logged
  /\ UNCHANGED <<node, answers, attempts, last_fp, propose, latest>>

StoreLatest ==
  /\ at = "store"
  /\ at' = "sleep"
  /\ latest' = propose /\ propose' = Nothing
  /\ UNCHANGED <<node, answers, attempts, last_fp, logged>>

\* The mempool figures are fetched with the same retries, then the loop sleeps.
SleepOver ==
  /\ at = "sleep"
  /\ at' = "poll"
  /\ UNCHANGED <<node, answers, attempts, last_fp, propose, latest, logged>>

LoopStep == RpcFails \/ RpcAnswers \/ SendToVerifier \/ LogTemplate \/ StoreLatest \/ SleepOver
ManagerNext == NodeChanges \/ NodeToggles \/ LoopStep

----------------------------------------------------------------------------
(* Properties *)

(* main.rs:1681-1783.  Once the node settles on a template and answers, that  *)
(* template is served, whatever the verifier does and however many templates  *)
(* were skipped before; one that cannot be built leaves the last good one.    *)
LatestCatchesUp ==
  (<>[](answers /\ build_coinbase_halves(node)) /\ <>[][node' = node]_managerVars)
    => <>[](stable_template_id(latest) = stable_template_id(node))

(* main.rs:312-321, 816-818.  "reordering doesn't create fake new templates": *)
(* what /latest serves never changes to a template with the same id.          *)
ReorderingIsQuiet ==
  [][latest' # latest => stable_template_id(latest') # stable_template_id(latest)]_managerVars

(* main.rs:582-650 against jobs.rs:136-169 and rg-consensus.  The root the    *)
(* gateway folds from the served branch is the root of the block's            *)
(* transactions with the miner's coinbase in front, for every size of block.  *)
BranchGivesRoot ==
  \A more \in 0 .. 4 :
    LET txs == latest.txs \o [i \in 1 .. more |-> 100 + i] IN
      FoldBranch(0, compute_merkle_branch(txs)) = compute_merkle_root(<<0>> \o txs)

(* main.rs:345-376 against rg-consensus decode_bip34_height.  The height the  *)
(* coinbase carries is the one the verifier reads back from it.               *)
HeightReadBack ==
  latest # Nothing => decode_bip34_height(bip34_height_push(latest.height)) = latest.height

(* main.rs:483-494 against the shield's coinbase length check.  Nothing is    *)
(* served whose coinbase script is outside the consensus limits.              *)
ServedScriptLegal ==
  latest # Nothing => scriptsig_len(latest) \in MIN_COINBASE_SCRIPT_LEN .. MAX_COINBASE_SCRIPT_LEN

(* What /latest serves can be mined into a legal block: branch, height and    *)
(* script length fit together.                                                *)
WorkIsMinable == BranchGivesRoot /\ HeightReadBack /\ ServedScriptLegal

(* /latest comes to serve what the node settled on, and does not change       *)
(* without a change of contents.                                              *)
LatestIsServed == LatestCatchesUp /\ ReorderingIsQuiet
=============================================================================
