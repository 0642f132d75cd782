------------------------------- MODULE Policy -------------------------------
(* How the verifier judges one template (services/pool-verifier/src/         *)
(* policy.rs): the basic, fee and safety checks, the Invariant Shield over   *)
(* the raw block, and Class M against the mempool snapshot.  The first check *)
(* that objects names the reason; the order is the code's.                    *)
EXTENDS Consensus

CONSTANT Fault    \* the ways a proposed template can be wrong

VARIABLES
  faults,         \* what is wrong with the proposed template
  cfg,            \* the policy it is judged by
  mempool_tx,     \* the mempool transaction count, None when unknown
  snap,           \* the mempool snapshot Class M is given
  result          \* the EvalResult, NoResult before the evaluation

policyVars == <<faults, cfg, mempool_tx, snap, result>>

NoResult == [reason |-> "", warnings |-> {}, skipped |-> FALSE,
             phase2 |-> "NotRun", min_avg |-> 0]

\* A policy that rejects what it can, and one that only warns.
Config(strict) ==
  [reject_empty_templates |-> strict, reject_coinbase_zero |-> strict,
   enforce_weight_ratio |-> strict, enforce_template_age |-> strict,
   unknown_mempool_as_high |-> strict, max_tx_count |-> 4, min_total_fees |-> 6,
   low_mempool_tx |-> 2, high_mempool_tx |-> 4, min_avg_fee_lo |-> 0,
   min_avg_fee_mid |-> 2, min_avg_fee_hi |-> 4, max_weight |-> 13, max_age |-> 3,
   warn_sigops |-> 12, warn_coinbase |-> 7, tolerance_pct |-> 50]

----------------------------------------------------------------------------
\* Fee tiers by mempool load; an unknown load counts as high or as middle.
effective_min_avg_fee_dynamic(tx) ==
  IF tx = None THEN IF cfg.unknown_mempool_as_high THEN cfg.min_avg_fee_hi
                                                   ELSE cfg.min_avg_fee_mid
  ELSE IF tx < cfg.low_mempool_tx THEN cfg.min_avg_fee_lo
  ELSE IF tx < cfg.high_mempool_tx THEN cfg.min_avg_fee_mid
  ELSE cfg.min_avg_fee_hi

----------------------------------------------------------------------------
(* The checks in the order of evaluate_dynamic_inner.  Each is [bad, reason];*)
(* FirstOf is the reason of the first that objects.                           *)

FirstOf(checks) ==
  LET bad == {i \in DOMAIN checks : checks[i].bad} IN
  IF bad = {} THEN Ok ELSE checks[CHOOSE i \in bad : \A j \in bad : i <= j].reason

If(bad, reason) == [bad |-> bad, reason |-> reason]
Is(answer) == [bad |-> answer # Ok, reason |-> answer]

check_basic_validity(t) ==
  FirstOf(<<If(~t.version_ok, "protocol_version_mismatch"),
            If(~t.prev_len_ok, "prev_hash_len_mismatch"),
            If(~t.prev_hex_ok, "invalid_prev_hash")>>)

\* The average is floored: below the minimum exactly when the true average is.
check_template_constraints(t, min_avg) ==
  FirstOf(<<If(cfg.reject_empty_templates /\ t.tx_count = 0, "empty_template_rejected"),
            If(cfg.reject_coinbase_zero /\ t.coinbase_value = 0 /\ t.tx_count > 0,
               "coinbase_value_zero_rejected"),
            If(t.tx_count > cfg.max_tx_count, "tx_count_exceeded"),
            If(t.total_fees < cfg.min_total_fees, "total_fees_below_minimum"),
            If(min_avg > 0 /\ t.tx_count > 0 /\ t.total_fees \div t.tx_count < min_avg,
               "avg_fee_below_minimum")>>)

\* template_weight is canonical; observed_weight stands in when it is absent.
effective_weight(t) == IF t.weight # None THEN t.weight ELSE t.observed

check_safety_constraints(t) ==
  FirstOf(<<If(cfg.enforce_weight_ratio /\ effective_weight(t) > cfg.max_weight,
               "weight_ratio_exceeded"),
            If(cfg.enforce_template_age /\ t.age > cfg.max_age, "template_stale")>>)

\* What the same checks only warn of; an absent field (None) warns of nothing.
safety_warnings(t) ==
  {w \in {"weight_ratio_exceeded", "template_stale", "sigops_budget_warning",
          "coinbase_sigops_abnormal"} :
     CASE w = "weight_ratio_exceeded" -> effective_weight(t) > cfg.max_weight
       [] w = "template_stale" -> t.age > cfg.max_age
       [] w = "sigops_budget_warning" -> t.sigops > cfg.warn_sigops
       [] OTHER -> t.cb_sigops > cfg.warn_coinbase}

(* The Invariant Shield, in the order of check_invariant_shield_inner.       *)

\* The value and the weight that were declared, the roots and the BIP34 push.
value_checks(t) ==
  LET coin == re_derive_coinbase_value(t.raw) IN
  <<Is(coin.err),
    If(coin.value # t.coinbase_value, "coinbase_value_mismatch"),
    If(t.weight # None /\ non_coinbase_tx_weight(t.raw) # t.weight,
       "template_weight_mismatch"),
    Is(check_merkle_root_internal(t.raw)),
    Is(check_witness_commitment_internal(t.raw)),
    Is(bip34_height(t.raw).err)>>

\* The counts and the height that were declared.  Sigops are declared as costs,
\* of which the legacy count times four is a lower bound; a field that is not
\* declared is not compared.
count_checks(t) ==
  <<If(Len(t.raw.txs) - 1 # t.tx_count, "tx_count_mismatch"),
    If(t.sigops # None /\ non_coinbase_sigops(t.raw) * WITNESS_SCALE_FACTOR > t.sigops,
       "sigops_mismatch"),
    If(t.cb_sigops # None /\ coinbase_sigops(t.raw) * WITNESS_SCALE_FACTOR > t.cb_sigops,
       "coinbase_sigops_mismatch"),
    If(bip34_height(t.raw).height # t.height, "coinbase_height_mismatch")>>

\* The block against consensus.
tier3_checks(b) ==
  <<Is(check_coinbase_script_length(b)),
    Is(check_coinbase_output_count(b)),
    Is(check_weight_max(b)),
    Is(check_sigops_max(b)),
    Is(check_coinbase_value_max(b)),
    Is(check_non_coinbase_null_prevout(b)),
    Is(check_coinbase_null_prevout(b)),
    Is(check_header_version(b)),
    Is(check_duplicate_tx(b))>>

\* mempool_view::evaluate, by the state of the served view.
evaluate(b, s) ==
  LET ids == ToSet(template_txids(b))
      unknown == Cardinality(ids \ s.txids)
  IN
  CASE s.state = "Absent" -> "NotRun"
    [] s.state = "Unprimed" -> "SkippedUnprimed"
    [] s.state = "Degraded" -> "SkippedDegraded"
    [] unknown * 100 > cfg.tolerance_pct * Len(template_txids(b)) -> "Rejected"
    [] s.state = "Stale" -> "Stale"
    [] OTHER -> "Agreed"

Shielded(reason, skipped, phase2) ==
  [reason |-> reason, skipped |-> skipped, phase2 |-> phase2]

\* Class M is additive: only a tolerance that is exceeded rejects.
class_m(t, s) ==
  LET outcome == evaluate(t.raw, s) IN
  Shielded(IF outcome = "Rejected" THEN "mempool_tolerance_exceeded" ELSE Ok, FALSE, outcome)

check_invariant_shield_inner(t, s) ==
  IF t.has_raw = "none" THEN Shielded(Ok, TRUE, "NotRun")
  ELSE IF t.has_raw = "garbage" THEN Shielded("decode_failed", FALSE, "NotRun")
  ELSE LET phase1 == FirstOf(value_checks(t) \o count_checks(t) \o tier3_checks(t.raw))
       IN  IF phase1 # Ok THEN Shielded(phase1, FALSE, "NotRun") ELSE class_m(t, s)

evaluate_dynamic_inner(t, tx, s) ==
  LET min_avg == effective_min_avg_fee_dynamic(tx)
      early == FirstOf(<<Is(check_basic_validity(t)),
                         Is(check_template_constraints(t, min_avg)),
                         Is(check_safety_constraints(t))>>)
      shield == IF early # Ok THEN Shielded(early, FALSE, "NotRun")
                ELSE check_invariant_shield_inner(t, s)
  IN
  [reason |-> shield.reason, skipped |-> shield.skipped, phase2 |-> shield.phase2,
   min_avg |-> min_avg,
   warnings |-> IF early = Ok THEN safety_warnings(t) ELSE {}]

----------------------------------------------------------------------------
(* Proposed templates: a sound one, and what each fault does to it.  The      *)
(* block has a coinbase and two transactions, the first with a witness.       *)

Has(f) == f \in faults

SampleTx(id, wit) ==
  [id |-> id, ins |-> <<Has("null_prevout") /\ id = 2>>, wit |-> wit,
   outs |-> <<[value |-> 1, commit |-> <<>>]>>,
   sigops |-> IF Has("sigops_over") THEN 3 ELSE 1,
   weight |-> IF Has("weight_over") THEN 9 ELSE IF Has("heavy") THEN 7 ELSE 4,
   script |-> <<>>]

Txs == IF Has("empty") THEN <<>>
       ELSE IF Has("duplicate") THEN <<SampleTx(1, 5), SampleTx(2, None), SampleTx(2, None)>>
       ELSE <<SampleTx(1, 5), SampleTx(2, None)>>

Script == IF Has("bip34") THEN <<2, 3, 0>>
          ELSE IF Has("script_len") THEN <<1, 3, 0, 0, 0>> ELSE <<1, 3>>

BareCoinbase(commit) ==
  LET amount == IF Has("over_money") THEN 8
                ELSE IF Has("overflow") THEN 16
                ELSE IF Has("zero_value") THEN 0 ELSE 3
      pays == [value |-> amount, commit |-> <<>>]
  IN
  [id |-> 9, wit |-> Zeros, sigops |-> 1, weight |-> 1, script |-> Script,
   ins |-> CASE Has("coinbase_prevout") -> <<FALSE>>
             [] Has("coinbase_inputs") -> <<TRUE, TRUE>>
             [] OTHER -> <<TRUE>>,
   outs |-> IF Has("no_outputs") THEN <<>>
            ELSE IF Has("commit_missing") THEN <<pays>>
            ELSE <<[value |-> 0, commit |-> <<<<>>, 1>>], pays,
                   [value |-> 0, commit |-> commit]>>]

RightCommitment == commitment(<<NoTx>> \o Txs, Zeros)

Raw ==
  LET cb == BareCoinbase(IF Has("commit_wrong") THEN <<<<>>, 1>> ELSE RightCommitment)
      all == IF Has("no_coinbase") THEN <<>> ELSE <<cb>> \o Txs
  IN
  [version |-> IF Has("header") THEN 3 ELSE 4, txs |-> all,
   root |-> IF Has("root") THEN <<<<9>>, <<9>>>>
            ELSE compute_merkle_root(txids(all))]

\* What an honest proposer declares of the block, and the faults of declaring.
Template ==
  LET b == Raw IN
  [version_ok |-> ~Has("version"), prev_len_ok |-> ~Has("prev_len"),
   prev_hex_ok |-> ~Has("prev_hex"),
   tx_count |-> IF Has("many") THEN 5 ELSE IF Has("count") THEN 3 ELSE Len(Txs),
   coinbase_value |-> Total(LAMBDA o : o.value, Coinbase(b).outs)
                        + (IF Has("value") THEN 1 ELSE 0),
   total_fees |-> IF Has("low_fees") THEN 5 ELSE IF Has("low_average") THEN 7 ELSE 12,
   weight |-> IF Has("undeclared") THEN None
              ELSE non_coinbase_tx_weight(b) + (IF Has("weight") THEN 1 ELSE 0),
   observed |-> None,
   age |-> IF Has("old") THEN 4 ELSE 1,
   sigops |-> IF Has("undeclared") THEN None
              ELSE non_coinbase_sigops(b) * 4 - (IF Has("sigops") THEN 1 ELSE 0),
   cb_sigops |-> IF Has("undeclared") THEN None
                 ELSE IF Has("coinbase_sigops") THEN 3 ELSE 4,
   height |-> IF Has("height") THEN 4 ELSE 3,
   has_raw |-> IF Has("no_raw") THEN "none" ELSE IF Has("garbage") THEN "garbage" ELSE "hex",
   raw |-> b]

Snapshots == [state : {"Absent", "Unprimed", "Degraded"}, txids : {{}}]
               \cup [state : {"Fresh", "Stale"}, txids : {{}, {1}, {1, 2}}]

PolicyInit ==
  /\ faults \in {{}} \cup {{f, g} : f, g \in Fault}   \* bound: two at a time
  /\ cfg \in {Config(TRUE), Config(FALSE)}
  /\ mempool_tx \in {None, 1, 2, 4}
  /\ snap \in Snapshots
  /\ result = NoResult

Evaluate ==
  /\ result = NoResult
  /\ result' = evaluate_dynamic_inner(Template, mempool_tx, snap)
  /\ UNCHANGED <<faults, cfg, mempool_tx, snap>>

PolicyNext == Evaluate

----------------------------------------------------------------------------
Judged == result # NoResult

\* Faults that only a policy that enforces them rejects, or that are not faults.
Optional == {"empty", "zero_value", "heavy", "old", "undeclared", "no_raw", "low_average"}

\* Faults of a declared field and of a transaction, which are not there when the
\* field or the transactions are not.
OfDeclared == {"weight", "sigops", "coinbase_sigops"}
OfTransactions == {"duplicate", "null_prevout", "sigops_over", "weight_over", "sigops"}

(* No wrong template is accepted: whatever else is wrong with it, and in      *)
(* whatever order the checks run, each fault is rejected on its own account   *)
(* or together with another, unless the raw block that shows it was not sent. *)
NothingSlips ==
  (Judged /\ result.reason = Ok /\ ~result.skipped) =>
    \A f \in faults :
      \/ f \in Optional
      \/ f \in OfDeclared /\ "undeclared" \in faults
      \/ f \in OfTransactions /\ "empty" \in faults

(* No sound template is refused by a check of its fields or of its block:     *)
(* assembly, declaration and re-derivation agree.                             *)
NothingInvented ==
  (Judged /\ faults \subseteq {"undeclared", "no_raw"}) =>
    result.reason \in {Ok, "mempool_tolerance_exceeded"}

(* The average fee test is exact although it divides integers: an accepted    *)
(* template pays at least the minimum per transaction of the tier in force,   *)
(* and one that pays it is not refused for its average.                       *)
AverageFeeExact ==
  Judged =>
    LET t == Template  owed == result.min_avg * t.tx_count IN
    /\ result.reason = Ok => t.total_fees >= owed
    /\ result.reason = "avg_fee_below_minimum" => t.total_fees < owed

(* What Class M is said to have done is what it did: it is credited only when *)
(* every earlier check passed, and it rejects only over a view it may use.    *)
ClassMCredited ==
  Judged =>
    /\ result.phase2 # "NotRun" =>
         result.reason \in {Ok, "mempool_tolerance_exceeded"} /\ ~result.skipped
    /\ result.reason = "mempool_tolerance_exceeded" =>
         /\ snap.state \in {"Fresh", "Stale"}
         /\ ToSet(template_txids(Raw)) \ snap.txids # {}
    /\ (result.reason = Ok /\ ~result.skipped /\ snap.state \in {"Fresh", "Stale"}) =>
         2 * Cardinality(ToSet(template_txids(Raw)) \ snap.txids) <= Len(Txs)

(* The block the template manager assembles from a coinbase and transactions *)
(* is one the verifier's own checks agree with: the root it computes, and the *)
(* commitment under the reserved value it fills in.                           *)
AssembledAgrees ==
  LET bare == [BareCoinbase(RightCommitment) EXCEPT !.wit = None]
      made == assemble_template_block(4, bare, Txs)
  IN
  IF Has("commit_missing") \/ Has("no_outputs")
    THEN made.err = Ok <=> Txs = <<>>
    ELSE /\ made.err = Ok
         /\ check_merkle_root_internal(made.block) = Ok
         /\ check_witness_commitment_internal(made.block) = Ok

(* policy.rs:1321-1560 with rg-consensus.  The verdict against what it should *)
(* be: no defect slips through, a template without one is not refused, the    *)
(* fee floor is exact, Class M is credited only where it was checked, and a   *)
(* block assembled by the manager passes.                                     *)
JudgesAsReference ==
  NothingSlips /\ NothingInvented /\ AverageFeeExact /\ ClassMCredited /\ AssembledAgrees
=============================================================================
