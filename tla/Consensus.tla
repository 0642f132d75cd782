------------------------------ MODULE Consensus ------------------------------
(* The consensus re-derivations of services/rg-consensus/src/lib.rs, over     *)
(* blocks reduced to what the checks read.  Hashing is a free constructor:    *)
(* equal hashes have equal inputs.  A check returns Ok or the violation.      *)
(*                                                                            *)
(* A block is [version, root, txs].  A transaction is                         *)
(*   [id, ins, wit, outs, sigops, weight, script]                             *)
(* with ins the sequence of "is the previous output null", wit its witness    *)
(* (None, Zeros: one item of 32 zero bytes, or another value), outs a         *)
(* sequence of [value, commit], sigops and weight its counts, and script the  *)
(* bytes of its first input's script.                                         *)
EXTENDS Integers, Sequences, SequencesExt, FiniteSets

CONSTANTS
  MAX_BLOCK_WEIGHT_WU, MAX_BLOCK_SIGOPS_COST, MAX_MONEY_SATS,
  MaxU64,                       \* where checked_add overflows
  MIN_COINBASE_SCRIPT_LEN, MAX_COINBASE_SCRIPT_LEN, HEADER_VERSION_FLOOR

WITNESS_SCALE_FACTOR == 4
Ok == "ok"
None == -1
Zeros == 0

\* The sum of f over the elements of a sequence.
Total(f(_), seq) == FoldLeft(LAMBDA acc, x : acc + f(x), 0, seq)

----------------------------------------------------------------------------
(* Merkle trees, as the bitcoin crate computes them: an odd node is paired    *)
(* with itself.                                                               *)

Paired(level) ==
  LET n == Len(level) IN
  [i \in 1 .. (n + 1) \div 2 |->
     <<level[2 * i - 1], IF 2 * i <= n THEN level[2 * i] ELSE level[n]>>]

RECURSIVE RootOf(_)
RootOf(level) == IF Len(level) = 1 THEN level[1] ELSE RootOf(Paired(level))

compute_merkle_root(ids) ==
  IF ids = <<>> THEN <<>> ELSE RootOf([i \in DOMAIN ids |-> <<ids[i]>>])

txids(txs) == [i \in DOMAIN txs |-> txs[i].id]

\* The coinbase counts as zeros in the witness tree.
witness_root(txs) ==
  compute_merkle_root([i \in DOMAIN txs |->
                         IF i = 1 THEN <<0, 0>> ELSE <<txs[i].id, txs[i].wit>>])

----------------------------------------------------------------------------
(* Values re-derived from the block and compared with what was declared.      *)

NoTx == [id |-> 0, ins |-> <<>>, wit |-> None, outs |-> <<>>, sigops |-> 0,
         weight |-> 0, script |-> <<>>]
Coinbase(block) == IF block.txs = <<>> THEN NoTx ELSE block.txs[1]
Rest(block) == IF block.txs = <<>> THEN <<>> ELSE Tail(block.txs)

re_derive_coinbase_value(block) ==
  LET sum == Total(LAMBDA o : o.value, Coinbase(block).outs) IN
  IF block.txs = <<>> THEN [err |-> "decode_failed", value |-> 0]
  ELSE IF sum > MaxU64 THEN [err |-> "coinbase_value_exceeds_max", value |-> 0]
  ELSE [err |-> Ok, value |-> sum]

non_coinbase_tx_weight(block) == Total(LAMBDA t : t.weight, Rest(block))
non_coinbase_sigops(block) == Total(LAMBDA t : t.sigops, Rest(block))
coinbase_sigops(block) == Coinbase(block).sigops
total_sigops(block) == Total(LAMBDA t : t.sigops, block.txs)
template_txids(block) == txids(Rest(block))

\* The last output that carries the commitment marker counts.
extract_witness_commitment_from_coinbase(cb) ==
  LET marked == {i \in DOMAIN cb.outs : cb.outs[i].commit # <<>>} IN
  IF marked = {} THEN <<>>
  ELSE cb.outs[CHOOSE i \in marked : \A j \in marked : j <= i].commit

\* A BIP34 height: a minimal, non-negative push of one to four bytes.
decode_bip34_height(script) ==
  LET len == script[1]
      byte(i) == script[1 + i]
  IN
  IF script = <<>> THEN None
  ELSE IF len \notin 1 .. 4 \/ Len(script) < 1 + len THEN None
  ELSE IF byte(len) >= 128 THEN None
  ELSE IF len > 1 /\ byte(len) = 0 /\ byte(len - 1) < 128 THEN None
  ELSE Total(LAMBDA i : byte(i) * 256^(i - 1), [i \in 1 .. len |-> i])

bip34_height(block) ==
  IF block.txs = <<>> \/ Coinbase(block).ins = <<>>
    THEN [err |-> "decode_failed", height |-> 0]
  ELSE LET h == decode_bip34_height(Coinbase(block).script) IN
       IF h = None THEN [err |-> "coinbase_bip34_missing", height |-> 0]
       ELSE [err |-> Ok, height |-> h]

----------------------------------------------------------------------------
(* Checks of the block against itself.                                        *)

check_merkle_root_internal(block) ==
  IF block.txs = <<>> THEN "decode_failed"
  ELSE IF block.root # compute_merkle_root(txids(block.txs)) THEN "merkle_root_mismatch"
  ELSE Ok

\* The reserved value is the coinbase witness when it is 32 bytes, else zeros.
commitment(txs, reserved) == <<witness_root(txs), reserved>>
reserved_value(cb) == IF cb.wit = None THEN Zeros ELSE cb.wit

HasWitness(txs) == \E i \in DOMAIN txs : txs[i].wit # None

check_witness_commitment_internal(block) ==
  IF block.txs = <<>> THEN "decode_failed"
  ELSE LET declared == extract_witness_commitment_from_coinbase(Coinbase(block)) IN
       IF ~HasWitness(block.txs) THEN Ok
       ELSE IF declared = <<>> THEN "witness_commitment_missing"
       ELSE IF declared = commitment(block.txs, reserved_value(Coinbase(block))) THEN Ok
       ELSE "witness_commitment_mismatch"

check_coinbase_script_length(block) ==
  IF Coinbase(block).ins = <<>> THEN "decode_failed"
  ELSE IF Len(Coinbase(block).script)
            \notin MIN_COINBASE_SCRIPT_LEN .. MAX_COINBASE_SCRIPT_LEN
    THEN "coinbase_script_length"
  ELSE Ok

check_coinbase_output_count(block) ==
  IF Coinbase(block).outs = <<>> THEN "coinbase_output_count" ELSE Ok

check_weight_max(block) ==
  IF Total(LAMBDA t : t.weight, block.txs) > MAX_BLOCK_WEIGHT_WU
    THEN "weight_exceeds_max" ELSE Ok

check_sigops_max(block) ==
  IF total_sigops(block) * WITNESS_SCALE_FACTOR > MAX_BLOCK_SIGOPS_COST
    THEN "sigops_exceed_max" ELSE Ok

check_coinbase_value_max(block) ==
  LET outs == Coinbase(block).outs IN
  IF \/ \E i \in DOMAIN outs : outs[i].value > MAX_MONEY_SATS
     \/ Total(LAMBDA o : o.value, outs) > MAX_MONEY_SATS
    THEN "coinbase_value_exceeds_max" ELSE Ok

check_non_coinbase_null_prevout(block) ==
  IF \E i \in 2 .. Len(block.txs) : \E j \in DOMAIN block.txs[i].ins : block.txs[i].ins[j]
    THEN "non_coinbase_null_prevout" ELSE Ok

\* Variant: the inputs after the first are not counted.
NullPrevoutSomewhere(block) ==
  IF TRUE \in ToSet(Coinbase(block).ins) THEN Ok ELSE "coinbase_prevout_not_null"

\* Exactly one input, and that one null.
check_coinbase_null_prevout(block) ==
  IF Coinbase(block).ins = <<TRUE>> THEN Ok ELSE "coinbase_prevout_not_null"

check_header_version(block) ==
  IF block.version < HEADER_VERSION_FLOOR THEN "header_version_low" ELSE Ok

check_duplicate_tx(block) ==
  IF Cardinality({block.txs[i].id : i \in DOMAIN block.txs}) < Len(block.txs)
    THEN "duplicate_tx" ELSE Ok

----------------------------------------------------------------------------
(* assemble_template_block: what the template manager sends to the verifier.  *)

assemble_template_block(version, coinbase, txs) ==
  LET marked == extract_witness_commitment_from_coinbase(coinbase) # <<>>
      cb == IF marked THEN [coinbase EXCEPT !.wit = Zeros] ELSE coinbase
      all == <<cb>> \o txs
  IN
  IF HasWitness(txs) /\ ~marked THEN [err |-> "witness_commitment_missing", block |-> <<>>]
  ELSE IF marked /\ coinbase.ins = <<>> THEN [err |-> "decode_failed", block |-> <<>>]
  ELSE [err |-> Ok,
        block |-> [version |-> version, root |-> compute_merkle_root(txids(all)),
                   txs |-> all]]
=============================================================================
