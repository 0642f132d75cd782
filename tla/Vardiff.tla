------------------------------- MODULE Vardiff -------------------------------
(* A channel's difficulty: the 256-bit conversions between targets and        *)
(* difficulties of services/sv2-gateway/src/shares.rs, the retarget of        *)
(* channels.rs (VardiffState) and maybe_retarget of handler.rs.               *)
(*                                                                            *)
(* A U256 is a pair of halves; the half has HalfBits bits here and 128 in the *)
(* code.  A u64 has WordBits bits.                                            *)
EXTENDS Integers, Sequences, SequencesExt

CONSTANTS
  HalfBits, WordBits,
  Diff1,              \* DIFF1_TARGET, as a pair of halves
  SharesPerMin,       \* vardiff_target_shares_per_min
  RetargetInterval,   \* vardiff_retarget_interval_secs
  MinDifficulty, MaxDifficulty,
  MaxFactor,          \* vardiff_max_adjustment_factor
  MaxWindow,          \* bound: seconds in a window
  MaxShares           \* bound: shares in a window

VARIABLES
  maximum_target,         \* the channel's target, a pair of halves
  current_difficulty,     \* VardiffState::current_difficulty
  shares_since_retarget,
  window                  \* seconds since retarget_start

vardiffVars == <<maximum_target, current_difficulty, shares_since_retarget, window>>

Half == 2 ^ HalfBits
U256 == (0 .. Half - 1) \X (0 .. Half - 1)
MaxWord == 2 ^ WordBits - 1
Value(v) == v[1] + Half * v[2]

----------------------------------------------------------------------------
(* 256-bit arithmetic on (lo, hi) *)

\* How many bits are left of the leading zeros of a half.
HalfLength(h) == CHOOSE b \in 0 .. HalfBits : h < 2 ^ b /\ (b = 0 \/ h >= 2 ^ (b - 1))

u256_bits(v) == IF v[2] # 0 THEN HalfBits + HalfLength(v[2]) ELSE HalfLength(v[1])

u256_shl(v, shift) ==
  CASE shift = 0 -> v
    [] shift >= 2 * HalfBits -> <<0, 0>>
    [] shift >= HalfBits /\ shift < 2 * HalfBits -> <<0, (v[1] * 2 ^ (shift - HalfBits)) % Half>>
    [] OTHER -> << (v[1] * 2 ^ shift) % Half,
                   ((v[2] * 2 ^ shift) % Half) + (v[1] \div 2 ^ (HalfBits - shift)) >>

u256_gte(a, b) == a[2] > b[2] \/ (a[2] = b[2] /\ a[1] >= b[1])

\* Variant: the borrow is lost.
SubWithoutBorrow(a, b) == << (a[1] - b[1]) % Half, (a[2] - b[2]) % Half >>

u256_sub(a, b) ==
  LET borrow == IF a[1] < b[1] THEN 1 ELSE 0 IN
    << (a[1] - b[1]) % Half, (a[2] - b[2] - borrow) % Half >>

(* The shift-and-subtract loop both conversions share: the bits of the        *)
(* quotient from max_shift down.                                              *)
LongDivision(n, d) ==
  LET max_shift == u256_bits(n) - u256_bits(d)
      Down == [i \in 1 .. max_shift + 1 |-> max_shift + 1 - i]
      Bit(acc, shift) ==
        LET shifted == u256_shl(d, shift) IN
          IF u256_gte(acc.remainder, shifted)
            THEN [remainder |-> u256_sub(acc.remainder, shifted),
                  quotient |-> acc.quotient \union {shift}]
            ELSE acc
  IN FoldLeft(Bit, [remainder |-> n, quotient |-> {}], Down).quotient

\* The number whose bits are set in the quotient, as a word or as a pair.
FromBits(bits, lowest, highest) ==
  FoldLeft(LAMBDA total, b : IF lowest + b - 1 \in bits THEN total + 2 ^ (b - 1) ELSE total,
           0, [i \in 1 .. highest - lowest |-> i])

target_to_difficulty_u64(target) ==
  CASE target = <<0, 0>> -> MaxWord
    [] target # <<0, 0>> /\ ~u256_gte(Diff1, target) -> 0
    [] target = Diff1 -> 1
    [] OTHER ->
         IF u256_bits(Diff1) - u256_bits(target) > WordBits - 1 THEN MaxWord
         ELSE FromBits(LongDivision(Diff1, target), 0, WordBits)

difficulty_to_target(d) ==
  IF d = 0 THEN <<Half - 1, Half - 1>>
  ELSE LET wide == <<d % Half, d \div Half>> IN
         IF u256_bits(wide) > u256_bits(Diff1) THEN <<0, 0>>
         ELSE LET bits == LongDivision(Diff1, wide) IN
                <<FromBits(bits, 0, HalfBits), FromBits(bits, HalfBits, 2 * HalfBits)>>

----------------------------------------------------------------------------
\* A channel opens with the configured target, which validate_channel_target
\* lets through: neither zero nor harder than any word can say.
VardiffInit ==
  /\ maximum_target \in {t \in U256 : target_to_difficulty_u64(t) # MaxWord}
  /\ current_difficulty = target_to_difficulty_u64(maximum_target)
  /\ shares_since_retarget = 0 /\ window = 0

(* evaluate_retarget, for a window of w seconds with n shares: the ratio      *)
(* num / den is capped by the factor both ways, ignored within 5% of one, and *)
(* the product truncated to a word.                                           *)
Retargeted(n, w) ==
  LET observed == n * 60
      wanted == w * SharesPerMin
      num == IF observed > MaxFactor * wanted THEN MaxFactor
             ELSE IF observed * MaxFactor < wanted THEN 1 ELSE observed
      den == IF observed > MaxFactor * wanted THEN 1
             ELSE IF observed * MaxFactor < wanted THEN MaxFactor ELSE wanted
      gap == IF num > den THEN num - den ELSE den - num
      raw == (current_difficulty * num) \div den
      word == IF raw > MaxWord THEN MaxWord ELSE raw
      floored == IF word < MinDifficulty THEN MinDifficulty ELSE word
  IN IF w < 1 \/ 20 * gap < den THEN current_difficulty
     ELSE IF floored > MaxDifficulty THEN MaxDifficulty ELSE floored

(* maybe_retarget, after an accepted share: the window closes with the first  *)
(* share past the interval, whether or not the difficulty changes.            *)
AcceptedShare ==
  /\ shares_since_retarget < MaxShares
  /\ IF window < RetargetInterval
       THEN /\ shares_since_retarget' = shares_since_retarget + 1
            /\ UNCHANGED <<maximum_target, current_difficulty, window>>
       ELSE /\ current_difficulty' = Retargeted(shares_since_retarget + 1, window)
            /\ maximum_target' = IF current_difficulty' # current_difficulty
                                   THEN difficulty_to_target(current_difficulty')
                                   ELSE maximum_target
            /\ shares_since_retarget' = 0 /\ window' = 0

WindowSecond ==
  /\ window < MaxWindow
  /\ window' = window + 1
  /\ UNCHANGED <<maximum_target, current_difficulty, shares_since_retarget>>

VardiffNext == AcceptedShare \/ WindowSecond

----------------------------------------------------------------------------
(* Properties *)

\* One type invariant for the module.
VardiffTypeOK ==
  /\ maximum_target \in U256
  /\ current_difficulty \in 0 .. MaxWord
  /\ shares_since_retarget \in 0 .. MaxShares
  /\ window \in 0 .. MaxWindow

(* handler.rs:1578, 2121, 2290.  The difficulty a share is credited with (the *)
(* channel's target turned back into a number) is the difficulty the retarget *)
(* computed: two long divisions, each rounding down, lose nothing.            *)
CreditIsDifficulty == target_to_difficulty_u64(maximum_target) = current_difficulty

(* shares.rs:529-577.  The shift-and-subtract division is exact: the credited *)
(* difficulty is DIFF1 over the target, rounded down, for every target that a *)
(* channel can have.                                                          *)
DivisionIsExact ==
  target_to_difficulty_u64(maximum_target) = Value(Diff1) \div Value(maximum_target)

(* channels.rs:300-353.  A retarget moves the difficulty by no more than the  *)
(* adjustment factor, and beyond it only onto the configured floor or         *)
(* ceiling.                                                                   *)
RetargetIsBounded ==
  [][current_difficulty' # current_difficulty =>
       \/ current_difficulty' \in {MinDifficulty, MaxDifficulty}
       \/ /\ current_difficulty' <= MaxFactor * current_difficulty
          /\ MaxFactor * (current_difficulty' + 1) > current_difficulty]_vardiffVars

(* shares.rs:500-600, channels.rs:300-356.  A share earns what its target is  *)
(* worth, through every retarget, and a retarget moves by no more than the    *)
(* factor allows.                                                             *)
DifficultyHolds == [](CreditIsDifficulty /\ DivisionIsExact) /\ RetargetIsBounded
=============================================================================
