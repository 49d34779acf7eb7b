----------------------------- MODULE Allocator -----------------------------
(***************************************************************************)
(* core/allocator.py: the target mix for the opportunity each layer sees.  *)
(* Pure operators; fractions of the bankroll are exact, in units that the  *)
(* operators name, where the code has floats.                              *)
(***************************************************************************)
EXTENDS Integers

CONSTANTS
    Whole,      \* the unit of base allocations and tilt is 1 / Whole
    MaxTilt,    \* max_tilt_pp
    Steps       \* the unit of scores is 1 / Steps

ASSUME AllocatorAssumption == Whole \in Nat \ {0} /\ Steps \in Nat \ {0} /\ MaxTilt \in Nat

Layer  == {"l1_funding", "l2_cascade", "l3_tail"}
Scores == [Layer -> 0..Steps]

Clamp(value, lo, hi) == IF value < lo THEN lo ELSE IF value > hi THEN hi ELSE value

Total(f) == f.l1_funding + f.l2_cascade + f.l3_tail

(* Scores rounded down to whole steps: an APR in percent, a compression in *)
(* twentieths, of which the first six count for nothing.                   *)
L1Score(apr) == Clamp((apr * Steps) \div 50, 0, Steps)
L3Score(iv)  == Clamp(((iv - 6) * Steps) \div 14, 0, Steps)

(* Anything else raises ValueError. *)
Accepts(base) == /\ Total(base) = Whole
                 /\ 2 * MaxTilt <= Whole

(***************************************************************************)
(* What is added to the layers with a score is taken from each layer in    *)
(* proportion to base * (1 - score).  Targets are in units of              *)
(* 1 / (Whole * Steps * pool * 2).                                         *)
(***************************************************************************)
FundWeight(base, s) == [l \in Layer |-> base[l] * (Steps - s[l])]

Tilted(base, s) ==
    LET weight == FundWeight(base, s)
        pool   == Total(weight)
        added  == MaxTilt * Total(s)
    IN  [l \in Layer |-> 2 * ((base[l] * Steps + s[l] * MaxTilt) * pool
                                - added * weight[l])]

TiltedUnfloored(base, s) == Tilted(base, s)                 \* mutant

(* No layer below half of its base. *)
Floored(base, s) ==
    LET tilted == Tilted(base, s)
        pool   == Total(FundWeight(base, s))
        floor  == [l \in Layer |-> base[l] * Steps * pool]
    IN  [l \in Layer |-> IF tilted[l] < floor[l] THEN floor[l] ELSE tilted[l]]

(* The fractions share[l] / whole: the targets over their sum, or the base *)
(* if no layer has a score or all have the highest.                        *)
Decision(shares) == [share |-> shares, whole |-> Total(shares)]

ComputeTargetAllocation(base, s) ==
    IF Total(s) = 0 \/ Total(FundWeight(base, s)) = 0
    THEN Decision(base) ELSE Decision(Floored(base, s))
=============================================================================
