------------------------------ MODULE OISignal ------------------------------
(***************************************************************************)
(* strategies/l2_signal.py and the score of l2_cascade.py: the observer    *)
(* that fills table oi_observation, and the cascade score read from it.    *)
(*                                                                         *)
(* The table is kept by age, in ticks: now() - observed_at.  One tick is   *)
(* at least one cycle of the engine, so a symbol has at most one row of    *)
(* any age below OldAge; rows of OldAge and more are past every limit.     *)
(***************************************************************************)
EXTENDS Integers, FiniteSets

CONSTANTS
    Symbol,         \* DEFAULT_SYMBOLS
    OI,             \* bound: values of the open interest
    Rate, Ratio,    \* bound: funding in 1/10000, recent / weekly vol in 1/10
    MinHistory,     \* MIN_OI_HISTORY_LEN
    WindowHours,    \* hours of history the signal reads, in ticks
    PruneDays,      \* prune_days
    TicksPerDay,
    PruneEvery,     \* prune_every_n_cycles
    NULL            \* no answer

ASSUME OISignalAssumption ==
    /\ OI \subseteq Nat \ {0} /\ Ratio \subseteq Nat /\ Rate \subseteq Int
    /\ MinHistory \in Nat \ {0} /\ PruneEvery \in Nat \ {0}
    /\ WindowHours \in Nat /\ PruneDays \in Nat /\ TicksPerDay \in Nat
    /\ WindowHours <= PruneDays * TicksPerDay

VARIABLES
    oi_observation, \* table oi_observation: symbol -> rows [age, oi]
    prune_count     \* the observer's _cycle_count, modulo PruneEvery

OldAge == PruneDays * TicksPerDay + 1

OITypeOK ==
    /\ oi_observation \in [Symbol -> SUBSET [age : 0..OldAge, oi : OI]]
    /\ prune_count \in 0..(PruneEvery - 1)

OIInit ==
    /\ oi_observation = [s \in Symbol |-> {}]
    /\ prune_count = 0

-----------------------------------------------------------------------------
(* The observer *)

RetainedHours(rows) == {r \in rows : r.age <= PruneDays}   \* mutant

Retained(rows) == {r \in rows : r.age <= PruneDays * TicksPerDay}

(* A row for each symbol the exchange gave a positive reading of. *)
WithReadings(readings) ==
    [s \in Symbol |-> oi_observation[s] \cup
        IF s \in DOMAIN readings THEN {[age |-> 0, oi |-> readings[s]]} ELSE {}]

PruneDueAfter == prune_count = PruneEvery                  \* mutant

PruneDue == (prune_count + 1) % PruneEvery = 0

(***************************************************************************)
(* One run_once.  An exception of one symbol is caught; the timeout of the *)
(* engine leaves out the symbols it has not come to, and the pruning,      *)
(* which may also fail by itself.                                          *)
(***************************************************************************)
Observe(readings) ==
    /\ oi_observation' = WithReadings(readings)
    /\ prune_count' = (prune_count + 1) % PruneEvery

ObserveAndPrune(readings) ==
    /\ PruneDue
    /\ oi_observation' = [s \in Symbol |-> Retained(WithReadings(readings)[s])]
    /\ prune_count' = 0

(* The process is new: the table stays, the count does not. *)
ForgetCount == prune_count' = 0

Age(rows, k) == {[r EXCEPT !.age = IF @ + k < OldAge THEN @ + k ELSE OldAge] : r \in rows}

-----------------------------------------------------------------------------
(* The score *)

Between(value, lo, hi) == IF value < lo THEN lo ELSE IF value > hi THEN hi ELSE value

History(s) == {r \in oi_observation[s] : r.age < WindowHours}

(* What the exchange answers, NULL if any of the fetches failed. *)
Reading == [oi : OI, rate : Rate, ratio : Ratio] \cup {NULL}

AtOrBelow(rows, oi) == Cardinality({r \in rows : r.oi <= oi})

WeighedEvenly(n, oi, funding, compression) ==              \* mutant
    [num |-> 40 * oi * 70 + 30 * funding * 7 * 25 * n + 30 * compression * 10 * 25 * n,
     den |-> 100 * 25 * n * 70]

(***************************************************************************)
(* cascade_probability of percentile_rank: the fraction num / den.  The    *)
(* signals, in their order, are the ramps from the 70th to the 95th        *)
(* percentile, from 0 to 0.001, and from ratio 1 down to 0.3.              *)
(***************************************************************************)
Weighed(n, oi, funding, compression) ==
    [num |-> 55 * oi * 70 + 20 * funding * 7 * 25 * n + 25 * compression * 10 * 25 * n,
     den |-> 100 * 25 * n * 70]

CascadeProbability(rows, reading) ==
    LET n == Cardinality(rows) IN
    Weighed(n, Between(100 * AtOrBelow(rows, reading.oi) - 70 * n, 0, 25 * n),
               Between(reading.rate, 0, 10),
               Between(10 - reading.ratio, 0, 7))

ColdScore == [num |-> 0, den |-> 1]

(* CascadeSignal.__call__: cold start and every failure answer zero. *)
Score(s, reading) ==
    LET rows == History(s) IN
    IF Cardinality(rows) < MinHistory \/ reading = NULL
    THEN ColdScore ELSE CascadeProbability(rows, reading)

Triggers(score) == 100 * score.num >= 60 * score.den     \* _TRIGGER_THRESHOLD
=============================================================================
