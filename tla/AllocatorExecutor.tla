------------------------- MODULE AllocatorExecutor -------------------------
(***************************************************************************)
(* strategies/allocator_executor.py with the observer of l2_signal.py, in  *)
(* the engine's cycle: the observer takes its turn, Layer 2 reads the      *)
(* score, the allocator takes its turn, the engine sleeps.  Between two    *)
(* cycles the process may be stopped for a while and come back with other  *)
(* settings; tables oi_observation and system_state are then as they were. *)
(***************************************************************************)
EXTENDS OISignal, Allocator

CONSTANTS
    Bases,          \* alloc_layer_*_pct a start may find in the settings
    AprSeen, IvSeen,\* bound: best APR in %, vol compression in twentieths
    RecomputeEvery  \* recompute_every_n_cycles

(* max_tilt_pp is left at its default of 0.20. *)
ASSUME AllocatorExecutorAssumption ==
    /\ 4 * MaxTilt <= Whole
    /\ \A b \in Bases : b \in [Layer -> Nat]
    /\ AprSeen \subseteq Nat /\ IvSeen \subseteq Int
    /\ RecomputeEvery \in Nat \ {0}

VARIABLES
    turn,           \* whose run_once the cycle has come to
    boot,           \* which process it is, by turns 0 and 1
    base,           \* the settings of the running process
    alloc_count,    \* the allocator's _cycle_count, modulo RecomputeEvery
    dynamic         \* system_state.dynamic_alloc_*, NULL before the first write

vars == <<oi_observation, prune_count, turn, boot, base,
          alloc_count, dynamic>>

Turn == {"oi_observer", "allocator", "sleep"}

TypeOK ==
    /\ OITypeOK
    /\ turn \in Turn
    /\ boot \in 0..1
    /\ base \in Bases
    /\ alloc_count \in 0..(RecomputeEvery - 1)
    /\ \/ dynamic = NULL
       \/ /\ dynamic \in [share : [Layer -> Nat], whole : Nat \ {0},
                          rationale : SUBSET Layer]
          /\ dynamic.whole = Total(dynamic.share)

Init ==
    /\ OIInit
    /\ turn = "oi_observer"
    /\ boot = 0
    /\ base \in Bases
    /\ alloc_count = 0
    /\ dynamic = NULL

-----------------------------------------------------------------------------
Readings == UNION {[S -> OI] : S \in SUBSET Symbol}

ObserverTurn ==
    /\ turn = "oi_observer"
    /\ \E readings \in Readings : Observe(readings)
    /\ turn' = "allocator"
    /\ UNCHANGED <<boot, base, alloc_count, dynamic>>

ObserverTurnPrunes ==
    /\ turn = "oi_observer"
    /\ \E readings \in Readings : ObserveAndPrune(readings)
    /\ turn' = "allocator"
    /\ UNCHANGED <<boot, base, alloc_count, dynamic>>

-----------------------------------------------------------------------------
(* The allocator *)

(* A signal that fails is zero, and so does not stop the other two. *)
L1Signals == {L1Score(apr) : apr \in AprSeen} \cup {0}
L3Signals == {L3Score(iv) : iv \in IvSeen} \cup {0}

InSteps(score) == (score.num * Steps) \div score.den

(* The highest score of any symbol, when the others' fetches failed. *)
L2Signals == {InSteps(Score(s, reading)) : s \in Symbol, reading \in Reading}

Signals == [l1_funding : L1Signals, l2_cascade : L2Signals, l3_tail : L3Signals]

(* The layers rationale names: "all_layers_maxed" and scores above 0.1. *)
Named(s) == {l \in Layer : 10 * s[l] > Steps}

RecomputeDueNever == alloc_count = RecomputeEvery          \* mutant

RecomputeDue == (alloc_count + 1) % RecomputeEvery = 0

AllocatorDone ==
    /\ turn' = "sleep"
    /\ alloc_count' = (alloc_count + 1) % RecomputeEvery
    /\ UNCHANGED <<oi_observation, prune_count, boot, base>>

Recompute ==
    /\ turn = "allocator" /\ RecomputeDue
    /\ Accepts(base)
    /\ AllocatorDone
    /\ \E s \in Signals :
          LET decision == ComputeTargetAllocation(base, s)
          IN  dynamic' = [share |-> decision.share, whole |-> decision.whole,
                          rationale |-> Named(s)]

(* Not its cycle, a ValueError, or cut short before the write. *)
NoRecompute ==
    /\ turn = "allocator"
    /\ UNCHANGED dynamic
    /\ AllocatorDone

-----------------------------------------------------------------------------
TickPasses == oi_observation' = [s \in Symbol |-> Age(oi_observation[s], 1)]

Sleep ==
    /\ turn = "sleep"
    /\ TickPasses
    /\ turn' = "oi_observer"
    /\ UNCHANGED <<prune_count, boot, base, alloc_count, dynamic>>

(* The process dies at any await; restarts in a row make a longer gap. *)
Restart ==
    /\ TickPasses
    /\ ForgetCount
    /\ turn' = "oi_observer"
    /\ boot' = 1 - boot
    /\ base' \in Bases
    /\ alloc_count' = 0
    /\ UNCHANGED dynamic

Next == ObserverTurn \/ ObserverTurnPrunes \/ Recompute \/ NoRecompute \/ Sleep \/ Restart

Spec == Init /\ [][Next]_vars

(***************************************************************************)
(* Fairness.  The engine gives every executor its turn and cuts it off     *)
(* after 90 s.  That the pruning, and the allocator in its cycle, are not  *)
(* cut off every single time is their strong fairness.                     *)
(***************************************************************************)
CycleGoesOn == ObserverTurn \/ ObserverTurnPrunes \/ Recompute \/ NoRecompute \/ Sleep

Fairness == /\ WF_vars(CycleGoesOn)
            /\ SF_vars(ObserverTurnPrunes)
            /\ SF_vars(Recompute)

FairSpec == Spec /\ Fairness

-----------------------------------------------------------------------------
(* What holds *)

(***************************************************************************)
(* Leverage is what triggers a ladder: with whatever funding and           *)
(* volatility, the score reaches the trigger only over a history of        *)
(* MinHistory rows, three quarters of them at or below the current open    *)
(* interest.  The comment at l2_cascade.py:131: funding and compression do *)
(* not make a cascade by themselves.                                       *)
(***************************************************************************)
TriggerMeansLeverage ==
    \A s \in Symbol, reading \in Reading \ {NULL} :
        Triggers(Score(s, reading)) =>
            /\ Cardinality(History(s)) >= MinHistory
            /\ 4 * AtOrBelow(History(s), reading.oi) >= 3 * Cardinality(History(s))

(***************************************************************************)
(* The pruning of the table never shortens the history of the signal, in   *)
(* whatever cycle after whatever restart or gap it comes.                  *)
(***************************************************************************)
WindowSurvivesPrune ==
    [][turn = "oi_observer" /\ turn' = "allocator" =>
          \A s \in Symbol : History(s) \subseteq History(s)']_vars

(***************************************************************************)
(* What the allocator writes stays near the settings it is derived from:   *)
(* no layer gets more than max_tilt above its base, or a tenth of that if  *)
(* the rationale does not name it, and none less than a third of its base, *)
(* floors and normalisation after the tilt notwithstanding.                *)
(***************************************************************************)
WriteWithinBounds ==
    [][dynamic' # dynamic =>
          \A l \in Layer :
              LET share == dynamic'.share[l] * Whole
                  whole == dynamic'.whole
              IN  /\ share <= (base[l] + MaxTilt) * whole
                  /\ 3 * share >= base[l] * whole
                  /\ l \notin dynamic'.rationale =>
                         10 * share <= (10 * base[l] + MaxTilt) * whole]_vars

(* Once the process is not restarted again. *)
NoMoreRestarts == \E b \in 0..1 : <>[](boot = b)

(***************************************************************************)
(* The table stays bounded: if restarts, which forget the observer's       *)
(* count, come to an end, rows past retention are gone again and again.    *)
(***************************************************************************)
OldRowsArePruned ==
    NoMoreRestarts =>
        []<>(\A s \in Symbol : \A r \in oi_observation[s] : r.age < OldAge)

(***************************************************************************)
(* The allocation written follows the settings: after the last restart,    *)
(* with settings the allocator accepts, what earlier settings left in      *)
(* system_state is replaced by a mix within reach of the present ones.     *)
(***************************************************************************)
WithinReach ==
    /\ dynamic # NULL
    /\ \A l \in Layer :
          /\ dynamic.share[l] * Whole <= (base[l] + MaxTilt) * dynamic.whole
          /\ 3 * dynamic.share[l] * Whole >= base[l] * dynamic.whole

AllocationFollowsSettings ==
    NoMoreRestarts => <>[](Accepts(base) => WithinReach)

-----------------------------------------------------------------------------
(* What the repository says and the code does not do *)

(***************************************************************************)
(* config.py:43, "the dynamic allocator can push higher under strong       *)
(* cascade signal".  Does not hold of the defaults, which add up to 1.15:  *)
(* compute_target_allocation refuses them in every cycle.                  *)
(***************************************************************************)
AllocatorGetsToWrite == NoMoreRestarts => <>(dynamic # NULL)
=============================================================================
