----------------------------- MODULE L3Executor -----------------------------
(***************************************************************************)
(* Layer 3, strategies/l3_executor.py: one long strangle per underlying, a *)
(* position of one row and two fill rows, rolled when its expiry is near.  *)
(*                                                                         *)
(* The clock matters here: `now` counts days and may move at any await, in *)
(* particular between the choice of an expiry, the reading of the days     *)
(* left that a strangle is sized by, and the INSERT of its row.            *)
(* The option chain is what ccxt loaded when the process started, kept for *)
(* as long as the process lives.  Strikes and instruments are left out, a  *)
(* premium is the price of call and put together for one contract step.    *)
(* The layer is enabled, and calls no safeguard.                           *)
(***************************************************************************)
EXTENDS Store

CONSTANTS
    Underlying,     \* DEFAULT_UNDERLYINGS, by their index
    TargetDte,      \* L3Executor.TARGET_DTE, in days
    MinDte,         \* L3Executor.MIN_DTE_BEFORE_ROLL
    ThetaBudget,    \* settings.l3_daily_theta_budget_usd, in units
    Premiums,       \* the premiums quoted, in units per contract step
    Calendar,       \* the days on which options expire
    ListedAhead,    \* the exchange lists what expires within so many days
    Horizon,        \* bound: the last day of the clock
    OtherSizes      \* bound: the notionals of Layer 1 positions

StrangleMetadata == [underlying : Underlying, expiry : Calendar]

ASSUME L3Assumption ==
    /\ Underlying \subseteq Nat /\ IsFiniteSet(Underlying)
    /\ {TargetDte, MinDte, ThetaBudget, ListedAhead, Horizon} \subseteq Nat
    /\ MinDte <= TargetDte
    /\ Premiums \subseteq Nat \ {0} /\ Calendar \subseteq Nat
    /\ IsFiniteSet(Calendar)
    /\ OtherSizes \subseteq 1..MaxNotional
    /\ StrangleMetadata \subseteq Metadata
    /\ OrderTag = {"call", "put"}
    /\ \A premium \in Premiums : 2 * ThetaBudget * ListedAhead + premium <= 2 * MaxNotional

VARIABLES
    now,        \* today
    chain,      \* expiries of the markets the process has loaded
    pc,         \* where run_once is suspended; "idle" between runs
    strangles,  \* open_positions, read once per run
    to_visit,   \* underlyings the loop has still to finish
    plan,       \* the strangle about to be inserted, or NULL
    cur         \* the position being opened, or NULL

vars == <<position, fill, system_state, now, chain, pc, strangles, to_visit, plan, cur>>

PcState == {"idle", "loop", "reopen", "quotes", "create", "call", "put", "mark_open"}

(* `on` is history, for the properties: the day the expiry was chosen. *)
Plan == [expiry : Calendar, on : 0..Horizon, notional : 0..MaxNotional]

TypeOK ==
    /\ StoreTypeOK
    /\ now \in 0..Horizon
    /\ chain \subseteq Calendar
    /\ pc \in PcState
    /\ strangles \subseteq PositionId
    /\ to_visit \subseteq Underlying
    /\ plan \in Plan \cup {NULL}
    /\ cur \in PositionId \cup {NULL}

Listed(day) == {e \in Calendar : day < e /\ e <= day + ListedAhead}

Init ==
    /\ StoreInit
    /\ now = 0 /\ chain = Listed(0)
    /\ pc = "idle" /\ strangles = {} /\ to_visit = {}
    /\ plan = NULL /\ cur = NULL

-----------------------------------------------------------------------------
(* l3_tail.py *)

ShouldRoll(expiry) == expiry - now < MinDte

Future == {e \in chain : e > now}

Distance(e) == IF e - now < TargetDte THEN TargetDte - (e - now)
                                      ELSE (e - now) - TargetDte

NearestExpiry == CHOOSE e \in Future : \A f \in Future : e <= f    \* mutant

(* min with a key over a sorted list: of two as near, the earlier one *)
TargetExpiry ==
    CHOOSE e \in Future : \A f \in Future :
        \/ Distance(e) < Distance(f)
        \/ Distance(e) = Distance(f) /\ e <= f

(* Python's round: to the nearest integer, a tie to the even one. *)
Round(a, b) ==
    LET q == a \div b
        r == 2 * (a % b)
    IN  IF r > b \/ (r = b /\ q % 2 = 1) THEN q + 1 ELSE q

(* Steps of a tenth of a contract that the theta budget pays for. *)
Contracts(premium, dte) == IF dte <= 0 THEN 0 ELSE Round(ThetaBudget * dte, premium)

-----------------------------------------------------------------------------
(* run_once *)

IsFirst(x, S) == x \in S /\ \A y \in S : x <= y

HeldOpenOnly(u) ==                                         \* mutant
    {p \in strangles : position[p].metadata.underlying = u /\ position[p].state = "open"}

Held(u) == {p \in strangles : position[p].metadata.underlying = u}

StartRun ==
    /\ pc = "idle"
    /\ ~Halted
    /\ strangles' = OpenPositions(L3Tail)
    /\ to_visit' = Underlying
    /\ pc' = "loop"
    /\ UNCHANGED <<storeVars, now, chain, plan, cur>>

Visit(u) == pc = "loop" /\ IsFirst(u, to_visit)

NextUnderlying == pc' = "loop" /\ to_visit' = {u \in to_visit : ~IsFirst(u, to_visit)}

RollDueOpenOnly(p) ==                                      \* mutant
    position[p].state = "open" /\ ShouldRoll(position[p].metadata.expiry)

RollDue(p) == ShouldRoll(position[p].metadata.expiry)

HoldStrangle(u, p) ==
    /\ Visit(u) /\ IsFirst(p, Held(u))
    /\ ~RollDue(p)
    /\ NextUnderlying
    /\ UNCHANGED <<storeVars, now, chain, strangles, plan, cur>>

(* The premium is booked as lost, whatever the legs are still worth. *)
RollStrangle(u, p) ==
    /\ Visit(u) /\ IsFirst(p, Held(u))
    /\ RollDue(p)
    /\ ClosePosition(p, -position[p].notional)
    /\ pc' = "reopen"
    /\ UNCHANGED <<now, chain, strangles, to_visit, plan, cur>>

-----------------------------------------------------------------------------
(* _open_strangle, of an underlying without a strangle or just rolled *)

MayOpen(u) == \/ Visit(u) /\ Held(u) = {}
              \/ pc = "reopen" /\ IsFirst(u, to_visit)

Quoting(u) == pc = "quotes" /\ IsFirst(u, to_visit)

(* No spot, chain, strike or quote, or a size that rounds to nothing. *)
OpenFails(u) ==
    /\ MayOpen(u) \/ Quoting(u)
    /\ plan' = NULL
    /\ NextUnderlying
    /\ UNCHANGED <<storeVars, now, chain, strangles, cur>>

(* select_target_expiry, on the day it is called. *)
ChooseExpiry(u) ==
    /\ MayOpen(u)
    /\ Future # {}
    /\ plan' = [expiry |-> TargetExpiry, on |-> now, notional |-> 0]
    /\ pc' = "quotes"
    /\ UNCHANGED <<storeVars, now, chain, strangles, to_visit, cur>>

(* With the quotes in hand the clock is read again, and the size follows. *)
SizeStrangle(premium) ==
    /\ pc = "quotes"
    /\ LET contracts == Contracts(premium, plan.expiry - now) IN
         /\ contracts > 0
         /\ plan' = [plan EXCEPT !.notional = premium * contracts]
    /\ pc' = "create"
    /\ UNCHANGED <<storeVars, now, chain, strangles, to_visit, cur>>

CreateStrangle(u, p) ==
    /\ pc = "create" /\ IsFirst(u, to_visit)
    /\ CreatePosition(p, L3Tail, plan.notional,
                      [underlying |-> u, expiry |-> plan.expiry])
    /\ cur' = p /\ plan' = NULL /\ pc' = "call"
    /\ UNCHANGED <<now, chain, strangles, to_visit>>

RecordCall ==
    /\ pc = "call"
    /\ RecordFill(<<cur, "call">>, TRUE)
    /\ pc' = "put"
    /\ UNCHANGED <<now, chain, strangles, to_visit, plan, cur>>

RecordPutUnderCallsId ==                                   \* mutant
    /\ pc = "put"
    /\ RecordFill(<<cur, "call">>, TRUE)
    /\ pc' = "mark_open"
    /\ UNCHANGED <<now, chain, strangles, to_visit, plan, cur>>

RecordPut ==
    /\ pc = "put"
    /\ RecordFill(<<cur, "put">>, TRUE)
    /\ pc' = "mark_open"
    /\ UNCHANGED <<now, chain, strangles, to_visit, plan, cur>>

MarkStrangleOpen ==
    /\ pc = "mark_open"
    /\ MarkPositionOpen(cur)
    /\ cur' = NULL
    /\ NextUnderlying
    /\ UNCHANGED <<now, chain, strangles, plan>>

RunDone ==
    /\ pc = "loop" /\ to_visit = {}
    /\ pc' = "idle" /\ strangles' = {}
    /\ UNCHANGED <<storeVars, now, chain, to_visit, plan, cur>>

-----------------------------------------------------------------------------
(* An exception, the engine's timeout or a crash, at any await. *)
Interrupt ==
    /\ pc # "idle"
    /\ pc' = "idle" /\ strangles' = {} /\ to_visit' = {}
    /\ plan' = NULL /\ cur' = NULL
    /\ UNCHANGED <<storeVars, now, chain>>

Tick ==
    /\ now < Horizon
    /\ now' = now + 1
    /\ UNCHANGED <<storeVars, chain, pc, strangles, to_visit, plan, cur>>

(***************************************************************************)
(* Between two runs: reconciliation, Layer 1 (a new position, a halt that  *)
(* names it, a close), an operator clearing a halt, a restart that loads   *)
(* the markets anew.                                                       *)
(***************************************************************************)
Elsewhere(p) ==
    \/ ReconcileAtRisk
    \/ Halted /\ SetHaltReason(NULL)
    \/ p \in OpenPositions(L1Funding) /\ (SetHaltReason(p) \/ ClosePosition(p, 0))
    \/ \E n \in OtherSizes : CreatePosition(p, L1Funding, n, NULL)

BetweenRuns ==
    /\ pc = "idle"
    /\ \/ (\E p \in PositionId : Elsewhere(p)) /\ UNCHANGED chain
       \/ chain' = Listed(now) /\ UNCHANGED storeVars
    /\ UNCHANGED <<now, pc, strangles, to_visit, plan, cur>>

RunStep ==
    \/ \E u \in Underlying :
          \/ ChooseExpiry(u) \/ OpenFails(u)
          \/ \E p \in PositionId :
                HoldStrangle(u, p) \/ RollStrangle(u, p) \/ CreateStrangle(u, p)
    \/ \E premium \in Premiums : SizeStrangle(premium)
    \/ RecordCall \/ RecordPut \/ MarkStrangleOpen \/ RunDone

Next == StartRun \/ RunStep \/ Interrupt \/ Tick \/ BetweenRuns

Spec == Init /\ [][Next]_vars

(***************************************************************************)
(* Fairness.  A run starts each cycle, one that has begun moves on or is   *)
(* cut off, and not every run is cut off.  Neither the clock nor anything  *)
(* of BetweenRuns is promised.                                             *)
(***************************************************************************)
Fairness ==
    /\ WF_vars(StartRun)
    /\ WF_vars(RunStep \/ Interrupt)
    /\ []<><<StartRun>>_vars => []<><<RunDone>>_vars

FairSpec == Spec /\ Fairness

-----------------------------------------------------------------------------
(* What holds *)

Strangles == OpenPositions(L3Tail)

(***************************************************************************)
(* One strangle per underlying: no roll and no run cut short while one was *)
(* being opened leaves two live ones, so the theta budget is spent once.   *)
(***************************************************************************)
OneStranglePerUnderlying ==
    \A p, q \in Strangles :
        position[p].metadata.underlying = position[q].metadata.underlying => p = q

(***************************************************************************)
(* A strangle that counts as open has both legs on record: one of a run    *)
(* cut between the two fill rows never becomes open.                       *)
(***************************************************************************)
OpenHasBothLegs ==
    \A p \in Strangles :
        position[p].state = "open" => Filled(p, "call") /\ Filled(p, "put")

(***************************************************************************)
(* A new strangle was not due to roll on the day its expiry was chosen, if *)
(* the loaded chain had an expiry no further above the target than the     *)
(* roll threshold is below it: the nearest to TARGET_DTE is then at least  *)
(* MIN_DTE_BEFORE_ROLL away.  What is inserted may be due all the same,    *)
(* when the clock moved on during the quotes.                              *)
(***************************************************************************)
Opened(p) == /\ position[p].state = "absent" /\ position'[p].state = "opening"
             /\ position'[p].layer = L3Tail

InRangeOn(day, e) == MinDte <= e - day /\ e - day <= 2 * TargetDte - MinDte

OpensClearWhenLoaded ==
    [][\A p \in PositionId :
          Opened(p) /\ (\E e \in chain : InRangeOn(plan.on, e))
          => position'[p].metadata.expiry - plan.on >= MinDte]_vars

(***************************************************************************)
(* A strangle due to roll is closed, one left opening by a run that was    *)
(* cut short too, unless a halt stops the layer.                           *)
(***************************************************************************)
DueStrangleRolls ==
    \A p \in PositionId :
        ~ <>[](p \in Strangles /\ ShouldRoll(position[p].metadata.expiry) /\ ~Halted)
=============================================================================
