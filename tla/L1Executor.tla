----------------------------- MODULE L1Executor -----------------------------
(***************************************************************************)
(* Layer 1, strategies/l1_executor.py: the delta-neutral funding arb.      *)
(* One position is two legs, long spot and short perp, opened and closed   *)
(* by separate orders with awaits between them.                            *)
(*                                                                         *)
(* The engine runs one executor at a time, so nothing else touches the     *)
(* store while run_once is suspended; what can happen at every await is    *)
(* that it raises, that the engine's 90 s timeout cancels it, or that the  *)
(* process dies.  All three are Interrupt: the locals are gone, the store  *)
(* and the exchange keep what they had.  Reads that no write of this task  *)
(* separates are therefore one step with the decision they feed.           *)
(***************************************************************************)
EXTENDS Store, Safeguards

CONSTANTS
    Pair,           \* the configured pairs, by their index in DEFAULT_PAIRS
    MinPosition,    \* settings.min_position_usd
    DynamicAllocs,  \* the L1 allocations the allocator may write, in units
    OtherSizes      \* bound: the notionals of other layers' positions

ASSUME L1Assumption ==
    /\ Pair \subseteq Nat /\ IsFiniteSet(Pair)
    /\ MinPosition \in Nat \ {0}
    /\ DynamicAllocs \subseteq Nat
    /\ OtherSizes \subseteq 1..MaxPerPosition
    /\ DOMAIN StaticAlloc = Layer
    /\ MaxPerPosition <= MaxNotional
    /\ OrderTag = {"spot", "perp", "spot_close", "perp_close"}
    /\ Metadata = Pair

VARIABLES
    pc,         \* the await run_once is suspended at; "idle" between runs
    cands,      \* candidates: pair -> what its prices and funding say
    to_manage,  \* open positions the close loop has still to visit
    to_enter,   \* candidates the entry loop has still to visit
    held,       \* held_group_keys
    cur,        \* the position whose orders are being sent, NULL if none
    legs,       \* the legs for which _submit_leg returned True
    venue       \* external: times the exchange accepted each order (live mode)

runVars == <<cands, to_manage, to_enter, held>>
vars    == <<position, fill, system_state, pc, cands, to_manage, to_enter,
             held, cur, legs, venue>>

(***************************************************************************)
(* What the scan says of a pair: funding at the entry threshold and basis  *)
(* in range (is_attractive); funding below a third of that threshold       *)
(* (should_close_position); or "quiet": neither, or no candidate at all    *)
(* because a price or the fetch failed, and then no loop acts on the pair. *)
(***************************************************************************)
Outlook == {"attractive", "decayed", "quiet"}

NoCands == [a \in Pair |-> "quiet"]

OpenLegs  == {"spot", "perp"}
CloseLegs == {"spot_close", "perp_close"}

PcState == {"idle", "manage", "close_check", "spot_close", "perp_close",
            "close_settle", "enter", "spot", "perp", "settle"}

TypeOK ==
    /\ StoreTypeOK
    /\ pc \in PcState
    /\ cands \in [Pair -> Outlook]
    /\ to_manage \subseteq PositionId
    /\ to_enter \subseteq Pair
    /\ held \subseteq Pair
    /\ cur \in PositionId \cup {NULL}
    /\ legs \subseteq OrderTag
    /\ venue \in [ClientOrderId -> Nat]

Init ==
    /\ StoreInit
    /\ pc = "idle"
    /\ cands = NoCands
    /\ to_manage = {} /\ to_enter = {} /\ held = {}
    /\ cur = NULL /\ legs = {}
    /\ venue = [id \in ClientOrderId |-> 0]

-----------------------------------------------------------------------------
(* run_once: the snapshot, the scan and the two loops *)

HeldKeysOpenOnly ==                                        \* mutant
    {position[p].metadata : p \in {q \in OpenPositions(L1Funding) :
                                       position[q].state = "open"}}

HeldKeys == {position[p].metadata : p \in OpenPositions(L1Funding)}

(***************************************************************************)
(* A halted or disabled layer returns at once, which changes nothing.      *)
(* This is the only place a run looks at halt_reason.                      *)
(***************************************************************************)
StartRun ==
    /\ pc = "idle"
    /\ LayerEnabled[L1Funding]
    /\ ~Halted
    /\ to_manage' = OpenPositions(L1Funding)
    /\ held' = HeldKeys
    /\ cands' \in [Pair -> Outlook]
    /\ pc' = "manage"
    /\ UNCHANGED <<storeVars, to_enter, cur, legs, venue>>

(* `for pos in open_positions`, which the query ordered by opened_at. *)
NextToManage(p) == /\ pc = "manage" /\ p \in to_manage
                   /\ \A q \in to_manage : p <= q
                   /\ to_manage' = to_manage \ {p}

ShouldClose(p) == cands[position[p].metadata] = "decayed"

KeepPosition(p) ==
    /\ NextToManage(p)
    /\ ~ShouldClose(p)
    /\ UNCHANGED <<storeVars, pc, cands, to_enter, held, cur, legs, venue>>

ManageDone ==
    /\ pc = "manage" /\ to_manage = {}
    /\ to_enter' = Pair
    /\ pc' = "enter"
    /\ UNCHANGED <<storeVars, cands, to_manage, held, cur, legs, venue>>

(* `for cand in candidates`, in the order of the configured pairs. *)
NextToEnter(a) == /\ pc = "enter" /\ a \in to_enter
                  /\ \A b \in to_enter : a <= b
                  /\ to_enter' = to_enter \ {a}

Wanted(a) == a \notin held /\ cands[a] = "attractive"

SkipCandidate(a) ==
    /\ NextToEnter(a)
    /\ ~Wanted(a)
    /\ UNCHANGED <<storeVars, pc, cands, to_manage, held, cur, legs, venue>>

RunDone ==
    /\ pc = "enter" /\ to_enter = {}
    /\ pc' = "idle" /\ held' = {} /\ cands' = NoCands
    /\ UNCHANGED <<storeVars, to_manage, to_enter, cur, legs, venue>>

-----------------------------------------------------------------------------
(* _submit_leg *)

SimulateLegOptimistic(tag, ok) ==                          \* mutant
    /\ ~EnableLiveOrders
    /\ RecordFill(<<cur, tag>>, ok)
    /\ legs' = legs \cup {tag}
    /\ UNCHANGED venue

(* Dry run: the simulator answers and a fill row is written either way. *)
SimulateLeg(tag, ok) ==
    /\ ~EnableLiveOrders
    /\ RecordFill(<<cur, tag>>, ok)
    /\ legs' = IF ok THEN legs \cup {tag} ELSE legs
    /\ UNCHANGED venue

(* Live: acceptance of the order counts as its fill. *)
PlaceLeg(tag) ==
    /\ EnableLiveOrders
    /\ venue' = [venue EXCEPT ![<<cur, tag>>] = @ + 1]
    /\ RecordFill(<<cur, tag>>, TRUE)
    /\ legs' = legs \cup {tag}

(***************************************************************************)
(* The except clause of live placement answers False alike when the        *)
(* exchange refused the order, when it took it but the answer or the row   *)
(* of table fill was lost, and when that row was committed but the         *)
(* database's answer was lost.                                             *)
(***************************************************************************)
PlaceLegFails(tag, taken, recorded) ==
    /\ EnableLiveOrders
    /\ venue' = IF taken THEN [venue EXCEPT ![<<cur, tag>>] = @ + 1] ELSE venue
    /\ \/ recorded /\ taken /\ RecordFill(<<cur, tag>>, TRUE)
       \/ ~recorded /\ UNCHANGED storeVars
    /\ UNCHANGED legs

SubmitLeg(tag, next) ==
    /\ pc = tag
    /\ \/ \E ok \in BOOLEAN : SimulateLeg(tag, ok)
       \/ PlaceLeg(tag)
       \/ \E taken, recorded \in BOOLEAN : PlaceLegFails(tag, taken, recorded)
    /\ pc' = next
    /\ UNCHANGED <<runVars, cur>>

SubmitSpot      == SubmitLeg("spot", "perp")
SubmitPerp      == SubmitLeg("perp", "settle")
SubmitSpotClose == SubmitLeg("spot_close", "perp_close")
SubmitPerpClose == SubmitLeg("perp_close", "close_settle")

-----------------------------------------------------------------------------
(* _open_position *)

DynamicAlloc == system_state.dynamic_alloc[L1Funding]

(* max(static, dynamic), or static while the allocator has written none. *)
LayerAlloc == IF DynamicAlloc # NULL /\ DynamicAlloc > StaticAlloc[L1Funding]
              THEN DynamicAlloc ELSE StaticAlloc[L1Funding]

Budget == LET remaining == LayerAlloc - LayerDeployed(L1Funding)
          IN  IF remaining < MaxPerPosition THEN remaining ELSE MaxPerPosition

Order(p, tag, size) == [size |-> size, layer |-> L1Funding, id |-> <<p, tag>>,
                        is_live |-> EnableLiveOrders]

(* plan_position: half the notional per leg. *)
SpotSize(n) == n \div 2
PerpSize(n) == n - n \div 2

EntryPassesLegByLeg(p, n) ==                               \* mutant
    \A order \in {Order(p, "spot", SpotSize(n)), Order(p, "perp", PerpSize(n))} :
        CheckOrder(order, TotalAtRisk, LayerDeployed(L1Funding),
                   SeenOrderIds, LayerAlloc)

(* Both legs, the second against totals that already hold the first. *)
EntryPasses(p, n) ==
    LET spot == Order(p, "spot", SpotSize(n))
        perp == Order(p, "perp", PerpSize(n))
    IN  /\ CheckOrder(spot, TotalAtRisk, LayerDeployed(L1Funding),
                      SeenOrderIds, LayerAlloc)
        /\ CheckOrder(perp, TotalAtRisk + spot.size,
                      LayerDeployed(L1Funding) + spot.size,
                      SeenOrderIds \cup {spot.id}, LayerAlloc)

CanEnter(p) == Budget >= MinPosition /\ EntryPasses(p, Budget)

(* Too small a budget, a guard violation, or (bound) no row id left. *)
RefuseEntry(a) ==
    /\ NextToEnter(a) /\ Wanted(a)
    /\ ~ \E p \in PositionId : IsNextId(p) /\ CanEnter(p)
    /\ UNCHANGED <<storeVars, pc, cands, to_manage, held, cur, legs, venue>>

CreateEntry(a, p) ==
    /\ NextToEnter(a) /\ Wanted(a)
    /\ CanEnter(p)
    /\ CreatePosition(p, L1Funding, Budget, a)
    /\ cur' = p
    /\ pc' = "spot"
    /\ UNCHANGED <<cands, to_manage, held, legs, venue>>

SettleEntry ==
    /\ pc = "settle"
    /\ \/ /\ legs = OpenLegs
          /\ MarkPositionOpen(cur)
          /\ held' = held \cup {position[cur].metadata}
       \/ /\ Cardinality(legs) = 1
          /\ SetHaltReason(cur)
          /\ UNCHANGED held
       \/ /\ legs = {}
          /\ UNCHANGED <<storeVars, held>>
    /\ cur' = NULL /\ legs' = {} /\ pc' = "enter"
    /\ UNCHANGED <<cands, to_manage, to_enter, venue>>

-----------------------------------------------------------------------------
(* _close_position *)

BeginClose(p) ==
    /\ NextToManage(p)
    /\ ShouldClose(p)
    /\ MarkPositionClosing(p)
    /\ cur' = p
    /\ pc' = "close_check"
    /\ UNCHANGED <<cands, to_enter, held, legs, venue>>

ClosePassesCountingItself ==                               \* mutant
    CheckOrder(Order(cur, "spot_close", position[cur].notional \div 2),
               TotalAtRisk + position[cur].notional,
               LayerDeployed(L1Funding) + position[cur].notional,
               SeenOrderIds, StaticAlloc[L1Funding])

(* Only the spot order is checked, and against the static layer cap. *)
ClosePasses ==
    CheckOrder(Order(cur, "spot_close", position[cur].notional \div 2),
               TotalAtRisk, LayerDeployed(L1Funding), SeenOrderIds,
               StaticAlloc[L1Funding])

CloseCleared ==
    /\ pc = "close_check" /\ ClosePasses
    /\ pc' = "spot_close"
    /\ UNCHANGED <<storeVars, runVars, cur, legs, venue>>

CloseRefused ==
    /\ pc = "close_check" /\ ~ClosePasses
    /\ MarkPositionOpen(cur)
    /\ cur' = NULL /\ pc' = "manage"
    /\ UNCHANGED <<runVars, legs, venue>>

(* The sum of the position's funding_event rows, which no code inserts. *)
FundingCollected == 0

ExitOutcome(done, half, none) ==
    /\ pc = "close_settle"
    /\ \/ legs = CloseLegs /\ done
       \/ Cardinality(legs) = 1 /\ half
       \/ legs = {} /\ none
    /\ cur' = NULL /\ legs' = {} /\ pc' = "manage"
    /\ UNCHANGED <<runVars, venue>>

SettleCloseEitherLeg ==                                    \* mutant
    LET close == ClosePosition(cur, FundingCollected)
    IN  ExitOutcome(close, close, UNCHANGED storeVars)

SettleCloseRetry ==                                        \* mutant
    ExitOutcome(ClosePosition(cur, FundingCollected), SetHaltReason(cur),
                MarkPositionOpen(cur))

(* If neither leg filled the row is left as it is, closing. *)
SettleClose ==
    ExitOutcome(ClosePosition(cur, FundingCollected), SetHaltReason(cur),
                UNCHANGED storeVars)

-----------------------------------------------------------------------------
(* An exception, the engine's timeout or a crash, at any await. *)
Interrupt ==
    /\ pc # "idle"
    /\ pc' = "idle"
    /\ cands' = NoCands /\ to_manage' = {} /\ to_enter' = {} /\ held' = {}
    /\ cur' = NULL /\ legs' = {}
    /\ UNCHANGED <<storeVars, venue>>

(***************************************************************************)
(* Between two runs: the engine reconciles, the allocator and the other    *)
(* layers take their turn, an operator clears a halt.  Another layer's     *)
(* entry passes check_order on the totals it reads, as L2's does.          *)
(***************************************************************************)
Elsewhere(p) ==
    \/ ReconcileAtRisk
    \/ \E usd \in DynamicAllocs : SetDynamicAllocation(L1Funding, usd)
    \/ Halted /\ SetHaltReason(NULL)
    \/ \E n \in OtherSizes :
          /\ TotalAtRisk + n <= MaxTotalDeployed
          /\ CreatePosition(p, L2Cascade, n, NULL)
    \/ p \in OpenPositions(L2Cascade) /\ ClosePosition(p, 0)

BetweenRuns ==
    /\ pc = "idle"
    /\ \E p \in PositionId : Elsewhere(p)
    /\ UNCHANGED <<pc, runVars, cur, legs, venue>>

RunStep ==
    \/ \E p \in PositionId : KeepPosition(p) \/ BeginClose(p)
    \/ ManageDone
    \/ CloseCleared \/ CloseRefused
    \/ SubmitSpotClose \/ SubmitPerpClose \/ SettleClose
    \/ \E a \in Pair : SkipCandidate(a) \/ RefuseEntry(a)
                         \/ \E p \in PositionId : CreateEntry(a, p)
    \/ SubmitSpot \/ SubmitPerp \/ SettleEntry
    \/ RunDone

Next == StartRun \/ RunStep \/ Interrupt \/ BetweenRuns

Spec == Init /\ [][Next]_vars

(***************************************************************************)
(* Fairness.  run_forever starts a run each cycle, and a run that has      *)
(* begun moves on or is cut off after 90 s; no run is promised to get to   *)
(* its end.  That the exchange is not down in every single run is the      *)
(* strong fairness of BeginClose.  Nothing of BetweenRuns is promised: no  *)
(* operator need ever clear a halt.                                        *)
(***************************************************************************)
Fairness ==
    /\ WF_vars(StartRun)
    /\ WF_vars(RunStep \/ Interrupt)
    /\ \A p \in PositionId : SF_vars(BeginClose(p))

FairSpec == Spec /\ Fairness

-----------------------------------------------------------------------------
(* What holds *)

LiveOn(a)   == {p \in OpenPositions(L1Funding) : position[p].metadata = a}

(* A leg the account really holds: simulated as filled, or taken live. *)
HasLeg(p, tag) == IF EnableLiveOrders THEN venue[<<p, tag>>] > 0 ELSE Filled(p, tag)

(***************************************************************************)
(* No market is entered twice: whatever runs were cut short between the    *)
(* snapshot of held_group_keys and the last write, at most one opening or  *)
(* open position exists per pair.                                          *)
(***************************************************************************)
OneLivePerPair ==
    \A p, q \in OpenPositions(L1Funding) :
        position[p].metadata = position[q].metadata => p = q

(***************************************************************************)
(* The hard cap on deployed capital, as the store sums it, holds in every  *)
(* state: also while a position is marked closing, and after a refused     *)
(* close has put it back.                                                  *)
(***************************************************************************)
TotalWithinCap == TotalAtRisk <= MaxTotalDeployed

(***************************************************************************)
(* An entry never takes Layer 1 past the larger of its static and its      *)
(* dynamic allocation as they stand when the row is inserted.              *)
(***************************************************************************)
EntryWithinAllocation ==
    [][\A p \in PositionId :
          (position[p].state = "absent" /\ position'[p].state = "opening"
             /\ position'[p].layer = L1Funding)
          => Notional(OpenPositions(L1Funding))' <= LayerAlloc]_vars

(***************************************************************************)
(* Half a hedge is a directional bet.  In dry run, where the store holds   *)
(* what the simulator answered: whenever run_once is done with a position  *)
(* of its own accord, and exactly one order of the pair it sent stands as  *)
(* filled in the store, the halt names that position.  Live mode is out: a *)
(* lost answer leaves a leg on the exchange, or its row in the store, of   *)
(* which the run was told nothing.                                         *)
(***************************************************************************)
HalfDone(p, tags) == Cardinality({tag \in tags : Filled(p, tag)}) = 1

HalfDoneHalts ==
    [][\A p \in PositionId :
          (~EnableLiveOrders /\ cur = p /\ cur' = NULL /\ pc' # "idle"
             /\ \/ pc = "settle" /\ HalfDone(p, OpenLegs)
                \/ pc # "settle" /\ HalfDone(p, CloseLegs))
          => system_state'.halt_reason = p]_vars

(***************************************************************************)
(* Idempotency end to end: the exchange never takes the same order of a    *)
(* position twice, although client order ids are checked against rows of   *)
(* table fill that a lost answer or an interrupted run never wrote.        *)
(***************************************************************************)
OrderTakenAtMostOnce == \A id \in ClientOrderId : venue[id] <= 1

(***************************************************************************)
(* A row is closed, and its capital released, only once both exit orders   *)
(* have gone through.                                                      *)
(***************************************************************************)
ClosedIsExited ==
    \A p \in PositionId :
        position[p].state = "closed" /\ position[p].layer = L1Funding
            => \A tag \in CloseLegs : HasLeg(p, tag)

(***************************************************************************)
(* A closing position goes back on the book only if no exit order of it    *)
(* has left: a half-exited one never looks open again.                     *)
(***************************************************************************)
ReopenedOnlyUntouched ==
    [][\A p \in PositionId :
          (position[p].state = "closing" /\ position'[p].state = "open")
          => \A tag \in CloseLegs : <<p, tag>> \notin SeenOrderIds
                                      /\ venue[<<p, tag>>] = 0]_vars

(***************************************************************************)
(* The cached system_state.total_at_risk_usd never claims more than the    *)
(* rows that are not closed, however closes, clamps at zero and            *)
(* reconciliations follow each other.                                      *)
(***************************************************************************)
NotClosed == {p \in PositionId : position[p].state \in LiveState \cup {"closing"}}

CounterNeverOverstates == system_state.total_at_risk_usd <= Notional(NotClosed)

(* The spot exit of each of the pair's positions fits under the static     *)
(* allocation, beside the layer's other positions.                         *)
ExitFits(a) ==
    \A p \in LiveOn(a) :
        Notional(OpenPositions(L1Funding) \ {p}) + position[p].notional \div 2
            <= StaticAlloc[L1Funding]

(***************************************************************************)
(* A pair whose funding has decayed for good is left, also when its exit   *)
(* was refused before: if from some time on every scan says so, no halt    *)
(* stops the layer and what else the layer holds leaves room for the exit  *)
(* under the static allocation, then eventually no opening or open         *)
(* position on the pair remains.  The last condition is the code's: an     *)
(* exit is checked against the static allocation even where the entries    *)
(* were let in under a larger dynamic one.                                 *)
(***************************************************************************)
DecayedPairIsLeft ==
    \A a \in Pair :
        <>[]((pc # "idle" => cands[a] = "decayed") /\ ~Halted /\ ExitFits(a))
            => <>[](LiveOn(a) = {})

-----------------------------------------------------------------------------
(* The inductive strengthening of OneLivePerPair and TotalWithinCap *)

Closing  == {"close_check", "close_settle"} \cup CloseLegs
Opening  == {"settle"} \cup OpenLegs
Managing == {"manage"} \cup Closing
Entering == {"enter"} \cup Opening

(* A position is in hand exactly between its first and its last write. *)
InHand == (cur = NULL) <=> (pc \in {"idle", "manage", "enter"})

(* The row in hand is a Layer 1 row in the state the handler left it in. *)
RowInHand ==
    /\ pc \in Closing => position[cur].state = "closing"
    /\ pc \in Opening => position[cur].state = "opening"
    /\ cur # NULL => position[cur].layer = L1Funding

(* Layer 1 rows name the pair they are on. *)
RowsNamePairs ==
    \A p \in PositionId :
        position[p].layer = L1Funding /\ position[p].state # "absent"
            => position[p].metadata \in Pair

(* Nothing is closed twice in a run: what is left to visit is still live. *)
ManagedAreLive == to_manage \subseteq OpenPositions(L1Funding)

(***************************************************************************)
(* held_group_keys covers what it must: every live position while the      *)
(* close loop runs, the pair being closed too, which no other live         *)
(* position is on; and in the entry loop every pair still to be visited    *)
(* that has one.                                                           *)
(***************************************************************************)
HeldCovers ==
    /\ pc \in Managing => \A p \in OpenPositions(L1Funding) : position[p].metadata \in held
    /\ pc \in Closing =>
          /\ position[cur].metadata \in held
          /\ LiveOn(position[cur].metadata) = {}
    /\ pc \in Entering =>
          \A p \in OpenPositions(L1Funding) :
              position[p].metadata \in held \/ position[p].metadata \notin to_enter

(* Room is kept for the row a refused close will put back. *)
RoomToReopen ==
    pc = "close_check" => TotalAtRisk + position[cur].notional <= MaxTotalDeployed

Shape == TypeOK /\ InHand /\ RowInHand /\ RowsNamePairs /\ ManagedAreLive
=============================================================================
