----------------------------- MODULE L2Executor -----------------------------
(***************************************************************************)
(* Layer 2, strategies/l2_executor.py: buy ladders below the market.  A    *)
(* ladder is a group of rungs, each rung a position of its own: opening    *)
(* while its buy order waits, open once filled, closed when sold or        *)
(* cancelled.                                                              *)
(*                                                                         *)
(* As in L1Executor nothing else touches the store while run_once is       *)
(* suspended, and an exception, the engine's timeout or a crash at any of  *)
(* its awaits is Interrupt.  Each write is a step of its own.  What the    *)
(* exchange answers (book, ticker, score) decides between actions; Layer 2 *)
(* sends it no order, in live mode either.                                 *)
(***************************************************************************)
EXTENDS Store, Safeguards

CONSTANTS
    Symbol,         \* the symbols a configuration may list, by their index
    Configs,        \* the settings a restart may find (see Config)
    MinPosition,    \* settings.min_position_usd
    Share,          \* how size_decay spreads a ladder (see UpTo)
    DynamicAllocs,  \* the L2 allocations the allocator may write, in units
    OtherSizes      \* bound: the notionals of other layers' positions

(***************************************************************************)
(* The settings that shape a ladder, LadderDesignSnapshot without the      *)
(* bankroll, which also scales every cap and is fixed here; and the        *)
(* symbols the code lists, which a new version may change.                 *)
(***************************************************************************)
Design == [levels : Nat \ {0}, total : Nat \ {0}]
Config == [design : Design, symbols : SUBSET Symbol]

Phase == {"pending_rung", "tp_pending"}

RungMetadata(D, I) == [symbol : Symbol, group : PositionId, rung : I,
                       design : D, phase : Phase]

ExitReason == {"closed_tp", "closed_sl", "closed_time"}

ASSUME L2Assumption ==
    /\ Symbol \subseteq Nat /\ IsFiniteSet(Symbol)
    /\ Configs \subseteq Config /\ Configs # {}
    /\ MinPosition \in Nat \ {0}
    /\ DynamicAllocs \subseteq Nat
    /\ OtherSizes \subseteq 1..MaxPerPosition
    /\ DOMAIN StaticAlloc = Layer
    /\ MaxPerPosition <= MaxNotional
    /\ OrderTag = {"pending", "fill"} \cup ExitReason
    /\ \A c \in Configs :
          LET l == c.design.levels IN
          /\ RungMetadata({c.design}, 1..l) \subseteq Metadata
          /\ Share[l][l] \in Nat /\ Share[l] \in [0..l -> 0..Share[l][l]]
          /\ Share[l][0] = 0
          \* rungs have weights, and a unit so small that none rounds to nothing
          /\ \A n \in 1..l :
                /\ Share[l][n - 1] < Share[l][n]
                /\ Share[l][l] <= MinPosition * (Share[l][n] - Share[l][n - 1])

VARIABLES
    config,     \* the settings the running process has read
    pc,         \* where run_once is suspended; "idle" between runs
    to_refresh, \* stale rungs _refresh_stale_ladders has still to close
    to_pending, \* opening positions of the snapshot still to visit
    to_filled,  \* open positions of the snapshot still to visit
    held,       \* held_symbols, of the same snapshot
    to_scan,    \* symbols the scan has still to visit
    cur,        \* the position between two writes of its handler, or NULL
    sale,       \* realized_pnl of the sale in hand
    ladder      \* the locals of _design_and_place_ladder

loopVars == <<to_refresh, to_pending, to_filled, held, to_scan>>
vars     == <<position, fill, system_state, config, pc, to_refresh, to_pending,
              to_filled, held, to_scan, cur, sale, ladder>>

NoLadder == [symbol |-> NULL, group |-> NULL, next |-> 0, budget |-> 0,
             alloc |-> 0, at_risk |-> 0, deployed |-> 0]

PcState == {"idle", "refresh", "pending", "mark_open", "update_metadata",
            "filled", "close_rung", "scan", "rung", "pending_fill"}

TypeOK ==
    /\ StoreTypeOK
    /\ config \in Configs
    /\ pc \in PcState
    /\ to_refresh \subseteq PositionId
    /\ to_pending \subseteq PositionId /\ to_filled \subseteq PositionId
    /\ held \subseteq Symbol /\ to_scan \subseteq Symbol
    /\ cur \in PositionId \cup {NULL}
    /\ sale \in Int
    /\ ladder \in [symbol : Symbol \cup {NULL}, group : PositionId \cup {NULL},
                   next : Nat, budget : Nat, alloc : Nat, at_risk : Nat,
                   deployed : Nat]

Init ==
    /\ StoreInit
    /\ config \in Configs
    /\ pc = "idle"
    /\ to_refresh = {} /\ to_pending = {} /\ to_filled = {}
    /\ held = {} /\ to_scan = {}
    /\ cur = NULL /\ sale = 0 /\ ladder = NoLadder

-----------------------------------------------------------------------------
(* run_once: the snapshot, and the refresh of rungs of another design *)

In(s)   == {p \in OpenPositions(L2Cascade) : position[p].state = s}
IsFirst(x, S) == x \in S /\ \A y \in S : x <= y

HeldSymbolsFilled == {position[p].metadata.symbol : p \in In("open")}  \* mutant

HeldSymbols == {position[p].metadata.symbol : p \in OpenPositions(L2Cascade)}

StaleByLevels ==                                           \* mutant
    {p \in In("opening") : position[p].metadata.design.levels # config.design.levels}

StaleRungs == {p \in In("opening") : position[p].metadata.design # config.design}

Snapshot == /\ to_pending' = In("opening")
            /\ to_filled' = In("open")
            /\ held' = HeldSymbols

StartRun ==
    /\ pc = "idle"
    /\ LayerEnabled[L2Cascade]
    /\ ~Halted
    /\ Snapshot
    /\ to_refresh' = StaleRungs
    /\ pc' = "refresh"
    /\ UNCHANGED <<storeVars, config, to_scan, cur, sale, ladder>>

RefreshRung(p) ==
    /\ pc = "refresh" /\ IsFirst(p, to_refresh)
    /\ ClosePosition(p, 0)
    /\ to_refresh' = to_refresh \ {p}
    /\ UNCHANGED <<config, pc, to_pending, to_filled, held, to_scan, cur,
                   sale, ladder>>

RefreshDoneStale ==                                        \* mutant
    /\ pc = "refresh" /\ to_refresh = {}
    /\ pc' = "pending"
    /\ UNCHANGED <<storeVars, config, loopVars, cur, sale, ladder>>

(* The positions are read again, which differs only if one was closed. *)
RefreshDone ==
    /\ pc = "refresh" /\ to_refresh = {}
    /\ Snapshot
    /\ pc' = "pending"
    /\ UNCHANGED <<storeVars, config, to_refresh, to_scan, cur, sale, ladder>>

-----------------------------------------------------------------------------
(* _manage_pending_rung *)

(* A rung whose symbol the code no longer lists is skipped by both loops. *)
Tracked(p) == position[p].metadata.symbol \in config.symbols

VisitPending(p) ==
    /\ pc = "pending" /\ IsFirst(p, to_pending)
    /\ to_pending' = to_pending \ {p}
    /\ UNCHANGED <<config, to_refresh, to_filled, held, to_scan, sale, ladder>>

(* Untracked, no book, or not crossed with the signal and spot in range. *)
KeepRung(p) ==
    /\ VisitPending(p)
    /\ UNCHANGED <<storeVars, pc, cur>>

(* The signal has weakened, or spot has drifted from the ladder's anchor. *)
CancelRung(p) ==
    /\ VisitPending(p) /\ Tracked(p)
    /\ ClosePosition(p, 0)
    /\ UNCHANGED <<pc, cur>>

(* best_ask has crossed the limit: three writes, an await between each. *)
FillRung(p) ==
    /\ VisitPending(p) /\ Tracked(p)
    /\ RecordFill(<<p, "fill">>, TRUE)
    /\ cur' = p /\ pc' = "mark_open"

MarkRungOpen ==
    /\ pc = "mark_open"
    /\ MarkPositionOpen(cur)
    /\ pc' = "update_metadata"
    /\ UNCHANGED <<config, loopVars, cur, sale, ladder>>

UpdateMetadata ==
    /\ pc = "update_metadata"
    /\ position' = [position EXCEPT ![cur].metadata.phase = "tp_pending"]
    /\ cur' = NULL /\ pc' = "pending"
    /\ UNCHANGED <<fill, system_state, config, loopVars, sale, ladder>>

PendingDone ==
    /\ pc = "pending" /\ to_pending = {}
    /\ pc' = "filled"
    /\ UNCHANGED <<storeVars, config, loopVars, cur, sale, ladder>>

-----------------------------------------------------------------------------
(* _manage_filled_position *)

(* Without fill_price, tp_price, sl_price and filled_at nothing is done. *)
Managed(p) == Tracked(p) /\ position[p].metadata.phase = "tp_pending"

(* The sign of what a sale realizes; a time-stop sells at any price. *)
Pnl(reason) == CASE reason = "closed_tp"   -> {1}
                 [] reason = "closed_sl"   -> {-1}
                 [] reason = "closed_time" -> {-1, 1}

VisitFilled(p) ==
    /\ pc = "filled" /\ IsFirst(p, to_filled)
    /\ to_filled' = to_filled \ {p}
    /\ UNCHANGED <<config, to_refresh, to_pending, held, to_scan, ladder>>

(* Not managed, no book, no exit condition, or bids too thin to sell into. *)
KeepFilled(p) ==
    /\ VisitFilled(p)
    /\ UNCHANGED <<storeVars, pc, cur, sale>>

SellRungOncePerId(p, reason) ==                            \* mutant
    /\ VisitFilled(p) /\ Managed(p)
    /\ <<p, reason>> \notin SeenOrderIds
    /\ RecordFill(<<p, reason>>, TRUE)
    /\ sale' \in Pnl(reason)
    /\ cur' = p /\ pc' = "close_rung"

SellRung(p, reason) ==
    /\ VisitFilled(p) /\ Managed(p)
    /\ RecordFill(<<p, reason>>, TRUE)
    /\ sale' \in Pnl(reason)
    /\ cur' = p /\ pc' = "close_rung"

CloseRung ==
    /\ pc = "close_rung"
    /\ ClosePosition(cur, sale)
    /\ cur' = NULL /\ sale' = 0 /\ pc' = "filled"
    /\ UNCHANGED <<config, loopVars, ladder>>

FilledDone ==
    /\ pc = "filled" /\ to_filled = {}
    /\ to_scan' = config.symbols
    /\ pc' = "scan"
    /\ UNCHANGED <<storeVars, config, to_refresh, to_pending, to_filled, held,
                   cur, sale, ladder>>

-----------------------------------------------------------------------------
(* The scan and _design_and_place_ladder *)

VisitSymbol(s) ==
    /\ pc = "scan" /\ IsFirst(s, to_scan)
    /\ to_scan' = to_scan \ {s}
    /\ UNCHANGED <<storeVars, config, to_refresh, to_pending, to_filled, held,
                   cur, sale>>

(* Held, a score below the trigger, no ticker, or too small a budget. *)
PassSymbol(s) ==
    /\ VisitSymbol(s)
    /\ UNCHANGED <<pc, ladder>>

DynamicAlloc == system_state.dynamic_alloc[L2Cascade]

LayerAlloc == IF DynamicAlloc # NULL /\ DynamicAlloc > StaticAlloc[L2Cascade]
              THEN DynamicAlloc ELSE StaticAlloc[L2Cascade]

Budget == LET remaining == LayerAlloc - LayerDeployed(L2Cascade)
          IN  IF remaining < config.design.total THEN remaining
              ELSE config.design.total

(* strategy_group_id is fresh; here, the id the ladder's first row gets. *)
DesignLadder(s, p) ==
    /\ VisitSymbol(s)
    /\ s \notin held
    /\ Budget >= MinPosition
    /\ IsNextId(p)
    /\ ladder' = [symbol |-> s, group |-> p, next |-> 1, budget |-> Budget,
                  alloc |-> LayerAlloc, at_risk |-> TotalAtRisk,
                  deployed |-> LayerDeployed(L2Cascade)]
    /\ pc' = "rung"

(***************************************************************************)
(* design_ladder: the weights are size_decay^i, and of Share[l][l] parts    *)
(* the first n of l rungs get Share[l][n].  UpTo(n) is what they cost,     *)
(* sum(size_usd for r in rungs[:n]), rounded down to units so that the     *)
(* rungs add up to the budget.                                             *)
(***************************************************************************)
UpTo(n) == LET l == config.design.levels
           IN  (ladder.budget * Share[l][n]) \div Share[l][l]

RungSize == UpTo(ladder.next) - UpTo(ladder.next - 1)

RungOrder(p) == [size |-> RungSize, layer |-> L2Cascade, id |-> <<p, "pending">>,
                 is_live |-> EnableLiveOrders]

RungPassesAlone(p) ==                                      \* mutant
    CheckOrder(RungOrder(p), ladder.at_risk, ladder.deployed, SeenOrderIds,
               ladder.alloc)

RungPassesStatic(p) ==                                     \* mutant
    CheckOrder(RungOrder(p), ladder.at_risk + UpTo(ladder.next - 1),
               ladder.deployed + UpTo(ladder.next - 1), SeenOrderIds,
               StaticAlloc[L2Cascade])

(* Totals read once, plus every earlier rung, those refused included. *)
RungPasses(p) ==
    CheckOrder(RungOrder(p), ladder.at_risk + UpTo(ladder.next - 1),
               ladder.deployed + UpTo(ladder.next - 1), SeenOrderIds,
               ladder.alloc)

AtRung == pc = "rung" /\ ladder.next <= config.design.levels

(* A guard violation, or (bound) no row id left. *)
RefuseRung ==
    /\ AtRung
    /\ ~ \E p \in PositionId : IsNextId(p) /\ RungPasses(p)
    /\ ladder' = [ladder EXCEPT !.next = @ + 1]
    /\ UNCHANGED <<storeVars, config, pc, loopVars, cur, sale>>

PlaceRung(p) ==
    /\ AtRung
    /\ RungPasses(p)
    /\ CreatePosition(p, L2Cascade, RungSize,
                      [symbol |-> ladder.symbol, group |-> ladder.group,
                       rung |-> ladder.next, design |-> config.design,
                       phase |-> "pending_rung"])
    /\ cur' = p /\ pc' = "pending_fill"
    /\ UNCHANGED <<config, loopVars, sale, ladder>>

RecordPending ==
    /\ pc = "pending_fill"
    /\ RecordFill(<<cur, "pending">>, FALSE)
    /\ ladder' = [ladder EXCEPT !.next = @ + 1]
    /\ cur' = NULL /\ pc' = "rung"
    /\ UNCHANGED <<config, loopVars, sale>>

LadderDone ==
    /\ pc = "rung" /\ ladder.next > config.design.levels
    /\ ladder' = NoLadder /\ pc' = "scan"
    /\ UNCHANGED <<storeVars, config, loopVars, cur, sale>>

RunDone ==
    /\ pc = "scan" /\ to_scan = {}
    /\ held' = {} /\ pc' = "idle"
    /\ UNCHANGED <<storeVars, config, to_refresh, to_pending, to_filled,
                   to_scan, cur, sale, ladder>>

-----------------------------------------------------------------------------
(* An exception, the engine's timeout or a crash, at any await. *)
Interrupt ==
    /\ pc # "idle"
    /\ pc' = "idle"
    /\ to_refresh' = {} /\ to_pending' = {} /\ to_filled' = {}
    /\ held' = {} /\ to_scan' = {}
    /\ cur' = NULL /\ sale' = 0 /\ ladder' = NoLadder
    /\ UNCHANGED <<storeVars, config>>

(***************************************************************************)
(* Between two runs: reconciliation, the allocator, the other layers, an   *)
(* operator clearing a halt, and a restart of the process under new        *)
(* settings.  Layer 1 stands for the other layers: its entry passes the    *)
(* caps, its exit marks the row closing and then closes it, leaves it or,  *)
(* the caps allowing, puts it back; its halt names a row of its own.       *)
(***************************************************************************)
OthersRow(p, states) == position[p].layer = L1Funding /\ position[p].state \in states

OtherLayers(p) ==
    \/ \E n \in OtherSizes :
          /\ TotalAtRisk + n <= MaxTotalDeployed
          /\ CreatePosition(p, L1Funding, n, NULL)
    \/ OthersRow(p, LiveState) /\ MarkPositionClosing(p)
    \/ OthersRow(p, LiveState \cup {"closing"}) /\ (ClosePosition(p, 0) \/ SetHaltReason(p))
    \/ /\ OthersRow(p, {"closing"})
       /\ TotalAtRisk + position[p].notional <= MaxTotalDeployed
       /\ SetPositionState(p, "opening")

Elsewhere(p) ==
    \/ ReconcileAtRisk
    \/ \E usd \in DynamicAllocs : SetDynamicAllocation(L2Cascade, usd)
    \/ Halted /\ SetHaltReason(NULL)
    \/ OtherLayers(p)

BetweenRuns ==
    /\ pc = "idle"
    /\ \/ (\E p \in PositionId : Elsewhere(p)) /\ UNCHANGED config
       \/ config' \in Configs /\ UNCHANGED storeVars
    /\ UNCHANGED <<pc, loopVars, cur, sale, ladder>>

RunStep ==
    \/ \E p \in PositionId :
          \/ RefreshRung(p)
          \/ KeepRung(p) \/ CancelRung(p) \/ FillRung(p)
          \/ KeepFilled(p)
          \/ \E reason \in ExitReason : SellRung(p, reason)
          \/ \E s \in Symbol : DesignLadder(s, p)
          \/ PlaceRung(p)
    \/ \E s \in Symbol : PassSymbol(s)
    \/ RefreshDone \/ MarkRungOpen \/ UpdateMetadata \/ PendingDone
    \/ CloseRung \/ FilledDone
    \/ RefuseRung \/ RecordPending \/ LadderDone \/ RunDone

Next == StartRun \/ RunStep \/ Interrupt \/ BetweenRuns

Spec == Init /\ [][Next]_vars

(***************************************************************************)
(* Fairness.  A run starts each cycle, and one that has begun moves on or  *)
(* is cut off.  RunsComplete: not every run is cut off.  Strong fairness   *)
(* says that an aged rung finds bids to sell into if tried for ever, and   *)
(* that not every run is cut off right after a sale.  Nothing of           *)
(* BetweenRuns is promised.                                                *)
(***************************************************************************)
RunsComplete == []<><<StartRun>>_vars => []<><<RunDone>>_vars

Fairness ==
    /\ WF_vars(StartRun)
    /\ WF_vars(RunStep \/ Interrupt)
    /\ RunsComplete
    /\ \A p \in PositionId : SF_vars(SellRung(p, "closed_time"))
    /\ SF_vars(CloseRung)

FairSpec == Spec /\ Fairness

-----------------------------------------------------------------------------
(* What holds *)

Rungs == OpenPositions(L2Cascade)

(***************************************************************************)
(* A symbol never carries two ladders: its live rungs are of one group and *)
(* no rung of that group is there twice, whatever runs were cut short      *)
(* while a ladder was being placed, refreshed or filled.                   *)
(***************************************************************************)
OneLadderPerSymbol ==
    \A p, q \in Rungs :
        LET a == position[p].metadata
            b == position[q].metadata
        IN  a.symbol = b.symbol => a.group = b.group /\ (p # q => a.rung # b.rung)

(***************************************************************************)
(* The hard cap on deployed capital holds while a ladder is placed rung by *)
(* rung against totals that were read before its first rung.               *)
(***************************************************************************)
TotalWithinCap == TotalAtRisk <= MaxTotalDeployed

(***************************************************************************)
(* A rung never takes Layer 2 past the larger of its static and its        *)
(* dynamic allocation as they stand when the row is inserted.              *)
(***************************************************************************)
EntryWithinAllocation ==
    [][\A p \in PositionId :
          (position[p].state = "absent" /\ position'[p].state = "opening"
             /\ position'[p].layer = L2Cascade)
          => Notional(OpenPositions(L2Cascade))' <= LayerAlloc]_vars

(***************************************************************************)
(* The executor and the safeguards agree on the layer's cap: a rung sized  *)
(* within the budget is refused only for want of total capital.            *)
(***************************************************************************)
SomeIdLeft == \E p \in PositionId : IsNextId(p)

RefusedOnlyForTotal ==
    AtRung /\ SomeIdLeft /\ ladder.at_risk + UpTo(ladder.next) <= MaxTotalDeployed
        => \E p \in PositionId : IsNextId(p) /\ RungPasses(p)

(***************************************************************************)
(* A closed row is final: no handler still holding it from an earlier read *)
(* reopens it, closes it again or overwrites what it realized.             *)
(***************************************************************************)
ClosedIsFinal ==
    [][\A p \in PositionId :
          position[p].state = "closed" => position'[p] = position[p]]_vars

(***************************************************************************)
(* A waiting rung only fills at the size the running settings design: one  *)
(* placed under other settings, before a restart, is closed first.         *)
(***************************************************************************)
FilledAtCurrentDesign ==
    [][\A p \in PositionId :
          position[p].state = "opening" /\ position'[p].state = "open"
             /\ position[p].layer = L2Cascade
          => position[p].metadata.design = config.design]_vars

(***************************************************************************)
(* l2_executor.py:185-186, all live ladders reflect the current strategy:  *)
(* once the settings no longer change and no halt stops the layer, no      *)
(* waiting rung of another design remains.                                 *)
(***************************************************************************)
LaddersFollowConfig ==
    \A c \in Configs :
        <>[](config = c /\ ~Halted)
            => <>[](\A p \in In("opening") : position[p].metadata.design = c.design)

(***************************************************************************)
(* The time-stop ends every managed position: none stays open for ever on  *)
(* a symbol the code lists while no halt stops the layer.                  *)
(***************************************************************************)
TimeStopSells ==
    \A p \in PositionId : ~ <>[](p \in In("open") /\ Managed(p) /\ ~Halted)

-----------------------------------------------------------------------------
(* What the repository says and the code does not do *)

(***************************************************************************)
(* l2_executor.py:478, a filled position is sold after an hour regardless. *)
(* Does not hold: a run cut between mark_position_open and the metadata    *)
(* update leaves an open rung without fill_price, which is never managed,  *)
(* though no halt ever stops the layer.                                    *)
(***************************************************************************)
FilledRungExits ==
    \A p \in PositionId : ~ <>[](p \in In("open") /\ ~Halted)
=============================================================================
