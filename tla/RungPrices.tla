----------------------------- MODULE RungPrices -----------------------------
(***************************************************************************)
(* One rung of Layer 2 against the order book: the prices L2Executor       *)
(* leaves to chance.  design_ladder sets its limit, _manage_pending_rung   *)
(* fills or cancels it, _manage_filled_position sells it, each judged on   *)
(* the book fetched in that visit and answered by the simulator.  Writes   *)
(* and interruptions are L2Executor's; here a visit is one step.           *)
(***************************************************************************)
EXTENDS Simulator, FiniteSets

CONSTANTS
    Price, LevelSize,   \* bound: what levels of the book may be
    MaxLevels,          \* bound: levels on each side of the book
    Spots,              \* bound: prices a ladder may be anchored at
    RungSize,           \* size_usd of the rung
    LesserSizes,        \* bound: the orders the rung's is compared with
    Levels,             \* settings.l2_ladder_levels
    DeepestPct,         \* deepest_pct of design_ladder
    DriftPct,           \* drift_threshold_pct of the refresh
    TakeProfitPct, StopLossPct

(* As in the settings, the profit asked for exceeds the slippage admitted. *)
ASSUME RungPricesAssumption ==
    /\ Price \subseteq Nat \ {0} /\ LevelSize \subseteq Nat \ {0} /\ MaxLevels \in Nat
    /\ Spots \subseteq Nat \ {0} /\ RungSize \in Nat \ {0}
    /\ LesserSizes \subseteq 1..RungSize
    /\ Levels \in Nat \ {0} /\ DeepestPct \in 1..(Whole \div 2)
    /\ DriftPct \in 0..Whole /\ StopLossPct \in 1..(Whole - 1)
    /\ TakeProfitPct \in Nat \ {0}
    /\ (Whole + TakeProfitPct) * (Whole - MaxSlippage) > Whole * Whole
    \* every limit price is a whole number of units
    /\ \A s \in Spots, i \in 1..Levels :
          (s * (Whole * Levels - DeepestPct * i)) % (Whole * Levels) = 0

VARIABLES
    book,   \* external: the order book, as the next visit will find it
    aged,   \* MAX_HOLD_MINUTES have passed since the fill
    rung    \* the rung: its state, anchor, limit, and how it was sold

vars == <<book, aged, rung>>

Sides == SeqOf(Level(Price, LevelSize), MaxLevels)

Bids == {levels \in Sides :
            \A i, j \in DOMAIN levels : i < j => levels[i].price > levels[j].price}
Asks == {levels \in Sides :
            \A i, j \in DOMAIN levels : i < j => levels[i].price < levels[j].price}

Uncrossed(bids, asks) ==
    bids # <<>> /\ asks # <<>> => bids[1].price < asks[1].price

RungState == {"none", "pending", "open", "closed"}
ExitReason == {"closed_tp", "closed_sl", "closed_time"}

NoRung == [state |-> "none", spot |-> 0, limit |-> 0, reason |-> "none",
           exit |-> Unfilled]

TypeOK ==
    /\ book \in [bids : Bids, asks : Asks]
    /\ Uncrossed(book.bids, book.asks)
    /\ aged \in BOOLEAN
    /\ rung.state \in RungState
    /\ rung.limit # 0 <=> rung.state # "none"
    /\ rung.reason \in ExitReason <=> rung.state = "closed"
    /\ rung.exit.filled <=> rung.state = "closed"

Init ==
    /\ book = [bids |-> <<>>, asks |-> <<>>]
    /\ aged = FALSE
    /\ rung = NoRung

-----------------------------------------------------------------------------
(* The world between two visits *)

QuoteBids ==
    /\ \E bids \in Bids :
          /\ Uncrossed(bids, book.asks)
          /\ book' = [book EXCEPT !.bids = bids]
    /\ UNCHANGED <<aged, rung>>

QuoteAsks ==
    /\ \E asks \in Asks :
          /\ Uncrossed(book.bids, asks)
          /\ book' = [book EXCEPT !.asks = asks]
    /\ UNCHANGED <<aged, rung>>

HoldTimePasses ==
    /\ rung.state = "open" /\ ~aged
    /\ aged' = TRUE
    /\ UNCHANGED <<book, rung>>

-----------------------------------------------------------------------------
(* The visits *)

(* design_ladder: rungs evenly spaced down to the deepest. *)
LimitPrice(spot, i) ==
    (spot * (Whole * Levels - DeepestPct * i)) \div (Whole * Levels)

(* The anchor is the last trade, which need not lie within the book. *)
PlaceRung(spot, i) ==
    /\ rung.state \in {"none", "closed"}
    /\ rung' = [NoRung EXCEPT !.state = "pending", !.spot = spot,
                              !.limit = LimitPrice(spot, i)]
    /\ UNCHANGED <<book, aged>>

FillRung ==
    /\ rung.state = "pending"
    /\ LimitBuyFills(book, rung.limit)
    /\ rung' = [rung EXCEPT !.state = "open"]
    /\ aged' = FALSE
    /\ UNCHANGED book

(* should_refresh_ladder on mid or, without bids, on best_ask: in halves. *)
Drifted ==
    LET twice == IF book.bids = <<>> THEN 2 * book.asks[1].price
                 ELSE book.bids[1].price + book.asks[1].price
        moved == twice - 2 * rung.spot
    IN  /\ book.asks # <<>>
        /\ Max({moved, -moved}) * Whole > 2 * rung.spot * DriftPct

WithdrawRung(weak) ==
    /\ rung.state = "pending"
    /\ ~LimitBuyFills(book, rung.limit)
    /\ weak \/ Drifted
    /\ rung' = NoRung
    /\ UNCHANGED <<book, aged>>

(* The exit conditions in the order they are tried; some bid is there. *)
AtTakeProfit == book.bids[1].price * Whole >= rung.limit * (Whole + TakeProfitPct)
AtStopLoss   == book.bids[1].price * Whole <= rung.limit * (Whole - StopLossPct)

ExitDue(reason) ==
    \/ reason = "closed_tp" /\ AtTakeProfit
    \/ reason = "closed_sl" /\ ~AtTakeProfit /\ AtStopLoss
    \/ reason = "closed_time" /\ ~AtTakeProfit /\ ~AtStopLoss /\ aged

SellRung(reason) ==
    /\ rung.state = "open" /\ book.bids # <<>>
    /\ ExitDue(reason)
    /\ MarketSell(book, RungSize).filled
    /\ rung' = [rung EXCEPT !.state = "closed", !.reason = reason,
                            !.exit = MarketSell(book, RungSize)]
    /\ UNCHANGED <<book, aged>>

Next ==
    \/ QuoteBids \/ QuoteAsks \/ HoldTimePasses
    \/ \E spot \in Spots, i \in 1..Levels : PlaceRung(spot, i)
    \/ FillRung
    \/ \E weak \in BOOLEAN : WithdrawRung(weak)
    \/ \E reason \in ExitReason : SellRung(reason)

Spec == Init /\ [][Next]_vars

-----------------------------------------------------------------------------
(* What holds *)

(***************************************************************************)
(* The sign of realized_pnl is the one L2Executor!Pnl gives each reason:   *)
(* what is taken as a profit stays one after the slippage of the sale,     *)
(* and a stop never earns.                                                 *)
(***************************************************************************)
ExitHasItsSign ==
    rung.state = "closed" =>
        /\ rung.reason = "closed_tp" => rung.exit.num > rung.limit * rung.exit.den
        /\ rung.reason = "closed_sl" => rung.exit.num < rung.limit * rung.exit.den

(***************************************************************************)
(* realistic.py:3-5, no fictional profit: a rung is never due for its      *)
(* profit on the very book that filled it.                                 *)
(***************************************************************************)
FillIsNoGift ==
    [][rung.state = "pending" /\ rung'.state = "open" /\ book.bids # <<>>
          => ~AtTakeProfit]_vars

(***************************************************************************)
(* A maker buy and a maker sell that one snapshot both fills lie no        *)
(* further apart than their two tolerances.                                *)
(***************************************************************************)
NoPaperSpread ==
    \A buy, sell \in Price :
        LimitBuyFills(book, buy) /\ LimitSellFills(book, sell)
            => sell * (Whole - FillTolerance) < buy * (Whole + FillTolerance)

(***************************************************************************)
(* Depth and slippage only ever hurt the larger order: where the rung's    *)
(* market order fills, a smaller one would too, and at no worse a price.   *)
(***************************************************************************)
SmallerFillsToo ==
    \A size \in LesserSizes :
        /\ MarketBuy(book, RungSize).filled =>
              LET whole == MarketBuy(book, RungSize)
                  small == MarketBuy(book, size)
              IN  small.filled /\ small.num * whole.den <= whole.num * small.den
        /\ MarketSell(book, RungSize).filled =>
              LET whole == MarketSell(book, RungSize)
                  small == MarketSell(book, size)
              IN  small.filled /\ small.num * whole.den >= whole.num * small.den
=============================================================================
