----------------------------- MODULE Simulator -----------------------------
(***************************************************************************)
(* sim/realistic.py: what the dry run answers to an order, given one       *)
(* snapshot of the order book.  Pure operators; exact fractions stand for  *)
(* the floats and for the tolerance of 1e-9.                               *)
(***************************************************************************)
EXTENDS Integers, Sequences, SequencesExt

CONSTANTS
    Whole,          \* percentages are given in units of 1 / Whole
    MaxSlippage,    \* max_slippage_pct
    FillTolerance   \* fill_tolerance_pct

ASSUME SimulatorAssumption ==
    /\ Whole \in Nat \ {0}
    /\ MaxSlippage \in 0..Whole /\ FillTolerance \in 0..Whole

(***************************************************************************)
(* A side of a book is a sequence of levels [price, size], best first;     *)
(* size is in base units, orders are in dollars.                           *)
(***************************************************************************)
Level(prices, sizes) == [price : prices, size : sizes]

(* Dollars left, and base moved so far as the fraction base / unit. *)
TakeLevel(acc, level) ==
    LET take == Min({acc.left, level.price * level.size})
    IN  [left |-> acc.left - take,
         base |-> acc.base * level.price + take * acc.unit,
         unit |-> acc.unit * level.price]

WalkFromWorst(levels, size) ==                             \* mutant
    LET after[n \in 0..Len(levels)] ==
            IF n = 0 THEN [left |-> size, base |-> 0, unit |-> 1]
            ELSE TakeLevel(after[n - 1], levels[Len(levels) + 1 - n])
    IN  after[Len(levels)]

(* The loop both market orders share, level by level from the best. *)
Walk(levels, size) ==
    LET after[n \in 0..Len(levels)] ==
            IF n = 0 THEN [left |-> size, base |-> 0, unit |-> 1]
            ELSE TakeLevel(after[n - 1], levels[n])
    IN  after[Len(levels)]

(* An answer: filled, and the average price as the fraction num / den. *)
Unfilled == [filled |-> FALSE, num |-> 0, den |-> 1]

(* An order of nothing has the average price 0. *)
Filled(levels, size) ==
    LET walk == Walk(levels, size)
    IN  [filled |-> TRUE, num |-> size * walk.unit, den |-> Max({walk.base, 1})]

DeepEnough(levels, size) == levels # <<>> /\ Walk(levels, size).left = 0

MarketBuy(book, size) ==
    LET fill == Filled(book.asks, size) IN
    IF /\ DeepEnough(book.asks, size)
       /\ fill.num * Whole <= book.asks[1].price * (Whole + MaxSlippage) * fill.den
    THEN fill ELSE Unfilled

MarketSellAtAnyPrice(book, size) ==                        \* mutant
    IF DeepEnough(book.bids, size) THEN Filled(book.bids, size) ELSE Unfilled

MarketSell(book, size) ==
    LET fill == Filled(book.bids, size) IN
    IF /\ DeepEnough(book.bids, size)
       /\ fill.num * Whole >= book.bids[1].price * (Whole - MaxSlippage) * fill.den
    THEN fill ELSE Unfilled

LimitBuyAlways(book, limit) == book.asks # <<>>            \* mutant

(* A maker order fills at its limit, whole, or not at all. *)
LimitBuyFills(book, limit) ==
    /\ book.asks # <<>>
    /\ book.asks[1].price * Whole <= limit * (Whole + FillTolerance)

LimitSellFills(book, limit) ==
    /\ book.bids # <<>>
    /\ book.bids[1].price * Whole >= limit * (Whole - FillTolerance)
=============================================================================
