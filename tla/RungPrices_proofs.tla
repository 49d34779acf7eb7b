-------------------------- MODULE RungPrices_proofs --------------------------
(***************************************************************************)
(* The dry run for every book, every tolerance and every size.  First what *)
(* the best levels alone decide; then the walk of a market order down the  *)
(* levels, of which everything is shown by induction over the levels it    *)
(* has taken; then what that makes of two orders of different size, and of *)
(* the sale of a rung.                                                     *)
(***************************************************************************)
EXTENDS RungPrices, WellFoundedInduction, TLAPS

-----------------------------------------------------------------------------
(* The inductive invariant *)

Book == [bids : Bids, asks : Asks]

Answer == {Unfilled} \cup {MarketSell(b, RungSize) : b \in Book}

Rung == [state : RungState, spot : Nat, limit : Nat,
         reason : ExitReason \cup {"none"}, exit : Answer]

Shape ==
    /\ book \in Book
    /\ Uncrossed(book.bids, book.asks)
    /\ aged \in BOOLEAN
    /\ rung \in Rung
    /\ rung.limit # 0 <=> rung.state # "none"
    /\ rung.reason \in ExitReason <=> rung.state = "closed"
    /\ rung.exit.filled <=> rung.state = "closed"

(* The limit of a rung is above zero, however deep it is. *)
LEMMA LimitPriceType ==
    ASSUME NEW s \in Spots, NEW i \in 1..Levels
    PROVE  LimitPrice(s, i) \in Nat \ {0}
<1> DEFINE whole == Whole * Levels
           off == DeepestPct * i
           a == s * (whole - off)
<1>1. /\ Whole \in Nat \ {0} /\ Levels \in Nat \ {0} /\ s \in Nat \ {0} /\ i \in Nat \ {0}
      /\ i <= Levels /\ DeepestPct \in Nat \ {0} /\ 2 * DeepestPct <= Whole
  BY SimulatorAssumption, RungPricesAssumption
<1>2. whole \in Nat /\ off \in Nat /\ off < whole
  <2>1. off <= DeepestPct * Levels /\ off \in Nat /\ DeepestPct * Levels \in Nat
    BY <1>1
  <2>2. DeepestPct * Levels < Whole * Levels /\ Whole * Levels \in Nat
    BY <1>1
  <2> QED BY <2>1, <2>2
<1>3. a \in Nat \ {0} /\ a % whole = 0
  <2>1. a % whole = 0
    BY RungPricesAssumption
  <2> HIDE DEF whole, off
  <2>2. a \in Nat \ {0}
    BY <1>1, <1>2
  <2> QED BY <2>1, <2>2 DEF whole, off
<1>4. a \div whole \in Nat \ {0}
  <2> HIDE DEF a, whole, off
  <2>1. whole \in Nat \ {0}
    BY <1>2
  <2>2. a = whole * (a \div whole) + (a % whole) /\ a \div whole \in Nat
    BY <1>3, <2>1
  <2>3. a \div whole # 0
    BY <1>3, <2>1, <2>2
  <2> QED BY <2>2, <2>3
<1> QED
  BY <1>4 DEF LimitPrice

LEMMA ShapeInit == Init => Shape
<1> SUFFICES ASSUME Init PROVE Shape
  OBVIOUS
<1>1. <<>> \in Sides
  <2>1. 0 \in 0..MaxLevels
    BY RungPricesAssumption
  <2>2. <<>> \in [1..0 -> Level(Price, LevelSize)]
    OBVIOUS
  <2> QED BY <2>1, <2>2 DEF Sides, SeqOf
<1>2. <<>> \in Bids /\ <<>> \in Asks
  BY <1>1 DEF Bids, Asks
<1> QED
  BY <1>2 DEF Init, Shape, Book, Uncrossed, NoRung, Rung, RungState, ExitReason, Answer, Unfilled

LEMMA ShapeStep == Shape /\ [Next]_vars => Shape'
<1> SUFFICES ASSUME Shape, [Next]_vars PROVE Shape'
  OBVIOUS
<1>1. /\ book \in Book /\ rung \in Rung /\ aged \in BOOLEAN
      /\ Unfilled \in Answer /\ ~Unfilled.filled
  BY DEF Shape, Answer, Unfilled
<1>2. CASE QuoteBids \/ QuoteAsks
  BY <1>1, <1>2 DEF QuoteBids, QuoteAsks, Shape, Book
<1>3. CASE HoldTimePasses \/ UNCHANGED vars
  BY <1>1, <1>3 DEF HoldTimePasses, vars, Shape
<1>4. ASSUME NEW s \in Spots, NEW i \in 1..Levels, PlaceRung(s, i)
      PROVE  Shape'
  <2> DEFINE limit == LimitPrice(s, i)
  <2>1. limit \in Nat \ {0} /\ s \in Nat
    BY LimitPriceType, RungPricesAssumption
  <2>2. rung' = [NoRung EXCEPT !.state = "pending", !.spot = s, !.limit = limit]
        /\ UNCHANGED <<book, aged>>
    BY <1>4 DEF PlaceRung
  <2> HIDE DEF limit
  <2>3. rung' = [state |-> "pending", spot |-> s, limit |-> limit, reason |-> "none",
                 exit |-> Unfilled]
    BY <2>2 DEF NoRung
  <2>4. rung' \in Rung
    BY <1>1, <2>1, <2>3 DEF Rung, RungState
  <2>5. /\ rung'.limit # 0 /\ rung'.state = "pending"
        /\ rung'.reason = "none" /\ ~rung'.exit.filled
    BY <1>1, <2>1, <2>3
  <2> QED BY <1>1, <2>2, <2>4, <2>5 DEF Shape, ExitReason
<1>5. CASE FillRung
  <2>1. rung' = [rung EXCEPT !.state = "open"] /\ rung.state = "pending" /\ aged' = FALSE
        /\ UNCHANGED book
    BY <1>5 DEF FillRung
  <2> QED BY <1>1, <2>1 DEF Shape, Rung, RungState
<1>6. CASE \E weak \in BOOLEAN : WithdrawRung(weak)
  <2>1. rung' = NoRung /\ UNCHANGED <<book, aged>>
    BY <1>6 DEF WithdrawRung
  <2>2. NoRung \in Rung
    BY <1>1 DEF NoRung, Rung, RungState
  <2> QED BY <1>1, <2>1, <2>2 DEF Shape, NoRung, ExitReason
<1>7. ASSUME NEW reason \in ExitReason, SellRung(reason)
      PROVE  Shape'
  <2> DEFINE answer == MarketSell(book, RungSize)
  <2>1. answer \in Answer /\ answer.filled
    BY <1>1, <1>7 DEF Answer, SellRung
  <2>2. rung' = [rung EXCEPT !.state = "closed", !.reason = reason, !.exit = answer]
        /\ rung.state = "open" /\ UNCHANGED <<book, aged>>
    BY <1>7 DEF SellRung
  <2> HIDE DEF answer
  <2> QED BY <1>1, <2>1, <2>2 DEF Shape, Rung, RungState
<1> QED
  BY <1>2, <1>3, <1>4, <1>5, <1>6, <1>7 DEF Next

LEMMA ShapeHolds == Spec => []Shape
<1>1. Init => Shape
  BY ShapeInit
<1>2. Shape /\ [Next]_vars => Shape'
  BY ShapeStep
<1> QED
  BY <1>1, <1>2, PTL DEF Spec

(* The rung's prices, states and answers are of their types throughout. *)
THEOREM TypeCorrect == Spec => []TypeOK
<1>1. Shape => TypeOK
  BY DEF Shape, TypeOK, Book, Rung
<1> QED
  BY <1>1, ShapeHolds, PTL

-----------------------------------------------------------------------------
(* The two sides of one snapshot *)

LEMMA TopOfBook ==
    ASSUME Shape, book.bids # <<>>, book.asks # <<>>
    PROVE  /\ book.bids[1].price \in Nat \ {0} /\ book.asks[1].price \in Nat \ {0}
           /\ book.bids[1].price < book.asks[1].price
<1>1. ASSUME NEW levels \in Sides, levels # <<>>
      PROVE  levels[1].price \in Nat \ {0}
  <2>1. PICK m \in 0..MaxLevels : levels \in [1..m -> Level(Price, LevelSize)]
    BY DEF Sides, SeqOf
  <2>2. 1 \in 1..m
    BY <1>1, <2>1, RungPricesAssumption
  <2>3. levels[1] \in [price : Price, size : LevelSize]
    BY <2>1, <2>2 DEF Level
  <2> QED BY <2>3, RungPricesAssumption
<1>2. book.bids \in Sides /\ book.asks \in Sides
  BY DEF Shape, Book, Bids, Asks
<1> QED
  BY <1>1, <1>2 DEF Shape, Uncrossed

(* Two bounds on the same price, scaled by the same amount. *)
LEMMA Between ==
    ASSUME NEW bid \in Nat, NEW ask \in Nat, bid < ask, NEW w \in Nat \ {0},
           NEW x \in Int, NEW y \in Int, bid * w >= x, ask * w <= y
    PROVE  x < y
<1>1. bid * w < ask * w /\ bid * w \in Nat /\ ask * w \in Nat
  OBVIOUS
<1> QED
  BY <1>1

(***************************************************************************)
(* What one snapshot buys and sells as a maker lies no further apart than  *)
(* the two tolerances: the dry run offers no spread to earn.               *)
(***************************************************************************)
THEOREM NoSpreadToEarn == Spec => []NoPaperSpread
<1>1. ASSUME Shape PROVE NoPaperSpread
  <2> SUFFICES ASSUME NEW buy \in Price, NEW sell \in Price,
                      LimitBuyFills(book, buy), LimitSellFills(book, sell)
               PROVE  sell * (Whole - FillTolerance) < buy * (Whole + FillTolerance)
    BY DEF NoPaperSpread
  <2> DEFINE x == sell * (Whole - FillTolerance)
             y == buy * (Whole + FillTolerance)
             bid == book.bids[1].price
             ask == book.asks[1].price
  <2>1. bid \in Nat /\ ask \in Nat /\ bid < ask
    BY <1>1, TopOfBook DEF LimitBuyFills, LimitSellFills
  <2>2. x \in Int /\ y \in Int /\ Whole \in Nat \ {0}
    BY SimulatorAssumption, RungPricesAssumption
  <2>3. bid * Whole >= x /\ ask * Whole <= y
    BY DEF LimitBuyFills, LimitSellFills
  <2> HIDE DEF x, y, bid, ask
  <2>4. x < y
    BY <2>1, <2>2, <2>3, Between
  <2> QED BY <2>4 DEF x, y
<1> QED
  BY <1>1, ShapeHolds, PTL

(***************************************************************************)
(* A rung is never due for its profit on the book that filled it, as long  *)
(* as the profit asked for is no less than the tolerance of the fill: by   *)
(* default 1.2 % against 0.05 %.                                           *)
(***************************************************************************)
THEOREM NoGiftAtTheFill ==
    ASSUME FillTolerance <= TakeProfitPct
    PROVE  Spec => FillIsNoGift
<1>1. ASSUME Shape, FillRung, book.bids # <<>>, AtTakeProfit
      PROVE  FALSE
  <2> DEFINE x == rung.limit * (Whole + TakeProfitPct)
             y == rung.limit * (Whole + FillTolerance)
             bid == book.bids[1].price
             ask == book.asks[1].price
  <2>1. bid \in Nat /\ ask \in Nat /\ bid < ask
    BY <1>1, TopOfBook DEF FillRung, LimitBuyFills
  <2>2. rung.limit \in Nat /\ Whole \in Nat \ {0} /\ FillTolerance \in Nat
        /\ TakeProfitPct \in Nat
    BY <1>1, SimulatorAssumption, RungPricesAssumption DEF Shape, Rung
  <2>3. x \in Int /\ y \in Int /\ y <= x
    <3> DEFINE l == rung.limit
               a == Whole + FillTolerance
               b == Whole + TakeProfitPct
    <3>1. l \in Nat /\ a \in Nat /\ b \in Nat /\ a <= b
      BY <2>2
    <3> HIDE DEF l, a, b
    <3>2. l * a \in Int /\ l * b \in Int /\ l * a <= l * b
      BY <3>1
    <3> QED BY <3>2 DEF l, a, b
  <2>4. bid * Whole >= x /\ ask * Whole <= y
    BY <1>1 DEF AtTakeProfit, FillRung, LimitBuyFills
  <2> HIDE DEF x, y, bid, ask
  <2>5. x < y
    BY <2>1, <2>2, <2>3, <2>4, Between
  <2> QED BY <2>3, <2>5
<1>2. ASSUME Shape, [Next]_vars, rung.state = "pending", rung'.state = "open"
      PROVE  FillRung
  <2>1. NoRung.state = "none" /\ rung \in Rung
    BY <1>2 DEF NoRung, Shape
  <2>2. ~HoldTimePasses /\ ~UNCHANGED vars /\ ~QuoteBids /\ ~QuoteAsks
    BY <1>2 DEF HoldTimePasses, vars, QuoteBids, QuoteAsks
  <2>3. \A s, i : ~PlaceRung(s, i)
    BY <1>2 DEF PlaceRung
  <2>4. \A weak : ~WithdrawRung(weak)
    BY <1>2, <2>1 DEF WithdrawRung
  <2>5. \A reason : ~SellRung(reason)
    BY <1>2 DEF SellRung
  <2> QED BY <1>2, <2>2, <2>3, <2>4, <2>5 DEF Next
<1>3. Shape /\ [Next]_vars =>
         [rung.state = "pending" /\ rung'.state = "open" /\ book.bids # <<>>
             => ~AtTakeProfit]_vars
  BY <1>1, <1>2
<1> QED
  BY <1>3, ShapeHolds, PTL DEF Spec, FillIsNoGift

-----------------------------------------------------------------------------
(* Induction over the levels of a book *)

(* Every set of naturals that is not empty has a least element. *)
Below == {pair \in Nat \X Nat : pair[1] < pair[2]}

LEMMA LeastOf ==
    ASSUME NEW S \in SUBSET Nat, S # {}
    PROVE  \E n \in S : \A m \in S : n <= m
<1>1. IsWellFoundedOn(Below, Nat)
  BY NatLessThanWellFounded DEF OpToRel, Below
<1>2. PICK n \in S : \A m \in S : <<m, n>> \notin Below
  BY <1>1, WFMin
<1>3. \A m \in S : ~(m < n)
  BY <1>2 DEF Below
<1> QED
  BY <1>3

(* A set with 0 that a step up to last never leaves holds all up to last. *)
LEMMA StepByStep ==
    ASSUME NEW last \in Nat, NEW S, 0 \in S,
           \A n \in 1..last : n - 1 \in S => n \in S
    PROVE  0..last \subseteq S
<1> SUFFICES ASSUME (0..last) \ S # {} PROVE FALSE
  OBVIOUS
<1>1. PICK n \in (0..last) \ S : \A m \in (0..last) \ S : n <= m
  <2>1. (0..last) \ S \in SUBSET Nat
    OBVIOUS
  <2> QED BY <2>1, LeastOf
<1>2. n \in 1..last /\ n - 1 \in 0..last
  BY <1>1
<1>3. n - 1 \in S
  BY <1>1, <1>2
<1> QED
  BY <1>1, <1>2, <1>3

-----------------------------------------------------------------------------
(* What walking the levels of a side computes *)

Account == [left : Nat, base : Nat, unit : Nat \ {0}]

Start(size) == [left |-> size, base |-> 0, unit |-> 1]

LEMMA SideType ==
    ASSUME NEW levels \in Sides
    PROVE  /\ Len(levels) \in Nat /\ DOMAIN levels = 1..Len(levels)
           /\ levels # <<>> <=> Len(levels) # 0
           /\ \A n \in 1..Len(levels) :
                 levels[n].price \in Nat \ {0} /\ levels[n].size \in Nat \ {0}
<1>1. PICK m \in 0..MaxLevels : levels \in [1..m -> Level(Price, LevelSize)]
  BY DEF Sides, SeqOf
<1>2. m \in Nat /\ levels \in Seq(Level(Price, LevelSize)) /\ Len(levels) = m
  BY <1>1, RungPricesAssumption
<1>3. ASSUME NEW n \in 1..m
      PROVE  levels[n].price \in Nat \ {0} /\ levels[n].size \in Nat \ {0}
  <2>1. levels[n] \in [price : Price, size : LevelSize]
    BY <1>1, <1>2 DEF Level
  <2> QED BY <2>1, RungPricesAssumption
<1>4. DOMAIN levels = 1..m
  BY <1>1
<1>5. levels # <<>> <=> m # 0
  <2>1. m = 0 => levels = <<>>
    BY <1>2
  <2>2. levels = <<>> => m = 0
    BY <1>2
  <2> QED BY <2>1, <2>2
<1> QED
  BY <1>2, <1>3, <1>4, <1>5

(* One level gives what is asked for, up to all it has. *)
LEMMA TakeLevelIs ==
    ASSUME NEW acc \in Account, NEW level, level.price \in Nat \ {0}, level.size \in Nat \ {0}
    PROVE  \E take \in Nat :
              /\ take <= acc.left /\ take <= level.price * level.size
              /\ take = acc.left \/ take = level.price * level.size
              /\ TakeLevel(acc, level) =
                    [left |-> acc.left - take,
                     base |-> acc.base * level.price + take * acc.unit,
                     unit |-> acc.unit * level.price]
              /\ TakeLevel(acc, level) \in Account
<1> DEFINE cap == level.price * level.size
           take == Min({acc.left, cap})
           price == level.price
<1>1. cap \in Nat /\ price \in Nat \ {0}
      /\ acc.left \in Nat /\ acc.base \in Nat /\ acc.unit \in Nat \ {0}
  BY DEF Account
<1>2. take \in Nat /\ take <= acc.left /\ take <= cap /\ (take = acc.left \/ take = cap)
  <2> HIDE DEF cap
  <2>1. CASE acc.left <= cap
    <3>1. acc.left \in {acc.left, cap} /\ \A y \in {acc.left, cap} : acc.left <= y
      BY <1>1, <2>1
    <3>2. take \in {acc.left, cap} /\ \A y \in {acc.left, cap} : take <= y
      BY <3>1 DEF Min
    <3> QED BY <1>1, <3>2
  <2>2. CASE cap <= acc.left
    <3>1. cap \in {acc.left, cap} /\ \A y \in {acc.left, cap} : cap <= y
      BY <1>1, <2>2
    <3>2. take \in {acc.left, cap} /\ \A y \in {acc.left, cap} : take <= y
      BY <3>1 DEF Min
    <3> QED BY <1>1, <3>2
  <2> QED BY <1>1, <2>1, <2>2
<1>3. TakeLevel(acc, level) =
        [left |-> acc.left - take, base |-> acc.base * price + take * acc.unit,
         unit |-> acc.unit * price]
  BY DEF TakeLevel
<1>4. /\ acc.left - take \in Nat /\ acc.base * price + take * acc.unit \in Nat
      /\ acc.unit * price \in Nat \ {0}
  <2> HIDE DEF take, price
  <2> QED BY <1>1, <1>2
<1>5. TakeLevel(acc, level) \in Account
  <2> HIDE DEF take, price
  <2> QED BY <1>3, <1>4 DEF Account
<1> HIDE DEF take
<1> QED
  BY <1>2, <1>3, <1>5

(* The accounts after each of the first steps levels. *)
IsWalk(after, levels, size, steps) ==
    /\ after \in [0..steps -> Account]
    /\ after[0] = Start(size)
    /\ \A n \in 1..steps : after[n] = TakeLevel(after[n - 1], levels[n])

(* The recursion of Walk has a solution, and what it returns is its last. *)
LEMMA WalkIs ==
    ASSUME NEW levels \in Sides, NEW size \in Nat
    PROVE  \E after : /\ IsWalk(after, levels, size, Len(levels))
                      /\ Walk(levels, size) = after[Len(levels)]
<1> DEFINE last == Len(levels)
           Unrolled(after) == [n \in 0..last |-> IF n = 0 THEN Start(size)
                                                 ELSE TakeLevel(after[n - 1], levels[n])]
           Reached == {steps \in 0..last : \E after : IsWalk(after, levels, size, steps)}
<1>1. last \in Nat /\ Start(size) \in Account
  BY SideType DEF Start, Account
<1>2. ASSUME NEW acc \in Account, NEW n \in 1..last
      PROVE  TakeLevel(acc, levels[n]) \in Account
  <2>1. levels[n].price \in Nat \ {0} /\ levels[n].size \in Nat \ {0}
    BY SideType
  <2> QED BY <2>1, TakeLevelIs
<1>3. 0 \in Reached
  <2>1. IsWalk([n \in 0..0 |-> Start(size)], levels, size, 0)
    BY <1>1 DEF IsWalk
  <2> QED BY <1>1, <2>1
<1>4. ASSUME NEW n \in 1..last, n - 1 \in Reached
      PROVE  n \in Reached
  <2>1. PICK after : IsWalk(after, levels, size, n - 1)
    BY <1>4
  <2> DEFINE more == [k \in 0..n |-> IF k = n THEN TakeLevel(after[n - 1], levels[n])
                                     ELSE after[k]]
  <2>2. /\ after \in [0..(n - 1) -> Account] /\ after[0] = Start(size)
        /\ \A k \in 1..(n - 1) : after[k] = TakeLevel(after[k - 1], levels[k])
    BY <2>1 DEF IsWalk
  <2>3. n \in Nat \ {0} /\ n - 1 \in 0..(n - 1) /\ n \in 0..n
    BY <1>1
  <2>4. TakeLevel(after[n - 1], levels[n]) \in Account
    BY <1>2, <2>2, <2>3
  <2>5. more \in [0..n -> Account]
    BY <2>2, <2>3, <2>4
  <2>6. more[0] = Start(size)
    BY <2>2, <2>3
  <2>7. ASSUME NEW k \in 1..n PROVE more[k] = TakeLevel(more[k - 1], levels[k])
    <3>1. k - 1 \in 0..n /\ k \in 0..n /\ k - 1 # n
      BY <2>3
    <3>2. more[k - 1] = after[k - 1]
      BY <3>1
    <3>3. CASE k = n
      BY <3>1, <3>2, <3>3
    <3>4. CASE k # n
      <4>1. k \in 1..(n - 1)
        BY <2>3, <3>4
      <4> QED BY <2>2, <3>1, <3>2, <3>4, <4>1
    <3> QED BY <3>3, <3>4
  <2> HIDE DEF more
  <2>8. IsWalk(more, levels, size, n)
    BY <2>5, <2>6, <2>7 DEF IsWalk
  <2> QED BY <1>1, <2>8
<1>5. PICK after : IsWalk(after, levels, size, last)
  <2> HIDE DEF Reached
  <2>1. 0..last \subseteq Reached
    BY <1>1, <1>3, <1>4, StepByStep
  <2> QED BY <1>1, <2>1 DEF Reached
<1>6. after = Unrolled(after)
  <2>1. after \in [0..last -> Account] /\ after[0] = Start(size)
        /\ \A n \in 1..last : after[n] = TakeLevel(after[n - 1], levels[n])
    BY <1>5 DEF IsWalk
  <2>2. ASSUME NEW n \in 0..last PROVE after[n] = Unrolled(after)[n]
    BY <1>1, <2>1
  <2>3. DOMAIN after = 0..last /\ DOMAIN Unrolled(after) = 0..last
    BY <2>1
  <2>4. after = [n \in 0..last |-> after[n]]
    BY <2>1
  <2> QED BY <2>2, <2>4
<1>7. PICK walk : walk = Unrolled(walk) /\ Walk(levels, size) = walk[last]
  <2>1. Walk(levels, size) = (CHOOSE walk : walk = Unrolled(walk))[last]
    BY DEF Walk, Start
  <2> QED BY <1>6, <2>1
<1>8. /\ walk[0] = Start(size)
      /\ \A n \in 1..last : walk[n] = TakeLevel(walk[n - 1], levels[n])
      /\ walk = [n \in 0..last |-> walk[n]]
  BY <1>1, <1>7
<1>9. \A n \in 0..last : walk[n] \in Account
  <2> DEFINE Typed == {n \in 0..last : walk[n] \in Account}
  <2>1. 0 \in Typed
    BY <1>1, <1>8
  <2>2. ASSUME NEW n \in 1..last, n - 1 \in Typed
        PROVE  n \in Typed
    <3>1. walk[n - 1] \in Account /\ n \in 0..last
      BY <1>1, <2>2
    <3> QED BY <1>2, <1>8, <3>1
  <2> HIDE DEF Typed
  <2>3. 0..last \subseteq Typed
    BY <1>1, <2>1, <2>2, StepByStep
  <2> QED BY <2>3 DEF Typed
<1>10. IsWalk(walk, levels, size, last)
  <2>1. walk \in [0..last -> Account]
    BY <1>8, <1>9
  <2> QED BY <1>8, <2>1 DEF IsWalk
<1> QED
  BY <1>7, <1>10

-----------------------------------------------------------------------------
(* What a walk pays: one argument for both sides of the book *)

(* x is no worse than y to who comes first there: a bidder pays more. *)
NoWorse(side, x, y) == IF side = "bids" THEN x >= y ELSE x <= y

LEMMA NoWorseScaled ==
    ASSUME NEW side, NEW k \in Nat, NEW x \in Nat, NEW y \in Nat, NoWorse(side, x, y)
    PROVE  NoWorse(side, k * x, k * y) /\ k * x \in Nat /\ k * y \in Nat
<1>1. x >= y => k * x >= k * y
  OBVIOUS
<1>2. x <= y => k * x <= k * y
  OBVIOUS
<1> QED
  BY <1>1, <1>2 DEF NoWorse

LEMMA NoWorseAdded ==
    ASSUME NEW side, NEW x \in Nat, NEW y \in Nat, NEW v \in Nat, NEW w \in Nat,
           NoWorse(side, x, y), NoWorse(side, v, w)
    PROVE  NoWorse(side, x + v, y + w)
  BY DEF NoWorse

(***************************************************************************)
(* One level more, in numbers.  Of spent dollars a walk has base / unit    *)
(* in base; at this price it spends take more.                             *)
(***************************************************************************)
LEMMA NeverBeatsTheBest ==
    ASSUME NEW side, NEW best \in Nat, NEW price \in Nat, NEW spent \in Nat,
           NEW base \in Nat, NEW unit \in Nat, NEW take \in Nat,
           NoWorse(side, best, price),
           NoWorse(side, best * base, spent * unit)
    PROVE  NoWorse(side, best * (base * price + take * unit), (spent + take) * (unit * price))
<1> DEFINE x == best * base
           y == spent * unit
           k == take * unit
<1>1. x \in Nat /\ y \in Nat /\ k \in Nat
  OBVIOUS
<1>2. best * (base * price + take * unit) = price * x + k * best
  OBVIOUS
<1>3. (spent + take) * (unit * price) = price * y + k * price
  OBVIOUS
<1> HIDE DEF x, y, k
<1>4. NoWorse(side, x, y)
  BY DEF x, y
<1>5. NoWorse(side, price * x, price * y) /\ price * x \in Nat /\ price * y \in Nat
  BY <1>1, <1>4, NoWorseScaled
<1>6. NoWorse(side, k * best, k * price) /\ k * best \in Nat /\ k * price \in Nat
  BY <1>1, NoWorseScaled
<1>7. NoWorse(side, price * x + k * best, price * y + k * price)
  BY <1>5, <1>6, NoWorseAdded
<1> QED
  BY <1>2, <1>3, <1>7

LEMMA BeatsWhatFollows ==
    ASSUME NEW side, NEW price \in Nat, NEW later \in Nat, NEW spent \in Nat,
           NEW base \in Nat, NEW unit \in Nat, NEW take \in Nat,
           NoWorse(side, price, later),
           NoWorse(side, spent * unit, base * later)
    PROVE  NoWorse(side, (spent + take) * (unit * price), (base * price + take * unit) * later)
<1> DEFINE x == spent * unit
           y == base * later
           k == take * unit
<1>1. x \in Nat /\ y \in Nat /\ k \in Nat
  OBVIOUS
<1>2. (spent + take) * (unit * price) = price * x + k * price
  OBVIOUS
<1>3. (base * price + take * unit) * later = price * y + k * later
  OBVIOUS
<1> HIDE DEF x, y, k
<1>4. NoWorse(side, x, y)
  BY DEF x, y
<1>5. NoWorse(side, price * x, price * y) /\ price * x \in Nat /\ price * y \in Nat
  BY <1>1, <1>4, NoWorseScaled
<1>6. NoWorse(side, k * price, k * later) /\ k * price \in Nat /\ k * later \in Nat
  BY <1>1, NoWorseScaled
<1>7. NoWorse(side, price * x + k * price, price * y + k * later)
  BY <1>5, <1>6, NoWorseAdded
<1> QED
  BY <1>2, <1>3, <1>7

(* Two walks that were one until here, of which the second takes more. *)
LEMMA MoreOfTheSame ==
    ASSUME NEW side, NEW price \in Nat, NEW spent \in Nat, NEW base \in Nat,
           NEW unit \in Nat, NEW few \in Nat, NEW many \in Nat, few <= many,
           NoWorse(side, spent * unit, base * price)
    PROVE  NoWorse(side, (spent + few) * (base * price + many * unit),
                         (spent + many) * (base * price + few * unit))
<1> DEFINE x == spent * unit
           y == base * price
           more == many - few
           both == spent * y + few * y + few * x + few * (many * unit)
<1>1. x \in Nat /\ y \in Nat /\ more \in Nat
  OBVIOUS
<1>2. both \in Nat
  <2>1. spent * y \in Nat /\ few * y \in Nat /\ few * x \in Nat /\ few * (many * unit) \in Nat
    OBVIOUS
  <2> QED BY <2>1
<1>3. (spent + few) * (base * price + many * unit) = both + more * x
  OBVIOUS
<1>4. (spent + many) * (base * price + few * unit) = both + more * y
  OBVIOUS
<1> HIDE DEF x, y, more, both
<1>5. NoWorse(side, x, y)
  BY DEF x, y
<1>6. NoWorse(side, more * x, more * y) /\ more * x \in Nat /\ more * y \in Nat
  BY <1>1, <1>5, NoWorseScaled
<1>7. NoWorse(side, both, both)
  BY <1>2 DEF NoWorse
<1>8. NoWorse(side, both + more * x, both + more * y)
  BY <1>2, <1>6, <1>7, NoWorseAdded
<1> QED
  BY <1>3, <1>4, <1>8

(* Two walks of which the first has had enough. *)
LEMMA MoreThanEnough ==
    ASSUME NEW side, NEW price \in Nat, NEW spent1 \in Nat, NEW base1 \in Nat,
           NEW spent2 \in Nat, NEW base2 \in Nat, NEW unit \in Nat, NEW take \in Nat,
           NoWorse(side, spent1 * unit, base1 * price),
           NoWorse(side, spent1 * base2, spent2 * base1)
    PROVE  NoWorse(side, spent1 * (base2 * price + take * unit),
                         (spent2 + take) * (base1 * price))
<1> DEFINE x == spent1 * unit
           y == base1 * price
           v == spent1 * base2
           w == spent2 * base1
<1>1. x \in Nat /\ y \in Nat /\ v \in Nat /\ w \in Nat
  OBVIOUS
<1>2. spent1 * (base2 * price + take * unit) = price * v + take * x
  OBVIOUS
<1>3. (spent2 + take) * (base1 * price) = price * w + take * y
  OBVIOUS
<1> HIDE DEF x, y, v, w
<1>4. NoWorse(side, x, y) /\ NoWorse(side, v, w)
  BY DEF x, y, v, w
<1>5. NoWorse(side, price * v, price * w) /\ price * v \in Nat /\ price * w \in Nat
  BY <1>1, <1>4, NoWorseScaled
<1>6. NoWorse(side, take * x, take * y) /\ take * x \in Nat /\ take * y \in Nat
  BY <1>1, <1>4, NoWorseScaled
<1>7. NoWorse(side, price * v + take * x, price * w + take * y)
  BY <1>5, <1>6, NoWorseAdded
<1> QED
  BY <1>2, <1>3, <1>7

-----------------------------------------------------------------------------
(* The walks themselves *)

IsSide(side, levels) ==
    /\ levels \in Sides
    /\ \A i, j \in 1..Len(levels) : i < j => NoWorse(side, levels[i].price, levels[j].price)

Spent(size, acc) == size - acc.left

(* The average so far lies between the best price and those to follow. *)
Fair(side, levels, size, acc, n) ==
    /\ acc \in Account /\ acc.left <= size
    /\ Spent(size, acc) > 0 => acc.base > 0
    /\ NoWorse(side, levels[1].price * acc.base, Spent(size, acc) * acc.unit)
    /\ \A later \in Nat :
          (\A i \in 1..n : NoWorse(side, levels[i].price, later))
             => NoWorse(side, Spent(size, acc) * acc.unit, acc.base * later)

LEMMA SpentType ==
    ASSUME NEW size \in Nat, NEW acc \in Account, acc.left <= size
    PROVE  /\ Spent(size, acc) \in Nat
           /\ acc.left \in Nat /\ acc.base \in Nat /\ acc.unit \in Nat \ {0}
  BY DEF Spent, Account

LEMMA StartIsFair ==
    ASSUME NEW side, NEW levels, NEW size \in Nat, levels[1].price \in Nat
    PROVE  Fair(side, levels, size, Start(size), 0)
<1>1. /\ Start(size).left = size /\ Start(size).base = 0 /\ Start(size).unit = 1
      /\ Start(size) \in Account
  BY DEF Start, Account
<1>2. Spent(size, Start(size)) = 0
  BY <1>1 DEF Spent
<1>3. levels[1].price * 0 = 0 /\ 0 * 1 = 0 /\ \A later \in Nat : 0 * later = 0
  OBVIOUS
<1>4. NoWorse(side, 0, 0)
  BY DEF NoWorse
<1> QED
  BY <1>1, <1>2, <1>3, <1>4 DEF Fair

LEMMA FairStep ==
    ASSUME NEW side, NEW levels, IsSide(side, levels), NEW size \in Nat, NEW acc,
           NEW n \in 1..Len(levels), Fair(side, levels, size, acc, n - 1)
    PROVE  Fair(side, levels, size, TakeLevel(acc, levels[n]), n)
<1> DEFINE best == levels[1].price
           price == levels[n].price
           left == acc.left
           base == acc.base
           unit == acc.unit
           spent == Spent(size, acc)
           new == TakeLevel(acc, levels[n])
<1>1. levels \in Sides /\ Len(levels) \in Nat /\ 1 \in 1..Len(levels) /\ n \in Nat \ {0}
  BY SideType DEF IsSide
<1>2. /\ levels[n].price \in Nat \ {0} /\ levels[n].size \in Nat \ {0}
      /\ best \in Nat \ {0}
  BY <1>1, SideType
<1>3. acc \in Account /\ left <= size
  BY DEF Fair
<1>4. spent \in Nat /\ left \in Nat /\ base \in Nat /\ unit \in Nat \ {0} /\ spent = size - left
  BY <1>3, SpentType DEF Spent
<1>5. PICK take \in Nat :
        /\ take <= left
        /\ new = [left |-> left - take, base |-> base * price + take * unit,
                  unit |-> unit * price]
        /\ new \in Account
  BY <1>2, <1>3, TakeLevelIs
<1>6. /\ new.left = left - take /\ new.base = base * price + take * unit
      /\ new.unit = unit * price
  BY <1>5
<1>7. new.left <= size /\ Spent(size, new) = spent + take
  <2> HIDE DEF new, left, spent
  <2> QED BY <1>3, <1>4, <1>5, <1>6 DEF Spent
<1>8. spent + take > 0 => new.base > 0
  <2>1. spent > 0 => base > 0
    BY DEF Fair
  <2>2. price \in Nat \ {0}
    BY <1>2
  <2> HIDE DEF new, left, spent, base, unit, price
  <2>3. base > 0 => base * price > 0
    BY <1>4, <2>2
  <2>4. take > 0 => take * unit > 0
    BY <1>4, <1>5
  <2>5. base * price \in Nat /\ take * unit \in Nat
    BY <1>4, <1>5, <2>2
  <2> QED BY <1>4, <1>5, <1>6, <2>1, <2>3, <2>4, <2>5
<1>9. NoWorse(side, best * new.base, (spent + take) * new.unit)
  <2>1. NoWorse(side, best, price)
    <3>1. CASE n = 1
      BY <1>2, <3>1 DEF NoWorse
    <3>2. CASE n # 1
      BY <1>1, <3>2 DEF IsSide
    <3> QED BY <3>1, <3>2
  <2>2. NoWorse(side, best * base, spent * unit)
    BY DEF Fair
  <2> HIDE DEF new, left, spent, base, unit, price, best
  <2>3. price \in Nat
    BY <1>2 DEF price
  <2>4. NoWorse(side, best * (base * price + take * unit), (spent + take) * (unit * price))
    BY <1>2, <1>4, <1>5, <2>1, <2>2, <2>3, NeverBeatsTheBest
  <2> QED BY <1>6, <2>4
<1>10. ASSUME NEW later \in Nat, \A i \in 1..n : NoWorse(side, levels[i].price, later)
       PROVE  NoWorse(side, (spent + take) * new.unit, new.base * later)
  <2>1. NoWorse(side, price, later)
    BY <1>1, <1>10
  <2>2. \A i \in 1..(n - 1) : NoWorse(side, levels[i].price, later)
    BY <1>1, <1>10
  <2>3. NoWorse(side, spent * unit, base * later)
    BY <2>2 DEF Fair
  <2> HIDE DEF new, left, spent, base, unit, price, best
  <2>4. price \in Nat
    BY <1>2 DEF price
  <2>5. NoWorse(side, (spent + take) * (unit * price), (base * price + take * unit) * later)
    BY <1>4, <1>5, <2>1, <2>3, <2>4, BeatsWhatFollows
  <2> QED BY <1>6, <2>5
<1> HIDE DEF new, spent, left, base, unit, price
<1>11. Fair(side, levels, size, new, n)
  <2>1. best * new.base = levels[1].price * new.base
    OBVIOUS
  <2> HIDE DEF best
  <2> QED BY <1>5, <1>7, <1>8, <1>9, <1>10, <2>1 DEF Fair
<1> QED
  BY <1>11 DEF new

LEMMA WalkIsFair ==
    ASSUME NEW side, NEW levels, IsSide(side, levels), levels # <<>>, NEW size \in Nat,
           NEW after, IsWalk(after, levels, size, Len(levels))
    PROVE  \A n \in 0..Len(levels) : Fair(side, levels, size, after[n], n)
<1> DEFINE last == Len(levels)
           Done == {n \in 0..last : Fair(side, levels, size, after[n], n)}
<1>1. last \in Nat \ {0} /\ levels[1].price \in Nat
  <2>1. levels \in Sides
    BY DEF IsSide
  <2>2. last \in Nat /\ last # 0
    BY <2>1, SideType
  <2>3. 1 \in 1..last
    BY <2>2
  <2> QED BY <2>1, <2>2, <2>3, SideType
<1>2. 0 \in Done
  BY <1>1, StartIsFair DEF IsWalk
<1>3. ASSUME NEW n \in 1..last, n - 1 \in Done
      PROVE  n \in Done
  <2>1. after[n] = TakeLevel(after[n - 1], levels[n]) /\ n \in 0..last
    BY <1>1 DEF IsWalk
  <2> QED BY <1>3, <2>1, FairStep
<1> HIDE DEF Done
<1>4. 0..last \subseteq Done
  BY <1>1, <1>2, <1>3, StepByStep
<1> QED
  BY <1>4 DEF Done

(***************************************************************************)
(* A small walk beside a large one down the same levels: they are one walk *)
(* until the small one is done, and its average is no worse ever after.    *)
(***************************************************************************)
Beside(side, small, large, acc1, acc2) ==
    /\ acc1.unit = acc2.unit
    /\ NoWorse(side, Spent(small, acc1) * acc2.base, Spent(large, acc2) * acc1.base)
    /\ acc1.left > 0 => Spent(small, acc1) = Spent(large, acc2) /\ acc1.base = acc2.base

LEMMA BesideStep ==
    ASSUME NEW side, NEW levels, IsSide(side, levels),
           NEW small \in Nat, NEW large \in Nat, small <= large,
           NEW acc1, NEW acc2, NEW n \in 1..Len(levels),
           Fair(side, levels, small, acc1, n - 1), Fair(side, levels, large, acc2, n - 1),
           Beside(side, small, large, acc1, acc2)
    PROVE  Beside(side, small, large, TakeLevel(acc1, levels[n]), TakeLevel(acc2, levels[n]))
<1> DEFINE price == levels[n].price
           cap == levels[n].price * levels[n].size
           left1 == acc1.left
           base1 == acc1.base
           spent1 == Spent(small, acc1)
           left2 == acc2.left
           base2 == acc2.base
           spent2 == Spent(large, acc2)
           unit == acc1.unit
           new1 == TakeLevel(acc1, levels[n])
           new2 == TakeLevel(acc2, levels[n])
<1>1. levels \in Sides /\ Len(levels) \in Nat /\ n \in Nat \ {0}
  BY SideType DEF IsSide
<1>2. /\ levels[n].price \in Nat \ {0} /\ levels[n].size \in Nat \ {0}
      /\ price \in Nat
  BY <1>1, SideType
<1>3. acc1 \in Account /\ acc2 \in Account /\ left1 <= small /\ left2 <= large
      /\ acc2.unit = unit
  BY DEF Fair, Beside
<1>4. /\ spent1 \in Nat /\ left1 \in Nat /\ base1 \in Nat /\ spent1 = small - left1
      /\ spent2 \in Nat /\ left2 \in Nat /\ base2 \in Nat /\ spent2 = large - left2
      /\ unit \in Nat
  BY <1>3, SpentType DEF Spent
<1>5. PICK take1 \in Nat :
        /\ take1 <= left1 /\ take1 <= cap /\ (take1 = left1 \/ take1 = cap)
        /\ new1 = [left |-> left1 - take1, base |-> base1 * price + take1 * unit,
                   unit |-> unit * price]
  BY <1>2, <1>3, TakeLevelIs
<1>6. PICK take2 \in Nat :
        /\ take2 <= left2 /\ take2 <= cap /\ (take2 = left2 \/ take2 = cap)
        /\ new2 = [left |-> left2 - take2, base |-> base2 * price + take2 * unit,
                   unit |-> unit * price]
  BY <1>2, <1>3, TakeLevelIs
<1>7. /\ new1.left = left1 - take1 /\ new1.base = base1 * price + take1 * unit
      /\ new2.left = left2 - take2 /\ new2.base = base2 * price + take2 * unit
      /\ new1.unit = unit * price /\ new2.unit = unit * price
  BY <1>5, <1>6
<1>8. \A i \in 1..(n - 1) : NoWorse(side, levels[i].price, price)
  BY <1>1 DEF IsSide
<1>9. NoWorse(side, spent1 * unit, base1 * price)
  BY <1>2, <1>8 DEF Fair
<1>10. NoWorse(side, spent1 * base2, spent2 * base1)
  BY DEF Beside
<1>11. left1 > 0 => spent1 = spent2 /\ base1 = base2
  BY DEF Beside
<1>12. cap \in Nat
  BY <1>2
<1> HIDE DEF price, cap, left1, base1, spent1, left2, base2, spent2, unit, new1, new2
<1>13. Spent(small, new1) = spent1 + take1 /\ Spent(large, new2) = spent2 + take2
  BY <1>4, <1>5, <1>6, <1>7 DEF Spent
<1>14. NoWorse(side, (spent1 + take1) * (base2 * price + take2 * unit),
                     (spent2 + take2) * (base1 * price + take1 * unit))
  <2>1. CASE left1 > 0
    <3>1. spent1 = spent2 /\ base1 = base2 /\ take1 <= take2
      BY <1>4, <1>5, <1>6, <1>11, <1>12, <2>1
    <3>2. NoWorse(side, (spent1 + take1) * (base1 * price + take2 * unit),
                        (spent1 + take2) * (base1 * price + take1 * unit))
      BY <1>2, <1>4, <1>5, <1>6, <1>9, <3>1, MoreOfTheSame
    <3> QED BY <3>1, <3>2
  <2>2. CASE left1 = 0
    <3>1. take1 = 0
      BY <1>4, <1>5, <2>2
    <3>2. NoWorse(side, spent1 * (base2 * price + take2 * unit),
                        (spent2 + take2) * (base1 * price))
      BY <1>2, <1>4, <1>6, <1>9, <1>10, MoreThanEnough
    <3>3. spent1 + take1 = spent1 /\ base1 * price + take1 * unit = base1 * price
      BY <1>2, <1>4, <3>1
    <3> QED BY <3>2, <3>3
  <2> QED BY <1>4, <2>1, <2>2
<1>15. new1.left > 0 => /\ spent1 + take1 = spent2 + take2
                        /\ base1 * price + take1 * unit = base2 * price + take2 * unit
  <2> SUFFICES ASSUME new1.left > 0
               PROVE  take1 = take2 /\ spent1 = spent2 /\ base1 = base2
    OBVIOUS
  <2>1. take1 = cap /\ left1 > cap
    BY <1>4, <1>5, <1>7, <1>12
  <2>2. spent1 = spent2 /\ base1 = base2 /\ left1 > 0
    BY <1>4, <1>11, <1>12, <2>1
  <2>3. left2 >= left1
    BY <1>4, <2>2
  <2>4. take2 = cap
    BY <1>4, <1>6, <1>12, <2>1, <2>3
  <2> QED BY <2>1, <2>2, <2>4
<1>16. /\ NoWorse(side, (spent1 + take1) * new2.base, (spent2 + take2) * new1.base)
       /\ new1.left > 0 => spent1 + take1 = spent2 + take2 /\ new1.base = new2.base
       /\ new1.unit = new2.unit
  BY <1>7, <1>14, <1>15
<1> QED
  BY <1>13, <1>16 DEF Beside, new1, new2

LEMMA WalksBeside ==
    ASSUME NEW side, NEW levels, IsSide(side, levels), levels # <<>>,
           NEW small \in Nat, NEW large \in Nat, small <= large,
           NEW after1, IsWalk(after1, levels, small, Len(levels)),
           NEW after2, IsWalk(after2, levels, large, Len(levels))
    PROVE  \A n \in 0..Len(levels) : Beside(side, small, large, after1[n], after2[n])
<1> DEFINE last == Len(levels)
           Done == {n \in 0..last : Beside(side, small, large, after1[n], after2[n])}
<1>1. last \in Nat
  BY SideType DEF IsSide
<1>2. 0 \in Done
  <2>1. after1[0] = Start(small) /\ after2[0] = Start(large)
    BY DEF IsWalk
  <2>2. Beside(side, small, large, Start(small), Start(large))
    BY DEF Beside, Start, Spent, NoWorse
  <2> QED BY <1>1, <2>1, <2>2
<1>3. ASSUME NEW n \in 1..last, n - 1 \in Done
      PROVE  n \in Done
  <2>1. /\ after1[n] = TakeLevel(after1[n - 1], levels[n])
        /\ after2[n] = TakeLevel(after2[n - 1], levels[n])
        /\ n \in 0..last /\ n - 1 \in 0..last
    BY <1>1 DEF IsWalk
  <2>2. Fair(side, levels, small, after1[n - 1], n - 1)
        /\ Fair(side, levels, large, after2[n - 1], n - 1)
    BY <2>1, WalkIsFair
  <2>3. Beside(side, small, large, after1[n - 1], after2[n - 1])
    BY <1>3
  <2> QED BY <2>1, <2>2, <2>3, BesideStep
<1> HIDE DEF Done
<1>4. 0..last \subseteq Done
  BY <1>1, <1>2, <1>3, StepByStep
<1> QED
  BY <1>4 DEF Done

-----------------------------------------------------------------------------
(* What the answers to market orders have in common *)

LEMMA SidesOfBook ==
    ASSUME NEW b \in Book
    PROVE  IsSide("bids", b.bids) /\ IsSide("asks", b.asks)
<1>1. b.bids \in Bids /\ b.asks \in Asks
  BY DEF Book
<1>2. b.bids \in Sides /\ b.asks \in Sides
  BY <1>1 DEF Bids, Asks
<1>3. IsSide("bids", b.bids)
  <2> DEFINE levels == b.bids
  <2>1. \A i, j \in DOMAIN levels : i < j => levels[i].price > levels[j].price
    BY <1>1 DEF Bids
  <2>2. /\ levels \in Sides /\ DOMAIN levels = 1..Len(levels)
        /\ \A n \in 1..Len(levels) : levels[n].price \in Nat
    BY <1>2, SideType
  <2> HIDE DEF levels
  <2>3. IsSide("bids", levels)
    BY <2>1, <2>2 DEF IsSide, NoWorse
  <2> QED BY <2>3 DEF levels
<1>4. IsSide("asks", b.asks)
  <2> DEFINE levels == b.asks
  <2>1. \A i, j \in DOMAIN levels : i < j => levels[i].price < levels[j].price
    BY <1>1 DEF Asks
  <2>2. /\ levels \in Sides /\ DOMAIN levels = 1..Len(levels)
        /\ \A n \in 1..Len(levels) : levels[n].price \in Nat
    BY <1>2, SideType
  <2> HIDE DEF levels
  <2>3. IsSide("asks", levels)
    BY <2>1, <2>2 DEF IsSide, NoWorse
  <2> QED BY <2>3 DEF levels
<1> QED
  BY <1>3, <1>4

(* An order that finds the depth has an average, no better than the best. *)
LEMMA FilledIs ==
    ASSUME NEW side, NEW levels, IsSide(side, levels), NEW size \in Nat \ {0},
           DeepEnough(levels, size)
    PROVE  /\ Filled(levels, size).filled
           /\ Filled(levels, size).num = size * Walk(levels, size).unit
           /\ Filled(levels, size).den = Walk(levels, size).base
           /\ Filled(levels, size).num \in Nat /\ Filled(levels, size).den \in Nat \ {0}
           /\ NoWorse(side, levels[1].price * Filled(levels, size).den,
                            Filled(levels, size).num)
<1> DEFINE walk == Walk(levels, size)
<1>1. levels \in Sides /\ levels # <<>> /\ walk.left = 0 /\ size \in Nat
  BY DEF DeepEnough, IsSide
<1>2. PICK after : IsWalk(after, levels, size, Len(levels)) /\ walk = after[Len(levels)]
  BY <1>1, WalkIs
<1>3. Fair(side, levels, size, walk, Len(levels))
  <2>1. Len(levels) \in 0..Len(levels)
    BY <1>1, SideType
  <2> QED BY <1>1, <1>2, <2>1, WalkIsFair
<1> HIDE DEF walk
<1>4. /\ walk.base \in Nat /\ walk.unit \in Nat \ {0} /\ Spent(size, walk) = size
  BY <1>1, <1>3 DEF Fair, Account, Spent
<1>5. walk.base > 0 /\ NoWorse(side, levels[1].price * walk.base, size * walk.unit)
  BY <1>3, <1>4 DEF Fair
<1>6. Max({walk.base, 1}) = walk.base
  <2>1. walk.base \in {walk.base, 1} /\ \A y \in {walk.base, 1} : walk.base >= y
    BY <1>4, <1>5
  <2>2. Max({walk.base, 1}) \in {walk.base, 1}
        /\ \A y \in {walk.base, 1} : Max({walk.base, 1}) >= y
    BY <2>1 DEF Max
  <2> QED BY <1>4, <1>5, <2>2
<1>7. Filled(levels, size) =
        [filled |-> TRUE, num |-> size * walk.unit, den |-> walk.base]
  BY <1>6 DEF Filled, walk
<1>8. size * walk.unit \in Nat
  BY <1>4
<1>9. /\ Filled(levels, size).filled
      /\ Filled(levels, size).num = size * walk.unit /\ Filled(levels, size).den = walk.base
  BY <1>7
<1>10. walk.base \in Nat \ {0}
  BY <1>4, <1>5
<1> QED
  BY <1>5, <1>8, <1>9, <1>10 DEF walk

(* What is deep enough for an order is so for a smaller one, and costs no more. *)
LEMMA SmallerIsNoWorse ==
    ASSUME NEW side, NEW levels, IsSide(side, levels),
           NEW small \in Nat \ {0}, NEW large \in Nat \ {0}, small <= large,
           DeepEnough(levels, large)
    PROVE  /\ DeepEnough(levels, small)
           /\ NoWorse(side, Filled(levels, small).num * Filled(levels, large).den,
                            Filled(levels, large).num * Filled(levels, small).den)
<1> DEFINE last == Len(levels)
           walk1 == Walk(levels, small)
           walk2 == Walk(levels, large)
<1>1. levels \in Sides /\ levels # <<>> /\ walk2.left = 0 /\ small \in Nat /\ large \in Nat
  BY DEF DeepEnough, IsSide
<1>2. PICK after1 : IsWalk(after1, levels, small, last) /\ walk1 = after1[last]
  BY <1>1, WalkIs
<1>3. PICK after2 : IsWalk(after2, levels, large, last) /\ walk2 = after2[last]
  BY <1>1, WalkIs
<1>4. last \in 0..last
  BY <1>1, SideType
<1>5. Beside(side, small, large, walk1, walk2)
  BY <1>1, <1>2, <1>3, <1>4, WalksBeside
<1>6. Fair(side, levels, small, walk1, last) /\ Fair(side, levels, large, walk2, last)
  BY <1>1, <1>2, <1>3, <1>4, WalkIsFair
<1>7. walk1.left = 0
  <2> HIDE DEF walk1, walk2
  <2>1. walk1.left \in Nat /\ walk1.left <= small
    BY <1>6 DEF Fair, Account
  <2>2. walk1.left > 0 => small - walk1.left = large - 0
    BY <1>1, <1>5 DEF Beside, Spent
  <2> QED BY <1>1, <2>1, <2>2
<1>8. DeepEnough(levels, small)
  BY <1>1, <1>7 DEF DeepEnough
<1>9. /\ Filled(levels, small).num = small * walk1.unit
      /\ Filled(levels, small).den = walk1.base
      /\ Filled(levels, large).num = large * walk2.unit
      /\ Filled(levels, large).den = walk2.base
  BY <1>8, FilledIs
<1> HIDE DEF walk1, walk2, last
<1>10. /\ walk1.base \in Nat /\ walk2.base \in Nat /\ walk1.unit \in Nat
       /\ walk2.unit = walk1.unit
       /\ Spent(small, walk1) = small /\ Spent(large, walk2) = large
  BY <1>1, <1>5, <1>6, <1>7 DEF Beside, Fair, Account, Spent
<1>11. NoWorse(side, small * walk2.base, large * walk1.base)
  BY <1>5, <1>10 DEF Beside
<1>12. NoWorse(side, (small * walk1.unit) * walk2.base, (large * walk1.unit) * walk1.base)
  <2> DEFINE x == small * walk2.base
             y == large * walk1.base
  <2>1. x \in Nat /\ y \in Nat
    BY <1>10
  <2>2. NoWorse(side, walk1.unit * x, walk1.unit * y)
    <3> HIDE DEF x, y
    <3>1. NoWorse(side, x, y)
      BY <1>11 DEF x, y
    <3> QED BY <1>10, <2>1, <3>1, NoWorseScaled
  <2>3. /\ walk1.unit * x = (small * walk1.unit) * walk2.base
        /\ walk1.unit * y = (large * walk1.unit) * walk1.base
    BY <1>10
  <2> QED BY <2>2, <2>3
<1> QED
  BY <1>8, <1>9, <1>10, <1>12

(* A bound on a price holds of any price that is no worse. *)
LEMMA BoundCarriesOver ==
    ASSUME NEW side, NEW num1 \in Nat, NEW den1 \in Nat, NEW num2 \in Nat,
           NEW den2 \in Nat \ {0}, NEW scale \in Nat, NEW bound \in Nat,
           NoWorse(side, num1 * den2, num2 * den1),
           NoWorse(side, num2 * scale, bound * den2)
    PROVE  NoWorse(side, num1 * scale, bound * den1)
<1> DEFINE a == num1 * den2
           b == num2 * den1
           c == num2 * scale
           d == bound * den2
           x == num1 * scale
           y == bound * den1
<1>1. a \in Nat /\ b \in Nat /\ c \in Nat /\ d \in Nat /\ x \in Nat /\ y \in Nat
  OBVIOUS
<1>2. den2 * x = scale * a /\ scale * b = den1 * c /\ den1 * d = den2 * y
  OBVIOUS
<1> HIDE DEF a, b, c, d, x, y
<1>3. NoWorse(side, a, b) /\ NoWorse(side, c, d)
  BY DEF a, b, c, d
<1>4. NoWorse(side, scale * a, scale * b) /\ NoWorse(side, den1 * c, den1 * d)
      /\ scale * a \in Nat /\ scale * b \in Nat /\ den1 * c \in Nat /\ den1 * d \in Nat
  BY <1>1, <1>3, NoWorseScaled
<1>5. NoWorse(side, den2 * x, den2 * y)
  BY <1>2, <1>4 DEF NoWorse
<1>6. NoWorse(side, x, y)
  <2>1. x < y => den2 * x < den2 * y
    BY <1>1
  <2>2. x > y => den2 * x > den2 * y
    BY <1>1
  <2>3. den2 * x \in Nat /\ den2 * y \in Nat
    BY <1>1
  <2> QED BY <1>1, <1>5, <2>1, <2>2, <2>3 DEF NoWorse
<1> QED
  BY <1>6 DEF x, y

LEMMA BestPrice ==
    ASSUME NEW levels \in Sides, levels # <<>>
    PROVE  levels[1].price \in Nat \ {0}
<1>1. 1 \in 1..Len(levels)
  BY SideType
<1> QED
  BY <1>1, SideType

(* The worst price either market order may have, and when it has one. *)
LEMMA MarketSellIs ==
    ASSUME NEW b \in Book, NEW size
    PROVE  LET bound == b.bids[1].price * (Whole - MaxSlippage)
               fill == Filled(b.bids, size)
           IN  IF DeepEnough(b.bids, size) /\ NoWorse("bids", fill.num * Whole, bound * fill.den)
               THEN MarketSell(b, size) = fill ELSE MarketSell(b, size) = Unfilled
  BY DEF MarketSell, NoWorse

LEMMA MarketBuyIs ==
    ASSUME NEW b \in Book, NEW size
    PROVE  LET bound == b.asks[1].price * (Whole + MaxSlippage)
               fill == Filled(b.asks, size)
           IN  IF DeepEnough(b.asks, size) /\ NoWorse("asks", fill.num * Whole, bound * fill.den)
               THEN MarketBuy(b, size) = fill ELSE MarketBuy(b, size) = Unfilled
  BY DEF MarketBuy, NoWorse

(* Of one side of the book and any bound on the average price. *)
LEMMA SmallerWithinBound ==
    ASSUME NEW side, NEW levels, IsSide(side, levels), NEW bound \in Nat,
           NEW small \in Nat \ {0}, NEW large \in Nat \ {0}, small <= large,
           DeepEnough(levels, large),
           NoWorse(side, Filled(levels, large).num * Whole, bound * Filled(levels, large).den)
    PROVE  /\ DeepEnough(levels, small)
           /\ NoWorse(side, Filled(levels, small).num * Whole,
                            bound * Filled(levels, small).den)
           /\ NoWorse(side, Filled(levels, small).num * Filled(levels, large).den,
                            Filled(levels, large).num * Filled(levels, small).den)
           /\ Filled(levels, small).filled
<1> DEFINE fill1 == Filled(levels, small)
           fill2 == Filled(levels, large)
<1>1. DeepEnough(levels, small) /\ NoWorse(side, fill1.num * fill2.den, fill2.num * fill1.den)
  BY SmallerIsNoWorse
<1>2. /\ fill1.num \in Nat /\ fill1.den \in Nat \ {0} /\ fill1.filled
      /\ fill2.num \in Nat /\ fill2.den \in Nat \ {0}
  BY <1>1, FilledIs
<1>3. Whole \in Nat
  BY SimulatorAssumption
<1>4. NoWorse(side, fill1.num * Whole, bound * fill1.den)
  <2>1. NoWorse(side, fill2.num * Whole, bound * fill2.den)
    OBVIOUS
  <2> HIDE DEF fill1, fill2
  <2> QED BY <1>1, <1>2, <1>3, <2>1, BoundCarriesOver
<1> QED
  BY <1>1, <1>2, <1>4

(***************************************************************************)
(* On any book a market order that fills would fill if it were smaller,    *)
(* and pay no more or get no less for what it trades: the dry run never    *)
(* favours size.                                                           *)
(***************************************************************************)
THEOREM SmallerNeverWorse == Spec => []SmallerFillsToo
<1>1. ASSUME Shape PROVE SmallerFillsToo
  <2> SUFFICES ASSUME NEW size \in LesserSizes
               PROVE  /\ MarketBuy(book, RungSize).filled =>
                            /\ MarketBuy(book, size).filled
                            /\ MarketBuy(book, size).num * MarketBuy(book, RungSize).den
                                 <= MarketBuy(book, RungSize).num * MarketBuy(book, size).den
                      /\ MarketSell(book, RungSize).filled =>
                            /\ MarketSell(book, size).filled
                            /\ MarketSell(book, size).num * MarketSell(book, RungSize).den
                                 >= MarketSell(book, RungSize).num * MarketSell(book, size).den
    BY DEF SmallerFillsToo
  <2>1. /\ book \in Book /\ IsSide("bids", book.bids) /\ IsSide("asks", book.asks)
        /\ size \in Nat \ {0} /\ RungSize \in Nat \ {0} /\ size <= RungSize
        /\ ~Unfilled.filled
    BY <1>1, SidesOfBook, RungPricesAssumption DEF Shape, Unfilled
  <2>2. Whole - MaxSlippage \in Nat /\ Whole + MaxSlippage \in Nat
    BY SimulatorAssumption
  <2>3. ASSUME MarketBuy(book, RungSize).filled
        PROVE  /\ MarketBuy(book, size).filled
               /\ MarketBuy(book, size).num * MarketBuy(book, RungSize).den
                    <= MarketBuy(book, RungSize).num * MarketBuy(book, size).den
    <3> DEFINE bound == book.asks[1].price * (Whole + MaxSlippage)
               levels == book.asks
               fill1 == Filled(levels, size)
               fill2 == Filled(levels, RungSize)
    <3>1. /\ MarketBuy(book, RungSize) = fill2
          /\ DeepEnough(levels, RungSize)
          /\ NoWorse("asks", fill2.num * Whole, bound * fill2.den)
      BY <2>1, <2>3, MarketBuyIs
    <3>2. bound \in Nat
      <4>1. levels[1].price \in Nat
        BY <2>1, <3>1, BestPrice DEF DeepEnough, IsSide
      <4> QED BY <2>2, <4>1
    <3> HIDE DEF bound
    <3>3. /\ DeepEnough(levels, size) /\ fill1.filled
          /\ NoWorse("asks", fill1.num * Whole, bound * fill1.den)
          /\ NoWorse("asks", fill1.num * fill2.den, fill2.num * fill1.den)
      BY <2>1, <3>1, <3>2, SmallerWithinBound
    <3>4. MarketBuy(book, size) = fill1
      BY <2>1, <3>3, MarketBuyIs DEF bound
    <3> QED BY <3>1, <3>3, <3>4 DEF NoWorse
  <2>4. ASSUME MarketSell(book, RungSize).filled
        PROVE  /\ MarketSell(book, size).filled
               /\ MarketSell(book, size).num * MarketSell(book, RungSize).den
                    >= MarketSell(book, RungSize).num * MarketSell(book, size).den
    <3> DEFINE bound == book.bids[1].price * (Whole - MaxSlippage)
               levels == book.bids
               fill1 == Filled(levels, size)
               fill2 == Filled(levels, RungSize)
    <3>1. /\ MarketSell(book, RungSize) = fill2
          /\ DeepEnough(levels, RungSize)
          /\ NoWorse("bids", fill2.num * Whole, bound * fill2.den)
      BY <2>1, <2>4, MarketSellIs
    <3>2. bound \in Nat
      <4>1. levels[1].price \in Nat
        BY <2>1, <3>1, BestPrice DEF DeepEnough, IsSide
      <4> QED BY <2>2, <4>1
    <3> HIDE DEF bound
    <3>3. /\ DeepEnough(levels, size) /\ fill1.filled
          /\ NoWorse("bids", fill1.num * Whole, bound * fill1.den)
          /\ NoWorse("bids", fill1.num * fill2.den, fill2.num * fill1.den)
      BY <2>1, <3>1, <3>2, SmallerWithinBound
    <3>4. MarketSell(book, size) = fill1
      BY <2>1, <3>3, MarketSellIs DEF bound
    <3> QED BY <3>1, <3>3, <3>4 DEF NoWorse
  <2> QED BY <2>3, <2>4
<1> QED
  BY <1>1, ShapeHolds, PTL

-----------------------------------------------------------------------------
(* The sign of what a rung earned *)

(* The profit asked for outweighs the slippage admitted, at every price. *)
LEMMA ProfitSurvivesSlippage ==
    ASSUME NEW num \in Nat, NEW den \in Nat \ {0}, NEW best \in Nat, NEW limit \in Nat \ {0},
           NEW whole \in Nat \ {0}, NEW up \in Nat, NEW down \in Nat,
           up * down > whole * whole,
           num * whole >= (best * down) * den, best * whole >= limit * up
    PROVE  num > limit * den
<1> DEFINE m == num * whole
           q == best * whole
           w == limit * den
           scaled == num * (whole * whole)
<1>1. /\ m \in Nat /\ q \in Nat /\ w \in Nat /\ w # 0 /\ whole * whole \in Nat
      /\ up * down \in Nat /\ down * den \in Nat /\ limit * up \in Nat
  OBVIOUS
<1>2. m * whole >= ((best * down) * den) * whole
  <2> DEFINE r == (best * down) * den
  <2>1. r \in Nat /\ m >= r
    OBVIOUS
  <2> HIDE DEF r, m
  <2>2. m * whole >= r * whole
    BY <1>1, <2>1
  <2> QED BY <2>2 DEF r
<1>3. ((best * down) * den) * whole = (down * den) * q
  OBVIOUS
<1>4. (down * den) * q >= (down * den) * (limit * up)
  <2> DEFINE k == down * den
             z == limit * up
  <2>1. q >= z /\ k \in Nat /\ z \in Nat /\ q \in Nat
    BY <1>1
  <2> HIDE DEF k, z, q
  <2>2. k * q >= k * z
    BY <2>1
  <2> QED BY <2>2 DEF k, z
<1>5. (down * den) * (limit * up) = w * (up * down)
  OBVIOUS
<1>6. w * (up * down) > w * (whole * whole)
  <2> DEFINE k == up * down
             z == whole * whole
  <2>1. k > z /\ k \in Nat /\ z \in Nat
    BY <1>1
  <2> HIDE DEF k, z, w
  <2>2. w * k > w * z
    BY <1>1, <2>1
  <2> QED BY <2>2 DEF k, z
<1>7. m * whole = num * (whole * whole)
  OBVIOUS
<1>8. num * (whole * whole) > w * (whole * whole)
  <2>1. /\ num * (whole * whole) \in Nat /\ w * (whole * whole) \in Nat
        /\ w * (up * down) \in Nat /\ (down * den) * q \in Nat
    BY <1>1
  <2> HIDE DEF m, q, w
  <2> QED BY <1>2, <1>3, <1>4, <1>5, <1>6, <1>7, <2>1
<1>9. num > w
  <2> DEFINE k == whole * whole
  <2>1. k \in Nat /\ num * k > w * k
    BY <1>1, <1>8
  <2> HIDE DEF k, w
  <2> QED BY <1>1, <2>1
<1> QED
  BY <1>9

(* A stop is below the limit price, and a sale no better than the best bid. *)
LEMMA StopNeverEarns ==
    ASSUME NEW num \in Nat, NEW den \in Nat \ {0}, NEW best \in Nat, NEW limit \in Nat \ {0},
           NEW whole \in Nat \ {0}, NEW down \in Nat, down < whole,
           num <= best * den, best * whole <= limit * down
    PROVE  num < limit * den
<1>1. best < limit
  <2>1. limit * down < limit * whole /\ limit * down \in Nat /\ limit * whole \in Nat
        /\ best * whole \in Nat
    OBVIOUS
  <2>2. best * whole < limit * whole
    BY <2>1
  <2> QED BY <2>2
<1>2. best * den < limit * den /\ best * den \in Nat /\ limit * den \in Nat
  BY <1>1
<1> QED
  BY <1>2

(***************************************************************************)
(* Whatever the depth of the book, a rung sold for its profit earned more  *)
(* than it cost, the slippage of the sale included, and a rung that was    *)
(* stopped earned less, for every setting whose profit outweighs the       *)
(* slippage it admits.                                                     *)
(***************************************************************************)
THEOREM ExitKeepsItsSign == Spec => []ExitHasItsSign
<1>1. Init => ExitHasItsSign
  BY DEF Init, NoRung, ExitHasItsSign
<1>2. ASSUME Shape, ExitHasItsSign, [Next]_vars
      PROVE  ExitHasItsSign'
  <2>1. CASE QuoteBids \/ QuoteAsks \/ HoldTimePasses \/ UNCHANGED vars
    <3>1. UNCHANGED rung
      BY <2>1 DEF QuoteBids, QuoteAsks, HoldTimePasses, vars
    <3> QED BY <1>2, <3>1 DEF ExitHasItsSign
  <2>2. ASSUME NEW s \in Spots, NEW i \in 1..Levels, PlaceRung(s, i)
        PROVE  ExitHasItsSign'
    <3>1. rung'.state = "pending"
      BY <2>2 DEF PlaceRung, NoRung
    <3> QED BY <3>1 DEF ExitHasItsSign
  <2>3. CASE FillRung
    <3>1. rung'.state = "open"
      BY <1>2, <2>3 DEF FillRung, Shape, Rung
    <3> QED BY <3>1 DEF ExitHasItsSign
  <2>4. CASE \E weak \in BOOLEAN : WithdrawRung(weak)
    <3>1. rung'.state = "none"
      BY <2>4 DEF WithdrawRung, NoRung
    <3> QED BY <3>1 DEF ExitHasItsSign
  <2>5. ASSUME NEW reason \in ExitReason, SellRung(reason)
        PROVE  ExitHasItsSign'
    <3> DEFINE levels == book.bids
               best == levels[1].price
               fill == Filled(levels, RungSize)
               limit == rung.limit
    <3>1. /\ book \in Book /\ IsSide("bids", levels) /\ RungSize \in Nat \ {0}
          /\ rung \in Rung /\ ~Unfilled.filled /\ rung.state = "open" /\ limit \in Nat \ {0}
      BY <1>2, <2>5, SidesOfBook, RungPricesAssumption DEF Shape, Unfilled, SellRung, Rung
    <3>2. /\ MarketSell(book, RungSize) = fill /\ DeepEnough(levels, RungSize)
          /\ NoWorse("bids", fill.num * Whole, (best * (Whole - MaxSlippage)) * fill.den)
      BY <2>5, <3>1, MarketSellIs DEF SellRung
    <3>3. /\ fill.num \in Nat /\ fill.den \in Nat \ {0}
          /\ NoWorse("bids", best * fill.den, fill.num)
      BY <3>1, <3>2, FilledIs
    <3>4. best \in Nat
      BY <3>1, <3>2, BestPrice DEF DeepEnough, IsSide
    <3>5. rung' = [rung EXCEPT !.state = "closed", !.reason = reason, !.exit = fill]
      BY <2>5, <3>2 DEF SellRung
    <3>6. /\ ExitDue(reason)
          /\ AtTakeProfit => best * Whole >= limit * (Whole + TakeProfitPct)
          /\ AtStopLoss => best * Whole <= limit * (Whole - StopLossPct)
      BY <2>5 DEF SellRung, AtTakeProfit, AtStopLoss
    <3>7. /\ Whole \in Nat \ {0} /\ Whole - MaxSlippage \in Nat
          /\ Whole + TakeProfitPct \in Nat /\ Whole - StopLossPct \in Nat
          /\ Whole - StopLossPct < Whole
          /\ (Whole + TakeProfitPct) * (Whole - MaxSlippage) > Whole * Whole
      BY SimulatorAssumption, RungPricesAssumption
    <3> HIDE DEF levels, best, fill, limit
    <3>8. /\ fill.num * Whole >= (best * (Whole - MaxSlippage)) * fill.den
          /\ fill.num <= best * fill.den
      BY <3>2, <3>3 DEF NoWorse
    <3>9. reason = "closed_tp" => fill.num > limit * fill.den
      <4> SUFFICES ASSUME reason = "closed_tp" PROVE fill.num > limit * fill.den
        OBVIOUS
      <4>1. best * Whole >= limit * (Whole + TakeProfitPct)
        BY <3>6 DEF ExitDue
      <4> QED BY <3>1, <3>3, <3>4, <3>7, <3>8, <4>1, ProfitSurvivesSlippage
    <3>10. reason = "closed_sl" => fill.num < limit * fill.den
      <4> SUFFICES ASSUME reason = "closed_sl" PROVE fill.num < limit * fill.den
        OBVIOUS
      <4>1. best * Whole <= limit * (Whole - StopLossPct)
        BY <3>6 DEF ExitDue
      <4> QED BY <3>1, <3>3, <3>4, <3>7, <3>8, <4>1, StopNeverEarns
    <3>11. rung'.reason = reason /\ rung'.exit = fill /\ rung'.limit = limit
      BY <3>1, <3>5 DEF Rung, limit
    <3> QED BY <3>9, <3>10, <3>11 DEF ExitHasItsSign
  <2> QED BY <1>2, <2>1, <2>2, <2>3, <2>4, <2>5 DEF Next
<1> QED
  BY <1>1, <1>2, ShapeHolds, PTL DEF Spec
=============================================================================
