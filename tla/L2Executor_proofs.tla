------------------------ MODULE L2Executor_proofs ------------------------
(***************************************************************************)
(* Layer 2 for every set of symbols, designs, weights of the rungs, number *)
(* of rows and every cap.                                                  *)
(***************************************************************************)
EXTENDS L2Executor, Store_proofs

(* The metadata of a rung of a ladder that one of the settings designed. *)
IsRung(md) == \E c \in Configs : md \in RungMetadata({c.design}, 1..c.design.levels)

(***************************************************************************)
(* A row of Layer 2 is a rung; no executor ever marks it closing.          *)
(***************************************************************************)
RowsAreRungs ==
    \A p \in PositionId :
        position[p].layer = L2Cascade /\ position[p].state # "absent"
            => IsRung(position[p].metadata)
               /\ position[p].state \in {"opening", "open", "closed"}

Scanning == {"scan", "rung", "pending_fill"}
Placing  == {"rung", "pending_fill"}
InHand   == {"mark_open", "update_metadata", "close_rung", "pending_fill"}

(***************************************************************************)
(* What the snapshot says is still so when a row of it is visited, though  *)
(* every write since then was followed by an await.  A waiting rung of     *)
(* another design is either still to be closed or gone.                    *)
(***************************************************************************)
SnapshotHolds ==
    /\ pc = "refresh" => to_refresh \subseteq In("opening") /\ StaleRungs \subseteq to_refresh
    /\ pc # "refresh" =>
          /\ to_refresh = {}
          /\ to_pending \subseteq In("opening") /\ to_filled \subseteq In("open")
          /\ \A p \in to_pending : position[p].metadata.design = config.design
    /\ pc \in Scanning \cup {"idle", "filled", "close_rung"} => to_pending = {}
    /\ pc \in Scanning \cup {"idle"} => to_filled = {}

(* The row between two writes of its handler is still in the first state. *)
HandHolds ==
    /\ pc \in InHand => cur \in PositionId
    /\ pc \notin InHand => cur = NULL
    /\ pc = "mark_open" =>
          /\ cur \in In("opening") /\ cur \notin to_pending
          /\ position[cur].metadata.design = config.design
    /\ pc = "update_metadata" => cur \in In("open")
    /\ pc = "close_rung" => cur \in In("open") /\ cur \notin to_filled
    /\ pc = "pending_fill" => cur \in In("opening")

LadderHolds ==
    /\ pc \in Placing =>
          /\ ladder.symbol \in Symbol /\ ladder.symbol \notin to_scan
          /\ ladder.group \in PositionId
          /\ ladder.next \in 1..(config.design.levels + 1)
          /\ pc = "pending_fill" => ladder.next <= config.design.levels
          /\ ladder.budget >= MinPosition
    /\ pc \notin Placing => ladder = NoLadder

Shape == TypeOK /\ RowsAreRungs /\ SnapshotHolds /\ HandHolds /\ LadderHolds

(***************************************************************************)
(* Every live rung is on a held symbol, or on one the scan is past.        *)
(***************************************************************************)
HeldCovers ==
    pc \notin {"idle", "refresh"} =>
        \A p \in OpenPositions(L2Cascade) :
            \/ position[p].metadata.symbol \in held
            \/ pc \in Scanning /\ position[p].metadata.symbol \notin to_scan

(* The live rungs on the symbol of the ladder in hand are its earlier ones. *)
EarlierRungs ==
    pc \in Placing =>
        \A p \in OpenPositions(L2Cascade) :
            position[p].metadata.symbol = ladder.symbol =>
                /\ position[p].metadata.group = ladder.group
                /\ pc = "rung" => position[p].metadata.rung < ladder.next
                /\ position[p].metadata.rung <= ladder.next

LaddersInv == OneLadderPerSymbol /\ HeldCovers /\ EarlierRungs

(* What the earlier rungs of the ladder in hand may have cost. *)
Spent == UpTo(IF pc = "rung" THEN ladder.next - 1 ELSE ladder.next)

(***************************************************************************)
(* The totals read before the first rung, plus all earlier rungs, are no   *)
(* less than the totals are now, though some rungs may have been refused.  *)
(***************************************************************************)
CapInv ==
    /\ TotalWithinCap
    /\ pc \in Placing => TotalAtRisk <= ladder.at_risk + Spent

AllocInv ==
    pc \in Placing =>
        /\ ladder.alloc = LayerAlloc
        /\ ladder.deployed + ladder.budget <= ladder.alloc
        /\ ladder.budget <= config.design.total
        /\ LayerDeployed(L2Cascade) <= ladder.deployed + Spent

(* Order ids are spent only by rows there are, and in runs of the layer. *)
OrdersInv ==
    /\ \A f \in fill : position[f.id[1]].state # "absent"
    /\ pc # "idle" => LayerEnabled[L2Cascade]

-----------------------------------------------------------------------------
(* The sizes of a ladder *)

(* A larger factor gives no smaller a product. *)
LEMMA TimesGrows ==
    ASSUME NEW a \in Nat, NEW b \in Nat, NEW c \in Nat, b <= c
    PROVE  a * b <= a * c
<1>1. a * (c - b) \in Nat
  <2>1. c - b \in Nat
    OBVIOUS
  <2>2. QED
    BY <2>1
<1>2. a * c = a * b + a * (c - b)
  OBVIOUS
<1>3. QED
  BY <1>1, <1>2

(* Whole division keeps the order, and a gap of a divisor is a gap of one. *)
LEMMA DivGrows ==
    ASSUME NEW a \in Nat, NEW b \in Nat, NEW d \in Nat \ {0}
    PROVE  /\ a \div d \in Nat
           /\ a <= b => a \div d <= b \div d
           /\ a + d <= b => a \div d < b \div d
<1> DEFINE x == a \div d
           y == b \div d
<1>1. x \in Nat /\ y \in Nat
  OBVIOUS
<1>2. d * x <= a /\ a < d * x + d
  OBVIOUS
<1>3. d * y <= b /\ b < d * y + d
  OBVIOUS
<1> HIDE DEF x, y
<1>4. d * (y + 1) = d * y + d /\ d * (x + 1) = d * x + d
  BY <1>1
<1>5. y + 1 <= x => d * (y + 1) <= d * x
  BY <1>1, TimesGrows
<1>6. y <= x => d * y <= d * x
  BY <1>1, TimesGrows
<1>7. d * x \in Nat /\ d * y \in Nat
  BY <1>1
<1>8. a <= b => x <= y
  BY <1>1, <1>2, <1>3, <1>4, <1>5, <1>7
<1>9. a + d <= b => x < y
  BY <1>1, <1>2, <1>3, <1>4, <1>6, <1>7
<1>10. QED
  BY <1>1, <1>8, <1>9 DEF x, y

(***************************************************************************)
(* The first n rungs cost no more than the first n + 1, none costs nothing *)
(* and all together cost the budget.                                       *)
(***************************************************************************)
LEMMA SizesAddUp ==
    ASSUME TypeOK, ladder.budget >= MinPosition
    PROVE  LET l == config.design.levels IN
           /\ l \in Nat \ {0}
           /\ \A n \in 0..l : UpTo(n) \in Nat /\ UpTo(n) <= ladder.budget
           /\ UpTo(0) = 0
           /\ \A n \in 1..l : UpTo(n - 1) < UpTo(n)
<1> DEFINE l == config.design.levels
           b == ladder.budget
           d == Share[l][l]
           part(n) == Share[l][n]
<1>1. config \in Configs /\ b \in Nat /\ MinPosition \in Nat \ {0} /\ MinPosition <= b
  BY L2Assumption DEF TypeOK
<1>2. l \in Nat \ {0}
  BY <1>1, L2Assumption DEF Config, Design
<1>3. /\ \A n \in 0..l : part(n) \in Nat /\ part(n) <= d
      /\ part(0) = 0
      /\ \A n \in 1..l : /\ part(n - 1) < part(n)
                         /\ d <= MinPosition * (part(n) - part(n - 1))
  <2>1. /\ Share[l][l] \in Nat /\ Share[l] \in [0..l -> 0..Share[l][l]]
        /\ Share[l][0] = 0
        /\ \A n \in 1..l :
              /\ Share[l][n - 1] < Share[l][n]
              /\ Share[l][l] <= MinPosition * (Share[l][n] - Share[l][n - 1])
    BY <1>1, L2Assumption, Zenon
  <2>2. \A n \in 0..l : Share[l][n] \in 0..Share[l][l]
    BY <2>1
  <2>3. QED
    BY <2>1, <2>2
<1>4. d = part(l) /\ l \in 0..l /\ l \in 1..l
  BY <1>2
<1>5. d \in Nat \ {0}
  <2>1. part(l) \in Nat /\ part(l - 1) \in Nat /\ part(l - 1) < part(l)
    BY <1>2, <1>3, <1>4
  <2>2. QED
    BY <1>4, <2>1
<1>6. \A n : UpTo(n) = (b * part(n)) \div d
  BY DEF UpTo
<1> HIDE DEF l, b, d, part
<1>7. \A n \in 0..l : UpTo(n) \in Nat
  <2> SUFFICES ASSUME NEW n \in 0..l
               PROVE  UpTo(n) \in Nat
    OBVIOUS
  <2>1. b * part(n) \in Nat
    BY <1>1, <1>3
  <2>2. QED
    BY <1>5, <1>6, <2>1, DivGrows
<1>8. UpTo(0) = 0
  <2>1. b * part(0) = 0
    BY <1>1, <1>3
  <2>2. 0 \div d = 0
    BY <1>5
  <2>3. QED
    BY <1>6, <2>1, <2>2
<1>9. \A n \in 1..l : UpTo(n - 1) < UpTo(n)
  <2> SUFFICES ASSUME NEW n \in 1..l
               PROVE  UpTo(n - 1) < UpTo(n)
    OBVIOUS
  <2> DEFINE lo == part(n - 1)
             hi == part(n)
  <2>1. lo \in Nat /\ hi \in Nat /\ lo < hi /\ d <= MinPosition * (hi - lo)
    <3>1. n - 1 \in 0..l /\ n \in 0..l
      BY <1>2
    <3>2. QED
      BY <1>3, <3>1
  <2> HIDE DEF lo, hi
  <2>2. MinPosition * (hi - lo) <= b * (hi - lo)
    <3>1. hi - lo \in Nat
      BY <2>1
    <3>2. (hi - lo) * MinPosition <= (hi - lo) * b
      BY <1>1, <3>1, TimesGrows
    <3>3. QED
      BY <1>1, <3>1, <3>2
  <2>3. b * (hi - lo) = b * hi - b * lo /\ b * hi \in Nat /\ b * lo \in Nat
    BY <1>1, <2>1
  <2>4. b * lo + d <= b * hi
    BY <1>1, <1>5, <2>1, <2>2, <2>3
  <2>5. (b * lo) \div d < (b * hi) \div d
    BY <1>5, <2>3, <2>4, DivGrows
  <2>6. QED
    BY <1>6, <2>5 DEF lo, hi
<1>10. \A n \in 0..l : UpTo(n) <= b
  <2> SUFFICES ASSUME NEW n \in 0..l
               PROVE  UpTo(n) <= b
    OBVIOUS
  <2>1. b * part(n) <= b * d /\ b * part(n) \in Nat /\ b * d \in Nat
    BY <1>1, <1>3, <1>5, TimesGrows
  <2>2. (b * part(n)) \div d <= (b * d) \div d
    BY <1>5, <2>1, DivGrows
  <2>3. (b * d) \div d = b
    BY <1>1, <1>5
  <2>4. QED
    BY <1>6, <2>2, <2>3
<1>11. QED
  BY <1>2, <1>7, <1>8, <1>9, <1>10 DEF l, b

-----------------------------------------------------------------------------
(* What each write does to the rungs there are *)

(* The rungs of a live state are among the live rows of the layer. *)
LEMMA InRows ==
    ASSUME NEW s, NEW p
    PROVE  p \in In(s) <=> /\ p \in PositionId /\ position[p].state \in LiveState
                           /\ position[p].layer = L2Cascade /\ position[p].state = s
BY DEF In, OpenPositions, Live

(* The position table of a state of the right type. *)
LEMMA TableTypes ==
    ASSUME TypeOK
    PROVE  position \in Table /\ NULL \notin PositionId
BY StoreAssumption DEF TypeOK, StoreTypeOK, Table

LEMMA SameRows ==
    ASSUME UNCHANGED position
    PROVE  /\ RowsAreRungs <=> RowsAreRungs'
           /\ \A s : UNCHANGED In(s)
           /\ \A l : UNCHANGED OpenPositions(l)
           /\ \A l : UNCHANGED LayerDeployed(l)
           /\ UNCHANGED TotalAtRisk
<1>1. UNCHANGED Live
  BY DEF Live
<1>2. \A l : UNCHANGED OpenPositions(l)
  BY <1>1 DEF OpenPositions
<1>3. \A s : UNCHANGED In(s)
  BY <1>2 DEF In
<1>4. UNCHANGED TotalAtRisk /\ \A l : UNCHANGED LayerDeployed(l)
  BY <1>1, <1>2 DEF TotalAtRisk, LayerDeployed, Notional
<1>5. QED
  BY <1>2, <1>3, <1>4 DEF RowsAreRungs

(* A rung that is cancelled or sold is gone; no other changes. *)
LEMMA RungCloses ==
    ASSUME position \in Table, RowsAreRungs, NEW p \in OpenPositions(L2Cascade),
           NEW r \in Int, ClosePosition(p, r)
    PROVE  /\ RowsAreRungs'
           /\ position[p].state # "closed"
           /\ \A s : In(s)' = In(s) \ {p}
           /\ OpenPositions(L2Cascade)' = OpenPositions(L2Cascade) \ {p}
           /\ \A q \in PositionId : position'[q].metadata = position[q].metadata
           /\ \A q \in PositionId \ {p} : position'[q] = position[q]
           /\ position'[p].state = "closed"
<1>1. /\ p \in PositionId /\ position[p].state \in LiveState
      /\ position[p].layer = L2Cascade
  BY DEF OpenPositions, Live
<1>2. /\ position'[p].state = "closed"
      /\ \A q \in PositionId \ {p} : position'[q] = position[q]
      /\ \A q \in PositionId : /\ position'[q].layer = position[q].layer
                               /\ position'[q].metadata = position[q].metadata
  BY <1>1, CloseWrites
<1>3. RowsAreRungs'
  BY <1>1, <1>2 DEF RowsAreRungs, LiveState
<1>4. OpenPositions(L2Cascade)' = OpenPositions(L2Cascade) \ {p}
  BY <1>1, <1>2 DEF OpenPositions, Live, LiveState
<1>5. \A s : In(s)' = In(s) \ {p}
  BY <1>2, <1>4 DEF In, OpenPositions, Live
<1>6. QED
  BY <1>1, <1>2, <1>3, <1>4, <1>5 DEF LiveState

(* A waiting rung that fills is open, and keeps what its ladder gave it. *)
LEMMA RungOpens ==
    ASSUME position \in Table, RowsAreRungs, NEW p \in In("opening"),
           MarkPositionOpen(p)
    PROVE  /\ RowsAreRungs'
           /\ In("opening")' = In("opening") \ {p}
           /\ In("open")' = In("open") \cup {p}
           /\ OpenPositions(L2Cascade)' = OpenPositions(L2Cascade)
           /\ \A q \in PositionId : position'[q].metadata = position[q].metadata
           /\ \A q \in PositionId \ {p} : position'[q] = position[q]
<1>1. /\ p \in PositionId /\ position[p].state = "opening"
      /\ position[p].layer = L2Cascade
  BY InRows
<1>2. /\ position'[p].state = "open"
      /\ \A q \in PositionId \ {p} : position'[q] = position[q]
      /\ \A q \in PositionId : /\ position'[q].layer = position[q].layer
                               /\ position'[q].metadata = position[q].metadata
  BY <1>1, SetStateWrites DEF MarkPositionOpen, PositionState
<1>3. RowsAreRungs'
  BY <1>1, <1>2 DEF RowsAreRungs, LiveState
<1>4. OpenPositions(L2Cascade)' = OpenPositions(L2Cascade)
  BY <1>1, <1>2 DEF OpenPositions, Live, LiveState
<1>5. In("opening")' = In("opening") \ {p} /\ In("open")' = In("open") \cup {p}
  BY <1>1, <1>2, <1>4 DEF In, OpenPositions, Live, LiveState
<1>6. QED
  BY <1>2, <1>3, <1>4, <1>5

(* The metadata update moves the phase of one rung on, and nothing else. *)
LEMMA PhaseMoves ==
    ASSUME StoreTypeOK, RowsAreRungs, NEW p \in In("open"),
           position' = [position EXCEPT ![p].metadata.phase = "tp_pending"],
           UNCHANGED <<fill, system_state>>
    PROVE  /\ StoreTypeOK' /\ RowsAreRungs'
           /\ \A s : In(s)' = In(s)
           /\ OpenPositions(L2Cascade)' = OpenPositions(L2Cascade)
           /\ Live' = Live
           /\ \A q \in PositionId \ {p} : position'[q] = position[q]
           /\ \A q \in PositionId : /\ position'[q].state = position[q].state
                                    /\ position'[q].layer = position[q].layer
                                    /\ position'[q].notional = position[q].notional
           /\ \A q \in OpenPositions(L2Cascade) :
                 /\ position'[q].metadata.symbol = position[q].metadata.symbol
                 /\ position'[q].metadata.group = position[q].metadata.group
                 /\ position'[q].metadata.rung = position[q].metadata.rung
                 /\ position'[q].metadata.design = position[q].metadata.design
<1> DEFINE md  == position[p].metadata
           md2 == [md EXCEPT !.phase = "tp_pending"]
<1>1. /\ p \in PositionId /\ position[p].state = "open"
      /\ position[p].layer = L2Cascade /\ IsRung(md)
  BY InRows DEF RowsAreRungs
<1>2. PICK c \in Configs : md \in RungMetadata({c.design}, 1..c.design.levels)
  BY <1>1 DEF IsRung
<1>3. /\ md2 \in RungMetadata({c.design}, 1..c.design.levels)
      /\ md2.symbol = md.symbol /\ md2.group = md.group /\ md2.rung = md.rung
      /\ md2.design = md.design
  BY <1>2 DEF RungMetadata, Phase
<1>4. md2 \in Metadata /\ IsRung(md2)
  BY <1>2, <1>3, L2Assumption DEF IsRung
<1> HIDE DEF md2
<1>5. position' = [position EXCEPT ![p] = [position[p] EXCEPT !.metadata = md2]]
  BY DEF md2
<1>6. [position[p] EXCEPT !.metadata = md2] \in PositionRow
  BY <1>1, <1>4 DEF StoreTypeOK, PositionRow
<1>7. /\ StoreTypeOK'
      /\ position'[p].metadata = md2
      /\ \A q \in PositionId \ {p} : position'[q] = position[q]
      /\ \A q \in PositionId : /\ position'[q].state = position[q].state
                               /\ position'[q].layer = position[q].layer
                               /\ position'[q].notional = position[q].notional
  BY <1>1, <1>5, <1>6 DEF StoreTypeOK, PositionRow
<1>8. RowsAreRungs'
  BY <1>1, <1>4, <1>7 DEF RowsAreRungs
<1>9. Live' = Live /\ \A l : OpenPositions(l)' = OpenPositions(l)
  BY <1>7 DEF OpenPositions, Live
<1>10. \A s : In(s)' = In(s)
  BY <1>7, <1>9 DEF In, OpenPositions, Live
<1>11. QED
  BY <1>3, <1>7, <1>8, <1>9, <1>10 DEF OpenPositions, Live

(* A new rung joins the waiting ones, under an id no row had. *)
LEMMA RungCreated ==
    ASSUME position \in Table, RowsAreRungs, NEW p \in PositionId,
           NEW n \in 0..MaxNotional, NEW md \in Metadata, IsRung(md),
           CreatePosition(p, L2Cascade, n, md)
    PROVE  /\ RowsAreRungs'
           /\ position[p].state = "absent" /\ position'[p].state = "opening"
           /\ position'[p].metadata = md /\ position'[p].layer = L2Cascade
           /\ position'[p].notional = n
           /\ In("opening")' = In("opening") \cup {p} /\ p \notin OpenPositions(L2Cascade)
           /\ In("open")' = In("open")
           /\ OpenPositions(L2Cascade)' = OpenPositions(L2Cascade) \cup {p}
           /\ \A q \in PositionId \ {p} : position'[q] = position[q]
<1>1. L2Cascade \in Layer /\ md \in Metadata \cup {NULL}
  BY DEF Layer
<1>2. /\ position[p].state = "absent" /\ position' \in Table
      /\ position'[p] = [state |-> "opening", layer |-> L2Cascade, notional |-> n,
                         realized |-> 0, metadata |-> md]
      /\ \A q \in PositionId \ {p} : position'[q] = position[q]
  BY <1>1, CreateWrites
<1>3. /\ position'[p].state = "opening" /\ position'[p].layer = L2Cascade
      /\ position'[p].metadata = md /\ position'[p].notional = n
  BY <1>2
<1>4. RowsAreRungs'
  BY <1>2, <1>3 DEF RowsAreRungs
<1>5. /\ OpenPositions(L2Cascade)' = OpenPositions(L2Cascade) \cup {p}
      /\ p \notin OpenPositions(L2Cascade)
  BY <1>2, <1>3 DEF OpenPositions, Live, LiveState
<1>6. In("opening")' = In("opening") \cup {p} /\ In("open")' = In("open")
  BY <1>2, <1>3, <1>5 DEF In, OpenPositions, Live
<1>7. QED
  BY <1>2, <1>3, <1>4, <1>5, <1>6

(***************************************************************************)
(* Between two runs no row of Layer 2 is written: reconciliation, the      *)
(* allocator and the operator write system_state only, and the other       *)
(* layers rows of their own, which they take from an absent row, move      *)
(* between live, closing and closed, and never reopen once closed.         *)
(***************************************************************************)
LEMMA ElsewhereWrites ==
    ASSUME TypeOK, NEW p \in PositionId, Elsewhere(p)
    PROVE  /\ StoreTypeOK' /\ fill' = fill
           /\ \A q \in PositionId :
                 \/ position'[q] = position[q]
                 \/ /\ q = p /\ position'[q].layer = L1Funding
                    /\ position[q].state = "absent" \/ position[q].layer = L1Funding
                    /\ position[q].state # "closed" /\ position'[q].state # "absent"
<1>1. position \in Table /\ L1Funding \in Layer /\ L2Cascade \in Layer
  BY TableTypes DEF Layer
<1>2. CASE ReconcileAtRisk \/ (Halted /\ SetHaltReason(NULL))
           \/ \E usd \in DynamicAllocs : SetDynamicAllocation(L2Cascade, usd)
  BY <1>1, <1>2, StatementTypes, L2Assumption
     DEF TypeOK, ReconcileAtRisk, SetHaltReason, SetDynamicAllocation
<1>3. CASE \E n \in OtherSizes : CreatePosition(p, L1Funding, n, NULL)
  <2>1. PICK n \in OtherSizes : CreatePosition(p, L1Funding, n, NULL)
    BY <1>3
  <2>2. n \in 0..MaxNotional
    BY L2Assumption, SafeguardsAssumption, StoreAssumption
  <2>3. StoreTypeOK'
    BY <1>1, <2>1, <2>2, StatementTypes DEF TypeOK
  <2>4. /\ position[p].state = "absent"
        /\ position'[p] = [state |-> "opening", layer |-> L1Funding, notional |-> n,
                           realized |-> 0, metadata |-> NULL]
        /\ \A q \in PositionId \ {p} : position'[q] = position[q]
    BY <1>1, <2>1, <2>2, CreateWrites
  <2>5. position'[p].layer = L1Funding /\ position'[p].state = "opening"
    BY <2>4
  <2>6. QED
    BY <2>1, <2>3, <2>4, <2>5 DEF CreatePosition
<1>4. CASE \/ OthersRow(p, LiveState) /\ MarkPositionClosing(p)
           \/ OthersRow(p, {"closing"}) /\ SetPositionState(p, "opening")
  <2>1. /\ position[p].layer = L1Funding
        /\ position[p].state \in LiveState \cup {"closing"}
    BY <1>4 DEF OthersRow
  <2>2. PICK s \in {"closing", "opening"} : SetPositionState(p, s)
    BY <1>4 DEF MarkPositionClosing
  <2>3. StoreTypeOK'
    BY <2>2, StatementTypes DEF TypeOK, PositionState
  <2>4. /\ position'[p].layer = L1Funding /\ position'[p].state = s
        /\ \A q \in PositionId \ {p} : position'[q] = position[q]
    BY <1>1, <2>1, <2>2, SetStateWrites DEF PositionState
  <2>5. QED
    BY <2>1, <2>2, <2>3, <2>4 DEF SetPositionState, LiveState
<1>5. CASE OthersRow(p, LiveState \cup {"closing"}) /\ ClosePosition(p, 0)
  <2>1. /\ position[p].layer = L1Funding
        /\ position[p].state \in LiveState \cup {"closing"}
    BY <1>5 DEF OthersRow
  <2>2. StoreTypeOK'
    BY <1>5, StatementTypes DEF TypeOK
  <2>3. /\ position'[p].layer = L1Funding /\ position'[p].state = "closed"
        /\ \A q \in PositionId \ {p} : position'[q] = position[q]
    BY <1>1, <1>5, <2>1, CloseWrites
  <2>4. QED
    BY <1>5, <2>1, <2>2, <2>3 DEF ClosePosition, LiveState
<1>6. CASE OthersRow(p, LiveState \cup {"closing"}) /\ SetHaltReason(p)
  BY <1>6, StatementTypes DEF TypeOK, SetHaltReason
<1>7. QED
  BY <1>2, <1>3, <1>4, <1>5, <1>6 DEF Elsewhere, OtherLayers

(* So no rung is touched between two runs. *)
LEMMA ElsewhereRungs ==
    ASSUME TypeOK, RowsAreRungs, NEW p \in PositionId, Elsewhere(p)
    PROVE  /\ StoreTypeOK' /\ RowsAreRungs'
           /\ \A s : In(s)' = In(s)
           /\ OpenPositions(L2Cascade)' = OpenPositions(L2Cascade)
           /\ \A q \in PositionId :
                 /\ position[q].layer = L2Cascade /\ position[q].state # "absent"
                       => position'[q] = position[q]
                 /\ position[q].state = "closed" => position'[q] = position[q]
                 /\ position'[q].layer = L2Cascade => position'[q] = position[q]
<1>1. L1Funding # L2Cascade
  BY DEF L1Funding, L2Cascade
<1>2. /\ StoreTypeOK'
      /\ \A q \in PositionId :
            \/ position'[q] = position[q]
            \/ /\ q = p /\ position'[q].layer = L1Funding
               /\ position[q].state = "absent" \/ position[q].layer = L1Funding
               /\ position[q].state # "closed" /\ position'[q].state # "absent"
  BY ElsewhereWrites
<1>3. /\ RowsAreRungs'
      /\ \A q \in PositionId :
            /\ position[q].layer = L2Cascade /\ position[q].state # "absent"
                  => position'[q] = position[q]
            /\ position[q].state = "closed" => position'[q] = position[q]
            /\ position'[q].layer = L2Cascade => position'[q] = position[q]
  BY <1>1, <1>2 DEF RowsAreRungs
<1>4. OpenPositions(L2Cascade)' = OpenPositions(L2Cascade)
  BY <1>1, <1>3 DEF OpenPositions, Live, LiveState
<1>5. \A s : In(s)' = In(s)
  BY <1>1, <1>3, <1>4 DEF In, OpenPositions, Live, LiveState
<1>6. QED
  BY <1>2, <1>3, <1>4, <1>5

-----------------------------------------------------------------------------
(* Type correctness, and what the locals of a run say of the rows *)

(* The first run starts from an empty store. *)
LEMMA ShapeInit == Init => Shape
<1> SUFFICES ASSUME Init
             PROVE  Shape
  OBVIOUS
<1>1. \A p \in PositionId : position[p].state = "absent"
  BY DEF Init, StoreInit, NoRow
<1>2. \A s : In(s) = {}
  BY <1>1 DEF In, OpenPositions, Live, LiveState
<1>3. StoreTypeOK
  BY StoreAssumption DEF Init, StoreInit, StoreTypeOK, NoRow, PositionRow, PositionState,
                         SystemState, Layer
<1>4. TypeOK
  BY <1>3 DEF Init, TypeOK, PcState, NoLadder
<1>5. QED
  BY <1>1, <1>2, <1>4 DEF Init, Shape, RowsAreRungs, SnapshotHolds, HandHolds,
                          LadderHolds, Scanning, Placing, InHand

(* Symbols of live rungs are symbols the configurations list. *)
LEMMA HeldTypes ==
    ASSUME RowsAreRungs
    PROVE  /\ HeldSymbols \subseteq Symbol
           /\ \A p \in OpenPositions(L2Cascade) :
                 /\ position[p].metadata.symbol \in Symbol
                 /\ position[p].metadata.rung \in Nat
<1>1. \A p \in OpenPositions(L2Cascade) : IsRung(position[p].metadata)
  BY DEF RowsAreRungs, OpenPositions, Live, LiveState
<1>2. ASSUME NEW md, IsRung(md)
      PROVE  md.symbol \in Symbol /\ md.rung \in Nat
  <2>1. PICK c \in Configs : md \in RungMetadata({c.design}, 1..c.design.levels)
    BY <1>2 DEF IsRung
  <2>2. c.design.levels \in Nat
    BY L2Assumption DEF Config, Design
  <2>3. QED
    BY <2>1, <2>2 DEF RungMetadata
<1>3. QED
  BY <1>1, <1>2 DEF HeldSymbols

(***************************************************************************)
(* Steps that write no row: the snapshots, the loops' cursors, the choice  *)
(* of a budget, a refusal, the end of a loop, and every interruption.      *)
(***************************************************************************)
LEMMA CursorShape ==
    ASSUME Shape,
           \/ StartRun \/ RefreshDone \/ PendingDone \/ FilledDone
           \/ RefuseRung \/ LadderDone \/ RunDone \/ Interrupt
           \/ \E p \in PositionId : KeepRung(p) \/ KeepFilled(p)
           \/ \E s \in Symbol : PassSymbol(s)
    PROVE  Shape'
<1> USE DEF Scanning, Placing, InHand
<1>1. /\ UNCHANGED <<position, storeVars, config>> /\ StoreTypeOK' /\ RowsAreRungs'
      /\ \A s : In(s)' = In(s)
      /\ OpenPositions(L2Cascade)' = OpenPositions(L2Cascade)
  <2>1. UNCHANGED <<position, storeVars, config>>
    BY DEF StartRun, RefreshDone, PendingDone, FilledDone, RefuseRung, LadderDone,
           RunDone, Interrupt, KeepRung, VisitPending, KeepFilled, VisitFilled,
           PassSymbol, VisitSymbol, storeVars
  <2>2. QED
    BY <2>1, SameRows, StatementTypes DEF Shape, TypeOK
<1>2. /\ HeldSymbols \subseteq Symbol
      /\ \A s : In(s) \subseteq PositionId
      /\ config.symbols \subseteq Symbol
      /\ config.design.levels \in Nat \ {0}
  BY HeldTypes, InRows, L2Assumption DEF Shape, TypeOK, Config, Design
<1>3. ladder \in [symbol : Symbol \cup {NULL}, group : PositionId \cup {NULL},
                  next : Nat, budget : Nat, alloc : Nat, at_risk : Nat,
                  deployed : Nat]
  BY DEF Shape, TypeOK
<1>4. CASE StartRun
  <2>1. TypeOK'
    BY <1>1, <1>2, <1>4 DEF StartRun, Snapshot, StaleRungs, Shape, TypeOK, PcState
  <2>2. SnapshotHolds'
    BY <1>1, <1>4 DEF StartRun, Snapshot, SnapshotHolds, StaleRungs
  <2>3. QED
    BY <1>1, <1>4, <2>1, <2>2 DEF StartRun, Shape, HandHolds, LadderHolds
<1>5. CASE RefreshDone
  <2>1. TypeOK'
    BY <1>1, <1>2, <1>5 DEF RefreshDone, Snapshot, Shape, TypeOK, PcState
  <2>2. SnapshotHolds'
    BY <1>1, <1>5 DEF RefreshDone, Snapshot, SnapshotHolds, StaleRungs, Shape
  <2>3. QED
    BY <1>1, <1>5, <2>1, <2>2 DEF RefreshDone, Shape, HandHolds, LadderHolds
<1>6. CASE PendingDone
  BY <1>1, <1>2, <1>6 DEF PendingDone, loopVars, Shape, TypeOK, PcState, SnapshotHolds,
                          HandHolds, LadderHolds
<1>7. CASE FilledDone
  BY <1>1, <1>2, <1>7 DEF FilledDone, Shape, TypeOK, PcState, SnapshotHolds,
                          HandHolds, LadderHolds
<1>8. CASE RefuseRung
  <2>1. ladder' = [ladder EXCEPT !.next = @ + 1] /\ pc = "rung" /\ pc' = "rung"
        /\ ladder.next <= config.design.levels
        /\ UNCHANGED <<loopVars, cur, sale>>
    BY <1>8 DEF RefuseRung, AtRung
  <2>2. /\ ladder'.next = ladder.next + 1 /\ ladder.next \in Nat
        /\ ladder'.symbol = ladder.symbol /\ ladder'.group = ladder.group
        /\ ladder'.budget = ladder.budget
        /\ ladder' \in [symbol : Symbol \cup {NULL}, group : PositionId \cup {NULL},
                        next : Nat, budget : Nat, alloc : Nat, at_risk : Nat,
                        deployed : Nat]
    BY <1>3, <2>1
  <2>3. TypeOK'
    BY <1>1, <2>1, <2>2 DEF Shape, TypeOK, loopVars
  <2>4. LadderHolds'
    BY <1>1, <1>2, <2>1, <2>2 DEF Shape, LadderHolds, loopVars
  <2>5. QED
    BY <1>1, <2>1, <2>3, <2>4 DEF Shape, SnapshotHolds, HandHolds, loopVars
<1>9. CASE LadderDone
  BY <1>1, <1>9 DEF LadderDone, loopVars, Shape, TypeOK, PcState, NoLadder, SnapshotHolds,
                    HandHolds, LadderHolds
<1>10. CASE RunDone
  BY <1>1, <1>10 DEF RunDone, Shape, TypeOK, PcState, SnapshotHolds, HandHolds, LadderHolds
<1>11. CASE Interrupt
  BY <1>1, <1>11 DEF Interrupt, Shape, TypeOK, PcState, NoLadder, SnapshotHolds,
                     HandHolds, LadderHolds
<1>12. ASSUME NEW p \in PositionId, KeepRung(p) \/ KeepFilled(p)
       PROVE  Shape'
  BY <1>1, <1>12 DEF KeepRung, VisitPending, KeepFilled, VisitFilled, storeVars,
                     Shape, TypeOK, SnapshotHolds, HandHolds, LadderHolds
<1>13. ASSUME NEW s \in Symbol, PassSymbol(s)
       PROVE  Shape'
  BY <1>1, <1>13 DEF PassSymbol, VisitSymbol, Shape, TypeOK, SnapshotHolds,
                     HandHolds, LadderHolds
<1>14. QED
  BY <1>4, <1>5, <1>6, <1>7, <1>8, <1>9, <1>10, <1>11, <1>12, <1>13

(* Steps that record a fill: no row changes. *)
LEMMA FillShape ==
    ASSUME Shape,
           \/ \E p \in PositionId : FillRung(p)
           \/ \E p \in PositionId, reason \in ExitReason : SellRung(p, reason)
           \/ RecordPending
    PROVE  Shape'
<1> USE DEF Scanning, Placing, InHand
<1>1. /\ {"pending", "fill"} \cup ExitReason = OrderTag
      /\ config.design.levels \in Nat
  BY L2Assumption DEF Shape, TypeOK, Config, Design
<1>2. \A id \in ClientOrderId, b \in BOOLEAN :
         RecordFill(id, b) =>
             /\ StoreTypeOK' /\ UNCHANGED position /\ RowsAreRungs'
             /\ \A s : In(s)' = In(s)
  BY SameRows, StatementTypes DEF Shape, TypeOK, RecordFill
<1>3. ASSUME NEW p \in PositionId, FillRung(p)
      PROVE  Shape'
  <2>1. <<p, "fill">> \in ClientOrderId /\ RecordFill(<<p, "fill">>, TRUE)
    BY <1>1, <1>3 DEF ClientOrderId, FillRung
  <2>2. /\ StoreTypeOK' /\ UNCHANGED position /\ RowsAreRungs'
        /\ \A s : In(s)' = In(s)
    BY <1>2, <2>1
  <2>3. QED
    BY <1>3, <2>2 DEF FillRung, VisitPending, IsFirst, Shape, TypeOK, PcState,
                      SnapshotHolds, HandHolds, LadderHolds
<1>4. ASSUME NEW p \in PositionId, NEW reason \in ExitReason, SellRung(p, reason)
      PROVE  Shape'
  <2>1. <<p, reason>> \in ClientOrderId /\ RecordFill(<<p, reason>>, TRUE)
    BY <1>1, <1>4 DEF ClientOrderId, SellRung
  <2>2. /\ StoreTypeOK' /\ UNCHANGED position /\ RowsAreRungs'
        /\ \A s : In(s)' = In(s)
    BY <1>2, <2>1
  <2>3. sale' \in Int
    BY <1>4 DEF SellRung, Pnl, ExitReason
  <2>4. QED
    BY <1>4, <2>2, <2>3 DEF SellRung, VisitFilled, IsFirst, Shape, TypeOK, PcState,
                            SnapshotHolds, HandHolds, LadderHolds
<1>5. CASE RecordPending
  <2>1. cur \in PositionId /\ pc = "pending_fill"
    BY <1>5 DEF RecordPending, Shape, HandHolds
  <2>2. <<cur, "pending">> \in ClientOrderId /\ RecordFill(<<cur, "pending">>, FALSE)
    BY <1>1, <1>5, <2>1 DEF ClientOrderId, RecordPending
  <2>3. /\ StoreTypeOK' /\ UNCHANGED position /\ RowsAreRungs'
        /\ \A s : In(s)' = In(s)
    BY <1>2, <2>2
  <2>4. /\ ladder' = [ladder EXCEPT !.next = @ + 1] /\ pc' = "rung" /\ cur' = NULL
        /\ UNCHANGED <<config, loopVars, sale>>
    BY <1>5 DEF RecordPending
  <2>5. /\ ladder'.next = ladder.next + 1 /\ ladder.next \in Nat
        /\ ladder'.symbol = ladder.symbol /\ ladder'.group = ladder.group
        /\ ladder'.budget = ladder.budget
        /\ ladder' \in [symbol : Symbol \cup {NULL}, group : PositionId \cup {NULL},
                        next : Nat, budget : Nat, alloc : Nat, at_risk : Nat,
                        deployed : Nat]
    BY <2>4 DEF Shape, TypeOK
  <2>6. TypeOK'
    BY <2>3, <2>4, <2>5 DEF Shape, TypeOK, PcState, loopVars
  <2>7. LadderHolds'
    BY <1>1, <2>1, <2>3, <2>4, <2>5 DEF Shape, LadderHolds, loopVars
  <2>8. QED
    BY <2>1, <2>3, <2>4, <2>6, <2>7 DEF Shape, SnapshotHolds, HandHolds, loopVars
<1>6. QED
  BY <1>3, <1>4, <1>5

(***************************************************************************)
(* Steps that write a rung: closing a stale one, cancelling one, marking   *)
(* one open, its metadata, and closing one that was sold.                  *)
(***************************************************************************)
LEMMA RowShape ==
    ASSUME Shape,
           \/ \E p \in PositionId : RefreshRung(p) \/ CancelRung(p)
           \/ MarkRungOpen \/ UpdateMetadata \/ CloseRung
    PROVE  Shape'
<1> USE DEF Scanning, Placing, InHand
<1>1. position \in Table
  BY TableTypes DEF Shape
<1>2. ASSUME NEW p \in OpenPositions(L2Cascade), NEW r \in Int, ClosePosition(p, r)
      PROVE  /\ StoreTypeOK' /\ RowsAreRungs'
             /\ \A s : In(s)' = In(s) \ {p}
             /\ \A q \in PositionId : position'[q].metadata = position[q].metadata
  <2>1. p \in PositionId
    BY DEF OpenPositions, Live
  <2>2. StoreTypeOK'
    BY <1>2, <2>1, StatementTypes DEF Shape, TypeOK
  <2>3. QED
    BY <1>1, <1>2, <2>2, RungCloses DEF Shape
<1>3. \A s : In(s) \subseteq OpenPositions(L2Cascade) /\ In(s) \subseteq PositionId
  BY InRows DEF In
<1>4. In("opening") \cap In("open") = {}
  BY DEF In
<1>5. ASSUME NEW p \in PositionId, RefreshRung(p)
      PROVE  Shape'
  <2>1. p \in OpenPositions(L2Cascade) /\ ClosePosition(p, 0)
    BY <1>3, <1>5 DEF RefreshRung, IsFirst, Shape, SnapshotHolds
  <2>2. /\ StoreTypeOK' /\ RowsAreRungs'
        /\ \A s : In(s)' = In(s) \ {p}
        /\ \A q \in PositionId : position'[q].metadata = position[q].metadata
    BY <1>2, <2>1
  <2>3. TypeOK'
    BY <1>5, <2>2 DEF RefreshRung, Shape, TypeOK
  <2>4. SnapshotHolds'
    BY <1>3, <1>5, <2>2 DEF RefreshRung, Shape, SnapshotHolds, StaleRungs
  <2>5. QED
    BY <1>5, <2>2, <2>3, <2>4 DEF RefreshRung, Shape, HandHolds, LadderHolds
<1>6. ASSUME NEW p \in PositionId, CancelRung(p)
      PROVE  Shape'
  <2>1. p \in In("opening") /\ ClosePosition(p, 0)
    BY <1>6 DEF CancelRung, VisitPending, IsFirst, Shape, SnapshotHolds
  <2>2. /\ StoreTypeOK' /\ RowsAreRungs'
        /\ \A s : In(s)' = In(s) \ {p}
        /\ \A q \in PositionId : position'[q].metadata = position[q].metadata
    BY <1>2, <1>3, <2>1
  <2>3. TypeOK'
    BY <1>6, <2>2 DEF CancelRung, VisitPending, Shape, TypeOK
  <2>4. SnapshotHolds'
    BY <1>3, <1>4, <1>6, <2>1, <2>2 DEF CancelRung, VisitPending, Shape, SnapshotHolds
  <2>5. QED
    BY <1>6, <2>2, <2>3, <2>4 DEF CancelRung, VisitPending, Shape, HandHolds, LadderHolds
<1>7. CASE MarkRungOpen
  <2>1. cur \in In("opening") /\ MarkPositionOpen(cur)
    BY <1>7 DEF MarkRungOpen, Shape, HandHolds
  <2>2. /\ RowsAreRungs'
        /\ In("opening")' = In("opening") \ {cur}
        /\ In("open")' = In("open") \cup {cur}
        /\ \A q \in PositionId : position'[q].metadata = position[q].metadata
    BY <1>1, <2>1, RungOpens DEF Shape
  <2>3. StoreTypeOK'
    BY <1>3, <2>1, StatementTypes DEF Shape, TypeOK, MarkPositionOpen, PositionState
  <2>4. TypeOK'
    BY <1>7, <2>3 DEF MarkRungOpen, loopVars, Shape, TypeOK, PcState
  <2>5. SnapshotHolds'
    BY <1>3, <1>7, <2>2 DEF MarkRungOpen, loopVars, Shape, SnapshotHolds, HandHolds
  <2>6. QED
    BY <1>7, <2>2, <2>4, <2>5 DEF MarkRungOpen, loopVars, Shape, HandHolds, LadderHolds
<1>8. CASE UpdateMetadata
  <2>1. cur \in In("open")
    BY <1>8 DEF UpdateMetadata, Shape, HandHolds
  <2>2. /\ StoreTypeOK' /\ RowsAreRungs'
        /\ \A s : In(s)' = In(s)
        /\ \A q \in OpenPositions(L2Cascade) :
              position'[q].metadata.design = position[q].metadata.design
    BY <1>8, <2>1, PhaseMoves DEF UpdateMetadata, Shape, TypeOK
  <2>3. TypeOK'
    BY <1>8, <2>2 DEF UpdateMetadata, loopVars, Shape, TypeOK, PcState
  <2>4. SnapshotHolds'
    BY <1>3, <1>8, <2>2 DEF UpdateMetadata, loopVars, Shape, SnapshotHolds
  <2>5. QED
    BY <1>8, <2>2, <2>3, <2>4 DEF UpdateMetadata, loopVars, Shape, HandHolds, LadderHolds
<1>9. CASE CloseRung
  <2>1. cur \in In("open") /\ sale \in Int /\ ClosePosition(cur, sale)
    BY <1>9 DEF CloseRung, Shape, TypeOK, HandHolds
  <2>2. /\ StoreTypeOK' /\ RowsAreRungs'
        /\ \A s : In(s)' = In(s) \ {cur}
        /\ \A q \in PositionId : position'[q].metadata = position[q].metadata
    BY <1>2, <1>3, <2>1
  <2>3. TypeOK'
    BY <1>9, <2>2 DEF CloseRung, loopVars, Shape, TypeOK, PcState
  <2>4. SnapshotHolds'
    BY <1>3, <1>4, <1>9, <2>1, <2>2
       DEF CloseRung, loopVars, Shape, SnapshotHolds, HandHolds
  <2>5. QED
    BY <1>9, <2>2, <2>3, <2>4 DEF CloseRung, loopVars, Shape, HandHolds, LadderHolds
<1>10. QED
  BY <1>5, <1>6, <1>7, <1>8, <1>9

-----------------------------------------------------------------------------
(* The ladder *)

(* The totals and the budget that a ladder is designed with are numbers. *)
LEMMA BudgetTypes ==
    ASSUME TypeOK
    PROVE  /\ LayerAlloc \in Nat /\ TotalAtRisk \in Nat /\ LayerDeployed(L2Cascade) \in Nat
           /\ Budget \in Int
           /\ Budget <= LayerAlloc - LayerDeployed(L2Cascade)
           /\ Budget <= config.design.total
<1>1. TotalAtRisk \in Nat /\ LayerDeployed(L2Cascade) \in Nat
  <2>1. Live \in SUBSET PositionId /\ OpenPositions(L2Cascade) \in SUBSET PositionId
    BY DEF Live, OpenPositions
  <2>2. QED
    BY <2>1, TableTypes, SumType DEF TotalAtRisk, LayerDeployed, Notional
<1>2. LayerAlloc \in Nat
  <2>1. L2Cascade \in Layer
    BY DEF Layer
  <2>2. StaticAlloc[L2Cascade] \in Nat
    BY <2>1, SafeguardsAssumption, L2Assumption
  <2>3. DynamicAlloc \in Nat \cup {NULL}
    BY <2>1 DEF TypeOK, StoreTypeOK, SystemState, DynamicAlloc
  <2>4. QED
    BY <2>2, <2>3 DEF LayerAlloc
<1>3. config.design.total \in Nat
  BY L2Assumption DEF TypeOK, Config, Design
<1> DEFINE left == LayerAlloc - LayerDeployed(L2Cascade)
           total == config.design.total
<1>4. left \in Int /\ total \in Int
  BY <1>1, <1>2, <1>3
<1>5. Budget = IF left < total THEN left ELSE total
  BY DEF Budget
<1> HIDE DEF left, total
<1>6. Budget \in Int /\ Budget <= left /\ Budget <= total
  BY <1>4, <1>5
<1>7. QED
  BY <1>1, <1>2, <1>6 DEF left, total

(* What a rung that passed the safeguards is known to be. *)
LEMMA RungTypes ==
    ASSUME Shape, NEW p, AtRung, RungPasses(p)
    PROVE  /\ RungSize \in 1..MaxPerPosition /\ RungSize \in 0..MaxNotional
           /\ ladder.next \in 1..config.design.levels
           /\ UpTo(ladder.next) = UpTo(ladder.next - 1) + RungSize
           /\ UpTo(ladder.next - 1) \in Nat /\ UpTo(ladder.next) \in Nat
           /\ UpTo(ladder.next) <= ladder.budget
           /\ ladder.at_risk + UpTo(ladder.next - 1) + RungSize <= MaxTotalDeployed
<1>1. /\ config.design.levels \in Nat
      /\ MaxPerPosition \in Nat /\ MaxPerPosition <= MaxNotional /\ MaxNotional \in Nat
  BY L2Assumption, SafeguardsAssumption, StoreAssumption DEF Shape, TypeOK, Config, Design
<1>2. /\ ladder.next \in 1..config.design.levels /\ ladder.budget >= MinPosition
      /\ ladder.at_risk \in Nat
  BY <1>1 DEF AtRung, Shape, TypeOK, LadderHolds, Placing
<1>3. /\ ladder.next - 1 \in 0..config.design.levels
      /\ ladder.next \in 0..config.design.levels
  BY <1>1, <1>2
<1>4. /\ UpTo(ladder.next - 1) \in Nat /\ UpTo(ladder.next) \in Nat
      /\ UpTo(ladder.next) <= ladder.budget
  BY <1>2, <1>3, SizesAddUp DEF Shape
<1>5. RungSize = UpTo(ladder.next) - UpTo(ladder.next - 1)
  BY DEF RungSize
<1> HIDE DEF RungSize, UpTo
<1>6. /\ RungSize > 0 /\ RungSize <= MaxPerPosition
      /\ ladder.at_risk + UpTo(ladder.next - 1) + RungSize <= MaxTotalDeployed
  BY DEF RungPasses, CheckOrder, RungOrder
<1>7. QED
  BY <1>1, <1>2, <1>4, <1>5, <1>6

(* The row that is inserted for it. *)
LEMMA PlaceWrites ==
    ASSUME Shape, NEW p \in PositionId, PlaceRung(p)
    PROVE  /\ StoreTypeOK' /\ RowsAreRungs'
           /\ position[p].state = "absent" /\ position'[p].state = "opening"
           /\ position'[p].layer = L2Cascade
           /\ position'[p].notional = RungSize
           /\ position'[p].metadata = [symbol |-> ladder.symbol, group |-> ladder.group,
                                       rung |-> ladder.next, design |-> config.design,
                                       phase |-> "pending_rung"]
           /\ In("opening")' = In("opening") \cup {p} /\ p \notin OpenPositions(L2Cascade)
           /\ In("open")' = In("open")
           /\ OpenPositions(L2Cascade)' = OpenPositions(L2Cascade) \cup {p}
           /\ \A q \in PositionId \ {p} : position'[q] = position[q]
<1> DEFINE md == [symbol |-> ladder.symbol, group |-> ladder.group,
                  rung |-> ladder.next, design |-> config.design,
                  phase |-> "pending_rung"]
<1>1. AtRung /\ RungPasses(p) /\ CreatePosition(p, L2Cascade, RungSize, md)
  BY DEF PlaceRung
<1>2. RungSize \in 0..MaxNotional /\ ladder.next \in 1..config.design.levels
  BY <1>1, RungTypes
<1>3. ladder.symbol \in Symbol /\ ladder.group \in PositionId /\ config \in Configs
  BY <1>1 DEF AtRung, Shape, TypeOK, LadderHolds, Placing
<1>4. md \in RungMetadata({config.design}, 1..config.design.levels)
  BY <1>2, <1>3 DEF RungMetadata, Phase
<1> HIDE DEF md, RungSize
<1>5. IsRung(md) /\ md \in Metadata
  BY <1>3, <1>4, L2Assumption DEF IsRung
<1>6. position \in Table /\ L2Cascade \in Layer /\ RowsAreRungs /\ StoreTypeOK
  BY TableTypes DEF Shape, TypeOK, Layer
<1>7. StoreTypeOK'
  BY <1>1, <1>2, <1>5, <1>6, StatementTypes
<1>8. /\ RowsAreRungs'
      /\ position[p].state = "absent" /\ position'[p].state = "opening"
      /\ position'[p].metadata = md /\ position'[p].layer = L2Cascade
      /\ position'[p].notional = RungSize
      /\ In("opening")' = In("opening") \cup {p} /\ p \notin OpenPositions(L2Cascade)
      /\ In("open")' = In("open")
      /\ OpenPositions(L2Cascade)' = OpenPositions(L2Cascade) \cup {p}
      /\ \A q \in PositionId \ {p} : position'[q] = position[q]
  BY <1>1, <1>2, <1>5, <1>6, RungCreated
<1>9. QED
  BY <1>7, <1>8 DEF md

(* Designing a ladder writes no row; placing a rung inserts one. *)
LEMMA LadderShape ==
    ASSUME Shape, NEW p \in PositionId,
           PlaceRung(p) \/ \E s \in Symbol : DesignLadder(s, p)
    PROVE  Shape'
<1> USE DEF Scanning, Placing, InHand
<1>1. CASE PlaceRung(p)
  <2>1. /\ StoreTypeOK' /\ RowsAreRungs'
        /\ In("opening")' = In("opening") \cup {p}
        /\ pc = "rung" /\ pc' = "pending_fill" /\ cur' = p
        /\ UNCHANGED <<config, loopVars, sale, ladder>>
        /\ ladder.next \in 1..config.design.levels
    BY <1>1, PlaceWrites, RungTypes DEF PlaceRung, AtRung
  <2>2. TypeOK'
    BY <2>1 DEF Shape, TypeOK, PcState, loopVars
  <2>3. SnapshotHolds'
    BY <2>1 DEF Shape, SnapshotHolds, loopVars
  <2>4. HandHolds' /\ LadderHolds'
    BY <2>1 DEF Shape, HandHolds, LadderHolds, loopVars
  <2>5. QED
    BY <2>1, <2>2, <2>3, <2>4 DEF Shape
<1>2. ASSUME NEW s \in Symbol, DesignLadder(s, p)
      PROVE  Shape'
  <2>1. /\ UNCHANGED <<position, storeVars, config, to_refresh, to_pending, to_filled,
                       held, cur, sale>>
        /\ pc = "scan" /\ pc' = "rung" /\ to_scan' = to_scan \ {s}
        /\ ladder' = [symbol |-> s, group |-> p, next |-> 1, budget |-> Budget,
                      alloc |-> LayerAlloc, at_risk |-> TotalAtRisk,
                      deployed |-> LayerDeployed(L2Cascade)]
        /\ Budget >= MinPosition
    BY <1>2 DEF DesignLadder, VisitSymbol, storeVars
  <2>2. /\ LayerAlloc \in Nat /\ TotalAtRisk \in Nat /\ LayerDeployed(L2Cascade) \in Nat
        /\ Budget \in Nat /\ MinPosition \in Nat
    BY <2>1, BudgetTypes, L2Assumption DEF Shape
  <2>3. StoreTypeOK' /\ RowsAreRungs' /\ \A st : In(st)' = In(st)
    BY <2>1, SameRows, StatementTypes DEF Shape, TypeOK
  <2> HIDE DEF Budget, LayerAlloc, TotalAtRisk, LayerDeployed
  <2>4. /\ ladder'.symbol = s /\ ladder'.group = p /\ ladder'.next = 1
        /\ ladder'.budget = Budget
        /\ ladder' \in [symbol : Symbol \cup {NULL}, group : PositionId \cup {NULL},
                        next : Nat, budget : Nat, alloc : Nat, at_risk : Nat,
                        deployed : Nat]
    BY <2>1, <2>2
  <2>5. TypeOK'
    BY <2>1, <2>3, <2>4 DEF Shape, TypeOK, PcState
  <2>6. 1 \in 1..(config.design.levels + 1)
    BY L2Assumption DEF Shape, TypeOK, Config, Design
  <2>7. LadderHolds'
    BY <2>1, <2>4, <2>6 DEF LadderHolds
  <2>8. SnapshotHolds' /\ HandHolds'
    BY <2>1, <2>3 DEF Shape, SnapshotHolds, HandHolds
  <2>9. QED
    BY <2>3, <2>5, <2>7, <2>8 DEF Shape
<1>3. QED
  BY <1>1, <1>2

LEMMA BetweenShape ==
    ASSUME Shape, BetweenRuns
    PROVE  Shape'
<1> USE DEF Scanning, Placing, InHand
<1>1. pc = "idle" /\ UNCHANGED <<pc, loopVars, cur, sale, ladder>>
  BY DEF BetweenRuns
<1>2. StoreTypeOK' /\ RowsAreRungs' /\ (\A s : In(s)' = In(s)) /\ config' \in Configs
  <2>1. ASSUME NEW p \in PositionId, Elsewhere(p), UNCHANGED config
        PROVE  StoreTypeOK' /\ RowsAreRungs' /\ (\A s : In(s)' = In(s)) /\ config' \in Configs
    BY <2>1, ElsewhereRungs DEF Shape, TypeOK
  <2>2. ASSUME config' \in Configs, UNCHANGED storeVars
        PROVE  StoreTypeOK' /\ RowsAreRungs' /\ (\A s : In(s)' = In(s)) /\ config' \in Configs
    BY <2>2, SameRows, StatementTypes DEF Shape, TypeOK, storeVars
  <2>3. QED
    BY <2>1, <2>2 DEF BetweenRuns
<1>3. TypeOK'
  BY <1>1, <1>2 DEF Shape, TypeOK, loopVars
<1>4. QED
  BY <1>1, <1>2, <1>3 DEF Shape, SnapshotHolds, HandHolds, LadderHolds, loopVars

LEMMA ShapeStep == Shape /\ [Next]_vars => Shape'
<1> SUFFICES ASSUME Shape, [Next]_vars
             PROVE  Shape'
  OBVIOUS
<1>1. CASE UNCHANGED vars
  <2>1. UNCHANGED position /\ RowsAreRungs' /\ (\A s : In(s)' = In(s)) /\ StoreTypeOK'
    BY <1>1, SameRows, StatementTypes DEF vars, Shape, TypeOK, storeVars
  <2>2. QED
    BY <1>1, <2>1 DEF vars, Shape, TypeOK, SnapshotHolds, HandHolds, LadderHolds, StaleRungs
<1>2. CASE StartRun \/ Interrupt
  BY <1>2, CursorShape
<1>3. CASE BetweenRuns
  BY <1>3, BetweenShape
<1>4. CASE RunStep
  BY <1>4, CursorShape, FillShape, RowShape, LadderShape DEF RunStep
<1>5. QED
  BY <1>1, <1>2, <1>3, <1>4 DEF Next

(* Shape holds in every reachable state. *)
LEMMA ShapeHolds == Spec => []Shape
BY ShapeInit, ShapeStep, PTL DEF Spec

(***************************************************************************)
(* Types: each column and each local keeps its type through every run, cut *)
(* at any await and resumed under other settings.                          *)
(***************************************************************************)
THEOREM TypeCorrect == Spec => []TypeOK
<1>1. Shape => TypeOK
  BY DEF Shape
<1>2. QED
  BY <1>1, ShapeHolds, PTL

-----------------------------------------------------------------------------
(* One ladder per symbol *)

(***************************************************************************)
(* Only placing a rung adds to the live rungs, and no step gives a live    *)
(* rung another symbol, ladder or place in it.                             *)
(***************************************************************************)
LEMMA RungsStay ==
    ASSUME Shape, [Next]_vars, ~ \E p \in PositionId : PlaceRung(p)
    PROVE  /\ OpenPositions(L2Cascade)' \subseteq OpenPositions(L2Cascade)
           /\ \A q \in OpenPositions(L2Cascade)' :
                 /\ position'[q].metadata.symbol = position[q].metadata.symbol
                 /\ position'[q].metadata.group = position[q].metadata.group
                 /\ position'[q].metadata.rung = position[q].metadata.rung
<1> DEFINE Goal ==
           /\ OpenPositions(L2Cascade)' \subseteq OpenPositions(L2Cascade)
           /\ \A q \in OpenPositions(L2Cascade)' :
                 /\ position'[q].metadata.symbol = position[q].metadata.symbol
                 /\ position'[q].metadata.group = position[q].metadata.group
                 /\ position'[q].metadata.rung = position[q].metadata.rung
<1> SUFFICES Goal
  OBVIOUS
<1>1. /\ position \in Table
      /\ \A s : In(s) \subseteq OpenPositions(L2Cascade)
      /\ OpenPositions(L2Cascade) \subseteq PositionId
  BY TableTypes DEF Shape, In, OpenPositions, Live
<1>2. ASSUME UNCHANGED position
      PROVE  Goal
  BY <1>2, SameRows
<1>3. ASSUME NEW p \in OpenPositions(L2Cascade), NEW r \in Int, ClosePosition(p, r)
      PROVE  Goal
  BY <1>1, <1>3, RungCloses DEF Shape
<1>4. ASSUME NEW p \in PositionId, RefreshRung(p) \/ CancelRung(p)
      PROVE  Goal
  <2>1. p \in OpenPositions(L2Cascade) /\ ClosePosition(p, 0)
    BY <1>1, <1>4 DEF RefreshRung, CancelRung, VisitPending, IsFirst, Shape, SnapshotHolds
  <2>2. QED
    BY <1>3, <2>1
<1>5. CASE MarkRungOpen
  <2>1. cur \in In("opening") /\ MarkPositionOpen(cur)
    BY <1>5 DEF MarkRungOpen, Shape, HandHolds
  <2>2. QED
    BY <1>1, <2>1, RungOpens DEF Shape
<1>6. CASE UpdateMetadata
  <2>1. cur \in In("open")
    BY <1>6 DEF UpdateMetadata, Shape, HandHolds
  <2>2. QED
    BY <1>6, <2>1, PhaseMoves DEF UpdateMetadata, Shape, TypeOK
<1>7. CASE CloseRung
  <2>1. cur \in OpenPositions(L2Cascade) /\ sale \in Int /\ ClosePosition(cur, sale)
    BY <1>1, <1>7 DEF CloseRung, Shape, TypeOK, HandHolds
  <2>2. QED
    BY <1>3, <2>1
<1>8. CASE BetweenRuns
  <2>1. ASSUME NEW p \in PositionId, Elsewhere(p)
        PROVE  Goal
    <3>1. OpenPositions(L2Cascade)' = OpenPositions(L2Cascade)
      BY <2>1, ElsewhereRungs DEF Shape
    <3>2. \A q \in OpenPositions(L2Cascade) : position'[q] = position[q]
      BY <2>1, ElsewhereRungs DEF Shape, OpenPositions, Live, LiveState
    <3>3. QED
      BY <3>1, <3>2
  <2>2. QED
    BY <1>2, <1>8, <2>1 DEF BetweenRuns, storeVars
<1>9. CASE StartRun \/ Interrupt \/ UNCHANGED vars
  BY <1>2, <1>9 DEF StartRun, Interrupt, vars, storeVars
<1>10. ASSUME \/ RefreshDone \/ PendingDone \/ FilledDone \/ RefuseRung \/ LadderDone
              \/ RunDone \/ RecordPending
              \/ \E p \in PositionId : KeepRung(p) \/ KeepFilled(p) \/ FillRung(p)
              \/ \E p \in PositionId, reason \in ExitReason : SellRung(p, reason)
              \/ \E s \in Symbol : PassSymbol(s)
              \/ \E s \in Symbol, p \in PositionId : DesignLadder(s, p)
       PROVE  Goal
  BY <1>2, <1>10
     DEF RefreshDone, PendingDone, FilledDone, RefuseRung, LadderDone, RunDone,
         RecordPending, RecordFill, KeepRung, KeepFilled, FillRung, SellRung,
         PassSymbol, VisitSymbol, DesignLadder, storeVars
<1> HIDE DEF Goal
<1>11. QED
  BY <1>4, <1>5, <1>6, <1>7, <1>8, <1>9, <1>10 DEF Next, RunStep

(* The first clause, which the steps below share. *)
LEMMA LaddersStay ==
    ASSUME OneLadderPerSymbol,
           OpenPositions(L2Cascade)' \subseteq OpenPositions(L2Cascade),
           \A q \in OpenPositions(L2Cascade)' :
              /\ position'[q].metadata.symbol = position[q].metadata.symbol
              /\ position'[q].metadata.group = position[q].metadata.group
              /\ position'[q].metadata.rung = position[q].metadata.rung
    PROVE  OneLadderPerSymbol'
BY DEF OneLadderPerSymbol, Rungs

(***************************************************************************)
(* A ladder is only designed for a symbol that no live rung is on: one     *)
(* that is not held, and that the scan, which takes a symbol at a time,    *)
(* has not been to.                                                        *)
(***************************************************************************)
LEMMA DesignIsFirst ==
    ASSUME LaddersInv, NEW s, NEW p, DesignLadder(s, p)
    PROVE  \A q \in OpenPositions(L2Cascade) : position[q].metadata.symbol # s
BY DEF LaddersInv, HeldCovers, DesignLadder, VisitSymbol, IsFirst, Scanning

LEMMA LaddersStep ==
    ASSUME Shape, LaddersInv, [Next]_vars
    PROVE  LaddersInv'
<1> USE DEF Scanning, Placing
<1> DEFINE sym(q) == position[q].metadata.symbol
<1>1. CASE \E p \in PositionId : PlaceRung(p)
  <2>1. PICK p \in PositionId : PlaceRung(p)
    BY <1>1
  <2>2. /\ position'[p].metadata.symbol = ladder.symbol
        /\ position'[p].metadata.group = ladder.group
        /\ position'[p].metadata.rung = ladder.next
        /\ p \notin OpenPositions(L2Cascade)
        /\ OpenPositions(L2Cascade)' = OpenPositions(L2Cascade) \cup {p}
        /\ \A q \in PositionId \ {p} : position'[q] = position[q]
    BY <2>1, PlaceWrites
  <2>3. /\ pc = "rung" /\ pc' = "pending_fill"
        /\ UNCHANGED <<loopVars, ladder>>
        /\ ladder.next \in Nat /\ ladder.symbol \notin to_scan
    BY <2>1 DEF PlaceRung, AtRung, Shape, TypeOK, LadderHolds
  <2>4. \A q \in OpenPositions(L2Cascade) :
            /\ position'[q] = position[q] /\ q # p
            /\ position[q].metadata.rung \in Nat
            /\ sym(q) = ladder.symbol => /\ position[q].metadata.group = ladder.group
                                         /\ position[q].metadata.rung < ladder.next
    BY <2>2, <2>3, HeldTypes DEF Shape, LaddersInv, EarlierRungs, OpenPositions, Live
  <2>5. OneLadderPerSymbol'
    <3> SUFFICES ASSUME NEW q \in OpenPositions(L2Cascade)', NEW r \in OpenPositions(L2Cascade)',
                        position'[q].metadata.symbol = position'[r].metadata.symbol
                 PROVE  /\ position'[q].metadata.group = position'[r].metadata.group
                        /\ q # r => position'[q].metadata.rung # position'[r].metadata.rung
      BY DEF OneLadderPerSymbol, Rungs
    <3>1. CASE q # p /\ r # p
      BY <2>2, <2>4, <3>1 DEF LaddersInv, OneLadderPerSymbol, Rungs
    <3>2. CASE q = p \/ r = p
      BY <2>2, <2>3, <2>4, <3>2
    <3>3. QED
      BY <3>1, <3>2
  <2>6. HeldCovers'
    BY <2>2, <2>3, <2>4 DEF LaddersInv, HeldCovers, loopVars
  <2>7. EarlierRungs'
    BY <2>2, <2>3, <2>4 DEF EarlierRungs
  <2>8. QED
    BY <2>5, <2>6, <2>7 DEF LaddersInv
<1>2. CASE ~ \E p \in PositionId : PlaceRung(p)
  <2>1. /\ OpenPositions(L2Cascade)' \subseteq OpenPositions(L2Cascade)
        /\ \A q \in OpenPositions(L2Cascade)' :
              /\ position'[q].metadata.symbol = position[q].metadata.symbol
              /\ position'[q].metadata.group = position[q].metadata.group
              /\ position'[q].metadata.rung = position[q].metadata.rung
    BY <1>2, RungsStay
  <2>2. OneLadderPerSymbol'
    BY <2>1, LaddersStay DEF LaddersInv
  <2>3. CASE StartRun \/ RunDone \/ Interrupt \/ BetweenRuns
    BY <2>2, <2>3 DEF LaddersInv, StartRun, RunDone, Interrupt, BetweenRuns,
                      HeldCovers, EarlierRungs
  <2>4. CASE RefreshDone
    <3>1. held' = HeldSymbols /\ pc' = "pending" /\ UNCHANGED position
      BY <2>4 DEF RefreshDone, Snapshot, storeVars
    <3>2. \A q \in OpenPositions(L2Cascade)' : position'[q].metadata.symbol \in held'
      BY <2>1, <3>1 DEF HeldSymbols
    <3>3. QED
      BY <2>2, <3>1, <3>2 DEF LaddersInv, HeldCovers, EarlierRungs
  <2>5. ASSUME UNCHANGED held, pc # "idle", pc # "refresh",
               pc' \notin Placing, pc \in Scanning => pc' \in Scanning,
               pc \in Scanning => to_scan' \subseteq to_scan
        PROVE  LaddersInv'
    BY <2>1, <2>2, <2>5 DEF LaddersInv, HeldCovers, EarlierRungs
  <2>6. CASE \/ PendingDone \/ FilledDone \/ LadderDone
             \/ MarkRungOpen \/ UpdateMetadata \/ CloseRung
             \/ \E p \in PositionId : KeepRung(p) \/ KeepFilled(p) \/ FillRung(p)
                                        \/ CancelRung(p)
             \/ \E p \in PositionId, reason \in ExitReason : SellRung(p, reason)
             \/ \E s \in Symbol : PassSymbol(s)
    BY <2>5, <2>6
       DEF PendingDone, FilledDone, LadderDone, MarkRungOpen, UpdateMetadata, CloseRung,
           KeepRung, KeepFilled, FillRung, CancelRung, VisitPending, VisitFilled,
           SellRung, PassSymbol, VisitSymbol, loopVars
  <2>7. CASE \E p \in PositionId : RefreshRung(p)
    BY <2>2, <2>7 DEF RefreshRung, LaddersInv, HeldCovers, EarlierRungs
  <2>8. CASE RefuseRung \/ RecordPending
    <3>1. /\ pc \in Placing /\ pc' = "rung"
          /\ ladder' = [ladder EXCEPT !.next = @ + 1]
          /\ UNCHANGED <<held, to_scan>>
          /\ UNCHANGED position
      BY <2>8 DEF RefuseRung, AtRung, RecordPending, RecordFill, loopVars, storeVars
    <3>2. /\ ladder'.next = ladder.next + 1 /\ ladder.next \in Nat
          /\ ladder'.symbol = ladder.symbol /\ ladder'.group = ladder.group
      BY <3>1 DEF Shape, TypeOK
    <3>3. \A q \in OpenPositions(L2Cascade) : position[q].metadata.rung \in Nat
      BY HeldTypes DEF Shape
    <3>4. EarlierRungs'
      BY <2>1, <3>1, <3>2, <3>3 DEF LaddersInv, EarlierRungs
    <3>5. HeldCovers'
      BY <2>1, <3>1 DEF LaddersInv, HeldCovers
    <3>6. QED
      BY <2>2, <3>4, <3>5 DEF LaddersInv
  <2>9. ASSUME NEW s \in Symbol, NEW p \in PositionId, DesignLadder(s, p)
        PROVE  LaddersInv'
    <3>1. pc = "scan" /\ pc' = "rung" /\ ladder'.symbol = s /\ to_scan' = to_scan \ {s}
          /\ UNCHANGED held
      BY <2>9 DEF DesignLadder, VisitSymbol
    <3>2. \A q \in OpenPositions(L2Cascade)' : position'[q].metadata.symbol # s
      BY <2>1, <2>9, DesignIsFirst
    <3>3. HeldCovers' /\ EarlierRungs'
      BY <2>1, <3>1, <3>2 DEF LaddersInv, HeldCovers, EarlierRungs
    <3>4. QED
      BY <2>2, <3>3 DEF LaddersInv
  <2>10. CASE UNCHANGED vars
    BY <2>1, <2>2, <2>10 DEF vars, LaddersInv, HeldCovers, EarlierRungs, loopVars
  <2>11. QED
    BY <1>2, <2>3, <2>4, <2>6, <2>7, <2>8, <2>9, <2>10 DEF Next, RunStep
<1>3. QED
  BY <1>1, <1>2

(***************************************************************************)
(* No symbol ever carries two ladders, whatever runs were cut short while  *)
(* a ladder was placed, refreshed or filled.                               *)
(***************************************************************************)
THEOREM OneLadder == Spec => []OneLadderPerSymbol
<1>1. Init => LaddersInv
  <2>1. Init => OpenPositions(L2Cascade) = {}
    BY DEF Init, StoreInit, NoRow, OpenPositions, Live, LiveState
  <2>2. QED
    BY <2>1 DEF Init, LaddersInv, OneLadderPerSymbol, Rungs, HeldCovers, EarlierRungs, Placing
<1>2. Shape /\ LaddersInv /\ [Next]_vars => LaddersInv'
  BY LaddersStep
<1>3. LaddersInv => OneLadderPerSymbol
  BY DEF LaddersInv
<1>4. QED
  BY <1>1, <1>2, <1>3, ShapeHolds, PTL DEF Spec

-----------------------------------------------------------------------------
(* Who writes a row, and what becomes of it *)

(***************************************************************************)
(* A row that changes is inserted by PlaceRung, is a live rung that is     *)
(* closed, filled or given its metadata, or is another layer's and no run  *)
(* of this layer is going on.                                              *)
(***************************************************************************)
RungWrite(q) ==
    /\ q \in OpenPositions(L2Cascade)
    /\ position'[q].layer = position[q].layer
    /\ position'[q].notional = position[q].notional
    /\ \/ position'[q].state = "closed"
       \/ position'[q].state = position[q].state
       \/ position[q].metadata.design = config.design /\ position'[q].state = "open"

OthersWrite(q) ==
    /\ BetweenRuns
    /\ position'[q].layer = L1Funding
    /\ position[q].state = "absent" \/ position[q].layer = L1Funding
    /\ position[q].state # "closed" /\ position'[q].state # "absent"

LEMMA RowWrites ==
    ASSUME Shape, [Next]_vars, NEW q \in PositionId, position'[q] # position[q]
    PROVE  PlaceRung(q) \/ RungWrite(q) \/ OthersWrite(q)
<1>1. position \in Table /\ \A s : In(s) \subseteq OpenPositions(L2Cascade)
  BY TableTypes DEF Shape, In
<1>2. ASSUME NEW p \in OpenPositions(L2Cascade), NEW r \in Int, ClosePosition(p, r)
      PROVE  RungWrite(q)
  <2>1. p \in PositionId
    BY DEF OpenPositions, Live
  <2>2. /\ position'[p].state = "closed"
        /\ \A x \in PositionId \ {p} : position'[x] = position[x]
        /\ \A x \in PositionId : /\ position'[x].layer = position[x].layer
                                 /\ position'[x].notional = position[x].notional
    BY <1>1, <1>2, <2>1, CloseWrites
  <2>3. QED
    BY <2>2 DEF RungWrite
<1>3. ASSUME NEW p \in PositionId, RefreshRung(p) \/ CancelRung(p)
      PROVE  RungWrite(q)
  <2>1. p \in OpenPositions(L2Cascade) /\ ClosePosition(p, 0)
    BY <1>1, <1>3 DEF RefreshRung, CancelRung, VisitPending, IsFirst, Shape, SnapshotHolds
  <2>2. QED
    BY <1>2, <2>1
<1>4. CASE CloseRung
  <2>1. cur \in OpenPositions(L2Cascade) /\ sale \in Int /\ ClosePosition(cur, sale)
    BY <1>1, <1>4 DEF CloseRung, Shape, TypeOK, HandHolds, InHand
  <2>2. QED
    BY <1>2, <2>1
<1>5. CASE MarkRungOpen
  <2>1. /\ cur \in OpenPositions(L2Cascade) /\ cur \in PositionId
        /\ position[cur].metadata.design = config.design
        /\ SetPositionState(cur, "open")
    BY <1>1, <1>5, InRows DEF MarkRungOpen, MarkPositionOpen, Shape, HandHolds
  <2>2. /\ position'[cur].state = "open"
        /\ \A x \in PositionId \ {cur} : position'[x] = position[x]
        /\ \A x \in PositionId : /\ position'[x].layer = position[x].layer
                                 /\ position'[x].notional = position[x].notional
    BY <1>1, <2>1, SetStateWrites DEF PositionState
  <2>3. QED
    BY <2>1, <2>2 DEF RungWrite
<1>6. CASE UpdateMetadata
  <2>1. cur \in In("open")
    BY <1>6 DEF UpdateMetadata, Shape, HandHolds
  <2>2. /\ \A x \in PositionId \ {cur} : position'[x] = position[x]
        /\ \A x \in PositionId : /\ position'[x].state = position[x].state
                                 /\ position'[x].layer = position[x].layer
                                 /\ position'[x].notional = position[x].notional
    BY <1>6, <2>1, PhaseMoves DEF UpdateMetadata, Shape, TypeOK
  <2>3. QED
    BY <1>1, <2>1, <2>2 DEF RungWrite
<1>7. ASSUME NEW p \in PositionId, PlaceRung(p)
      PROVE  PlaceRung(q)
  BY <1>7, PlaceWrites
<1>8. CASE BetweenRuns
  <2>1. PICK p \in PositionId : Elsewhere(p)
    BY <1>8 DEF BetweenRuns, storeVars
  <2>2. QED
    BY <1>8, <2>1, ElsewhereWrites DEF Shape, OthersWrite
<1>9. CASE \/ StartRun \/ Interrupt \/ UNCHANGED vars
           \/ RefreshDone \/ PendingDone \/ FilledDone \/ RefuseRung \/ LadderDone
           \/ RunDone \/ RecordPending
           \/ \E p \in PositionId : KeepRung(p) \/ KeepFilled(p) \/ FillRung(p)
           \/ \E p \in PositionId, reason \in ExitReason : SellRung(p, reason)
           \/ \E s \in Symbol : PassSymbol(s)
           \/ \E s \in Symbol, p \in PositionId : DesignLadder(s, p)
  BY <1>9
     DEF StartRun, Interrupt, vars, RefreshDone, PendingDone, FilledDone, RefuseRung,
         LadderDone, RunDone, RecordPending, RecordFill, KeepRung, KeepFilled, FillRung,
         SellRung, PassSymbol, VisitSymbol, DesignLadder, storeVars
<1>10. QED
  BY <1>3, <1>4, <1>5, <1>6, <1>7, <1>8, <1>9 DEF Next, RunStep

(***************************************************************************)
(* A closed rung, or any closed row, is never written again: every handler *)
(* writes rows that are still in the state in which it read them.          *)
(***************************************************************************)
THEOREM ClosedStaysClosed == Spec => ClosedIsFinal
<1>1. ASSUME Shape, [Next]_vars, NEW p \in PositionId, position[p].state = "closed"
      PROVE  position'[p] = position[p]
  <2>1. ~ PlaceRung(p)
    BY <1>1 DEF PlaceRung, CreatePosition, IsNextId
  <2>2. p \notin OpenPositions(L2Cascade)
    BY <1>1 DEF OpenPositions, Live, LiveState
  <2>3. QED
    BY <1>1, <2>1, <2>2, RowWrites DEF RungWrite, OthersWrite
<1>2. Shape /\ [Next]_vars =>
         \A p \in PositionId : position[p].state = "closed" => position'[p] = position[p]
  BY <1>1
<1>3. QED
  BY <1>2, ShapeHolds, PTL DEF Spec, ClosedIsFinal

(***************************************************************************)
(* A rung only fills at the design of the running settings: what was left  *)
(* of a ladder by a process with other settings is closed before the first *)
(* rung is looked at.                                                      *)
(***************************************************************************)
THEOREM FillsAtItsDesign == Spec => FilledAtCurrentDesign
<1>1. ASSUME Shape, [Next]_vars, NEW p \in PositionId,
             position[p].state = "opening", position'[p].state = "open",
             position[p].layer = L2Cascade
      PROVE  position[p].metadata.design = config.design
  <2>1. position'[p] # position[p] /\ ~ PlaceRung(p)
    BY <1>1 DEF PlaceRung, CreatePosition, IsNextId
  <2>2. ~ OthersWrite(p)
    BY <1>1 DEF OthersWrite, L1Funding, L2Cascade
  <2>3. RungWrite(p)
    BY <1>1, <2>1, <2>2, RowWrites
  <2>4. QED
    BY <1>1, <2>3 DEF RungWrite
<1>2. Shape /\ [Next]_vars =>
         \A p \in PositionId :
             position[p].state = "opening" /\ position'[p].state = "open"
                /\ position[p].layer = L2Cascade
             => position[p].metadata.design = config.design
  BY <1>1
<1>3. QED
  BY <1>2, ShapeHolds, PTL DEF Spec, FilledAtCurrentDesign

-----------------------------------------------------------------------------
(* The caps, against totals read before the first rung of a ladder *)

(* A run gives rows away, and takes one only when it places a rung. *)
LEMMA RunGains ==
    ASSUME Shape, [Next]_vars, ~ BetweenRuns, ~ \E p \in PositionId : PlaceRung(p)
    PROVE  /\ TotalAtRisk' <= TotalAtRisk
           /\ LayerDeployed(L2Cascade)' <= LayerDeployed(L2Cascade)
<1>1. \A q \in PositionId : position'[q] = position[q] \/ RungWrite(q)
  BY RowWrites DEF OthersWrite
<1>2. position \in Table /\ position' \in Table
  <2>1. Shape'
    BY ShapeStep
  <2>2. QED
    BY <2>1 DEF Shape, TypeOK, StoreTypeOK, Table
<1>3. Live' \subseteq Live
  BY <1>1 DEF RungWrite, OpenPositions, Live
<1>4. \A q \in PositionId : /\ position'[q].notional = position[q].notional
                            /\ q \in Live' => position'[q].layer = position[q].layer
  BY <1>1 DEF RungWrite
<1>5. QED
  BY <1>2, <1>3, <1>4, NothingGains

(* Nor is the layer's allocation written in a run, or a setting. *)
LEMMA RunKeepsAlloc ==
    ASSUME [Next]_vars, ~ BetweenRuns
    PROVE  /\ config' = config
           /\ system_state'.dynamic_alloc = system_state.dynamic_alloc
           /\ LayerAlloc' = LayerAlloc
<1>1. \A p, r : ClosePosition(p, r) =>
                    system_state'.dynamic_alloc = system_state.dynamic_alloc
  BY DEF ClosePosition
<1>2. /\ config' = config
      /\ system_state'.dynamic_alloc = system_state.dynamic_alloc
  BY <1>1
     DEF Next, RunStep, vars, storeVars, StartRun, Interrupt, RefreshRung, KeepRung,
         CancelRung, FillRung, VisitPending, KeepFilled, SellRung, VisitFilled, DesignLadder,
         PlaceRung, CreatePosition, PassSymbol, VisitSymbol, RefreshDone, MarkRungOpen,
         MarkPositionOpen, SetPositionState, UpdateMetadata, PendingDone, CloseRung,
         FilledDone, RefuseRung, RecordPending, RecordFill, LadderDone, RunDone
<1>3. QED
  BY <1>2 DEF LayerAlloc, DynamicAlloc

(***************************************************************************)
(* While a ladder is placed its totals and budget are those it was         *)
(* designed with, and what its earlier rungs may have cost only grows.     *)
(***************************************************************************)
LEMMA SpentGrows ==
    ASSUME Shape, [Next]_vars, pc \in Placing, pc' \in Placing
    PROVE  /\ ~ BetweenRuns
           /\ ladder'.budget = ladder.budget /\ ladder'.at_risk = ladder.at_risk
           /\ ladder'.deployed = ladder.deployed /\ ladder'.alloc = ladder.alloc
           /\ Spent \in Nat /\ Spent' \in Nat /\ Spent <= Spent'
           /\ \A p \in PositionId : PlaceRung(p) => Spent' = Spent + RungSize
<1> USE DEF Placing
<1>1. /\ config \in Configs
      /\ ladder.budget \in Nat /\ ladder.budget >= MinPosition
      /\ config.design.levels \in Nat
      /\ ladder.next \in 1..(config.design.levels + 1)
      /\ pc = "pending_fill" => ladder.next <= config.design.levels
      /\ ladder \in [symbol : Symbol \cup {NULL}, group : PositionId \cup {NULL},
                     next : Nat, budget : Nat, alloc : Nat, at_risk : Nat, deployed : Nat]
  BY L2Assumption DEF Shape, TypeOK, LadderHolds, Config, Design
<1>2. /\ \/ pc = "rung" /\ pc' = "rung" /\ ladder'.next = ladder.next + 1
            /\ ladder.next <= config.design.levels
         \/ pc = "rung" /\ pc' = "pending_fill" /\ ladder'.next = ladder.next
            /\ ladder.next <= config.design.levels
         \/ pc = "pending_fill" /\ pc' = "rung" /\ ladder'.next = ladder.next + 1
         \/ pc' = pc /\ ladder'.next = ladder.next
      /\ \A p \in PositionId : PlaceRung(p) => pc = "rung" /\ pc' = "pending_fill"
      /\ config' = config /\ ~ BetweenRuns
      /\ ladder'.budget = ladder.budget /\ ladder'.at_risk = ladder.at_risk
      /\ ladder'.deployed = ladder.deployed /\ ladder'.alloc = ladder.alloc
  <2>1. CASE RefuseRung \/ RecordPending \/ UNCHANGED vars
    BY <1>1, <2>1 DEF RefuseRung, AtRung, RecordPending, BetweenRuns, vars, PlaceRung
  <2>2. ASSUME NEW p \in PositionId, PlaceRung(p)
        PROVE  /\ pc = "rung" /\ pc' = "pending_fill" /\ UNCHANGED <<ladder, config>>
               /\ ladder.next <= config.design.levels
    BY <2>2 DEF PlaceRung, AtRung
  <2>3. \/ RefuseRung \/ RecordPending \/ UNCHANGED vars
        \/ \E p \in PositionId : PlaceRung(p)
    BY DEF Next, RunStep, StartRun, Interrupt, BetweenRuns, RefreshRung, KeepRung,
           CancelRung, FillRung, VisitPending, KeepFilled, SellRung, VisitFilled,
           DesignLadder, PassSymbol, VisitSymbol, RefreshDone, MarkRungOpen,
           UpdateMetadata, PendingDone, CloseRung, FilledDone, LadderDone, RunDone
  <2>4. QED
    BY <2>1, <2>2, <2>3 DEF BetweenRuns
<1>3. \A n : UpTo(n)' = UpTo(n)
  BY <1>2 DEF UpTo
<1>4. /\ \A n \in 0..config.design.levels : UpTo(n) \in Nat
      /\ \A n \in 1..config.design.levels : UpTo(n - 1) < UpTo(n)
  BY <1>1, SizesAddUp DEF Shape
<1>5. RungSize = UpTo(ladder.next) - UpTo(ladder.next - 1)
  BY DEF RungSize
<1>6. /\ Spent = UpTo(IF pc = "rung" THEN ladder.next - 1 ELSE ladder.next)
      /\ Spent' = UpTo(IF pc' = "rung" THEN ladder'.next - 1 ELSE ladder'.next)
  BY <1>3 DEF Spent
<1> HIDE DEF UpTo, RungSize
<1>7. CASE ladder.next <= config.design.levels
  <2>1. /\ ladder.next \in 0..config.design.levels
        /\ ladder.next \in 1..config.design.levels
        /\ ladder.next - 1 \in 0..config.design.levels
        /\ (ladder.next + 1) - 1 = ladder.next
    BY <1>1, <1>7
  <2>2. /\ UpTo(ladder.next) \in Nat /\ UpTo(ladder.next - 1) \in Nat
        /\ UpTo(ladder.next - 1) < UpTo(ladder.next)
    BY <1>4, <2>1
  <2>3. QED
    BY <1>2, <1>5, <1>6, <2>1, <2>2
<1>8. CASE ladder.next > config.design.levels
  <2>1. ladder.next - 1 \in 0..config.design.levels /\ pc = "rung"
    BY <1>1, <1>8
  <2>2. UpTo(ladder.next - 1) \in Nat /\ Spent' = Spent
    BY <1>1, <1>2, <1>4, <1>6, <1>8, <2>1
  <2>3. QED
    BY <1>1, <1>2, <1>6, <1>8, <2>1, <2>2
<1>9. QED
  BY <1>1, <1>7, <1>8

(* A ladder that has just been designed has spent nothing. *)
LEMMA NothingSpent ==
    ASSUME Shape, NEW s, NEW p, DesignLadder(s, p)
    PROVE  Spent' = 0
<1> DEFINE l == config.design.levels
<1>1. /\ pc' = "rung" /\ ladder'.next = 1 /\ ladder'.budget = Budget /\ config' = config
      /\ Budget >= MinPosition
  BY DEF DesignLadder, VisitSymbol
<1>2. config \in Configs /\ Budget \in Nat /\ l \in Nat \ {0}
  BY <1>1, BudgetTypes, L2Assumption DEF Shape, TypeOK, Config, Design
<1>3. /\ Share[l][l] \in Nat /\ Share[l] \in [0..l -> 0..Share[l][l]]
      /\ Share[l][0] = 0
      /\ \A n \in 1..l : Share[l][n - 1] < Share[l][n]
  BY <1>2, L2Assumption, Zenon
<1>4. Share[l][l] \in Nat \ {0}
  <2>1. l \in 1..l /\ l - 1 \in 0..l
    BY <1>2
  <2>2. Share[l][l - 1] \in 0..Share[l][l] /\ Share[l][l - 1] < Share[l][l]
    BY <1>3, <2>1
  <2>3. QED
    BY <1>3, <2>2
<1>5. Spent' = (Budget * Share[l][0]) \div Share[l][l]
  BY <1>1 DEF Spent, UpTo
<1> DEFINE d == Share[l][l]
           b == Budget
<1> HIDE DEF d, b, l
<1>6. b * 0 = 0 /\ 0 \div d = 0
  <2>1. b \in Nat /\ d \in Nat \ {0}
    BY <1>2, <1>4 DEF b, d
  <2>2. QED
    BY <2>1
<1>7. QED
  BY <1>3, <1>5, <1>6 DEF b, d

(* What another layer adds between two runs it finds room for. *)
LEMMA ElsewhereCap ==
    ASSUME Shape, TotalWithinCap, NEW p \in PositionId, Elsewhere(p)
    PROVE  TotalWithinCap'
<1>1. /\ position \in Table /\ position' \in Table
      /\ L1Funding \in Layer /\ \A q \in PositionId : position[q].notional \in Nat
  <2>1. StoreTypeOK'
    BY ElsewhereWrites DEF Shape
  <2>2. QED
    BY <2>1, TableTypes DEF Shape, StoreTypeOK, Table, PositionRow, Layer
<1>2. ASSUME NEW n \in OtherSizes, TotalAtRisk + n <= MaxTotalDeployed,
             CreatePosition(p, L1Funding, n, NULL)
      PROVE  TotalWithinCap'
  <2>1. n \in 0..MaxNotional
    BY L2Assumption, SafeguardsAssumption, StoreAssumption
  <2>2. /\ position[p].state = "absent"
        /\ position'[p] = [state |-> "opening", layer |-> L1Funding, notional |-> n,
                           realized |-> 0, metadata |-> NULL]
        /\ \A q \in PositionId \ {p} : position'[q] = position[q]
    BY <1>1, <1>2, <2>1, CreateWrites
  <2>3. p \notin Live /\ p \in Live' /\ position'[p].notional = n
    BY <2>2 DEF Live, LiveState
  <2>4. TotalAtRisk' = TotalAtRisk + n
    BY <1>1, <2>2, <2>3, RiskGains
  <2>5. QED
    BY <1>2, <2>4 DEF TotalWithinCap
<1>3. ASSUME position[p].state = "closing", SetPositionState(p, "opening"),
             TotalAtRisk + position[p].notional <= MaxTotalDeployed
      PROVE  TotalWithinCap'
  <2>1. /\ position'[p].state = "opening"
        /\ position'[p].notional = position[p].notional
        /\ \A q \in PositionId \ {p} : position'[q] = position[q]
    BY <1>1, <1>3, SetStateWrites DEF PositionState
  <2>2. TotalAtRisk' = TotalAtRisk + position[p].notional
    BY <1>1, <1>3, <2>1, RiskGains DEF Live, LiveState
  <2>3. QED
    BY <1>3, <2>2 DEF TotalWithinCap
<1>4. ASSUME \/ OthersRow(p, LiveState) /\ MarkPositionClosing(p)
             \/ OthersRow(p, LiveState \cup {"closing"}) /\ ClosePosition(p, 0)
      PROVE  TotalWithinCap'
  <2>1. /\ position'[p].state \in {"closing", "closed"}
        /\ \A q \in PositionId \ {p} : position'[q] = position[q]
        /\ \A q \in PositionId : /\ position'[q].layer = position[q].layer
                                 /\ position'[q].notional = position[q].notional
    BY <1>1, <1>4, SetStateWrites, CloseWrites DEF MarkPositionClosing, PositionState
  <2>2. Live' \subseteq Live
    BY <2>1 DEF Live, LiveState
  <2>3. TotalAtRisk' <= TotalAtRisk /\ TotalAtRisk \in Nat /\ TotalAtRisk' \in Nat
    <3>1. Live \in SUBSET PositionId /\ Live' \in SUBSET PositionId
      BY DEF Live
    <3>2. QED
      BY <1>1, <2>1, <2>2, <3>1, NothingGains, SumType DEF TotalAtRisk, Notional
  <2>4. QED
    BY <2>3, SafeguardsAssumption DEF TotalWithinCap
<1>5. CASE UNCHANGED position
  BY <1>5, SameRows DEF TotalWithinCap
<1>6. QED
  BY <1>2, <1>3, <1>4, <1>5
     DEF Elsewhere, OtherLayers, OthersRow, ReconcileAtRisk, SetDynamicAllocation,
         SetHaltReason

(* The sums are numbers, before a step and after it. *)
LEMMA SumsAreNat ==
    ASSUME Shape, [Next]_vars
    PROVE  /\ TotalAtRisk \in Nat /\ TotalAtRisk' \in Nat
           /\ LayerDeployed(L2Cascade) \in Nat /\ LayerDeployed(L2Cascade)' \in Nat
           /\ position \in Table /\ position' \in Table
<1>1. position \in Table /\ position' \in Table
  <2>1. Shape'
    BY ShapeStep
  <2>2. QED
    BY <2>1 DEF Shape, TypeOK, StoreTypeOK, Table
<1>2. /\ Live \in SUBSET PositionId /\ Live' \in SUBSET PositionId
      /\ OpenPositions(L2Cascade) \in SUBSET PositionId
      /\ OpenPositions(L2Cascade)' \in SUBSET PositionId
  BY DEF Live, OpenPositions
<1>3. QED
  BY <1>1, <1>2, SumType DEF TotalAtRisk, LayerDeployed, Notional

(* A rung adds its size to both totals. *)
LEMMA RungAdds ==
    ASSUME Shape, [Next]_vars, NEW p \in PositionId, PlaceRung(p)
    PROVE  /\ TotalAtRisk' = TotalAtRisk + RungSize
           /\ LayerDeployed(L2Cascade)' = LayerDeployed(L2Cascade) + RungSize
<1>1. /\ position[p].state = "absent" /\ position'[p].state = "opening"
      /\ position'[p].notional = RungSize
      /\ p \notin OpenPositions(L2Cascade)
      /\ OpenPositions(L2Cascade)' = OpenPositions(L2Cascade) \cup {p}
      /\ \A q \in PositionId \ {p} : position'[q] = position[q]
  BY PlaceWrites
<1>2. p \notin Live /\ p \in Live'
  BY <1>1 DEF Live, LiveState
<1> HIDE DEF RungSize
<1>3. TotalAtRisk' = TotalAtRisk + position'[p].notional
  BY <1>1, <1>2, SumsAreNat, RiskGains
<1>4. p \in OpenPositions(L2Cascade)'
  BY <1>1
<1>5. LayerDeployed(L2Cascade)' = LayerDeployed(L2Cascade) + position'[p].notional
  BY <1>1, <1>4, SumsAreNat, LayerGains
<1>6. QED
  BY <1>1, <1>3, <1>5

LEMMA CapStep ==
    ASSUME Shape, CapInv, [Next]_vars
    PROVE  CapInv'
<1> USE DEF Placing
<1>1. /\ TotalAtRisk \in Nat /\ TotalAtRisk' \in Nat
      /\ MaxTotalDeployed \in Nat /\ ladder.at_risk \in Nat
      /\ TotalAtRisk <= MaxTotalDeployed
      /\ pc \in Placing => TotalAtRisk <= ladder.at_risk + Spent
  BY SumsAreNat, SafeguardsAssumption DEF CapInv, TotalWithinCap, Shape, TypeOK
<1>2. ASSUME NEW p \in PositionId, PlaceRung(p)
      PROVE  CapInv'
  <2>1. /\ pc = "rung" /\ pc' = "pending_fill" /\ AtRung /\ RungPasses(p)
    BY <1>2 DEF PlaceRung, AtRung
  <2>2. /\ Spent = UpTo(ladder.next - 1)
        /\ RungSize \in 1..MaxPerPosition
        /\ ladder.at_risk + Spent + RungSize <= MaxTotalDeployed
    BY <2>1, RungTypes DEF Spent
  <2>3. /\ TotalAtRisk' = TotalAtRisk + RungSize /\ Spent' = Spent + RungSize
        /\ ladder'.at_risk = ladder.at_risk /\ Spent \in Nat
    BY <1>2, <2>1, RungAdds, SpentGrows
  <2> HIDE DEF RungSize, Spent, TotalAtRisk
  <2>4. MaxPerPosition \in Nat
    BY SafeguardsAssumption
  <2>5. /\ TotalAtRisk' <= MaxTotalDeployed
        /\ TotalAtRisk' <= ladder'.at_risk + Spent'
    BY <1>1, <2>1, <2>2, <2>3, <2>4
  <2>6. QED
    BY <2>5 DEF CapInv, TotalWithinCap
<1>3. CASE BetweenRuns
  <2>1. TotalWithinCap'
    <3>1. ASSUME NEW p \in PositionId, Elsewhere(p)
          PROVE  TotalWithinCap'
      BY <3>1, ElsewhereCap DEF CapInv
    <3>2. ASSUME UNCHANGED storeVars
          PROVE  TotalWithinCap'
      BY <1>1, <3>2, SameRows DEF storeVars, TotalWithinCap
    <3>3. QED
      BY <1>3, <3>1, <3>2 DEF BetweenRuns
  <2>2. QED
    BY <1>3, <2>1 DEF BetweenRuns, CapInv
<1>4. CASE ~ BetweenRuns /\ ~ \E p \in PositionId : PlaceRung(p)
  <2>1. TotalAtRisk' <= TotalAtRisk
    BY <1>4, RunGains
  <2>2. TotalWithinCap'
    BY <1>1, <2>1 DEF TotalWithinCap
  <2>3. CASE pc \in Placing /\ pc' \in Placing
    <3>1. /\ ladder'.at_risk = ladder.at_risk
          /\ Spent \in Nat /\ Spent' \in Nat /\ Spent <= Spent'
      BY <2>3, SpentGrows
    <3> HIDE DEF Spent, TotalAtRisk
    <3>2. TotalAtRisk' <= ladder'.at_risk + Spent'
      BY <1>1, <2>1, <2>3, <3>1
    <3>3. QED
      BY <2>2, <3>2 DEF CapInv
  <2>4. CASE pc \notin Placing /\ pc' \in Placing
    <3>1. PICK s \in Symbol, p \in PositionId : DesignLadder(s, p)
      BY <1>4, <2>4
         DEF Next, RunStep, StartRun, Interrupt, RefreshRung, KeepRung, CancelRung,
             FillRung, VisitPending, KeepFilled, SellRung, VisitFilled, PassSymbol,
             VisitSymbol, RefreshDone, MarkRungOpen, UpdateMetadata, PendingDone,
             CloseRung, FilledDone, RefuseRung, AtRung, RecordPending, LadderDone,
             RunDone, vars
    <3>2. ladder'.at_risk = TotalAtRisk /\ Spent' = 0
      BY <3>1, NothingSpent DEF DesignLadder
    <3> HIDE DEF Spent, TotalAtRisk
    <3>3. TotalAtRisk' <= ladder'.at_risk + Spent'
      BY <1>1, <2>1, <3>2
    <3>4. QED
      BY <2>2, <3>3 DEF CapInv
  <2>5. CASE pc' \notin Placing
    BY <2>2, <2>5 DEF CapInv
  <2>6. QED
    BY <2>3, <2>4, <2>5
<1>5. QED
  BY <1>2, <1>3, <1>4

(* An empty store has nothing at risk. *)
LEMMA CapInit == Init => CapInv
<1> SUFFICES ASSUME Init
             PROVE  CapInv
  OBVIOUS
<1>1. Live = {}
  BY DEF Init, StoreInit, NoRow, Live, LiveState
<1>2. TotalAtRisk = 0
  BY <1>1, FS_EmptySet DEF TotalAtRisk, Notional, SumNotional, Units
<1>3. QED
  BY <1>2, SafeguardsAssumption DEF Init, CapInv, TotalWithinCap, Placing

(***************************************************************************)
(* The hard cap on deployed capital, for every number of rungs and rows:   *)
(* the totals a ladder is checked against are stale from its second rung   *)
(* on, but with the rungs before it added they are never too low.          *)
(***************************************************************************)
THEOREM TotalStaysWithinCap == Spec => []TotalWithinCap
<1>1. Init => CapInv
  BY CapInit
<1>2. Shape /\ CapInv /\ [Next]_vars => CapInv'
  BY CapStep
<1>3. CapInv => TotalWithinCap
  BY DEF CapInv
<1>4. QED
  BY <1>1, <1>2, <1>3, ShapeHolds, PTL DEF Spec

LEMMA AllocStep ==
    ASSUME Shape, AllocInv, [Next]_vars
    PROVE  AllocInv'
<1> USE DEF Placing
<1>1. /\ LayerDeployed(L2Cascade) \in Nat /\ LayerDeployed(L2Cascade)' \in Nat
      /\ ladder.deployed \in Nat /\ ladder.alloc \in Nat /\ ladder.budget \in Nat
  BY SumsAreNat DEF Shape, TypeOK
<1>2. CASE pc' \notin Placing
  BY <1>2 DEF AllocInv
<1>3. CASE pc \in Placing /\ pc' \in Placing
  <2>1. /\ ~ BetweenRuns /\ ladder'.budget = ladder.budget
        /\ ladder'.deployed = ladder.deployed /\ ladder'.alloc = ladder.alloc
        /\ Spent \in Nat /\ Spent' \in Nat /\ Spent <= Spent'
        /\ \A p \in PositionId : PlaceRung(p) => Spent' = Spent + RungSize
    BY <1>3, SpentGrows
  <2>2. LayerAlloc' = LayerAlloc /\ config' = config
    BY <2>1, RunKeepsAlloc
  <2>3. /\ ladder.alloc = LayerAlloc
        /\ ladder.deployed + ladder.budget <= ladder.alloc
        /\ ladder.budget <= config.design.total
        /\ LayerDeployed(L2Cascade) <= ladder.deployed + Spent
    BY <1>3 DEF AllocInv
  <2>4. LayerDeployed(L2Cascade)' <= ladder'.deployed + Spent'
    <3>1. CASE \E p \in PositionId : PlaceRung(p)
      <4>1. PICK p \in PositionId : PlaceRung(p)
        BY <3>1
      <4>2. /\ Spent' = Spent + RungSize
            /\ LayerDeployed(L2Cascade)' = LayerDeployed(L2Cascade) + RungSize
            /\ RungSize \in 0..MaxNotional /\ MaxNotional \in Nat
        BY <2>1, <4>1, RungAdds, RungTypes, StoreAssumption DEF PlaceRung
      <4> HIDE DEF RungSize, Spent, LayerDeployed
      <4>3. QED
        BY <1>1, <2>1, <2>3, <4>2
    <3>2. CASE ~ \E p \in PositionId : PlaceRung(p)
      <4>1. LayerDeployed(L2Cascade)' <= LayerDeployed(L2Cascade)
        BY <2>1, <3>2, RunGains
      <4> HIDE DEF Spent, LayerDeployed
      <4>2. QED
        BY <1>1, <2>1, <2>3, <4>1
    <3>3. QED
      BY <3>1, <3>2
  <2>5. QED
    BY <2>1, <2>2, <2>3, <2>4 DEF AllocInv
<1>4. CASE pc \notin Placing /\ pc' \in Placing
  <2>1. PICK s \in Symbol, p \in PositionId : DesignLadder(s, p)
    BY <1>4
       DEF Next, RunStep, StartRun, Interrupt, BetweenRuns, RefreshRung, KeepRung, CancelRung,
           FillRung, VisitPending, KeepFilled, SellRung, VisitFilled, PlaceRung, PassSymbol,
           VisitSymbol, RefreshDone, MarkRungOpen, UpdateMetadata, PendingDone,
           CloseRung, FilledDone, RefuseRung, AtRung, RecordPending, LadderDone,
           RunDone, vars
  <2>2. /\ ladder'.budget = Budget /\ ladder'.alloc = LayerAlloc
        /\ ladder'.deployed = LayerDeployed(L2Cascade) /\ Spent' = 0
        /\ UNCHANGED <<position, system_state, config>>
    BY <2>1, NothingSpent DEF DesignLadder, VisitSymbol, storeVars
  <2>3. LayerAlloc' = LayerAlloc /\ LayerDeployed(L2Cascade)' = LayerDeployed(L2Cascade)
    BY <2>2, SameRows DEF LayerAlloc, DynamicAlloc
  <2>4. /\ LayerAlloc \in Nat /\ Budget \in Int
        /\ Budget <= LayerAlloc - LayerDeployed(L2Cascade)
        /\ Budget <= config.design.total
    BY BudgetTypes DEF Shape
  <2> HIDE DEF Budget, LayerAlloc, LayerDeployed, Spent
  <2>5. QED
    BY <1>1, <2>2, <2>3, <2>4 DEF AllocInv
<1>5. QED
  BY <1>2, <1>3, <1>4

LEMMA AllocHolds == Spec => []AllocInv
<1>1. Init => AllocInv
  BY DEF Init, AllocInv, Placing
<1>2. Shape /\ AllocInv /\ [Next]_vars => AllocInv'
  BY AllocStep
<1>3. QED
  BY <1>1, <1>2, ShapeHolds, PTL DEF Spec

(***************************************************************************)
(* A rung never takes the layer past the larger of its two allocations as  *)
(* they stand when its row is inserted.                                    *)
(***************************************************************************)
THEOREM EntriesWithinAllocation == Spec => EntryWithinAllocation
<1>1. ASSUME Shape, AllocInv, [Next]_vars, NEW p \in PositionId,
             position[p].state = "absent", position'[p].state = "opening",
             position'[p].layer = L2Cascade
      PROVE  LayerDeployed(L2Cascade)' <= LayerAlloc
  <2>1. PlaceRung(p)
    <3>1. position'[p] # position[p] /\ p \notin OpenPositions(L2Cascade)
      BY <1>1 DEF OpenPositions, Live, LiveState
    <3>2. QED
      BY <1>1, <3>1, RowWrites DEF RungWrite, OthersWrite, L1Funding, L2Cascade
  <2>2. /\ pc = "rung" /\ AtRung /\ RungPasses(p)
    BY <2>1 DEF PlaceRung, AtRung
  <2>3. /\ Spent = UpTo(ladder.next - 1) /\ Spent + RungSize <= ladder.budget
        /\ Spent \in Nat /\ RungSize \in 0..MaxNotional
    BY <1>1, <2>2, RungTypes DEF Spent
  <2>4. LayerDeployed(L2Cascade)' = LayerDeployed(L2Cascade) + RungSize
    BY <1>1, <2>1, RungAdds
  <2>5. /\ ladder.alloc = LayerAlloc
        /\ ladder.deployed + ladder.budget <= ladder.alloc
        /\ LayerDeployed(L2Cascade) <= ladder.deployed + Spent
    BY <1>1, <2>2 DEF AllocInv, Placing
  <2>6. /\ LayerDeployed(L2Cascade) \in Nat /\ MaxNotional \in Nat
        /\ ladder.deployed \in Nat /\ ladder.alloc \in Nat /\ ladder.budget \in Nat
    BY <1>1, SumsAreNat, StoreAssumption DEF Shape, TypeOK
  <2> HIDE DEF RungSize, Spent, LayerDeployed, LayerAlloc
  <2>7. QED
    BY <2>3, <2>4, <2>5, <2>6
<1>2. Shape /\ AllocInv /\ [Next]_vars =>
         \A p \in PositionId :
             position[p].state = "absent" /\ position'[p].state = "opening"
                /\ position'[p].layer = L2Cascade
             => Notional(OpenPositions(L2Cascade))' <= LayerAlloc
  BY <1>1 DEF LayerDeployed
<1>3. QED
  BY <1>2, ShapeHolds, AllocHolds, PTL DEF Spec, EntryWithinAllocation

-----------------------------------------------------------------------------
(* Why a rung is refused *)

(* Every write of a run leaves a row where it found one. *)
LEMMA RowsRemain ==
    ASSUME Shape, [Next]_vars, NEW q \in PositionId, position[q].state # "absent"
    PROVE  position'[q].state # "absent"
<1>1. CASE PlaceRung(q)
  BY <1>1, PlaceWrites
<1>2. CASE RungWrite(q)
  BY <1>2 DEF RungWrite
<1>3. CASE OthersWrite(q)
  BY <1>3 DEF OthersWrite
<1>4. QED
  BY <1>1, <1>2, <1>3, RowWrites

LEMMA OrdersStep ==
    ASSUME Shape, OrdersInv, [Next]_vars
    PROVE  OrdersInv'
<1>1. pc' # "idle" => LayerEnabled[L2Cascade]
  BY DEF OrdersInv, Next, RunStep, StartRun, Interrupt, BetweenRuns, vars, RefreshRung,
         KeepRung, CancelRung, FillRung, VisitPending, KeepFilled, SellRung, VisitFilled,
         DesignLadder, PlaceRung, AtRung, PassSymbol, VisitSymbol, RefreshDone,
         MarkRungOpen, UpdateMetadata, PendingDone, CloseRung, FilledDone, RefuseRung,
         RecordPending, LadderDone, RunDone
<1>2. ASSUME NEW p, NEW tag, NEW b, RecordFill(<<p, tag>>, b), position[p].state # "absent"
      PROVE  \A f \in fill' : position[f.id[1]].state # "absent"
  <2>1. \A f \in fill' : f \in fill \/ f.id = <<p, tag>>
    BY <1>2 DEF RecordFill
  <2>2. QED
    BY <1>2, <2>1 DEF OrdersInv
<1>3. \A f \in fill' : position[f.id[1]].state # "absent"
  <2>1. ASSUME NEW p \in PositionId, FillRung(p)
        PROVE  \A f \in fill' : position[f.id[1]].state # "absent"
    <3>1. p \in In("opening")
      BY <2>1 DEF FillRung, VisitPending, IsFirst, Shape, SnapshotHolds
    <3>2. QED
      BY <1>2, <2>1, <3>1, InRows DEF FillRung
  <2>2. ASSUME NEW p \in PositionId, NEW reason \in ExitReason, SellRung(p, reason)
        PROVE  \A f \in fill' : position[f.id[1]].state # "absent"
    <3>1. p \in In("open")
      BY <2>2 DEF SellRung, VisitFilled, IsFirst, Shape, SnapshotHolds
    <3>2. position[p].state # "absent" /\ RecordFill(<<p, reason>>, TRUE)
      BY <2>2, <3>1, InRows DEF SellRung, LiveState
    <3>3. QED
      BY <1>2, <3>2
  <2>3. CASE RecordPending
    <3>1. cur \in In("opening")
      BY <2>3 DEF RecordPending, Shape, HandHolds
    <3>2. QED
      BY <1>2, <2>3, <3>1, InRows DEF RecordPending
  <2>4. CASE BetweenRuns
    BY <2>4, ElsewhereWrites DEF BetweenRuns, storeVars, Shape, OrdersInv
  <2>5. CASE \/ StartRun \/ Interrupt \/ UNCHANGED vars
             \/ RefreshDone \/ PendingDone \/ FilledDone \/ RefuseRung \/ LadderDone
             \/ RunDone \/ MarkRungOpen \/ UpdateMetadata \/ CloseRung
             \/ \E p \in PositionId : KeepRung(p) \/ KeepFilled(p) \/ RefreshRung(p)
                                        \/ CancelRung(p) \/ PlaceRung(p)
             \/ \E s \in Symbol : PassSymbol(s)
             \/ \E s \in Symbol, p \in PositionId : DesignLadder(s, p)
    <3>1. fill' = fill
      BY <2>5
         DEF StartRun, Interrupt, vars, RefreshDone, PendingDone, FilledDone, RefuseRung,
             LadderDone, RunDone, MarkRungOpen, MarkPositionOpen, SetPositionState,
             UpdateMetadata, CloseRung, ClosePosition, KeepRung, KeepFilled, RefreshRung,
             CancelRung, PlaceRung, CreatePosition, PassSymbol, VisitSymbol, DesignLadder,
             storeVars
    <3>2. QED
      BY <3>1 DEF OrdersInv
  <2>6. QED
    BY <2>1, <2>2, <2>3, <2>4, <2>5 DEF Next, RunStep
<1>4. \A f \in fill' : f.id[1] \in PositionId
  <2>1. Shape'
    BY ShapeStep
  <2>2. QED
    BY <2>1 DEF Shape, TypeOK, StoreTypeOK, FillRow, ClientOrderId
<1>5. QED
  BY <1>1, <1>3, <1>4, RowsRemain DEF OrdersInv

LEMMA RefusalReasons ==
    ASSUME Shape, AllocInv, OrdersInv, \A c \in Configs : c.design.total <= MaxPerPosition
    PROVE  RefusedOnlyForTotal
<1> SUFFICES ASSUME AtRung, NEW p \in PositionId, IsNextId(p),
                    ladder.at_risk + UpTo(ladder.next) <= MaxTotalDeployed
             PROVE  RungPasses(p)
  BY DEF RefusedOnlyForTotal, SomeIdLeft
<1>1. /\ config \in Configs
      /\ config.design.levels \in Nat /\ config.design.total \in Nat
      /\ MaxPerPosition \in Nat /\ config.design.total <= MaxPerPosition
  BY L2Assumption, SafeguardsAssumption DEF Shape, TypeOK, Config, Design
<1>2. /\ ladder.next \in 1..config.design.levels /\ ladder.budget >= MinPosition
      /\ ladder.at_risk \in Nat /\ ladder.deployed \in Nat /\ ladder.alloc \in Nat
      /\ ladder.budget \in Nat
  BY <1>1 DEF AtRung, Shape, TypeOK, LadderHolds, Placing
<1>3. /\ ladder.next - 1 \in 0..config.design.levels
      /\ ladder.next \in 0..config.design.levels
  BY <1>1, <1>2
<1>4. /\ UpTo(ladder.next - 1) \in Nat /\ UpTo(ladder.next) \in Nat
      /\ UpTo(ladder.next - 1) < UpTo(ladder.next)
      /\ UpTo(ladder.next) <= ladder.budget
  BY <1>2, <1>3, SizesAddUp DEF Shape
<1>5. /\ ladder.deployed + ladder.budget <= ladder.alloc
      /\ ladder.budget <= config.design.total
  BY DEF AllocInv, AtRung, Placing
<1>6. RungSize = UpTo(ladder.next) - UpTo(ladder.next - 1)
  BY DEF RungSize
<1>7. <<p, "pending">> \notin SeenOrderIds
  BY DEF SeenOrderIds, OrdersInv, IsNextId
<1>8. L2Cascade \in DOMAIN StaticAlloc /\ LayerEnabled[L2Cascade]
  BY L2Assumption DEF Layer, OrdersInv, AtRung
<1> HIDE DEF UpTo, RungSize, SeenOrderIds
<1>9. /\ RungSize > 0 /\ RungSize <= MaxPerPosition
      /\ ladder.at_risk + UpTo(ladder.next - 1) + RungSize <= MaxTotalDeployed
      /\ ladder.deployed + UpTo(ladder.next - 1) + RungSize <= ladder.alloc
  BY <1>1, <1>2, <1>4, <1>5, <1>6, SafeguardsAssumption
<1>10. QED
  BY <1>7, <1>8, <1>9 DEF RungPasses, CheckOrder, RungOrder

(***************************************************************************)
(* The executor and the safeguards agree: where no ladder is larger than   *)
(* the cap on one position (12% of the bankroll against 25%, by default),  *)
(* a rung is only ever refused for want of total capital, never for the    *)
(* layer's cap, its size or a client order id that was used before.        *)
(***************************************************************************)
THEOREM RefusalsAreForTotal ==
    ASSUME \A c \in Configs : c.design.total <= MaxPerPosition
    PROVE  Spec => []RefusedOnlyForTotal
<1>1. Init => OrdersInv
  BY DEF Init, StoreInit, OrdersInv
<1>2. Shape /\ OrdersInv /\ [Next]_vars => OrdersInv'
  BY OrdersStep
<1>3. Shape /\ AllocInv /\ OrdersInv => RefusedOnlyForTotal
  BY RefusalReasons
<1>4. QED
  BY <1>1, <1>2, <1>3, ShapeHolds, AllocHolds, PTL DEF Spec
=============================================================================
