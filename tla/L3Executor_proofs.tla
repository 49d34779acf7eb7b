-------------------------- MODULE L3Executor_proofs --------------------------
(***************************************************************************)
(* Layer 3 for every number of underlyings and rows, every calendar and    *)
(* every pair of TARGET_DTE and MIN_DTE_BEFORE_ROLL.                       *)
(***************************************************************************)
EXTENDS L3Executor, Store_proofs

-----------------------------------------------------------------------------
(* The inductive invariant *)

InHandAt == {"call", "put", "mark_open"}

UnderlyingOf(p) == position[p].metadata.underlying

(* The loaded chain never looks further ahead than the exchange lists. *)
ChainAhead == \A e \in chain : e <= now + ListedAhead

(* Every row of the layer carries what _open_strangle wrote into it. *)
Labelled == \A p \in PositionId :
                position[p].layer = L3Tail => position[p].metadata \in StrangleMetadata

PlannedAt == {"quotes", "create"}

(* The expiry chosen stays one of the chain's until its row is inserted. *)
Planned == pc \in PlannedAt => plan \in Plan /\ plan.expiry \in chain

(* The row in hand is the new strangle of the underlying in turn. *)
InHand ==
    /\ pc \in InHandAt <=> cur # NULL
    /\ cur # NULL => /\ position[cur].layer = L3Tail
                     /\ position[cur].state = "opening"
                     /\ IsFirst(UnderlyingOf(cur), to_visit)

Shape ==
    /\ TypeOK
    /\ ChainAhead
    /\ Labelled
    /\ Planned
    /\ InHand

(* The loop has not decided yet what becomes of u's strangle. *)
Undecided(u) == u \in to_visit /\ (pc = "loop" \/ ~IsFirst(u, to_visit))

(***************************************************************************)
(* While a run lasts, the strangles it read are, for every underlying it   *)
(* has not decided on, exactly the live ones; one that it rolls away is    *)
(* gone before another is opened.                                          *)
(***************************************************************************)
RunInv ==
    /\ OneStranglePerUnderlying
    /\ pc # "idle" =>
          /\ strangles \subseteq {p \in PositionId : position[p].layer = L3Tail}
          /\ \A p \in Strangles : Undecided(UnderlyingOf(p)) => p \in strangles
          /\ \A p \in strangles : Undecided(UnderlyingOf(p)) => p \in Strangles
    /\ pc \in {"reopen"} \cup PlannedAt =>
          \A p \in Strangles : ~IsFirst(UnderlyingOf(p), to_visit)

(* What is on record of the strangle in hand, and of those that are open. *)
LegsInv ==
    /\ \A f \in fill : f.filled
    /\ pc \in {"put", "mark_open"} => Filled(cur, "call")
    /\ pc = "mark_open" => Filled(cur, "put")
    /\ OpenHasBothLegs

(* What holds of the expiry chosen as long as its row is not inserted. *)
ChosenClear ==
    pc \in PlannedAt /\ (\E e \in chain : InRangeOn(plan.on, e))
        => plan.expiry - plan.on >= MinDte

-----------------------------------------------------------------------------
(* The expiry and the size of a new strangle *)

(* Two days are never so far apart that their distance is not a number. *)
LEMMA DistanceType ==
    ASSUME TypeOK, NEW e \in Calendar
    PROVE  Distance(e) \in Nat
BY L3Assumption DEF TypeOK, Distance

(* min finds the expiry it is asked for: the nearest, of two the earlier. *)
LEMMA TargetIsNearest ==
    ASSUME TypeOK, Future # {}
    PROVE  /\ TargetExpiry \in Future
           /\ \A f \in Future : Distance(TargetExpiry) <= Distance(f)
<1>1. Future \in SUBSET Calendar /\ Future \in SUBSET Nat
  BY L3Assumption DEF TypeOK, Future
<1>2. \A e \in Future : Distance(e) \in Nat
  BY <1>1, DistanceType
<1> DEFINE distances == {Distance(e) : e \in Future}
<1>3. PICK d \in distances : \A x \in distances : d <= x
  <2>1. distances \in SUBSET Nat /\ distances # {}
    BY <1>2
  <2> HIDE DEF distances
  <2> QED BY <2>1, LeastOf
<1> DEFINE nearest == {e \in Future : Distance(e) = d}
<1>4. PICK e \in nearest : \A f \in nearest : e <= f
  <2>1. nearest \in SUBSET Nat /\ nearest # {}
    BY <1>1, <1>3
  <2> HIDE DEF nearest
  <2> QED BY <2>1, LeastOf
<1>5. /\ e \in Future
      /\ \A f \in Future : \/ Distance(e) < Distance(f)
                           \/ Distance(e) = Distance(f) /\ e <= f
  <2> SUFFICES ASSUME NEW f \in Future, ~(Distance(e) < Distance(f))
               PROVE  e \in Future /\ Distance(e) = Distance(f) /\ e <= f
    BY <1>4
  <2>1. Distance(e) <= Distance(f) /\ e \in Future
    BY <1>3, <1>4
  <2>2. Distance(e) = Distance(f)
    BY <1>2, <2>1
  <2> QED BY <1>4, <2>1, <2>2
<1>6. /\ TargetExpiry \in Future
      /\ \A f \in Future : \/ Distance(TargetExpiry) < Distance(f)
                           \/ Distance(TargetExpiry) = Distance(f) /\ TargetExpiry <= f
  BY <1>5 DEF TargetExpiry
<1> HIDE DEF distances, nearest
<1> QED BY <1>2, <1>6

(* Rounding to the nearest is at most half a step too high. *)
LEMMA RoundBound ==
    ASSUME NEW a \in Nat, NEW b \in Nat \ {0}
    PROVE  Round(a, b) \in Nat /\ 2 * (b * Round(a, b)) <= 2 * a + b
<1> DEFINE q == a \div b
           r == a % b
<1>1. q \in Nat /\ r \in 0..(b - 1) /\ a = b * q + r
  OBVIOUS
<1> HIDE DEF q, r
<1>2. CASE Round(a, b) = q
  BY <1>1, <1>2
<1>3. CASE Round(a, b) = q + 1 /\ 2 * r >= b
  <2>1. b * (q + 1) = b * q + b
    BY <1>1
  <2> QED BY <1>1, <1>3, <2>1
<1> QED
  BY <1>1, <1>2, <1>3 DEF Round, q, r

LEMMA ProductGrows ==
    ASSUME NEW k \in Nat, NEW m \in Nat, NEW n \in Nat, m <= n
    PROVE  k * m \in Nat /\ k * n \in Nat /\ k * m <= k * n
OBVIOUS

(* What _open_strangle would insert is a row of the table. *)
LEMMA StrangleFits ==
    ASSUME TypeOK, ChainAhead, Planned, pc = "quotes", NEW premium \in Premiums,
           Contracts(premium, plan.expiry - now) > 0
    PROVE  premium * Contracts(premium, plan.expiry - now) \in 0..MaxNotional
<1> DEFINE dte == plan.expiry - now
<1>1. plan.expiry \in Calendar /\ plan.expiry \in chain
  BY DEF Planned, PlannedAt, Plan
<1>2. /\ dte \in Int /\ dte <= ListedAhead
      /\ ThetaBudget \in Nat /\ ListedAhead \in Nat /\ premium \in Nat \ {0}
      /\ MaxNotional \in Nat
  <2>1. /\ ThetaBudget \in Nat /\ ListedAhead \in Nat /\ premium \in Nat \ {0}
        /\ MaxNotional \in Nat /\ Horizon \in Nat /\ Calendar \subseteq Nat
    BY L3Assumption, StoreAssumption
  <2>2. now \in Nat
    BY <2>1 DEF TypeOK
  <2>3. plan.expiry \in Nat /\ plan.expiry <= now + ListedAhead
    BY <1>1, <2>1 DEF ChainAhead
  <2> QED BY <2>1, <2>2, <2>3
<1> HIDE DEF dte
<1>3. Contracts(premium, dte) > 0
  BY DEF dte
<1>4. dte \in Nat /\ Contracts(premium, dte) = Round(ThetaBudget * dte, premium)
  BY <1>2, <1>3 DEF Contracts
<1>5. /\ ThetaBudget * dte \in Nat /\ ThetaBudget * ListedAhead \in Nat
      /\ ThetaBudget * dte <= ThetaBudget * ListedAhead
  BY <1>2, <1>4, ProductGrows
<1>6. 2 * (ThetaBudget * ListedAhead) + premium <= 2 * MaxNotional
  <2>1. 2 * ThetaBudget * ListedAhead = 2 * (ThetaBudget * ListedAhead)
    BY <1>2
  <2> QED BY <2>1, L3Assumption
<1>7. /\ Contracts(premium, dte) \in Nat
      /\ 2 * (premium * Contracts(premium, dte)) <= 2 * (ThetaBudget * dte) + premium
  BY <1>2, <1>4, <1>5, RoundBound
<1>8. premium * Contracts(premium, dte) \in Nat
  BY <1>2, <1>7, ProductGrows
<1>9. premium * Contracts(premium, dte) \in 0..MaxNotional
  <2> DEFINE cost == premium * Contracts(premium, dte)
             paid == ThetaBudget * dte
             most == ThetaBudget * ListedAhead
  <2>1. /\ cost \in Nat /\ paid \in Nat /\ most \in Nat
        /\ 2 * cost <= 2 * paid + premium /\ paid <= most
        /\ 2 * most + premium <= 2 * MaxNotional
    BY <1>5, <1>6, <1>7, <1>8
  <2> HIDE DEF cost, paid, most
  <2>2. cost \in 0..MaxNotional
    BY <1>2, <2>1
  <2> QED BY <2>2 DEF cost
<1> QED
  BY <1>9 DEF dte

(* The INSERT, and the row that comes of it. *)
LEMMA CreateInserts ==
    ASSUME Shape, NEW u \in Underlying, NEW p \in PositionId, CreateStrangle(u, p)
    PROVE  \E row \in PositionRow :
              /\ position' = [position EXCEPT ![p] = row]
              /\ position'[p] = row /\ position[p].state = "absent"
              /\ \A q \in PositionId \ {p} : position'[q] = position[q]
              /\ row.state = "opening" /\ row.layer = L3Tail
              /\ row.metadata \in StrangleMetadata
              /\ row.metadata.underlying = u /\ row.metadata.expiry = plan.expiry
              /\ StoreTypeOK' /\ UNCHANGED fill
<1> DEFINE md == [underlying |-> u, expiry |-> plan.expiry]
           row == [state |-> "opening", layer |-> L3Tail, notional |-> plan.notional,
                   realized |-> 0, metadata |-> md]
<1>1. plan \in Plan /\ CreatePosition(p, L3Tail, plan.notional, md)
  BY DEF CreateStrangle, Shape, Planned, PlannedAt
<1>2. /\ plan.notional \in 0..MaxNotional /\ md \in StrangleMetadata
      /\ md.underlying = u /\ md.expiry = plan.expiry
  BY <1>1 DEF Plan, StrangleMetadata
<1> HIDE DEF md
<1>3. md \in Metadata \cup {NULL} /\ L3Tail \in Layer
  BY <1>2, L3Assumption DEF Layer
<1>4. position \in Table /\ StoreTypeOK
  BY DEF Shape, TypeOK, StoreTypeOK, Table
<1>5. /\ position'[p] = row /\ position[p].state = "absent"
      /\ \A q \in PositionId \ {p} : position'[q] = position[q]
  BY <1>1, <1>2, <1>3, <1>4, CreateWrites
<1>6. StoreTypeOK'
  BY <1>1, <1>2, <1>3, <1>4, StatementTypes
<1>7. position' = [position EXCEPT ![p] = row] /\ UNCHANGED fill
  BY <1>1 DEF CreatePosition
<1>8. row \in PositionRow
  BY <1>2, <1>3 DEF PositionRow, PositionState
<1>9. row.state = "opening" /\ row.layer = L3Tail /\ row.metadata = md
  OBVIOUS
<1> HIDE DEF row
<1> QED
  BY <1>2, <1>5, <1>6, <1>7, <1>8, <1>9

-----------------------------------------------------------------------------
(* Type correctness *)

LEMMA ShapeInit == Init => Shape
<1> SUFFICES ASSUME Init PROVE Shape
  OBVIOUS
<1>1. StoreTypeOK
  BY StoreAssumption DEF Init, StoreInit, StoreTypeOK, NoRow, PositionRow, PositionState,
     Layer, L1Funding, SystemState
<1>2. TypeOK
  BY <1>1, L3Assumption DEF Init, TypeOK, Listed, PcState
<1>3. ChainAhead
  BY DEF Init, Listed, ChainAhead
<1>4. Labelled
  BY DEF Init, StoreInit, NoRow, Labelled, L1Funding, L3Tail
<1>5. InHand /\ Planned
  BY DEF Init, InHand, InHandAt, Planned, PlannedAt
<1> QED
  BY <1>2, <1>3, <1>4, <1>5 DEF Shape

(* Where run_once has neither a strangle in hand nor the plan of one. *)
FreeAt == {"idle", "loop", "reopen"}

(* The last statement of a run, or none at all: the row in hand is let go. *)
LEMMA ShapeLetsGo ==
    ASSUME Shape, StoreTypeOK', UNCHANGED <<now, chain>>,
           \A p \in PositionId : position'[p].layer = position[p].layer
                                 /\ position'[p].metadata = position[p].metadata,
           cur' = NULL, plan' \in {NULL, plan}, pc' \in FreeAt,
           strangles' \subseteq PositionId, to_visit' \subseteq Underlying
    PROVE  Shape'
<1>1. FreeAt \subseteq PcState \ (InHandAt \cup PlannedAt)
  BY DEF FreeAt, PcState, InHandAt, PlannedAt
<1> QED
  BY <1>1 DEF Shape, TypeOK, ChainAhead, Labelled, Planned, InHand

LEMMA ShapeStep == Shape /\ [Next]_vars => Shape'
<1> SUFFICES ASSUME Shape, [Next]_vars PROVE Shape'
  OBVIOUS
<1>1. /\ TypeOK /\ StoreTypeOK /\ position \in Table
      /\ \A u : to_visit \ {u} \subseteq Underlying
      /\ strangles \subseteq PositionId /\ to_visit \subseteq Underlying
      /\ {"idle", "loop", "reopen"} = FreeAt
  BY DEF Shape, TypeOK, StoreTypeOK, Table, FreeAt
<1>2. pc \notin InHandAt => cur = NULL
  BY DEF Shape, InHand
<1>3. UNCHANGED storeVars => StoreTypeOK'
  BY <1>1 DEF storeVars, StoreTypeOK
<1>4. CASE StartRun
  <2>1. strangles' \subseteq PositionId /\ to_visit' \subseteq Underlying
    BY <1>4 DEF StartRun, OpenPositions, Live
  <2> QED BY <1>1, <1>2, <1>3, <1>4, <2>1, ShapeLetsGo DEF StartRun, storeVars, InHandAt
<1>5. ASSUME NEW u, OpenFails(u) \/ \E p : HoldStrangle(u, p)
      PROVE  Shape'
  BY <1>1, <1>2, <1>3, <1>5, ShapeLetsGo
     DEF OpenFails, HoldStrangle, MayOpen, Quoting, Visit, NextUnderlying, InHandAt, storeVars
<1>6. ASSUME NEW u, NEW p \in PositionId, RollStrangle(u, p)
      PROVE  Shape'
  <2>1. -position[p].notional \in Int
    BY <1>1 DEF Table, PositionRow
  <2>2. ClosePosition(p, -position[p].notional)
    BY <1>6 DEF RollStrangle
  <2>3. /\ StoreTypeOK'
        /\ \A q \in PositionId : position'[q].layer = position[q].layer
                                 /\ position'[q].metadata = position[q].metadata
    BY <1>1, <2>1, <2>2, StatementTypes, CloseWrites
  <2> QED BY <1>1, <1>2, <1>6, <2>3, ShapeLetsGo DEF RollStrangle, Visit, InHandAt
<1>7. ASSUME NEW u \in Underlying, NEW p \in PositionId, CreateStrangle(u, p)
      PROVE  Shape'
  <2>1. PICK row \in PositionRow :
              /\ position'[p] = row
              /\ \A q \in PositionId \ {p} : position'[q] = position[q]
              /\ row.state = "opening" /\ row.layer = L3Tail
              /\ row.metadata \in StrangleMetadata /\ row.metadata.underlying = u
              /\ StoreTypeOK'
    BY <1>7, CreateInserts
  <2>2. /\ IsFirst(u, to_visit) /\ cur' = p /\ plan' = NULL /\ pc' = "call"
        /\ UNCHANGED <<now, chain, strangles, to_visit>>
    BY <1>7 DEF CreateStrangle
  <2>3. TypeOK'
    BY <1>1, <2>1, <2>2 DEF TypeOK, PcState
  <2>4. ChainAhead' /\ Labelled' /\ Planned'
    BY <2>1, <2>2 DEF Shape, ChainAhead, Labelled, Planned, PlannedAt
  <2>5. InHand'
    BY <2>1, <2>2, StoreAssumption DEF InHand, InHandAt, UnderlyingOf, IsFirst
  <2> QED BY <2>3, <2>4, <2>5 DEF Shape
<1>16. ASSUME NEW u \in Underlying, ChooseExpiry(u)
       PROVE  Shape'
  <2>1. /\ Future # {} /\ plan' = [expiry |-> TargetExpiry, on |-> now, notional |-> 0]
        /\ pc' = "quotes" /\ UNCHANGED <<storeVars, now, chain, strangles, to_visit, cur>>
        /\ cur = NULL
    BY <1>2, <1>16 DEF ChooseExpiry, MayOpen, Visit, InHandAt
  <2>2. TargetExpiry \in chain /\ TargetExpiry \in Calendar
    BY <1>1, <2>1, TargetIsNearest DEF Future, TypeOK
  <2>3. plan' \in Plan /\ plan'.expiry = TargetExpiry
    BY <1>1, <2>1, <2>2, StoreAssumption DEF Plan, TypeOK
  <2>4. TypeOK'
    BY <1>1, <1>3, <2>1, <2>3 DEF TypeOK, PcState
  <2>5. ChainAhead' /\ Labelled' /\ Planned'
    BY <2>1, <2>2, <2>3 DEF Shape, ChainAhead, Labelled, Planned, storeVars
  <2>6. InHand'
    BY <2>1 DEF InHand, InHandAt
  <2> QED BY <2>4, <2>5, <2>6 DEF Shape
<1>17. ASSUME NEW premium \in Premiums, SizeStrangle(premium)
       PROVE  Shape'
  <2> DEFINE n == premium * Contracts(premium, plan.expiry - now)
  <2>1. /\ pc = "quotes" /\ Contracts(premium, plan.expiry - now) > 0
        /\ plan' = [plan EXCEPT !.notional = n]
        /\ pc' = "create" /\ UNCHANGED <<storeVars, now, chain, strangles, to_visit, cur>>
        /\ cur = NULL
    BY <1>2, <1>17 DEF SizeStrangle, InHandAt
  <2>2. n \in 0..MaxNotional
    BY <2>1, StrangleFits DEF Shape
  <2>3. plan \in Plan /\ plan.expiry \in chain
    BY <2>1 DEF Shape, Planned, PlannedAt
  <2> HIDE DEF n
  <2>4. plan' \in Plan /\ plan'.expiry = plan.expiry
    BY <2>1, <2>2, <2>3 DEF Plan
  <2>5. TypeOK'
    BY <1>1, <1>3, <2>1, <2>4 DEF TypeOK, PcState
  <2>6. ChainAhead' /\ Labelled' /\ Planned'
    BY <2>1, <2>3, <2>4 DEF Shape, ChainAhead, Labelled, Planned, storeVars
  <2>7. InHand'
    BY <2>1 DEF InHand, InHandAt
  <2> QED BY <2>5, <2>6, <2>7 DEF Shape
<1>8. ASSUME NEW tag \in {"call", "put"}, pc = tag, RecordFill(<<cur, tag>>, TRUE),
             pc' \in {"put", "mark_open"},
             UNCHANGED <<now, chain, strangles, to_visit, plan, cur>>
      PROVE  Shape'
  <2>1. cur \in PositionId
    BY <1>8 DEF Shape, TypeOK, InHand, InHandAt
  <2>2. <<cur, tag>> \in ClientOrderId /\ TRUE \in BOOLEAN
    BY <2>1, L3Assumption DEF ClientOrderId
  <2>3. StoreTypeOK' /\ UNCHANGED position
    BY <1>1, <1>8, <2>2, StatementTypes DEF RecordFill
  <2>4. TypeOK'
    BY <1>1, <1>8, <2>3 DEF TypeOK, PcState
  <2>5. ChainAhead' /\ Labelled' /\ Planned'
    BY <1>8, <2>3 DEF Shape, ChainAhead, Labelled, Planned, PlannedAt
  <2>6. InHand'
    BY <1>8, <2>1, <2>3, StoreAssumption DEF Shape, InHand, InHandAt, UnderlyingOf
  <2> QED BY <2>4, <2>5, <2>6 DEF Shape
<1>9. CASE MarkStrangleOpen
  <2>1. cur \in PositionId
    BY <1>9 DEF MarkStrangleOpen, Shape, TypeOK, InHand, InHandAt
  <2>2. SetPositionState(cur, "open") /\ "open" \in PositionState
    BY <1>9 DEF MarkStrangleOpen, MarkPositionOpen, PositionState
  <2>3. /\ StoreTypeOK'
        /\ \A q \in PositionId : position'[q].layer = position[q].layer
                                 /\ position'[q].metadata = position[q].metadata
    BY <1>1, <2>1, <2>2, StatementTypes, SetStateWrites
  <2> QED BY <1>1, <1>9, <2>3, ShapeLetsGo DEF MarkStrangleOpen, NextUnderlying
<1>10. CASE RunDone
  BY <1>1, <1>2, <1>3, <1>10, ShapeLetsGo DEF RunDone, InHandAt, storeVars
<1>11. CASE Interrupt
  BY <1>1, <1>3, <1>11, ShapeLetsGo DEF Interrupt, storeVars
<1>12. CASE Tick
  BY <1>3, <1>12, L3Assumption
     DEF Tick, Shape, TypeOK, ChainAhead, Labelled, Planned, InHand, UnderlyingOf, IsFirst,
     storeVars
<1>13. ASSUME pc = "idle", chain' = Listed(now), UNCHANGED storeVars,
              UNCHANGED <<now, pc, strangles, to_visit, plan, cur>>
       PROVE  Shape'
  BY <1>1, <1>2, <1>3, <1>13
     DEF Shape, TypeOK, ChainAhead, Listed, Labelled, Planned, PlannedAt, InHand, InHandAt,
     storeVars
<1>14. ASSUME NEW p \in PositionId, Elsewhere(p), pc = "idle",
              UNCHANGED <<now, chain, pc, strangles, to_visit, plan, cur>>
       PROVE  Shape'
  <2>1. /\ StoreTypeOK'
        /\ \A q \in PositionId :
              \/ position'[q].layer = position[q].layer
                 /\ position'[q].metadata = position[q].metadata
              \/ position'[q].layer = L1Funding
    <3>1. CASE ReconcileAtRisk
      BY <1>1, <3>1, StatementTypes DEF ReconcileAtRisk
    <3>2. CASE SetHaltReason(NULL) \/ SetHaltReason(p)
      BY <1>1, <3>2, StatementTypes DEF SetHaltReason
    <3>3. CASE ClosePosition(p, 0)
      BY <1>1, <3>3, StatementTypes, CloseWrites
    <3>4. ASSUME NEW n \in OtherSizes, CreatePosition(p, L1Funding, n, NULL)
          PROVE  <2>1!1 /\ <2>1!2
      <4>1. n \in 0..MaxNotional /\ L1Funding \in Layer /\ NULL \in Metadata \cup {NULL}
        BY L3Assumption, StoreAssumption DEF Layer
      <4>2. StoreTypeOK'
        BY <1>1, <3>4, <4>1, StatementTypes
      <4>3. /\ position'[p] = [state |-> "opening", layer |-> L1Funding, notional |-> n,
                               realized |-> 0, metadata |-> NULL]
            /\ \A q \in PositionId \ {p} : position'[q] = position[q]
        BY <1>1, <3>4, <4>1, CreateWrites
      <4> QED BY <4>2, <4>3
    <3> QED BY <1>14, <3>1, <3>2, <3>3, <3>4 DEF Elsewhere
  <2>2. TypeOK' /\ ChainAhead'
    BY <1>1, <1>14, <2>1 DEF TypeOK, Shape, ChainAhead
  <2>3. Labelled' /\ Planned'
    BY <1>14, <2>1 DEF Labelled, Planned, PlannedAt, Shape, L1Funding, L3Tail
  <2>4. InHand'
    BY <1>2, <1>14 DEF InHand, InHandAt
  <2> QED BY <2>2, <2>3, <2>4 DEF Shape
<1>15. CASE UNCHANGED vars
  BY <1>15 DEF vars, Shape, TypeOK, StoreTypeOK, ChainAhead, Labelled, Planned, InHand,
     UnderlyingOf, IsFirst
<1> QED
  BY <1>4, <1>5, <1>6, <1>7, <1>8, <1>9, <1>10, <1>11, <1>12, <1>13, <1>14, <1>15, <1>16, <1>17
     DEF Next, RunStep, BetweenRuns, RecordCall, RecordPut

LEMMA ShapeHolds == Spec => []Shape
<1>1. Init => Shape
  BY ShapeInit
<1>2. Shape /\ [Next]_vars => Shape'
  BY ShapeStep
<1> QED
  BY <1>1, <1>2, PTL DEF Spec

(***************************************************************************)
(* Types: each column and each local keeps its type, over all failed       *)
(* orders, cut runs, stale chains and restarts.                            *)
(***************************************************************************)
THEOREM TypeCorrect == Spec => []TypeOK
<1>1. Shape => TypeOK
  BY DEF Shape
<1> QED
  BY <1>1, ShapeHolds, PTL

-----------------------------------------------------------------------------
(* One strangle per underlying *)

(* The loop visits one underlying at a time. *)
LEMMA OneFirst ==
    ASSUME Shape, NEW u, NEW v, IsFirst(u, to_visit), IsFirst(v, to_visit)
    PROVE  u = v
<1>1. to_visit \subseteq Nat
  BY L3Assumption DEF Shape, TypeOK
<1>2. u \in Nat /\ v \in Nat /\ u <= v /\ v <= u
  BY <1>1 DEF IsFirst
<1> QED
  BY <1>2

(* What the loop leaves undecided as it moves on, it left undecided before. *)
LEMMA MovesOn ==
    ASSUME NextUnderlying, NEW v, Undecided(v)'
    PROVE  v \in to_visit /\ ~IsFirst(v, to_visit)
BY DEF NextUnderlying, Undecided

(* Between two runs no strangle comes, goes or is written. *)
LEMMA ElsewhereKeepsStrangles ==
    ASSUME Shape, NEW p \in PositionId, Elsewhere(p)
    PROVE  /\ Strangles' = Strangles
           /\ \A q \in Strangles : position'[q] = position[q]
<1>1. position \in Table /\ L1Funding # L3Tail
  BY DEF Shape, TypeOK, StoreTypeOK, Table, L1Funding, L3Tail
<1>2. CASE UNCHANGED position
  BY <1>2 DEF Strangles, OpenPositions, Live
<1>3. CASE p \in OpenPositions(L1Funding) /\ ClosePosition(p, 0)
  <2>1. /\ \A q \in PositionId \ {p} : position'[q] = position[q]
        /\ position'[p].layer = L1Funding /\ position[p].layer = L1Funding
    BY <1>1, <1>3, CloseWrites DEF OpenPositions
  <2> QED BY <1>1, <2>1 DEF Strangles, OpenPositions, Live
<1>4. CASE \E n \in OtherSizes : CreatePosition(p, L1Funding, n, NULL)
  <2>1. PICK n \in OtherSizes : CreatePosition(p, L1Funding, n, NULL)
    BY <1>4
  <2>2. n \in 0..MaxNotional /\ L1Funding \in Layer /\ NULL \in Metadata \cup {NULL}
    BY L3Assumption, StoreAssumption DEF Layer
  <2>3. /\ position'[p] = [state |-> "opening", layer |-> L1Funding, notional |-> n,
                           realized |-> 0, metadata |-> NULL]
        /\ position[p].state = "absent"
        /\ \A q \in PositionId \ {p} : position'[q] = position[q]
    BY <1>1, <2>1, <2>2, CreateWrites
  <2>4. p \notin Strangles /\ p \notin Strangles'
    BY <1>1, <2>3 DEF Strangles, OpenPositions, Live, LiveState
  <2> QED BY <2>3, <2>4 DEF Strangles, OpenPositions, Live
<1> QED
  BY <1>2, <1>3, <1>4 DEF Elsewhere, ReconcileAtRisk, SetHaltReason

LEMMA RunStepsKeep == Shape /\ RunInv /\ [Next]_vars => RunInv'
<1> SUFFICES ASSUME Shape, RunInv, [Next]_vars PROVE RunInv'
  OBVIOUS
<1>1. /\ position \in Table /\ cur \in PositionId \cup {NULL}
      /\ strangles \subseteq PositionId
  BY DEF Shape, TypeOK, StoreTypeOK, Table
<1>2. Shape'
  BY ShapeStep
<1>3. ASSUME NEW u, OpenFails(u) \/ \E p : HoldStrangle(u, p)
      PROVE  RunInv'
  <2>1. /\ UNCHANGED <<position, strangles>> /\ NextUnderlying /\ pc' = "loop" /\ pc # "idle"
    BY <1>3 DEF OpenFails, HoldStrangle, MayOpen, Quoting, Visit, NextUnderlying, storeVars
  <2>2. \A v : Undecided(v)' => Undecided(v)
    BY <2>1, MovesOn DEF Undecided
  <2> QED BY <2>1, <2>2 DEF RunInv, OneStranglePerUnderlying, Strangles, OpenPositions, Live,
             UnderlyingOf, PlannedAt
<1>4. CASE StartRun
  <2>1. strangles' = Strangles' /\ UNCHANGED position /\ pc' = "loop"
    BY <1>4 DEF StartRun, storeVars, Strangles, OpenPositions, Live
  <2> QED BY <2>1 DEF RunInv, OneStranglePerUnderlying, Strangles, OpenPositions, Live,
             PlannedAt
<1>5. CASE RunDone \/ Interrupt
  BY <1>5 DEF RunDone, Interrupt, storeVars, RunInv, OneStranglePerUnderlying, Strangles,
     OpenPositions, Live, PlannedAt
<1>6. CASE Tick \/ UNCHANGED vars
  BY <1>6 DEF Tick, vars, storeVars, RunInv, OneStranglePerUnderlying, Strangles,
     OpenPositions, Live, UnderlyingOf, Undecided, IsFirst
<1>7. CASE RecordCall \/ RecordPut
  <2>1. /\ UNCHANGED <<position, strangles, to_visit>>
        /\ pc \in InHandAt /\ pc' \in InHandAt
    BY <1>7 DEF RecordCall, RecordPut, RecordFill, InHandAt
  <2> QED BY <2>1 DEF RunInv, OneStranglePerUnderlying, Strangles, OpenPositions, Live,
             UnderlyingOf, Undecided, IsFirst, InHandAt, PlannedAt
<1>8. CASE BetweenRuns
  <2>1. pc = "idle" /\ pc' = "idle"
    BY <1>8 DEF BetweenRuns
  <2>2. Strangles' = Strangles /\ \A q \in Strangles : position'[q] = position[q]
    BY <1>8, ElsewhereKeepsStrangles
       DEF BetweenRuns, storeVars, Strangles, OpenPositions, Live
  <2> QED BY <2>1, <2>2 DEF RunInv, OneStranglePerUnderlying, PlannedAt
<1>9. ASSUME NEW u, NEW p \in PositionId, RollStrangle(u, p)
      PROVE  RunInv'
  <2>1. /\ IsFirst(u, to_visit) /\ p \in strangles /\ UnderlyingOf(p) = u
        /\ pc = "loop" /\ pc' = "reopen" /\ UNCHANGED <<strangles, to_visit>>
        /\ ClosePosition(p, -position[p].notional)
    BY <1>9 DEF RollStrangle, Visit, IsFirst, Held, UnderlyingOf
  <2>2. -position[p].notional \in Int
    BY <1>1 DEF Table, PositionRow
  <2>3. /\ position'[p].state = "closed"
        /\ \A q \in PositionId \ {p} : position'[q] = position[q]
        /\ \A q \in PositionId : /\ position'[q].layer = position[q].layer
                                 /\ position'[q].metadata = position[q].metadata
    BY <1>1, <2>1, <2>2, CloseWrites
  <2>4. Strangles' = Strangles \ {p} /\ \A q \in PositionId : UnderlyingOf(q)' = UnderlyingOf(q)
    BY <2>3 DEF Strangles, OpenPositions, Live, LiveState, UnderlyingOf
  <2>5. \A v : Undecided(v)' => Undecided(v) /\ v # u
    BY <2>1 DEF Undecided, IsFirst
  <2>6. Undecided(u)
    BY <2>1 DEF Undecided, IsFirst
  <2>7. p \in Strangles /\ \A q \in Strangles : UnderlyingOf(q) = u => q = p
    BY <2>1, <2>6 DEF RunInv, OneStranglePerUnderlying, UnderlyingOf
  <2>8. OneStranglePerUnderlying'
    BY <2>4 DEF RunInv, OneStranglePerUnderlying, UnderlyingOf, Strangles, OpenPositions, Live
  <2>9. \A q \in Strangles' : ~IsFirst(UnderlyingOf(q), to_visit)'
    <3> SUFFICES ASSUME NEW q \in Strangles', IsFirst(UnderlyingOf(q), to_visit)'
                 PROVE  FALSE
      OBVIOUS
    <3>1. q \in Strangles \ {p} /\ q \in PositionId
      BY <2>4 DEF Strangles, OpenPositions, Live
    <3>2. IsFirst(UnderlyingOf(q), to_visit)
      BY <2>1, <2>4, <3>1 DEF IsFirst
    <3>3. UnderlyingOf(q) = u
      BY <2>1, <3>2, OneFirst
    <3> QED BY <2>7, <3>1, <3>3
  <2>10. \A q \in Strangles' : Undecided(UnderlyingOf(q))' => q \in strangles'
    <3> SUFFICES ASSUME NEW q \in Strangles', Undecided(UnderlyingOf(q))'
                 PROVE  q \in strangles'
      OBVIOUS
    <3>1. q \in Strangles /\ q \in PositionId /\ UnderlyingOf(q)' = UnderlyingOf(q)
      BY <2>4 DEF Strangles, OpenPositions, Live
    <3>2. Undecided(UnderlyingOf(q))
      BY <2>1, <3>1 DEF Undecided
    <3> QED BY <2>1, <3>1, <3>2 DEF RunInv
  <2>11. \A q \in strangles' : Undecided(UnderlyingOf(q))' => q \in Strangles'
    <3> SUFFICES ASSUME NEW q \in strangles', Undecided(UnderlyingOf(q))'
                 PROVE  q \in Strangles'
      OBVIOUS
    <3>1. q \in strangles /\ q \in PositionId /\ UnderlyingOf(q)' = UnderlyingOf(q)
      BY <1>1, <2>1, <2>4
    <3>2. Undecided(UnderlyingOf(q)) /\ UnderlyingOf(q) # u
      BY <2>1, <3>1 DEF Undecided, IsFirst
    <3>3. q \in Strangles /\ q # p
      BY <2>1, <3>1, <3>2 DEF RunInv
    <3> QED BY <2>4, <3>3
  <2>12. strangles' \subseteq {q \in PositionId : position'[q].layer = L3Tail}
    BY <1>1, <2>1, <2>3 DEF RunInv
  <2> QED BY <2>1, <2>8, <2>9, <2>10, <2>11, <2>12 DEF RunInv
<1>10. ASSUME NEW u \in Underlying, NEW p \in PositionId, CreateStrangle(u, p)
       PROVE  RunInv'
  <2>1. PICK row \in PositionRow :
              /\ position'[p] = row /\ position[p].state = "absent"
              /\ \A q \in PositionId \ {p} : position'[q] = position[q]
              /\ row.state = "opening" /\ row.layer = L3Tail /\ row.metadata.underlying = u
    BY <1>10, CreateInserts
  <2>2. /\ pc = "create" /\ pc' = "call" /\ UNCHANGED <<strangles, to_visit>>
        /\ IsFirst(u, to_visit)
    BY <1>10 DEF CreateStrangle
  <2>4. /\ Strangles' = Strangles \cup {p} /\ p \notin Strangles
        /\ \A q \in Strangles : q \in PositionId /\ UnderlyingOf(q)' = UnderlyingOf(q)
        /\ UnderlyingOf(p)' = u
    BY <2>1 DEF Strangles, OpenPositions, Live, LiveState, UnderlyingOf
  <2>5. \A q \in Strangles : UnderlyingOf(q) # u
    BY <2>2 DEF RunInv, PlannedAt
  <2>6. OneStranglePerUnderlying'
    <3>1. \A q, r \in Strangles : UnderlyingOf(q) = UnderlyingOf(r) => q = r
      BY DEF RunInv, OneStranglePerUnderlying, UnderlyingOf
    <3>2. \A q, r \in Strangles' : UnderlyingOf(q)' = UnderlyingOf(r)' => q = r
      BY <2>4, <2>5, <3>1
    <3> QED BY <3>2 DEF OneStranglePerUnderlying, UnderlyingOf
  <2>7. \A v : Undecided(v)' => Undecided(v) /\ v # u
    BY <2>2 DEF Undecided, IsFirst
  <2>8. \A q \in Strangles' : Undecided(UnderlyingOf(q))' => q \in strangles'
    <3> SUFFICES ASSUME NEW q \in Strangles', Undecided(UnderlyingOf(q))'
                 PROVE  q \in strangles'
      OBVIOUS
    <3>1. UnderlyingOf(q)' # u
      BY <2>2 DEF Undecided, IsFirst
    <3>2. q \in Strangles /\ UnderlyingOf(q)' = UnderlyingOf(q)
      BY <2>4, <3>1
    <3>3. Undecided(UnderlyingOf(q))
      BY <2>2, <3>2 DEF Undecided
    <3> QED BY <2>2, <3>2, <3>3 DEF RunInv
  <2>9. \A q \in strangles' : Undecided(UnderlyingOf(q))' => q \in Strangles'
    <3> SUFFICES ASSUME NEW q \in strangles', Undecided(UnderlyingOf(q))'
                 PROVE  q \in Strangles'
      OBVIOUS
    <3>1. q \in strangles /\ q \in PositionId /\ UnderlyingOf(q)' # u
      BY <1>1, <2>2 DEF Undecided, IsFirst
    <3>2. q # p /\ UnderlyingOf(q)' = UnderlyingOf(q)
      BY <2>1, <2>4, <3>1 DEF UnderlyingOf
    <3>3. Undecided(UnderlyingOf(q))
      BY <2>2, <3>2 DEF Undecided
    <3> QED BY <2>2, <2>4, <3>1, <3>3 DEF RunInv
  <2>10. strangles' \subseteq {q \in PositionId : position'[q].layer = L3Tail}
    BY <1>1, <2>1, <2>2 DEF RunInv
  <2> QED BY <2>2, <2>6, <2>8, <2>9, <2>10 DEF RunInv, PlannedAt
<1>12. ASSUME NEW u \in Underlying, ChooseExpiry(u)
       PROVE  RunInv'
  <2>1. /\ IsFirst(u, to_visit) /\ pc \in {"loop", "reopen"} /\ pc' = "quotes"
        /\ UNCHANGED <<position, strangles, to_visit>>
    BY <1>12 DEF ChooseExpiry, MayOpen, Visit, storeVars
  <2>2. \A q \in Strangles : ~IsFirst(UnderlyingOf(q), to_visit)
    <3>1. CASE pc = "reopen"
      BY <3>1 DEF RunInv
    <3>2. CASE pc = "loop" /\ Held(u) = {}
      <4>1. Undecided(u)
        BY <2>1, <3>2 DEF Undecided, IsFirst
      <4>2. \A q \in Strangles : UnderlyingOf(q) # u
        BY <3>2, <4>1 DEF RunInv, Held, UnderlyingOf
      <4> QED BY <2>1, <4>2, OneFirst
    <3> QED BY <1>12, <3>1, <3>2 DEF ChooseExpiry, MayOpen, Visit
  <2>3. Strangles' = Strangles /\ \A q : UnderlyingOf(q)' = UnderlyingOf(q)
    BY <2>1 DEF Strangles, OpenPositions, Live, UnderlyingOf
  <2>4. \A v : Undecided(v)' => Undecided(v)
    BY <2>1 DEF Undecided, IsFirst
  <2>5. \A q \in Strangles' : ~IsFirst(UnderlyingOf(q), to_visit)'
    BY <2>1, <2>2, <2>3 DEF IsFirst
  <2>6. OneStranglePerUnderlying'
    BY <2>1 DEF RunInv, OneStranglePerUnderlying, Strangles, OpenPositions, Live
  <2> QED BY <2>1, <2>3, <2>4, <2>5, <2>6 DEF RunInv
<1>13. ASSUME NEW premium \in Premiums, SizeStrangle(premium)
       PROVE  RunInv'
  <2>1. /\ pc = "quotes" /\ pc' = "create" /\ UNCHANGED <<position, strangles, to_visit>>
    BY <1>13 DEF SizeStrangle, storeVars
  <2> QED BY <2>1 DEF RunInv, OneStranglePerUnderlying, Strangles, OpenPositions, Live,
             UnderlyingOf, Undecided, IsFirst, PlannedAt
<1>11. CASE MarkStrangleOpen
  <2>1. /\ cur \in PositionId /\ position[cur].state = "opening" /\ position[cur].layer = L3Tail
        /\ SetPositionState(cur, "open") /\ "open" \in PositionState
        /\ NextUnderlying /\ pc' = "loop" /\ UNCHANGED strangles
        /\ pc = "mark_open"
    BY <1>11 DEF MarkStrangleOpen, MarkPositionOpen, NextUnderlying, PositionState,
       Shape, TypeOK, InHand, InHandAt
  <2>2. /\ position'[cur].state = "open"
        /\ \A q \in PositionId \ {cur} : position'[q] = position[q]
        /\ \A q \in PositionId : /\ position'[q].layer = position[q].layer
                                 /\ position'[q].metadata = position[q].metadata
    BY <1>1, <2>1, SetStateWrites
  <2>3. Strangles' = Strangles /\ \A q \in PositionId : UnderlyingOf(q)' = UnderlyingOf(q)
    BY <2>1, <2>2 DEF Strangles, OpenPositions, Live, LiveState, UnderlyingOf
  <2>4. \A v : Undecided(v)' => Undecided(v)
    BY <2>1, MovesOn DEF Undecided
  <2>5. OneStranglePerUnderlying'
    BY <2>3 DEF RunInv, OneStranglePerUnderlying, UnderlyingOf, Strangles, OpenPositions, Live
  <2>6. strangles' \subseteq {q \in PositionId : position'[q].layer = L3Tail}
    BY <1>1, <2>1, <2>2 DEF RunInv
  <2>7. /\ \A q \in Strangles' : Undecided(UnderlyingOf(q))' => q \in strangles'
        /\ \A q \in strangles' : Undecided(UnderlyingOf(q))' => q \in Strangles'
    <3>1. \A q \in Strangles : q \in PositionId
      BY DEF Strangles, OpenPositions, Live
    <3>2. \A q \in PositionId : Undecided(UnderlyingOf(q))' => Undecided(UnderlyingOf(q))
      BY <2>3, <2>4
    <3> QED BY <1>1, <2>1, <2>3, <3>1, <3>2 DEF RunInv
  <2> QED BY <2>1, <2>5, <2>6, <2>7 DEF RunInv, PlannedAt
<1> QED
  BY <1>3, <1>4, <1>5, <1>6, <1>7, <1>8, <1>9, <1>10, <1>11, <1>12, <1>13 DEF Next, RunStep

(***************************************************************************)
(* Whatever rolls, failures, cut runs and restarts there are, no           *)
(* underlying ever has two live strangles.                                 *)
(***************************************************************************)
THEOREM OneStrangle == Spec => []OneStranglePerUnderlying
<1>1. Init => RunInv
  BY DEF Init, StoreInit, NoRow, RunInv, OneStranglePerUnderlying, Strangles, OpenPositions,
     Live, LiveState, PlannedAt
<1>2. Shape /\ RunInv /\ [Next]_vars => RunInv'
  BY RunStepsKeep
<1>3. RunInv => OneStranglePerUnderlying
  BY DEF RunInv
<1> QED
  BY <1>1, <1>2, <1>3, ShapeHolds, PTL DEF Spec

-----------------------------------------------------------------------------
(* Both legs on record *)

(* A second INSERT of a fill changes nothing, as the first was of a fill.  *)
LEMMA RecordsFill ==
    ASSUME \A f \in fill : f.filled, fill \subseteq FillRow,
           NEW p \in PositionId, NEW tag \in OrderTag, RecordFill(<<p, tag>>, TRUE)
    PROVE  /\ Filled(p, tag)'
           /\ fill \subseteq fill'
           /\ \A f \in fill' : f.filled
<1> DEFINE id == <<p, tag>>
<1>1. id \in ClientOrderId
  BY DEF ClientOrderId
<1>2. CASE id \in SeenOrderIds
  <2>1. PICK f \in fill : f.id = id
    BY <1>2 DEF SeenOrderIds
  <2>2. f = [id |-> id, filled |-> TRUE]
    <3>1. f \in [id : ClientOrderId, filled : BOOLEAN] /\ f.filled
      BY DEF FillRow
    <3> HIDE DEF id
    <3> QED BY <2>1, <3>1
  <2>3. fill' = fill
    BY <1>2 DEF RecordFill
  <2> QED BY <2>2, <2>3 DEF Filled
<1>3. CASE id \notin SeenOrderIds
  <2> DEFINE row == [id |-> id, filled |-> TRUE]
  <2>1. fill' = fill \cup {row} /\ row.filled
    BY <1>3 DEF RecordFill
  <2>2. row \in fill' => Filled(p, tag)'
    BY DEF Filled
  <2> HIDE DEF row
  <2> QED BY <2>1, <2>2
<1> QED
  BY <1>2, <1>3

LEMMA FilledStays ==
    ASSUME fill \subseteq fill', NEW p, NEW tag, Filled(p, tag)
    PROVE  Filled(p, tag)'
BY DEF Filled

(* A step that leaves the fills alone, opens no strangle and holds none. *)
LEMMA LegsKept ==
    ASSUME LegsInv, UNCHANGED fill, pc' \notin {"put", "mark_open"},
           \A p \in PositionId :
              p \in Strangles' /\ position'[p].state = "open"
                 => p \in Strangles /\ position[p].state = "open"
    PROVE  LegsInv'
<1>1. \A p, tag : Filled(p, tag)' = Filled(p, tag)
  BY DEF Filled
<1>2. OpenHasBothLegs'
  BY <1>1 DEF LegsInv, OpenHasBothLegs, Strangles, OpenPositions, Live
<1> QED
  BY <1>2 DEF LegsInv

LEMMA LegsStep == Shape /\ LegsInv /\ [Next]_vars => LegsInv'
<1> SUFFICES ASSUME Shape, LegsInv, [Next]_vars PROVE LegsInv'
  OBVIOUS
<1>1. position \in Table /\ fill \subseteq FillRow /\ {"call", "put"} \subseteq OrderTag
  BY L3Assumption DEF Shape, TypeOK, StoreTypeOK, Table
<1>2. ASSUME UNCHANGED <<position, fill>>, pc' \notin {"put", "mark_open"}
      PROVE  LegsInv'
  BY <1>2, LegsKept DEF Strangles, OpenPositions, Live
<1>3. CASE StartRun \/ RunDone \/ Interrupt
           \/ \E u \in Underlying : OpenFails(u) \/ \E p \in PositionId : HoldStrangle(u, p)
  BY <1>2, <1>3 DEF StartRun, RunDone, Interrupt, OpenFails, HoldStrangle, NextUnderlying,
     storeVars
<1>10. CASE \/ \E u \in Underlying : ChooseExpiry(u)
            \/ \E premium \in Premiums : SizeStrangle(premium)
  BY <1>2, <1>10 DEF ChooseExpiry, SizeStrangle, storeVars
<1>4. CASE Tick \/ UNCHANGED vars
  BY <1>4 DEF Tick, vars, storeVars, LegsInv, OpenHasBothLegs, Strangles, OpenPositions,
     Live, Filled
<1>5. ASSUME NEW u, NEW p \in PositionId, RollStrangle(u, p)
      PROVE  LegsInv'
  <2>1. -position[p].notional \in Int /\ ClosePosition(p, -position[p].notional)
        /\ pc' = "reopen"
    BY <1>1, <1>5 DEF Table, PositionRow, RollStrangle
  <2>2. /\ position'[p].state = "closed"
        /\ \A q \in PositionId \ {p} : position'[q] = position[q]
    BY <1>1, <2>1, CloseWrites
  <2>3. UNCHANGED fill
    BY <2>1 DEF ClosePosition
  <2>4. \A q \in PositionId : q \in Strangles' /\ position'[q].state = "open"
                               => q \in Strangles /\ position[q].state = "open"
    BY <2>2 DEF Strangles, OpenPositions, Live
  <2> QED BY <2>1, <2>3, <2>4, LegsKept
<1>6. ASSUME NEW u \in Underlying, NEW p \in PositionId, CreateStrangle(u, p)
      PROVE  LegsInv'
  <2>1. PICK row \in PositionRow :
              /\ position'[p] = row /\ row.state = "opening"
              /\ \A q \in PositionId \ {p} : position'[q] = position[q]
              /\ UNCHANGED fill
    BY <1>6, CreateInserts
  <2>2. \A q \in PositionId : q \in Strangles' /\ position'[q].state = "open"
                               => q \in Strangles /\ position[q].state = "open"
    <3>1. position'[p].state # "open"
      BY <2>1
    <3> QED BY <2>1, <3>1 DEF Strangles, OpenPositions, Live
  <2>3. pc' = "call"
    BY <1>6 DEF CreateStrangle
  <2> QED BY <2>1, <2>2, <2>3, LegsKept
<1>7. CASE RecordCall \/ RecordPut
  <2>1. PICK tag \in {"call", "put"} :
           /\ pc = tag /\ RecordFill(<<cur, tag>>, TRUE) /\ UNCHANGED cur
           /\ tag = "call" => pc' = "put"
           /\ tag = "put" => pc' = "mark_open"
    BY <1>7 DEF RecordCall, RecordPut
  <2>2. cur \in PositionId
    BY <2>1 DEF Shape, TypeOK, InHand, InHandAt
  <2>3. /\ Filled(cur, tag)' /\ fill \subseteq fill' /\ \A f \in fill' : f.filled
        /\ UNCHANGED position
    BY <1>1, <2>1, <2>2, RecordsFill DEF LegsInv, RecordFill
  <2>4. \A p, t : Filled(p, t) => Filled(p, t)'
    BY <2>3, FilledStays
  <2>5. OpenHasBothLegs'
    BY <2>3, <2>4 DEF LegsInv, OpenHasBothLegs, Strangles, OpenPositions, Live
  <2>6. /\ pc' \in {"put", "mark_open"} => Filled(cur, "call")'
        /\ pc' = "mark_open" => Filled(cur, "put")'
    BY <2>1, <2>3, <2>4 DEF LegsInv
  <2> QED BY <2>3, <2>5, <2>6 DEF LegsInv
<1>8. CASE MarkStrangleOpen
  <2>1. /\ cur \in PositionId /\ SetPositionState(cur, "open") /\ "open" \in PositionState
        /\ pc = "mark_open" /\ pc' = "loop"
    BY <1>8 DEF MarkStrangleOpen, MarkPositionOpen, NextUnderlying, PositionState, Shape,
       TypeOK, InHand, InHandAt
  <2>2. /\ \A q \in PositionId \ {cur} : position'[q] = position[q]
        /\ UNCHANGED fill
    BY <1>1, <2>1, SetStateWrites DEF SetPositionState
  <2>3. Filled(cur, "call") /\ Filled(cur, "put")
    BY <2>1 DEF LegsInv
  <2>4. OpenHasBothLegs'
    BY <2>2, <2>3 DEF LegsInv, OpenHasBothLegs, Strangles, OpenPositions, Live, Filled
  <2> QED BY <2>1, <2>2, <2>4 DEF LegsInv
<1>9. CASE BetweenRuns
  <2>1. pc' = "idle" /\ UNCHANGED fill
    BY <1>9 DEF BetweenRuns, Elsewhere, storeVars, ReconcileAtRisk, SetHaltReason,
       ClosePosition, CreatePosition
  <2>2. Strangles' = Strangles /\ \A q \in Strangles : position'[q] = position[q]
    BY <1>9, ElsewhereKeepsStrangles
       DEF BetweenRuns, storeVars, Strangles, OpenPositions, Live
  <2> QED BY <2>1, <2>2, LegsKept
<1> QED
  BY <1>3, <1>4, <1>5, <1>6, <1>7, <1>8, <1>9, <1>10 DEF Next, RunStep

(***************************************************************************)
(* A strangle counts as open only with its call and its put on record,     *)
(* however often a run is cut between the two.                             *)
(***************************************************************************)
THEOREM OpenMeansBothLegs == Spec => []OpenHasBothLegs
<1>1. Init => LegsInv
  BY DEF Init, StoreInit, NoRow, LegsInv, OpenHasBothLegs, Strangles, OpenPositions, Live,
     LiveState
<1>2. Shape /\ LegsInv /\ [Next]_vars => LegsInv'
  BY LegsStep
<1>3. LegsInv => OpenHasBothLegs
  BY DEF LegsInv
<1> QED
  BY <1>1, <1>2, <1>3, ShapeHolds, PTL DEF Spec

-----------------------------------------------------------------------------
(* What a roll buys was not due to roll when it was chosen *)

(* A strangle comes to be in one way only. *)
LEMMA OpenedByCreate ==
    ASSUME Shape, [Next]_vars, NEW p \in PositionId, Opened(p)
    PROVE  /\ pc = "create"
           /\ position'[p].metadata.expiry = plan.expiry
<1>1. position \in Table /\ L1Funding # L3Tail
  BY DEF Shape, TypeOK, StoreTypeOK, Table, L1Funding, L3Tail
<1>2. position'[p].state = "opening" /\ position[p].state = "absent" /\ p \in Strangles'
      /\ p \notin Strangles
  BY DEF Opened, Strangles, OpenPositions, Live, LiveState
<1>3. ~UNCHANGED position
  BY <1>2
<1>4. ~BetweenRuns
  BY <1>2, ElsewhereKeepsStrangles
     DEF BetweenRuns, storeVars, Strangles, OpenPositions, Live
<1>5. ASSUME NEW u, NEW q \in PositionId, RollStrangle(u, q) PROVE FALSE
  <2>1. -position[q].notional \in Int /\ ClosePosition(q, -position[q].notional)
    BY <1>1, <1>5 DEF Table, PositionRow, RollStrangle
  <2> QED BY <1>1, <1>2, <2>1, CloseWrites
<1>6. ~MarkStrangleOpen
  <2> SUFFICES ASSUME MarkStrangleOpen PROVE FALSE
    OBVIOUS
  <2>1. cur \in PositionId /\ SetPositionState(cur, "open") /\ "open" \in PositionState
    BY DEF MarkStrangleOpen, MarkPositionOpen, PositionState, Shape, TypeOK, InHand, InHandAt
  <2> QED BY <1>1, <1>2, <2>1, SetStateWrites
<1>7. PICK u \in Underlying, q \in PositionId : CreateStrangle(u, q)
  BY <1>3, <1>4, <1>5, <1>6 DEF Next, RunStep, StartRun, OpenFails, ChooseExpiry,
     SizeStrangle, HoldStrangle, RecordCall, RecordPut, RecordFill, RunDone, Interrupt, Tick,
     vars, storeVars
<1>8. PICK row \in PositionRow :
         /\ position'[q] = row /\ row.metadata.expiry = plan.expiry
         /\ \A r \in PositionId \ {q} : position'[r] = position[r]
  BY <1>7, CreateInserts
<1>9. q = p
  BY <1>2, <1>8
<1> QED
  BY <1>7, <1>8, <1>9 DEF CreateStrangle

(* The nearest to the target is clear of the roll if any expiry is. *)
LEMMA TargetIsClear ==
    ASSUME TypeOK, Future # {}, NEW e \in chain, InRangeOn(now, e)
    PROVE  TargetExpiry - now >= MinDte
<1>1. /\ TargetExpiry \in Future
      /\ \A f \in Future : Distance(TargetExpiry) <= Distance(f)
  BY TargetIsNearest
<1>2. /\ TargetExpiry \in Nat /\ e \in Nat /\ now \in Nat /\ TargetExpiry > now
      /\ TargetDte \in Nat /\ MinDte \in Nat /\ MinDte <= TargetDte
  <2>1. /\ chain \subseteq Nat /\ now \in Nat
        /\ TargetDte \in Nat /\ MinDte \in Nat /\ MinDte <= TargetDte
    BY L3Assumption DEF TypeOK
  <2>2. \A f \in Future : f \in chain /\ f > now
    BY DEF Future
  <2> QED BY <1>1, <2>1, <2>2
<1>3. MinDte <= e - now /\ e - now <= 2 * TargetDte - MinDte
  BY DEF InRangeOn
<1>4. CASE MinDte = 0
  BY <1>2, <1>4
<1>5. CASE MinDte > 0
  <2>1. Distance(TargetExpiry) <= Distance(e)
    BY <1>1, <1>2, <1>3, <1>5 DEF Future
  <2>2. Distance(e) <= TargetDte - MinDte
    BY <1>2, <1>3 DEF Distance
  <2> DEFINE t == TargetExpiry
  <2> HIDE DEF t
  <2>3. t \in Nat /\ t > now /\ Distance(t) <= TargetDte - MinDte
    BY <1>2, <1>3, <2>1, <2>2 DEF t, Distance
  <2>4. t - now >= MinDte
    BY <1>2, <2>3 DEF Distance
  <2> QED BY <2>4 DEF t
<1> QED
  BY <1>2, <1>4, <1>5

(* From the choice to the INSERT neither the plan nor the chain moves. *)
LEMMA ChosenStep == Shape /\ ChosenClear /\ [Next]_vars => ChosenClear'
<1> SUFFICES ASSUME Shape, ChosenClear, [Next]_vars, pc' \in PlannedAt
             PROVE  ChosenClear'
  BY DEF ChosenClear
<1>1. CASE \E u \in Underlying : ChooseExpiry(u)
  <2>1. /\ Future # {} /\ plan' = [expiry |-> TargetExpiry, on |-> now, notional |-> 0]
        /\ UNCHANGED chain /\ TypeOK
    BY <1>1 DEF ChooseExpiry, Shape
  <2>2. plan'.expiry = TargetExpiry /\ plan'.on = now
    BY <2>1
  <2> QED BY <2>1, <2>2, TargetIsClear DEF ChosenClear, InRangeOn
<1>2. CASE \E premium \in Premiums : SizeStrangle(premium)
  <2>1. PICK n : plan' = [plan EXCEPT !.notional = n] /\ UNCHANGED chain /\ pc = "quotes"
    BY <1>2 DEF SizeStrangle
  <2>2. plan \in Plan
    BY <2>1 DEF Shape, Planned, PlannedAt
  <2>3. plan'.expiry = plan.expiry /\ plan'.on = plan.on
    BY <2>1, <2>2 DEF Plan
  <2> QED BY <2>1, <2>3 DEF ChosenClear, InRangeOn, PlannedAt
<1>3. CASE Tick \/ UNCHANGED vars
  BY <1>3 DEF Tick, vars, ChosenClear, InRangeOn
<1>4. ASSUME pc' \in {"idle", "loop", "reopen", "call", "put", "mark_open"}
      PROVE  FALSE
  BY <1>4 DEF PlannedAt
<1>5. CASE BetweenRuns
  BY <1>4, <1>5 DEF BetweenRuns
<1> QED
  BY <1>1, <1>2, <1>3, <1>4, <1>5
     DEF Next, RunStep, StartRun, OpenFails, HoldStrangle, RollStrangle, CreateStrangle,
         RecordCall, RecordPut, MarkStrangleOpen, RunDone, Interrupt, NextUnderlying

(***************************************************************************)
(* For every calendar and chain: if the loaded chain has an expiry no      *)
(* further above TARGET_DTE than the roll threshold is below it on the day *)
(* the expiry is chosen, a new strangle was clear of its roll that day,    *)
(* however long its quotes take and however often runs are cut.            *)
(***************************************************************************)
THEOREM OpensClear == Spec => OpensClearWhenLoaded
<1>1. Init => ChosenClear
  BY DEF Init, ChosenClear, PlannedAt
<1>2. Shape /\ ChosenClear /\ [Next]_vars => ChosenClear'
  BY ChosenStep
<1>3. Shape /\ ChosenClear /\ [Next]_vars =>
         [\A p \in PositionId :
             Opened(p) /\ (\E e \in chain : InRangeOn(plan.on, e))
             => position'[p].metadata.expiry - plan.on >= MinDte]_vars
  BY OpenedByCreate DEF ChosenClear, PlannedAt
<1> QED
  BY <1>1, <1>2, <1>3, ShapeHolds, PTL DEF Spec, OpensClearWhenLoaded
=============================================================================
