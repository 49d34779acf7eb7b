-------------------------- MODULE L1Executor_proofs --------------------------
(***************************************************************************)
(* Layer 1 for every set of pairs, every number of rows and every cap.     *)
(* Shape holds what ties the row in hand to where the run stands, RowWrites*)
(* says which rows a step may write and how, OrdersInv what the legs sent, *)
(* the fill rows and the program counter know of each other.  The          *)
(* invariants and action properties of the runs follow from them.          *)
(***************************************************************************)
EXTENDS L1Executor, Store_proofs

-----------------------------------------------------------------------------
(* Type correctness *)

LEMMA StoreTypes ==
    ASSUME TypeOK
    PROVE  /\ position \in Table
           /\ TotalAtRisk \in Nat
           /\ \A l : LayerDeployed(l) \in Nat
<1>1. position \in Table
  BY DEF TypeOK, StoreTypeOK, Table
<1>2. Live \in SUBSET PositionId /\ \A l : OpenPositions(l) \in SUBSET PositionId
  BY DEF Live, OpenPositions
<1>3. TotalAtRisk \in Nat
  BY <1>1, <1>2, SumType DEF TotalAtRisk, Notional
<1>4. ASSUME NEW l PROVE LayerDeployed(l) \in Nat
  BY <1>1, <1>2, SumType DEF LayerDeployed, Notional
<1> QED
  BY <1>1, <1>3, <1>4

(* An entry the budget allows is a row of the table. *)
LEMMA BudgetType ==
    ASSUME TypeOK
    PROVE  /\ LayerAlloc \in Nat
           /\ Budget \in Int
           /\ Budget >= MinPosition => Budget \in 0..MaxNotional
<1>1. LayerDeployed(L1Funding) \in Nat
  BY StoreTypes
<1>2. L1Funding \in Layer
  BY DEF Layer
<1>3. LayerAlloc \in Nat
  <2>1. StaticAlloc[L1Funding] \in Nat
    BY <1>2, SafeguardsAssumption, L1Assumption
  <2>2. DynamicAlloc \in Nat \cup {NULL}
    BY <1>2 DEF TypeOK, StoreTypeOK, SystemState, DynamicAlloc
  <2> QED BY <2>1, <2>2 DEF LayerAlloc
<1> QED
  BY <1>1, <1>3, SafeguardsAssumption, L1Assumption, StoreAssumption DEF Budget

(* What the states of a run that hold a position in hand say of it. *)
LEMMA InHandFacts ==
    ASSUME Shape, pc \in Closing \cup Opening
    PROVE  /\ cur \in PositionId
           /\ position[cur].state # "absent"
           /\ position[cur].layer = L1Funding
           /\ position[cur].metadata \in Pair
           /\ cur \notin to_manage \/ pc \in Opening
<1>1. cur \in PositionId
  BY DEF Shape, TypeOK, InHand, Closing, Opening, OpenLegs, CloseLegs
<1>2. cur # NULL
  BY <1>1, StoreAssumption
<1> QED
  BY <1>1, <1>2 DEF Shape, RowInHand, RowsNamePairs, ManagedAreLive,
     OpenPositions, Live, LiveState, Closing, Opening

(* A step that leaves the rows alone leaves what they say alone. *)
LEMMA SameRows ==
    ASSUME UNCHANGED position
    PROVE  /\ RowsNamePairs <=> RowsNamePairs'
           /\ UNCHANGED Live
           /\ \A l : UNCHANGED OpenPositions(l)
           /\ UNCHANGED TotalAtRisk
           /\ \A a : UNCHANGED LiveOn(a)
<1>1. UNCHANGED Live
  BY DEF Live
<1>2. \A l : UNCHANGED OpenPositions(l)
  BY <1>1 DEF OpenPositions
<1>3. UNCHANGED TotalAtRisk
  BY <1>1 DEF TotalAtRisk, Notional
<1>4. \A a : UNCHANGED LiveOn(a)
  BY <1>2 DEF LiveOn
<1> QED
  BY <1>1, <1>2, <1>3, <1>4 DEF RowsNamePairs

(***************************************************************************)
(* Sending an order writes at most a fill row and the exchange's books:    *)
(* the position table and the locals of the loops stay as they are.        *)
(***************************************************************************)
LEMMA SubmitLegWrites ==
    ASSUME Shape, NEW tag \in OrderTag, NEW next \in PcState, SubmitLeg(tag, next),
           tag \in PcState \ {"idle", "manage", "enter"}
    PROVE  /\ StoreTypeOK' /\ UNCHANGED position
           /\ legs' \subseteq OrderTag /\ venue' \in [ClientOrderId -> Nat]
           /\ UNCHANGED <<cands, to_manage, to_enter, held, cur>>
           /\ pc = tag /\ pc' = next
<1> USE DEF Shape, TypeOK
<1>1. cur \in PositionId /\ pc = tag /\ pc' = next
  BY DEF InHand, SubmitLeg
<1>2. <<cur, tag>> \in ClientOrderId
  BY <1>1 DEF ClientOrderId
<1>3. UNCHANGED <<cands, to_manage, to_enter, held, cur>>
  BY DEF SubmitLeg, runVars
<1>4. \/ \E ok \in BOOLEAN : SimulateLeg(tag, ok)
      \/ PlaceLeg(tag)
      \/ \E taken, recorded \in BOOLEAN : PlaceLegFails(tag, taken, recorded)
  BY DEF SubmitLeg
<1>5. ASSUME NEW ok \in BOOLEAN, SimulateLeg(tag, ok)
      PROVE  /\ StoreTypeOK' /\ UNCHANGED position
             /\ legs' \subseteq OrderTag /\ venue' \in [ClientOrderId -> Nat]
  <2>1. RecordFill(<<cur, tag>>, ok)
    BY <1>5 DEF SimulateLeg
  <2>2. StoreTypeOK'
    BY <1>2, <2>1, StatementTypes
  <2> QED BY <1>5, <2>1, <2>2 DEF SimulateLeg, RecordFill
<1>6. ASSUME PlaceLeg(tag)
      PROVE  /\ StoreTypeOK' /\ UNCHANGED position
             /\ legs' \subseteq OrderTag /\ venue' \in [ClientOrderId -> Nat]
  <2>1. RecordFill(<<cur, tag>>, TRUE)
    BY <1>6 DEF PlaceLeg
  <2>2. StoreTypeOK'
    BY <1>2, <2>1, StatementTypes
  <2> QED BY <1>2, <1>6, <2>1, <2>2 DEF PlaceLeg, RecordFill
<1>7. ASSUME NEW taken \in BOOLEAN, NEW recorded \in BOOLEAN,
             PlaceLegFails(tag, taken, recorded)
      PROVE  /\ StoreTypeOK' /\ UNCHANGED position
             /\ legs' \subseteq OrderTag /\ venue' \in [ClientOrderId -> Nat]
  <2>1. legs' = legs /\ venue' \in [ClientOrderId -> Nat]
    BY <1>2, <1>7 DEF PlaceLegFails
  <2>2. RecordFill(<<cur, tag>>, TRUE) \/ UNCHANGED storeVars
    BY <1>7 DEF PlaceLegFails
  <2>3. CASE RecordFill(<<cur, tag>>, TRUE)
    <3>1. StoreTypeOK'
      BY <1>2, <2>3, StatementTypes
    <3> QED BY <2>1, <2>3, <3>1 DEF RecordFill
  <2>4. CASE UNCHANGED storeVars
    <3>1. StoreTypeOK'
      BY <2>4, StatementTypes
    <3> QED BY <2>1, <2>4, <3>1 DEF storeVars
  <2> QED BY <2>2, <2>3, <2>4
<1> QED
  BY <1>1, <1>3, <1>4, <1>5, <1>6, <1>7

(* The four phases of a run share no await. *)
LEMMA Phases ==
    /\ Closing \cap Opening = {}
    /\ (Closing \cup Opening) \cap {"idle", "manage", "enter"} = {}
    /\ Closing \cup Opening \cup {"idle", "manage", "enter"} = PcState
    /\ OrderTag \subseteq Closing \cup Opening
BY L1Assumption DEF Closing, Opening, OpenLegs, CloseLegs, PcState

LEMMA SubmitLegShape ==
    ASSUME Shape, NEW tag \in OrderTag, NEW next, SubmitLeg(tag, next),
           \/ tag \in Closing /\ next \in Closing
           \/ tag \in Opening /\ next \in Opening
    PROVE  Shape'
<1>1. /\ tag \in PcState \ {"idle", "manage", "enter"}
      /\ next \in PcState \ {"idle", "manage", "enter"}
  BY Phases
<1>2. /\ StoreTypeOK' /\ UNCHANGED position
      /\ legs' \subseteq OrderTag /\ venue' \in [ClientOrderId -> Nat]
      /\ UNCHANGED <<cands, to_manage, to_enter, held, cur>>
      /\ pc = tag /\ pc' = next
  BY <1>1, SubmitLegWrites
<1>3. TypeOK'
  BY <1>1, <1>2 DEF Shape, TypeOK
<1>4. InHand'
  BY <1>1, <1>2 DEF Shape, InHand
<1>5. RowInHand'
  BY <1>2, Phases DEF Shape, RowInHand
<1> QED
  BY <1>2, <1>3, <1>4, <1>5, SameRows DEF Shape, ManagedAreLive

LEMMA SubmitsShape ==
    ASSUME Shape, SubmitSpot \/ SubmitPerp \/ SubmitSpotClose \/ SubmitPerpClose
    PROVE  Shape'
<1>1. /\ OpenLegs \subseteq OrderTag /\ CloseLegs \subseteq OrderTag
      /\ "spot" \in OpenLegs /\ "perp" \in OpenLegs
      /\ "spot_close" \in CloseLegs /\ "perp_close" \in CloseLegs
  BY L1Assumption DEF OpenLegs, CloseLegs
<1>2. /\ "spot" \in Opening /\ "perp" \in Opening /\ "settle" \in Opening
      /\ "spot_close" \in Closing /\ "perp_close" \in Closing
      /\ "close_settle" \in Closing
  BY DEF Opening, Closing, OpenLegs, CloseLegs
<1>3. SubmitLeg("spot", "perp") => Shape'
  BY <1>1, <1>2, SubmitLegShape
<1>4. SubmitLeg("perp", "settle") => Shape'
  BY <1>1, <1>2, SubmitLegShape
<1>5. SubmitLeg("spot_close", "perp_close") => Shape'
  BY <1>1, <1>2, SubmitLegShape
<1>6. SubmitLeg("perp_close", "close_settle") => Shape'
  BY <1>1, <1>2, SubmitLegShape
<1> QED
  BY <1>3, <1>4, <1>5, <1>6 DEF SubmitSpot, SubmitPerp, SubmitSpotClose, SubmitPerpClose

(***************************************************************************)
(* A step inside the loops that only moves a cursor, or ends a loop or a   *)
(* run, keeps the shape.                                                   *)
(***************************************************************************)
LEMMA CursorShape ==
    ASSUME Shape, UNCHANGED <<position, fill, system_state, venue>>,
           cands' \in [Pair -> Outlook], to_manage' \subseteq to_manage,
           to_enter' \subseteq Pair, held' \subseteq Pair,
           cur' = NULL, legs' \subseteq OrderTag,
           pc' \in {"idle", "manage", "enter"}
    PROVE  Shape'
<1>1. TypeOK'
  <2>1. to_manage' \subseteq PositionId /\ pc' \in PcState
    BY DEF Shape, TypeOK, PcState
  <2> QED BY <2>1, StatementTypes DEF Shape, TypeOK, storeVars
<1>2. InHand' /\ RowInHand'
  BY Phases DEF InHand, RowInHand
<1> QED
  BY <1>1, <1>2, SameRows DEF Shape, ManagedAreLive

(***************************************************************************)
(* A step that writes the row of one Layer 1 position not to be visited    *)
(* any more keeps what the rows say of the others.                         *)
(***************************************************************************)
LEMMA RowWriteShape ==
    ASSUME Shape, NEW p \in PositionId, position[p].state # "absent",
           \/ MarkPositionClosing(p) \/ MarkPositionOpen(p)
           \/ ClosePosition(p, 0),
           to_manage' \subseteq to_manage,
           p \notin to_manage' \/ MarkPositionOpen(p)
    PROVE  /\ StoreTypeOK' /\ RowsNamePairs' /\ ManagedAreLive'
           /\ position'[p].layer = position[p].layer
           /\ MarkPositionClosing(p) => position'[p].state = "closing"
<1>1. position \in Table
  BY StoreTypes DEF Shape
<1>2. StoreTypeOK'
  BY StatementTypes DEF Shape, TypeOK, MarkPositionClosing, MarkPositionOpen, PositionState
<1>3. /\ \A q \in PositionId : /\ position'[q].layer = position[q].layer
                               /\ position'[q].metadata = position[q].metadata
      /\ \A q \in PositionId \ {p} : position'[q] = position[q]
      /\ MarkPositionOpen(p) => position'[p].state = "open"
      /\ MarkPositionClosing(p) => position'[p].state = "closing"
  BY <1>1, SetStateWrites, CloseWrites
     DEF MarkPositionClosing, MarkPositionOpen, PositionState
<1>4. RowsNamePairs'
  BY <1>3 DEF Shape, RowsNamePairs
<1>5. ManagedAreLive'
  BY <1>3 DEF Shape, ManagedAreLive, OpenPositions, Live, LiveState
<1> QED
  BY <1>2, <1>3, <1>4, <1>5

LEMMA ShapeStep == Shape /\ [Next]_vars => Shape'
<1> SUFFICES ASSUME Shape, [Next]_vars PROVE Shape'
  OBVIOUS
<1>t. /\ position \in Table
      /\ NULL \notin PositionId
  BY StoreTypes, StoreAssumption DEF Shape
<1>1. CASE StartRun
  <2>1. StoreTypeOK' /\ UNCHANGED <<position, cur, legs, venue, to_enter>>
    BY <1>1, StatementTypes DEF StartRun, storeVars, Shape, TypeOK
  <2>2. HeldKeys \subseteq Pair
    BY DEF HeldKeys, Shape, RowsNamePairs, OpenPositions, Live, LiveState
  <2>3. TypeOK'
    BY <1>1, <2>1, <2>2 DEF StartRun, Shape, TypeOK, PcState, OpenPositions, Live
  <2>4. InHand' /\ RowInHand'
    BY <1>1, <2>1, Phases DEF StartRun, Shape, InHand, RowInHand
  <2> QED BY <1>1, <2>1, <2>3, <2>4, SameRows DEF StartRun, Shape, ManagedAreLive
<1>2. ASSUME NEW p \in PositionId, KeepPosition(p) PROVE Shape'
  BY <1>2, CursorShape DEF KeepPosition, NextToManage, storeVars, Shape, TypeOK, InHand
<1>3. ASSUME NEW p \in PositionId, BeginClose(p) PROVE Shape'
  <2>1. position[p].state # "absent" /\ position[p].layer = L1Funding
    BY <1>3 DEF BeginClose, NextToManage, Shape, ManagedAreLive, OpenPositions, Live, LiveState
  <2>2. /\ StoreTypeOK' /\ RowsNamePairs' /\ ManagedAreLive'
        /\ position'[p].state = "closing" /\ position'[p].layer = L1Funding
    BY <1>3, <2>1, RowWriteShape DEF BeginClose, NextToManage
  <2>3. TypeOK'
    BY <1>3, <2>2 DEF BeginClose, NextToManage, Shape, TypeOK, PcState
  <2>4. InHand' /\ RowInHand'
    BY <1>3, <1>t, <2>2, Phases DEF BeginClose, InHand, RowInHand, Closing
  <2> QED BY <2>2, <2>3, <2>4 DEF Shape
<1>4. CASE ManageDone
  BY <1>4, CursorShape DEF ManageDone, storeVars, Shape, TypeOK, InHand
<1>5. CASE CloseCleared
  <2>1. StoreTypeOK' /\ UNCHANGED <<position, runVars, cur, legs, venue>>
    BY <1>5, StatementTypes DEF CloseCleared, storeVars, Shape, TypeOK
  <2>2. pc \in Closing /\ pc' \in Closing
    BY <1>5 DEF CloseCleared, Closing, CloseLegs
  <2>3. TypeOK'
    BY <2>1, <2>2, Phases DEF Shape, TypeOK, runVars
  <2>4. InHand' /\ RowInHand'
    BY <2>1, <2>2, Phases DEF Shape, InHand, RowInHand
  <2> QED BY <2>1, <2>3, <2>4, SameRows DEF Shape, ManagedAreLive, runVars
<1>6. CASE CloseRefused
  <2>1. cur \in PositionId /\ position[cur].state # "absent"
    BY <1>6, InHandFacts DEF CloseRefused, Closing
  <2>2. StoreTypeOK' /\ RowsNamePairs' /\ ManagedAreLive'
    BY <1>6, <2>1, RowWriteShape DEF CloseRefused, runVars
  <2>3. TypeOK'
    BY <1>6, <2>2 DEF CloseRefused, Shape, TypeOK, PcState, runVars
  <2>4. InHand' /\ RowInHand'
    BY <1>6, Phases DEF CloseRefused, InHand, RowInHand
  <2> QED BY <2>2, <2>3, <2>4 DEF Shape
<1>7. CASE SubmitSpot \/ SubmitPerp \/ SubmitSpotClose \/ SubmitPerpClose
  BY <1>7, SubmitsShape
<1>8. CASE SettleClose
  <2>1. cur \in PositionId /\ position[cur].state # "absent" /\ cur \notin to_manage
    BY <1>8, InHandFacts, Phases DEF SettleClose, ExitOutcome, Closing
  <2>2. UNCHANGED <<cands, to_manage, to_enter, held, venue>>
        /\ cur' = NULL /\ legs' = {} /\ pc' = "manage"
    BY <1>8 DEF SettleClose, ExitOutcome, runVars
  <2>3. \/ ClosePosition(cur, 0)
        \/ SetHaltReason(cur)
        \/ UNCHANGED storeVars
    BY <1>8 DEF SettleClose, ExitOutcome, FundingCollected
  <2>4. StoreTypeOK' /\ RowsNamePairs' /\ ManagedAreLive'
    <3>1. CASE ClosePosition(cur, 0)
      BY <2>1, <2>2, <3>1, RowWriteShape
    <3>2. CASE SetHaltReason(cur)
      <4>1. UNCHANGED position
        BY <3>2 DEF SetHaltReason
      <4> QED BY <2>1, <2>2, <3>2, <4>1, SameRows, StatementTypes
              DEF Shape, TypeOK, ManagedAreLive
    <3>3. CASE UNCHANGED storeVars
      BY <2>2, <3>3, SameRows, StatementTypes DEF storeVars, Shape, TypeOK, ManagedAreLive
    <3> QED BY <2>3, <3>1, <3>2, <3>3
  <2>5. TypeOK'
    BY <2>2, <2>4 DEF Shape, TypeOK, PcState
  <2>6. InHand' /\ RowInHand'
    BY <2>2, Phases DEF InHand, RowInHand
  <2> QED BY <2>4, <2>5, <2>6 DEF Shape
<1>9. ASSUME NEW a \in Pair, SkipCandidate(a) \/ RefuseEntry(a) PROVE Shape'
  BY <1>9, CursorShape DEF SkipCandidate, RefuseEntry, NextToEnter, storeVars,
     Shape, TypeOK, InHand
<1>10. ASSUME NEW a \in Pair, NEW p \in PositionId, CreateEntry(a, p) PROVE Shape'
  <2>1. Budget \in 0..MaxNotional /\ CreatePosition(p, L1Funding, Budget, a)
    BY <1>10, BudgetType DEF CreateEntry, CanEnter, Shape
  <2>2. L1Funding \in Layer /\ a \in Metadata \cup {NULL}
    BY L1Assumption DEF Layer
  <2>3. StoreTypeOK'
    BY <2>1, <2>2, StatementTypes DEF Shape, TypeOK
  <2>4. /\ position[p].state = "absent"
        /\ position'[p].state = "opening"
        /\ position'[p].layer = L1Funding /\ position'[p].metadata = a
        /\ \A q \in PositionId \ {p} : position'[q] = position[q]
    <3>1. /\ position[p].state = "absent"
          /\ position'[p] = [state |-> "opening", layer |-> L1Funding,
                             notional |-> Budget, realized |-> 0, metadata |-> a]
          /\ \A q \in PositionId \ {p} : position'[q] = position[q]
      <4> HIDE DEF Budget
      <4> QED BY <1>t, <2>1, <2>2, CreateWrites
    <3> QED BY <3>1
  <2>5. TypeOK'
    BY <1>10, <2>3 DEF CreateEntry, NextToEnter, Shape, TypeOK, PcState
  <2>6. InHand' /\ RowInHand'
    BY <1>10, <1>t, <2>4, Phases DEF CreateEntry, InHand, RowInHand, Opening, OpenLegs
  <2>7. RowsNamePairs'
    BY <2>4 DEF Shape, RowsNamePairs
  <2>8. ManagedAreLive'
    BY <1>10, <2>4 DEF CreateEntry, Shape, ManagedAreLive, OpenPositions, Live, LiveState
  <2> QED BY <2>5, <2>6, <2>7, <2>8 DEF Shape
<1>11. CASE SettleEntry
  <2>1. /\ cur \in PositionId /\ position[cur].state # "absent"
        /\ position[cur].metadata \in Pair
    BY <1>11, InHandFacts DEF SettleEntry, Opening
  <2>2. UNCHANGED <<cands, to_manage, to_enter, venue>> /\ held' \subseteq Pair
        /\ cur' = NULL /\ legs' = {} /\ pc' = "enter"
    BY <1>11, <2>1 DEF SettleEntry, Shape, TypeOK
  <2>3. \/ MarkPositionOpen(cur)
        \/ SetHaltReason(cur)
        \/ UNCHANGED storeVars
    BY <1>11 DEF SettleEntry
  <2>4. StoreTypeOK' /\ RowsNamePairs' /\ ManagedAreLive'
    <3>1. CASE MarkPositionOpen(cur)
      BY <2>1, <2>2, <3>1, RowWriteShape
    <3>2. CASE SetHaltReason(cur)
      <4>1. UNCHANGED position
        BY <3>2 DEF SetHaltReason
      <4> QED BY <2>1, <2>2, <3>2, <4>1, SameRows, StatementTypes
              DEF Shape, TypeOK, ManagedAreLive
    <3>3. CASE UNCHANGED storeVars
      BY <2>2, <3>3, SameRows, StatementTypes DEF storeVars, Shape, TypeOK, ManagedAreLive
    <3> QED BY <2>3, <3>1, <3>2, <3>3
  <2>5. TypeOK'
    BY <2>2, <2>4 DEF Shape, TypeOK, PcState
  <2>6. InHand' /\ RowInHand'
    BY <2>2, Phases DEF InHand, RowInHand
  <2> QED BY <2>4, <2>5, <2>6 DEF Shape
<1>12. CASE RunDone
  <2>1. cur' = NULL /\ cands' \in [Pair -> Outlook]
    BY <1>12 DEF RunDone, Shape, InHand, NoCands, Outlook
  <2> QED BY <1>12, <2>1, CursorShape DEF RunDone, storeVars, Shape, TypeOK
<1>13. CASE Interrupt
  <2>1. cands' \in [Pair -> Outlook]
    BY <1>13 DEF Interrupt, NoCands, Outlook
  <2> QED BY <1>13, <2>1, CursorShape DEF Interrupt, storeVars
<1>14. ASSUME NEW p \in PositionId, pc = "idle", Elsewhere(p),
              UNCHANGED <<pc, runVars, cur, legs, venue>>
       PROVE  Shape'
  <2>1. /\ StoreTypeOK'
        /\ \A q \in PositionId : position[q].layer = L1Funding /\ position[q].state # "absent"
                                   => position'[q] = position[q]
        /\ \A q \in PositionId : position'[q] # position[q] => position'[q].layer = L2Cascade
    <3>1. CASE \/ ReconcileAtRisk
               \/ \E usd \in DynamicAllocs : SetDynamicAllocation(L1Funding, usd)
               \/ SetHaltReason(NULL)
      <4>1. UNCHANGED position
        BY <3>1 DEF ReconcileAtRisk, SetDynamicAllocation, SetHaltReason
      <4>2. StoreTypeOK'
        BY <3>1, StatementTypes, L1Assumption DEF Shape, TypeOK, Layer
      <4> QED BY <4>1, <4>2
    <3>2. CASE \E n \in OtherSizes : CreatePosition(p, L2Cascade, n, NULL)
      <4>1. PICK n \in OtherSizes : CreatePosition(p, L2Cascade, n, NULL)
        BY <3>2
      <4>2. n \in 0..MaxNotional /\ L2Cascade \in Layer
        BY L1Assumption, SafeguardsAssumption, StoreAssumption DEF Layer
      <4>3. StoreTypeOK'
        BY <4>1, <4>2, StatementTypes DEF Shape, TypeOK
      <4>4. /\ position[p].state = "absent"
            /\ position'[p].layer = L2Cascade
            /\ \A q \in PositionId \ {p} : position'[q] = position[q]
        <5>1. position'[p] = [state |-> "opening", layer |-> L2Cascade,
                              notional |-> n, realized |-> 0, metadata |-> NULL]
              /\ position[p].state = "absent"
              /\ \A q \in PositionId \ {p} : position'[q] = position[q]
          BY <1>t, <4>1, <4>2, CreateWrites
        <5> QED BY <5>1
      <4> QED BY <4>3, <4>4
    <3>3. CASE p \in OpenPositions(L2Cascade) /\ ClosePosition(p, 0)
      <4>1. position[p].layer = L2Cascade /\ L2Cascade # L1Funding
        BY <3>3 DEF OpenPositions, L1Funding, L2Cascade
      <4>2. StoreTypeOK'
        BY <3>3, StatementTypes DEF Shape, TypeOK
      <4>3. /\ position'[p].layer = L2Cascade
            /\ \A q \in PositionId \ {p} : position'[q] = position[q]
        BY <1>t, <3>3, <4>1, CloseWrites
      <4> QED BY <4>1, <4>2, <4>3
    <3> QED BY <1>14, <3>1, <3>2, <3>3 DEF Elsewhere
  <2>2. L2Cascade # L1Funding
    BY DEF L1Funding, L2Cascade
  <2>3. TypeOK' /\ InHand'
    BY <1>14, <2>1 DEF Shape, TypeOK, InHand, runVars
  <2>4. RowInHand'
    BY <1>14, Phases DEF Shape, InHand, RowInHand
  <2>5. RowsNamePairs'
    BY <2>1, <2>2 DEF Shape, RowsNamePairs
  <2>6. ManagedAreLive'
    BY <1>14, <2>1 DEF Shape, ManagedAreLive, OpenPositions, Live, LiveState, runVars
  <2> QED BY <2>3, <2>4, <2>5, <2>6 DEF Shape
<1>15. CASE UNCHANGED vars
  BY <1>15, StatementTypes, SameRows
     DEF vars, storeVars, Shape, TypeOK, InHand, RowInHand, ManagedAreLive
<1> QED
  BY <1>1, <1>2, <1>3, <1>4, <1>5, <1>6, <1>7, <1>8, <1>9, <1>10, <1>11, <1>12,
     <1>13, <1>14, <1>15 DEF Next, RunStep, BetweenRuns

(* Nothing is in hand before the first run. *)
LEMMA ShapeInit == Init => Shape
<1> SUFFICES ASSUME Init PROVE Shape
  OBVIOUS
<1>1. StoreTypeOK
  <2>1. NoRow \in PositionRow
    BY StoreAssumption DEF NoRow, PositionRow, PositionState, Layer
  <2>2. system_state \in SystemState
    BY DEF Init, StoreInit, SystemState
  <2> QED BY <2>1, <2>2 DEF Init, StoreInit, StoreTypeOK
<1>2. TypeOK
  BY <1>1 DEF Init, TypeOK, NoCands, Outlook, PcState
<1>3. InHand /\ RowInHand
  BY Phases DEF Init, InHand, RowInHand
<1>4. RowsNamePairs /\ ManagedAreLive
  BY DEF Init, StoreInit, NoRow, RowsNamePairs, ManagedAreLive
<1> QED BY <1>2, <1>3, <1>4 DEF Shape

(***************************************************************************)
(* The shape of a run, the strengthening the other theorems need: what a   *)
(* suspended run_once has in hand is a Layer 1 row in the state it left it *)
(* in, and the rows it has still to visit are live.                        *)
(***************************************************************************)
THEOREM ShapeHolds == Spec => []Shape
<1>1. Init => Shape
  BY ShapeInit
<1> QED
  BY <1>1, ShapeStep, PTL DEF Spec

(* Every variable and every row keeps its type, whatever is interrupted. *)
THEOREM TypeCorrect == Spec => []TypeOK
<1>1. Shape => TypeOK
  BY DEF Shape
<1> QED
  BY <1>1, ShapeHolds, PTL

-----------------------------------------------------------------------------
(* The cap on deployed capital *)

CapInv == TotalWithinCap /\ RoomToReopen

(* Both legs passed: there is room for the whole position. *)
LEMMA EntryFits ==
    ASSUME Shape, NEW p \in PositionId, CanEnter(p)
    PROVE  TotalAtRisk + Budget <= MaxTotalDeployed
<1> DEFINE n == Budget
<1>1. TotalAtRisk \in Nat /\ n \in Nat /\ MaxTotalDeployed \in Nat
  BY StoreTypes, BudgetType, StoreAssumption, SafeguardsAssumption DEF Shape, CanEnter
<1>2. TotalAtRisk + SpotSize(n) + PerpSize(n) <= MaxTotalDeployed
  <2> HIDE DEF n
  <2>1. EntryPasses(p, n)
    BY DEF CanEnter, n
  <2> QED BY <2>1 DEF EntryPasses, CheckOrder, Order
<1>3. n \div 2 \in Nat
  <2> HIDE DEF n
  <2> QED BY <1>1
<1>4. TotalAtRisk + n \div 2 + (n - n \div 2) <= MaxTotalDeployed
  BY <1>2 DEF SpotSize, PerpSize
<1>5. \A t, m, h \in Int : t + h + (m - h) = t + m
  OBVIOUS
<1> HIDE DEF n
<1>6. TotalAtRisk + n <= MaxTotalDeployed
  BY <1>1, <1>3, <1>4, <1>5
<1> QED
  BY <1>6 DEF n

(* Steps that write no row keep the capital where it is. *)
LEMMA CapSameRows ==
    ASSUME CapInv, UNCHANGED position, pc' # "close_check"
    PROVE  CapInv'
BY SameRows DEF CapInv, TotalWithinCap, RoomToReopen

LEMMA CapStep == Shape /\ CapInv /\ [Next]_vars => CapInv'
<1> SUFFICES ASSUME Shape, CapInv, [Next]_vars PROVE CapInv'
  OBVIOUS
<1>t. /\ position \in Table /\ position' \in Table
      /\ TotalAtRisk \in Nat /\ TotalAtRisk' \in Nat
      /\ MaxTotalDeployed \in Nat
      /\ \A p \in PositionId : position[p].notional \in Nat /\ position'[p].notional \in Nat
  <2>1. position \in Table /\ position' \in Table
    BY ShapeStep DEF Shape, TypeOK, StoreTypeOK, Table
  <2>2. \A t \in Table, p \in PositionId : t[p].notional \in Nat
    BY StoreAssumption DEF Table, PositionRow
  <2>3. Live \in SUBSET PositionId /\ Live' \in SUBSET PositionId
    BY DEF Live
  <2> QED BY <2>1, <2>2, <2>3, SumType, SafeguardsAssumption DEF TotalAtRisk, Notional
<1>1. ASSUME NEW p \in PositionId, BeginClose(p) PROVE CapInv'
  <2>1. p \in Live /\ MarkPositionClosing(p) /\ cur' = p
    BY <1>1 DEF BeginClose, NextToManage, Shape, ManagedAreLive, OpenPositions
  <2>2. /\ position'[p].state = "closing"
        /\ position'[p].notional = position[p].notional
        /\ \A q \in PositionId \ {p} : position'[q] = position[q]
    BY <1>t, <2>1, SetStateWrites DEF MarkPositionClosing, PositionState
  <2>3. p \notin Live'
    BY <2>2 DEF Live, LiveState
  <2>4. TotalAtRisk = TotalAtRisk' + position[p].notional
    BY <1>t, <2>1, <2>2, <2>3, RiskLoses
  <2> QED BY <1>t, <2>1, <2>2, <2>4 DEF CapInv, TotalWithinCap, RoomToReopen
<1>2. CASE CloseRefused
  <2>1. /\ cur \in PositionId /\ position[cur].state = "closing"
        /\ MarkPositionOpen(cur) /\ pc = "close_check" /\ pc' = "manage"
    BY <1>2, InHandFacts DEF CloseRefused, Shape, RowInHand, Closing
  <2>2. /\ position'[cur].state = "open"
        /\ position'[cur].notional = position[cur].notional
        /\ \A q \in PositionId \ {cur} : position'[q] = position[q]
    BY <1>t, <2>1, SetStateWrites DEF MarkPositionOpen, PositionState
  <2>3. cur \notin Live /\ cur \in Live'
    BY <2>1, <2>2 DEF Live, LiveState
  <2>4. TotalAtRisk' = TotalAtRisk + position[cur].notional
    BY <1>t, <2>1, <2>2, <2>3, RiskGains
  <2> QED BY <2>1, <2>4 DEF CapInv, TotalWithinCap, RoomToReopen
<1>3. CASE SettleClose
  <2>1. cur \in PositionId /\ position[cur].state = "closing" /\ pc' = "manage"
    BY <1>3, InHandFacts DEF SettleClose, ExitOutcome, Shape, RowInHand, Closing
  <2>2. CASE ClosePosition(cur, 0)
    <3>1. /\ position'[cur].state = "closed"
          /\ \A q \in PositionId : position'[q].notional = position[q].notional
          /\ \A q \in PositionId \ {cur} : position'[q] = position[q]
      BY <1>t, <2>1, <2>2, CloseWrites
    <3>2. Live' = Live
      BY <2>1, <3>1 DEF Live, LiveState
    <3>3. TotalAtRisk' = TotalAtRisk
      BY <3>1, <3>2, RiskStays
    <3> QED BY <2>1, <3>3 DEF CapInv, TotalWithinCap, RoomToReopen
  <2>3. CASE UNCHANGED position
    BY <2>1, <2>3, CapSameRows
  <2> QED BY <1>3, <2>2, <2>3
          DEF SettleClose, ExitOutcome, FundingCollected, SetHaltReason, storeVars
<1>4. ASSUME NEW a \in Pair, NEW p \in PositionId, CreateEntry(a, p) PROVE CapInv'
  <2>1. /\ CreatePosition(p, L1Funding, Budget, a) /\ CanEnter(p) /\ pc' = "spot"
        /\ L1Funding \in Layer /\ a \in Metadata \cup {NULL}
        /\ Budget \in 0..MaxNotional
    BY <1>4, BudgetType, L1Assumption DEF CreateEntry, CanEnter, Layer, Shape
  <2>2. /\ position[p].state = "absent"
        /\ position'[p] = [state |-> "opening", layer |-> L1Funding,
                           notional |-> Budget, realized |-> 0, metadata |-> a]
        /\ \A q \in PositionId \ {p} : position'[q] = position[q]
    <3> HIDE DEF Budget
    <3> QED BY <1>t, <2>1, CreateWrites
  <2>3. p \notin Live /\ p \in Live' /\ position'[p].notional = Budget
    BY <2>2 DEF Live, LiveState
  <2>4. TotalAtRisk' = TotalAtRisk + Budget
    BY <1>t, <2>2, <2>3, RiskGains
  <2> QED BY <2>1, <2>4, EntryFits DEF CapInv, TotalWithinCap, RoomToReopen
<1>5. CASE SettleEntry
  <2>1. cur \in PositionId /\ position[cur].state = "opening" /\ pc' = "enter"
    BY <1>5, InHandFacts DEF SettleEntry, Shape, RowInHand, Opening
  <2>2. CASE MarkPositionOpen(cur)
    <3>1. /\ position'[cur].state = "open"
          /\ \A q \in PositionId : position'[q].notional = position[q].notional
          /\ \A q \in PositionId \ {cur} : position'[q] = position[q]
      BY <1>t, <2>1, <2>2, SetStateWrites DEF MarkPositionOpen, PositionState
    <3>2. Live' = Live
      BY <2>1, <3>1 DEF Live, LiveState
    <3>3. TotalAtRisk' = TotalAtRisk
      BY <3>1, <3>2, RiskStays
    <3> QED BY <2>1, <3>3 DEF CapInv, TotalWithinCap, RoomToReopen
  <2>3. CASE UNCHANGED position
    BY <2>1, <2>3, CapSameRows
  <2> QED BY <1>5, <2>2, <2>3 DEF SettleEntry, SetHaltReason, storeVars
<1>6. CASE SubmitSpot \/ SubmitPerp \/ SubmitSpotClose \/ SubmitPerpClose
  <2>1. UNCHANGED position /\ pc' # "close_check"
    BY <1>6 DEF SubmitSpot, SubmitPerp, SubmitSpotClose, SubmitPerpClose, SubmitLeg,
       SimulateLeg, PlaceLeg, PlaceLegFails, RecordFill, storeVars
  <2> QED BY <2>1, CapSameRows
<1>7. ASSUME NEW p \in PositionId, pc = "idle", pc' = pc, Elsewhere(p) PROVE CapInv'
  <2>1. CASE \/ ReconcileAtRisk
             \/ \E usd \in DynamicAllocs : SetDynamicAllocation(L1Funding, usd)
             \/ SetHaltReason(NULL)
    <3>1. UNCHANGED position
      BY <2>1 DEF ReconcileAtRisk, SetDynamicAllocation, SetHaltReason
    <3> QED BY <1>7, <3>1, CapSameRows
  <2>2. ASSUME NEW n \in OtherSizes, TotalAtRisk + n <= MaxTotalDeployed,
               CreatePosition(p, L2Cascade, n, NULL)
        PROVE  CapInv'
    <3>1. n \in 0..MaxNotional /\ L2Cascade \in Layer
      BY L1Assumption, SafeguardsAssumption, StoreAssumption DEF Layer
    <3>2. /\ position[p].state = "absent"
          /\ position'[p] = [state |-> "opening", layer |-> L2Cascade,
                             notional |-> n, realized |-> 0, metadata |-> NULL]
          /\ \A q \in PositionId \ {p} : position'[q] = position[q]
      BY <1>t, <2>2, <3>1, CreateWrites
    <3>3. p \notin Live /\ p \in Live' /\ position'[p].notional = n
      BY <3>2 DEF Live, LiveState
    <3>4. TotalAtRisk' = TotalAtRisk + n
      BY <1>t, <3>2, <3>3, RiskGains
    <3> QED BY <1>7, <2>2, <3>4 DEF CapInv, TotalWithinCap, RoomToReopen
  <2>3. CASE p \in OpenPositions(L2Cascade) /\ ClosePosition(p, 0)
    <3>1. /\ position'[p].state = "closed"
          /\ \A q \in PositionId \ {p} : position'[q] = position[q]
      BY <1>t, <2>3, CloseWrites
    <3>2. p \in Live /\ p \notin Live'
      BY <2>3, <3>1 DEF OpenPositions, Live, LiveState
    <3>3. TotalAtRisk = TotalAtRisk' + position[p].notional
      BY <1>t, <3>1, <3>2, RiskLoses
    <3> QED BY <1>7, <1>t, <3>3 DEF CapInv, TotalWithinCap, RoomToReopen
  <2> QED BY <1>7, <2>1, <2>2, <2>3 DEF Elsewhere
<1>8. CASE \/ StartRun \/ ManageDone \/ CloseCleared \/ RunDone \/ Interrupt
           \/ \E p \in PositionId : KeepPosition(p)
           \/ \E a \in Pair : SkipCandidate(a) \/ RefuseEntry(a)
  <2>1. UNCHANGED position /\ pc' # "close_check"
    BY <1>8 DEF StartRun, ManageDone, CloseCleared, RunDone, Interrupt, KeepPosition,
       SkipCandidate, RefuseEntry, NextToManage, NextToEnter, storeVars
  <2> QED BY <2>1, CapSameRows
<1>9. CASE UNCHANGED vars
  <2>1. UNCHANGED <<position, pc, cur>>
    BY <1>9 DEF vars
  <2> QED BY <2>1, SameRows DEF CapInv, TotalWithinCap, RoomToReopen
<1> QED
  BY <1>1, <1>2, <1>3, <1>4, <1>5, <1>6, <1>7, <1>8, <1>9 DEF Next, RunStep, BetweenRuns

(* An empty store has nothing at risk. *)
LEMMA CapInit == Init => CapInv
<1> SUFFICES ASSUME Init PROVE CapInv
  OBVIOUS
<1>1. Live = {}
  BY DEF Init, StoreInit, NoRow, Live, LiveState
<1>2. TotalAtRisk = 0
  BY <1>1, FS_EmptySet DEF TotalAtRisk, Notional, SumNotional, Units
<1> QED BY <1>2, SafeguardsAssumption DEF Init, CapInv, TotalWithinCap, RoomToReopen

(***************************************************************************)
(* The hard cap holds for every cap, number of pairs and number of rows:   *)
(* checking the second leg on top of the first is enough for an entry, and *)
(* a refused close always finds the room it gave up.                       *)
(***************************************************************************)
THEOREM CapHolds == Spec => []TotalWithinCap
<1>1. Init => CapInv
  BY CapInit
<1>2. CapInv => TotalWithinCap
  BY DEF CapInv
<1> QED
  BY <1>1, <1>2, CapStep, ShapeHolds, PTL DEF Spec

-----------------------------------------------------------------------------
(* One live position per pair *)

PairsInv == HeldCovers /\ OneLivePerPair

L1Live == OpenPositions(L1Funding)

(* A step that writes no live Layer 1 row keeps what is said of the pairs. *)
LEMMA PairsSameRows ==
    ASSUME PairsInv, UNCHANGED <<L1Live, held>>, pc' \in {"idle", "manage", "enter"},
           \A p \in L1Live : position'[p] = position[p],
           pc' = "manage" => pc \in Managing,
           pc' = "enter" => pc \in Entering /\ to_enter' \subseteq to_enter
    PROVE  PairsInv'
<1>1. OneLivePerPair'
  BY DEF PairsInv, OneLivePerPair, L1Live
<1>2. HeldCovers'
  BY Phases DEF PairsInv, HeldCovers, L1Live, Managing, Entering
<1> QED
  BY <1>1, <1>2 DEF PairsInv

LEMMA PairsStep == Shape /\ PairsInv /\ [Next]_vars => PairsInv'
<1> SUFFICES ASSUME Shape, PairsInv, [Next]_vars PROVE PairsInv'
  OBVIOUS
<1>t. position \in Table
  BY StoreTypes DEF Shape
<1>p. UNCHANGED position => UNCHANGED L1Live /\ \A a : UNCHANGED LiveOn(a)
  BY SameRows DEF L1Live
<1>1. CASE StartRun
  <2>1. UNCHANGED position /\ pc' = "manage" /\ held' = HeldKeys
    BY <1>1 DEF StartRun, storeVars
  <2>2. OneLivePerPair'
    BY <1>p, <2>1 DEF PairsInv, OneLivePerPair, L1Live
  <2>3. HeldCovers'
    BY <1>p, <2>1, Phases DEF HeldCovers, HeldKeys, L1Live, Managing, Entering
  <2> QED BY <2>2, <2>3 DEF PairsInv
<1>2. ASSUME NEW p \in PositionId, KeepPosition(p) PROVE PairsInv'
  BY <1>2, <1>p, PairsSameRows DEF KeepPosition, NextToManage, storeVars, Managing
<1>3. ASSUME NEW p \in PositionId, BeginClose(p) PROVE PairsInv'
  <2>1. /\ p \in L1Live /\ MarkPositionClosing(p) /\ cur' = p /\ UNCHANGED held
        /\ pc = "manage" /\ pc' = "close_check"
    BY <1>3 DEF BeginClose, NextToManage, Shape, ManagedAreLive, L1Live
  <2>2. /\ position'[p].state = "closing"
        /\ position'[p].metadata = position[p].metadata
        /\ \A q \in PositionId \ {p} : position'[q] = position[q]
    BY <1>t, <1>3, <2>1, SetStateWrites DEF MarkPositionClosing, PositionState
  <2>3. L1Live' = L1Live \ {p}
    BY <2>2 DEF L1Live, OpenPositions, Live, LiveState
  <2>4. \A q \in L1Live : position[q].metadata \in held
    BY <2>1 DEF PairsInv, HeldCovers, Managing, L1Live
  <2>5. \A q \in L1Live' : q \in PositionId \ {p} /\ position'[q] = position[q]
    BY <2>2, <2>3 DEF L1Live, OpenPositions, Live
  <2>6. OneLivePerPair'
    BY <2>3, <2>5 DEF PairsInv, OneLivePerPair, L1Live
  <2>7. \A q \in L1Live' : position'[q].metadata # position'[p].metadata
    BY <2>1, <2>2, <2>3, <2>5 DEF PairsInv, OneLivePerPair, L1Live
  <2>8. HeldCovers'
    BY <2>1, <2>2, <2>3, <2>4, <2>5, <2>7, Phases
       DEF HeldCovers, L1Live, LiveOn, Managing, Entering, Closing
  <2> QED BY <2>6, <2>8 DEF PairsInv
<1>4. CASE ManageDone
  <2>1. /\ UNCHANGED position /\ pc = "manage" /\ pc' = "enter"
        /\ UNCHANGED held
    BY <1>4 DEF ManageDone, storeVars
  <2>2. OneLivePerPair'
    BY <1>p, <2>1 DEF PairsInv, OneLivePerPair, L1Live
  <2>3. HeldCovers'
    BY <1>p, <2>1, Phases DEF PairsInv, HeldCovers, L1Live, Managing, Entering
  <2> QED BY <2>2, <2>3 DEF PairsInv
<1>5. CASE CloseCleared \/ SubmitSpot \/ SubmitPerp \/ SubmitSpotClose \/ SubmitPerpClose
  <2>1. /\ UNCHANGED <<position, cur, held, to_enter>>
        /\ \/ pc \in Closing /\ pc' \in Closing
           \/ pc \in Opening /\ pc' \in Opening
    BY <1>5 DEF CloseCleared, SubmitSpot, SubmitPerp, SubmitSpotClose, SubmitPerpClose,
       SubmitLeg, SimulateLeg, PlaceLeg, PlaceLegFails, RecordFill, storeVars, runVars,
       Closing, Opening, OpenLegs, CloseLegs
  <2>2. OneLivePerPair'
    BY <1>p, <2>1 DEF PairsInv, OneLivePerPair, L1Live
  <2>3. HeldCovers'
    BY <1>p, <2>1, Phases DEF PairsInv, HeldCovers, L1Live, Managing, Entering
  <2> QED BY <2>2, <2>3 DEF PairsInv
<1>6. CASE CloseRefused
  <2>1. /\ cur \in PositionId /\ position[cur].state = "closing"
        /\ position[cur].layer = L1Funding
        /\ MarkPositionOpen(cur) /\ pc \in Closing /\ pc' = "manage" /\ UNCHANGED held
    BY <1>6, InHandFacts DEF CloseRefused, Shape, RowInHand, Closing, runVars
  <2>2. /\ position'[cur].state = "open" /\ position'[cur].layer = L1Funding
        /\ position'[cur].metadata = position[cur].metadata
        /\ \A q \in PositionId \ {cur} : position'[q] = position[q]
    BY <1>t, <2>1, SetStateWrites DEF MarkPositionOpen, PositionState
  <2>3. L1Live' = L1Live \cup {cur} /\ cur \notin L1Live
    BY <2>1, <2>2 DEF L1Live, OpenPositions, Live, LiveState
  <2>4. /\ \A q \in L1Live : position[q].metadata \in held
        /\ position[cur].metadata \in held
        /\ \A q \in L1Live : position[q].metadata # position[cur].metadata
    BY <2>1 DEF PairsInv, HeldCovers, Managing, L1Live, LiveOn
  <2>5. \A q \in L1Live : q \in PositionId \ {cur} /\ position'[q] = position[q]
    BY <2>2, <2>3 DEF L1Live, OpenPositions, Live
  <2>6. OneLivePerPair'
    BY <2>2, <2>3, <2>4, <2>5 DEF PairsInv, OneLivePerPair, L1Live
  <2>7. HeldCovers'
    BY <2>1, <2>2, <2>3, <2>4, <2>5, Phases DEF HeldCovers, L1Live, Managing, Entering
  <2> QED BY <2>6, <2>7 DEF PairsInv
<1>7. CASE SettleClose
  <2>1. /\ cur \in PositionId /\ position[cur].state = "closing"
        /\ pc \in Closing /\ pc' = "manage" /\ UNCHANGED held
    BY <1>7, InHandFacts DEF SettleClose, ExitOutcome, Shape, RowInHand, Closing, runVars
  <2>2. UNCHANGED L1Live /\ \A p \in L1Live : position'[p] = position[p]
    <3>1. CASE ClosePosition(cur, 0)
      <4>1. /\ position'[cur].state = "closed"
            /\ \A q \in PositionId \ {cur} : position'[q] = position[q]
        BY <1>t, <2>1, <3>1, CloseWrites
      <4> QED BY <2>1, <4>1 DEF L1Live, OpenPositions, Live, LiveState
    <3>2. CASE UNCHANGED position
      BY <1>p, <3>2
    <3> QED BY <1>7, <3>1, <3>2
            DEF SettleClose, ExitOutcome, FundingCollected, SetHaltReason, storeVars
  <2> QED BY <2>1, <2>2, PairsSameRows DEF Managing
<1>8. ASSUME NEW a \in Pair, SkipCandidate(a) \/ RefuseEntry(a) PROVE PairsInv'
  BY <1>8, <1>p, PairsSameRows DEF SkipCandidate, RefuseEntry, NextToEnter, storeVars, Entering
<1>9. ASSUME NEW a \in Pair, NEW p \in PositionId, CreateEntry(a, p) PROVE PairsInv'
  <2>1. /\ CreatePosition(p, L1Funding, Budget, a) /\ pc = "enter" /\ pc' = "spot"
        /\ a \in to_enter /\ a \notin held /\ to_enter' = to_enter \ {a} /\ UNCHANGED held
        /\ Budget \in 0..MaxNotional
        /\ L1Funding \in Layer /\ a \in Metadata \cup {NULL}
    BY <1>9, BudgetType, L1Assumption
       DEF CreateEntry, NextToEnter, Wanted, CanEnter, Shape, Layer
  <2>2. /\ position[p].state = "absent"
        /\ position'[p] = [state |-> "opening", layer |-> L1Funding,
                           notional |-> Budget, realized |-> 0, metadata |-> a]
        /\ \A q \in PositionId \ {p} : position'[q] = position[q]
    <3> HIDE DEF Budget
    <3> QED BY <1>t, <2>1, CreateWrites
  <2>3. L1Live' = L1Live \cup {p} /\ p \notin L1Live /\ position'[p].metadata = a
    BY <2>2 DEF L1Live, OpenPositions, Live, LiveState
  <2>4. \A q \in L1Live : position[q].metadata \in held \/ position[q].metadata \notin to_enter
    BY <2>1 DEF PairsInv, HeldCovers, Entering, L1Live
  <2>5. \A q \in L1Live : q \in PositionId \ {p} /\ position'[q] = position[q]
    BY <2>3 , <2>2 DEF L1Live, OpenPositions, Live
  <2>6. OneLivePerPair'
    BY <2>1, <2>3, <2>4, <2>5 DEF PairsInv, OneLivePerPair, L1Live
  <2>7. HeldCovers'
    BY <2>1, <2>3, <2>4, <2>5, Phases DEF HeldCovers, L1Live, Managing, Entering, Opening, OpenLegs
  <2> QED BY <2>6, <2>7 DEF PairsInv
<1>10. CASE SettleEntry
  <2>1. /\ cur \in PositionId /\ position[cur].state = "opening"
        /\ position[cur].layer = L1Funding /\ pc \in Opening /\ pc' = "enter"
        /\ held \subseteq held' /\ UNCHANGED to_enter
    BY <1>10, InHandFacts DEF SettleEntry, Shape, RowInHand, Opening
  <2>2. /\ UNCHANGED L1Live
        /\ \A p \in L1Live : position'[p].metadata = position[p].metadata
    <3>1. CASE MarkPositionOpen(cur)
      <4>1. /\ position'[cur].state = "open" /\ position'[cur].layer = L1Funding
            /\ position'[cur].metadata = position[cur].metadata
            /\ \A q \in PositionId \ {cur} : position'[q] = position[q]
        BY <1>t, <2>1, <3>1, SetStateWrites DEF MarkPositionOpen, PositionState
      <4>2. \A q \in PositionId : /\ position'[q].metadata = position[q].metadata
                                  /\ position'[q].layer = position[q].layer
                                  /\ position'[q].state \in LiveState
                                       <=> position[q].state \in LiveState
        BY <2>1, <4>1 DEF LiveState
      <4> QED BY <4>2 DEF L1Live, OpenPositions, Live
    <3>2. CASE UNCHANGED position
      BY <1>p, <3>2
    <3> QED BY <1>10, <3>1, <3>2 DEF SettleEntry, SetHaltReason, storeVars
  <2>3. OneLivePerPair'
    BY <2>2 DEF PairsInv, OneLivePerPair, L1Live
  <2>4. HeldCovers'
    BY <2>1, <2>2, Phases DEF PairsInv, HeldCovers, L1Live, Managing, Entering
  <2> QED BY <2>3, <2>4 DEF PairsInv
<1>11. CASE RunDone \/ Interrupt
  <2>1. UNCHANGED position /\ pc' = "idle"
    BY <1>11 DEF RunDone, Interrupt, storeVars
  <2>2. OneLivePerPair'
    BY <1>p, <2>1 DEF PairsInv, OneLivePerPair, L1Live
  <2>3. HeldCovers'
    BY <2>1, Phases DEF HeldCovers, Managing, Entering
  <2> QED BY <2>2, <2>3 DEF PairsInv
<1>12. ASSUME NEW p \in PositionId, pc = "idle", pc' = pc, UNCHANGED runVars, Elsewhere(p)
       PROVE  PairsInv'
  <2>1. UNCHANGED L1Live /\ \A q \in L1Live : position'[q] = position[q]
    <3>1. CASE UNCHANGED position
      BY <1>p, <3>1
    <3>2. ASSUME NEW n \in OtherSizes, CreatePosition(p, L2Cascade, n, NULL)
          PROVE  UNCHANGED L1Live /\ \A q \in L1Live : position'[q] = position[q]
      <4>1. n \in 0..MaxNotional /\ L2Cascade \in Layer
        BY L1Assumption, SafeguardsAssumption, StoreAssumption DEF Layer
      <4>2. /\ position[p].state = "absent"
            /\ position'[p] = [state |-> "opening", layer |-> L2Cascade,
                               notional |-> n, realized |-> 0, metadata |-> NULL]
            /\ \A q \in PositionId \ {p} : position'[q] = position[q]
        BY <1>t, <3>2, <4>1, CreateWrites
      <4> QED BY <4>2 DEF L1Live, OpenPositions, Live, LiveState, L1Funding, L2Cascade
    <3>3. CASE p \in OpenPositions(L2Cascade) /\ ClosePosition(p, 0)
      <4>1. /\ position'[p].state = "closed"
            /\ \A q \in PositionId \ {p} : position'[q] = position[q]
        BY <1>t, <3>3, CloseWrites
      <4> QED BY <3>3, <4>1 DEF L1Live, OpenPositions, Live, LiveState, L1Funding, L2Cascade
    <3> QED BY <1>12, <3>1, <3>2, <3>3
            DEF Elsewhere, ReconcileAtRisk, SetDynamicAllocation, SetHaltReason
  <2> QED BY <1>12, <2>1, PairsSameRows DEF runVars
<1>13. CASE UNCHANGED vars
  <2>1. UNCHANGED <<position, pc, cur, held, to_enter>>
    BY <1>13 DEF vars
  <2> QED BY <1>p, <2>1 DEF PairsInv, HeldCovers, OneLivePerPair, L1Live
<1> QED
  BY <1>1, <1>2, <1>3, <1>4, <1>5, <1>6, <1>7, <1>8, <1>9, <1>10, <1>11, <1>12, <1>13
     DEF Next, RunStep, BetweenRuns

(***************************************************************************)
(* However many runs are cut short, and wherever, Layer 1 never has two    *)
(* live positions on one pair: the snapshot of held_group_keys, taken once *)
(* at the start of a run, is never too small for the entries it allows.    *)
(***************************************************************************)
THEOREM OnePerPair == Spec => []OneLivePerPair
<1>1. Init => PairsInv
  <2> SUFFICES ASSUME Init PROVE PairsInv
    OBVIOUS
  <2>1. L1Live = {}
    BY DEF Init, StoreInit, NoRow, L1Live, OpenPositions, Live, LiveState
  <2> QED BY <2>1, Phases DEF Init, PairsInv, HeldCovers, OneLivePerPair, L1Live,
             Managing, Entering
<1>2. PairsInv => OneLivePerPair
  BY DEF PairsInv
<1> QED
  BY <1>1, <1>2, PairsStep, ShapeHolds, PTL DEF Spec

-----------------------------------------------------------------------------
(* Who writes a row, and what becomes of it *)

(* What every write but an insertion leaves of the row. *)
KeepsRow(q) == /\ position'[q].layer = position[q].layer
               /\ position'[q].notional = position[q].notional

(* An insertion: the row was absent, and is opening at that notional. *)
Inserts(q, l, n) == /\ position[q].state = "absent" /\ position'[q].state = "opening"
                    /\ position'[q].layer = l /\ position'[q].notional = n

Moves(q, from, to) == /\ position[q].state \in from /\ position'[q].state = to
                      /\ KeepsRow(q)

OthersWrite(q) ==
    /\ pc = "idle"
    /\ \/ \E n \in OtherSizes : Inserts(q, L2Cascade, n)
       \/ position[q].layer = L2Cascade /\ Moves(q, LiveState, "closed")

(***************************************************************************)
(* A row that changes is inserted by an entry, or is the live row a close  *)
(* begins on, or is the row in hand at the end of its handler, or belongs  *)
(* to another layer between two runs; and no other row changes with it.    *)
(***************************************************************************)
RowWrite(q) ==
    /\ \/ \E a \in Pair : CreateEntry(a, q) /\ Inserts(q, L1Funding, Budget)
       \/ BeginClose(q) /\ Moves(q, LiveState, "closing")
       \/ q = cur /\ CloseRefused /\ Moves(q, {"closing"}, "open")
       \/ q = cur /\ SettleClose /\ ClosePosition(q, 0) /\ Moves(q, {"closing"}, "closed")
       \/ q = cur /\ SettleEntry /\ Moves(q, {"opening"}, "open")
       \/ OthersWrite(q)
    /\ \A r \in PositionId \ {q} : position'[r] = position[r]

LEMMA RowWrites ==
    ASSUME Shape, [Next]_vars, NEW q \in PositionId, position'[q] # position[q]
    PROVE  RowWrite(q)
<1>t. position \in Table
  BY StoreTypes DEF Shape
<1>1. ASSUME NEW p \in PositionId, BeginClose(p) PROVE RowWrite(q)
  <2>1. p \in Live /\ SetPositionState(p, "closing")
    BY <1>1 DEF BeginClose, NextToManage, MarkPositionClosing, Shape, ManagedAreLive,
       OpenPositions
  <2>2. /\ position'[p].state = "closing" /\ KeepsRow(p)
        /\ \A r \in PositionId \ {p} : position'[r] = position[r]
    BY <1>t, <2>1, SetStateWrites DEF PositionState, KeepsRow
  <2> QED BY <1>1, <2>1, <2>2 DEF RowWrite, Moves, Live
<1>2. CASE CloseRefused
  <2>1. cur \in PositionId /\ position[cur].state = "closing" /\ SetPositionState(cur, "open")
    BY <1>2, InHandFacts DEF CloseRefused, MarkPositionOpen, Shape, RowInHand, Closing
  <2>2. /\ position'[cur].state = "open" /\ KeepsRow(cur)
        /\ \A r \in PositionId \ {cur} : position'[r] = position[r]
    BY <1>t, <2>1, SetStateWrites DEF PositionState, KeepsRow
  <2> QED BY <1>2, <2>1, <2>2 DEF RowWrite, Moves
<1>3. CASE SettleClose
  <2>1. cur \in PositionId /\ position[cur].state = "closing"
    BY <1>3, InHandFacts DEF SettleClose, ExitOutcome, Shape, RowInHand, Closing
  <2>2. ClosePosition(cur, 0)
    BY <1>3 DEF SettleClose, ExitOutcome, FundingCollected, SetHaltReason, storeVars
  <2>3. /\ position'[cur].state = "closed" /\ KeepsRow(cur)
        /\ \A r \in PositionId \ {cur} : position'[r] = position[r]
    BY <1>t, <2>1, <2>2, CloseWrites DEF KeepsRow
  <2> QED BY <1>3, <2>1, <2>2, <2>3 DEF RowWrite, Moves
<1>4. CASE SettleEntry
  <2>1. cur \in PositionId /\ position[cur].state = "opening"
    BY <1>4, InHandFacts DEF SettleEntry, Shape, RowInHand, Opening
  <2>2. SetPositionState(cur, "open")
    BY <1>4 DEF SettleEntry, MarkPositionOpen, SetHaltReason, storeVars
  <2>3. /\ position'[cur].state = "open" /\ KeepsRow(cur)
        /\ \A r \in PositionId \ {cur} : position'[r] = position[r]
    BY <1>t, <2>1, <2>2, SetStateWrites DEF PositionState, KeepsRow
  <2> QED BY <1>4, <2>1, <2>3 DEF RowWrite, Moves
<1>5. ASSUME NEW a \in Pair, NEW p \in PositionId, CreateEntry(a, p) PROVE RowWrite(q)
  <2>1. /\ CreatePosition(p, L1Funding, Budget, a)
        /\ L1Funding \in Layer /\ a \in Metadata \cup {NULL}
        /\ Budget \in 0..MaxNotional
    BY <1>5, BudgetType, L1Assumption DEF CreateEntry, CanEnter, Layer, Shape
  <2>2. /\ position[p].state = "absent"
        /\ position'[p] = [state |-> "opening", layer |-> L1Funding,
                           notional |-> Budget, realized |-> 0, metadata |-> a]
        /\ \A r \in PositionId \ {p} : position'[r] = position[r]
    <3> HIDE DEF Budget
    <3> QED BY <1>t, <2>1, CreateWrites
  <2>3. Inserts(p, L1Funding, Budget)
    BY <2>2 DEF Inserts
  <2> QED BY <1>5, <2>2, <2>3 DEF RowWrite
<1>6. ASSUME pc = "idle", NEW p \in PositionId, Elsewhere(p) PROVE RowWrite(q)
  <2>1. ASSUME NEW n \in OtherSizes, CreatePosition(p, L2Cascade, n, NULL)
        PROVE  RowWrite(q)
    <3>1. n \in 0..MaxNotional /\ L2Cascade \in Layer
      BY L1Assumption, SafeguardsAssumption, StoreAssumption DEF Layer
    <3>2. /\ position[p].state = "absent"
          /\ position'[p] = [state |-> "opening", layer |-> L2Cascade,
                             notional |-> n, realized |-> 0, metadata |-> NULL]
          /\ \A r \in PositionId \ {p} : position'[r] = position[r]
      BY <1>t, <2>1, <3>1, CreateWrites
    <3>3. Inserts(p, L2Cascade, n)
      BY <3>2 DEF Inserts
    <3> QED BY <1>6, <3>2, <3>3 DEF RowWrite, OthersWrite
  <2>2. ASSUME p \in OpenPositions(L2Cascade), ClosePosition(p, 0)
        PROVE  RowWrite(q)
    <3>1. /\ position'[p].state = "closed" /\ KeepsRow(p)
          /\ \A r \in PositionId \ {p} : position'[r] = position[r]
      BY <1>t, <2>2, CloseWrites DEF KeepsRow
    <3> QED BY <1>6, <2>2, <3>1 DEF RowWrite, OthersWrite, Moves, OpenPositions, Live
  <2> QED BY <1>6, <2>1, <2>2 DEF Elsewhere, ReconcileAtRisk, SetDynamicAllocation,
             SetHaltReason
<1>7. CASE \/ StartRun \/ ManageDone \/ CloseCleared \/ RunDone \/ Interrupt
           \/ SubmitSpot \/ SubmitPerp \/ SubmitSpotClose \/ SubmitPerpClose
           \/ \E p \in PositionId : KeepPosition(p)
           \/ \E a \in Pair : SkipCandidate(a) \/ RefuseEntry(a)
           \/ UNCHANGED vars
  BY <1>7 DEF StartRun, ManageDone, CloseCleared, RunDone, Interrupt, KeepPosition,
     SkipCandidate, RefuseEntry, SubmitSpot, SubmitPerp, SubmitSpotClose, SubmitPerpClose,
     SubmitLeg, SimulateLeg, PlaceLeg, PlaceLegFails, RecordFill, storeVars, vars
<1> QED
  BY <1>1, <1>2, <1>3, <1>4, <1>5, <1>6, <1>7 DEF Next, RunStep, BetweenRuns

(***************************************************************************)
(* An entry is sized to what is left of the layer's allocation, and no     *)
(* write comes between that reading and the row.                           *)
(***************************************************************************)
THEOREM EntriesWithinAllocation == Spec => EntryWithinAllocation
<1>1. ASSUME Shape, [Next]_vars, NEW p \in PositionId,
             position[p].state = "absent", position'[p].state = "opening",
             position'[p].layer = L1Funding
      PROVE  Notional(OpenPositions(L1Funding))' <= LayerAlloc
  <2>1. /\ Inserts(p, L1Funding, Budget)
        /\ \A r \in PositionId \ {p} : position'[r] = position[r]
    <3>1. position'[p] # position[p]
      BY <1>1
    <3>2. RowWrite(p)
      BY <1>1, <3>1, RowWrites
    <3> QED BY <1>1, <3>2 DEF RowWrite, OthersWrite, Moves, Inserts, LiveState,
               L1Funding, L2Cascade
  <2>2. p \notin OpenPositions(L1Funding) /\ p \in OpenPositions(L1Funding)'
    BY <1>1 DEF OpenPositions, Live, LiveState
  <2>3. position \in Table /\ position' \in Table
    BY <1>1, ShapeStep DEF Shape, TypeOK, StoreTypeOK, Table
  <2>4. LayerDeployed(L1Funding)' = LayerDeployed(L1Funding) + position'[p].notional
    BY <2>1, <2>2, <2>3, LayerGains
  <2>5. position'[p].notional = Budget
    BY <2>1 DEF Inserts
  <2>6. LayerDeployed(L1Funding) \in Nat /\ LayerAlloc \in Nat /\ Budget \in Int
        /\ MaxPerPosition \in Nat
    BY <1>1, StoreTypes, BudgetType, SafeguardsAssumption DEF Shape
  <2>7. Budget <= LayerAlloc - LayerDeployed(L1Funding)
    <3> DEFINE remaining == LayerAlloc - LayerDeployed(L1Funding)
    <3>1. Budget = IF remaining < MaxPerPosition THEN remaining ELSE MaxPerPosition
      BY DEF Budget
    <3>2. remaining \in Int
      BY <2>6
    <3> HIDE DEF remaining
    <3>3. Budget <= remaining
      BY <2>6, <3>1, <3>2
    <3> QED BY <3>3 DEF remaining
  <2> HIDE DEF Budget, LayerAlloc
  <2>8. LayerDeployed(L1Funding)' <= LayerAlloc
    <3> HIDE DEF LayerDeployed
    <3> QED BY <2>4, <2>5, <2>6, <2>7
  <2> QED BY <2>8 DEF LayerDeployed
<1>2. Shape /\ [Next]_vars =>
         \A p \in PositionId :
             position[p].state = "absent" /\ position'[p].state = "opening"
                /\ position'[p].layer = L1Funding
             => Notional(OpenPositions(L1Funding))' <= LayerAlloc
  BY <1>1
<1> QED
  BY <1>2, ShapeHolds, PTL DEF Spec, EntryWithinAllocation

-----------------------------------------------------------------------------
(* Orders: what was sent, what was taken, what the store knows of it *)

(* No order of that name was ever recorded, or taken by the exchange. *)
Untouched(p, tag) == <<p, tag>> \notin SeenOrderIds /\ venue[<<p, tag>>] = 0

(* What the handler has still to send for the position in hand. *)
ToSend == CASE pc = "spot"                          -> OpenLegs
            [] pc = "perp"                          -> {"perp"}
            [] pc \in {"close_check", "spot_close"} -> CloseLegs
            [] pc = "perp_close"                    -> {"perp_close"}
            [] OTHER                                -> {}

Side == IF pc \in Opening THEN OpenLegs ELSE CloseLegs

(* No order was ever sent for a row before its handler could. *)
RowsUntouched ==
    /\ \A p \in PositionId :
          position[p].state = "absent" => \A tag \in OrderTag : Untouched(p, tag)
    /\ \A p \in Live : \A tag \in CloseLegs : Untouched(p, tag)

(***************************************************************************)
(* The legs a handler holds True are filled in the store and held by the   *)
(* account, and in dry run no others are filled; what it has still to send *)
(* was never sent.                                                         *)
(***************************************************************************)
LegsHold ==
    IF pc \in Closing \cup Opening
    THEN /\ \A tag \in ToSend : Untouched(cur, tag) /\ tag \notin legs
         /\ legs \subseteq Side
         /\ \A tag \in legs : Filled(cur, tag) /\ HasLeg(cur, tag)
         /\ ~EnableLiveOrders => \A tag \in Side : Filled(cur, tag) => tag \in legs
    ELSE legs = {}

OrdersInv == RowsUntouched /\ LegsHold /\ OrderTakenAtMostOnce /\ ClosedIsExited

(***************************************************************************)
(* Sending an order nobody has used touches nothing that is said of any    *)
(* other order, and the leg it answers True for is one that is filled and  *)
(* held.  Only in dry run are the filled legs those it answered True for.  *)
(***************************************************************************)
LEMMA SendsOne ==
    ASSUME Shape, NEW tag \in OrderTag, NEW next, SubmitLeg(tag, next), cur \in PositionId,
           Untouched(cur, tag), tag \notin legs
    PROVE  /\ \A id \in ClientOrderId \ {<<cur, tag>>} :
                 /\ id \in SeenOrderIds' <=> id \in SeenOrderIds
                 /\ venue'[id] = venue[id]
                 /\ [id |-> id, filled |-> TRUE] \in fill'
                        <=> [id |-> id, filled |-> TRUE] \in fill
           /\ venue'[<<cur, tag>>] <= 1
           /\ legs' = legs \/ legs' = legs \cup {tag}
           /\ tag \in legs' => Filled(cur, tag)' /\ HasLeg(cur, tag)'
           /\ ~EnableLiveOrders => (Filled(cur, tag)' => tag \in legs')
           /\ UNCHANGED <<position, runVars, cur>> /\ pc' = next
<1> DEFINE me == <<cur, tag>>
<1>1. /\ me \in ClientOrderId /\ venue \in [ClientOrderId -> Nat] /\ venue[me] = 0
      /\ me \notin SeenOrderIds /\ \A f \in fill : f.id # me
  BY DEF Untouched, ClientOrderId, Shape, TypeOK, SeenOrderIds
<1>2. UNCHANGED <<runVars, cur>> /\ pc' = next
  BY DEF SubmitLeg
<1>3. ASSUME NEW ok \in BOOLEAN, RecordFill(me, ok)
      PROVE  /\ \A id \in ClientOrderId \ {me} :
                   /\ id \in SeenOrderIds' <=> id \in SeenOrderIds
                   /\ [id |-> id, filled |-> TRUE] \in fill'
                          <=> [id |-> id, filled |-> TRUE] \in fill
             /\ Filled(cur, tag)' <=> ok
             /\ UNCHANGED position
  <2>1. fill' = fill \cup {[id |-> me, filled |-> ok]} /\ UNCHANGED position
    BY <1>1, <1>3 DEF RecordFill
  <2>2. \A id : id \in SeenOrderIds' <=> id \in SeenOrderIds \/ id = me
    <3> DEFINE row == [id |-> me, filled |-> ok]
    <3>1. row.id = me /\ fill' = fill \cup {row}
      BY <2>1
    <3> HIDE DEF row, me
    <3> QED BY <3>1 DEF SeenOrderIds
  <2>3. [id |-> me, filled |-> TRUE] \notin fill
    BY <1>1
  <2>4. Filled(cur, tag)' <=> [id |-> me, filled |-> TRUE] \in fill'
    BY <1>2 DEF Filled
  <2> QED BY <2>1, <2>2, <2>3, <2>4
<1>4. ASSUME NEW ok \in BOOLEAN, SimulateLeg(tag, ok)
      PROVE  /\ UNCHANGED venue /\ legs' = (IF ok THEN legs \cup {tag} ELSE legs)
             /\ RecordFill(me, ok) /\ ~ EnableLiveOrders
  BY <1>4 DEF SimulateLeg
<1>5. ASSUME PlaceLeg(tag)
      PROVE  /\ venue' = [venue EXCEPT ![me] = @ + 1] /\ legs' = legs \cup {tag}
             /\ RecordFill(me, TRUE) /\ EnableLiveOrders
  BY <1>5 DEF PlaceLeg
<1>6. ASSUME NEW taken \in BOOLEAN, NEW recorded \in BOOLEAN,
             PlaceLegFails(tag, taken, recorded)
      PROVE  /\ venue' = (IF taken THEN [venue EXCEPT ![me] = @ + 1] ELSE venue)
             /\ RecordFill(me, TRUE) \/ UNCHANGED <<position, fill>>
             /\ UNCHANGED legs /\ EnableLiveOrders
  BY <1>6 DEF PlaceLegFails, storeVars
<1>7. ASSUME venue' = [venue EXCEPT ![me] = @ + 1]
      PROVE  /\ \A id \in ClientOrderId \ {me} : venue'[id] = venue[id]
             /\ venue'[me] = 1
  BY <1>1, <1>7
<1>8. HasLeg(cur, tag)' <=> IF EnableLiveOrders THEN venue'[me] > 0 ELSE Filled(cur, tag)'
  BY <1>2 DEF HasLeg, Filled
<1> HIDE DEF me
<1>9. CASE \E ok \in BOOLEAN : SimulateLeg(tag, ok)
  <2>1. PICK ok \in BOOLEAN : SimulateLeg(tag, ok)
    BY <1>9
  <2>2. /\ UNCHANGED venue /\ legs' = (IF ok THEN legs \cup {tag} ELSE legs)
        /\ RecordFill(me, ok) /\ ~ EnableLiveOrders
    BY <1>4, <2>1
  <2>3. (Filled(cur, tag)' <=> ok) /\ (tag \in legs' <=> ok)
    BY <1>3, <2>2
  <2>4. legs' = legs \/ legs' = legs \cup {tag}
    BY <2>2
  <2>5. /\ UNCHANGED position
        /\ \A id \in ClientOrderId \ {me} :
              /\ id \in SeenOrderIds' <=> id \in SeenOrderIds
              /\ [id |-> id, filled |-> TRUE] \in fill'
                     <=> [id |-> id, filled |-> TRUE] \in fill
    BY <1>3, <2>2
  <2>6. venue'[me] <= 1 /\ \A id \in ClientOrderId \ {me} : venue'[id] = venue[id]
    BY <1>1, <2>2
  <2>7. tag \in legs' => Filled(cur, tag)' /\ HasLeg(cur, tag)'
    BY <1>8, <2>2, <2>3
  <2>8. ~EnableLiveOrders => (Filled(cur, tag)' => tag \in legs')
    BY <2>3
  <2> QED BY <1>2, <2>4, <2>5, <2>6, <2>7, <2>8, Zenon DEF me
<1>10. CASE PlaceLeg(tag)
  <2>1. /\ legs' = legs \cup {tag} /\ RecordFill(me, TRUE) /\ EnableLiveOrders
        /\ \A id \in ClientOrderId \ {me} : venue'[id] = venue[id]
        /\ venue'[me] = 1
    BY <1>5, <1>7, <1>10
  <2>2. /\ UNCHANGED position
        /\ \A id \in ClientOrderId \ {me} :
              /\ id \in SeenOrderIds' <=> id \in SeenOrderIds
              /\ [id |-> id, filled |-> TRUE] \in fill'
                     <=> [id |-> id, filled |-> TRUE] \in fill
        /\ Filled(cur, tag)'
    BY <1>3, <2>1
  <2>3. venue'[me] <= 1 /\ HasLeg(cur, tag)' /\ tag \in legs'
    BY <1>8, <2>1
  <2> QED BY <1>2, <2>1, <2>2, <2>3, Zenon DEF me
<1>11. CASE \E taken, recorded \in BOOLEAN : PlaceLegFails(tag, taken, recorded)
  <2>1. PICK taken \in BOOLEAN, recorded \in BOOLEAN : PlaceLegFails(tag, taken, recorded)
    BY <1>11
  <2>2. /\ venue' = (IF taken THEN [venue EXCEPT ![me] = @ + 1] ELSE venue)
        /\ RecordFill(me, TRUE) \/ UNCHANGED <<position, fill>>
        /\ UNCHANGED legs /\ EnableLiveOrders
    BY <1>6, <2>1
  <2>3. /\ \A id \in ClientOrderId \ {me} : venue'[id] = venue[id]
        /\ venue'[me] <= 1
    BY <1>1, <1>7, <2>2
  <2>4. CASE RecordFill(me, TRUE)
    <3>1. /\ UNCHANGED position
          /\ \A id \in ClientOrderId \ {me} :
                /\ id \in SeenOrderIds' <=> id \in SeenOrderIds
                /\ [id |-> id, filled |-> TRUE] \in fill'
                       <=> [id |-> id, filled |-> TRUE] \in fill
      BY <1>3, <2>4
    <3> QED BY <1>2, <2>2, <2>3, <3>1, Zenon DEF me
  <2>5. CASE UNCHANGED <<position, fill>>
    <3>1. SeenOrderIds' = SeenOrderIds
      BY <2>5 DEF SeenOrderIds
    <3> QED BY <1>2, <2>2, <2>3, <2>5, <3>1 DEF me
  <2> QED BY <2>2, <2>4, <2>5
<1> QED
  BY <1>9, <1>10, <1>11 DEF SubmitLeg

(* So a handler that sends its next order keeps its books right. *)
LEMMA SendsNext ==
    ASSUME Shape, OrdersInv, NEW tag \in OrderTag, NEW next, SubmitLeg(tag, next),
           \/ tag \in OpenLegs /\ next \in Opening
           \/ tag \in CloseLegs /\ next \in Closing,
           tag \in ToSend, ToSend' \subseteq ToSend \ {tag}
    PROVE  OrdersInv'
<1>1. /\ pc = tag /\ OpenLegs \subseteq Opening /\ CloseLegs \subseteq Closing
      /\ OpenLegs \cap CloseLegs = {} /\ OpenLegs \cup CloseLegs = OrderTag
  BY L1Assumption DEF SubmitLeg, Opening, Closing, OpenLegs, CloseLegs
<1>2. /\ cur \in PositionId /\ position[cur].state # "absent"
      /\ pc \in Closing => position[cur].state = "closing"
      /\ pc \in Opening => position[cur].state = "opening"
  BY <1>1, InHandFacts DEF Shape, RowInHand
<1>3. /\ Untouched(cur, tag) /\ tag \notin legs
      /\ \A t \in ToSend : Untouched(cur, t) /\ t \notin legs
      /\ legs \subseteq Side
      /\ \A t \in legs : Filled(cur, t) /\ HasLeg(cur, t)
      /\ ~EnableLiveOrders => \A t \in Side : Filled(cur, t) => t \in legs
  BY <1>1 DEF OrdersInv, LegsHold
<1>4. /\ \A id \in ClientOrderId \ {<<cur, tag>>} :
            /\ id \in SeenOrderIds' <=> id \in SeenOrderIds
            /\ venue'[id] = venue[id]
            /\ [id |-> id, filled |-> TRUE] \in fill' <=> [id |-> id, filled |-> TRUE] \in fill
      /\ venue'[<<cur, tag>>] <= 1
      /\ legs' = legs \/ legs' = legs \cup {tag}
      /\ tag \in legs' => Filled(cur, tag)' /\ HasLeg(cur, tag)'
      /\ ~EnableLiveOrders => (Filled(cur, tag)' => tag \in legs')
      /\ UNCHANGED <<position, runVars, cur>> /\ pc' = next
  BY <1>2, <1>3, SendsOne
<1>5. \A p \in PositionId, t \in OrderTag :
         p # cur \/ t # tag =>
             /\ Untouched(p, t)' <=> Untouched(p, t)
             /\ Filled(p, t)' <=> Filled(p, t)
             /\ HasLeg(p, t)' <=> HasLeg(p, t)
  <2> SUFFICES ASSUME NEW p \in PositionId, NEW t \in OrderTag, p # cur \/ t # tag
               PROVE  /\ Untouched(p, t)' <=> Untouched(p, t)
                      /\ Filled(p, t)' <=> Filled(p, t)
                      /\ HasLeg(p, t)' <=> HasLeg(p, t)
    OBVIOUS
  <2>1. <<p, t>> \in ClientOrderId \ {<<cur, tag>>}
    BY DEF ClientOrderId
  <2> QED BY <1>4, <2>1 DEF Untouched, Filled, HasLeg
<1>6. Side' = Side /\ tag \in Side /\ Side \subseteq OrderTag
  BY <1>1, <1>4, Phases DEF Side
<1>7. LegsHold'
  <2>1. \A t \in ToSend' : Untouched(cur, t)' /\ t \notin legs'
    <3>1. ToSend \subseteq OrderTag
      BY L1Assumption DEF ToSend, OpenLegs, CloseLegs
    <3> QED BY <1>2, <1>3, <1>4, <1>5, <3>1
  <2>2. legs' \subseteq Side'
    BY <1>3, <1>4, <1>6
  <2>3. ~EnableLiveOrders => \A t \in Side' : Filled(cur, t)' => t \in legs'
    <3> SUFFICES ASSUME ~EnableLiveOrders, NEW t \in Side, Filled(cur, t)'
                 PROVE  t \in legs'
      BY <1>6
    <3>1. CASE t = tag
      BY <1>4, <3>1
    <3>2. CASE t # tag
      BY <1>2, <1>3, <1>4, <1>5, <1>6, <3>2
    <3> QED BY <3>1, <3>2
  <2>4. \A t \in legs' : Filled(cur, t)' /\ HasLeg(cur, t)'
    <3> SUFFICES ASSUME NEW t \in legs'
                 PROVE  Filled(cur, t)' /\ HasLeg(cur, t)'
      OBVIOUS
    <3>1. CASE t = tag
      BY <1>4, <3>1
    <3>2. CASE t # tag
      BY <1>2, <1>3, <1>4, <1>5, <1>6, <3>2
    <3> QED BY <3>1, <3>2
  <2>5. pc' \in Closing \cup Opening
    BY <1>4
  <2>6. cur' = cur
    BY <1>4
  <2> QED BY <2>1, <2>2, <2>3, <2>4, <2>5, <2>6 DEF LegsHold, Untouched, Filled, HasLeg
<1>8. RowsUntouched'
  <2>1. ASSUME NEW p \in PositionId, position[p].state = "absent", NEW t \in OrderTag
        PROVE  Untouched(p, t)'
    BY <1>2, <1>5, <2>1 DEF OrdersInv, RowsUntouched
  <2>2. ASSUME NEW p \in Live, NEW t \in CloseLegs
        PROVE  Untouched(p, t)'
    <3>1. p # cur \/ t # tag
      BY <1>1, <1>2, Phases DEF Live, LiveState
    <3> QED BY <1>1, <1>5, <3>1 DEF OrdersInv, RowsUntouched, Live
  <2>3. Live' = Live
    BY <1>4, SameRows
  <2> QED BY <1>4, <2>1, <2>2, <2>3 DEF RowsUntouched
<1>9. OrderTakenAtMostOnce'
  BY <1>4 DEF OrdersInv, OrderTakenAtMostOnce
<1>10. ClosedIsExited'
  <2> SUFFICES ASSUME NEW p \in PositionId, position[p].state = "closed",
                      position[p].layer = L1Funding, NEW t \in CloseLegs
               PROVE  HasLeg(p, t)'
    BY <1>4 DEF ClosedIsExited
  <2>1. p # cur
    BY <1>1, <1>2, Phases
  <2> QED BY <1>1, <1>5, <2>1 DEF OrdersInv, ClosedIsExited
<1> QED
  BY <1>7, <1>8, <1>9, <1>10 DEF OrdersInv

LEMMA SubmitsOrders ==
    ASSUME Shape, OrdersInv, SubmitSpot \/ SubmitPerp \/ SubmitSpotClose \/ SubmitPerpClose
    PROVE  OrdersInv'
<1> USE DEF OpenLegs, CloseLegs
<1>1. /\ OrderTag = OpenLegs \cup CloseLegs
      /\ "perp" \in Opening /\ "settle" \in Opening
      /\ "perp_close" \in Closing /\ "close_settle" \in Closing
  BY L1Assumption DEF Opening, Closing
<1>2. CASE SubmitSpot
  <2>1. SubmitLeg("spot", "perp") /\ pc = "spot" /\ pc' = "perp"
    BY <1>2 DEF SubmitSpot, SubmitLeg
  <2>2. "spot" \in ToSend /\ ToSend' \subseteq ToSend \ {"spot"}
    BY <2>1 DEF ToSend
  <2> QED BY <1>1, <2>1, <2>2, SendsNext
<1>3. CASE SubmitPerp
  <2>1. SubmitLeg("perp", "settle") /\ pc = "perp" /\ pc' = "settle"
    BY <1>3 DEF SubmitPerp, SubmitLeg
  <2>2. "perp" \in ToSend /\ ToSend' \subseteq ToSend \ {"perp"}
    BY <2>1 DEF ToSend
  <2> QED BY <1>1, <2>1, <2>2, SendsNext
<1>4. CASE SubmitSpotClose
  <2>1. SubmitLeg("spot_close", "perp_close") /\ pc = "spot_close" /\ pc' = "perp_close"
    BY <1>4 DEF SubmitSpotClose, SubmitLeg
  <2>2. "spot_close" \in ToSend /\ ToSend' \subseteq ToSend \ {"spot_close"}
    BY <2>1 DEF ToSend
  <2> QED BY <1>1, <2>1, <2>2, SendsNext
<1>5. CASE SubmitPerpClose
  <2>1. SubmitLeg("perp_close", "close_settle") /\ pc = "perp_close" /\ pc' = "close_settle"
    BY <1>5 DEF SubmitPerpClose, SubmitLeg
  <2>2. "perp_close" \in ToSend /\ ToSend' \subseteq ToSend \ {"perp_close"}
    BY <2>1 DEF ToSend
  <2> QED BY <1>1, <2>1, <2>2, SendsNext
<1> QED
  BY <1>2, <1>3, <1>4, <1>5

(* An untouched order is not a filled one. *)
LEMMA UntouchedIsUnfilled ==
    ASSUME NEW p, NEW tag, Untouched(p, tag)
    PROVE  ~ Filled(p, tag)
<1>1. [id |-> <<p, tag>>, filled |-> TRUE].id = <<p, tag>>
  OBVIOUS
<1> QED
  BY <1>1 DEF Untouched, Filled, SeenOrderIds

(* What a handler has not sent yet is neither filled nor held as True. *)
LEMMA NothingSentYet ==
    ASSUME LegsHold, pc = "close_check"
    PROVE  /\ legs = {} /\ \A tag \in CloseLegs : Untouched(cur, tag)
           /\ \A tag \in CloseLegs : ~ Filled(cur, tag)
<1>1. pc \in Closing /\ pc \notin Opening
  BY DEF Closing, Opening, OpenLegs
<1>2. Side = CloseLegs /\ ToSend = CloseLegs
  BY <1>1 DEF Side, ToSend
<1>3. legs = {} /\ \A tag \in CloseLegs : Untouched(cur, tag)
  BY <1>1, <1>2 DEF LegsHold
<1> QED
  BY <1>3, UntouchedIsUnfilled

(* A row is closed only by a handler both of whose orders went through. *)
LEMMA ClosesBoth ==
    ASSUME Shape, LegsHold, SettleClose, position'[cur] # position[cur]
    PROVE  \A tag \in CloseLegs : HasLeg(cur, tag)
<1>1. legs = CloseLegs /\ pc = "close_settle"
  BY DEF SettleClose, ExitOutcome, SetHaltReason, storeVars
<1> QED
  BY <1>1 DEF LegsHold, Closing

LEMMA OrdersStep == Shape /\ OrdersInv /\ [Next]_vars => OrdersInv'
<1> SUFFICES ASSUME Shape, OrdersInv, [Next]_vars PROVE OrdersInv'
  OBVIOUS
<1>1. CASE SubmitSpot \/ SubmitPerp \/ SubmitSpotClose \/ SubmitPerpClose
  BY <1>1, SubmitsOrders
<1>2. CASE ~(SubmitSpot \/ SubmitPerp \/ SubmitSpotClose \/ SubmitPerpClose)
  <2>1. UNCHANGED <<fill, venue>>
    BY <1>2 DEF Next, RunStep, StartRun, Interrupt, BetweenRuns, vars, storeVars, KeepPosition,
       BeginClose, ManageDone, CloseCleared, CloseRefused, SettleClose, ExitOutcome,
       SkipCandidate, RefuseEntry, CreateEntry, SettleEntry, RunDone, Elsewhere,
       ReconcileAtRisk, SetDynamicAllocation, SetHaltReason, CreatePosition,
       ClosePosition, MarkPositionClosing, MarkPositionOpen, SetPositionState
  <2>2. \A p, tag : /\ Untouched(p, tag)' <=> Untouched(p, tag)
                    /\ Filled(p, tag)' <=> Filled(p, tag)
                    /\ HasLeg(p, tag)' <=> HasLeg(p, tag)
    BY <2>1 DEF Untouched, Filled, HasLeg, SeenOrderIds
  <2>3. CloseLegs \subseteq OrderTag /\ OpenLegs \subseteq OrderTag
    BY L1Assumption DEF CloseLegs, OpenLegs
  <2>4. OrderTakenAtMostOnce'
    BY <2>1 DEF OrdersInv, OrderTakenAtMostOnce
  <2>5. ClosedIsExited'
    <3> SUFFICES ASSUME NEW p \in PositionId, position'[p].state = "closed",
                        position'[p].layer = L1Funding
                 PROVE  \A tag \in CloseLegs : HasLeg(p, tag)
      BY <2>2 DEF ClosedIsExited
    <3>1. CASE position'[p] = position[p]
      BY <3>1 DEF OrdersInv, ClosedIsExited
    <3>2. CASE position'[p] # position[p]
      <4>1. p = cur /\ SettleClose
        BY <3>2, RowWrites DEF RowWrite, OthersWrite, Inserts, Moves, KeepsRow,
           L1Funding, L2Cascade
      <4> QED BY <3>2, <4>1, ClosesBoth DEF OrdersInv
    <3> QED BY <3>1, <3>2
  <2>6. RowsUntouched'
    <3>1. ASSUME NEW p \in PositionId, position'[p].state = "absent", NEW tag \in OrderTag
          PROVE  Untouched(p, tag)
      <4>1. position'[p] = position[p]
        BY <3>1, RowWrites DEF RowWrite, OthersWrite, Inserts, Moves
      <4> QED BY <3>1, <4>1 DEF OrdersInv, RowsUntouched
    <3>2. ASSUME NEW p \in Live', NEW tag \in CloseLegs
          PROVE  Untouched(p, tag)
      <4>1. p \in PositionId /\ position'[p].state \in LiveState
        BY DEF Live
      <4>2. CASE p \in Live
        BY <4>2 DEF OrdersInv, RowsUntouched
      <4>3. CASE p \notin Live
        <5>1. position'[p] # position[p]
          BY <4>1, <4>3 DEF Live
        <5>2. \/ position[p].state = "absent"
              \/ p = cur /\ CloseRefused
          BY <4>1, <4>3, <5>1, RowWrites
             DEF RowWrite, OthersWrite, Inserts, Moves, Live, LiveState
        <5>3. CASE position[p].state = "absent"
          BY <2>3, <4>1, <5>3 DEF OrdersInv, RowsUntouched
        <5>4. CASE p = cur /\ CloseRefused
          BY <5>4, NothingSentYet DEF CloseRefused, OrdersInv
        <5> QED BY <5>2, <5>3, <5>4
      <4> QED BY <4>2, <4>3
    <3> QED BY <2>2, <3>1, <3>2 DEF RowsUntouched
  <2>7. LegsHold'
    <3>1. ASSUME pc' \notin Closing \cup Opening, legs' = {}
          PROVE  LegsHold'
      BY <3>1 DEF LegsHold
    <3>2. ASSUME NEW a \in Pair, NEW p \in PositionId, CreateEntry(a, p)
          PROVE  LegsHold'
      <4>1. /\ position[p].state = "absent" /\ pc = "enter" /\ pc' = "spot" /\ cur' = p
            /\ legs' = legs
        BY <3>2 DEF CreateEntry, NextToEnter, CreatePosition, IsNextId
      <4>2. legs' = {}
        BY <4>1, Phases DEF OrdersInv, LegsHold
      <4>3. pc' \in Opening /\ Side' = OpenLegs /\ ToSend' = OpenLegs
        BY <4>1 DEF Side, ToSend, Opening, OpenLegs
      <4>4. \A tag \in OpenLegs : Untouched(p, tag) /\ ~ Filled(p, tag)
        BY <2>3, <4>1, UntouchedIsUnfilled DEF OrdersInv, RowsUntouched
      <4> QED BY <2>2, <4>1, <4>2, <4>3, <4>4 DEF LegsHold, Untouched, Filled, HasLeg
    <3>3. ASSUME NEW p \in PositionId, BeginClose(p)
          PROVE  LegsHold'
      <4>1. /\ p \in Live /\ pc = "manage" /\ pc' = "close_check" /\ cur' = p
            /\ legs' = legs
        BY <3>3 DEF BeginClose, NextToManage, Shape, ManagedAreLive, OpenPositions
      <4>2. legs' = {}
        BY <4>1, Phases DEF OrdersInv, LegsHold
      <4>3. pc' \in Closing /\ Side' = CloseLegs /\ ToSend' = CloseLegs
        BY <4>1, Phases DEF Side, ToSend, Closing, CloseLegs
      <4>4. \A tag \in CloseLegs : Untouched(p, tag) /\ ~ Filled(p, tag)
        BY <4>1, UntouchedIsUnfilled DEF OrdersInv, RowsUntouched
      <4> QED BY <2>2, <4>1, <4>2, <4>3, <4>4 DEF LegsHold, Untouched, Filled, HasLeg
    <3>4. CASE CloseCleared
      <4>1. pc = "close_check" /\ pc' = "spot_close" /\ legs' = legs /\ cur' = cur
        BY <3>4 DEF CloseCleared
      <4>2. legs = {} /\ \A tag \in CloseLegs : Untouched(cur, tag) /\ ~ Filled(cur, tag)
        BY <4>1, NothingSentYet DEF OrdersInv
      <4>3. pc' \in Closing /\ Side' = CloseLegs /\ ToSend' = CloseLegs
        BY <4>1, Phases DEF Side, ToSend, Closing, CloseLegs
      <4> QED BY <2>2, <4>1, <4>2, <4>3 DEF LegsHold, Untouched, Filled, HasLeg
    <3>5. CASE CloseRefused
      <4>1. pc = "close_check" /\ pc' = "manage" /\ legs' = legs
        BY <3>5 DEF CloseRefused
      <4> QED BY <3>1, <4>1, NothingSentYet, Phases DEF OrdersInv
    <3>6. CASE SettleClose \/ SettleEntry \/ Interrupt
      BY <3>1, <3>6, Phases DEF SettleClose, ExitOutcome, SettleEntry, Interrupt
    <3>7. CASE \/ StartRun \/ ManageDone \/ RunDone \/ BetweenRuns
               \/ \E p \in PositionId : KeepPosition(p)
               \/ \E a \in Pair : SkipCandidate(a) \/ RefuseEntry(a)
      <4>1. pc \in {"idle", "manage", "enter"} /\ pc' \in {"idle", "manage", "enter"}
            /\ legs' = legs
        BY <3>7 DEF StartRun, ManageDone, RunDone, BetweenRuns, KeepPosition, NextToManage,
           SkipCandidate, RefuseEntry, NextToEnter
      <4> QED BY <3>1, <4>1, Phases DEF OrdersInv, LegsHold
    <3>8. CASE UNCHANGED vars
      <4>1. UNCHANGED <<pc, cur, legs, fill, venue>>
        BY <3>8 DEF vars
      <4> QED BY <4>1 DEF OrdersInv, LegsHold, ToSend, Side, Untouched, Filled, HasLeg,
                 SeenOrderIds
    <3> QED BY <1>2, <3>2, <3>3, <3>4, <3>5, <3>6, <3>7, <3>8 DEF Next, RunStep
  <2> QED BY <2>4, <2>5, <2>6, <2>7 DEF OrdersInv
<1> QED
  BY <1>1, <1>2

LEMMA OrdersHold == Spec => []OrdersInv
<1>1. Init => OrdersInv
  <2> SUFFICES ASSUME Init PROVE OrdersInv
    OBVIOUS
  <2>1. /\ \A p \in PositionId : position[p].state = "absent"
        /\ fill = {} /\ \A id \in ClientOrderId : venue[id] = 0
        /\ pc = "idle" /\ legs = {}
    BY DEF Init, StoreInit, NoRow
  <2>2. \A p \in PositionId, tag \in OrderTag : Untouched(p, tag)
    BY <2>1 DEF Untouched, SeenOrderIds, ClientOrderId
  <2>3. RowsUntouched /\ ClosedIsExited
    BY <2>1, <2>2 DEF RowsUntouched, ClosedIsExited, Live, LiveState
  <2>4. OrderTakenAtMostOnce /\ LegsHold
    BY <2>1, Phases DEF OrderTakenAtMostOnce, LegsHold
  <2> QED BY <2>3, <2>4 DEF OrdersInv
<1> QED
  BY <1>1, OrdersStep, ShapeHolds, PTL DEF Spec

(***************************************************************************)
(* The exchange takes no order twice: an order id is sent by one handler   *)
(* of one run, for a row whose state no other run takes up again.          *)
(***************************************************************************)
THEOREM TakenAtMostOnce == Spec => []OrderTakenAtMostOnce
<1>1. OrdersInv => OrderTakenAtMostOnce
  BY DEF OrdersInv
<1> QED
  BY <1>1, OrdersHold, PTL

(* Capital is released only when both exit orders have gone through. *)
THEOREM ClosedHasExited == Spec => []ClosedIsExited
<1>1. OrdersInv => ClosedIsExited
  BY DEF OrdersInv
<1> QED
  BY <1>1, OrdersHold, PTL

(***************************************************************************)
(* In dry run a handler that gives a position back with exactly one of the *)
(* two orders it sent filled has set the halt on it: its locals are what   *)
(* the store says, whichever leg the simulator left unfilled and whatever  *)
(* runs were cut short before.                                             *)
(***************************************************************************)
THEOREM HalfHedgeHalts == Spec => HalfDoneHalts
<1>1. ASSUME Shape, OrdersInv, [Next]_vars, NEW p \in PositionId,
             ~EnableLiveOrders, cur = p, cur' = NULL, pc' # "idle",
             \/ pc = "settle" /\ HalfDone(p, OpenLegs)
             \/ pc # "settle" /\ HalfDone(p, CloseLegs)
      PROVE  system_state'.halt_reason = p
  <2>1. pc \in Closing \cup Opening
    BY <1>1, Phases, StoreAssumption DEF Shape, TypeOK, InHand
  <2>2. SettleEntry \/ CloseRefused \/ SettleClose
    BY <1>1, <2>1, Phases, StoreAssumption
       DEF Next, RunStep, StartRun, Interrupt, BetweenRuns, vars, runVars, KeepPosition,
           BeginClose, NextToManage, ManageDone, CloseCleared, SubmitSpot, SubmitPerp,
           SubmitSpotClose, SubmitPerpClose, SubmitLeg, SkipCandidate, RefuseEntry,
           CreateEntry, NextToEnter, RunDone
  <2>3. ~ CloseRefused
    <3> SUFFICES ASSUME CloseRefused PROVE FALSE
      OBVIOUS
    <3>1. pc = "close_check"
      BY DEF CloseRefused
    <3>2. {tag \in CloseLegs : Filled(p, tag)} = {}
      BY <1>1, <3>1, NothingSentYet DEF OrdersInv
    <3> QED BY <1>1, <3>1, <3>2, FS_EmptySet DEF HalfDone
  <2>4. HalfDone(p, Side)
    <3>1. pc = "settle" => Side = OpenLegs
      BY DEF Side, Opening
    <3>2. pc = "close_settle" => Side = CloseLegs
      BY DEF Side, Opening, OpenLegs
    <3> QED BY <1>1, <2>2, <2>3, <3>1, <3>2 DEF SettleEntry, SettleClose, ExitOutcome
  <2>5. {tag \in Side : Filled(p, tag)} = legs
    BY <1>1, <2>1 DEF OrdersInv, LegsHold
  <2>6. Cardinality(legs) = 1
    BY <2>4, <2>5 DEF HalfDone
  <2>7. legs # {} /\ legs # OpenLegs /\ legs # CloseLegs
    <3>1. Cardinality({}) = 0
      BY FS_EmptySet
    <3>2. ASSUME NEW a, NEW b, a # b
          PROVE  Cardinality({a, b}) = 2
      <4>1. IsFiniteSet({a}) /\ Cardinality({a}) = 1
        BY FS_Singleton
      <4>2. Cardinality({a} \cup {b}) = Cardinality({a}) + 1
        BY <3>2, <4>1, FS_AddElement
      <4>3. {a} \cup {b} = {a, b}
        OBVIOUS
      <4> QED BY <4>1, <4>2, <4>3
    <3>3. Cardinality(OpenLegs) = 2 /\ Cardinality(CloseLegs) = 2
      BY <3>2 DEF OpenLegs, CloseLegs
    <3> QED BY <2>6, <3>1, <3>3
  <2>8. SetHaltReason(p)
    BY <1>1, <2>2, <2>3, <2>7 DEF SettleEntry, SettleClose, ExitOutcome
  <2>9. system_state \in SystemState
    BY <1>1 DEF Shape, TypeOK, StoreTypeOK
  <2> QED BY <2>8, <2>9 DEF SetHaltReason, SystemState
<1>2. Shape /\ OrdersInv /\ [Next]_vars =>
         \A p \in PositionId :
             (~EnableLiveOrders /\ cur = p /\ cur' = NULL /\ pc' # "idle"
                /\ \/ pc = "settle" /\ HalfDone(p, OpenLegs)
                   \/ pc # "settle" /\ HalfDone(p, CloseLegs))
             => system_state'.halt_reason = p
  BY <1>1
<1> QED
  BY <1>2, ShapeHolds, OrdersHold, PTL DEF Spec, HalfDoneHalts

(* A position whose exit has begun to be sent is never put back as open. *)
THEOREM ReopenedIsUntouched == Spec => ReopenedOnlyUntouched
<1>1. ASSUME Shape, OrdersInv, [Next]_vars, NEW p \in PositionId,
             position[p].state = "closing", position'[p].state = "open"
      PROVE  \A tag \in CloseLegs : <<p, tag>> \notin SeenOrderIds
                                      /\ venue[<<p, tag>>] = 0
  <2>1. position'[p] # position[p]
    BY <1>1
  <2>2. p = cur /\ CloseRefused
    BY <1>1, <2>1, RowWrites DEF RowWrite, OthersWrite, Inserts, Moves, LiveState
  <2> QED BY <1>1, <2>2, NothingSentYet DEF CloseRefused, OrdersInv, Untouched
<1>2. Shape /\ OrdersInv /\ [Next]_vars =>
         \A p \in PositionId :
             position[p].state = "closing" /\ position'[p].state = "open"
             => \A tag \in CloseLegs : <<p, tag>> \notin SeenOrderIds
                                         /\ venue[<<p, tag>>] = 0
  BY <1>1
<1> QED
  BY <1>2, ShapeHolds, OrdersHold, PTL DEF Spec, ReopenedOnlyUntouched

-----------------------------------------------------------------------------
(* The cached total against the rows *)

(* Closing a row takes what it had from the counter and from the sum. *)
LEMMA CloseReleases ==
    ASSUME Shape, Shape', CounterNeverOverstates, NEW p \in NotClosed, ClosePosition(p, 0)
    PROVE  CounterNeverOverstates'
<1>1. position \in Table /\ position' \in Table /\ NotClosed \in SUBSET PositionId
      /\ NotClosed' \in SUBSET PositionId /\ p \in PositionId
  BY DEF Shape, TypeOK, StoreTypeOK, Table, NotClosed
<1>2. /\ position'[p].state = "closed"
      /\ \A q \in PositionId \ {p} : position'[q] = position[q]
  BY <1>1, CloseWrites
<1>3. NotClosed = NotClosed' \cup {p} /\ p \notin NotClosed'
  BY <1>1, <1>2 DEF NotClosed, LiveState
<1>4. SumNotional(position, NotClosed) = SumNotional(position, NotClosed') + position[p].notional
  BY <1>1, <1>3, SumAdd
<1>5. SumNotional(position', NotClosed') = SumNotional(position, NotClosed')
  BY <1>1, <1>2, <1>3, SumSame
<1>6. /\ SumNotional(position, NotClosed') \in Nat /\ position[p].notional \in Nat
      /\ system_state.total_at_risk_usd \in Nat
  BY <1>1, SumType, StoreAssumption
     DEF Table, PositionRow, Shape, TypeOK, StoreTypeOK, SystemState
<1> DEFINE rest == system_state.total_at_risk_usd - position[p].notional
           left == IF rest < 0 THEN 0 ELSE rest
<1>7. system_state'.total_at_risk_usd = left
  <2>1. system_state \in SystemState
    BY DEF Shape, TypeOK, StoreTypeOK
  <2> HIDE DEF left
  <2>2. system_state' = [system_state EXCEPT !.total_at_risk_usd = left,
                                             !.cumulative_pnl = @ + 0]
    BY DEF ClosePosition, left
  <2> QED BY <2>1, <2>2 DEF SystemState
<1>8. system_state.total_at_risk_usd <= SumNotional(position, NotClosed)
  BY DEF CounterNeverOverstates, Notional
<1>9. left <= SumNotional(position', NotClosed')
  <2> DEFINE n == SumNotional(position, NotClosed')
  <2>1. n \in Nat /\ system_state.total_at_risk_usd <= n + position[p].notional
    BY <1>4, <1>6, <1>8
  <2> HIDE DEF n
  <2>2. left <= n
    BY <1>6, <2>1
  <2> QED BY <1>5, <2>2 DEF n
<1> QED
  BY <1>7, <1>9 DEF CounterNeverOverstates, Notional

LEMMA ElsewhereSteps ==
    ASSUME NEW p, Elsewhere(p)
    PROVE  \/ ReconcileAtRisk
           \/ \E usd : SetDynamicAllocation(L1Funding, usd)
           \/ SetHaltReason(NULL)
           \/ \E n : CreatePosition(p, L2Cascade, n, NULL)
           \/ p \in OpenPositions(L2Cascade) /\ ClosePosition(p, 0)
BY DEF Elsewhere

LEMMA CounterStep == Shape /\ CounterNeverOverstates /\ [Next]_vars => CounterNeverOverstates'
<1> SUFFICES ASSUME Shape, CounterNeverOverstates, [Next]_vars PROVE CounterNeverOverstates'
  OBVIOUS
<1>1. Shape' /\ position \in Table /\ position' \in Table
      /\ NotClosed \in SUBSET PositionId /\ NotClosed' \in SUBSET PositionId
  <2>1. Shape'
    BY ShapeStep
  <2> QED BY <2>1 DEF Shape, TypeOK, StoreTypeOK, Table, NotClosed
<1>2. /\ SumNotional(position, NotClosed) \in Nat
      /\ SumNotional(position', NotClosed') \in Nat
      /\ system_state.total_at_risk_usd \in Nat
      /\ system_state.total_at_risk_usd <= SumNotional(position, NotClosed)
  BY <1>1, SumType DEF CounterNeverOverstates, Notional, Shape, TypeOK, StoreTypeOK, SystemState
<1>3. ASSUME ReconcileAtRisk
      PROVE  CounterNeverOverstates'
  <2>1. NotClosed' = NotClosed /\ UNCHANGED position
    BY <1>3 DEF ReconcileAtRisk, NotClosed
  <2>2. SumNotional(position, Live) <= SumNotional(position, NotClosed)
    <3>1. Live \in SUBSET NotClosed
      BY DEF Live, NotClosed
    <3> QED BY <1>1, <3>1, SumMonotone
  <2>3. system_state'.total_at_risk_usd = SumNotional(position, Live)
    BY <1>3 DEF ReconcileAtRisk, TotalAtRisk, Notional, Shape, TypeOK, StoreTypeOK, SystemState
  <2> QED BY <2>1, <2>2, <2>3 DEF CounterNeverOverstates, Notional
<1>4. ASSUME NEW p \in NotClosed, ClosePosition(p, 0)
      PROVE  CounterNeverOverstates'
  BY <1>1, <1>4, CloseReleases
<1>5. ASSUME system_state'.total_at_risk_usd = system_state.total_at_risk_usd,
             \A q \in PositionId : position'[q] # position[q] => RowWrite(q),
             \A q \in PositionId : position'[q].state = "closed"
                                     => position[q].state = "closed"
      PROVE  CounterNeverOverstates'
  <2>1. \A q \in NotClosed : q \in NotClosed' /\ position'[q].notional = position[q].notional
    BY <1>5 DEF NotClosed, RowWrite, OthersWrite, Inserts, Moves, KeepsRow, LiveState
  <2>2. SumNotional(position, NotClosed) <= SumNotional(position', NotClosed')
    BY <1>1, <2>1, SumShrinks
  <2> QED BY <1>2, <1>5, <2>2 DEF CounterNeverOverstates, Notional
<1>6. \A q \in PositionId : position'[q] # position[q] => RowWrite(q)
  BY RowWrites
<1>7. CASE SettleClose /\ ClosePosition(cur, 0)
  <2>1. cur \in NotClosed
    BY <1>7, InHandFacts DEF SettleClose, ExitOutcome, Shape, RowInHand, Closing, NotClosed
  <2> QED BY <1>4, <1>7, <2>1
<1>8. CASE ReconcileAtRisk \/ \E p \in OpenPositions(L2Cascade) : ClosePosition(p, 0)
  BY <1>3, <1>4, <1>8 DEF OpenPositions, Live, NotClosed
<1>9. CASE ~ \/ SettleClose /\ ClosePosition(cur, 0)
             \/ ReconcileAtRisk
             \/ \E p \in OpenPositions(L2Cascade) : ClosePosition(p, 0)
  <2>1. system_state'.total_at_risk_usd = system_state.total_at_risk_usd
    <3>1. \A r : SetHaltReason(r) =>
              system_state'.total_at_risk_usd = system_state.total_at_risk_usd
      BY DEF SetHaltReason
    <3>2. \A l, usd : SetDynamicAllocation(l, usd) =>
              system_state'.total_at_risk_usd = system_state.total_at_risk_usd
      BY DEF SetDynamicAllocation
    <3>3. \/ UNCHANGED system_state
          \/ \E r : SetHaltReason(r)
          \/ \E l, usd : SetDynamicAllocation(l, usd)
      <4>1. CASE SettleClose
        <5>1. ~ClosePosition(cur, 0)
          BY <1>9, <4>1
        <5>2. SetHaltReason(cur) \/ UNCHANGED storeVars
          BY <4>1, <5>1 DEF SettleClose, ExitOutcome, FundingCollected
        <5> QED BY <5>2 DEF storeVars
      <4>2. CASE SettleEntry
        <5>1. \/ MarkPositionOpen(cur) \/ SetHaltReason(cur) \/ UNCHANGED storeVars
          BY <4>2 DEF SettleEntry
        <5>2. MarkPositionOpen(cur) => UNCHANGED system_state
          BY DEF MarkPositionOpen, SetPositionState
        <5> QED BY <5>1, <5>2 DEF storeVars
      <4>3. CASE BetweenRuns
        <5>1. PICK p \in PositionId : Elsewhere(p)
          BY <4>3 DEF BetweenRuns
        <5>2. \/ \E usd : SetDynamicAllocation(L1Funding, usd)
              \/ SetHaltReason(NULL)
              \/ \E n : CreatePosition(p, L2Cascade, n, NULL)
          BY <1>9, <5>1, ElsewhereSteps, Zenon
        <5>3. \A n : CreatePosition(p, L2Cascade, n, NULL) => UNCHANGED system_state
          BY DEF CreatePosition
        <5> QED BY <5>2, <5>3
      <4>4. CASE ~(SettleClose \/ SettleEntry \/ BetweenRuns)
        BY <4>4 DEF Next, RunStep, StartRun, Interrupt, vars, storeVars, KeepPosition,
           BeginClose, ManageDone, CloseCleared, CloseRefused, SubmitSpot, SubmitPerp,
           SubmitSpotClose, SubmitPerpClose, SubmitLeg, SimulateLeg, PlaceLeg,
           PlaceLegFails, RecordFill, SkipCandidate, RefuseEntry, CreateEntry, RunDone,
           CreatePosition, MarkPositionClosing, MarkPositionOpen, SetPositionState
      <4> QED BY <4>1, <4>2, <4>3, <4>4
    <3> QED BY <3>1, <3>2, <3>3
  <2>2. \A q \in PositionId : position'[q].state = "closed" => position[q].state = "closed"
    <3> SUFFICES ASSUME NEW q \in PositionId, position'[q].state = "closed",
                        position'[q] # position[q]
                 PROVE  FALSE
      OBVIOUS
    <3>1. \/ SettleClose /\ q = cur /\ ClosePosition(q, 0)
          \/ pc = "idle" /\ position[q].state \in LiveState
      BY <1>6 DEF RowWrite, OthersWrite, Inserts, Moves
    <3>2. pc = "idle" /\ position[q].state \in LiveState
      BY <1>9, <3>1
    <3>3. PICK p \in PositionId : Elsewhere(p)
      BY <3>2 DEF Next, RunStep, StartRun, Interrupt, BetweenRuns, vars, storeVars,
         KeepPosition, BeginClose, NextToManage, ManageDone, CloseCleared, CloseRefused,
         SettleClose, ExitOutcome, SettleEntry, SubmitSpot, SubmitPerp, SubmitSpotClose,
         SubmitPerpClose, SubmitLeg, SkipCandidate, RefuseEntry, CreateEntry, NextToEnter,
         RunDone
    <3>4. PICK n \in OtherSizes : CreatePosition(p, L2Cascade, n, NULL)
      BY <1>9, <3>3 DEF Elsewhere, ReconcileAtRisk, SetDynamicAllocation, SetHaltReason
    <3>5. n \in 0..MaxNotional /\ L2Cascade \in Layer
      BY L1Assumption, SafeguardsAssumption, StoreAssumption DEF Layer
    <3>6. /\ position[p].state = "absent"
          /\ position'[p] = [state |-> "opening", layer |-> L2Cascade,
                             notional |-> n, realized |-> 0, metadata |-> NULL]
          /\ \A r \in PositionId \ {p} : position'[r] = position[r]
      BY <1>1, <3>4, <3>5, CreateWrites
    <3> QED BY <3>2, <3>6 DEF LiveState
  <2> QED BY <1>5, <1>6, <2>1, <2>2
<1> QED
  BY <1>7, <1>8, <1>9

(***************************************************************************)
(* The cached total never claims more than the rows that are not closed,   *)
(* however closes that clamp it at zero and reconciliations that leave a   *)
(* closing row out follow each other.                                      *)
(***************************************************************************)
THEOREM CounterNeverTooHigh == Spec => []CounterNeverOverstates
<1>1. Init => CounterNeverOverstates
  <2> SUFFICES ASSUME Init PROVE CounterNeverOverstates
    OBVIOUS
  <2>1. NotClosed \in SUBSET PositionId /\ position \in Table
    BY StoreAssumption DEF NotClosed, Init, StoreInit, NoRow, Table, PositionRow,
       PositionState, Layer
  <2>2. Notional(NotClosed) \in Nat
    BY <2>1, SumType DEF Notional
  <2> QED BY <2>2 DEF Init, StoreInit, CounterNeverOverstates
<1> QED
  BY <1>1, CounterStep, ShapeHolds, PTL DEF Spec
=============================================================================
