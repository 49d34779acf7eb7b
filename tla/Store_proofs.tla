---------------------------- MODULE Store_proofs ----------------------------
(***************************************************************************)
(* What SUM(notional_usd) does when rows join and leave it, for any table  *)
(* of rows: the arithmetic behind every claim about the deployed-capital   *)
(* caps.                                                                   *)
(***************************************************************************)
EXTENDS Store, WellFoundedInduction, FiniteSetTheorems, TLAPS

Table == [PositionId -> PositionRow]

(* A sum over a set of rows is a natural number. *)
LEMMA SumType ==
    ASSUME NEW t \in Table, NEW S \in SUBSET PositionId
    PROVE  /\ IsFiniteSet(Units(t, S))
           /\ SumNotional(t, S) \in Nat
<1>1. IsFiniteSet(S)
  BY StoreAssumption, FS_Subset
<1>2. IsFiniteSet(1..MaxNotional)
  BY StoreAssumption, FS_Interval
<1>3. IsFiniteSet(S \X (1..MaxNotional))
  BY <1>1, <1>2, FS_Product
<1>4. Units(t, S) \in SUBSET (S \X (1..MaxNotional))
  BY DEF Units
<1>5. IsFiniteSet(Units(t, S))
  BY <1>3, <1>4, FS_Subset
<1> QED
  BY <1>5, FS_CardinalityType DEF SumNotional

(* A sum depends on nothing but the notionals of the rows in it. *)
LEMMA SumSame ==
    ASSUME NEW t, NEW u, NEW S,
           \A p \in S : t[p].notional = u[p].notional
    PROVE  SumNotional(t, S) = SumNotional(u, S)
BY DEF SumNotional, Units

(* The units of one row are as many as its notional. *)
LEMMA SumOne ==
    ASSUME NEW t \in Table, NEW p \in PositionId
    PROVE  SumNotional(t, {p}) = t[p].notional
<1> DEFINE n == t[p].notional
<1>1. n \in 0..MaxNotional
  BY DEF Table, PositionRow
<1>2. Units(t, {p}) = {p} \X (1..n)
  <2>1. ASSUME NEW x \in Units(t, {p}) PROVE x \in {p} \X (1..n)
    BY <2>1, <1>1, StoreAssumption DEF Units
  <2>2. ASSUME NEW x \in {p} \X (1..n) PROVE x \in Units(t, {p})
    BY <2>2, <1>1, StoreAssumption DEF Units
  <2> QED BY <2>1, <2>2
<1>3. IsFiniteSet({p}) /\ Cardinality({p}) = 1
  BY FS_Singleton
<1>4. IsFiniteSet(1..n) /\ Cardinality(1..n) = n
  <2> HIDE DEF n
  <2>1. n \in Nat
    BY <1>1, StoreAssumption
  <2>2. /\ IsFiniteSet(1..n)
        /\ Cardinality(1..n) = IF 1 > n THEN 0 ELSE n - 1 + 1
    BY <2>1, FS_Interval
  <2> QED BY <2>1, <2>2
<1>5. Cardinality({p} \X (1..n)) = Cardinality({p}) * Cardinality(1..n)
  BY <1>3, <1>4, FS_Product
<1>6. 1 * n = n
  BY <1>1
<1> QED
  BY <1>2, <1>3, <1>4, <1>5, <1>6, Zenon DEF SumNotional

(* Adding a row to a sum adds its notional. *)
LEMMA SumAdd ==
    ASSUME NEW t \in Table, NEW S \in SUBSET PositionId,
           NEW p \in PositionId, p \notin S
    PROVE  SumNotional(t, S \cup {p}) = SumNotional(t, S) + t[p].notional
<1>1. Units(t, S \cup {p}) = Units(t, S) \cup Units(t, {p})
  BY DEF Units
<1>2. Units(t, S) \cap Units(t, {p}) = {}
  BY DEF Units
<1>3. IsFiniteSet(Units(t, S)) /\ IsFiniteSet(Units(t, {p}))
  BY SumType
<1>4. Cardinality(Units(t, S) \cup Units(t, {p}))
        = Cardinality(Units(t, S)) + Cardinality(Units(t, {p}))
          - Cardinality(Units(t, S) \cap Units(t, {p}))
  BY <1>3, FS_Union
<1>5. Cardinality({}) = 0
  BY FS_EmptySet
<1>6. Cardinality(Units(t, S)) \in Nat /\ Cardinality(Units(t, {p})) \in Nat
  BY SumType DEF SumNotional
<1>7. Cardinality(Units(t, S) \cup Units(t, {p}))
        = Cardinality(Units(t, S)) + Cardinality(Units(t, {p}))
  <2>1. \A a, b \in Nat : a + b - 0 = a + b
    OBVIOUS
  <2>2. Cardinality(Units(t, S) \cap Units(t, {p})) = 0
    BY <1>2, <1>5, Zenon
  <2> QED BY <1>4, <1>6, <2>1, <2>2
<1>8. Cardinality(Units(t, {p})) = t[p].notional
  BY SumOne DEF SumNotional
<1> QED
  BY <1>1, <1>7, <1>8 DEF SumNotional

(* Fewer rows, a smaller sum. *)
LEMMA SumMonotone ==
    ASSUME NEW t \in Table, NEW S \in SUBSET PositionId, NEW R \in SUBSET S
    PROVE  SumNotional(t, R) <= SumNotional(t, S)
<1>1. Units(t, R) \in SUBSET Units(t, S)
  BY DEF Units
<1> QED
  BY <1>1, SumType, FS_Subset DEF SumNotional

(* The same for two states of the table that agree on the rows left. *)
LEMMA SumShrinks ==
    ASSUME NEW t \in Table, NEW u \in Table, NEW S \in SUBSET PositionId,
           NEW R \in SUBSET S, \A p \in R : u[p].notional = t[p].notional
    PROVE  SumNotional(u, R) <= SumNotional(t, S)
<1>1. SumNotional(u, R) = SumNotional(t, R)
  BY SumSame
<1> QED
  BY <1>1, SumMonotone

-----------------------------------------------------------------------------
(* What the statements write *)

(* Marking a row changes the state of that row and nothing else. *)
LEMMA SetStateWrites ==
    ASSUME position \in Table, NEW p \in PositionId, NEW s \in PositionState,
           SetPositionState(p, s)
    PROVE  /\ position' \in Table
           /\ position'[p].state = s
           /\ \A q \in PositionId \ {p} : position'[q] = position[q]
           /\ \A q \in PositionId : /\ position'[q].layer = position[q].layer
                                    /\ position'[q].notional = position[q].notional
                                    /\ position'[q].metadata = position[q].metadata
<1>1. position' = [position EXCEPT ![p] = [position[p] EXCEPT !.state = s]]
  BY DEF SetPositionState
<1>2. [position[p] EXCEPT !.state = s] \in PositionRow
  BY DEF Table, PositionRow
<1>3. position' \in Table
  BY <1>1, <1>2 DEF Table
<1> QED
  BY <1>1, <1>2, <1>3 DEF Table, PositionRow

(* Inserting a row fills an absent id with an opening row. *)
LEMMA CreateWrites ==
    ASSUME position \in Table, NEW p \in PositionId, NEW l \in Layer,
           NEW n \in 0..MaxNotional, NEW md \in Metadata \cup {NULL},
           CreatePosition(p, l, n, md)
    PROVE  /\ position' \in Table
           /\ position[p].state = "absent"
           /\ position'[p] = [state |-> "opening", layer |-> l, notional |-> n,
                              realized |-> 0, metadata |-> md]
           /\ \A q \in PositionId \ {p} : position'[q] = position[q]
BY DEF CreatePosition, IsNextId, Table, PositionRow, PositionState

(* Closing a row changes its state and its realized profit. *)
LEMMA CloseWrites ==
    ASSUME position \in Table, NEW p \in PositionId, NEW r \in Int,
           ClosePosition(p, r)
    PROVE  /\ position' \in Table
           /\ position'[p].state = "closed"
           /\ \A q \in PositionId \ {p} : position'[q] = position[q]
           /\ \A q \in PositionId : /\ position'[q].layer = position[q].layer
                                    /\ position'[q].notional = position[q].notional
                                    /\ position'[q].metadata = position[q].metadata
<1>1. position' = [position EXCEPT ![p] =
                     [position[p] EXCEPT !.state = "closed", !.realized = r]]
  BY DEF ClosePosition
<1>2. [position[p] EXCEPT !.state = "closed", !.realized = r] \in PositionRow
  BY DEF Table, PositionRow, PositionState
<1>3. position' \in Table
  BY <1>1, <1>2 DEF Table
<1> QED
  BY <1>1, <1>2, <1>3 DEF Table, PositionRow

(* Every statement leaves a well typed store. *)
LEMMA StatementTypes ==
    ASSUME StoreTypeOK
    PROVE  /\ \A p \in PositionId, s \in PositionState :
                 SetPositionState(p, s) => StoreTypeOK'
           /\ \A p \in PositionId, l \in Layer, n \in 0..MaxNotional,
                 md \in Metadata \cup {NULL} :
                 CreatePosition(p, l, n, md) => StoreTypeOK'
           /\ \A p \in PositionId, r \in Int : ClosePosition(p, r) => StoreTypeOK'
           /\ \A id \in ClientOrderId, b \in BOOLEAN : RecordFill(id, b) => StoreTypeOK'
           /\ \A reason \in PositionId \cup {NULL} : SetHaltReason(reason) => StoreTypeOK'
           /\ \A l \in Layer, usd \in Nat : SetDynamicAllocation(l, usd) => StoreTypeOK'
           /\ ReconcileAtRisk => StoreTypeOK'
           /\ UNCHANGED storeVars => StoreTypeOK'
<1> USE DEF StoreTypeOK
<1>1. position \in Table
  BY DEF Table
<1>2. ASSUME NEW p \in PositionId, NEW s \in PositionState, SetPositionState(p, s)
      PROVE  StoreTypeOK'
  BY <1>1, <1>2, SetStateWrites DEF SetPositionState, Table
<1>3. ASSUME NEW p \in PositionId, NEW l \in Layer, NEW n \in 0..MaxNotional,
             NEW md \in Metadata \cup {NULL}, CreatePosition(p, l, n, md)
      PROVE  StoreTypeOK'
  BY <1>1, <1>3, CreateWrites DEF CreatePosition, Table
<1>4. ASSUME NEW p \in PositionId, NEW r \in Int, ClosePosition(p, r)
      PROVE  StoreTypeOK'
  <2>1. position[p].notional \in Nat
    BY <1>1, StoreAssumption DEF Table, PositionRow
  <2>2. system_state' \in SystemState
    <3> DEFINE rest == system_state.total_at_risk_usd - position[p].notional
               left == IF rest < 0 THEN 0 ELSE rest
    <3>1. left \in Nat /\ system_state.cumulative_pnl + r \in Int
      BY <2>1 DEF SystemState
    <3>2. system_state' = [system_state EXCEPT
              !.total_at_risk_usd = left,
              !.cumulative_pnl = system_state.cumulative_pnl + r]
      BY <1>4 DEF ClosePosition
    <3> HIDE DEF left
    <3> QED BY <3>1, <3>2 DEF SystemState
  <2> QED BY <1>1, <1>4, <2>2, CloseWrites DEF ClosePosition, Table
<1>5. ASSUME NEW id \in ClientOrderId, NEW b \in BOOLEAN, RecordFill(id, b)
      PROVE  StoreTypeOK'
  BY <1>5 DEF RecordFill, FillRow
<1>6. ASSUME NEW reason \in PositionId \cup {NULL}, SetHaltReason(reason)
      PROVE  StoreTypeOK'
  BY <1>6 DEF SetHaltReason, SystemState
<1>7. ASSUME NEW l \in Layer, NEW usd \in Nat, SetDynamicAllocation(l, usd)
      PROVE  StoreTypeOK'
  BY <1>7 DEF SetDynamicAllocation, SystemState
<1>8. ASSUME ReconcileAtRisk PROVE StoreTypeOK'
  <2>1. TotalAtRisk \in Nat
    BY <1>1, SumType DEF TotalAtRisk, Notional, Live
  <2> QED BY <1>8, <2>1 DEF ReconcileAtRisk, SystemState
<1>9. ASSUME UNCHANGED storeVars PROVE StoreTypeOK'
  BY <1>9 DEF storeVars
<1> QED
  BY <1>2, <1>3, <1>4, <1>5, <1>6, <1>7, <1>8, <1>9

-----------------------------------------------------------------------------
(* What the statements do to the capital at risk *)

(* A row that joins the live ones adds its notional. *)
LEMMA RiskGains ==
    ASSUME position \in Table, position' \in Table, NEW p \in PositionId,
           p \notin Live, p \in Live',
           \A q \in PositionId \ {p} : position'[q] = position[q]
    PROVE  TotalAtRisk' = TotalAtRisk + position'[p].notional
<1>1. Live \in SUBSET PositionId /\ Live' = Live \cup {p}
  BY DEF Live
<1>2. SumNotional(position', Live \cup {p})
        = SumNotional(position', Live) + position'[p].notional
  BY <1>1, SumAdd
<1>3. SumNotional(position', Live) = SumNotional(position, Live)
  BY <1>1, SumSame
<1> QED
  BY <1>1, <1>2, <1>3 DEF TotalAtRisk, Notional

(* The same within one layer, for a row that joins the live ones there. *)
LEMMA LayerGains ==
    ASSUME position \in Table, position' \in Table, NEW l, NEW p \in PositionId,
           p \notin OpenPositions(l), p \in OpenPositions(l)',
           \A q \in PositionId \ {p} : position'[q] = position[q]
    PROVE  LayerDeployed(l)' = LayerDeployed(l) + position'[p].notional
<1>1. /\ OpenPositions(l) \in SUBSET PositionId
      /\ OpenPositions(l)' = OpenPositions(l) \cup {p}
  BY DEF OpenPositions, Live
<1>2. SumNotional(position', OpenPositions(l) \cup {p})
        = SumNotional(position', OpenPositions(l)) + position'[p].notional
  BY <1>1, SumAdd
<1>3. SumNotional(position', OpenPositions(l)) = SumNotional(position, OpenPositions(l))
  BY <1>1, SumSame
<1> QED
  BY <1>1, <1>2, <1>3 DEF LayerDeployed, Notional

(* A row that leaves them takes its notional along. *)
LEMMA RiskLoses ==
    ASSUME position \in Table, position' \in Table, NEW p \in PositionId,
           p \in Live, p \notin Live',
           \A q \in PositionId \ {p} : position'[q] = position[q]
    PROVE  TotalAtRisk = TotalAtRisk' + position[p].notional
<1>1. Live' \in SUBSET PositionId /\ Live = Live' \cup {p}
  BY DEF Live
<1>2. SumNotional(position, Live' \cup {p})
        = SumNotional(position, Live') + position[p].notional
  BY <1>1, SumAdd
<1>3. SumNotional(position', Live') = SumNotional(position, Live')
  BY <1>1, SumSame
<1> QED
  BY <1>1, <1>2, <1>3 DEF TotalAtRisk, Notional

(* Where no row joins and no notional moves, no sum grows. *)
LEMMA NothingGains ==
    ASSUME position \in Table, position' \in Table, Live' \subseteq Live,
           \A q \in PositionId : /\ position'[q].notional = position[q].notional
                                 /\ q \in Live' => position'[q].layer = position[q].layer
    PROVE  /\ TotalAtRisk' <= TotalAtRisk
           /\ \A l : LayerDeployed(l)' <= LayerDeployed(l)
<1>1. /\ Live \in SUBSET PositionId /\ Live' \in SUBSET Live
      /\ \A l : /\ OpenPositions(l) \in SUBSET PositionId
                /\ OpenPositions(l)' \in SUBSET OpenPositions(l)
  BY DEF OpenPositions, Live
<1>2. SumNotional(position', Live') <= SumNotional(position, Live)
  BY <1>1, SumShrinks DEF Live
<1>3. ASSUME NEW l
      PROVE  SumNotional(position', OpenPositions(l)') <= SumNotional(position, OpenPositions(l))
  <2>1. \A q \in OpenPositions(l)' : position'[q].notional = position[q].notional
    BY <1>1
  <2> QED BY <1>1, <2>1, SumShrinks
<1> QED
  BY <1>2, <1>3 DEF TotalAtRisk, LayerDeployed, Notional

(* A write that moves no row in or out, and no notional, moves no sum. *)
LEMMA RiskStays ==
    ASSUME Live' = Live,
           \A q \in PositionId : position'[q].notional = position[q].notional
    PROVE  TotalAtRisk' = TotalAtRisk
<1>1. SumNotional(position', Live) = SumNotional(position, Live)
  BY SumSame DEF Live
<1> QED
  BY <1>1 DEF TotalAtRisk, Notional

-----------------------------------------------------------------------------
(* Numbers *)

(* Every set of naturals that is not empty has a least element. *)
Below == {pair \in Nat \X Nat : pair[1] < pair[2]}

LEMMA LeastOf ==
    ASSUME NEW S \in SUBSET Nat, S # {}
    PROVE  \E n \in S : \A m \in S : n <= m
<1>1. IsWellFoundedOn(Below, Nat)
  BY NatLessThanWellFounded DEF OpToRel, Below
<1>2. PICK n \in S : \A m \in S : <<m, n>> \notin Below
  BY <1>1, WFMin
<1>3. \A m \in S : ~(m < n)
  BY <1>2 DEF Below
<1> QED
  BY <1>3
=============================================================================
