--------------------------- MODULE System_proofs ---------------------------
(***************************************************************************)
(* The whole of Layers 1 and 2 under the engine, for every number of rows, *)
(* pairs, symbols, designs and caps: the counter of profits, and that each *)
(* layer finds in the other no more than its own specification lets happen *)
(* between two of its runs.                                                *)
(***************************************************************************)
EXTENDS System, FiniteSetTheorems, TLAPS

(* What is proved of each layer, of the store as that layer sees it. *)
V1 == INSTANCE L1Executor_proofs
        WITH pc <- l1_pc, held <- l1_held, cur <- l1_cur, OrderTag <- L1Tag,
             Metadata <- Pair, DynamicAllocs <- {},
             OtherSizes <- 1..MaxPerPosition,
             position <- PositionBut("l2_cascade"), fill <- FillOf(L1Tag),
             system_state <- StateBut("l2_cascade")

V2 == INSTANCE L2Executor_proofs
        WITH pc <- l2_pc, held <- l2_held, cur <- l2_cur, OrderTag <- L2Tag,
             Metadata <- Rung, DynamicAllocs <- {},
             OtherSizes <- 1..MaxPerPosition,
             position <- PositionBut("l1_funding"), fill <- FillOf(L2Tag),
             system_state <- StateBut("l1_funding")

(* The store as it is. *)
S == INSTANCE Store_proofs
        WITH Metadata <- Pair \cup Rung, OrderTag <- L1Tag \cup L2Tag

-----------------------------------------------------------------------------
(* What the instances assume *)

LEMMA FiniteSame ==
    \A T : /\ V1!IsFiniteSet(T) <=> IsFiniteSet(T)
           /\ V2!IsFiniteSet(T) <=> IsFiniteSet(T)
           /\ S!IsFiniteSet(T) <=> IsFiniteSet(T)
BY DEF IsFiniteSet, V1!IsFiniteSet, V2!IsFiniteSet, S!IsFiniteSet

LEMMA CardinalitySame ==
    \A T : /\ V1!Cardinality(T) = Cardinality(T)
           /\ V2!Cardinality(T) = Cardinality(T)
           /\ S!Cardinality(T) = Cardinality(T)
           /\ L1!Cardinality(T) = Cardinality(T)
           /\ L2!Cardinality(T) = Cardinality(T)
<1> SUFFICES ASSUME NEW T
             PROVE  /\ V1!Cardinality(T) = Cardinality(T)
                    /\ V2!Cardinality(T) = Cardinality(T)
                    /\ S!Cardinality(T) = Cardinality(T)
                    /\ L1!Cardinality(T) = Cardinality(T)
                    /\ L2!Cardinality(T) = Cardinality(T)
  OBVIOUS
<1>1. V1!Cardinality(T) = Cardinality(T)
  BY DEF Cardinality, V1!Cardinality
<1>2. V2!Cardinality(T) = Cardinality(T)
  BY DEF Cardinality, V2!Cardinality
<1>3. S!Cardinality(T) = Cardinality(T)
  BY DEF Cardinality, S!Cardinality
<1>4. L1!Cardinality(T) = Cardinality(T)
  BY DEF Cardinality, L1!Cardinality
<1>5. L2!Cardinality(T) = Cardinality(T)
  BY DEF Cardinality, L2!Cardinality
<1> QED BY <1>1, <1>2, <1>3, <1>4, <1>5

LEMMA StoreAssumed ==
    /\ V1!IsFiniteSet(PositionId) /\ V2!IsFiniteSet(PositionId) /\ S!IsFiniteSet(PositionId)
    /\ PositionId \subseteq Nat \ {0}
    /\ MaxNotional \in Nat \ {0}
    /\ NULL \notin PositionId /\ NULL \notin Int
BY FiniteSame, SystemAssumption

LEMMA L1Assumed ==
    /\ Pair \subseteq Nat /\ V1!IsFiniteSet(Pair)
    /\ MinPosition \in Nat \ {0}
    /\ {} \subseteq Nat
    /\ 1..MaxPerPosition \subseteq 1..MaxPerPosition
    /\ DOMAIN StaticAlloc = V1!Layer
    /\ MaxPerPosition <= MaxNotional
    /\ L1Tag = {"spot", "perp", "spot_close", "perp_close"}
    /\ Pair = Pair
<1>1. V1!Layer = L1!Layer
  BY DEF V1!Layer, L1!Layer, V1!L1Funding, L1!L1Funding, V1!L2Cascade, L1!L2Cascade,
     V1!L3Tail, L1!L3Tail
<1> QED BY <1>1, FiniteSame, SystemAssumption DEF L1Tag

LEMMA L2Assumed ==
    /\ Symbol \subseteq Nat /\ V2!IsFiniteSet(Symbol)
    /\ Configs \subseteq V2!Config /\ Configs # {}
    /\ MinPosition \in Nat \ {0}
    /\ {} \subseteq Nat
    /\ 1..MaxPerPosition \subseteq 1..MaxPerPosition
    /\ DOMAIN StaticAlloc = V2!Layer
    /\ MaxPerPosition <= MaxNotional
    /\ L2Tag = {"pending", "fill"} \cup V2!ExitReason
    /\ \A c \in Configs :
          LET l == c.design.levels IN
          /\ V2!RungMetadata({c.design}, 1..l) \subseteq Rung
          /\ Share[l][l] \in Nat /\ Share[l] \in [0..l -> 0..Share[l][l]]
          /\ Share[l][0] = 0
          /\ \A n \in 1..l :
                /\ Share[l][n - 1] < Share[l][n]
                /\ Share[l][l] <= MinPosition * (Share[l][n] - Share[l][n - 1])
<1>1. /\ V2!Layer = L1!Layer /\ V2!Config = L2!Config
  BY DEF V2!Layer, L1!Layer, V2!L1Funding, L1!L1Funding, V2!L2Cascade, L1!L2Cascade,
     V2!L3Tail, L1!L3Tail, V2!Config, L2!Config, V2!Design, L2!Design
<1>2. /\ Symbol \subseteq Nat /\ V2!IsFiniteSet(Symbol)
      /\ Configs \subseteq V2!Config /\ Configs # {}
      /\ MinPosition \in Nat \ {0}
      /\ {} \subseteq Nat
      /\ 1..MaxPerPosition \subseteq 1..MaxPerPosition
      /\ DOMAIN StaticAlloc = V2!Layer
      /\ MaxPerPosition <= MaxNotional
      /\ L2Tag = {"pending", "fill"} \cup V2!ExitReason
  BY <1>1, FiniteSame, SystemAssumption DEF L2Tag, V2!ExitReason
<1>3. \A c \in Configs : V2!RungMetadata({c.design}, 1..c.design.levels) \subseteq Rung
  <2> SUFFICES ASSUME NEW c \in Configs
               PROVE  V2!RungMetadata({c.design}, 1..c.design.levels) \subseteq Rung
    OBVIOUS
  <2>1. c.design.levels \in Nat /\ c.design.levels <= MaxNotional
    BY SystemAssumption DEF L2!Config, L2!Design
  <2>2. 1..c.design.levels \subseteq 1..MaxNotional
    BY <2>1, SystemAssumption
  <2> QED BY <2>2 DEF V2!RungMetadata, V2!Phase, Rung
<1>4. \A c \in Configs :
          LET l == c.design.levels IN
          /\ V2!RungMetadata({c.design}, 1..l) \subseteq Rung
          /\ Share[l][l] \in Nat /\ Share[l] \in [0..l -> 0..Share[l][l]]
          /\ Share[l][0] = 0
          /\ \A n \in 1..l :
                /\ Share[l][n - 1] < Share[l][n]
                /\ Share[l][l] <= MinPosition * (Share[l][n] - Share[l][n - 1])
  BY <1>3, SystemAssumption, Zenon
<1> QED BY <1>2, <1>4

(* Layer 1 keeps its shape and its caps, whatever it sees happen. *)
LEMMA L1Keeps ==
    /\ V1!Init => V1!Shape /\ V1!CapInv
    /\ V1!Shape /\ [V1!Next]_V1!vars => V1!Shape'
    /\ V1!Shape /\ V1!CapInv /\ [V1!Next]_V1!vars => V1!CapInv'
<1>1. V1!Shape /\ [V1!Next]_V1!vars => V1!Shape'
  BY StoreAssumed, L1Assumed, SafeguardsAssumption, V1!ShapeStep, Zenon
<1>2. V1!Shape /\ V1!CapInv /\ [V1!Next]_V1!vars => V1!CapInv'
  BY StoreAssumed, L1Assumed, SafeguardsAssumption, V1!CapStep, Zenon
<1>3. V1!Init => V1!Shape
  BY StoreAssumed, L1Assumed, SafeguardsAssumption, V1!ShapeInit, Zenon
<1>4. V1!Init => V1!CapInv
  BY StoreAssumed, L1Assumed, SafeguardsAssumption, V1!CapInit, Zenon
<1> QED BY <1>1, <1>2, <1>3, <1>4

(* The same of Layer 2. *)
LEMMA L2Keeps ==
    /\ V2!Init => V2!Shape /\ V2!CapInv
    /\ V2!Shape /\ [V2!Next]_V2!vars => V2!Shape'
    /\ V2!Shape /\ V2!CapInv /\ [V2!Next]_V2!vars => V2!CapInv'
<1>1. V2!Shape /\ [V2!Next]_V2!vars => V2!Shape'
  BY StoreAssumed, L2Assumed, SafeguardsAssumption, V2!ShapeStep, Zenon
<1>2. V2!Shape /\ V2!CapInv /\ [V2!Next]_V2!vars => V2!CapInv'
  BY StoreAssumed, L2Assumed, SafeguardsAssumption, V2!CapStep, Zenon
<1>3. V2!Init => V2!Shape
  BY StoreAssumed, L2Assumed, SafeguardsAssumption, V2!ShapeInit, Zenon
<1>4. V2!Init => V2!CapInv
  BY StoreAssumed, L2Assumed, SafeguardsAssumption, V2!CapInit, Zenon
<1> QED BY <1>1, <1>2, <1>3, <1>4

(* An entry or a rung that passes is within the cap, and of an order's size. *)
LEMMA L1Fits ==
    ASSUME V1!Shape, NEW p \in PositionId, V1!CanEnter(p)
    PROVE  /\ V1!TotalAtRisk + V1!Budget <= MaxTotalDeployed
           /\ V1!Budget \in 1..MaxPerPosition /\ V1!Budget \in 0..MaxNotional
<1>1. V1!TotalAtRisk + V1!Budget <= MaxTotalDeployed
  BY StoreAssumed, L1Assumed, SafeguardsAssumption, V1!EntryFits, Zenon
<1>2. V1!Shape => V1!TypeOK
  BY DEF V1!Shape
<1>3. /\ V1!Budget \in Int
      /\ V1!Budget >= MinPosition => V1!Budget \in 0..MaxNotional
  BY <1>2, StoreAssumed, L1Assumed, SafeguardsAssumption, V1!BudgetType, Zenon
<1>4. V1!Budget >= MinPosition
  BY DEF V1!CanEnter
<1>5. V1!Budget <= MaxPerPosition
  <2> DEFINE rest == V1!LayerAlloc - V1!LayerDeployed(V1!L1Funding)
  <2>1. V1!Budget = IF rest < MaxPerPosition THEN rest ELSE MaxPerPosition
    BY DEF V1!Budget
  <2> HIDE DEF rest
  <2> QED BY <1>3, <2>1, SafeguardsAssumption
<1> QED BY <1>1, <1>3, <1>4, <1>5, SystemAssumption, SafeguardsAssumption

LEMMA L2Fits ==
    ASSUME V2!Shape, V2!CapInv, NEW p \in PositionId, V2!AtRung, V2!RungPasses(p)
    PROVE  /\ V2!TotalAtRisk + V2!RungSize <= MaxTotalDeployed
           /\ V2!RungSize \in 1..MaxPerPosition /\ V2!RungSize \in 0..MaxNotional
           /\ ladder.next \in 1..config.design.levels
<1>1. /\ V2!RungSize \in 1..MaxPerPosition /\ V2!RungSize \in 0..MaxNotional
      /\ ladder.next \in 1..config.design.levels
      /\ V2!UpTo(ladder.next - 1) \in Nat
      /\ ladder.at_risk + V2!UpTo(ladder.next - 1) + V2!RungSize <= MaxTotalDeployed
  BY StoreAssumed, L2Assumed, SafeguardsAssumption, V2!RungTypes, Zenon
<1>2. V2!TotalAtRisk <= ladder.at_risk + V2!UpTo(ladder.next - 1)
  BY DEF V2!CapInv, V2!AtRung, V2!Placing, V2!Spent
<1>3. V2!TotalAtRisk \in Nat /\ ladder.at_risk \in Nat
  <2>1. ladder.at_risk \in Nat
    BY DEF V2!Shape, V2!TypeOK
  <2>2. V2!TotalAtRisk \in Nat
    <3>1. PositionBut("l1_funding") \in V2!Table /\ V2!Live \in SUBSET PositionId
      BY DEF V2!Shape, V2!TypeOK, V2!StoreTypeOK, V2!Table, V2!Live
    <3>2. V2!SumNotional(PositionBut("l1_funding"), V2!Live) \in Nat
      BY <3>1, StoreAssumed, L2Assumed, SafeguardsAssumption, V2!SumType, Zenon
    <3> QED BY <3>2 DEF V2!TotalAtRisk, V2!Notional
  <2> QED BY <2>1, <2>2
<1>4. V2!TotalAtRisk + V2!RungSize <= MaxTotalDeployed
  BY <1>1, <1>2, <1>3, SafeguardsAssumption
<1> QED BY <1>1, <1>4

-----------------------------------------------------------------------------
(* What a layer reads of the store through the blur *)

(* A row of the other layer keeps its layer, its size and whether it is live. *)
LEMMA RowSeen ==
    ASSUME S!StoreTypeOK, NEW l, NEW p \in PositionId
    PROVE  /\ PositionBut(l)[p].layer = position[p].layer
           /\ PositionBut(l)[p].notional = position[p].notional
           /\ PositionBut(l)[p].state
                = IF p \in Rows(l) /\ position[p].state = "open"
                  THEN "opening" ELSE position[p].state
           /\ p \notin Rows(l) => PositionBut(l)[p] = position[p]
           /\ p \in Rows(l) =>
                PositionBut(l)[p] = [state    |-> IF position[p].state = "open"
                                                 THEN "opening" ELSE position[p].state,
                                    layer    |-> l,
                                    notional |-> position[p].notional,
                                    realized |-> 0,
                                    metadata |-> NULL]
<1>1. position[p] \in S!PositionRow
  BY DEF S!StoreTypeOK
<1>2. CASE p \in Rows(l)
  <2>1. PositionBut(l)[p] = Blurred(position[p]) /\ position[p].layer = l
    BY <1>2 DEF PositionBut, Rows
  <2>2. Blurred(position[p]) = [state    |-> IF position[p].state = "open"
                                             THEN "opening" ELSE position[p].state,
                                layer    |-> position[p].layer,
                                notional |-> position[p].notional,
                                realized |-> 0,
                                metadata |-> NULL]
    BY DEF Blurred
  <2> QED BY <1>2, <2>1, <2>2
<1>3. CASE p \notin Rows(l)
  BY <1>3 DEF PositionBut, Rows
<1> QED BY <1>2, <1>3

(* So nothing is hidden that a query or a sum would look at. *)
LEMMA QueriesSame ==
    ASSUME S!StoreTypeOK
    PROVE  /\ V1!Live = S!Live /\ V2!Live = S!Live
           /\ L1!Live = S!Live /\ L2!Live = S!Live
           /\ \A l : /\ V1!OpenPositions(l) = S!OpenPositions(l)
                     /\ V2!OpenPositions(l) = S!OpenPositions(l)
                     /\ L1!OpenPositions(l) = S!OpenPositions(l)
                     /\ L2!OpenPositions(l) = S!OpenPositions(l)
           /\ \A p \in PositionId : /\ V1!IsNextId(p) <=> S!IsNextId(p)
                                    /\ V2!IsNextId(p) <=> S!IsNextId(p)
                                    /\ L1!IsNextId(p) <=> S!IsNextId(p)
                                    /\ L2!IsNextId(p) <=> S!IsNextId(p)
<1>1. \A l, p : p \in PositionId =>
         /\ PositionBut(l)[p].layer = position[p].layer
         /\ PositionBut(l)[p].state \in {"opening", "open"}
               <=> position[p].state \in {"opening", "open"}
         /\ PositionBut(l)[p].state = "absent" <=> position[p].state = "absent"
  BY RowSeen
<1>2. /\ V1!Live = S!Live /\ V2!Live = S!Live
      /\ L1!Live = S!Live /\ L2!Live = S!Live
  BY <1>1 DEF V1!Live, V2!Live, L1!Live, L2!Live, S!Live, V1!LiveState, V2!LiveState,
     L1!LiveState, L2!LiveState, S!LiveState
<1>3. \A l : /\ V1!OpenPositions(l) = S!OpenPositions(l)
             /\ V2!OpenPositions(l) = S!OpenPositions(l)
             /\ L1!OpenPositions(l) = S!OpenPositions(l)
             /\ L2!OpenPositions(l) = S!OpenPositions(l)
  BY <1>1, <1>2 DEF V1!OpenPositions, V2!OpenPositions, L1!OpenPositions,
     L2!OpenPositions, S!OpenPositions, S!Live
<1>4. \A p \in PositionId : /\ V1!IsNextId(p) <=> S!IsNextId(p)
                            /\ V2!IsNextId(p) <=> S!IsNextId(p)
                            /\ L1!IsNextId(p) <=> S!IsNextId(p)
                            /\ L2!IsNextId(p) <=> S!IsNextId(p)
  BY <1>1 DEF V1!IsNextId, V2!IsNextId, L1!IsNextId, L2!IsNextId, S!IsNextId
<1> QED BY <1>2, <1>3, <1>4

LEMMA SumsSame ==
    ASSUME S!StoreTypeOK, NEW T \in SUBSET PositionId
    PROVE  /\ V1!Notional(T) = S!Notional(T)
           /\ V2!Notional(T) = S!Notional(T)
           /\ L1!Notional(T) = S!Notional(T)
           /\ L2!Notional(T) = S!Notional(T)
<1> DEFINE units(t) == {pu \in T \X (1..MaxNotional) : pu[2] <= t[pu[1]].notional}
<1>1. ASSUME NEW l PROVE units(PositionBut(l)) = units(position)
  <2>1. \A pu \in T \X (1..MaxNotional) :
            PositionBut(l)[pu[1]].notional = position[pu[1]].notional
    BY RowSeen
  <2> QED BY <2>1
<1>2. /\ S!Notional(T) = Cardinality(units(position))
      /\ L1!Notional(T) = Cardinality(units(position))
      /\ L2!Notional(T) = Cardinality(units(position))
  BY CardinalitySame DEF S!Notional, S!SumNotional, S!Units, L1!Notional, L1!SumNotional,
     L1!Units, L2!Notional, L2!SumNotional, L2!Units
<1>3. /\ V1!Notional(T) = Cardinality(units(PositionBut("l2_cascade")))
      /\ V2!Notional(T) = Cardinality(units(PositionBut("l1_funding")))
  BY CardinalitySame DEF V1!Notional, V1!SumNotional, V1!Units, V2!Notional,
     V2!SumNotional, V2!Units
<1> HIDE DEF units
<1> QED BY <1>1, <1>2, <1>3

LEMMA TotalsSame ==
    ASSUME S!StoreTypeOK
    PROVE  /\ V1!TotalAtRisk = S!TotalAtRisk /\ V2!TotalAtRisk = S!TotalAtRisk
           /\ L1!TotalAtRisk = S!TotalAtRisk /\ L2!TotalAtRisk = S!TotalAtRisk
           /\ \A l : /\ V1!LayerDeployed(l) = S!LayerDeployed(l)
                     /\ V2!LayerDeployed(l) = S!LayerDeployed(l)
                     /\ L1!LayerDeployed(l) = S!LayerDeployed(l)
                     /\ L2!LayerDeployed(l) = S!LayerDeployed(l)
<1>1. S!Live \in SUBSET PositionId /\ \A l : S!OpenPositions(l) \in SUBSET PositionId
  BY DEF S!Live, S!OpenPositions
<1>2. /\ V1!TotalAtRisk = S!TotalAtRisk /\ V2!TotalAtRisk = S!TotalAtRisk
      /\ L1!TotalAtRisk = S!TotalAtRisk /\ L2!TotalAtRisk = S!TotalAtRisk
  BY <1>1, QueriesSame, SumsSame
     DEF V1!TotalAtRisk, V2!TotalAtRisk, L1!TotalAtRisk, L2!TotalAtRisk, S!TotalAtRisk
<1>3. \A l : /\ V1!LayerDeployed(l) = S!LayerDeployed(l)
             /\ V2!LayerDeployed(l) = S!LayerDeployed(l)
             /\ L1!LayerDeployed(l) = S!LayerDeployed(l)
             /\ L2!LayerDeployed(l) = S!LayerDeployed(l)
  BY <1>1, QueriesSame, SumsSame
     DEF V1!LayerDeployed, V2!LayerDeployed, L1!LayerDeployed, L2!LayerDeployed,
         S!LayerDeployed
<1> QED BY <1>2, <1>3

-----------------------------------------------------------------------------
(* What a statement does to the rows as a layer sees them *)

SeenRow(l, r) == IF r.layer = l /\ r.state # "absent" THEN Blurred(r) ELSE r

LEMMA RowWritten ==
    ASSUME NEW l, NEW p \in PositionId, NEW r, position' = [position EXCEPT ![p] = r],
           S!StoreTypeOK
    PROVE  PositionBut(l)' = [PositionBut(l) EXCEPT ![p] = SeenRow(l, r)]
<1>1. position = [q \in PositionId |-> position[q]]
  BY DEF S!StoreTypeOK
<1>2. \A q \in PositionId : position'[q] = IF q = p THEN r ELSE position[q]
  BY <1>1
<1>3. PositionBut(l) = [q \in PositionId |-> SeenRow(l, position[q])]
  BY DEF PositionBut, SeenRow
<1>4. PositionBut(l)' = [q \in PositionId |-> SeenRow(l, position'[q])]
  BY DEF PositionBut, SeenRow
<1> HIDE DEF SeenRow
<1> QED BY <1>2, <1>3, <1>4

(* A state that changes. *)
LEMMA StateSeen ==
    ASSUME S!StoreTypeOK, NEW l, NEW p \in PositionId, NEW s, S!SetPositionState(p, s),
           position[p].state # "absent", s # "absent"
    PROVE  /\ p \notin Rows(l) => PositionBut(l)' = [PositionBut(l) EXCEPT ![p].state = s]
           /\ p \in Rows(l) /\ s # "open" =>
                PositionBut(l)' = [PositionBut(l) EXCEPT ![p].state = s]
           /\ p \in Rows(l) /\ s = "open" =>
                PositionBut(l)' = [PositionBut(l) EXCEPT ![p].state = "opening"]
<1> DEFINE r == [state |-> s, layer |-> position[p].layer, notional |-> position[p].notional,
                 realized |-> position[p].realized, metadata |-> position[p].metadata]
<1>1. position' = [position EXCEPT ![p] = r]
  <2>1. position[p] \in S!PositionRow
    BY DEF S!StoreTypeOK
  <2>2. [position[p] EXCEPT !.state = s] = r
    BY <2>1 DEF S!PositionRow
  <2>3. position' = [position EXCEPT ![p] = [position[p] EXCEPT !.state = s]]
    BY DEF S!SetPositionState
  <2> QED BY <2>2, <2>3
<1>2. PositionBut(l)' = [PositionBut(l) EXCEPT ![p] = SeenRow(l, r)]
  BY <1>1, RowWritten
<1>3. ASSUME NEW t, [PositionBut(l)[p] EXCEPT !.state = t] = SeenRow(l, r)
      PROVE  PositionBut(l)' = [PositionBut(l) EXCEPT ![p].state = t]
  BY <1>2, <1>3
<1>4. p \notin Rows(l) => [PositionBut(l)[p] EXCEPT !.state = s] = SeenRow(l, r)
  <2> SUFFICES ASSUME p \notin Rows(l)
               PROVE  [PositionBut(l)[p] EXCEPT !.state = s] = SeenRow(l, r)
    OBVIOUS
  <2>1. position[p].layer # l /\ PositionBut(l)[p] = position[p]
    BY RowSeen DEF Rows
  <2>2. position[p] \in S!PositionRow
    BY DEF S!StoreTypeOK
  <2>3. [position[p] EXCEPT !.state = s] = r
    BY <2>2 DEF S!PositionRow
  <2>4. SeenRow(l, r) = r
    BY <2>1 DEF SeenRow
  <2> QED BY <2>1, <2>3, <2>4
<1>5. ASSUME p \in Rows(l), NEW t
      PROVE  [PositionBut(l)[p] EXCEPT !.state = t]
                = [state |-> t, layer |-> l, notional |-> position[p].notional,
                   realized |-> 0, metadata |-> NULL]
  <2> DEFINE u == IF position[p].state = "open" THEN "opening" ELSE position[p].state
             n == position[p].notional
  <2>1. PositionBut(l)[p] = [state |-> u, layer |-> l, notional |-> n, realized |-> 0,
                             metadata |-> NULL]
    BY <1>5, RowSeen
  <2> HIDE DEF u, n
  <2>2. [PositionBut(l)[p] EXCEPT !.state = t]
          = [state |-> t, layer |-> l, notional |-> n, realized |-> 0, metadata |-> NULL]
    BY <2>1
  <2> QED BY <2>2 DEF n
<1>6. p \in Rows(l) => SeenRow(l, r) = [state |-> IF s = "open" THEN "opening" ELSE s,
                                        layer |-> l, notional |-> position[p].notional,
                                        realized |-> 0, metadata |-> NULL]
  BY DEF SeenRow, Blurred, Rows
<1> HIDE DEF r
<1>7. p \in Rows(l) /\ s # "open" => [PositionBut(l)[p] EXCEPT !.state = s] = SeenRow(l, r)
  BY <1>5, <1>6
<1>8. p \in Rows(l) /\ s = "open" =>
          [PositionBut(l)[p] EXCEPT !.state = "opening"] = SeenRow(l, r)
  BY <1>5, <1>6
<1> QED BY <1>3, <1>4, <1>7, <1>8

(* A row that is inserted. *)
LEMMA InsertSeen ==
    ASSUME S!StoreTypeOK, NEW l, NEW p \in PositionId, NEW k, NEW n, NEW md,
           S!CreatePosition(p, k, n, md)
    PROVE  LET row(m) == [state |-> "opening", layer |-> k, notional |-> n,
                          realized |-> 0, metadata |-> m]
           IN  PositionBut(l)' = [PositionBut(l) EXCEPT ![p] = row(IF k = l THEN NULL ELSE md)]
<1> DEFINE row(m) == [state |-> "opening", layer |-> k, notional |-> n,
                      realized |-> 0, metadata |-> m]
<1>1. position' = [position EXCEPT ![p] = row(md)]
  BY DEF S!CreatePosition
<1>2. PositionBut(l)' = [PositionBut(l) EXCEPT ![p] = SeenRow(l, row(md))]
  <2> HIDE DEF row
  <2> QED BY <1>1, RowWritten
<1>3. SeenRow(l, row(md)) = row(IF k = l THEN NULL ELSE md)
  BY DEF SeenRow, Blurred
<1> QED BY <1>2, <1>3

(* A row that is closed. *)
LEMMA CloseSeen ==
    ASSUME S!StoreTypeOK, NEW l, NEW p \in PositionId, NEW x, S!ClosePosition(p, x),
           position[p].state # "absent"
    PROVE  LET seen == IF p \in Rows(l) THEN 0 ELSE x
           IN  PositionBut(l)' = [PositionBut(l) EXCEPT ![p].state = "closed",
                                                        ![p].realized = seen]
<1> DEFINE seen == IF p \in Rows(l) THEN 0 ELSE x
           was == position[p]
           r == [state |-> "closed", layer |-> was.layer, notional |-> was.notional,
                 realized |-> x, metadata |-> was.metadata]
<1>1. was \in S!PositionRow
  BY DEF S!StoreTypeOK
<1>2. \A y \in S!PositionRow : \A z :
         [[y EXCEPT !.state = "closed"] EXCEPT !.realized = z]
           = [state |-> "closed", layer |-> y.layer, notional |-> y.notional,
              realized |-> z, metadata |-> y.metadata]
  <2> SUFFICES ASSUME NEW y \in S!PositionRow, NEW z
               PROVE  [[y EXCEPT !.state = "closed"] EXCEPT !.realized = z]
                        = [state |-> "closed", layer |-> y.layer, notional |-> y.notional,
                           realized |-> z, metadata |-> y.metadata]
    OBVIOUS
  <2> DEFINE done == [y EXCEPT !.state = "closed"]
  <2>1. done = [state |-> "closed", layer |-> y.layer, notional |-> y.notional,
                realized |-> y.realized, metadata |-> y.metadata]
    BY DEF S!PositionRow
  <2> HIDE DEF done
  <2>2. [done EXCEPT !.realized = z]
          = [state |-> "closed", layer |-> y.layer, notional |-> y.notional,
             realized |-> z, metadata |-> y.metadata]
    BY <2>1
  <2> QED BY <2>2 DEF done
<1>3. position' = [position EXCEPT ![p] = r]
  <2>1. position' = [position EXCEPT ![p] = [[was EXCEPT !.state = "closed"]
                                                  EXCEPT !.realized = x]]
    BY DEF S!ClosePosition
  <2> QED BY <1>1, <1>2, <2>1
<1>4. PositionBut(l)' = [PositionBut(l) EXCEPT ![p] = SeenRow(l, r)]
  <2> HIDE DEF r
  <2> QED BY <1>3, RowWritten
<1>5. [[PositionBut(l)[p] EXCEPT !.state = "closed"] EXCEPT !.realized = seen] = SeenRow(l, r)
  <2>1. CASE p \in Rows(l)
    <3> DEFINE u == IF was.state = "open" THEN "opening" ELSE was.state
               n == was.notional
    <3>1. PositionBut(l)[p] = [state |-> u, layer |-> l, notional |-> n, realized |-> 0,
                               metadata |-> NULL]
      BY <2>1, RowSeen
    <3>2. SeenRow(l, r) = [state |-> "closed", layer |-> l, notional |-> n,
                           realized |-> 0, metadata |-> NULL]
      BY <2>1 DEF SeenRow, Blurred, Rows
    <3> HIDE DEF u, n, r
    <3>3. [PositionBut(l)[p] EXCEPT !.state = "closed"]
            = [state |-> "closed", layer |-> l, notional |-> n, realized |-> 0,
               metadata |-> NULL]
      BY <3>1
    <3>4. [[PositionBut(l)[p] EXCEPT !.state = "closed"] EXCEPT !.realized = 0]
            = [state |-> "closed", layer |-> l, notional |-> n, realized |-> 0,
               metadata |-> NULL]
      BY <3>3
    <3> QED BY <2>1, <3>2, <3>4
  <2>2. CASE p \notin Rows(l)
    <3>1. PositionBut(l)[p] = was /\ was.layer # l
      BY <2>2, RowSeen DEF Rows
    <3>2. SeenRow(l, r) = r
      BY <3>1 DEF SeenRow
    <3> QED BY <1>1, <1>2, <2>2, <3>1, <3>2
  <2> QED BY <2>1, <2>2
<1>6. [PositionBut(l) EXCEPT ![p].state = "closed", ![p].realized = seen]
         = [PositionBut(l) EXCEPT ![p] = [[PositionBut(l)[p] EXCEPT !.state = "closed"]
                                              EXCEPT !.realized = seen]]
  <2> HIDE DEF seen
  <2> QED BY DEF PositionBut
<1> QED BY <1>4, <1>5, <1>6

(* The phase of a rung, which Layer 1 does not see. *)
LEMMA PhaseUnseen ==
    ASSUME S!StoreTypeOK, NEW l, NEW p \in PositionId, p \in Rows(l),
           position' = [position EXCEPT ![p].metadata.phase = "tp_pending"]
    PROVE  PositionBut(l)' = PositionBut(l)
<1> DEFINE was == position[p]
           md == [was.metadata EXCEPT !.phase = "tp_pending"]
           r == [state |-> was.state, layer |-> was.layer, notional |-> was.notional,
                 realized |-> was.realized, metadata |-> md]
<1>1. position' = [position EXCEPT ![p] = r]
  <2>1. was \in S!PositionRow
    BY DEF S!StoreTypeOK
  <2> HIDE DEF md
  <2>2. [was EXCEPT !.metadata = md] = r
    BY <2>1 DEF S!PositionRow
  <2>3. position' = [position EXCEPT ![p] = [was EXCEPT !.metadata = md]]
    BY DEF md
  <2> QED BY <2>2, <2>3
<1>2. SeenRow(l, r) = SeenRow(l, was)
  BY DEF SeenRow, Blurred, Rows
<1>3. \A q \in PositionId : SeenRow(l, position'[q]) = SeenRow(l, position[q])
  <2> HIDE DEF r, SeenRow
  <2>1. \A q \in PositionId : position'[q] = IF q = p THEN r ELSE position[q]
    BY <1>1 DEF S!StoreTypeOK
  <2> QED BY <1>2, <2>1
<1>4. PositionBut(l) = [q \in PositionId |-> SeenRow(l, position[q])]
  BY DEF PositionBut, SeenRow
<1>5. PositionBut(l)' = [q \in PositionId |-> SeenRow(l, position'[q])]
  BY DEF PositionBut, SeenRow
<1> HIDE DEF SeenRow
<1> QED BY <1>3, <1>4, <1>5

-----------------------------------------------------------------------------
(* What the closed rows realized *)

(* A row realizes a unit, nothing or the loss of one, and only when closed. *)
Books ==
    \A p \in PositionId :
        /\ position[p].realized \in {-1, 0, 1}
        /\ position[p].state # "closed" => position[p].realized = 0

LEMMA RealizedType ==
    \A l : /\ IsFiniteSet({p \in Rows(l) : position[p].realized = 1})
           /\ IsFiniteSet({p \in Rows(l) : position[p].realized = -1})
           /\ Gains(l) \in Nat /\ Losses(l) \in Nat /\ Realized(l) \in Int
<1> SUFFICES ASSUME NEW l
             PROVE  /\ IsFiniteSet({p \in Rows(l) : position[p].realized = 1})
                    /\ IsFiniteSet({p \in Rows(l) : position[p].realized = -1})
                    /\ Gains(l) \in Nat /\ Losses(l) \in Nat /\ Realized(l) \in Int
  OBVIOUS
<1>1. IsFiniteSet(PositionId)
  BY SystemAssumption
<1>2. /\ {p \in Rows(l) : position[p].realized = 1} \in SUBSET PositionId
      /\ {p \in Rows(l) : position[p].realized = -1} \in SUBSET PositionId
  BY DEF Rows
<1>3. /\ IsFiniteSet({p \in Rows(l) : position[p].realized = 1})
      /\ IsFiniteSet({p \in Rows(l) : position[p].realized = -1})
  BY <1>1, <1>2, FS_Subset
<1>4. Gains(l) \in Nat /\ Losses(l) \in Nat
  BY <1>3, FS_CardinalityType DEF Gains, Losses
<1> QED BY <1>3, <1>4 DEF Realized

(* What is not closed realizes nothing, so only a close can change the sums. *)
LEMMA RealizedSame ==
    ASSUME NEW l,
           \A p \in PositionId : \A x \in {-1, 1} :
               (p \in Rows(l) /\ position[p].realized = x)
                 <=> (p \in Rows(l)' /\ position'[p].realized = x)
    PROVE  Realized(l)' = Realized(l)
<1>1. /\ {p \in Rows(l) : position[p].realized = 1}
           = {p \in Rows(l)' : position'[p].realized = 1}
      /\ {p \in Rows(l) : position[p].realized = -1}
           = {p \in Rows(l)' : position'[p].realized = -1}
  BY DEF Rows
<1> QED BY <1>1 DEF Realized, Gains, Losses

LEMMA RealizedAdds ==
    ASSUME S!StoreTypeOK, NEW p \in PositionId, NEW x \in {-1, 0, 1},
           S!ClosePosition(p, x), position[p].state # "absent", position[p].realized = 0
    PROVE  \A l : Realized(l)' = Realized(l) + (IF p \in Rows(l) THEN x ELSE 0)
<1>1. /\ \A q \in PositionId \ {p} : position'[q] = position[q]
      /\ position'[p].state = "closed" /\ position'[p].realized = x
      /\ position'[p].layer = position[p].layer
  <2>1. position[p] \in S!PositionRow
    BY DEF S!StoreTypeOK
  <2>2. position' = [position EXCEPT ![p] = [[position[p] EXCEPT !.state = "closed"]
                                                  EXCEPT !.realized = x]]
    BY DEF S!ClosePosition
  <2> QED BY <2>1, <2>2 DEF S!StoreTypeOK, S!PositionRow
<1>2. \A l : Rows(l)' = Rows(l)
  BY <1>1 DEF Rows
<1> SUFFICES ASSUME NEW l
             PROVE  Realized(l)' = Realized(l) + (IF p \in Rows(l) THEN x ELSE 0)
  OBVIOUS
<1> DEFINE with(y) == {q \in Rows(l) : position[q].realized = y}
<1>3. \A y : with(y)' = {q \in Rows(l) : position'[q].realized = y}
  BY <1>2
<1>4. ASSUME NEW y \in {-1, 1}
      PROVE  with(y)' = with(y) \cup (IF p \in Rows(l) /\ x = y THEN {p} ELSE {})
  BY <1>1, <1>3 DEF Rows
<1>5. /\ IsFiniteSet(with(1)) /\ IsFiniteSet(with(-1))
      /\ p \notin with(1) /\ p \notin with(-1)
      /\ Gains(l) \in Nat /\ Losses(l) \in Nat
  <2>1. IsFiniteSet(with(1)) /\ IsFiniteSet(with(-1)) /\ Gains(l) \in Nat /\ Losses(l) \in Nat
    BY RealizedType
  <2>2. p \notin with(1) /\ p \notin with(-1)
    OBVIOUS
  <2> QED BY <2>1, <2>2
<1>6. /\ Gains(l) = Cardinality(with(1)) /\ Losses(l) = Cardinality(with(-1))
      /\ Gains(l)' = Cardinality(with(1)') /\ Losses(l)' = Cardinality(with(-1)')
  BY DEF Gains, Losses
<1>7. /\ with(1)' = with(1) \cup (IF p \in Rows(l) /\ x = 1 THEN {p} ELSE {})
      /\ with(-1)' = with(-1) \cup (IF p \in Rows(l) /\ x = -1 THEN {p} ELSE {})
  BY <1>4
<1> HIDE DEF with
<1>8. Gains(l)' = Gains(l) + (IF p \in Rows(l) /\ x = 1 THEN 1 ELSE 0)
  <2>1. Cardinality(with(1) \cup {p}) = Cardinality(with(1)) + 1
    BY <1>5, FS_AddElement, Zenon
  <2> QED BY <1>5, <1>6, <1>7, <2>1
<1>9. Losses(l)' = Losses(l) + (IF p \in Rows(l) /\ x = -1 THEN 1 ELSE 0)
  <2>1. Cardinality(with(-1) \cup {p}) = Cardinality(with(-1)) + 1
    BY <1>5, FS_AddElement, Zenon
  <2>2. CASE p \in Rows(l) /\ x = -1
    <3>1. with(-1)' = with(-1) \cup {p}
      BY <1>7, <2>2
    <3>2. Losses(l)' = Losses(l) + 1
      BY <1>6, <2>1, <3>1
    <3> QED BY <2>2, <3>2
  <2>3. CASE ~ (p \in Rows(l) /\ x = -1)
    <3>1. with(-1)' = with(-1)
      BY <1>7, <2>3
    <3>2. Losses(l)' = Losses(l)
      BY <1>6, <3>1
    <3> QED BY <1>5, <2>3, <3>2
  <2> QED BY <2>2, <2>3
<1> QED BY <1>5, <1>8, <1>9 DEF Realized

-----------------------------------------------------------------------------
(* The statements, as a layer sees them *)

LEMMA StateKept ==
    ASSUME NEW l, UNCHANGED system_state, Realized(l)' = Realized(l)
    PROVE  StateBut(l)' = StateBut(l)
BY DEF StateBut

LEMMA StateFields ==
    ASSUME S!StoreTypeOK
    PROVE  system_state = [halt_reason       |-> system_state.halt_reason,
                           total_at_risk_usd |-> system_state.total_at_risk_usd,
                           cumulative_pnl    |-> system_state.cumulative_pnl,
                           dynamic_alloc     |-> system_state.dynamic_alloc]
BY DEF S!StoreTypeOK, S!SystemState

-----------------------------------------------------------------------------
(* One store *)

(* The two layers write the store by the same statements. *)
LEMMA StatementsSame ==
    /\ \A p, s : /\ L1!SetPositionState(p, s) <=> S!SetPositionState(p, s)
                 /\ L2!SetPositionState(p, s) <=> S!SetPositionState(p, s)
    /\ \A p, x : /\ L1!ClosePosition(p, x) <=> S!ClosePosition(p, x)
                 /\ L2!ClosePosition(p, x) <=> S!ClosePosition(p, x)
    /\ \A id, b : /\ L1!RecordFill(id, b) <=> S!RecordFill(id, b)
                  /\ L2!RecordFill(id, b) <=> S!RecordFill(id, b)
    /\ \A r : L1!SetHaltReason(r) <=> S!SetHaltReason(r)
<1>1. \A p, s : /\ L1!SetPositionState(p, s) <=> S!SetPositionState(p, s)
                /\ L2!SetPositionState(p, s) <=> S!SetPositionState(p, s)
  BY DEF L1!SetPositionState, L2!SetPositionState, S!SetPositionState
<1>2. \A p, x : /\ L1!ClosePosition(p, x) <=> S!ClosePosition(p, x)
                /\ L2!ClosePosition(p, x) <=> S!ClosePosition(p, x)
  BY DEF L1!ClosePosition, L2!ClosePosition, S!ClosePosition
<1>3. \A id, b : /\ L1!RecordFill(id, b) <=> S!RecordFill(id, b)
                 /\ L2!RecordFill(id, b) <=> S!RecordFill(id, b)
  BY DEF L1!RecordFill, L2!RecordFill, S!RecordFill, L1!SeenOrderIds, L2!SeenOrderIds,
     S!SeenOrderIds
<1>4. \A r : L1!SetHaltReason(r) <=> S!SetHaltReason(r)
  BY DEF L1!SetHaltReason, S!SetHaltReason
<1> QED BY <1>1, <1>2, <1>3, <1>4

LEMMA InsertsSame ==
    ASSUME S!StoreTypeOK, NEW p \in PositionId, NEW l, NEW n, NEW md
    PROVE  /\ L1!CreatePosition(p, l, n, md) <=> S!CreatePosition(p, l, n, md)
           /\ L2!CreatePosition(p, l, n, md) <=> S!CreatePosition(p, l, n, md)
BY QueriesSame DEF L1!CreatePosition, L2!CreatePosition, S!CreatePosition

LEMMA StatementTypes ==
    ASSUME S!StoreTypeOK
    PROVE  /\ \A p \in PositionId, s \in S!PositionState :
                 S!SetPositionState(p, s) => S!StoreTypeOK'
           /\ \A p \in PositionId, l \in S!Layer, n \in 0..MaxNotional,
                 md \in (Pair \cup Rung) \cup {NULL} :
                 S!CreatePosition(p, l, n, md) => S!StoreTypeOK'
           /\ \A p \in PositionId, r \in Int : S!ClosePosition(p, r) => S!StoreTypeOK'
           /\ \A id \in S!ClientOrderId, b \in BOOLEAN : S!RecordFill(id, b) => S!StoreTypeOK'
           /\ \A reason \in PositionId \cup {NULL} : S!SetHaltReason(reason) => S!StoreTypeOK'
           /\ S!ReconcileAtRisk => S!StoreTypeOK'
           /\ UNCHANGED storeVars => S!StoreTypeOK'
<1>1. UNCHANGED storeVars <=> UNCHANGED S!storeVars
  BY DEF storeVars, S!storeVars
<1> QED BY <1>1, StoreAssumed, S!StatementTypes

(* What is kept of the store: its types, and that its profits add up. *)
StoreInv == S!StoreTypeOK /\ Books /\ RealizedAddsUp

LEMMA RealizedIsInt ==
    ASSUME S!StoreTypeOK
    PROVE  /\ system_state.cumulative_pnl \in Int
           /\ \A l : Realized(l) \in Int
BY RealizedType DEF S!StoreTypeOK, S!SystemState

(* A statement that leaves the rows alone. *)
LEMMA SameRows ==
    ASSUME UNCHANGED position
    PROVE  /\ Books' <=> Books
           /\ \A l : PositionBut(l)' = PositionBut(l) /\ Realized(l)' = Realized(l)
<1>1. \A l : Rows(l)' = Rows(l)
  BY DEF Rows
<1>2. \A l : Realized(l)' = Realized(l)
  BY <1>1 DEF Realized, Gains, Losses
<1>3. \A l : PositionBut(l)' = PositionBut(l)
  BY DEF PositionBut
<1> QED BY <1>2, <1>3 DEF Books

(* One that marks a row, or its phase, or inserts one, realizes nothing. *)
LEMMA RealizesNothing ==
    ASSUME Books, NEW p \in PositionId,
           \A q \in PositionId \ {p} : position'[q] = position[q],
           position[p].realized = 0, position'[p].realized = 0
    PROVE  Books' /\ \A l : Realized(l)' = Realized(l)
<1>1. Books'
  BY DEF Books
<1>2. ASSUME NEW l PROVE Realized(l)' = Realized(l)
  <2>1. \A q \in PositionId : \A x \in {-1, 1} :
            (q \in Rows(l) /\ position[q].realized = x)
              <=> (q \in Rows(l)' /\ position'[q].realized = x)
    BY DEF Rows
  <2> QED BY <2>1, RealizedSame
<1> QED BY <1>1, <1>2

(* No statement at all. *)
LEMMA NothingViews ==
    ASSUME StoreInv, UNCHANGED storeVars
    PROVE  StoreInv' /\ UNCHANGED V1!storeVars /\ UNCHANGED V2!storeVars
<1>1. UNCHANGED <<position, fill, system_state>>
  BY DEF storeVars
<1>2. \A l : /\ PositionBut(l)' = PositionBut(l) /\ Realized(l)' = Realized(l)
             /\ StateBut(l)' = StateBut(l)
             /\ FillOf(l)' = FillOf(l)
  BY <1>1, SameRows, StateKept DEF FillOf
<1>3. StoreInv'
  BY <1>1, <1>2, SameRows, StatementTypes DEF StoreInv, RealizedAddsUp
<1> QED BY <1>2, <1>3 DEF V1!storeVars, V2!storeVars

LEMMA CreateViews ==
    ASSUME StoreInv, NEW p \in PositionId, NEW k \in {"l1_funding", "l2_cascade"},
           NEW n \in 0..MaxNotional, NEW md \in Pair \cup Rung, S!CreatePosition(p, k, n, md)
    PROVE  /\ StoreInv'
           /\ k = "l1_funding" =>
                V1!CreatePosition(p, k, n, md) /\ V2!CreatePosition(p, k, n, NULL)
           /\ k = "l2_cascade" =>
                V2!CreatePosition(p, k, n, md) /\ V1!CreatePosition(p, k, n, NULL)
<1> USE DEF StoreInv
<1>1. /\ S!IsNextId(p) /\ position[p].state = "absent" /\ UNCHANGED <<fill, system_state>>
      /\ position' = [position EXCEPT ![p] = [state |-> "opening", layer |-> k,
                          notional |-> n, realized |-> 0, metadata |-> md]]
  BY DEF S!CreatePosition, S!IsNextId
<1>2. k \in S!Layer
  BY DEF S!Layer, S!L1Funding, S!L2Cascade, S!L3Tail
<1>3. S!StoreTypeOK'
  BY <1>2, StatementTypes
<1>4. Books' /\ \A l : Realized(l)' = Realized(l)
  <2>1. position[p].realized = 0
    BY <1>1 DEF Books
  <2>2. /\ \A q \in PositionId \ {p} : position'[q] = position[q]
        /\ position'[p].realized = 0
    BY <1>1 DEF S!StoreTypeOK
  <2> QED BY <2>1, <2>2, RealizesNothing
<1>5. RealizedAddsUp'
  BY <1>1, <1>4 DEF RealizedAddsUp
<1>6. \A l : StateBut(l)' = StateBut(l) /\ FillOf(l)' = FillOf(l)
  BY <1>1, <1>4, StateKept DEF FillOf
<1>7. V1!IsNextId(p) /\ V2!IsNextId(p)
  BY <1>1, QueriesSame
<1> DEFINE row(m) == [state |-> "opening", layer |-> k, notional |-> n,
                      realized |-> 0, metadata |-> m]
<1>8. \A l : PositionBut(l)' = [PositionBut(l) EXCEPT ![p] = row(IF k = l THEN NULL ELSE md)]
  BY InsertSeen
<1>9. /\ k = "l1_funding" => PositionBut("l2_cascade")' = [PositionBut("l2_cascade") EXCEPT ![p] = row(md)]
      /\ k = "l1_funding" => PositionBut("l1_funding")' = [PositionBut("l1_funding") EXCEPT ![p] = row(NULL)]
      /\ k = "l2_cascade" => PositionBut("l1_funding")' = [PositionBut("l1_funding") EXCEPT ![p] = row(md)]
      /\ k = "l2_cascade" => PositionBut("l2_cascade")' = [PositionBut("l2_cascade") EXCEPT ![p] = row(NULL)]
  <2> HIDE DEF row
  <2> QED BY <1>8
<1>10. k = "l1_funding" => V1!CreatePosition(p, k, n, md) /\ V2!CreatePosition(p, k, n, NULL)
  BY <1>6, <1>7, <1>9 DEF V1!CreatePosition, V2!CreatePosition
<1>11. k = "l2_cascade" => V2!CreatePosition(p, k, n, md) /\ V1!CreatePosition(p, k, n, NULL)
  BY <1>6, <1>7, <1>9 DEF V1!CreatePosition, V2!CreatePosition
<1> QED BY <1>3, <1>4, <1>5, <1>10, <1>11

(* A close releases the same capital in both views, and its profit in one. *)
LEMMA CloseState ==
    ASSUME S!StoreTypeOK, Books, NEW p \in PositionId, NEW x \in {-1, 0, 1},
           S!ClosePosition(p, x), position[p].state \notin {"absent", "closed"}, NEW l
    PROVE  LET rest == StateBut(l).total_at_risk_usd - PositionBut(l)[p].notional
               seen == IF p \in Rows(l) THEN 0 ELSE x
           IN  StateBut(l)' = [StateBut(l) EXCEPT
                   !.total_at_risk_usd = IF rest < 0 THEN 0 ELSE rest,
                   !.cumulative_pnl = @ + seen]
<1> DEFINE seen == IF p \in Rows(l) THEN 0 ELSE x
           less == system_state.total_at_risk_usd - position[p].notional
           left == IF less < 0 THEN 0 ELSE less
           halt == system_state.halt_reason
           pnl == system_state.cumulative_pnl
           alloc == [system_state.dynamic_alloc EXCEPT ![l] = NULL]
           risk == system_state.total_at_risk_usd
           gain == Realized(l)
<1>1. PositionBut(l)[p].notional = position[p].notional
  BY RowSeen
<1>2. Realized(l)' = Realized(l) + (IF p \in Rows(l) THEN x ELSE 0)
  BY RealizedAdds DEF Books
<1>3. /\ system_state'.halt_reason = halt /\ system_state'.total_at_risk_usd = left
      /\ system_state'.cumulative_pnl = pnl + x
      /\ system_state'.dynamic_alloc = system_state.dynamic_alloc
  <2>1. system_state' = [[system_state EXCEPT !.total_at_risk_usd = left]
                            EXCEPT !.cumulative_pnl = pnl + x]
    BY DEF S!ClosePosition
  <2> DEFINE mid == [system_state EXCEPT !.total_at_risk_usd = left]
  <2> HIDE DEF left
  <2>2. mid = [halt_reason |-> halt, total_at_risk_usd |-> left, cumulative_pnl |-> pnl,
               dynamic_alloc |-> system_state.dynamic_alloc]
    BY StateFields
  <2> HIDE DEF mid
  <2>3. [mid EXCEPT !.cumulative_pnl = pnl + x]
          = [halt_reason |-> halt, total_at_risk_usd |-> left, cumulative_pnl |-> pnl + x,
             dynamic_alloc |-> system_state.dynamic_alloc]
    BY <2>2
  <2> QED BY <2>1, <2>3 DEF mid
<1>4. pnl \in Int /\ gain \in Int /\ gain' = gain + (IF p \in Rows(l) THEN x ELSE 0)
  BY <1>2, RealizedIsInt
<1>5. (pnl + x) - gain' = (pnl - gain) + seen
  <2> HIDE DEF pnl, gain
  <2> QED BY <1>4
<1>6. StateBut(l)' = [halt_reason |-> halt, total_at_risk_usd |-> left,
                      cumulative_pnl |-> (pnl - gain) + seen, dynamic_alloc |-> alloc]
  BY <1>3, <1>5 DEF StateBut
<1>7. StateBut(l) = [halt_reason |-> halt, total_at_risk_usd |-> risk,
                     cumulative_pnl |-> pnl - gain, dynamic_alloc |-> alloc]
  BY DEF StateBut
<1>8. StateBut(l).total_at_risk_usd - PositionBut(l)[p].notional = less
  BY <1>1, <1>7
<1> HIDE DEF seen, left, halt, pnl, alloc, risk, gain
<1> DEFINE was == pnl - gain
           now == was + seen
           mid == [StateBut(l) EXCEPT !.total_at_risk_usd = left]
<1>9. StateBut(l).cumulative_pnl = was
  BY <1>7
<1>10. StateBut(l)' = [mid EXCEPT !.cumulative_pnl = StateBut(l).cumulative_pnl + seen]
  <2> HIDE DEF was, now
  <2>1. StateBut(l) = [halt_reason |-> halt, total_at_risk_usd |-> risk,
                       cumulative_pnl |-> was, dynamic_alloc |-> alloc]
    BY <1>7 DEF was
  <2>2. mid = [halt_reason |-> halt, total_at_risk_usd |-> left,
               cumulative_pnl |-> was, dynamic_alloc |-> alloc]
    BY <2>1
  <2> HIDE DEF mid
  <2>3. [mid EXCEPT !.cumulative_pnl = now]
          = [halt_reason |-> halt, total_at_risk_usd |-> left,
             cumulative_pnl |-> now, dynamic_alloc |-> alloc]
    BY <2>2
  <2>4. StateBut(l)' = [halt_reason |-> halt, total_at_risk_usd |-> left,
                        cumulative_pnl |-> now, dynamic_alloc |-> alloc]
    BY <1>6 DEF was, now
  <2>5. now = StateBut(l).cumulative_pnl + seen
    BY <1>9 DEF was, now
  <2> QED BY <2>3, <2>4, <2>5
<1>11. StateBut(l)' = [StateBut(l) EXCEPT !.total_at_risk_usd = left,
                                          !.cumulative_pnl = @ + seen]
  <2> HIDE DEF was, now
  <2> QED BY <1>10
<1> QED BY <1>8, <1>11 DEF left, seen

LEMMA CloseViews ==
    ASSUME StoreInv, NEW p \in PositionId, NEW x \in {-1, 0, 1}, S!ClosePosition(p, x),
           position[p].state \notin {"absent", "closed"}
    PROVE  /\ position[p].layer \in {"l1_funding", "l2_cascade"} => StoreInv'
           /\ position[p].layer = "l1_funding" =>
                V1!ClosePosition(p, x) /\ V2!ClosePosition(p, 0)
           /\ position[p].layer = "l2_cascade" =>
                V2!ClosePosition(p, x) /\ V1!ClosePosition(p, 0)
<1> USE DEF StoreInv
<1> DEFINE seen(l) == IF p \in Rows(l) THEN 0 ELSE x
<1>1. /\ UNCHANGED fill /\ position[p].state # "absent" /\ position[p].realized = 0 /\ x \in Int
      /\ system_state'.cumulative_pnl = system_state.cumulative_pnl + x
  <2>1. position[p].realized = 0
    BY DEF Books
  <2>2. UNCHANGED fill /\ system_state'.cumulative_pnl = system_state.cumulative_pnl + x
    BY DEF S!ClosePosition, S!StoreTypeOK, S!SystemState
  <2> QED BY <2>1, <2>2
<1>2. \A l : /\ PositionBut(l)' = [PositionBut(l) EXCEPT ![p].state = "closed",
                                                         ![p].realized = seen(l)]
             /\ FillOf(l)' = FillOf(l)
  BY <1>1, CloseSeen DEF FillOf
<1>3. \A l : LET rest == StateBut(l).total_at_risk_usd - PositionBut(l)[p].notional
             IN  StateBut(l)' = [StateBut(l) EXCEPT
                     !.total_at_risk_usd = IF rest < 0 THEN 0 ELSE rest,
                     !.cumulative_pnl = @ + seen(l)]
  BY CloseState
<1>4. /\ p \in Rows("l1_funding") <=> position[p].layer = "l1_funding"
      /\ p \in Rows("l2_cascade") <=> position[p].layer = "l2_cascade"
  BY <1>1 DEF Rows
<1>5. S!StoreTypeOK'
  BY <1>1, StatementTypes
<1>6. Books'
  BY DEF Books, S!StoreTypeOK, S!PositionRow, S!ClosePosition
<1>7. position[p].layer \in {"l1_funding", "l2_cascade"} => RealizedAddsUp'
  <2>1. /\ Realized("l1_funding")' =
              Realized("l1_funding") + (IF p \in Rows("l1_funding") THEN x ELSE 0)
        /\ Realized("l2_cascade")' =
              Realized("l2_cascade") + (IF p \in Rows("l2_cascade") THEN x ELSE 0)
    BY <1>1, RealizedAdds
  <2>2. Realized("l1_funding") \in Int /\ Realized("l2_cascade") \in Int
    BY RealizedIsInt
  <2> QED BY <1>1, <1>4, <2>1, <2>2 DEF RealizedAddsUp
<1> HIDE DEF seen
<1>8. /\ position[p].layer = "l1_funding" => seen("l1_funding") = 0 /\ seen("l2_cascade") = x
      /\ position[p].layer = "l2_cascade" => seen("l1_funding") = x /\ seen("l2_cascade") = 0
  BY <1>4 DEF seen
<1>9. /\ V1!ClosePosition(p, seen("l2_cascade")) /\ V2!ClosePosition(p, seen("l1_funding"))
  <2>1. V1!ClosePosition(p, seen("l2_cascade"))
    BY <1>2, <1>3 DEF V1!ClosePosition
  <2>2. V2!ClosePosition(p, seen("l1_funding"))
    BY <1>2, <1>3 DEF V2!ClosePosition
  <2> QED BY <2>1, <2>2
<1> QED BY <1>5, <1>6, <1>7, <1>8, <1>9

(* Layer 2 writes the phase of a rung of its own, which Layer 1 does not see. *)
LEMMA PhaseViews ==
    ASSUME StoreInv, NEW p \in PositionId,
           position[p].layer = "l2_cascade", position[p].state # "absent",
           position[p].metadata \in Rung,
           position' = [position EXCEPT ![p].metadata.phase = "tp_pending"],
           UNCHANGED <<fill, system_state>>
    PROVE  /\ StoreInv' /\ UNCHANGED V1!storeVars
           /\ PositionBut("l1_funding")'
                = [PositionBut("l1_funding") EXCEPT ![p].metadata.phase = "tp_pending"]
           /\ UNCHANGED <<FillOf(L2Tag), StateBut("l1_funding")>>
<1> USE DEF StoreInv
<1> DEFINE was == position[p]
           md == [was.metadata EXCEPT !.phase = "tp_pending"]
           r == [was EXCEPT !.metadata = md]
<1>1. position' = [position EXCEPT ![p] = r]
  OBVIOUS
<1>2. md \in Rung
  BY DEF Rung
<1>3. /\ was \in S!PositionRow /\ r \in S!PositionRow /\ r.realized = was.realized
      /\ r.layer = was.layer /\ r.state = was.state
  <2> HIDE DEF md
  <2>1. was \in S!PositionRow
    BY DEF S!StoreTypeOK
  <2>2. r \in S!PositionRow
    BY <1>2, <2>1 DEF S!PositionRow
  <2>3. r.realized = was.realized /\ r.layer = was.layer /\ r.state = was.state
    BY <2>1 DEF S!PositionRow
  <2> QED BY <2>1, <2>2, <2>3
<1> HIDE DEF r
<1>4. /\ \A q \in PositionId \ {p} : position'[q] = position[q]
      /\ position'[p] = r
  BY <1>1 DEF S!StoreTypeOK
<1>5. S!StoreTypeOK'
  BY <1>1, <1>3 DEF S!StoreTypeOK
<1>6. Rows("l1_funding")' = Rows("l1_funding") /\ Rows("l2_cascade")' = Rows("l2_cascade")
  BY <1>3, <1>4 DEF Rows
<1>7. \A q \in PositionId : position'[q].realized = position[q].realized
                            /\ position'[q].state = position[q].state
  BY <1>3, <1>4
<1>8. /\ Realized("l1_funding")' = Realized("l1_funding")
      /\ Realized("l2_cascade")' = Realized("l2_cascade")
  BY <1>6, <1>7, RealizedSame DEF Rows
<1>9. Books' /\ RealizedAddsUp'
  BY <1>7, <1>8 DEF Books, RealizedAddsUp
<1>10. p \in Rows("l2_cascade") /\ p \notin Rows("l1_funding")
  BY DEF Rows
<1>11. PositionBut("l2_cascade")' = PositionBut("l2_cascade")
  BY <1>10, PhaseUnseen
<1>12. /\ StateBut("l1_funding")' = StateBut("l1_funding")
       /\ StateBut("l2_cascade")' = StateBut("l2_cascade")
       /\ \A T : FillOf(T)' = FillOf(T)
  BY <1>8, StateKept DEF FillOf
<1>13. PositionBut("l1_funding")' = [PositionBut("l1_funding") EXCEPT ![p] = r]
  <2>1. SeenRow("l1_funding", r) = r
    BY <1>3 DEF SeenRow
  <2>2. PositionBut("l1_funding")' = [PositionBut("l1_funding") EXCEPT ![p] = SeenRow("l1_funding", r)]
    <3> DEFINE rows == PositionBut("l1_funding")
    <3>1. rows = [q \in PositionId |-> SeenRow("l1_funding", position[q])]
      BY DEF PositionBut, SeenRow
    <3>2. rows' = [q \in PositionId |-> SeenRow("l1_funding", position'[q])]
      BY DEF PositionBut, SeenRow
    <3> HIDE DEF rows
    <3> QED BY <1>4, <3>1, <3>2 DEF rows
  <2> QED BY <2>1, <2>2
<1>14. PositionBut("l1_funding")[p] = was
  BY <1>10, RowSeen
<1> QED BY <1>5, <1>9, <1>11, <1>12, <1>13, <1>14 DEF V1!storeVars, r

(* Each layer sees the fills of its own orders. *)
LEMMA FillViews ==
    ASSUME StoreInv, NEW p \in PositionId, NEW tag \in L1Tag \cup L2Tag, NEW b \in BOOLEAN,
           S!RecordFill(<<p, tag>>, b)
    PROVE  /\ StoreInv'
           /\ tag \in L1Tag => V1!RecordFill(<<p, tag>>, b) /\ UNCHANGED V2!storeVars
           /\ tag \in L2Tag => V2!RecordFill(<<p, tag>>, b) /\ UNCHANGED V1!storeVars
<1> USE DEF StoreInv
<1>1. /\ UNCHANGED <<position, system_state>>
      /\ fill' = IF \E f \in fill : f.id = <<p, tag>> THEN fill
                 ELSE fill \cup {[id |-> <<p, tag>>, filled |-> b]}
  BY DEF S!RecordFill, S!SeenOrderIds
<1>2. <<p, tag>> \in S!ClientOrderId
  BY DEF S!ClientOrderId
<1>3. S!StoreTypeOK'
  BY <1>2, StatementTypes
<1>4. /\ Books' /\ RealizedAddsUp'
      /\ \A l : PositionBut(l)' = PositionBut(l) /\ StateBut(l)' = StateBut(l)
  BY <1>1, SameRows, StateKept DEF RealizedAddsUp
<1>5. ASSUME NEW T
      PROVE  /\ tag \in T => FillOf(T)' = IF \E f \in FillOf(T) : f.id = <<p, tag>> THEN FillOf(T)
                                          ELSE FillOf(T) \cup {[id |-> <<p, tag>>, filled |-> b]}
             /\ tag \notin T => FillOf(T)' = FillOf(T)
  BY <1>1 DEF FillOf
<1>6. L1Tag \cap L2Tag = {}
  BY DEF L1Tag, L2Tag
<1>7. tag \in L1Tag => V1!RecordFill(<<p, tag>>, b) /\ UNCHANGED V2!storeVars
  BY <1>4, <1>5, <1>6 DEF V1!RecordFill, V1!SeenOrderIds, V2!storeVars
<1>8. tag \in L2Tag => V2!RecordFill(<<p, tag>>, b) /\ UNCHANGED V1!storeVars
  BY <1>4, <1>5, <1>6 DEF V2!RecordFill, V2!SeenOrderIds, V1!storeVars
<1> QED BY <1>3, <1>4, <1>7, <1>8

(* The single row of system_state, where both layers read the same. *)
LEMMA HaltViews ==
    ASSUME StoreInv, NEW r \in PositionId \cup {NULL}, S!SetHaltReason(r)
    PROVE  StoreInv' /\ V1!SetHaltReason(r) /\ V2!SetHaltReason(r)
<1> USE DEF StoreInv
<1>1. UNCHANGED <<position, fill>> /\ S!StoreTypeOK'
  BY StatementTypes DEF S!SetHaltReason
<1>2. /\ system_state'.halt_reason = r
      /\ system_state'.total_at_risk_usd = system_state.total_at_risk_usd
      /\ system_state'.cumulative_pnl = system_state.cumulative_pnl
      /\ system_state'.dynamic_alloc = system_state.dynamic_alloc
  BY DEF S!SetHaltReason, S!StoreTypeOK, S!SystemState
<1>3. \A l : /\ PositionBut(l)' = PositionBut(l) /\ Realized(l)' = Realized(l)
             /\ FillOf(l)' = FillOf(l)
  BY <1>1, SameRows DEF FillOf
<1>4. \A l : StateBut(l)' = [StateBut(l) EXCEPT !.halt_reason = r]
  <2> SUFFICES ASSUME NEW l PROVE StateBut(l)' = [StateBut(l) EXCEPT !.halt_reason = r]
    OBVIOUS
  <2> DEFINE risk == system_state.total_at_risk_usd
             pnl == system_state.cumulative_pnl - Realized(l)
             alloc == [system_state.dynamic_alloc EXCEPT ![l] = NULL]
             halt == system_state.halt_reason
  <2>1. StateBut(l) = [halt_reason |-> halt, total_at_risk_usd |-> risk,
                       cumulative_pnl |-> pnl, dynamic_alloc |-> alloc]
    BY DEF StateBut
  <2>2. StateBut(l)' = [halt_reason |-> r, total_at_risk_usd |-> risk,
                        cumulative_pnl |-> pnl, dynamic_alloc |-> alloc]
    BY <1>2, <1>3 DEF StateBut
  <2> HIDE DEF risk, pnl, alloc, halt
  <2> QED BY <2>1, <2>2
<1>5. Books' /\ RealizedAddsUp'
  BY <1>1, <1>2, <1>3, SameRows DEF RealizedAddsUp
<1> QED BY <1>1, <1>3, <1>4, <1>5 DEF V1!SetHaltReason, V2!SetHaltReason

LEMMA ReconcileViews ==
    ASSUME StoreInv, S!ReconcileAtRisk
    PROVE  StoreInv' /\ V1!ReconcileAtRisk /\ V2!ReconcileAtRisk
<1> USE DEF StoreInv
<1>1. UNCHANGED <<position, fill>> /\ S!StoreTypeOK'
  BY StatementTypes DEF S!ReconcileAtRisk
<1>2. /\ system_state'.halt_reason = system_state.halt_reason
      /\ system_state'.total_at_risk_usd = S!TotalAtRisk
      /\ system_state'.cumulative_pnl = system_state.cumulative_pnl
      /\ system_state'.dynamic_alloc = system_state.dynamic_alloc
  BY DEF S!ReconcileAtRisk, S!StoreTypeOK, S!SystemState
<1>3. \A l : /\ PositionBut(l)' = PositionBut(l) /\ Realized(l)' = Realized(l)
             /\ FillOf(l)' = FillOf(l)
  BY <1>1, SameRows DEF FillOf
<1>4. \A l : StateBut(l)' = [StateBut(l) EXCEPT !.total_at_risk_usd = S!TotalAtRisk]
  <2> SUFFICES ASSUME NEW l
               PROVE  StateBut(l)' = [StateBut(l) EXCEPT !.total_at_risk_usd = S!TotalAtRisk]
    OBVIOUS
  <2> DEFINE risk == system_state.total_at_risk_usd
             pnl == system_state.cumulative_pnl - Realized(l)
             alloc == [system_state.dynamic_alloc EXCEPT ![l] = NULL]
             halt == system_state.halt_reason
  <2>1. StateBut(l) = [halt_reason |-> halt, total_at_risk_usd |-> risk,
                       cumulative_pnl |-> pnl, dynamic_alloc |-> alloc]
    BY DEF StateBut
  <2>2. StateBut(l)' = [halt_reason |-> halt, total_at_risk_usd |-> S!TotalAtRisk,
                        cumulative_pnl |-> pnl, dynamic_alloc |-> alloc]
    BY <1>2, <1>3 DEF StateBut
  <2> HIDE DEF risk, pnl, alloc, halt
  <2> QED BY <2>1, <2>2
<1>5. Books' /\ RealizedAddsUp'
  BY <1>1, <1>2, <1>3, SameRows DEF RealizedAddsUp
<1>6. V1!TotalAtRisk = S!TotalAtRisk /\ V2!TotalAtRisk = S!TotalAtRisk
  BY TotalsSame
<1> QED BY <1>1, <1>3, <1>4, <1>5, <1>6 DEF V1!ReconcileAtRisk, V2!ReconcileAtRisk

(* Marking a row: the other layer sees it, but not that a row is filled. *)
LEMMA MarkViews ==
    ASSUME StoreInv, NEW p \in PositionId, NEW s \in S!PositionState \ {"absent", "closed"},
           S!SetPositionState(p, s), position[p].state \notin {"absent", "closed"}
    PROVE  /\ StoreInv'
           /\ position[p].layer = "l1_funding" => V1!SetPositionState(p, s)
           /\ position[p].layer = "l2_cascade" => V2!SetPositionState(p, s)
           /\ position[p].layer = "l1_funding" =>
                V2!SetPositionState(p, IF s = "open" THEN "opening" ELSE s)
           /\ position[p].layer = "l2_cascade" /\ s = "open" /\ position[p].state # "closing"
                => UNCHANGED V1!storeVars
           /\ position[p].layer = "l1_funding" /\ s = "open" /\ position[p].state # "closing"
                => UNCHANGED V2!storeVars
<1> USE DEF StoreInv
<1>1. position' = [position EXCEPT ![p].state = s] /\ UNCHANGED <<fill, system_state>>
  BY DEF S!SetPositionState
<1>2. /\ \A q \in PositionId \ {p} : position'[q] = position[q]
      /\ position'[p].state = s /\ position'[p].layer = position[p].layer
      /\ position'[p].realized = position[p].realized
  BY <1>1 DEF S!StoreTypeOK, S!PositionRow
<1>3. ASSUME NEW l
      PROVE  StateBut(l)' = StateBut(l)
  <2>1. Rows(l)' = Rows(l)
    BY <1>2 DEF Rows
  <2>2. Realized(l)' = Realized(l)
    BY <1>2, <2>1, RealizedSame DEF Rows
  <2> QED BY <1>1, <2>2, StateKept
<1>4. \A T : FillOf(T)' = FillOf(T)
  BY <1>1 DEF FillOf
<1>5. position[p].state # "absent" /\ s # "absent"
  OBVIOUS
<1>6. ASSUME position[p].layer = "l1_funding"
      PROVE  V1!SetPositionState(p, s)
  <2>1. p \notin Rows("l2_cascade")
    BY <1>6 DEF Rows
  <2>2. PositionBut("l2_cascade")' = [PositionBut("l2_cascade") EXCEPT ![p].state = s]
    BY <1>5, <2>1, StateSeen
  <2> QED BY <1>3, <1>4, <2>2 DEF V1!SetPositionState
<1>7. ASSUME position[p].layer = "l2_cascade"
      PROVE  V2!SetPositionState(p, s)
  <2>1. p \notin Rows("l1_funding")
    BY <1>7 DEF Rows
  <2>2. PositionBut("l1_funding")' = [PositionBut("l1_funding") EXCEPT ![p].state = s]
    BY <1>5, <2>1, StateSeen
  <2> QED BY <1>3, <1>4, <2>2 DEF V2!SetPositionState
<1>8. ASSUME position[p].layer = "l1_funding"
      PROVE  V2!SetPositionState(p, IF s = "open" THEN "opening" ELSE s)
  <2>1. p \in Rows("l1_funding")
    BY <1>8 DEF Rows
  <2>2. PositionBut("l1_funding")' = [PositionBut("l1_funding") EXCEPT
              ![p].state = IF s = "open" THEN "opening" ELSE s]
    BY <1>5, <2>1, StateSeen
  <2> QED BY <1>3, <1>4, <2>2 DEF V2!SetPositionState
<1>9. ASSUME NEW l, position[p].layer = l, s = "open", position[p].state # "closing"
      PROVE  PositionBut(l)' = PositionBut(l)
  <2>1. p \in Rows(l)
    BY <1>9 DEF Rows
  <2>2. PositionBut(l)' = [PositionBut(l) EXCEPT ![p].state = "opening"]
    BY <1>5, <1>9, <2>1, StateSeen
  <2>3. PositionBut(l)[p].state = "opening"
    <3>1. position[p].state \in S!PositionState
      BY DEF S!StoreTypeOK, S!PositionRow
    <3>2. position[p].state \in {"opening", "open"}
      BY <1>9, <3>1 DEF S!PositionState
    <3> QED BY <2>1, <3>2, RowSeen
  <2> DEFINE n == position[p].notional
             seen == PositionBut(l)
  <2>4. seen[p] = [state |-> "opening", layer |-> l, notional |-> n, realized |-> 0,
                   metadata |-> NULL]
    BY <2>1, <2>3, RowSeen
  <2>5. seen = [q \in PositionId |-> seen[q]]
    BY DEF PositionBut
  <2> HIDE DEF n, seen
  <2>6. [seen[p] EXCEPT !.state = "opening"] = seen[p]
    BY <2>4
  <2>7. [seen EXCEPT ![p] = seen[p]] = seen
    BY <2>5
  <2>8. [seen EXCEPT ![p].state = "opening"] = seen
    BY <2>6, <2>7
  <2> QED BY <2>2, <2>8 DEF seen
<1>10. StoreInv'
  <2>1. S!StoreTypeOK'
    BY StatementTypes
  <2>2. Books' /\ \A l : Realized(l)' = Realized(l)
    BY <1>2, RealizesNothing DEF Books
  <2> QED BY <1>1, <2>1, <2>2 DEF RealizedAddsUp
<1> QED
  BY <1>10, <1>3, <1>4, <1>6, <1>7, <1>8, <1>9 DEF V1!storeVars, V2!storeVars

-----------------------------------------------------------------------------
(* Layer 1 *)

(* What a run of Layer 1 reads of the store is what it sees of it. *)
LEMMA L1Reads ==
    ASSUME StoreInv
    PROVE  /\ V1!OpenPositions("l1_funding") = L1!OpenPositions("l1_funding")
           /\ V1!Halted <=> L1!Halted
           /\ V1!HeldKeys = L1!HeldKeys
           /\ \A p \in PositionId : position[p].layer = "l1_funding" =>
                PositionBut("l2_cascade")[p] = position[p]
           /\ V1!Budget = L1!Budget
           /\ \A p \in PositionId : V1!CanEnter(p) <=> L1!CanEnter(p)
           /\ l1_cur \in PositionId => (V1!ClosePasses <=> L1!ClosePasses)
<1> USE DEF StoreInv
<1>1. V1!OpenPositions("l1_funding") = L1!OpenPositions("l1_funding")
  BY QueriesSame
<1>2. V1!Halted <=> L1!Halted
  BY DEF V1!Halted, L1!Halted, StateBut
<1>3. \A p \in PositionId : position[p].layer = "l1_funding" =>
          PositionBut("l2_cascade")[p] = position[p]
  BY RowSeen DEF Rows
<1>4. V1!HeldKeys = L1!HeldKeys
  BY <1>1, <1>3 DEF V1!HeldKeys, L1!HeldKeys, V1!L1Funding, L1!L1Funding,
     L1!OpenPositions, L1!Live
<1>5. /\ V1!TotalAtRisk = L1!TotalAtRisk
      /\ V1!LayerDeployed("l1_funding") = L1!LayerDeployed("l1_funding")
  BY TotalsSame
<1>6. V1!LayerAlloc = L1!LayerAlloc
  <2>1. StateBut("l2_cascade").dynamic_alloc["l1_funding"]
          = system_state.dynamic_alloc["l1_funding"]
    BY DEF StateBut, S!StoreTypeOK, S!SystemState
  <2> QED BY <2>1 DEF V1!LayerAlloc, L1!LayerAlloc, V1!DynamicAlloc, L1!DynamicAlloc,
             V1!L1Funding, L1!L1Funding
<1>7. V1!Budget = L1!Budget
  BY <1>5, <1>6 DEF V1!Budget, L1!Budget, V1!L1Funding, L1!L1Funding
<1>8. \A p, tag : tag \in L1Tag =>
         (<<p, tag>> \in V1!SeenOrderIds <=> <<p, tag>> \in L1!SeenOrderIds)
  BY DEF V1!SeenOrderIds, L1!SeenOrderIds, FillOf
<1>9. \A p \in PositionId : V1!CanEnter(p) <=> L1!CanEnter(p)
  <2>1. \A p, n : V1!EntryPasses(p, n) <=> L1!EntryPasses(p, n)
    <3> SUFFICES ASSUME NEW p, NEW n
                 PROVE  V1!EntryPasses(p, n) <=> L1!EntryPasses(p, n)
      OBVIOUS
    <3> DEFINE spot == [size |-> n \div 2, layer |-> "l1_funding", id |-> <<p, "spot">>,
                        is_live |-> EnableLiveOrders]
               perp == [size |-> n - n \div 2, layer |-> "l1_funding", id |-> <<p, "perp">>,
                        is_live |-> EnableLiveOrders]
    <3>1. /\ L1!Order(p, "spot", L1!SpotSize(n)) = spot
          /\ V1!Order(p, "spot", V1!SpotSize(n)) = spot
          /\ L1!Order(p, "perp", L1!PerpSize(n)) = perp
          /\ V1!Order(p, "perp", V1!PerpSize(n)) = perp
      BY DEF L1!Order, V1!Order, L1!SpotSize, V1!SpotSize, L1!PerpSize, V1!PerpSize,
         L1!L1Funding, V1!L1Funding
    <3>2. /\ spot.id \in V1!SeenOrderIds <=> spot.id \in L1!SeenOrderIds
          /\ perp.id \in V1!SeenOrderIds \cup {spot.id}
                <=> perp.id \in L1!SeenOrderIds \cup {spot.id}
      BY <1>8 DEF L1Tag
    <3> HIDE DEF spot, perp
    <3>3. \A o, a, d, c : \A T, U : (o.id \in T <=> o.id \in U) =>
              (V1!CheckOrder(o, a, d, T, c) <=> L1!CheckOrder(o, a, d, U, c))
      BY DEF V1!CheckOrder, L1!CheckOrder
    <3>4. /\ V1!CheckOrder(spot, V1!TotalAtRisk, V1!LayerDeployed("l1_funding"),
                           V1!SeenOrderIds, V1!LayerAlloc)
             <=> L1!CheckOrder(spot, L1!TotalAtRisk, L1!LayerDeployed("l1_funding"),
                               L1!SeenOrderIds, L1!LayerAlloc)
      BY <1>5, <1>6, <3>2, <3>3
    <3>5. V1!CheckOrder(perp, V1!TotalAtRisk + spot.size,
                        V1!LayerDeployed("l1_funding") + spot.size,
                        V1!SeenOrderIds \cup {spot.id}, V1!LayerAlloc)
             <=> L1!CheckOrder(perp, L1!TotalAtRisk + spot.size,
                               L1!LayerDeployed("l1_funding") + spot.size,
                               L1!SeenOrderIds \cup {spot.id}, L1!LayerAlloc)
      BY <1>5, <1>6, <3>2, <3>3
    <3> QED BY <3>1, <3>4, <3>5 DEF V1!EntryPasses, L1!EntryPasses, V1!L1Funding,
               L1!L1Funding
  <2> QED BY <1>7, <2>1 DEF V1!CanEnter, L1!CanEnter
<1>10. ASSUME l1_cur \in PositionId
       PROVE  V1!ClosePasses <=> L1!ClosePasses
  <2>1. PositionBut("l2_cascade")[l1_cur].notional = position[l1_cur].notional
    BY <1>10, RowSeen
  <2> DEFINE order == [size |-> position[l1_cur].notional \div 2, layer |-> "l1_funding",
                       id |-> <<l1_cur, "spot_close">>, is_live |-> EnableLiveOrders]
  <2>2. /\ L1!Order(l1_cur, "spot_close", position[l1_cur].notional \div 2) = order
        /\ V1!Order(l1_cur, "spot_close", PositionBut("l2_cascade")[l1_cur].notional \div 2)
              = order
    BY <2>1 DEF L1!Order, V1!Order, L1!L1Funding, V1!L1Funding
  <2>3. order.id \in V1!SeenOrderIds <=> order.id \in L1!SeenOrderIds
    BY <1>8 DEF L1Tag
  <2> HIDE DEF order
  <2>4. \A o, a, d, c : \A T, U : (o.id \in T <=> o.id \in U) =>
            (V1!CheckOrder(o, a, d, T, c) <=> L1!CheckOrder(o, a, d, U, c))
    BY DEF V1!CheckOrder, L1!CheckOrder
  <2> QED BY <1>5, <2>2, <2>3, <2>4 DEF V1!ClosePasses, L1!ClosePasses, V1!L1Funding,
             L1!L1Funding
<1> QED BY <1>1, <1>2, <1>3, <1>4, <1>7, <1>9, <1>10

(* What one layer may find done to the store between two of its runs. *)
UnseenByL1 == UNCHANGED V1!storeVars \/ \E p \in PositionId : V1!Elsewhere(p)
UnseenByL2 == UNCHANGED V2!storeVars \/ \E p \in PositionId : V2!Elsewhere(p)

(* The row in hand is a row of the layer, in the state it was left in. *)
LEMMA L1InHand ==
    ASSUME StoreInv, V1!Shape
    PROVE  /\ l1_pc \in V1!Closing \cup V1!Opening =>
                l1_cur \in PositionId /\ position[l1_cur].layer = "l1_funding"
           /\ l1_pc \in V1!Closing => position[l1_cur].state = "closing"
           /\ l1_pc \in V1!Opening => position[l1_cur].state = "opening"
           /\ \A p \in to_manage : /\ p \in PositionId /\ position[p].layer = "l1_funding"
                                   /\ position[p].state \in {"opening", "open"}
<1>1. ASSUME l1_pc \in V1!Closing \cup V1!Opening
      PROVE  /\ l1_cur \in PositionId /\ position[l1_cur].layer = "l1_funding"
             /\ l1_pc \in V1!Closing => position[l1_cur].state = "closing"
             /\ l1_pc \in V1!Opening => position[l1_cur].state = "opening"
  <2>1. l1_cur \in PositionId /\ l1_cur # NULL
    BY <1>1, StoreAssumed DEF V1!Shape, V1!TypeOK, V1!InHand, V1!Closing, V1!Opening,
       V1!OpenLegs, V1!CloseLegs
  <2>2. position[l1_cur].layer = "l1_funding"
    BY <2>1, RowSeen DEF StoreInv, V1!Shape, V1!RowInHand, V1!L1Funding
  <2>3. PositionBut("l2_cascade")[l1_cur] = position[l1_cur]
    BY <2>1, <2>2, L1Reads
  <2> QED BY <2>1, <2>2, <2>3 DEF V1!Shape, V1!RowInHand
<1>2. to_manage \subseteq S!OpenPositions("l1_funding")
  BY QueriesSame DEF StoreInv, V1!Shape, V1!ManagedAreLive, V1!L1Funding
<1> QED BY <1>1, <1>2 DEF S!OpenPositions, S!Live, S!LiveState

(* Steps of a run that write nothing to the store. *)
LEMMA L1Moves ==
    ASSUME StoreInv, V1!Shape
    PROVE  /\ L1!StartRun => V1!StartRun /\ UNCHANGED storeVars
           /\ L1!Interrupt => V1!Interrupt /\ UNCHANGED storeVars
           /\ \A p \in PositionId : L1!KeepPosition(p) =>
                V1!KeepPosition(p) /\ UNCHANGED storeVars
           /\ L1!ManageDone => V1!ManageDone /\ UNCHANGED storeVars
           /\ L1!CloseCleared => V1!CloseCleared /\ UNCHANGED storeVars
           /\ L1!RunDone => V1!RunDone /\ UNCHANGED storeVars
           /\ \A a \in Pair :
                /\ L1!SkipCandidate(a) => V1!SkipCandidate(a) /\ UNCHANGED storeVars
                /\ L1!RefuseEntry(a) => V1!RefuseEntry(a) /\ UNCHANGED storeVars
<1>1. UNCHANGED L1!storeVars <=> UNCHANGED storeVars
  BY DEF L1!storeVars, storeVars
<1>2. UNCHANGED storeVars => UNCHANGED V1!storeVars
  BY NothingViews
<1>3. L1!StartRun => V1!StartRun /\ UNCHANGED storeVars
  BY <1>1, <1>2, L1Reads DEF L1!StartRun, V1!StartRun, L1!L1Funding, V1!L1Funding,
     L1!Outlook, V1!Outlook
<1>4. L1!Interrupt => V1!Interrupt /\ UNCHANGED storeVars
  BY <1>1, <1>2 DEF L1!Interrupt, V1!Interrupt, L1!NoCands, V1!NoCands
<1>5. ASSUME NEW p \in PositionId, L1!KeepPosition(p)
      PROVE  V1!KeepPosition(p) /\ UNCHANGED storeVars
  <2>1. p \in to_manage
    BY <1>5 DEF L1!KeepPosition, L1!NextToManage
  <2>2. V1!ShouldClose(p) <=> L1!ShouldClose(p)
    BY <2>1, L1InHand, L1Reads DEF V1!ShouldClose, L1!ShouldClose
  <2> QED BY <1>1, <1>2, <1>5, <2>2 DEF L1!KeepPosition, V1!KeepPosition,
             L1!NextToManage, V1!NextToManage
<1>6. L1!ManageDone => V1!ManageDone /\ UNCHANGED storeVars
  BY <1>1, <1>2 DEF L1!ManageDone, V1!ManageDone
<1>7. ASSUME L1!CloseCleared
      PROVE  V1!CloseCleared /\ UNCHANGED storeVars
  <2>1. l1_cur \in PositionId
    BY <1>7, L1InHand DEF L1!CloseCleared, V1!Closing
  <2> QED BY <1>1, <1>2, <1>7, <2>1, L1Reads DEF L1!CloseCleared, V1!CloseCleared,
             L1!runVars, V1!runVars
<1>8. L1!RunDone => V1!RunDone /\ UNCHANGED storeVars
  BY <1>1, <1>2 DEF L1!RunDone, V1!RunDone, L1!NoCands, V1!NoCands
<1>9. ASSUME NEW a \in Pair
      PROVE  /\ L1!SkipCandidate(a) => V1!SkipCandidate(a) /\ UNCHANGED storeVars
             /\ L1!RefuseEntry(a) => V1!RefuseEntry(a) /\ UNCHANGED storeVars
  <2>1. /\ V1!NextToEnter(a) <=> L1!NextToEnter(a)
        /\ V1!Wanted(a) <=> L1!Wanted(a)
    BY DEF V1!NextToEnter, L1!NextToEnter, V1!Wanted, L1!Wanted
  <2>2. \A p \in PositionId : /\ V1!IsNextId(p) <=> L1!IsNextId(p)
                              /\ V1!CanEnter(p) <=> L1!CanEnter(p)
    BY QueriesSame, L1Reads DEF StoreInv
  <2>3. L1!SkipCandidate(a) => V1!SkipCandidate(a) /\ UNCHANGED storeVars
    BY <1>1, <1>2, <2>1 DEF L1!SkipCandidate, V1!SkipCandidate
  <2>4. L1!RefuseEntry(a) => V1!RefuseEntry(a) /\ UNCHANGED storeVars
    BY <1>1, <1>2, <2>1, <2>2 DEF L1!RefuseEntry, V1!RefuseEntry
  <2> QED BY <2>3, <2>4
<1> QED BY <1>3, <1>4, <1>5, <1>6, <1>7, <1>8, <1>9

(* An order of Layer 1, whose fill Layer 2 never looks at. *)
LEMMA L1Sends ==
    ASSUME StoreInv, NEW tag \in L1Tag, NEW next, L1!SubmitLeg(tag, next),
           l1_cur \in PositionId
    PROVE  StoreInv' /\ V1!SubmitLeg(tag, next) /\ UNCHANGED V2!storeVars
<1>1. /\ l1_pc = tag /\ l1_pc' = next /\ UNCHANGED <<V1!runVars, l1_cur>>
      /\ \/ \E ok \in BOOLEAN : L1!SimulateLeg(tag, ok)
         \/ L1!PlaceLeg(tag)
         \/ \E taken, recorded \in BOOLEAN : L1!PlaceLegFails(tag, taken, recorded)
  BY DEF L1!SubmitLeg, L1!runVars, V1!runVars
<1>2. ASSUME NEW ok \in BOOLEAN, L1!SimulateLeg(tag, ok)
      PROVE  StoreInv' /\ V1!SimulateLeg(tag, ok) /\ UNCHANGED V2!storeVars
  <2>1. S!RecordFill(<<l1_cur, tag>>, ok)
    BY <1>2, StatementsSame DEF L1!SimulateLeg
  <2>2. StoreInv' /\ V1!RecordFill(<<l1_cur, tag>>, ok) /\ UNCHANGED V2!storeVars
    BY <2>1, FillViews
  <2> QED BY <1>2, <2>2 DEF L1!SimulateLeg, V1!SimulateLeg
<1>3. ASSUME L1!PlaceLeg(tag)
      PROVE  StoreInv' /\ V1!PlaceLeg(tag) /\ UNCHANGED V2!storeVars
  <2>1. S!RecordFill(<<l1_cur, tag>>, TRUE)
    BY <1>3, StatementsSame DEF L1!PlaceLeg
  <2>2. StoreInv' /\ V1!RecordFill(<<l1_cur, tag>>, TRUE) /\ UNCHANGED V2!storeVars
    BY <2>1, FillViews
  <2> QED BY <1>3, <2>2 DEF L1!PlaceLeg, V1!PlaceLeg
<1>4. ASSUME NEW taken \in BOOLEAN, NEW recorded \in BOOLEAN,
             L1!PlaceLegFails(tag, taken, recorded)
      PROVE  StoreInv' /\ V1!PlaceLegFails(tag, taken, recorded) /\ UNCHANGED V2!storeVars
  <2>1. \/ recorded /\ taken /\ L1!RecordFill(<<l1_cur, tag>>, TRUE)
        \/ ~recorded /\ UNCHANGED L1!storeVars
    BY <1>4 DEF L1!PlaceLegFails
  <2>2. CASE recorded /\ taken /\ L1!RecordFill(<<l1_cur, tag>>, TRUE)
    <3>1. S!RecordFill(<<l1_cur, tag>>, TRUE)
      BY <2>2, StatementsSame
    <3>2. StoreInv' /\ V1!RecordFill(<<l1_cur, tag>>, TRUE) /\ UNCHANGED V2!storeVars
      BY <3>1, FillViews
    <3> QED BY <1>4, <2>2, <3>2 DEF L1!PlaceLegFails, V1!PlaceLegFails
  <2>3. CASE ~recorded /\ UNCHANGED L1!storeVars
    <3>1. UNCHANGED storeVars
      BY <2>3 DEF L1!storeVars, storeVars
    <3>2. StoreInv' /\ UNCHANGED V1!storeVars /\ UNCHANGED V2!storeVars
      BY <3>1, NothingViews
    <3> QED BY <1>4, <2>3, <3>2 DEF L1!PlaceLegFails, V1!PlaceLegFails
  <2> QED BY <2>1, <2>2, <2>3
<1> QED BY <1>1, <1>2, <1>3, <1>4 DEF V1!SubmitLeg

LEMMA L1Submits ==
    ASSUME StoreInv, V1!Shape
    PROVE  /\ L1!SubmitSpot => StoreInv' /\ V1!SubmitSpot /\ UNCHANGED V2!storeVars
           /\ L1!SubmitPerp => StoreInv' /\ V1!SubmitPerp /\ UNCHANGED V2!storeVars
           /\ L1!SubmitSpotClose => StoreInv' /\ V1!SubmitSpotClose /\ UNCHANGED V2!storeVars
           /\ L1!SubmitPerpClose => StoreInv' /\ V1!SubmitPerpClose /\ UNCHANGED V2!storeVars
<1>1. ASSUME NEW tag \in L1Tag, NEW next, L1!SubmitLeg(tag, next)
      PROVE  l1_cur \in PositionId
  <2>1. l1_pc \in V1!Closing \cup V1!Opening
    BY <1>1 DEF L1!SubmitLeg, L1Tag, V1!Closing, V1!Opening, V1!OpenLegs, V1!CloseLegs
  <2> QED BY <2>1, L1InHand
<1>2. ASSUME NEW tag \in L1Tag, NEW next, L1!SubmitLeg(tag, next)
      PROVE  StoreInv' /\ V1!SubmitLeg(tag, next) /\ UNCHANGED V2!storeVars
  BY <1>1, <1>2, L1Sends
<1>3. {"spot", "perp", "spot_close", "perp_close"} \subseteq L1Tag
  BY DEF L1Tag
<1>4. L1!SubmitSpot => StoreInv' /\ V1!SubmitSpot /\ UNCHANGED V2!storeVars
  BY <1>2, <1>3 DEF L1!SubmitSpot, V1!SubmitSpot
<1>5. L1!SubmitPerp => StoreInv' /\ V1!SubmitPerp /\ UNCHANGED V2!storeVars
  BY <1>2, <1>3 DEF L1!SubmitPerp, V1!SubmitPerp
<1>6. L1!SubmitSpotClose => StoreInv' /\ V1!SubmitSpotClose /\ UNCHANGED V2!storeVars
  BY <1>2, <1>3 DEF L1!SubmitSpotClose, V1!SubmitSpotClose
<1>7. L1!SubmitPerpClose => StoreInv' /\ V1!SubmitPerpClose /\ UNCHANGED V2!storeVars
  BY <1>2, <1>3 DEF L1!SubmitPerpClose, V1!SubmitPerpClose
<1> QED BY <1>4, <1>5, <1>6, <1>7

(* The entry: Layer 2 finds a row of an order's size, within the cap. *)
LEMMA L1Enters ==
    ASSUME StoreInv, V1!Shape, NEW a \in Pair, NEW p \in PositionId, L1!CreateEntry(a, p)
    PROVE  StoreInv' /\ V1!CreateEntry(a, p) /\ UnseenByL2
<1>1. V1!CanEnter(p) /\ V1!Budget = L1!Budget
  BY L1Reads DEF L1!CreateEntry
<1>2. /\ V1!TotalAtRisk + V1!Budget <= MaxTotalDeployed
      /\ V1!Budget \in 1..MaxPerPosition /\ V1!Budget \in 0..MaxNotional
  BY <1>1, L1Fits
<1>3. S!CreatePosition(p, "l1_funding", V1!Budget, a)
  BY <1>1, InsertsSame DEF L1!CreateEntry, L1!L1Funding, StoreInv
<1>4. /\ StoreInv' /\ V1!CreatePosition(p, "l1_funding", V1!Budget, a)
      /\ V2!CreatePosition(p, "l1_funding", V1!Budget, NULL)
  BY <1>2, <1>3, CreateViews
<1>5. V1!CreateEntry(a, p)
  BY <1>1, <1>4 DEF L1!CreateEntry, V1!CreateEntry, L1!NextToEnter, V1!NextToEnter,
     L1!Wanted, V1!Wanted, V1!L1Funding
<1>6. V2!TotalAtRisk + V1!Budget <= MaxTotalDeployed
  BY <1>2, TotalsSame DEF StoreInv
<1>7. V2!Elsewhere(p)
  BY <1>2, <1>4, <1>6 DEF V2!Elsewhere, V2!OtherLayers, V2!L1Funding
<1> QED BY <1>4, <1>5, <1>7 DEF UnseenByL2

(* What a run of Layer 1 does with a row of its own. *)
LEMMA L1Marks ==
    ASSUME StoreInv, V1!Shape, V1!CapInv
    PROVE  /\ \A p \in PositionId :
                L1!BeginClose(p) => StoreInv' /\ V1!BeginClose(p) /\ UnseenByL2
           /\ L1!CloseRefused => StoreInv' /\ V1!CloseRefused /\ UnseenByL2
           /\ L1!SettleClose => StoreInv' /\ V1!SettleClose /\ UnseenByL2
           /\ L1!SettleEntry => StoreInv' /\ V1!SettleEntry /\ UnseenByL2
<1>s. {"opening", "open", "closing"} \subseteq S!PositionState \ {"absent", "closed"}
  BY DEF S!PositionState
<1>r. ASSUME NEW p \in PositionId, position[p].layer = "l1_funding", NEW T,
             position[p].state = "closing" \/ position[p].state \in {"opening", "open"}
      PROVE  /\ position[p].state = "closing" => V2!OthersRow(p, T \cup {"closing"})
             /\ position[p].state \in {"opening", "open"} => V2!OthersRow(p, V2!LiveState)
             /\ V2!OthersRow(p, V2!LiveState \cup {"closing"})
             /\ PositionBut("l1_funding")[p].notional = position[p].notional
  BY <1>r, RowSeen DEF V2!OthersRow, V2!LiveState, V2!L1Funding, StoreInv
<1>1. ASSUME NEW p \in PositionId, L1!BeginClose(p)
      PROVE  StoreInv' /\ V1!BeginClose(p) /\ UnseenByL2
  <2>1. L1!NextToManage(p) /\ L1!ShouldClose(p) /\ L1!MarkPositionClosing(p)
    BY <1>1 DEF L1!BeginClose
  <2>2. position[p].layer = "l1_funding" /\ position[p].state \in {"opening", "open"}
    BY <2>1, L1InHand DEF L1!NextToManage
  <2>3. S!SetPositionState(p, "closing")
    BY <2>1, StatementsSame DEF L1!MarkPositionClosing
  <2>4. StoreInv' /\ V1!SetPositionState(p, "closing") /\ V2!SetPositionState(p, "closing")
    BY <1>s, <2>2, <2>3, MarkViews
  <2>5. V1!ShouldClose(p)
    BY <2>1, <2>2, L1Reads DEF V1!ShouldClose, L1!ShouldClose
  <2>6. V1!BeginClose(p)
    BY <1>1, <2>4, <2>5 DEF L1!BeginClose, V1!BeginClose, L1!NextToManage, V1!NextToManage,
       V1!MarkPositionClosing
  <2>7. V2!Elsewhere(p)
    BY <1>r, <2>2, <2>4 DEF V2!Elsewhere, V2!OtherLayers, V2!MarkPositionClosing
  <2> QED BY <2>4, <2>6, <2>7 DEF UnseenByL2
<1>2. ASSUME L1!CloseRefused
      PROVE  StoreInv' /\ V1!CloseRefused /\ UnseenByL2
  <2>1. /\ l1_cur \in PositionId /\ position[l1_cur].layer = "l1_funding"
        /\ position[l1_cur].state = "closing"
    BY <1>2, L1InHand DEF L1!CloseRefused, V1!Closing
  <2>2. S!SetPositionState(l1_cur, "open")
    BY <1>2, StatementsSame DEF L1!CloseRefused, L1!MarkPositionOpen
  <2>3. /\ StoreInv' /\ V1!SetPositionState(l1_cur, "open")
        /\ V2!SetPositionState(l1_cur, "opening")
    BY <1>s, <2>1, <2>2, MarkViews
  <2>4. V1!CloseRefused
    BY <1>2, <2>1, <2>3, L1Reads DEF L1!CloseRefused, V1!CloseRefused, V1!MarkPositionOpen,
       L1!runVars, V1!runVars
  <2>5. V2!TotalAtRisk + PositionBut("l1_funding")[l1_cur].notional <= MaxTotalDeployed
    <3>1. V1!TotalAtRisk + PositionBut("l2_cascade")[l1_cur].notional <= MaxTotalDeployed
      BY <1>2 DEF L1!CloseRefused, V1!CapInv, V1!RoomToReopen
    <3> QED BY <2>1, <3>1, RowSeen, TotalsSame DEF StoreInv
  <2>6. V2!OthersRow(l1_cur, {"closing"})
    <3>1. V2!OthersRow(l1_cur, {"closing"} \cup {"closing"})
      BY <1>r, <2>1
    <3> QED BY <3>1 DEF V2!OthersRow
  <2>7. V2!Elsewhere(l1_cur)
    BY <2>3, <2>5, <2>6 DEF V2!Elsewhere, V2!OtherLayers
  <2> QED BY <2>1, <2>3, <2>4, <2>7 DEF UnseenByL2
<1>3. ASSUME L1!SettleClose
      PROVE  StoreInv' /\ V1!SettleClose /\ UnseenByL2
  <2>1. /\ l1_cur \in PositionId /\ position[l1_cur].layer = "l1_funding"
        /\ position[l1_cur].state = "closing"
    BY <1>3, L1InHand DEF L1!SettleClose, L1!ExitOutcome, V1!Closing
  <2>2. V2!OthersRow(l1_cur, V2!LiveState \cup {"closing"})
    BY <1>r, <2>1
  <2>3. /\ l1_pc = "close_settle" /\ l1_cur' = NULL /\ legs' = {} /\ l1_pc' = "manage"
        /\ UNCHANGED <<V1!runVars, venue>>
        /\ \/ legs = V1!CloseLegs /\ S!ClosePosition(l1_cur, 0)
           \/ V1!Cardinality(legs) = 1 /\ S!SetHaltReason(l1_cur)
           \/ legs = {} /\ UNCHANGED storeVars
    BY <1>3, StatementsSame, CardinalitySame
       DEF L1!SettleClose, L1!ExitOutcome, L1!FundingCollected, L1!CloseLegs, V1!CloseLegs,
           L1!runVars, V1!runVars, L1!storeVars, storeVars
  <2>4. ASSUME S!ClosePosition(l1_cur, 0)
        PROVE  StoreInv' /\ V1!ClosePosition(l1_cur, 0) /\ UnseenByL2
    <3>1. StoreInv' /\ V1!ClosePosition(l1_cur, 0) /\ V2!ClosePosition(l1_cur, 0)
      BY <2>1, <2>4, CloseViews
    <3>2. V2!Elsewhere(l1_cur)
      BY <2>2, <3>1 DEF V2!Elsewhere, V2!OtherLayers
    <3> QED BY <2>1, <3>1, <3>2 DEF UnseenByL2
  <2>5. ASSUME S!SetHaltReason(l1_cur)
        PROVE  StoreInv' /\ V1!SetHaltReason(l1_cur) /\ UnseenByL2
    <3>1. StoreInv' /\ V1!SetHaltReason(l1_cur) /\ V2!SetHaltReason(l1_cur)
      BY <2>1, <2>5, HaltViews
    <3>2. V2!Elsewhere(l1_cur)
      BY <2>2, <3>1 DEF V2!Elsewhere, V2!OtherLayers
    <3> QED BY <2>1, <3>1, <3>2 DEF UnseenByL2
  <2>6. ASSUME UNCHANGED storeVars
        PROVE  StoreInv' /\ UNCHANGED V1!storeVars /\ UnseenByL2
    BY <2>6, NothingViews DEF UnseenByL2
  <2> QED BY <2>3, <2>4, <2>5, <2>6 DEF V1!SettleClose, V1!ExitOutcome, V1!FundingCollected
<1>4. ASSUME L1!SettleEntry
      PROVE  StoreInv' /\ V1!SettleEntry /\ UnseenByL2
  <2>1. /\ l1_cur \in PositionId /\ position[l1_cur].layer = "l1_funding"
        /\ position[l1_cur].state = "opening"
        /\ PositionBut("l2_cascade")[l1_cur] = position[l1_cur]
    BY <1>4, L1InHand, L1Reads DEF L1!SettleEntry, V1!Opening
  <2>2. V2!OthersRow(l1_cur, V2!LiveState \cup {"closing"})
    BY <1>r, <2>1
  <2>3. /\ l1_pc = "settle" /\ l1_cur' = NULL /\ legs' = {} /\ l1_pc' = "enter"
        /\ UNCHANGED <<cands, to_manage, to_enter, venue>>
        /\ \/ /\ legs = V1!OpenLegs /\ S!SetPositionState(l1_cur, "open")
              /\ l1_held' = l1_held \cup {PositionBut("l2_cascade")[l1_cur].metadata}
           \/ V1!Cardinality(legs) = 1 /\ S!SetHaltReason(l1_cur) /\ UNCHANGED l1_held
           \/ legs = {} /\ UNCHANGED storeVars /\ UNCHANGED l1_held
    BY <1>4, <2>1, StatementsSame, CardinalitySame
       DEF L1!SettleEntry, L1!OpenLegs, V1!OpenLegs, L1!MarkPositionOpen, L1!storeVars,
           storeVars
  <2>4. ASSUME S!SetPositionState(l1_cur, "open")
        PROVE  StoreInv' /\ V1!MarkPositionOpen(l1_cur) /\ UnseenByL2
    <3>1. /\ StoreInv' /\ V1!SetPositionState(l1_cur, "open")
          /\ UNCHANGED V2!storeVars
      BY <1>s, <2>1, <2>4, MarkViews
    <3> QED BY <3>1 DEF V1!MarkPositionOpen, UnseenByL2
  <2>5. ASSUME S!SetHaltReason(l1_cur)
        PROVE  StoreInv' /\ V1!SetHaltReason(l1_cur) /\ UnseenByL2
    <3>1. StoreInv' /\ V1!SetHaltReason(l1_cur) /\ V2!SetHaltReason(l1_cur)
      BY <2>1, <2>5, HaltViews
    <3>2. V2!Elsewhere(l1_cur)
      BY <2>2, <3>1 DEF V2!Elsewhere, V2!OtherLayers
    <3> QED BY <2>1, <3>1, <3>2 DEF UnseenByL2
  <2>6. ASSUME UNCHANGED storeVars
        PROVE  StoreInv' /\ UNCHANGED V1!storeVars /\ UnseenByL2
    BY <2>6, NothingViews DEF UnseenByL2
  <2> QED BY <2>3, <2>4, <2>5, <2>6 DEF V1!SettleEntry
<1> QED BY <1>1, <1>2, <1>3, <1>4

(***************************************************************************)
(* A run of Layer 1 is one as Layer 1 specifies it, and a layer that is    *)
(* not running finds done to the store only what it allows for.            *)
(***************************************************************************)
LEMMA L1Does ==
    ASSUME StoreInv, V1!Shape, V1!CapInv, L1!StartRun \/ L1!RunStep \/ L1!Interrupt
    PROVE  /\ StoreInv' /\ UnseenByL2
           /\ V1!StartRun \/ V1!RunStep \/ V1!Interrupt
<1>1. UNCHANGED storeVars => StoreInv' /\ UnseenByL2
  BY NothingViews DEF UnseenByL2
<1>2. UNCHANGED V2!storeVars => UnseenByL2
  BY DEF UnseenByL2
<1>3. ASSUME L1!StartRun \/ L1!Interrupt
      PROVE  StoreInv' /\ UnseenByL2 /\ (V1!StartRun \/ V1!Interrupt)
  BY <1>1, <1>3, L1Moves
<1>4. ASSUME NEW p \in PositionId, L1!KeepPosition(p) \/ L1!BeginClose(p)
      PROVE  StoreInv' /\ UnseenByL2 /\ (V1!KeepPosition(p) \/ V1!BeginClose(p))
  BY <1>1, <1>4, L1Moves, L1Marks
<1>5. ASSUME L1!ManageDone \/ L1!CloseCleared \/ L1!RunDone
      PROVE  StoreInv' /\ UnseenByL2 /\ (V1!ManageDone \/ V1!CloseCleared \/ V1!RunDone)
  BY <1>1, <1>5, L1Moves
<1>6. ASSUME L1!CloseRefused \/ L1!SettleClose \/ L1!SettleEntry
      PROVE  StoreInv' /\ UnseenByL2 /\ (V1!CloseRefused \/ V1!SettleClose \/ V1!SettleEntry)
  BY <1>6, L1Marks
<1>7. ASSUME L1!SubmitSpot \/ L1!SubmitPerp \/ L1!SubmitSpotClose \/ L1!SubmitPerpClose
      PROVE  /\ StoreInv' /\ UnseenByL2
             /\ V1!SubmitSpot \/ V1!SubmitPerp \/ V1!SubmitSpotClose \/ V1!SubmitPerpClose
  BY <1>2, <1>7, L1Submits
<1>8. ASSUME NEW a \in Pair, L1!SkipCandidate(a) \/ L1!RefuseEntry(a)
      PROVE  StoreInv' /\ UnseenByL2 /\ (V1!SkipCandidate(a) \/ V1!RefuseEntry(a))
  BY <1>1, <1>8, L1Moves
<1>9. ASSUME NEW a \in Pair, NEW p \in PositionId, L1!CreateEntry(a, p)
      PROVE  StoreInv' /\ UnseenByL2 /\ V1!CreateEntry(a, p)
  BY <1>9, L1Enters
<1> QED BY <1>3, <1>4, <1>5, <1>6, <1>7, <1>8, <1>9 DEF L1!RunStep, V1!RunStep

-----------------------------------------------------------------------------
(* Layer 2 *)

(* What a run of Layer 2 reads of the store is what it sees of it. *)
LEMMA L2Reads ==
    ASSUME StoreInv
    PROVE  /\ V2!Halted <=> L2!Halted
           /\ \A p \in PositionId : position[p].layer = "l2_cascade" =>
                PositionBut("l1_funding")[p] = position[p]
           /\ \A s : V2!In(s) = L2!In(s)
           /\ V2!HeldSymbols = L2!HeldSymbols
           /\ V2!StaleRungs = L2!StaleRungs
           /\ V2!TotalAtRisk = L2!TotalAtRisk
           /\ V2!LayerDeployed("l2_cascade") = L2!LayerDeployed("l2_cascade")
           /\ V2!LayerAlloc = L2!LayerAlloc
           /\ V2!Budget = L2!Budget
           /\ \A p : V2!RungPasses(p) <=> L2!RungPasses(p)
           /\ V2!RungSize = L2!RungSize
<1> USE DEF StoreInv
<1>1. V2!OpenPositions("l2_cascade") = L2!OpenPositions("l2_cascade")
  BY QueriesSame
<1>2. V2!Halted <=> L2!Halted
  BY DEF V2!Halted, L2!Halted, StateBut
<1>3. \A p \in PositionId : position[p].layer = "l2_cascade" =>
          PositionBut("l1_funding")[p] = position[p]
  BY RowSeen DEF Rows
<1>4. \A p \in L2!OpenPositions("l2_cascade") : PositionBut("l1_funding")[p] = position[p]
  BY <1>3 DEF L2!OpenPositions, L2!Live
<1>5. \A s : V2!In(s) = L2!In(s)
  BY <1>1, <1>4 DEF V2!In, L2!In, V2!L2Cascade, L2!L2Cascade
<1>6. V2!HeldSymbols = L2!HeldSymbols
  BY <1>1, <1>4 DEF V2!HeldSymbols, L2!HeldSymbols, V2!L2Cascade, L2!L2Cascade
<1>7. V2!StaleRungs = L2!StaleRungs
  BY <1>4, <1>5 DEF V2!StaleRungs, L2!StaleRungs, L2!In, L2!L2Cascade
<1>8. /\ V2!TotalAtRisk = L2!TotalAtRisk
      /\ V2!LayerDeployed("l2_cascade") = L2!LayerDeployed("l2_cascade")
  BY TotalsSame
<1>9. V2!LayerAlloc = L2!LayerAlloc
  <2>1. StateBut("l1_funding").dynamic_alloc["l2_cascade"]
          = system_state.dynamic_alloc["l2_cascade"]
    BY DEF StateBut, S!StoreTypeOK, S!SystemState
  <2> QED BY <2>1 DEF V2!LayerAlloc, L2!LayerAlloc, V2!DynamicAlloc, L2!DynamicAlloc,
             V2!L2Cascade, L2!L2Cascade
<1>10. V2!Budget = L2!Budget
  BY <1>8, <1>9 DEF V2!Budget, L2!Budget, V2!L2Cascade, L2!L2Cascade
<1>11. \A n : V2!UpTo(n) = L2!UpTo(n)
  BY DEF V2!UpTo, L2!UpTo
<1>12. V2!RungSize = L2!RungSize
  BY <1>11 DEF V2!RungSize, L2!RungSize
<1>13. ASSUME NEW p
       PROVE  V2!RungPasses(p) <=> L2!RungPasses(p)
  <2>1. V2!RungOrder(p) = L2!RungOrder(p) /\ L2!RungOrder(p).id = <<p, "pending">>
    BY <1>12 DEF V2!RungOrder, L2!RungOrder, V2!L2Cascade, L2!L2Cascade
  <2>2. <<p, "pending">> \in V2!SeenOrderIds <=> <<p, "pending">> \in L2!SeenOrderIds
    BY DEF V2!SeenOrderIds, L2!SeenOrderIds, FillOf, L2Tag
  <2>3. \A o, a, d, c : \A T, U : (o.id \in T <=> o.id \in U) =>
            (V2!CheckOrder(o, a, d, T, c) <=> L2!CheckOrder(o, a, d, U, c))
    BY DEF V2!CheckOrder, L2!CheckOrder
  <2> QED BY <1>11, <2>1, <2>2, <2>3 DEF V2!RungPasses, L2!RungPasses
<1> QED BY <1>2, <1>3, <1>5, <1>6, <1>7, <1>8, <1>9, <1>10, <1>12, <1>13

(* The rows a run has still to visit, or has in hand, are rungs of the layer. *)
LEMMA L2InHand ==
    ASSUME StoreInv, V2!Shape
    PROVE  /\ l2_pc = "refresh" => to_refresh \subseteq V2!In("opening")
           /\ l2_pc = "pending" => to_pending \subseteq V2!In("opening")
           /\ l2_pc = "filled" => to_filled \subseteq V2!In("open")
           /\ l2_pc \in {"mark_open", "pending_fill"} => l2_cur \in V2!In("opening")
           /\ l2_pc \in {"update_metadata", "close_rung"} => l2_cur \in V2!In("open")
           /\ \A s \in {"opening", "open"} : \A p \in V2!In(s) :
                 /\ p \in PositionId /\ position[p].layer = "l2_cascade"
                 /\ position[p].state = s /\ position[p].metadata \in Rung
                 /\ PositionBut("l1_funding")[p] = position[p]
                 /\ p \in V1!OpenPositions(V1!L2Cascade)
<1>1. /\ l2_pc = "refresh" => to_refresh \subseteq V2!In("opening")
      /\ l2_pc = "pending" => to_pending \subseteq V2!In("opening")
      /\ l2_pc = "filled" => to_filled \subseteq V2!In("open")
      /\ l2_pc \in {"mark_open", "pending_fill"} => l2_cur \in V2!In("opening")
      /\ l2_pc \in {"update_metadata", "close_rung"} => l2_cur \in V2!In("open")
  BY DEF V2!Shape, V2!SnapshotHolds, V2!HandHolds
<1>2. ASSUME NEW s \in {"opening", "open"}, NEW p \in V2!In(s)
      PROVE  /\ p \in PositionId /\ position[p].layer = "l2_cascade"
             /\ position[p].state = s /\ position[p].metadata \in Rung
             /\ PositionBut("l1_funding")[p] = position[p]
             /\ p \in V1!OpenPositions(V1!L2Cascade)
  <2>1. p \in L2!OpenPositions("l2_cascade") /\ position[p].state = s
    BY <1>2, L2Reads DEF L2!In, L2!L2Cascade
  <2>2. p \in PositionId /\ position[p].layer = "l2_cascade"
    BY <2>1 DEF L2!OpenPositions, L2!Live
  <2>3. PositionBut("l1_funding")[p] = position[p]
    BY <2>2, L2Reads
  <2>4. V2!IsRung(position[p].metadata)
    BY <1>2, <2>1, <2>2, <2>3 DEF V2!Shape, V2!RowsAreRungs, V2!L2Cascade
  <2>5. position[p].metadata \in Rung
    BY <2>4, L2Assumed DEF V2!IsRung
  <2>6. p \in V1!OpenPositions(V1!L2Cascade)
    BY <2>1, QueriesSame DEF StoreInv, V1!L2Cascade
  <2> QED BY <2>1, <2>2, <2>3, <2>5, <2>6
<1> QED BY <1>1, <1>2

(* Steps of a run that write nothing to the store. *)
LEMMA L2Moves ==
    ASSUME StoreInv, V2!Shape
    PROVE  /\ L2!StartRun => V2!StartRun /\ UNCHANGED storeVars
           /\ L2!Interrupt => V2!Interrupt /\ UNCHANGED storeVars
           /\ L2!RefreshDone => V2!RefreshDone /\ UNCHANGED storeVars
           /\ L2!PendingDone => V2!PendingDone /\ UNCHANGED storeVars
           /\ L2!FilledDone => V2!FilledDone /\ UNCHANGED storeVars
           /\ L2!RefuseRung => V2!RefuseRung /\ UNCHANGED storeVars
           /\ L2!LadderDone => V2!LadderDone /\ UNCHANGED storeVars
           /\ L2!RunDone => V2!RunDone /\ UNCHANGED storeVars
           /\ \A p \in PositionId :
                /\ L2!KeepRung(p) => V2!KeepRung(p) /\ UNCHANGED storeVars
                /\ L2!KeepFilled(p) => V2!KeepFilled(p) /\ UNCHANGED storeVars
                /\ \A s \in Symbol :
                     L2!DesignLadder(s, p) => V2!DesignLadder(s, p) /\ UNCHANGED storeVars
           /\ \A s \in Symbol : L2!PassSymbol(s) => V2!PassSymbol(s) /\ UNCHANGED storeVars
<1>1. UNCHANGED L2!storeVars <=> UNCHANGED storeVars
  BY DEF L2!storeVars, storeVars
<1>2. UNCHANGED storeVars => UNCHANGED V2!storeVars
  BY NothingViews
<1>3. UNCHANGED L2!loopVars <=> UNCHANGED V2!loopVars
  BY DEF L2!loopVars, V2!loopVars
<1>4. L2!Snapshot <=> V2!Snapshot
  BY L2Reads DEF L2!Snapshot, V2!Snapshot
<1>5. L2!StartRun => V2!StartRun /\ UNCHANGED storeVars
  BY <1>1, <1>2, <1>4, L2Reads DEF L2!StartRun, V2!StartRun, L2!L2Cascade, V2!L2Cascade
<1>6. L2!Interrupt => V2!Interrupt /\ UNCHANGED storeVars
  BY <1>1, <1>2 DEF L2!Interrupt, V2!Interrupt, L2!NoLadder, V2!NoLadder
<1>7. L2!RefreshDone => V2!RefreshDone /\ UNCHANGED storeVars
  BY <1>1, <1>2, <1>4 DEF L2!RefreshDone, V2!RefreshDone
<1>8. L2!PendingDone => V2!PendingDone /\ UNCHANGED storeVars
  BY <1>1, <1>2, <1>3 DEF L2!PendingDone, V2!PendingDone
<1>9. L2!FilledDone => V2!FilledDone /\ UNCHANGED storeVars
  BY <1>1, <1>2 DEF L2!FilledDone, V2!FilledDone
<1>10. V2!AtRung <=> L2!AtRung
  BY DEF V2!AtRung, L2!AtRung
<1>11. \A p \in PositionId : V2!IsNextId(p) <=> L2!IsNextId(p)
  BY QueriesSame DEF StoreInv
<1>12. L2!RefuseRung => V2!RefuseRung /\ UNCHANGED storeVars
  BY <1>1, <1>2, <1>3, <1>10, <1>11, L2Reads DEF L2!RefuseRung, V2!RefuseRung
<1>13. L2!LadderDone => V2!LadderDone /\ UNCHANGED storeVars
  BY <1>1, <1>2, <1>3 DEF L2!LadderDone, V2!LadderDone, L2!NoLadder, V2!NoLadder
<1>14. L2!RunDone => V2!RunDone /\ UNCHANGED storeVars
  BY <1>1, <1>2 DEF L2!RunDone, V2!RunDone
<1>15. ASSUME NEW p \in PositionId
       PROVE  /\ L2!KeepRung(p) => V2!KeepRung(p) /\ UNCHANGED storeVars
              /\ L2!KeepFilled(p) => V2!KeepFilled(p) /\ UNCHANGED storeVars
  <2>1. /\ V2!VisitPending(p) <=> L2!VisitPending(p)
        /\ V2!VisitFilled(p) <=> L2!VisitFilled(p)
    BY DEF V2!VisitPending, L2!VisitPending, V2!VisitFilled, L2!VisitFilled,
       V2!IsFirst, L2!IsFirst
  <2>2. L2!KeepRung(p) => V2!KeepRung(p) /\ UNCHANGED storeVars
    BY <1>1, <1>2, <2>1 DEF L2!KeepRung, V2!KeepRung
  <2>3. L2!KeepFilled(p) => V2!KeepFilled(p) /\ UNCHANGED storeVars
    BY <1>1, <1>2, <2>1 DEF L2!KeepFilled, V2!KeepFilled
  <2> QED BY <2>2, <2>3
<1>16. ASSUME NEW s \in Symbol, L2!VisitSymbol(s)
       PROVE  V2!VisitSymbol(s) /\ UNCHANGED storeVars
  BY <1>1, <1>2, <1>16 DEF V2!VisitSymbol, L2!VisitSymbol, V2!IsFirst, L2!IsFirst
<1>17. ASSUME NEW s \in Symbol, L2!PassSymbol(s)
       PROVE  V2!PassSymbol(s) /\ UNCHANGED storeVars
  BY <1>16, <1>17 DEF L2!PassSymbol, V2!PassSymbol
<1>18. ASSUME NEW s \in Symbol, NEW p \in PositionId, L2!DesignLadder(s, p)
       PROVE  V2!DesignLadder(s, p) /\ UNCHANGED storeVars
  BY <1>11, <1>16, <1>18, L2Reads DEF L2!DesignLadder, V2!DesignLadder, L2!L2Cascade,
     V2!L2Cascade
<1> QED BY <1>5, <1>6, <1>7, <1>8, <1>9, <1>12, <1>13, <1>14, <1>15, <1>17, <1>18

(* A fill of Layer 2, which Layer 1 never looks at. *)
LEMMA L2Fills ==
    ASSUME StoreInv, V2!Shape
    PROVE  /\ \A p \in PositionId :
                L2!FillRung(p) => StoreInv' /\ V2!FillRung(p) /\ UNCHANGED V1!storeVars
           /\ \A p \in PositionId : \A reason \in V2!ExitReason :
                L2!SellRung(p, reason) =>
                    StoreInv' /\ V2!SellRung(p, reason) /\ UNCHANGED V1!storeVars
           /\ L2!RecordPending => StoreInv' /\ V2!RecordPending /\ UNCHANGED V1!storeVars
<1>1. {"fill", "pending"} \subseteq L2Tag /\ V2!ExitReason \subseteq L2Tag
  BY DEF L2Tag, V2!ExitReason
<1>2. ASSUME NEW p \in PositionId, NEW tag \in L2Tag, NEW b \in BOOLEAN,
             L2!RecordFill(<<p, tag>>, b)
      PROVE  StoreInv' /\ V2!RecordFill(<<p, tag>>, b) /\ UNCHANGED V1!storeVars
  <2>1. S!RecordFill(<<p, tag>>, b)
    BY <1>2, StatementsSame
  <2> QED BY <2>1, FillViews
<1>3. ASSUME NEW p \in PositionId, L2!FillRung(p)
      PROVE  StoreInv' /\ V2!FillRung(p) /\ UNCHANGED V1!storeVars
  <2>1. L2!VisitPending(p) /\ L2!Tracked(p) /\ L2!RecordFill(<<p, "fill">>, TRUE)
    BY <1>3 DEF L2!FillRung
  <2>2. p \in V2!In("opening")
    BY <2>1, L2InHand DEF L2!VisitPending, L2!IsFirst
  <2>3. V2!Tracked(p)
    BY <2>1, <2>2, L2InHand DEF V2!Tracked, L2!Tracked
  <2>4. StoreInv' /\ V2!RecordFill(<<p, "fill">>, TRUE) /\ UNCHANGED V1!storeVars
    BY <1>1, <1>2, <2>1
  <2> QED BY <1>3, <2>3, <2>4 DEF L2!FillRung, V2!FillRung, L2!VisitPending,
             V2!VisitPending, L2!IsFirst, V2!IsFirst
<1>4. ASSUME NEW p \in PositionId, NEW reason \in V2!ExitReason, L2!SellRung(p, reason)
      PROVE  StoreInv' /\ V2!SellRung(p, reason) /\ UNCHANGED V1!storeVars
  <2>1. L2!VisitFilled(p) /\ L2!Managed(p) /\ L2!RecordFill(<<p, reason>>, TRUE)
    BY <1>4 DEF L2!SellRung
  <2>2. p \in V2!In("open")
    BY <2>1, L2InHand DEF L2!VisitFilled, L2!IsFirst
  <2>3. V2!Managed(p)
    BY <2>1, <2>2, L2InHand DEF V2!Managed, L2!Managed, V2!Tracked, L2!Tracked
  <2>4. StoreInv' /\ V2!RecordFill(<<p, reason>>, TRUE) /\ UNCHANGED V1!storeVars
    BY <1>1, <1>2, <2>1
  <2>5. V2!Pnl(reason) = L2!Pnl(reason)
    BY DEF V2!Pnl, L2!Pnl
  <2> QED BY <1>4, <2>3, <2>4, <2>5 DEF L2!SellRung, V2!SellRung, L2!VisitFilled,
             V2!VisitFilled, L2!IsFirst, V2!IsFirst
<1>5. ASSUME L2!RecordPending
      PROVE  StoreInv' /\ V2!RecordPending /\ UNCHANGED V1!storeVars
  <2>1. l2_cur \in PositionId /\ L2!RecordFill(<<l2_cur, "pending">>, FALSE)
    BY <1>5, L2InHand DEF L2!RecordPending
  <2>2. StoreInv' /\ V2!RecordFill(<<l2_cur, "pending">>, FALSE) /\ UNCHANGED V1!storeVars
    BY <1>1, <1>2, <2>1
  <2> QED BY <1>5, <2>2 DEF L2!RecordPending, V2!RecordPending, L2!loopVars, V2!loopVars
<1> QED BY <1>3, <1>4, <1>5

(* A sale realizes a unit, or the loss of one. *)
SaleIsUnit == sale \in {-1, 0, 1}

(* What a run of Layer 2 does with a row of its own. *)
LEMMA L2Marks ==
    ASSUME StoreInv, V2!Shape, SaleIsUnit
    PROVE  /\ \A p \in PositionId :
                /\ L2!RefreshRung(p) => StoreInv' /\ V2!RefreshRung(p) /\ UnseenByL1
                /\ L2!CancelRung(p) => StoreInv' /\ V2!CancelRung(p) /\ UnseenByL1
           /\ L2!CloseRung => StoreInv' /\ V2!CloseRung /\ UnseenByL1
           /\ L2!MarkRungOpen => StoreInv' /\ V2!MarkRungOpen /\ UNCHANGED V1!storeVars
           /\ L2!UpdateMetadata => StoreInv' /\ V2!UpdateMetadata /\ UNCHANGED V1!storeVars
<1>1. ASSUME NEW s \in {"opening", "open"}, NEW p \in V2!In(s), NEW x \in {-1, 0, 1},
             L2!ClosePosition(p, x)
      PROVE  StoreInv' /\ V2!ClosePosition(p, x) /\ UnseenByL1
  <2>1. /\ p \in PositionId /\ position[p].layer = "l2_cascade"
        /\ position[p].state \notin {"absent", "closed"}
        /\ p \in V1!OpenPositions(V1!L2Cascade)
    BY <1>1, L2InHand
  <2>2. S!ClosePosition(p, x)
    BY <1>1, StatementsSame
  <2>3. StoreInv' /\ V2!ClosePosition(p, x) /\ V1!ClosePosition(p, 0)
    BY <2>1, <2>2, CloseViews
  <2>4. V1!Elsewhere(p)
    BY <2>1, <2>3 DEF V1!Elsewhere
  <2> QED BY <2>1, <2>3, <2>4 DEF UnseenByL1
<1>2. ASSUME NEW p \in PositionId, L2!RefreshRung(p)
      PROVE  StoreInv' /\ V2!RefreshRung(p) /\ UnseenByL1
  <2>1. p \in V2!In("opening") /\ L2!ClosePosition(p, 0)
    BY <1>2, L2InHand DEF L2!RefreshRung, L2!IsFirst
  <2>2. StoreInv' /\ V2!ClosePosition(p, 0) /\ UnseenByL1
    BY <1>1, <2>1
  <2> QED BY <1>2, <2>2 DEF L2!RefreshRung, V2!RefreshRung, L2!IsFirst, V2!IsFirst
<1>3. ASSUME NEW p \in PositionId, L2!CancelRung(p)
      PROVE  StoreInv' /\ V2!CancelRung(p) /\ UnseenByL1
  <2>1. p \in V2!In("opening") /\ L2!ClosePosition(p, 0) /\ L2!Tracked(p)
    BY <1>3, L2InHand DEF L2!CancelRung, L2!VisitPending, L2!IsFirst
  <2>2. StoreInv' /\ V2!ClosePosition(p, 0) /\ UnseenByL1
    BY <1>1, <2>1
  <2>3. V2!Tracked(p)
    BY <2>1, L2InHand DEF V2!Tracked, L2!Tracked
  <2> QED BY <1>3, <2>2, <2>3 DEF L2!CancelRung, V2!CancelRung, L2!VisitPending,
             V2!VisitPending, L2!IsFirst, V2!IsFirst
<1>4. ASSUME L2!CloseRung
      PROVE  StoreInv' /\ V2!CloseRung /\ UnseenByL1
  <2>1. l2_cur \in V2!In("open") /\ L2!ClosePosition(l2_cur, sale)
    BY <1>4, L2InHand DEF L2!CloseRung
  <2>2. StoreInv' /\ V2!ClosePosition(l2_cur, sale) /\ UnseenByL1
    BY <1>1, <2>1 DEF SaleIsUnit
  <2> QED BY <1>4, <2>2 DEF L2!CloseRung, V2!CloseRung, L2!loopVars, V2!loopVars
<1>5. ASSUME L2!MarkRungOpen
      PROVE  StoreInv' /\ V2!MarkRungOpen /\ UNCHANGED V1!storeVars
  <2>1. /\ l2_cur \in PositionId /\ position[l2_cur].layer = "l2_cascade"
        /\ position[l2_cur].state = "opening"
    BY <1>5, L2InHand DEF L2!MarkRungOpen
  <2>2. S!SetPositionState(l2_cur, "open")
    BY <1>5, StatementsSame DEF L2!MarkRungOpen, L2!MarkPositionOpen
  <2>3. "open" \in S!PositionState \ {"absent", "closed"}
    BY DEF S!PositionState
  <2>4. StoreInv' /\ V2!SetPositionState(l2_cur, "open") /\ UNCHANGED V1!storeVars
    BY <2>1, <2>2, <2>3, MarkViews
  <2> QED BY <1>5, <2>4 DEF L2!MarkRungOpen, V2!MarkRungOpen, V2!MarkPositionOpen,
             L2!loopVars, V2!loopVars
<1>6. ASSUME L2!UpdateMetadata
      PROVE  StoreInv' /\ V2!UpdateMetadata /\ UNCHANGED V1!storeVars
  <2>1. /\ l2_cur \in PositionId /\ position[l2_cur].layer = "l2_cascade"
        /\ position[l2_cur].state = "open" /\ position[l2_cur].metadata \in Rung
    BY <1>6, L2InHand DEF L2!UpdateMetadata
  <2>2. /\ position' = [position EXCEPT ![l2_cur].metadata.phase = "tp_pending"]
        /\ UNCHANGED <<fill, system_state>>
    BY <1>6 DEF L2!UpdateMetadata
  <2>3. /\ StoreInv' /\ UNCHANGED V1!storeVars
        /\ PositionBut("l1_funding")'
             = [PositionBut("l1_funding") EXCEPT ![l2_cur].metadata.phase = "tp_pending"]
        /\ UNCHANGED <<FillOf(L2Tag), StateBut("l1_funding")>>
    BY <2>1, <2>2, PhaseViews
  <2> QED BY <1>6, <2>3 DEF L2!UpdateMetadata, V2!UpdateMetadata, L2!loopVars, V2!loopVars
<1> QED BY <1>2, <1>3, <1>4, <1>5, <1>6

(* A rung: Layer 1 finds a row of an order's size, within the cap. *)
LEMMA L2Enters ==
    ASSUME StoreInv, V2!Shape, V2!CapInv, NEW p \in PositionId, L2!PlaceRung(p)
    PROVE  StoreInv' /\ V2!PlaceRung(p) /\ UnseenByL1
<1> DEFINE md == [symbol |-> ladder.symbol, group |-> ladder.group,
                  rung |-> ladder.next, design |-> config.design,
                  phase |-> "pending_rung"]
<1>1. V2!AtRung /\ V2!RungPasses(p) /\ V2!RungSize = L2!RungSize
  BY L2Reads DEF L2!PlaceRung, V2!AtRung, L2!AtRung
<1>2. /\ V2!TotalAtRisk + V2!RungSize <= MaxTotalDeployed
      /\ V2!RungSize \in 1..MaxPerPosition /\ V2!RungSize \in 0..MaxNotional
      /\ ladder.next \in 1..config.design.levels
  BY <1>1, L2Fits
<1>3. md \in Rung
  <2>1. ladder.symbol \in Symbol /\ ladder.group \in PositionId /\ config \in Configs
    BY <1>1 DEF V2!AtRung, V2!Shape, V2!TypeOK, V2!LadderHolds, V2!Placing
  <2>2. md \in V2!RungMetadata({config.design}, 1..config.design.levels)
    BY <1>2, <2>1 DEF V2!RungMetadata, V2!Phase
  <2>3. V2!RungMetadata({config.design}, 1..config.design.levels) \subseteq Rung
    BY <2>1, L2Assumed
  <2> QED BY <2>2, <2>3
<1>4. L2!CreatePosition(p, "l2_cascade", V2!RungSize, md)
  BY <1>1 DEF L2!PlaceRung, L2!L2Cascade
<1> HIDE DEF md
<1>5. S!CreatePosition(p, "l2_cascade", V2!RungSize, md)
  BY <1>4, InsertsSame DEF StoreInv
<1>6. /\ StoreInv' /\ V2!CreatePosition(p, "l2_cascade", V2!RungSize, md)
      /\ V1!CreatePosition(p, "l2_cascade", V2!RungSize, NULL)
  BY <1>2, <1>3, <1>5, CreateViews
<1>7. V2!PlaceRung(p)
  BY <1>1, <1>6 DEF L2!PlaceRung, V2!PlaceRung, L2!loopVars, V2!loopVars, V2!L2Cascade, md
<1>8. V1!TotalAtRisk + V2!RungSize <= MaxTotalDeployed
  BY <1>2, TotalsSame DEF StoreInv
<1>9. V1!Elsewhere(p)
  BY <1>2, <1>6, <1>8 DEF V1!Elsewhere, V1!L2Cascade
<1> QED BY <1>6, <1>7, <1>9 DEF UnseenByL1

(***************************************************************************)
(* The same of a run of Layer 2.                                           *)
(***************************************************************************)
LEMMA L2Does ==
    ASSUME StoreInv, V2!Shape, V2!CapInv, SaleIsUnit,
           L2!StartRun \/ L2!RunStep \/ L2!Interrupt
    PROVE  /\ StoreInv' /\ UnseenByL1
           /\ V2!StartRun \/ V2!RunStep \/ V2!Interrupt
<1>1. UNCHANGED storeVars => StoreInv' /\ UnseenByL1
  BY NothingViews DEF UnseenByL1
<1>2. UNCHANGED V1!storeVars => UnseenByL1
  BY DEF UnseenByL1
<1>3. ASSUME L2!StartRun \/ L2!Interrupt
      PROVE  StoreInv' /\ UnseenByL1 /\ (V2!StartRun \/ V2!Interrupt)
  BY <1>1, <1>3, L2Moves
<1>4. ASSUME NEW p \in PositionId, L2!RefreshRung(p) \/ L2!CancelRung(p)
      PROVE  StoreInv' /\ UnseenByL1 /\ (V2!RefreshRung(p) \/ V2!CancelRung(p))
  BY <1>4, L2Marks
<1>5. ASSUME NEW p \in PositionId, L2!KeepRung(p) \/ L2!KeepFilled(p)
      PROVE  StoreInv' /\ UnseenByL1 /\ (V2!KeepRung(p) \/ V2!KeepFilled(p))
  BY <1>1, <1>5, L2Moves
<1>6. ASSUME NEW p \in PositionId, L2!FillRung(p)
      PROVE  StoreInv' /\ UnseenByL1 /\ V2!FillRung(p)
  BY <1>2, <1>6, L2Fills
<1>7. ASSUME NEW p \in PositionId, NEW reason \in L2!ExitReason, L2!SellRung(p, reason)
      PROVE  StoreInv' /\ UnseenByL1 /\ reason \in V2!ExitReason /\ V2!SellRung(p, reason)
  <2>1. reason \in V2!ExitReason
    BY DEF L2!ExitReason, V2!ExitReason
  <2> QED BY <1>2, <1>7, <2>1, L2Fills
<1>8. ASSUME NEW p \in PositionId, NEW s \in Symbol, L2!DesignLadder(s, p)
      PROVE  StoreInv' /\ UnseenByL1 /\ V2!DesignLadder(s, p)
  BY <1>1, <1>8, L2Moves
<1>9. ASSUME NEW p \in PositionId, L2!PlaceRung(p)
      PROVE  StoreInv' /\ UnseenByL1 /\ V2!PlaceRung(p)
  BY <1>9, L2Enters
<1>10. ASSUME NEW s \in Symbol, L2!PassSymbol(s)
       PROVE  StoreInv' /\ UnseenByL1 /\ V2!PassSymbol(s)
  BY <1>1, <1>10, L2Moves
<1>11. ASSUME \/ L2!RefreshDone \/ L2!PendingDone \/ L2!FilledDone
              \/ L2!RefuseRung \/ L2!LadderDone \/ L2!RunDone
       PROVE  /\ StoreInv' /\ UnseenByL1
              /\ \/ V2!RefreshDone \/ V2!PendingDone \/ V2!FilledDone
                 \/ V2!RefuseRung \/ V2!LadderDone \/ V2!RunDone
  BY <1>1, <1>11, L2Moves
<1>12. ASSUME L2!MarkRungOpen \/ L2!UpdateMetadata \/ L2!CloseRung \/ L2!RecordPending
       PROVE  /\ StoreInv' /\ UnseenByL1
              /\ V2!MarkRungOpen \/ V2!UpdateMetadata \/ V2!CloseRung \/ V2!RecordPending
  BY <1>2, <1>12, L2Marks, L2Fills
<1>13. L2!RunStep => StoreInv' /\ UnseenByL1 /\ V2!RunStep
  BY <1>4, <1>5, <1>6, <1>7, <1>8, <1>9, <1>10, <1>11, <1>12 DEF L2!RunStep, V2!RunStep
<1> QED BY <1>3, <1>13

-----------------------------------------------------------------------------
(* The cycle *)

(* A run is under way only in the turn of its layer. *)
TurnInv ==
    /\ turn # "l1" => l1_pc = "idle"
    /\ turn # "l2" => l2_pc = "idle"

SystemInv ==
    /\ StoreInv /\ SaleIsUnit /\ TurnInv
    /\ V1!Shape /\ V1!CapInv
    /\ V2!Shape /\ V2!CapInv

(* What is not seen happens between two runs, if none is under way. *)
LEMMA Between ==
    /\ l1_pc = "idle" /\ UNCHANGED l1Vars /\ UnseenByL1 => [V1!Next]_V1!vars
    /\ l2_pc = "idle" /\ UNCHANGED l2Vars /\ UnseenByL2 => [V2!Next]_V2!vars
<1>1. ASSUME l1_pc = "idle", UNCHANGED l1Vars, UnseenByL1
      PROVE  [V1!Next]_V1!vars
  <2>1. CASE UNCHANGED V1!storeVars
    <3>1. UNCHANGED V1!vars
      BY <1>1, <2>1 DEF l1Vars, V1!storeVars, V1!vars
    <3> QED BY <3>1
  <2>2. CASE \E p \in PositionId : V1!Elsewhere(p)
    <3>1. V1!BetweenRuns
      BY <1>1, <2>2 DEF l1Vars, V1!BetweenRuns, V1!runVars
    <3> QED BY <3>1 DEF V1!Next
  <2> QED BY <1>1, <2>1, <2>2 DEF UnseenByL1
<1>2. ASSUME l2_pc = "idle", UNCHANGED l2Vars, UnseenByL2
      PROVE  [V2!Next]_V2!vars
  <2>1. CASE UNCHANGED V2!storeVars
    <3>1. UNCHANGED V2!vars
      BY <1>2, <2>1 DEF l2Vars, V2!storeVars, V2!vars
    <3> QED BY <3>1
  <2>2. CASE \E p \in PositionId : V2!Elsewhere(p)
    <3>1. V2!BetweenRuns
      BY <1>2, <2>2 DEF l2Vars, V2!BetweenRuns, V2!loopVars
    <3> QED BY <3>1 DEF V2!Next
  <2> QED BY <1>2, <2>1, <2>2 DEF UnseenByL2
<1> QED BY <1>1, <1>2

(* A step of the system is a step of each layer as it sees the store. *)
LEMMA SystemStep ==
    ASSUME SystemInv, [Next]_vars
    PROVE  /\ [V1!Next]_V1!vars /\ [V2!Next]_V2!vars
           /\ StoreInv' /\ SaleIsUnit' /\ TurnInv'
<1> USE DEF SystemInv
<1>1. ASSUME UNCHANGED storeVars
      PROVE  StoreInv' /\ UnseenByL1 /\ UnseenByL2
  BY <1>1, NothingViews DEF UnseenByL1, UnseenByL2
<1>2. ASSUME UNCHANGED l1Vars, UNCHANGED l2Vars, UnseenByL1, UnseenByL2,
             l1_pc = "idle", l2_pc = "idle"
      PROVE  [V1!Next]_V1!vars /\ [V2!Next]_V2!vars /\ SaleIsUnit' /\ TurnInv'
  <2>1. SaleIsUnit' /\ TurnInv'
    BY <1>2 DEF SaleIsUnit, TurnInv, l1Vars, l2Vars
  <2> QED BY <1>2, <2>1, Between
<1>3. ASSUME L1!StartRun \/ L1!RunStep \/ L1!Interrupt, UNCHANGED l2Vars, l2_pc = "idle",
             l1_pc' = "idle" \/ turn' = "l1"
      PROVE  /\ [V1!Next]_V1!vars /\ [V2!Next]_V2!vars
             /\ StoreInv' /\ SaleIsUnit' /\ TurnInv'
  <2>1. /\ StoreInv' /\ UnseenByL2
        /\ V1!StartRun \/ V1!RunStep \/ V1!Interrupt
    BY <1>3, L1Does
  <2>2. [V2!Next]_V2!vars
    BY <1>3, <2>1, Between
  <2>3. SaleIsUnit' /\ TurnInv'
    BY <1>3 DEF SaleIsUnit, TurnInv, l2Vars
  <2> QED BY <2>1, <2>2, <2>3 DEF V1!Next
<1>4. ASSUME L2!StartRun \/ L2!RunStep \/ L2!Interrupt, UNCHANGED l1Vars, l1_pc = "idle",
             l2_pc' = "idle" \/ turn' = "l2"
      PROVE  /\ [V1!Next]_V1!vars /\ [V2!Next]_V2!vars
             /\ StoreInv' /\ SaleIsUnit' /\ TurnInv'
  <2>1. /\ StoreInv' /\ UnseenByL1
        /\ V2!StartRun \/ V2!RunStep \/ V2!Interrupt
    BY <1>4, L2Does
  <2>2. [V1!Next]_V1!vars
    BY <1>4, <2>1, Between
  <2>3. TurnInv'
    BY <1>4 DEF TurnInv, l1Vars
  <2>4. SaleIsUnit'
    <3>1. \A reason \in L2!ExitReason : L2!Pnl(reason) \subseteq {-1, 1}
      BY DEF L2!Pnl, L2!ExitReason
    <3>2. UNCHANGED sale \/ sale' = 0 \/ sale' \in {-1, 1}
      BY <1>4, <3>1
         DEF L2!StartRun, L2!RunStep, L2!Interrupt, L2!RefreshRung, L2!KeepRung,
             L2!CancelRung, L2!FillRung, L2!VisitPending, L2!KeepFilled, L2!SellRung,
             L2!DesignLadder, L2!VisitSymbol, L2!PassSymbol, L2!PlaceRung, L2!RefreshDone,
             L2!MarkRungOpen, L2!UpdateMetadata, L2!PendingDone, L2!CloseRung,
             L2!FilledDone, L2!RefuseRung, L2!RecordPending, L2!LadderDone, L2!RunDone
    <3> QED BY <3>2 DEF SaleIsUnit
  <2> QED BY <2>1, <2>2, <2>3, <2>4 DEF V2!Next
<1>5. CASE L1Runs
  BY <1>3, <1>5 DEF L1Runs, AfterL1, TurnInv
<1>6. CASE L2Runs
  BY <1>4, <1>6 DEF L2Runs, AfterL2, TurnInv
<1>7. CASE L1Skips \/ L2Skips \/ NextCycle
  <2>1. /\ UNCHANGED storeVars /\ UNCHANGED l1Vars /\ UNCHANGED l2Vars
        /\ l1_pc = "idle" /\ l2_pc = "idle"
    BY <1>7 DEF L1Skips, L2Skips, NextCycle, TurnInv
  <2> QED BY <1>1, <1>2, <2>1
<1>8. ASSUME S!ReconcileAtRisk \/ (Halted /\ S!SetHaltReason(NULL))
      PROVE  StoreInv' /\ UnseenByL1 /\ UnseenByL2
  <2>1. PICK p : p \in PositionId
    BY SystemAssumption
  <2>2. CASE S!ReconcileAtRisk
    <3>1. StoreInv' /\ V1!ReconcileAtRisk /\ V2!ReconcileAtRisk
      BY <2>2, ReconcileViews
    <3> QED BY <2>1, <3>1 DEF UnseenByL1, UnseenByL2, V1!Elsewhere, V2!Elsewhere
  <2>3. CASE Halted /\ S!SetHaltReason(NULL)
    <3>1. StoreInv' /\ V1!SetHaltReason(NULL) /\ V2!SetHaltReason(NULL)
      BY <2>3, HaltViews
    <3>2. V1!Halted /\ V2!Halted
      BY <2>3 DEF Halted, V1!Halted, V2!Halted, StateBut
    <3> QED BY <2>1, <3>1, <3>2 DEF UnseenByL1, UnseenByL2, V1!Elsewhere, V2!Elsewhere
  <2> QED BY <1>8, <2>2, <2>3
<1>9. CASE Reconcile
  <2>1. S!ReconcileAtRisk
    BY <1>9, TotalsSame DEF Reconcile, L1!ReconcileAtRisk, S!ReconcileAtRisk, StoreInv
  <2>2. UNCHANGED l1Vars /\ UNCHANGED l2Vars /\ l1_pc = "idle" /\ l2_pc = "idle"
    BY <1>9 DEF Reconcile, TurnInv
  <2> QED BY <1>2, <1>8, <2>1, <2>2
<1>10. CASE ClearHalt
  <2>1. Halted /\ S!SetHaltReason(NULL)
    BY <1>10, StatementsSame DEF ClearHalt
  <2>2. UNCHANGED l1Vars /\ UNCHANGED l2Vars /\ l1_pc = "idle" /\ l2_pc = "idle"
    BY <1>10 DEF ClearHalt, TurnInv
  <2> QED BY <1>2, <1>8, <2>1, <2>2
<1>11. CASE Crash
  <2>1. CASE L1!Interrupt /\ UNCHANGED l2Vars
    <3>1. l1_pc # "idle" /\ l1_pc' = "idle"
      BY <2>1 DEF L1!Interrupt
    <3> QED BY <1>3, <2>1, <3>1 DEF TurnInv
  <2>2. CASE L2!Interrupt /\ UNCHANGED l1Vars
    <3>1. l2_pc # "idle" /\ l2_pc' = "idle"
      BY <2>2 DEF L2!Interrupt
    <3> QED BY <1>4, <2>2, <3>1 DEF TurnInv
  <2> QED BY <1>11, <2>1, <2>2 DEF Crash
<1>12. CASE UNCHANGED vars
  <2>1. /\ UNCHANGED storeVars /\ UNCHANGED l1Vars /\ UNCHANGED l2Vars /\ UNCHANGED turn
    BY <1>12 DEF vars
  <2>2. StoreInv' /\ UNCHANGED V1!storeVars /\ UNCHANGED V2!storeVars
    BY <2>1, NothingViews
  <2>3. UNCHANGED V1!vars /\ UNCHANGED V2!vars
    BY <2>1, <2>2 DEF l1Vars, l2Vars, V1!storeVars, V2!storeVars, V1!vars, V2!vars
  <2>4. SaleIsUnit' /\ TurnInv'
    BY <2>1 DEF SaleIsUnit, TurnInv, l1Vars, l2Vars
  <2> QED BY <2>2, <2>3, <2>4
<1> QED
  BY <1>5, <1>6, <1>7, <1>9, <1>10, <1>11, <1>12 DEF Next

(* At the start each layer sees an empty store. *)
LEMMA SystemInit == Init => SystemInv /\ V1!Init /\ V2!Init
<1> SUFFICES ASSUME Init PROVE SystemInv /\ V1!Init /\ V2!Init
  OBVIOUS
<1>1. /\ position = [p \in PositionId |-> [state |-> "absent", layer |-> "l1_funding",
                         notional |-> 0, realized |-> 0, metadata |-> NULL]]
      /\ fill = {}
      /\ system_state = [halt_reason |-> NULL, total_at_risk_usd |-> 0,
                         cumulative_pnl |-> 0, dynamic_alloc |-> [l \in L1!Layer |-> NULL]]
  BY DEF Init, L1!Init, L1!StoreInit, L1!NoRow, L1!L1Funding
<1>2. \A p \in PositionId : position[p].state = "absent" /\ position[p].realized = 0
  BY <1>1
<1>3. \A l : Rows(l) = {}
  BY <1>2 DEF Rows
<1>4. \A l : Realized(l) = 0
  <2>1. Cardinality({}) = 0
    BY FS_EmptySet
  <2>2. ASSUME NEW l PROVE Gains(l) = 0 /\ Losses(l) = 0
    BY <1>3, <2>1 DEF Gains, Losses
  <2> QED BY <2>2 DEF Realized
<1>5. \A l : PositionBut(l) = position
  BY <1>1, <1>2 DEF PositionBut
<1>6. \A T : FillOf(T) = {}
  BY <1>1 DEF FillOf
<1>7. \A l : StateBut(l) = system_state
  <2> SUFFICES ASSUME NEW l PROVE StateBut(l) = system_state
    OBVIOUS
  <2>1. [system_state.dynamic_alloc EXCEPT ![l] = NULL] = system_state.dynamic_alloc
    BY <1>1
  <2> QED BY <1>1, <1>4, <2>1 DEF StateBut
<1>8. S!StoreTypeOK
  <2>1. L1!Layer = S!Layer /\ "l1_funding" \in S!Layer
    BY DEF L1!Layer, S!Layer, L1!L1Funding, S!L1Funding, L1!L2Cascade, S!L2Cascade,
       L1!L3Tail, S!L3Tail
  <2>2. position \in [PositionId -> S!PositionRow]
    BY <1>1, <2>1, SystemAssumption DEF S!PositionRow, S!PositionState
  <2>3. system_state \in S!SystemState
    BY <1>1, <2>1 DEF S!SystemState
  <2> QED BY <1>1, <2>2, <2>3 DEF S!StoreTypeOK
<1>9. StoreInv
  <2>1. Books
    BY <1>2 DEF Books
  <2>2. RealizedAddsUp
    BY <1>1, <1>4 DEF RealizedAddsUp
  <2> QED BY <1>8, <2>1, <2>2 DEF StoreInv
<1>10. V1!Init
  <2>1. V1!StoreInit
    <3>1. V1!NoRow = L1!NoRow /\ V1!Layer = L1!Layer
      BY DEF V1!NoRow, L1!NoRow, V1!L1Funding, L1!L1Funding, V1!Layer, L1!Layer,
         V1!L2Cascade, L1!L2Cascade, V1!L3Tail, L1!L3Tail
    <3> QED BY <1>5, <1>6, <1>7, <3>1 DEF Init, L1!Init, L1!StoreInit, V1!StoreInit
  <2> QED BY <2>1 DEF Init, L1!Init, V1!Init, L1!NoCands, V1!NoCands, L1!ClientOrderId,
             V1!ClientOrderId
<1>11. V2!Init
  <2>1. V2!StoreInit
    <3>1. V2!NoRow = L2!NoRow /\ V2!Layer = L2!Layer
      BY DEF V2!NoRow, L2!NoRow, V2!L1Funding, L2!L1Funding, V2!Layer, L2!Layer,
         V2!L2Cascade, L2!L2Cascade, V2!L3Tail, L2!L3Tail
    <3> QED BY <1>5, <1>6, <1>7, <3>1 DEF Init, L2!Init, L2!StoreInit, V2!StoreInit
  <2> QED BY <2>1 DEF Init, L2!Init, V2!Init, L2!NoLadder, V2!NoLadder
<1>12. SaleIsUnit /\ TurnInv
  BY DEF Init, L1!Init, L2!Init, SaleIsUnit, TurnInv
<1> QED BY <1>9, <1>10, <1>11, <1>12, L1Keeps, L2Keeps DEF SystemInv

LEMMA SystemHolds == Spec => []SystemInv
<1>1. Init => SystemInv
  BY SystemInit
<1>2. SystemInv /\ [Next]_vars => SystemInv'
  <2> SUFFICES ASSUME SystemInv, [Next]_vars PROVE SystemInv'
    OBVIOUS
  <2>1. /\ [V1!Next]_V1!vars /\ [V2!Next]_V2!vars
        /\ StoreInv' /\ SaleIsUnit' /\ TurnInv'
    BY SystemStep
  <2>2. V1!Shape' /\ V1!CapInv'
    BY <2>1, L1Keeps DEF SystemInv
  <2>3. V2!Shape' /\ V2!CapInv'
    BY <2>1, L2Keeps DEF SystemInv
  <2> QED BY <2>1, <2>2, <2>3 DEF SystemInv
<1> QED BY <1>1, <1>2, PTL DEF Spec

(***************************************************************************)
(* Whatever runs are cut between a sale and its close, and whichever layer *)
(* closes a row, cumulative_pnl as close_position adds it up is what the   *)
(* closed rows realized.                                                   *)
(***************************************************************************)
THEOREM ProfitsAddUp == Spec => []RealizedAddsUp
<1>1. SystemInv => RealizedAddsUp
  BY DEF SystemInv, StoreInv
<1> QED BY <1>1, SystemHolds, PTL

-----------------------------------------------------------------------------
(* The refinements *)

LEMMA SeenCardinality ==
    \A T : /\ V1!Cardinality(T) = SeenByL1!Cardinality(T)
           /\ V2!Cardinality(T) = SeenByL2!Cardinality(T)
<1> SUFFICES ASSUME NEW T
             PROVE  /\ V1!Cardinality(T) = SeenByL1!Cardinality(T)
                    /\ V2!Cardinality(T) = SeenByL2!Cardinality(T)
  OBVIOUS
<1>1. V1!Cardinality(T) = SeenByL1!Cardinality(T)
  BY DEF V1!Cardinality, SeenByL1!Cardinality
<1>2. V2!Cardinality(T) = SeenByL2!Cardinality(T)
  BY DEF V2!Cardinality, SeenByL2!Cardinality
<1> QED BY <1>1, <1>2

(***************************************************************************)
(* System names what Layer 1 sees SeenByL1; here it is V1, with what is    *)
(* proved of it.  The two say the same, operator for operator.             *)
(***************************************************************************)
LEMMA SeenByL1IsV1 ==
    /\ V1!Init <=> SeenByL1!Init
    /\ V1!Next <=> SeenByL1!Next
<1>1. V1!StoreInit <=> SeenByL1!StoreInit
  BY DEF V1!StoreInit, SeenByL1!StoreInit, V1!NoRow, SeenByL1!NoRow, V1!Layer,
         SeenByL1!Layer, V1!L1Funding, SeenByL1!L1Funding, V1!L2Cascade,
         SeenByL1!L2Cascade, V1!L3Tail, SeenByL1!L3Tail
<1>2. /\ V1!Live = SeenByL1!Live
      /\ \A l : V1!OpenPositions(l) = SeenByL1!OpenPositions(l)
      /\ V1!Halted <=> SeenByL1!Halted
      /\ V1!SeenOrderIds = SeenByL1!SeenOrderIds
      /\ \A p : V1!IsNextId(p) <=> SeenByL1!IsNextId(p)
  BY DEF V1!Live, SeenByL1!Live, V1!LiveState, SeenByL1!LiveState, V1!OpenPositions,
         SeenByL1!OpenPositions, V1!Halted, SeenByL1!Halted, V1!SeenOrderIds,
         SeenByL1!SeenOrderIds, V1!IsNextId, SeenByL1!IsNextId
<1>3. \A T : V1!Notional(T) = SeenByL1!Notional(T)
  BY SeenCardinality
     DEF V1!Notional, SeenByL1!Notional, V1!SumNotional, SeenByL1!SumNotional, V1!Units,
         SeenByL1!Units
<1>4. /\ V1!TotalAtRisk = SeenByL1!TotalAtRisk
      /\ \A l : V1!LayerDeployed(l) = SeenByL1!LayerDeployed(l)
  BY <1>2, <1>3
     DEF V1!TotalAtRisk, SeenByL1!TotalAtRisk, V1!LayerDeployed, SeenByL1!LayerDeployed
<1>5. /\ \A p, l, n, md : V1!CreatePosition(p, l, n, md) <=> SeenByL1!CreatePosition(p, l, n, md)
      /\ \A p, s : V1!SetPositionState(p, s) <=> SeenByL1!SetPositionState(p, s)
      /\ \A p, x : V1!ClosePosition(p, x) <=> SeenByL1!ClosePosition(p, x)
  BY <1>2
     DEF V1!CreatePosition, SeenByL1!CreatePosition, V1!SetPositionState,
         SeenByL1!SetPositionState, V1!ClosePosition, SeenByL1!ClosePosition
<1>6. /\ \A id, b : V1!RecordFill(id, b) <=> SeenByL1!RecordFill(id, b)
      /\ \A r : V1!SetHaltReason(r) <=> SeenByL1!SetHaltReason(r)
      /\ \A l, usd : V1!SetDynamicAllocation(l, usd) <=> SeenByL1!SetDynamicAllocation(l, usd)
      /\ V1!ReconcileAtRisk <=> SeenByL1!ReconcileAtRisk
      /\ V1!storeVars = SeenByL1!storeVars
  BY <1>2, <1>4
     DEF V1!RecordFill, SeenByL1!RecordFill, V1!SetHaltReason, SeenByL1!SetHaltReason,
         V1!SetDynamicAllocation, SeenByL1!SetDynamicAllocation, V1!ReconcileAtRisk,
         SeenByL1!ReconcileAtRisk, V1!storeVars, SeenByL1!storeVars
<1>7. \A o, a, d, T, c : V1!CheckOrder(o, a, d, T, c) <=> SeenByL1!CheckOrder(o, a, d, T, c)
  BY DEF V1!CheckOrder, SeenByL1!CheckOrder
<1>8. V1!Init <=> SeenByL1!Init
  BY <1>1
     DEF V1!Init, SeenByL1!Init, V1!NoCands, SeenByL1!NoCands, V1!ClientOrderId,
         SeenByL1!ClientOrderId
<1>9. /\ V1!StartRun <=> SeenByL1!StartRun
      /\ V1!Interrupt <=> SeenByL1!Interrupt
  BY <1>2, <1>6
     DEF V1!StartRun, SeenByL1!StartRun, V1!Interrupt, SeenByL1!Interrupt,
         V1!HeldKeys, SeenByL1!HeldKeys, V1!L1Funding, SeenByL1!L1Funding,
         V1!Outlook, SeenByL1!Outlook, V1!NoCands, SeenByL1!NoCands,
         V1!storeVars, SeenByL1!storeVars, V1!runVars, SeenByL1!runVars
<1>10. /\ \A p : V1!KeepPosition(p) <=> SeenByL1!KeepPosition(p)
       /\ \A p : V1!BeginClose(p) <=> SeenByL1!BeginClose(p)
       /\ V1!ManageDone <=> SeenByL1!ManageDone
       /\ \A a : V1!SkipCandidate(a) <=> SeenByL1!SkipCandidate(a)
       /\ V1!RunDone <=> SeenByL1!RunDone
  BY <1>5, <1>6
     DEF V1!KeepPosition, SeenByL1!KeepPosition, V1!BeginClose,
         SeenByL1!BeginClose, V1!ManageDone, SeenByL1!ManageDone,
         V1!SkipCandidate, SeenByL1!SkipCandidate, V1!RunDone,
         SeenByL1!RunDone, V1!NextToManage, SeenByL1!NextToManage,
         V1!ShouldClose, SeenByL1!ShouldClose, V1!NextToEnter,
         SeenByL1!NextToEnter, V1!Wanted, SeenByL1!Wanted,
         V1!MarkPositionClosing, SeenByL1!MarkPositionClosing, V1!NoCands,
         SeenByL1!NoCands, V1!storeVars, SeenByL1!storeVars, V1!runVars,
         SeenByL1!runVars
<1>11. /\ \A tag, ok : V1!SimulateLeg(tag, ok) <=> SeenByL1!SimulateLeg(tag, ok)
       /\ \A tag : V1!PlaceLeg(tag) <=> SeenByL1!PlaceLeg(tag)
       /\ \A tag, ok, rec :
             V1!PlaceLegFails(tag, ok, rec) <=> SeenByL1!PlaceLegFails(tag, ok, rec)
  BY <1>6
     DEF V1!SimulateLeg, SeenByL1!SimulateLeg, V1!PlaceLeg, SeenByL1!PlaceLeg,
         V1!PlaceLegFails, SeenByL1!PlaceLegFails, V1!storeVars,
         SeenByL1!storeVars, V1!runVars, SeenByL1!runVars
<1>12. \A tag, next : V1!SubmitLeg(tag, next) <=> SeenByL1!SubmitLeg(tag, next)
  BY <1>11
     DEF V1!SubmitLeg, SeenByL1!SubmitLeg, V1!runVars, SeenByL1!runVars
<1>13. /\ V1!SubmitSpot <=> SeenByL1!SubmitSpot
       /\ V1!SubmitPerp <=> SeenByL1!SubmitPerp
       /\ V1!SubmitSpotClose <=> SeenByL1!SubmitSpotClose
       /\ V1!SubmitPerpClose <=> SeenByL1!SubmitPerpClose
  BY <1>12
     DEF V1!SubmitSpot, SeenByL1!SubmitSpot, V1!SubmitPerp, SeenByL1!SubmitPerp,
         V1!SubmitSpotClose, SeenByL1!SubmitSpotClose, V1!SubmitPerpClose,
         SeenByL1!SubmitPerpClose
<1>14. /\ V1!LayerAlloc = SeenByL1!LayerAlloc
       /\ V1!Budget = SeenByL1!Budget
  BY <1>4
     DEF V1!LayerAlloc, SeenByL1!LayerAlloc, V1!DynamicAlloc, SeenByL1!DynamicAlloc,
         V1!Budget, SeenByL1!Budget, V1!L1Funding, SeenByL1!L1Funding
<1>15. /\ \A p, tag, n : V1!Order(p, tag, n) = SeenByL1!Order(p, tag, n)
       /\ \A n : V1!SpotSize(n) = SeenByL1!SpotSize(n)
       /\ \A n : V1!PerpSize(n) = SeenByL1!PerpSize(n)
  BY DEF V1!Order, SeenByL1!Order, V1!SpotSize, SeenByL1!SpotSize, V1!PerpSize,
         SeenByL1!PerpSize, V1!L1Funding, SeenByL1!L1Funding
<1>16. /\ \A p, n : V1!EntryPasses(p, n) <=> SeenByL1!EntryPasses(p, n)
       /\ V1!ClosePasses <=> SeenByL1!ClosePasses
  BY <1>2, <1>4, <1>7, <1>14, <1>15
     DEF V1!EntryPasses, SeenByL1!EntryPasses, V1!ClosePasses, SeenByL1!ClosePasses,
         V1!L1Funding, SeenByL1!L1Funding
<1>17. \A p : V1!CanEnter(p) <=> SeenByL1!CanEnter(p)
  BY <1>14, <1>16
     DEF V1!CanEnter, SeenByL1!CanEnter
<1>18. /\ \A a : V1!RefuseEntry(a) <=> SeenByL1!RefuseEntry(a)
       /\ \A a, p : V1!CreateEntry(a, p) <=> SeenByL1!CreateEntry(a, p)
  BY <1>2, <1>5, <1>6, <1>14, <1>17
     DEF V1!RefuseEntry, SeenByL1!RefuseEntry, V1!CreateEntry,
         SeenByL1!CreateEntry, V1!NextToEnter, SeenByL1!NextToEnter,
         V1!Wanted, SeenByL1!Wanted, V1!L1Funding, SeenByL1!L1Funding,
         V1!storeVars, SeenByL1!storeVars, V1!runVars, SeenByL1!runVars
<1>19. V1!SettleEntry <=> SeenByL1!SettleEntry
  BY <1>5, <1>6, SeenCardinality
     DEF V1!SettleEntry, SeenByL1!SettleEntry, V1!OpenLegs, SeenByL1!OpenLegs,
         V1!MarkPositionOpen, SeenByL1!MarkPositionOpen, V1!storeVars,
         SeenByL1!storeVars, V1!runVars, SeenByL1!runVars
<1>20. /\ V1!CloseCleared <=> SeenByL1!CloseCleared
       /\ V1!CloseRefused <=> SeenByL1!CloseRefused
  BY <1>5, <1>6, <1>16
     DEF V1!CloseCleared, SeenByL1!CloseCleared, V1!CloseRefused,
         SeenByL1!CloseRefused, V1!MarkPositionOpen,
         SeenByL1!MarkPositionOpen, V1!runVars, SeenByL1!runVars,
         V1!storeVars, SeenByL1!storeVars
<1>21. V1!SettleClose <=> SeenByL1!SettleClose
  BY <1>5, <1>6, SeenCardinality
     DEF V1!SettleClose, SeenByL1!SettleClose, V1!ExitOutcome,
         SeenByL1!ExitOutcome, V1!FundingCollected, SeenByL1!FundingCollected,
         V1!CloseLegs, SeenByL1!CloseLegs, V1!runVars, SeenByL1!runVars,
         V1!storeVars, SeenByL1!storeVars
<1>22. \A p : V1!Elsewhere(p) <=> SeenByL1!Elsewhere(p)
  BY <1>2, <1>4, <1>5, <1>6
     DEF V1!Elsewhere, SeenByL1!Elsewhere, V1!L1Funding, SeenByL1!L1Funding,
         V1!L2Cascade, SeenByL1!L2Cascade
<1>23. V1!BetweenRuns <=> SeenByL1!BetweenRuns
  BY <1>22
     DEF V1!BetweenRuns, SeenByL1!BetweenRuns, V1!runVars, SeenByL1!runVars
<1>24. V1!RunStep <=> SeenByL1!RunStep
  BY <1>10, <1>13, <1>18, <1>19, <1>20, <1>21
     DEF V1!RunStep, SeenByL1!RunStep
<1>25. V1!Next <=> SeenByL1!Next
  BY <1>9, <1>23, <1>24
     DEF V1!Next, SeenByL1!Next
<1>26. V1!vars = SeenByL1!vars
  BY DEF V1!vars, SeenByL1!vars
<1> QED BY <1>8, <1>25, <1>26

(* The same of Layer 2. *)
LEMMA SeenByL2IsV2 ==
    /\ V2!Init <=> SeenByL2!Init
    /\ V2!Next <=> SeenByL2!Next
<1>1. V2!StoreInit <=> SeenByL2!StoreInit
  BY DEF V2!StoreInit, SeenByL2!StoreInit, V2!NoRow, SeenByL2!NoRow, V2!Layer,
         SeenByL2!Layer, V2!L1Funding, SeenByL2!L1Funding, V2!L2Cascade,
         SeenByL2!L2Cascade, V2!L3Tail, SeenByL2!L3Tail
<1>2. /\ V2!Live = SeenByL2!Live
      /\ \A l : V2!OpenPositions(l) = SeenByL2!OpenPositions(l)
      /\ V2!Halted <=> SeenByL2!Halted
      /\ V2!SeenOrderIds = SeenByL2!SeenOrderIds
      /\ \A p : V2!IsNextId(p) <=> SeenByL2!IsNextId(p)
  BY DEF V2!Live, SeenByL2!Live, V2!LiveState, SeenByL2!LiveState, V2!OpenPositions,
         SeenByL2!OpenPositions, V2!Halted, SeenByL2!Halted, V2!SeenOrderIds,
         SeenByL2!SeenOrderIds, V2!IsNextId, SeenByL2!IsNextId
<1>3. \A T : V2!Notional(T) = SeenByL2!Notional(T)
  BY SeenCardinality
     DEF V2!Notional, SeenByL2!Notional, V2!SumNotional, SeenByL2!SumNotional, V2!Units,
         SeenByL2!Units
<1>4. /\ V2!TotalAtRisk = SeenByL2!TotalAtRisk
      /\ \A l : V2!LayerDeployed(l) = SeenByL2!LayerDeployed(l)
  BY <1>2, <1>3
     DEF V2!TotalAtRisk, SeenByL2!TotalAtRisk, V2!LayerDeployed, SeenByL2!LayerDeployed
<1>5. /\ \A p, l, n, md : V2!CreatePosition(p, l, n, md) <=> SeenByL2!CreatePosition(p, l, n, md)
      /\ \A p, s : V2!SetPositionState(p, s) <=> SeenByL2!SetPositionState(p, s)
      /\ \A p, x : V2!ClosePosition(p, x) <=> SeenByL2!ClosePosition(p, x)
  BY <1>2
     DEF V2!CreatePosition, SeenByL2!CreatePosition, V2!SetPositionState,
         SeenByL2!SetPositionState, V2!ClosePosition, SeenByL2!ClosePosition
<1>6. /\ \A id, b : V2!RecordFill(id, b) <=> SeenByL2!RecordFill(id, b)
      /\ \A r : V2!SetHaltReason(r) <=> SeenByL2!SetHaltReason(r)
      /\ \A l, usd : V2!SetDynamicAllocation(l, usd) <=> SeenByL2!SetDynamicAllocation(l, usd)
      /\ V2!ReconcileAtRisk <=> SeenByL2!ReconcileAtRisk
      /\ V2!storeVars = SeenByL2!storeVars
  BY <1>2, <1>4
     DEF V2!RecordFill, SeenByL2!RecordFill, V2!SetHaltReason, SeenByL2!SetHaltReason,
         V2!SetDynamicAllocation, SeenByL2!SetDynamicAllocation, V2!ReconcileAtRisk,
         SeenByL2!ReconcileAtRisk, V2!storeVars, SeenByL2!storeVars
<1>7. \A o, a, d, T, c : V2!CheckOrder(o, a, d, T, c) <=> SeenByL2!CheckOrder(o, a, d, T, c)
  BY DEF V2!CheckOrder, SeenByL2!CheckOrder
<1>8. V2!Init <=> SeenByL2!Init
  BY <1>1
     DEF V2!Init, SeenByL2!Init, V2!NoLadder, SeenByL2!NoLadder
<1>9. /\ \A s : V2!In(s) = SeenByL2!In(s)
      /\ V2!HeldSymbols = SeenByL2!HeldSymbols
  BY <1>2
     DEF V2!In, SeenByL2!In, V2!HeldSymbols, SeenByL2!HeldSymbols, V2!L2Cascade,
         SeenByL2!L2Cascade
<1>10. /\ V2!StaleRungs = SeenByL2!StaleRungs
       /\ V2!Snapshot <=> SeenByL2!Snapshot
  BY <1>9
     DEF V2!StaleRungs, SeenByL2!StaleRungs, V2!Snapshot, SeenByL2!Snapshot
<1>11. /\ V2!StartRun <=> SeenByL2!StartRun
       /\ V2!Interrupt <=> SeenByL2!Interrupt
       /\ V2!RefreshDone <=> SeenByL2!RefreshDone
  BY <1>2, <1>6, <1>10
     DEF V2!StartRun, SeenByL2!StartRun, V2!Interrupt, SeenByL2!Interrupt,
         V2!RefreshDone, SeenByL2!RefreshDone, V2!L2Cascade,
         SeenByL2!L2Cascade, V2!NoLadder, SeenByL2!NoLadder, V2!storeVars,
         SeenByL2!storeVars, V2!loopVars, SeenByL2!loopVars
<1>12. /\ \A p : V2!VisitPending(p) <=> SeenByL2!VisitPending(p)
       /\ \A p : V2!VisitFilled(p) <=> SeenByL2!VisitFilled(p)
       /\ \A s : V2!VisitSymbol(s) <=> SeenByL2!VisitSymbol(s)
  BY <1>6
     DEF V2!VisitPending, SeenByL2!VisitPending, V2!VisitFilled,
         SeenByL2!VisitFilled, V2!VisitSymbol, SeenByL2!VisitSymbol,
         V2!IsFirst, SeenByL2!IsFirst, V2!storeVars, SeenByL2!storeVars,
         V2!loopVars, SeenByL2!loopVars
<1>13. /\ \A p : V2!RefreshRung(p) <=> SeenByL2!RefreshRung(p)
       /\ \A p : V2!KeepRung(p) <=> SeenByL2!KeepRung(p)
       /\ \A p : V2!CancelRung(p) <=> SeenByL2!CancelRung(p)
       /\ \A p : V2!FillRung(p) <=> SeenByL2!FillRung(p)
  BY <1>5, <1>6, <1>12
     DEF V2!RefreshRung, SeenByL2!RefreshRung, V2!KeepRung, SeenByL2!KeepRung,
         V2!CancelRung, SeenByL2!CancelRung, V2!FillRung, SeenByL2!FillRung,
         V2!Tracked, SeenByL2!Tracked, V2!IsFirst, SeenByL2!IsFirst,
         V2!storeVars, SeenByL2!storeVars, V2!loopVars, SeenByL2!loopVars
<1>14. /\ \A p : V2!KeepFilled(p) <=> SeenByL2!KeepFilled(p)
       /\ \A p, reason : V2!SellRung(p, reason) <=> SeenByL2!SellRung(p, reason)
       /\ V2!CloseRung <=> SeenByL2!CloseRung
  BY <1>5, <1>6, <1>12
     DEF V2!KeepFilled, SeenByL2!KeepFilled, V2!SellRung, SeenByL2!SellRung,
         V2!CloseRung, SeenByL2!CloseRung, V2!Managed, SeenByL2!Managed,
         V2!Tracked, SeenByL2!Tracked, V2!Pnl, SeenByL2!Pnl, V2!loopVars,
         SeenByL2!loopVars, V2!storeVars, SeenByL2!storeVars
<1>15. /\ V2!MarkRungOpen <=> SeenByL2!MarkRungOpen
       /\ V2!UpdateMetadata <=> SeenByL2!UpdateMetadata
  BY <1>5
     DEF V2!MarkRungOpen, SeenByL2!MarkRungOpen, V2!MarkPositionOpen,
         SeenByL2!MarkPositionOpen, V2!UpdateMetadata, SeenByL2!UpdateMetadata,
         V2!loopVars, SeenByL2!loopVars
<1>16. /\ V2!PendingDone <=> SeenByL2!PendingDone
       /\ V2!FilledDone <=> SeenByL2!FilledDone
       /\ V2!LadderDone <=> SeenByL2!LadderDone
       /\ V2!RunDone <=> SeenByL2!RunDone
  BY <1>6
     DEF V2!PendingDone, SeenByL2!PendingDone, V2!FilledDone,
         SeenByL2!FilledDone, V2!LadderDone, SeenByL2!LadderDone, V2!RunDone,
         SeenByL2!RunDone, V2!loopVars, SeenByL2!loopVars, V2!NoLadder,
         SeenByL2!NoLadder, V2!storeVars, SeenByL2!storeVars
<1>17. /\ V2!LayerAlloc = SeenByL2!LayerAlloc
       /\ V2!Budget = SeenByL2!Budget
  BY <1>4
     DEF V2!LayerAlloc, SeenByL2!LayerAlloc, V2!DynamicAlloc, SeenByL2!DynamicAlloc,
         V2!Budget, SeenByL2!Budget, V2!L2Cascade, SeenByL2!L2Cascade
<1>18. /\ \A s : V2!PassSymbol(s) <=> SeenByL2!PassSymbol(s)
       /\ \A s, p : V2!DesignLadder(s, p) <=> SeenByL2!DesignLadder(s, p)
  BY <1>2, <1>4, <1>12, <1>17
     DEF V2!PassSymbol, SeenByL2!PassSymbol, V2!DesignLadder, SeenByL2!DesignLadder,
         V2!L2Cascade, SeenByL2!L2Cascade
<1>19. \A n : V2!UpTo(n) = SeenByL2!UpTo(n)
  BY DEF V2!UpTo, SeenByL2!UpTo
<1>20. V2!RungSize = SeenByL2!RungSize
  BY <1>19
     DEF V2!RungSize, SeenByL2!RungSize
<1>21. \A p : V2!RungOrder(p) = SeenByL2!RungOrder(p)
  BY <1>20
     DEF V2!RungOrder, SeenByL2!RungOrder, V2!L2Cascade, SeenByL2!L2Cascade
<1>22. \A p : V2!RungPasses(p) <=> SeenByL2!RungPasses(p)
  BY <1>2, <1>7, <1>19, <1>21
     DEF V2!RungPasses, SeenByL2!RungPasses
<1>23. /\ V2!RefuseRung <=> SeenByL2!RefuseRung
       /\ \A p : V2!PlaceRung(p) <=> SeenByL2!PlaceRung(p)
       /\ V2!RecordPending <=> SeenByL2!RecordPending
  BY <1>2, <1>5, <1>6, <1>20, <1>22
     DEF V2!RefuseRung, SeenByL2!RefuseRung, V2!PlaceRung, SeenByL2!PlaceRung,
         V2!RecordPending, SeenByL2!RecordPending, V2!AtRung, SeenByL2!AtRung,
         V2!loopVars, SeenByL2!loopVars, V2!L2Cascade, SeenByL2!L2Cascade,
         V2!storeVars, SeenByL2!storeVars
<1>24. \A p : V2!OtherLayers(p) <=> SeenByL2!OtherLayers(p)
  BY <1>4, <1>5, <1>6
     DEF V2!OtherLayers, SeenByL2!OtherLayers, V2!OthersRow, SeenByL2!OthersRow,
         V2!MarkPositionClosing, SeenByL2!MarkPositionClosing, V2!LiveState,
         SeenByL2!LiveState, V2!L1Funding, SeenByL2!L1Funding
<1>25. \A p : V2!Elsewhere(p) <=> SeenByL2!Elsewhere(p)
  BY <1>2, <1>6, <1>24
     DEF V2!Elsewhere, SeenByL2!Elsewhere, V2!L2Cascade, SeenByL2!L2Cascade
<1>26. V2!BetweenRuns <=> SeenByL2!BetweenRuns
  BY <1>6, <1>25
     DEF V2!BetweenRuns, SeenByL2!BetweenRuns, V2!loopVars, SeenByL2!loopVars,
         V2!storeVars, SeenByL2!storeVars
<1>27. V2!ExitReason = SeenByL2!ExitReason
  BY DEF V2!ExitReason, SeenByL2!ExitReason
<1>28. V2!RunStep <=> SeenByL2!RunStep
  BY <1>11, <1>13, <1>14, <1>15, <1>16, <1>18, <1>23, <1>27
     DEF V2!RunStep, SeenByL2!RunStep
<1>29. V2!Next <=> SeenByL2!Next
  BY <1>11, <1>26, <1>28
     DEF V2!Next, SeenByL2!Next
<1>30. V2!vars = SeenByL2!vars
  BY DEF V2!vars, SeenByL2!vars
<1> QED BY <1>8, <1>29, <1>30

LEMMA SeenVarsAreV ==
    /\ (UNCHANGED V1!vars) <=> (UNCHANGED SeenByL1!vars)
    /\ (UNCHANGED V2!vars) <=> (UNCHANGED SeenByL2!vars)
<1>1. (UNCHANGED V1!vars) <=> (UNCHANGED SeenByL1!vars)
  BY DEF V1!vars, SeenByL1!vars
<1>2. (UNCHANGED V2!vars) <=> (UNCHANGED SeenByL2!vars)
  BY DEF V2!vars, SeenByL2!vars
<1> QED BY <1>1, <1>2

(***************************************************************************)
(* The system implements Layer 1: what Layer 2, its crashes, the engine    *)
(* and the operator do to the store is, as Layer 1 sees it, a step         *)
(* L1Executor lets happen between two runs, and none happens within one.   *)
(***************************************************************************)
THEOREM ImplementsL1 == Spec => L1Spec
<1>1. Init => SeenByL1!Init
  BY SystemInit, SeenByL1IsV1
<1>2. SystemInv /\ [Next]_vars => [SeenByL1!Next]_SeenByL1!vars
  BY SystemStep, SeenByL1IsV1, SeenVarsAreV
<1> QED BY <1>1, <1>2, SystemHolds, PTL DEF Spec, L1Spec, SeenByL1!Spec

(***************************************************************************)
(* The system implements Layer 2: the entries, closes and halts of Layer 1 *)
(* pass the caps that L2Executor says another layer's do, and none happens *)
(* within a run of Layer 2.                                                *)
(***************************************************************************)
THEOREM ImplementsL2 == Spec => L2Spec
<1>1. Init => SeenByL2!Init
  BY SystemInit, SeenByL2IsV2
<1>2. SystemInv /\ [Next]_vars => [SeenByL2!Next]_SeenByL2!vars
  BY SystemStep, SeenByL2IsV2, SeenVarsAreV
<1> QED BY <1>1, <1>2, SystemHolds, PTL DEF Spec, L2Spec, SeenByL2!Spec

-----------------------------------------------------------------------------
(* What each layer promises, of the whole *)

(* What is proved of a layer holds of what the layer sees of the system. *)
LEMMA LayersPromise ==
    /\ Spec => []V1!OneLivePerPair
    /\ Spec => []V1!OrderTakenAtMostOnce
    /\ Spec => []V1!CounterNeverOverstates
    /\ Spec => []V2!OneLadderPerSymbol
<1>1. Spec => V1!Spec
  <2>1. Init => V1!Init
    BY SystemInit
  <2>2. SystemInv /\ [Next]_vars => [V1!Next]_V1!vars
    BY SystemStep
  <2> QED BY <2>1, <2>2, SystemHolds, PTL DEF Spec, V1!Spec
<1>2. Spec => V2!Spec
  <2>1. Init => V2!Init
    BY SystemInit
  <2>2. SystemInv /\ [Next]_vars => [V2!Next]_V2!vars
    BY SystemStep
  <2> QED BY <2>1, <2>2, SystemHolds, PTL DEF Spec, V2!Spec
<1>3. V1!Spec => []V1!OneLivePerPair
  BY StoreAssumed, L1Assumed, SafeguardsAssumption, V1!OnePerPair, Zenon
<1>4. V1!Spec => []V1!OrderTakenAtMostOnce
  BY StoreAssumed, L1Assumed, SafeguardsAssumption, V1!TakenAtMostOnce, Zenon
<1>5. V1!Spec => []V1!CounterNeverOverstates
  BY StoreAssumed, L1Assumed, SafeguardsAssumption, V1!CounterNeverTooHigh, Zenon
<1>6. V2!Spec => []V2!OneLadderPerSymbol
  BY StoreAssumed, L2Assumed, SafeguardsAssumption, V2!OneLadder, Zenon
<1> QED BY <1>1, <1>2, <1>3, <1>4, <1>5, <1>6, PTL

(* No pair carries two live positions of Layer 1, with Layer 2 beside it. *)
THEOREM OnePerPair == Spec => []L1!OneLivePerPair
<1>1. SystemInv /\ V1!OneLivePerPair => L1!OneLivePerPair
  <2> SUFFICES ASSUME SystemInv, V1!OneLivePerPair PROVE L1!OneLivePerPair
    OBVIOUS
  <2>1. /\ V1!OpenPositions("l1_funding") = L1!OpenPositions("l1_funding")
        /\ \A p \in PositionId : position[p].layer = "l1_funding" =>
             PositionBut("l2_cascade")[p] = position[p]
    BY L1Reads DEF SystemInv
  <2>2. \A p \in L1!OpenPositions("l1_funding") :
            p \in PositionId /\ position[p].layer = "l1_funding"
    BY DEF L1!OpenPositions, L1!Live
  <2> QED BY <2>1, <2>2
          DEF V1!OneLivePerPair, L1!OneLivePerPair, V1!L1Funding, L1!L1Funding
<1> QED BY <1>1, SystemHolds, LayersPromise, PTL

(* No symbol carries live rungs of two ladders, with Layer 1 beside it. *)
THEOREM OneLadder == Spec => []L2!OneLadderPerSymbol
<1>1. SystemInv /\ V2!OneLadderPerSymbol => L2!OneLadderPerSymbol
  <2> SUFFICES ASSUME SystemInv, V2!OneLadderPerSymbol PROVE L2!OneLadderPerSymbol
    OBVIOUS
  <2>1. /\ V2!OpenPositions("l2_cascade") = L2!OpenPositions("l2_cascade")
        /\ \A p \in PositionId : position[p].layer = "l2_cascade" =>
             PositionBut("l1_funding")[p] = position[p]
    BY L2Reads, QueriesSame DEF SystemInv, StoreInv
  <2>2. \A p \in L2!OpenPositions("l2_cascade") :
            p \in PositionId /\ position[p].layer = "l2_cascade"
    BY DEF L2!OpenPositions, L2!Live
  <2>3. V2!Rungs = L2!OpenPositions("l2_cascade") /\ L2!Rungs = L2!OpenPositions("l2_cascade")
    BY <2>1 DEF V2!Rungs, L2!Rungs, V2!L2Cascade, L2!L2Cascade
  <2> QED BY <2>1, <2>2, <2>3 DEF V2!OneLadderPerSymbol, L2!OneLadderPerSymbol
<1> QED BY <1>1, SystemHolds, LayersPromise, PTL

(***************************************************************************)
(* The capital deployed by both layers together stays within the cap: each *)
(* layer's entries are decided on totals that hold the other's rows, and   *)
(* no row is put back that the cap has no room for.                        *)
(***************************************************************************)
THEOREM TotalStaysWithinCap == Spec => []L1!TotalWithinCap
<1>1. SystemInv => L1!TotalWithinCap
  BY TotalsSame DEF SystemInv, StoreInv, V1!CapInv, V1!TotalWithinCap, L1!TotalWithinCap
<1> QED BY <1>1, SystemHolds, PTL

(* The exchange takes no order of Layer 1 twice, with Layer 2 beside it. *)
THEOREM TakenAtMostOnce == Spec => []L1!OrderTakenAtMostOnce
<1>1. V1!OrderTakenAtMostOnce => L1!OrderTakenAtMostOnce
  BY DEF V1!OrderTakenAtMostOnce, L1!OrderTakenAtMostOnce, V1!ClientOrderId,
         L1!ClientOrderId
<1> QED BY <1>1, LayersPromise, PTL

(* The counter is never above what the rows of both layers add up to. *)
THEOREM CounterNeverTooHigh == Spec => []L1!CounterNeverOverstates
<1>1. SystemInv /\ V1!CounterNeverOverstates => L1!CounterNeverOverstates
  <2> SUFFICES ASSUME SystemInv, V1!CounterNeverOverstates
               PROVE  L1!CounterNeverOverstates
    OBVIOUS
  <2>1. S!StoreTypeOK
    BY DEF SystemInv, StoreInv
  <2>2. V1!NotClosed = L1!NotClosed
    <3>1. \A p \in PositionId :
             PositionBut("l2_cascade")[p].state \in {"opening", "open", "closing"}
               <=> position[p].state \in {"opening", "open", "closing"}
      BY <2>1, RowSeen
    <3> QED BY <3>1 DEF V1!NotClosed, L1!NotClosed, V1!LiveState, L1!LiveState
  <2>3. L1!NotClosed \in SUBSET PositionId
    BY DEF L1!NotClosed
  <2>4. V1!Notional(V1!NotClosed) = L1!Notional(L1!NotClosed)
    BY <2>1, <2>2, <2>3, SumsSame
  <2>5. StateBut("l2_cascade").total_at_risk_usd = system_state.total_at_risk_usd
    BY DEF StateBut
  <2> QED BY <2>4, <2>5 DEF V1!CounterNeverOverstates, L1!CounterNeverOverstates
<1> QED BY <1>1, SystemHolds, LayersPromise, PTL

=============================================================================
