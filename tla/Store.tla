------------------------------- MODULE Store -------------------------------
(***************************************************************************)
(* The persistent store of cryptarch: the tables of db/schema.sql that the *)
(* executors read and write, and one operator per method of db/store.py.   *)
(* Each method is one SQL statement or one transaction, so each is one     *)
(* atomic step; what happens BETWEEN two of them is the business of the    *)
(* modules that extend this one.                                           *)
(*                                                                         *)
(* Data kept abstract: dollars are whole units, and the columns daily_pnl, *)
(* cumulative_pnl and the profit part of cash_usd, which every statement   *)
(* moves by the same amount, are the one field cumulative_pnl.             *)
(***************************************************************************)
EXTENDS Integers, FiniteSets

CONSTANTS
    PositionId,     \* bound: the rows `position` may get, ids in SERIAL order
    MaxNotional,    \* the largest notional an order may have, in units
    OrderTag,       \* what tells the client order ids of one position apart
    Metadata,       \* the values of position.metadata
    NULL            \* SQL NULL

ASSUME StoreAssumption ==
    /\ IsFiniteSet(PositionId) /\ PositionId \subseteq Nat \ {0}
    /\ MaxNotional \in Nat \ {0}
    /\ NULL \notin PositionId /\ NULL \notin Int

VARIABLES
    position,       \* table position: id -> row
    fill,           \* table fill: the rows, by client_order_id
    system_state    \* the single row of table system_state

storeVars == <<position, fill, system_state>>

L1Funding == "l1_funding"
L2Cascade == "l2_cascade"
L3Tail    == "l3_tail"
Layer     == {L1Funding, L2Cascade, L3Tail}

(***************************************************************************)
(* Rows.  A client_order_id is <<position id, tag>>: the code builds it    *)
(* from a fresh uuid kept with the position, or from the position id.      *)
(***************************************************************************)
PositionState == {"absent", "opening", "open", "closing", "closed"}

PositionRow == [state : PositionState, layer : Layer, notional : 0..MaxNotional,
                realized : Int, metadata : Metadata \cup {NULL}]

ClientOrderId == PositionId \X OrderTag
FillRow       == [id : ClientOrderId, filled : BOOLEAN]
SystemState   == [halt_reason : PositionId \cup {NULL},
                  total_at_risk_usd : Nat, cumulative_pnl : Int,
                  dynamic_alloc : [Layer -> Nat \cup {NULL}]]

StoreTypeOK ==
    /\ position \in [PositionId -> PositionRow]
    /\ fill \subseteq FillRow
    /\ system_state \in SystemState

NoRow == [state |-> "absent", layer |-> L1Funding, notional |-> 0,
          realized |-> 0, metadata |-> NULL]

StoreInit ==
    /\ position = [p \in PositionId |-> NoRow]
    /\ fill = {}
    /\ system_state = [halt_reason |-> NULL, total_at_risk_usd |-> 0,
                       cumulative_pnl |-> 0,
                       dynamic_alloc |-> [l \in Layer |-> NULL]]

-----------------------------------------------------------------------------
(* Queries *)

LiveState == {"opening", "open"}     \* WHERE state IN ('opening', 'open')

Live            == {p \in PositionId : position[p].state \in LiveState}
OpenPositions(l) == {p \in Live : position[p].layer = l}

(***************************************************************************)
(* SUM(notional_usd) over the rows S of a table.  The sum of naturals is   *)
(* written as the number of <<row, unit>> pairs, so that the library's     *)
(* facts about Cardinality are facts about the sum.                        *)
(***************************************************************************)
Units(table, S) == {pu \in S \X (1..MaxNotional) : pu[2] <= table[pu[1]].notional}
SumNotional(table, S) == Cardinality(Units(table, S))

Notional(S) == SumNotional(position, S)

TotalAtRisk == Notional(Live)

LayerDeployedOpenOnly(l) ==                                \* mutant
    Notional({p \in OpenPositions(l) : position[p].state = "open"})

LayerDeployed(l) == Notional(OpenPositions(l))

SeenOrderIds     == {f.id : f \in fill}       \* every run is shorter than 48 h
Filled(p, tag)   == [id |-> <<p, tag>>, filled |-> TRUE] \in fill
Halted           == system_state.halt_reason # NULL

-----------------------------------------------------------------------------
(* Statements *)

(* The row the next INSERT gets: ids are SERIAL. *)
IsNextId(p) == /\ position[p].state = "absent"
               /\ \A q \in PositionId : q < p => position[q].state # "absent"

CreatePosition(p, l, notional, md) ==
    /\ IsNextId(p)
    /\ position' = [position EXCEPT ![p] =
           [state |-> "opening", layer |-> l, notional |-> notional,
            realized |-> 0, metadata |-> md]]
    /\ UNCHANGED <<fill, system_state>>

SetPositionState(p, s) ==
    /\ position' = [position EXCEPT ![p].state = s]
    /\ UNCHANGED <<fill, system_state>>

MarkPositionOpen(p)    == SetPositionState(p, "open")
MarkPositionClosing(p) == SetPositionState(p, "closing")

ClosePositionUnclamped(p, realized) ==                     \* mutant
    /\ position' = [position EXCEPT ![p].state = "closed", ![p].realized = realized]
    /\ system_state' = [system_state EXCEPT
           !.total_at_risk_usd = @ - position[p].notional,
           !.cumulative_pnl = @ + realized]
    /\ UNCHANGED fill

ClosePositionRowOnly(p, realized) ==                       \* mutant
    /\ position' = [position EXCEPT ![p].state = "closed", ![p].realized = realized]
    /\ system_state' = [system_state EXCEPT !.cumulative_pnl = @ + realized]
    /\ UNCHANGED fill

ClosePositionUnbooked(p, realized) ==                      \* mutant
    /\ position' = [position EXCEPT ![p].state = "closed", ![p].realized = realized]
    /\ system_state' = [system_state EXCEPT
           !.total_at_risk_usd = IF @ < position[p].notional THEN 0
                                 ELSE @ - position[p].notional]
    /\ UNCHANGED fill

(* One transaction: the row and the single system_state row move together. *)
ClosePosition(p, realized) ==
    /\ position' = [position EXCEPT ![p].state = "closed", ![p].realized = realized]
    /\ LET rest == system_state.total_at_risk_usd - position[p].notional IN
         system_state' = [system_state EXCEPT
             !.total_at_risk_usd = IF rest < 0 THEN 0 ELSE rest,
             !.cumulative_pnl = @ + realized]
    /\ UNCHANGED fill

(* UNIQUE (client_order_id): a second INSERT is rejected and logged only. *)
RecordFill(id, filled) ==
    /\ fill' = IF id \in SeenOrderIds THEN fill
               ELSE fill \cup {[id |-> id, filled |-> filled]}
    /\ UNCHANGED <<position, system_state>>

SetHaltReason(reason) ==
    /\ system_state' = [system_state EXCEPT !.halt_reason = reason]
    /\ UNCHANGED <<position, fill>>

SetDynamicAllocation(l, usd) ==
    /\ system_state' = [system_state EXCEPT !.dynamic_alloc[l] = usd]
    /\ UNCHANGED <<position, fill>>

ReconcileAtRisk ==
    /\ system_state' = [system_state EXCEPT !.total_at_risk_usd = TotalAtRisk]
    /\ UNCHANGED <<position, fill>>
=============================================================================
