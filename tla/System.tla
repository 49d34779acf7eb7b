------------------------------- MODULE System -------------------------------
(***************************************************************************)
(* One process: the engine of core/engine.py with the executors that       *)
(* __main__.py registers, Layer 1 before Layer 2, over one store.  A cycle *)
(* gives each its turn; the turn ends when run_once returns, raises or is  *)
(* cut off after 90 s; then comes the reconciliation, and what is outside  *)
(* of the cycle: the operator and the death of the process.  L1Executor    *)
(* and L2Executor each leave the rest of the system to their BetweenRuns;  *)
(* here each has the other for its environment.  The settings are those of *)
(* one start and no allocation is written, which the modules of the two    *)
(* layers let change at any time between runs.                             *)
(***************************************************************************)
EXTENDS Safeguards, FiniteSets

CONSTANTS
    PositionId, MaxNotional, NULL,                          \* of Store
    Pair, Symbol, Configs, MinPosition, Share               \* of the executors

VARIABLES
    position, fill, system_state,
    l1_pc, cands, to_manage, to_enter, l1_held, l1_cur, legs, venue,
    config, l2_pc, to_refresh, to_pending, to_filled, l2_held, to_scan,
    l2_cur, sale, ladder,
    turn        \* whose run_once the cycle has come to, "rest" for no one's

storeVars == <<position, fill, system_state>>
l1Vars    == <<l1_pc, cands, to_manage, to_enter, l1_held, l1_cur, legs, venue>>
l2Vars    == <<config, l2_pc, to_refresh, to_pending, to_filled, l2_held,
               to_scan, l2_cur, sale, ladder>>
vars      == <<storeVars, l1Vars, l2Vars, turn>>

L1Tag == {"spot", "perp", "spot_close", "perp_close"}
L2Tag == {"pending", "fill", "closed_tp", "closed_sl", "closed_time"}

(* What L2's rows carry. *)
Rung == [symbol : Symbol, group : PositionId,
         rung : 1..MaxNotional, design : {c.design : c \in Configs},
         phase : {"pending_rung", "tp_pending"}]

L1 == INSTANCE L1Executor
        WITH pc <- l1_pc, held <- l1_held, cur <- l1_cur, OrderTag <- L1Tag,
             Metadata <- Pair, DynamicAllocs <- {}, OtherSizes <- {}

L2 == INSTANCE L2Executor
        WITH pc <- l2_pc, held <- l2_held, cur <- l2_cur, OrderTag <- L2Tag,
             Metadata <- Rung, DynamicAllocs <- {}, OtherSizes <- {}

ASSUME SystemAssumption ==
    /\ IsFiniteSet(PositionId) /\ PositionId \subseteq Nat \ {0} /\ PositionId # {}
    /\ MaxNotional \in Nat \ {0} /\ MaxPerPosition <= MaxNotional
    /\ NULL \notin PositionId /\ NULL \notin Int
    /\ Pair \subseteq Nat /\ IsFiniteSet(Pair)
    /\ Symbol \subseteq Nat /\ IsFiniteSet(Symbol)
    /\ MinPosition \in Nat \ {0}
    /\ DOMAIN StaticAlloc = L1!Layer
    /\ Configs \subseteq L2!Config /\ Configs # {}
    /\ \A c \in Configs :
          LET l == c.design.levels IN
          /\ l <= MaxNotional
          /\ Share[l][l] \in Nat /\ Share[l] \in [0..l -> 0..Share[l][l]]
          /\ Share[l][0] = 0
          \* as in L2Executor, no rung rounds to nothing
          /\ \A n \in 1..l :
                /\ Share[l][n - 1] < Share[l][n]
                /\ Share[l][l] <= MinPosition * (Share[l][n] - Share[l][n - 1])

Halted == system_state.halt_reason # NULL

Turn == {"l1", "l2", "rest"}

Init ==
    /\ L1!Init
    /\ L2!Init
    /\ turn = "l1"

-----------------------------------------------------------------------------
(* The cycle *)

AfterL1Gather == turn' = "l2"                               \* mutant

AfterL2Gather == turn' = "rest"                             \* mutant

(* A run that is suspended keeps the turn. *)
AfterL1 == turn' = IF l1_pc' = "idle" THEN "l2" ELSE "l1"
AfterL2 == turn' = IF l2_pc' = "idle" THEN "rest" ELSE "l2"

L1Runs ==
    /\ turn = "l1"
    /\ \/ L1!StartRun
       \/ L1!RunStep
       \/ L1!Interrupt
    /\ AfterL1
    /\ UNCHANGED l2Vars

L2Runs ==
    /\ turn = "l2"
    /\ \/ L2!StartRun
       \/ L2!RunStep
       \/ L2!Interrupt
    /\ AfterL2
    /\ UNCHANGED l1Vars

(* run_once returns at once if the system is halted. *)
L1Skips ==
    /\ turn = "l1" /\ l1_pc = "idle" /\ Halted
    /\ turn' = "l2"
    /\ UNCHANGED <<storeVars, l1Vars, l2Vars>>

L2Skips ==
    /\ turn = "l2" /\ l2_pc = "idle" /\ Halted
    /\ turn' = "rest"
    /\ UNCHANGED <<storeVars, l1Vars, l2Vars>>

Reconcile ==
    /\ turn = "rest"
    /\ L1!ReconcileAtRisk
    /\ UNCHANGED <<l1Vars, l2Vars, turn>>

NextCycle ==
    /\ turn = "rest"
    /\ turn' = "l1"
    /\ UNCHANGED <<storeVars, l1Vars, l2Vars>>

-----------------------------------------------------------------------------
(* Outside of the cycle *)

ClearHalt ==
    /\ turn = "rest" /\ Halted
    /\ L1!SetHaltReason(NULL)
    /\ UNCHANGED <<l1Vars, l2Vars, turn>>

(* The process dies in the turn of an executor, and another is started. *)
Crash ==
    /\ \/ L1!Interrupt /\ UNCHANGED l2Vars
       \/ L2!Interrupt /\ UNCHANGED l1Vars
    /\ turn' = "rest"

Next == \/ L1Runs \/ L1Skips \/ L2Runs \/ L2Skips
        \/ Reconcile \/ NextCycle \/ ClearHalt \/ Crash

Spec == Init /\ [][Next]_vars

-----------------------------------------------------------------------------
(* What each layer sees of the other *)

Rows(l) == {p \in PositionId : position[p].layer = l /\ position[p].state # "absent"}

(* Sum of what the closed rows of a layer realized, in units of a sale. *)
Gains(l)  == Cardinality({p \in Rows(l) : position[p].realized = 1})
Losses(l) == Cardinality({p \in Rows(l) : position[p].realized = -1})
Realized(l) == Gains(l) - Losses(l)

(* Of a row of the other layer: that it is there, how large, and if live. *)
Blurred(row) ==
    [state |-> IF row.state = "open" THEN "opening" ELSE row.state, layer |-> row.layer,
     notional |-> row.notional, realized |-> 0, metadata |-> NULL]

PositionBut(l)  == [p \in PositionId |->
                       IF position[p].layer = l /\ position[p].state # "absent"
                       THEN Blurred(position[p]) ELSE position[p]]
FillOf(tags)    == {f \in fill : f.id[2] \in tags}
StateBut(l)     ==
    [halt_reason       |-> system_state.halt_reason,
     total_at_risk_usd |-> system_state.total_at_risk_usd,
     cumulative_pnl    |-> system_state.cumulative_pnl - Realized(l),
     dynamic_alloc     |-> [system_state.dynamic_alloc EXCEPT ![l] = NULL]]

SeenByL1 == INSTANCE L1Executor
        WITH pc <- l1_pc, held <- l1_held, cur <- l1_cur, OrderTag <- L1Tag,
             Metadata <- Pair, DynamicAllocs <- {},
             OtherSizes <- 1..MaxPerPosition,
             position <- PositionBut("l2_cascade"), fill <- FillOf(L1Tag),
             system_state <- StateBut("l2_cascade")

SeenByL2 == INSTANCE L2Executor
        WITH pc <- l2_pc, held <- l2_held, cur <- l2_cur, OrderTag <- L2Tag,
             Metadata <- Rung, DynamicAllocs <- {},
             OtherSizes <- 1..MaxPerPosition,
             position <- PositionBut("l1_funding"), fill <- FillOf(L2Tag),
             system_state <- StateBut("l1_funding")

(***************************************************************************)
(* The counter of profits adds up: whatever runs were cut between a sale   *)
(* and its close, cumulative_pnl is what the closed rows realized.         *)
(***************************************************************************)
RealizedAddsUp ==
    system_state.cumulative_pnl = Realized("l1_funding") + Realized("l2_cascade")

(***************************************************************************)
(* The system implements Layer 1 as L1Executor specifies it: whatever      *)
(* Layer 2, its allocations and its crashes do to the store is one of the  *)
(* steps L1Executor lets happen between its runs, and never within one.    *)
(***************************************************************************)
L1Spec == SeenByL1!Spec

(***************************************************************************)
(* The same of Layer 2, with Layer 1's entries, exits and halts for its    *)
(* environment.                                                            *)
(***************************************************************************)
L2Spec == SeenByL2!Spec
=============================================================================
