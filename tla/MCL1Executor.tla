---------------------------- MODULE MCL1Executor ----------------------------
(* Small instances of L1Executor; the configurations give the units of dollars. *)
EXTENDS L1Executor

CONSTANT AllocL1    \* settings.alloc_layer_1_usd

MCStaticAlloc  == [l \in Layer |-> IF l = L1Funding THEN AllocL1 ELSE 4]
MCLayerEnabled == [l \in Layer |-> l # L3Tail]
MCOrderTag     == {"spot", "perp", "spot_close", "perp_close"}

(***************************************************************************)
(* What a scan says is bounded without loss: of a held pair "quiet" leads  *)
(* to what "attractive" does, its position is kept and it is not entered,  *)
(* and of any other to what "decayed" does, it is not entered.             *)
(***************************************************************************)
ScanDecides ==
    pc = "idle" /\ pc' = "manage" => \A a \in Pair : cands'[a] # "quiet"

OrdersNext == Next /\ ScanDecides

OrdersSpec == Init /\ [][OrdersNext]_vars

(***************************************************************************)
(* Bounds of the fair run.  The counter, which nothing of Layer 1 reads,   *)
(* is not reconciled; and every order the first position comes to send is  *)
(* answered, while those of the second fail and get lost in every way.     *)
(***************************************************************************)
FirstPosition == 1

CounterRests == system_state'.total_at_risk_usd = system_state.total_at_risk_usd

FirstIsAnswered ==
    cur = FirstPosition /\ pc \in OrderTag /\ pc' # "idle" => pc \in legs'

LiveNext == OrdersNext /\ CounterRests /\ FirstIsAnswered

LiveSpec == Init /\ [][LiveNext]_vars /\ Fairness
=============================================================================
