----------------------------- MODULE Safeguards -----------------------------
(***************************************************************************)
(* core/safeguards.py: check_order, a pure function of the order, the      *)
(* settings and what the caller read from the store.  The code raises on   *)
(* the first failing guard; no caller tells the codes apart (they are      *)
(* logged), so the order passes iff every guard holds.                     *)
(* limit_price is left out: every price the executors pass is positive,    *)
(* the scan drops the others.                                              *)
(***************************************************************************)
EXTENDS Integers

CONSTANTS
    MaxPerPosition,     \* settings.max_per_position_usd
    MaxTotalDeployed,   \* settings.max_total_deployed_usd
    StaticAlloc,        \* settings.alloc_layer_*_usd, by layer
    LayerEnabled,       \* settings.layer_*_enabled, by layer
    EnableLiveOrders    \* settings.enable_live_orders

ASSUME SafeguardsAssumption ==
    /\ MaxPerPosition \in Nat \ {0} /\ MaxTotalDeployed \in Nat
    /\ DOMAIN StaticAlloc = DOMAIN LayerEnabled
    /\ StaticAlloc \in [DOMAIN StaticAlloc -> Nat]
    /\ LayerEnabled \in [DOMAIN StaticAlloc -> BOOLEAN]
    /\ EnableLiveOrders \in BOOLEAN

(***************************************************************************)
(* An order is [size, layer, id, is_live]; layer_cap is the caller's       *)
(* override or, for a caller that passes none, StaticAlloc[order.layer].   *)
(***************************************************************************)
CheckOrder(order, at_risk, deployed, seen, layer_cap) ==
    /\ order.size > 0                                    \* invalid_size
    /\ order.size <= MaxPerPosition                      \* max_per_position
    /\ at_risk + order.size <= MaxTotalDeployed          \* max_total_deployed
    /\ order.layer \in DOMAIN StaticAlloc                \* unknown_layer
    /\ deployed + order.size <= layer_cap                \* layer_cap_exceeded
    /\ order.id \notin seen                              \* duplicate_client_order_id
    /\ order.is_live => EnableLiveOrders                 \* live_orders_disabled
    /\ LayerEnabled[order.layer]                         \* layer_disabled
=============================================================================
