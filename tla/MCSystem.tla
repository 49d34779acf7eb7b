------------------------------ MODULE MCSystem ------------------------------
(* A small instance of System: one pair, one symbol, ladders of two rungs. *)
EXTENDS System

CONSTANT Alloc      \* settings.alloc_layer_1_usd and alloc_layer_2_usd

MCLayer        == {"l1_funding", "l2_cascade", "l3_tail"}
MCStaticAlloc  == [l \in MCLayer |-> Alloc]
MCLayerEnabled == [l \in MCLayer |-> l # "l3_tail"]
MCShare        == [l \in 1..2 |-> [n \in 0..l |-> 3^n * 2^(l - n) - 2^l]]
MCConfigs      == {[design |-> [levels |-> 2, total |-> 5], symbols |-> Symbol]}
=============================================================================
