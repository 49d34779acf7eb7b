---------------------------- MODULE MCL2Executor ----------------------------
(* Small instances of L2Executor; the configurations give the units of dollars. *)
EXTENDS L2Executor

CONSTANTS
    AllocL2,    \* settings.alloc_layer_2_usd
    Designs,    \* <<levels, total>> of the designs a restart may find
    Delisted    \* those of a version that lists no symbol any more

MCStaticAlloc  == [l \in Layer |-> IF l = L2Cascade THEN AllocL2 ELSE 4]
MCLayerEnabled == [l \in Layer |-> l # L3Tail]
MCOrderTag     == {"pending", "fill"} \cup ExitReason

OneDesign  == {<<2, 5>>}
TwoDesigns == {<<2, 5>>, <<2, 3>>}
MixedDesigns == {<<1, 3>>, <<2, 5>>}

DesignsOf(pairs) == {[levels |-> d[1], total |-> d[2]] : d \in pairs}
MCDesigns == DesignsOf(Designs)
MCConfigs == [design : MCDesigns, symbols : {Symbol}]
                \cup [design : DesignsOf(Delisted), symbols : {{}}]
(* The default size_decay of 3/2, in whole parts. *)
MCShare    == [l \in 1..2 |-> [n \in 0..l |-> 3^n * 2^(l - n) - 2^l]]
MCMetadata == RungMetadata(MCDesigns, 1..2)
=============================================================================
