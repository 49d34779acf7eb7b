------------------------ MODULE MCAllocatorExecutor ------------------------
EXTENDS AllocatorExecutor

\* alloc_layer_*_pct in twentieths: two mixes, and the defaults of config.py.
Mix(a, b, c) == [l1_funding |-> a, l2_cascade |-> b, l3_tail |-> c]
MCBases      == {Mix(12, 5, 3), Mix(4, 12, 4), Mix(12, 8, 3)}
DefaultBases == {Mix(12, 8, 3)}
=============================================================================
