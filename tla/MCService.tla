------------------------------ MODULE MCService ------------------------------
EXTENDS Service
CONSTANTS c1, c2, k0, k1, k2, kLong, v1, v4, vLong
MCKeyLen(k) == CASE k = k0 -> 0 [] k = k1 -> 1 [] k = k2 -> 2 [] k = kLong -> 5
MCValueLen(v) == CASE v = v1 -> 1 [] v = v4 -> 4 [] v = vLong -> 5
=============================================================================
