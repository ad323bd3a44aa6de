---------------------------- MODULE MCChatCache ----------------------------
EXTENDS ChatCache, TLC

CONSTANTS k1, k2, k3, k4

\* Three keys contend for one slice, a fourth has another.
Hashes == [k \in Keys |-> IF k = k4 THEN 1 ELSE 0]

Symmetry == Permutations(Threads) \cup Permutations(Keys \ {k4})
=============================================================================
