---------------------------- MODULE MCTeamStore ----------------------------
EXTENDS TeamStore, TLC
CONSTANTS r1, r2, k1, k2, b1, q1, a1, a2

MCPolicies ==
    {[minimal |-> FALSE, retention |-> 3, ttl |-> 2, quota |-> 3],
     [minimal |-> TRUE, retention |-> 2, ttl |-> 1, quota |-> 2]}

Symmetry == Permutations({r1, r2}) \cup Permutations({a1, a2})
=============================================================================
