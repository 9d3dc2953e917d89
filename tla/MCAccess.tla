------------------------------ MODULE MCAccess ------------------------------
(* Two tenants and two keys whose hashes have different prefixes.          *)
EXTENDS Access, TLC

CONSTANTS k1, k2, r1, r2

MCKeys == {k1, k2}
MCPrefixes == {1, 2}
MCRequests == {r1, r2}
Symmetry == Permutations(MCRequests)
MCPrefixOf == k1 :> 1 @@ k2 :> 2
=============================================================================
