---------------------------- MODULE MCTenantPools ----------------------------
(* Tenant pools on small instances: sessions and pool objects are             *)
(* interchangeable, and so are the tenants.                                   *)
EXTENDS TenantPools, TLC

PoolSymmetry == Permutations(Session) \cup Permutations(Pool) \cup Permutations(Tenant)
=============================================================================
