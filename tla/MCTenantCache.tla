--------------------------- MODULE MCTenantCache ---------------------------
(* An instance of TenantCache: two processes, one read model.               *)
EXTENDS TenantCache
=============================================================================
