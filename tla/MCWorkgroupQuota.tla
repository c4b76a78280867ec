-------------------------- MODULE MCWorkgroupQuota --------------------------
(* One namespace per workgroup; the first workgroup may be called "default". *)
EXTENDS WorkgroupQuota, TLC

CONSTANTS w1, w2, n1, n2

MCNamespaceOf == w1 :> n1 @@ w2 :> n2
Symmetry == Permutations(SessionId)
=============================================================================
