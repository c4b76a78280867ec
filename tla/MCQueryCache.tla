---------------------------- MODULE MCQueryCache ----------------------------
(* One statement of each kind; sessions are interchangeable. *)
EXTENDS QueryCache, TLC

Symmetry == Permutations(SessionId) \cup Permutations(Tenant)
=============================================================================
