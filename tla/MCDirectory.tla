----------------------------- MODULE MCDirectory -----------------------------
(* Two identities at one provider; both hide their email.                      *)
EXTENDS Directory, TLC

CONSTANT p1

MCProviderOf == [u \in Identity |-> p1]
Symmetry == Permutations(Tenant)
=============================================================================
