-------------------------- MODULE MCSessionManager --------------------------
(* Two or three sessions; model values for sessions and workgroups. *)
EXTENDS SessionManager, TLC

Symmetry == Permutations(SessionId)
=============================================================================
