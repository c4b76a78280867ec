------------------------------ MODULE MCLimits ------------------------------
(* The windows and the lockout have no variable in common: each is run through
   while the other rests where it begins.  Slots are interchangeable.        *)
EXTENDS Limits, Lockout, TLC

MCInit == LimitsInit /\ LockoutInit

MCNext ==
    \/ LimitsNext /\ LockoutInit /\ UNCHANGED lockoutVars
    \/ LockoutNext /\ LimitsInit /\ UNCHANGED limitsVars

MCSpec == MCInit /\ [][MCNext]_<<limitsVars, lockoutVars>>

Symmetry == Permutations(Slot)
=============================================================================
