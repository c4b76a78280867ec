------------------------------ MODULE MCClient ------------------------------
(* Two secrets: one that is rotated in by versions or by the file, one that   *)
(* was there before.                                                          *)
EXTENDS Client, TLC

MCSetup ==
    {[key |-> TRUE, file |-> None, v2 |-> None, v1 |-> None, base |-> "old"],
     [key |-> TRUE, file |-> None, v2 |-> "new", v1 |-> "old", base |-> None],
     [key |-> TRUE, file |-> "new", v2 |-> None, v1 |-> None, base |-> "old"],
     [key |-> FALSE, file |-> None, v2 |-> None, v1 |-> None, base |-> None]}
=============================================================================
