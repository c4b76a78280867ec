----------------------------- MODULE MCPondApi -----------------------------
(* Pool threads and the event loop are model values; connections are numbers. *)
EXTENDS PondApi
=============================================================================
