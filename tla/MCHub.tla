------------------------------- MODULE MCHub -------------------------------
(* Hub on a small instance: two dashboards, both buffers small enough to     *)
(* overflow with the events there are.                                       *)
EXTENDS Hub
=============================================================================
