------------------------------ MODULE MCAccess ------------------------------
(* Access on a small instance. *)
EXTENDS Access

CONSTANTS k1, k2

MCRpm == [k \in Keys |-> IF k = k1 THEN 2 ELSE 0]
=============================================================================
