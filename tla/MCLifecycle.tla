---------------------------- MODULE MCLifecycle ----------------------------
(* Lifecycle on a small instance: three requests, a queue of one or two, one *)
(* dashboard.                                                                *)
EXTENDS Lifecycle
=============================================================================
