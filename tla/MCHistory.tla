----------------------------- MODULE MCHistory -----------------------------
(* History on a small instance: a filter that is empty or one day. *)
EXTENDS History

CONSTANT m1

MCFilters == {[model |-> Any, since |-> Any, until |-> Any],
              [model |-> Any, since |-> 1, until |-> 1]}
=============================================================================
