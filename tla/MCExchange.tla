----------------------------- MODULE MCExchange -----------------------------
(* Exchange on a small instance: a model at 0.75 and 3 USD per million tokens *)
(* and one without a price; streams of up to two events.                      *)
EXTENDS Exchange

MCPrices == [m \in {"priced"} |-> [in |-> 750000, out |-> 3000000]]
MCUsage  == [l \in {"null", "u1", "u2"} |->
               CASE l = "null" -> [in |-> 0, out |-> 0]
                 [] l = "u1"   -> [in |-> 1, out |-> 0]
                 [] OTHER      -> [in |-> 3, out |-> 1]]
=============================================================================
