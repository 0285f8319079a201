----------------------------- MODULE LossyFeed -----------------------------
(***************************************************************************)
(* What the live feed promises a viewer, whatever it is built of: events   *)
(* may be missing, but those that arrive are events that were broadcast,   *)
(* in the order they were broadcast, none of them twice -- also across     *)
(* reconnects of the same viewer.                                          *)
(***************************************************************************)
EXTENDS Naturals

CONSTANT Viewers

VARIABLES
  sent,   \* events broadcast so far; an event is its number
  got     \* got[v]: the last event viewer v has seen, 0 for none

vars == <<sent, got>>

Init ==
  /\ sent = 0
  /\ got = [v \in Viewers |-> 0]

Send ==
  /\ sent' = sent + 1
  /\ UNCHANGED got

\* The viewer sees a later event than the last, having missed those between.
See(v) ==
  /\ \E n \in got[v] + 1 .. sent : got' = [got EXCEPT ![v] = n]
  /\ UNCHANGED sent

Next == Send \/ \E v \in Viewers : See(v)

Spec == Init /\ [][Next]_vars
=============================================================================
