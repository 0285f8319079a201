------------------------------ MODULE LossyLog ------------------------------
(***************************************************************************)
(* What the request log promises, whatever writes it: an event that was    *)
(* offered may be lost, but what is in the table was offered, is there     *)
(* once, and stays; and offering never waits for anything.                 *)
(***************************************************************************)
EXTENDS Sequences, FiniteSets

CONSTANT Events

VARIABLES
  offered,   \* events the proxy has offered
  undecided, \* those whose fate is open
  rows       \* the table, in the order the rows were written

vars == <<offered, undecided, rows>>

Init == offered = {} /\ undecided = {} /\ rows = <<>>

\* The event is taken, or lost on the spot.
Offer(e) ==
  /\ e \notin offered
  /\ offered' = offered \cup {e}
  /\ undecided' \in {undecided, undecided \cup {e}}
  /\ UNCHANGED rows

Write(e) ==
  /\ e \in undecided
  /\ undecided' = undecided \ {e}
  /\ rows' = Append(rows, e)
  /\ UNCHANGED offered

Lose(e) ==
  /\ e \in undecided
  /\ undecided' = undecided \ {e}
  /\ UNCHANGED <<offered, rows>>

Next == \E e \in Events : Offer(e) \/ Write(e) \/ Lose(e)

Spec == Init /\ [][Next]_vars
=============================================================================
