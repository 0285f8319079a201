------------------------------ MODULE Passage ------------------------------
(***************************************************************************)
(* What the gateway promises of one proxied request, whatever its route    *)
(* and however the upstream's body is cut into reads: the client is sent   *)
(* that body from its beginning, in order, with nothing changed, left out  *)
(* or sent twice; the exchange ends once, with at most one Event; the      *)
(* Event of a stream says truly whether all of it was sent; only what was  *)
(* sent whole is charged; and after the end nothing is sent any more.      *)
(***************************************************************************)
EXTENDS Integers, Sequences

CONSTANTS
  Units,  \* what bodies consist of
  Notice  \* what a client is told of a break with

VARIABLES
  source,  \* the body the upstream has for the client
  sent,    \* what the client was sent of it
  record,  \* how the exchange ended
  bill     \* what was charged for it

vars == <<source, sent, record, bill>>

Init == source = <<>> /\ sent = <<>> /\ record = "open" /\ bill = 0

\* The upstream answers, with any body.
Answered ==
  /\ record = "open" /\ source = <<>> /\ sent = <<>>
  /\ source' \in Seq(Units)
  /\ UNCHANGED <<sent, record, bill>>

Pass ==
  /\ record = "open"
  /\ \E n \in Len(sent) .. Len(source) : sent' = SubSeq(source, 1, n)
  /\ UNCHANGED <<source, record, bill>>

\* A stream that was sent to its end.
Complete ==
  /\ record = "open" /\ record' = "whole"
  /\ sent = source
  /\ bill' \in Nat
  /\ UNCHANGED <<source, sent>>

\* A stream that was not.
Break ==
  /\ record = "open" /\ record' = "cut"
  /\ sent' \in {sent, Append(sent, Notice)}
  /\ UNCHANGED <<source, bill>>

\* A body that is not streamed is sent at once; if only a part of it came, that
\* part is sent, of which nothing more is said, and nothing is charged.
HandOver ==
  /\ record = "open" /\ record' = "document"
  /\ sent = <<>>
  /\ \/ sent' = source /\ bill' \in Nat
     \/ UNCHANGED <<sent, bill>>
  /\ UNCHANGED source

\* The upstream was not asked, or did not answer.
Fail ==
  /\ record = "open" /\ record' \in {"refused", "failed"}
  /\ source = <<>> /\ sent = <<>>
  /\ UNCHANGED <<source, sent, bill>>

Next == Answered \/ Pass \/ Complete \/ Break \/ HandOver \/ Fail

Spec == Init /\ [][Next]_vars
=============================================================================
