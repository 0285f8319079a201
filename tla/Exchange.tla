------------------------------ MODULE Exchange ------------------------------
(***************************************************************************)
(* One proxied request, from its body to its Event: the two handlers and   *)
(* streamBody (proxy.go), the upstream, a client that may leave at any     *)
(* time, and the command line client that turns an answer into a file      *)
(* (cmd/lamaran).                                                          *)
(*                                                                         *)
(* A streamed body is a sequence of tokens.  An event of the stream is one *)
(* "data: {...}" line and the blank line that ends it, so a token is a     *)
(* line's text (an element of Lines), "nl" or, where the upstream frames   *)
(* with CRLF, "cr".  What one Read returns is any number of them.  A body  *)
(* that is not streamed is one JSON document, given by the line its usage  *)
(* object is in.                                                           *)
(*                                                                         *)
(* net/http is outside src/: a request whose context is cancelled comes    *)
(* back with an error, and an answer that falls short of the               *)
(* Content-Length it declared is an error to the client that reads it.     *)
(* Every ResponseWriter of net/http is a Flusher, so streamBody's first    *)
(* branch is never taken.                                                  *)
(***************************************************************************)
EXTENDS Integers, Sequences

CONSTANTS
  Models,    \* the names a client may ask for
  Prices,    \* Config.Models: what is paid for a million tokens, [in, out], by name
  Lines,     \* data lines of the upstream
  Usage,     \* [in, out] of the lines that hold "usage"; zeros where it is null
  MaxLines,  \* a stream has at most so many events
  MaxRead    \* streamBody's buffer, 4096 bytes in the code

Tokens == [in : Nat, out : Nat]

ASSUME PricesAssumption == DOMAIN Prices \subseteq Models
                             /\ \A m \in DOMAIN Prices : Prices[m] \in Tokens
ASSUME UsageAssumption  == DOMAIN Usage \subseteq Lines
                             /\ \A l \in DOMAIN Usage : Usage[l] \in Tokens
ASSUME LinesAssumption  == Lines \cap {"nl", "cr", "error"} = {}
ASSUME SizeAssumption   == MaxLines \in Nat /\ MaxRead \in Nat \ {0}

VARIABLES
  request,    \* what the client asked for
  pc,         \* where the handler is
  gone,       \* the client has left: r.Context() is cancelled
  upstream,   \* the upstream's answer, of which not all need arrive
  taken,      \* tokens of its stream that were read
  pending,    \* streamBody: what was read since the last blank line
  lastUsage,  \* streamBody: the last event that mentions usage
  answer,     \* what the client was sent
  event,      \* the Event that was emitted
  match       \* the command line client's match.md

vars == <<request, pc, gone, upstream, taken, pending, lastUsage, answer, event, match>>

NoUse    == [in |-> 0, out |-> 0]
NoEvent  == [status |-> -1]
NoAnswer == [status |-> 0, body |-> <<>>, torn |-> FALSE]
Silence  == [status |-> 0, lines |-> <<>>, crlf |-> FALSE, short |-> 0, sized |-> FALSE]

-----------------------------------------------------------------------------
(* The client's request.  `usage' is stream_options.include_usage. *)

Requests == {r \in [route : {"chat", "embed"}, stream : BOOLEAN, model : Models,
                    usage : {"unset", "yes", "no"}] :
               /\ r.route = "embed" => ~r.stream
               /\ ~r.stream => r.usage = "unset"}

\* include_usage is set unless the client has set it, either way.
AsksUsage(r) == r.usage # "no"

-----------------------------------------------------------------------------
(* The upstream's stream. *)

Separator(u) == IF u.crlf THEN <<"cr", "nl", "cr", "nl">> ELSE <<"nl", "nl">>
FrameLen(u)  == 1 + Len(Separator(u))

\* The whole body: every line with its blank line, but for the last `short' tokens.
Wire(u) ==
  [i \in 1 .. Len(u.lines) * FrameLen(u) - u.short |->
     LET k == (i - 1) % FrameLen(u)
     IN  IF k = 0 THEN u.lines[(i - 1) \div FrameLen(u) + 1] ELSE Separator(u)[k]]

Sent(u)   == [status : {200, 500}, lines : u, crlf : BOOLEAN, short : 0 .. 4, sized : BOOLEAN]
Sequences == UNION {[1 .. n -> Lines] : n \in 0 .. MaxLines}

\* A stream holds usage only if it was asked for, and only when all is well.
Streams(r) == {u \in Sent(Sequences) :
  /\ ~u.sized
  /\ u.short <= (IF u.lines = <<>> THEN 0 ELSE Len(Separator(u)))
  /\ u.status # 200 \/ ~AsksUsage(r) =>
       \A i \in DOMAIN u.lines : u.lines[i] \notin DOMAIN Usage}

Documents == {u \in Sent([{1} -> Lines]) :
  /\ ~u.crlf /\ u.short = 0
  /\ u.status # 200 => u.lines[1] \notin DOMAIN Usage}

TypeOK ==
  /\ request \in Requests
  /\ pc \in {"decoding", "waiting", "collecting", "relaying", "scanning", "done"}
  /\ gone \in BOOLEAN
  /\ upstream \in {Silence} \cup Sent(Seq(Lines))
  /\ taken \in Nat
  /\ pending \in Seq(Lines \cup {"nl", "cr"})
  /\ lastUsage \in Seq(Lines \cup {"nl", "cr"})
  /\ answer \in [status : {0, 200, 400, 500, 502}, torn : BOOLEAN,
                 body : Seq(Lines \cup {"nl", "cr", "error"})]
  /\ event \in {NoEvent} \cup
       [status : {0, 200, 500, 502}, partial : BOOLEAN, in : Nat, out : Nat, cost : Nat,
        unknown : BOOLEAN, error : {"none", "left", "unreachable", "interrupted"}]
  /\ match \in {"none", "written", "failed"}

Init ==
  /\ request \in Requests
  /\ pc = "decoding" /\ gone = FALSE
  /\ upstream = Silence /\ taken = 0
  /\ pending = <<>> /\ lastUsage = <<>>
  /\ answer = NoAnswer /\ event = NoEvent /\ match = "none"

-----------------------------------------------------------------------------
(* What is emitted.  Money is in micro-USD, prices are per million tokens. *)

Million == 1000000

\* Mutant: the two prices are swapped.
CostSwapped(m, use) ==
  (use.in * Prices[m].out) \div Million + (use.out * Prices[m].in) \div Million

\* calcCost: each product is cut to whole micro-USD on its own.
Cost(m, use) ==
  (use.in * Prices[m].in) \div Million + (use.out * Prices[m].out) \div Million

Priced(m) == m \in DOMAIN Prices

\* The end of an exchange the upstream answered.
Emit(use, partial, error) ==
  /\ event' = [status |-> upstream.status, partial |-> partial, error |-> error,
               in |-> use.in, out |-> use.out,
               cost |-> IF Priced(request.model) THEN Cost(request.model, use) ELSE 0,
               unknown |-> ~Priced(request.model)]
  /\ pc' = "done"

\* The end of one it did not answer.
EmitFailure(status, partial, error) ==
  /\ event' = [status |-> status, partial |-> partial, error |-> error,
               in |-> 0, out |-> 0, cost |-> 0, unknown |-> FALSE]
  /\ pc' = "done"

-----------------------------------------------------------------------------
(* Up to the upstream's answer. *)

\* The client leaves; the server cancels the request's context.
ClientLeaves ==
  /\ ~gone /\ pc # "done"
  /\ gone' = TRUE
  /\ UNCHANGED <<request, pc, upstream, taken, pending, lastUsage, answer, event, match>>

\* The body cannot be read or, of a chat request, is not JSON: no Event.
BadBody ==
  /\ pc = "decoding"
  /\ pc' = "done"
  /\ answer' = [answer EXCEPT !.status = 400]
  /\ UNCHANGED <<request, gone, upstream, taken, pending, lastUsage, event, match>>

Forward ==
  /\ pc = "decoding"
  /\ pc' = "waiting"
  /\ UNCHANGED <<request, gone, upstream, taken, pending, lastUsage, answer, event, match>>

\* client.Do fails of itself.
Unreachable ==
  /\ pc = "waiting" /\ ~gone
  /\ EmitFailure(502, FALSE, "unreachable")
  /\ answer' = [answer EXCEPT !.status = 502]
  /\ UNCHANGED <<request, gone, upstream, taken, pending, lastUsage, match>>

\* Mutant: the Event has the status other proxies log for it.
AbandonedAs499 ==
  /\ pc = "waiting" /\ gone
  /\ EmitFailure(499, TRUE, "left")
  /\ UNCHANGED <<request, gone, upstream, taken, pending, lastUsage, answer, match>>

\* client.Do fails because the client has left.
Abandoned ==
  /\ pc = "waiting" /\ gone
  /\ EmitFailure(0, TRUE, "left")
  /\ UNCHANGED <<request, gone, upstream, taken, pending, lastUsage, answer, match>>

\* The upstream's header, copied to the client with its status.
Headers(u) ==
  /\ pc = "waiting"
  /\ u \in IF request.stream THEN Streams(request) ELSE Documents
  /\ upstream' = u
  /\ answer' = [answer EXCEPT !.status = u.status]
  /\ pc' = IF request.stream THEN "relaying" ELSE "collecting"
  /\ UNCHANGED <<request, gone, taken, pending, lastUsage, event, match>>

-----------------------------------------------------------------------------
(* A body that is not streamed: io.ReadAll, whose error is ignored. *)

\* parseUsage: an event or document that is one JSON object with usage in it.
ParseUsage(e) ==
  IF Len(e) = 1 /\ e[1] \in DOMAIN Usage THEN Usage[e[1]] ELSE NoUse

\* Embeddings have no output tokens.
Relevant(use) == IF request.route = "embed" THEN [use EXCEPT !.out = 0] ELSE use

Collect ==
  /\ pc = "collecting"
  /\ answer' = [answer EXCEPT !.body = upstream.lines]
  /\ Emit(Relevant(ParseUsage(upstream.lines)), FALSE, "none")
  /\ UNCHANGED <<request, gone, upstream, taken, pending, lastUsage, match>>

\* The upstream breaks off or the client has left: what is there is sent on, and
\* logged like a whole answer.  Part of a document holds no usage.
CollectPart ==
  /\ pc = "collecting"
  /\ answer' = [answer EXCEPT !.torn = upstream.sized]
  /\ Emit(NoUse, FALSE, "none")
  /\ UNCHANGED <<request, gone, upstream, taken, pending, lastUsage, match>>

-----------------------------------------------------------------------------
(* streamBody *)

Rest == Len(Wire(upstream)) - taken
Chunk(n) == SubSeq(Wire(upstream), taken + 1, taken + n)

\* Mutant: only what this Read returned is looked through.
RelayForgets(n) ==
  /\ pc = "relaying" /\ n <= Rest
  /\ taken' = taken + n
  /\ answer' = [answer EXCEPT !.body = @ \o Chunk(n)]
  /\ pending' = Chunk(n)
  /\ pc' = "scanning"
  /\ UNCHANGED <<request, gone, upstream, lastUsage, event, match>>

\* Mutant: what is held back for the scan is written with every read.
RelayRepeats(n) ==
  /\ pc = "relaying" /\ n <= Rest
  /\ taken' = taken + n
  /\ answer' = [answer EXCEPT !.body = @ \o pending \o Chunk(n)]
  /\ pending' = pending \o Chunk(n)
  /\ pc' = "scanning"
  /\ UNCHANGED <<request, gone, upstream, lastUsage, event, match>>

\* Read returns n tokens, which are written and flushed before they are looked at.
Relay(n) ==
  /\ pc = "relaying" /\ n <= Rest
  /\ taken' = taken + n
  /\ answer' = [answer EXCEPT !.body = @ \o Chunk(n)]
  /\ pending' = pending \o Chunk(n)
  /\ pc' = "scanning"
  /\ UNCHANGED <<request, gone, upstream, lastUsage, event, match>>

\* Write fails: the client is not there any more.
WriteFails ==
  /\ pc = "relaying" /\ gone /\ Rest > 0
  /\ Emit(NoUse, TRUE, "none")
  /\ UNCHANGED <<request, gone, upstream, taken, pending, lastUsage, answer, match>>

\* Mutant: a blank line is looked for at the end of pending only.
BreaksAtEnd(p) == {i \in {Len(p) - 1} : i > 0 /\ p[i] = "nl" /\ p[i + 1] = "nl"}

\* Where pending has a blank line.
Breaks(p) == {i \in 1 .. Len(p) - 1 : p[i] = "nl" /\ p[i + 1] = "nl"}

Mentions(e) == \E i \in DOMAIN e : e[i] \in DOMAIN Usage

\* Mutant: the blank line is left where it is.
CutKeeps(i) ==
  /\ pc = "scanning"
  /\ i \in Breaks(pending) /\ \A j \in Breaks(pending) : i <= j
  /\ LET e == SubSeq(pending, 1, i - 1)
     IN  lastUsage' = IF Mentions(e) THEN e ELSE lastUsage
  /\ pending' = SubSeq(pending, i, Len(pending))
  /\ UNCHANGED <<request, pc, gone, upstream, taken, answer, event, match>>

\* The first event of pending that is complete is cut off.
Cut(i) ==
  /\ pc = "scanning"
  /\ i \in Breaks(pending) /\ \A j \in Breaks(pending) : i <= j
  /\ LET e == SubSeq(pending, 1, i - 1)
     IN  lastUsage' = IF Mentions(e) THEN e ELSE lastUsage
  /\ pending' = SubSeq(pending, i + 2, Len(pending))
  /\ UNCHANGED <<request, pc, gone, upstream, taken, answer, event, match>>

NoneLeft ==
  /\ pc = "scanning" /\ Breaks(pending) = {}
  /\ pc' = "relaying"
  /\ UNCHANGED <<request, gone, upstream, taken, pending, lastUsage, answer, event, match>>

\* io.EOF: only now is the last usage parsed.
StreamEnds ==
  /\ pc = "relaying" /\ Rest = 0
  /\ Emit(ParseUsage(lastUsage), FALSE, "none")
  /\ UNCHANGED <<request, gone, upstream, taken, pending, lastUsage, answer, match>>

\* Mutant: an upstream that breaks off is taken for one that has ended.
InterruptedIsEnd ==
  /\ pc = "relaying" /\ ~gone
  /\ Emit(ParseUsage(lastUsage), FALSE, "none")
  /\ UNCHANGED <<request, gone, upstream, taken, pending, lastUsage, answer, match>>

\* The upstream breaks off: the status is sent already, so the client is told by
\* an event of type error.
Interrupted ==
  /\ pc = "relaying" /\ ~gone
  /\ answer' = [answer EXCEPT !.body = Append(@, "error")]
  /\ Emit(NoUse, TRUE, "interrupted")
  /\ UNCHANGED <<request, gone, upstream, taken, pending, lastUsage, match>>

\* Read fails because the client has left.
Cancelled ==
  /\ pc = "relaying" /\ gone
  /\ Emit(NoUse, TRUE, "none")
  /\ UNCHANGED <<request, gone, upstream, taken, pending, lastUsage, answer, match>>

-----------------------------------------------------------------------------
(* cmd/lamaran, when it is the client: it writes match.md from an answer with *)
(* status 200 whose whole body is a JSON document, and else exits with 1.     *)

IsCli == request.route = "chat" /\ ~request.stream /\ ~gone

Usable(a) == a.status = 200 /\ ~a.torn /\ Len(a.body) = 1

\* Mutant: the body is used as it came.
CliTrusts ==
  /\ pc = "done" /\ match = "none" /\ IsCli
  /\ answer.status = 200
  /\ match' = "written"
  /\ UNCHANGED <<request, pc, gone, upstream, taken, pending, lastUsage, answer, event>>

CliWrites ==
  /\ pc = "done" /\ match = "none" /\ IsCli
  /\ Usable(answer)
  /\ match' = "written"
  /\ UNCHANGED <<request, pc, gone, upstream, taken, pending, lastUsage, answer, event>>

\* Also when the document has no choices in it, or the file cannot be written.
CliFails ==
  /\ pc = "done" /\ match = "none" /\ IsCli
  /\ match' = "failed"
  /\ UNCHANGED <<request, pc, gone, upstream, taken, pending, lastUsage, answer, event>>

-----------------------------------------------------------------------------
\* Steps that wait for nobody once the client has left: the handler's own, and
\* those the cancelled context brings about.
Own == BadBody \/ Forward \/ NoneLeft \/ \E i \in DOMAIN pending : Cut(i)
Comeback == gone /\ (Abandoned \/ Cancelled \/ CollectPart)

Next ==
  \/ Own \/ ClientLeaves \/ Unreachable \/ Abandoned \/ Collect \/ CollectPart
  \/ \E u \in Streams(request) \cup Documents : Headers(u)
  \/ \E n \in 1 .. MaxRead : Relay(n)
  \/ WriteFails \/ StreamEnds \/ Interrupted \/ Cancelled
  \/ CliWrites \/ CliFails

\* The handler runs, and a cancelled request comes back.  Nothing is assumed of
\* the upstream, which may never answer and never end: there is no timeout.
Fairness == WF_vars(Own) /\ WF_vars(Comeback)

Spec == Init /\ [][Next]_vars /\ Fairness

-----------------------------------------------------------------------------
(* Properties *)

Emitted  == event # NoEvent
Answered == Emitted /\ upstream # Silence

\* What the upstream says the exchange used: the usage of the last event, closed
\* by its blank line, that mentions any.
Closed(u) == IF u.short = 0 THEN Len(u.lines) ELSE Len(u.lines) - 1
Reported(u) ==
  LET told == {i \in 1 .. Closed(u) : u.lines[i] \in DOMAIN Usage}
  IN  IF told = {} THEN NoUse
      ELSE Usage[u.lines[CHOOSE i \in told : \A j \in told : j <= i]]

\* What is logged and charged is what the upstream reported, however its body was
\* split over reads: a stream that came to its end (with LF framing), with the
\* usage asked for behind the client's back where it said nothing about it, and a
\* document that came whole.
BilledAsReported ==
  Answered /\ ~event.partial /\ ~upstream.crlf =>
    LET use == Relevant(Reported(upstream))
    IN  \/ event.in = use.in /\ event.out = use.out
        \/ ~request.stream /\ answer.body = <<>>

\* calcCost never charges more than the price list says, and less by under two
\* micro-USD: that is all its two roundings lose.
CostWithinTwo ==
  Answered /\ Priced(request.model) =>
    LET p == Prices[request.model]
        exact == event.in * p.in + event.out * p.out
    IN  event.cost * Million <= exact /\ exact < (event.cost + 2) * Million

\* "partial=true kalau stream nggak nyampe EOF wajar" (streamBody): a stream that
\* is not marked partial reached the client whole, and one that is marked was cut
\* by its client or its upstream; a client that is not told of the cut is gone.
PartialIsTrue ==
  request.stream /\ Emitted =>
    /\ Answered /\ ~event.partial => answer.body = Wire(upstream)
    /\ event.partial => gone \/ event.error = "interrupted"

\* Streaming keeps at most one read and one unfinished event in memory, if the
\* upstream frames with LF.
BufferBounded ==
  ~upstream.crlf => Len(pending) <= MaxRead + FrameLen(upstream) - 1

\* No file from half an answer: although the gateway passes on a document that
\* broke off, with the upstream's status and logged as a success, the command line
\* client writes match.md from a whole document of an exchange that went well.
NoHalfMatch ==
  match = "written" => event.status = 200 /\ answer.body = upstream.lines

\* The exchange implements Passage: the client is sent a growing beginning of the
\* upstream's body and nothing else, and there is one Event, at the end, which
\* marks a stream that was not sent whole and charges only for what was.
Ending ==
  IF pc # "done" THEN "open"
  ELSE IF event = NoEvent THEN "refused"
  ELSE IF upstream = Silence THEN "failed"
  ELSE IF ~request.stream THEN "document"
  ELSE IF event.partial THEN "cut" ELSE "whole"
Promise == INSTANCE Passage WITH
  Units  <- Lines \cup {"nl", "cr"},
  Notice <- "error",
  source <- IF request.stream THEN Wire(upstream) ELSE upstream.lines,
  sent   <- answer.body,
  record <- Ending,
  bill   <- IF event = NoEvent THEN 0 ELSE event.cost
KeepsPromise == Promise!Spec

\* A client that leaves takes its exchange with it, though the upstream hangs
\* (proxy_cancel_test.go): the handler ends and does not wait for the upstream.
EndsWhenClientLeaves == gone ~> pc = "done"
=============================================================================
