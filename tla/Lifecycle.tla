----------------------------- MODULE Lifecycle -----------------------------
(***************************************************************************)
(* The life of the process: main (main.go), the HTTP server and its        *)
(* handlers, and the Store they feed.  A signal cancels the context of the *)
(* background goroutines and wakes main, which calls srv.Shutdown with ten *)
(* seconds to finish.  Shutdown stops accepting and waits for the handlers *)
(* that run; it does not cancel their contexts.  main does not wait for    *)
(* the goroutines, so the process ends when Shutdown returns.              *)
(*                                                                         *)
(* http.Server is outside src/: Shutdown is modelled by its contract.      *)
(***************************************************************************)
EXTENDS Store

CONSTANT Viewers    \* dashboards that keep /admin/stream open

VARIABLES
  server,   \* starting, serving, closing (in Shutdown); then how it ended: clean
            \* (exit 0), failed (Shutdown's error, exit 1), unheard (never listened)
  handler,  \* handler[e]: the proxy handler whose event is e: none, running, done
  streams   \* viewers whose stream handler is running

vars == <<storeVars, server, handler, streams>>

lifeVars == <<server, handler, streams>>

TypeOK ==
  /\ StoreTypeOK
  /\ server \in {"starting", "serving", "closing", "clean", "failed", "unheard"}
  /\ handler \in [Events -> {"none", "running", "done"}]
  /\ streams \subseteq Viewers

Init ==
  /\ StoreInit
  /\ server = "starting"
  /\ handler = [e \in Events |-> "none"]
  /\ streams = {}

Ended == server \in {"clean", "failed", "unheard"}
Proxying == {e \in Events : handler[e] = "running"}
Busy  == streams # {} \/ Proxying # {}

-----------------------------------------------------------------------------
(* main *)

Listen ==
  /\ server = "starting"
  /\ server' = "serving"
  /\ UNCHANGED <<storeVars, handler, streams>>

\* ListenAndServe fails, the port being taken: os.Exit(1).
ListenFails ==
  /\ server = "starting"
  /\ server' = "unheard"
  /\ UNCHANGED <<storeVars, handler, streams>>

Signal ==
  /\ server \in {"starting", "serving"}
  /\ Cancel
  /\ UNCHANGED lifeVars

\* main comes back from <-ctx.Done() and calls Shutdown: later than the worker
\* may notice the signal, and requests still come in until then.
BeginShutdown ==
  /\ server \in {"starting", "serving"} /\ stopping
  /\ server' = "closing"
  /\ UNCHANGED <<storeVars, handler, streams>>

\* Every handler has returned: Shutdown returns nil, then main does.
ShutdownEnds ==
  /\ server = "closing" /\ ~Busy
  /\ server' = "clean"
  /\ UNCHANGED <<storeVars, handler, streams>>

\* Mutant: Shutdown is given a context without a deadline.
ShutdownHasNoDeadline == FALSE /\ UNCHANGED vars

\* Ten seconds have passed with a handler still running: os.Exit(1).
ShutdownTimesOut ==
  /\ server = "closing" /\ Busy
  /\ server' = "failed"
  /\ UNCHANGED <<storeVars, handler, streams>>

-----------------------------------------------------------------------------
(* Handlers *)

Accept(e) ==
  /\ server = "serving" /\ handler[e] = "none"
  /\ handler' = [handler EXCEPT ![e] = "running"]
  /\ UNCHANGED <<storeVars, server, streams>>

\* The exchange is over: emitEvent, then the handler returns.
Finish(e) ==
  /\ ~Ended /\ handler[e] = "running"
  /\ Enqueue(e)
  /\ handler' = [handler EXCEPT ![e] = "done"]
  /\ UNCHANGED <<server, streams>>

\* The request was not proxied (bad body): no event.
Return(e) ==
  /\ ~Ended /\ handler[e] = "running"
  /\ handler' = [handler EXCEPT ![e] = "done"]
  /\ UNCHANGED <<storeVars, server, streams>>

OpenStream(v) ==
  /\ server = "serving" /\ v \notin streams
  /\ streams' = streams \cup {v}
  /\ UNCHANGED <<storeVars, server, handler>>

\* Only the client ends its stream: Shutdown does not cancel r.Context().
CloseStream(v) ==
  /\ ~Ended /\ v \in streams
  /\ streams' = streams \ {v}
  /\ UNCHANGED <<storeVars, server, handler>>

Write == ~Ended /\ Worker /\ UNCHANGED lifeVars

\* The database lives on: a statement it was sent may be committed when the
\* process that sent it has ended.
Database ==
  \/ Late /\ UNCHANGED lifeVars
  \/ Ended /\ InsertOk /\ UNCHANGED lifeVars

-----------------------------------------------------------------------------
Main == Listen \/ ListenFails \/ BeginShutdown \/ ShutdownEnds \/ ShutdownTimesOut

Next ==
  \/ Main \/ Signal \/ Write \/ Database
  \/ \E e \in Events : Accept(e) \/ Finish(e) \/ Return(e)
  \/ \E v \in Viewers : OpenStream(v) \/ CloseStream(v)

\* main and the worker run when they can, and the ten seconds pass; every insert
\* comes to an end, by its own timeout.  Nothing is assumed of the upstream, the
\* clients or the dashboards.
Fairness == WF_vars(Main) /\ WF_vars(Write)

Spec == Init /\ [][Next]_vars /\ Fairness

-----------------------------------------------------------------------------
(* Properties *)

\* After a signal the process ends, though the upstream hangs, Postgres does not
\* answer or a dashboard stays: every wait on the way out has a timeout.
EndsAfterSignal == stopping ~> Ended

\* "Drain antrian pas shutdown" (PRD.md:177): a clean exit leaves nothing in the
\* log's queue.  The code breaks this in two ways: the worker returns at the
\* signal while handlers that still run enqueue behind it, and main does not
\* wait for the worker.
DrainedAtCleanExit == server = "clean" => queue = <<>>

\* "Ctrl-C mati bersih" (PRD.md:150), for a gateway that proxies nothing at the
\* time: Shutdown fails only when it gives up on a proxied request.  The code
\* breaks this: an open dashboard alone holds Shutdown until it times out.
FailsOnlyForRequests ==
  server = "failed" => Proxying # {}
=============================================================================
