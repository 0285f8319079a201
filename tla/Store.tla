------------------------------- MODULE Store -------------------------------
(***************************************************************************)
(* The request log's writer: Store (store.go).  Proxy handlers put events  *)
(* on a buffered queue without waiting; one goroutine, Run, inserts them   *)
(* one at a time.  When its context is cancelled Run empties what is left  *)
(* of the queue and returns, for good: nobody reads the queue after that.  *)
(*                                                                         *)
(* Postgres is outside: an insert may succeed, fail, or run into its five  *)
(* second timeout, after which the server may still commit it, or not.  An *)
(* insert is never repeated.                                               *)
(***************************************************************************)
EXTENDS Naturals, SequencesExt

CONSTANTS
  Events,    \* the events proxied requests give rise to, one each
  NoEvent,   \* what the worker holds between two inserts
  QueueCap   \* buffer of Store.queue, 256 in the code

ASSUME QueueAssumption == QueueCap \in Nat \ {0} /\ NoEvent \notin Events

VARIABLES
  offered,   \* ghost: events Enqueue was called with
  accepted,  \* ghost: those the queue took, in order
  queue,     \* Store.queue
  worker,    \* Run: run (its select), drain (the loop of drain), done
  holding,   \* the event being inserted
  limbo,     \* events whose insert timed out and may still be committed
  slow,      \* ghost: events that have ever been in limbo
  stopping,  \* ctx.Done(): a signal has arrived
  early,     \* ghost: what the queue held when the signal arrived
  rows       \* the requests table, in the order the rows were committed

storeVars == <<offered, accepted, queue, worker, holding, limbo, slow,
               stopping, early, rows>>

StoreTypeOK ==
  /\ offered \subseteq Events
  /\ accepted \in Seq(Events)
  /\ queue \in Seq(Events) /\ Len(queue) <= QueueCap
  /\ worker \in {"run", "drain", "done"}
  /\ holding \in Events \cup {NoEvent}
  /\ limbo \subseteq slow /\ slow \subseteq Events
  /\ stopping \in BOOLEAN
  /\ early \subseteq Events
  /\ rows \in Seq(Events)

StoreInit ==
  /\ offered = {} /\ accepted = <<>>
  /\ queue = <<>> /\ worker = "run" /\ holding = NoEvent
  /\ limbo = {} /\ slow = {}
  /\ stopping = FALSE /\ early = {}
  /\ rows = <<>>

-----------------------------------------------------------------------------
\* Mutant: a queue without a bound.
EnqueueUnbounded(e) ==
  /\ e \notin offered
  /\ offered' = offered \cup {e}
  /\ queue' = Append(queue, e) /\ accepted' = Append(accepted, e)
  /\ UNCHANGED <<worker, holding, limbo, slow, stopping, early, rows>>

\* select { case s.queue <- ev: default: }
Enqueue(e) ==
  /\ e \notin offered
  /\ offered' = offered \cup {e}
  /\ IF Len(queue) < QueueCap
       THEN queue' = Append(queue, e) /\ accepted' = Append(accepted, e)
       ELSE UNCHANGED <<queue, accepted>>
  /\ UNCHANGED <<worker, holding, limbo, slow, stopping, early, rows>>

\* signal.NotifyContext cancels the context Run was started with.
Cancel ==
  /\ ~stopping
  /\ stopping' = TRUE
  /\ early' = ToSet(queue)
  /\ UNCHANGED <<offered, accepted, queue, worker, holding, limbo, slow, rows>>

Idle == holding = NoEvent

\* case ev := <-s.queue, in Run and in drain.  In Run the select may choose it
\* with the context already cancelled.
Take ==
  /\ Idle /\ worker # "done" /\ queue # <<>>
  /\ holding' = Head(queue)
  /\ queue' = Tail(queue)
  /\ UNCHANGED <<offered, accepted, worker, limbo, slow, stopping, early, rows>>

\* Mutant: Run returns at once when its context is cancelled.
ReturnUndrained ==
  /\ Idle /\ worker = "run" /\ stopping
  /\ worker' = "done"
  /\ UNCHANGED <<offered, accepted, queue, holding, limbo, slow, stopping, early, rows>>

\* case <-ctx.Done().
BeginDrain ==
  /\ Idle /\ worker = "run" /\ stopping
  /\ worker' = "drain"
  /\ UNCHANGED <<offered, accepted, queue, holding, limbo, slow, stopping, early, rows>>

\* default, in drain: the queue is empty now.
EndDrain ==
  /\ Idle /\ worker = "drain" /\ queue = <<>>
  /\ worker' = "done"
  /\ UNCHANGED <<offered, accepted, queue, holding, limbo, slow, stopping, early, rows>>

-----------------------------------------------------------------------------
(* insert: ExecContext with a timeout; an error is logged and that is all. *)

InsertOk ==
  /\ ~Idle
  /\ rows' = Append(rows, holding)
  /\ holding' = NoEvent
  /\ UNCHANGED <<offered, accepted, queue, worker, limbo, slow, stopping, early>>

\* Mutant: a failed insert is put back at the end of the queue.
InsertRequeues ==
  /\ ~Idle
  /\ IF Len(queue) < QueueCap THEN queue' = Append(queue, holding) ELSE UNCHANGED queue
  /\ holding' = NoEvent
  /\ UNCHANGED <<offered, accepted, worker, limbo, slow, stopping, early, rows>>

InsertFails ==
  /\ ~Idle
  /\ holding' = NoEvent
  /\ UNCHANGED <<offered, accepted, queue, worker, limbo, slow, stopping, early, rows>>

\* Mutant: an insert that timed out is tried again.
InsertRetries ==
  /\ ~Idle
  /\ limbo' = limbo \cup {holding}
  /\ slow' = slow \cup {holding}
  /\ UNCHANGED <<offered, accepted, queue, worker, holding, stopping, early, rows>>

InsertTimesOut ==
  /\ ~Idle
  /\ limbo' = limbo \cup {holding}
  /\ slow' = slow \cup {holding}
  /\ holding' = NoEvent
  /\ UNCHANGED <<offered, accepted, queue, worker, stopping, early, rows>>

\* Postgres commits, or drops, a statement whose client has given up on it.
LateCommit(e) ==
  /\ e \in limbo
  /\ rows' = Append(rows, e)
  /\ limbo' = limbo \ {e}
  /\ UNCHANGED <<offered, accepted, queue, worker, holding, slow, stopping, early>>

LateAbort(e) ==
  /\ e \in limbo
  /\ limbo' = limbo \ {e}
  /\ UNCHANGED <<offered, accepted, queue, worker, holding, slow, stopping, early, rows>>

-----------------------------------------------------------------------------
\* What Run does by itself.
Worker == Take \/ BeginDrain \/ EndDrain \/ InsertOk \/ InsertFails \/ InsertTimesOut
Late   == \E e \in Events : LateCommit(e) \/ LateAbort(e)

StoreNext == Worker \/ Late \/ Cancel \/ \E e \in Events : Enqueue(e)

StoreSpec == StoreInit /\ [][StoreNext]_storeVars

-----------------------------------------------------------------------------
(* Properties of the store alone. *)

\* The log implements the lossy log: a row is written at most once, only for an
\* event that was offered, and stays, whatever inserts fail or time out; and an
\* event is offered in one step, whatever state the queue and the database are in.
Undecided == ToSet(queue) \cup limbo \cup ({holding} \ {NoEvent})
Log == INSTANCE LossyLog WITH undecided <- Undecided
LogIsLossy == Log!Spec

Position(e) == CHOOSE i \in DOMAIN accepted : accepted[i] = e

\* Rows are in the order the events were enqueued, save those of inserts that
\* timed out: a row's id tells when its event was logged as long as Postgres answers.
RowsInOrder ==
  \A i, j \in DOMAIN rows :
    i < j /\ rows[i] \notin slow /\ rows[j] \notin slow
      => Position(rows[i]) < Position(rows[j])

\* "Pas ctx dibatalin (shutdown), Run drain sisa antrian yang udah kepush
\* sebelum return" (store.go:35): when Run has returned, nothing that was in
\* the queue when the signal arrived is in it still.
DrainedBeforeReturn == worker = "done" => ToSet(queue) \cap early = {}
=============================================================================
