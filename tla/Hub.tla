-------------------------------- MODULE Hub --------------------------------
(***************************************************************************)
(* The live feed: Hub (hub.go), the handlers that broadcast to it and the  *)
(* /admin/stream handlers that subscribe to it (admin.go).  One goroutine, *)
(* Run, owns the set of subscribers and serves three channels: register    *)
(* and unregister are unbuffered, so a stream handler waits there until    *)
(* the hub comes back to its select; broadcast is buffered and sent to     *)
(* without waiting.  The fan-out of one event is a loop of sends that do   *)
(* not wait either, one subscriber at a time, while viewers read.          *)
(*                                                                         *)
(* Events are numbered in the order of the Broadcast calls.                *)
(***************************************************************************)
EXTENDS Naturals, Sequences, SequencesExt

CONSTANTS
  Viewers,       \* dashboards; each connection has a channel of its own
  BroadcastCap,  \* buffer of Hub.broadcast, 64 in the code
  ViewerCap,     \* buffer of a subscriber's channel, 16 in the code
  LastEvent      \* events are followed up to this one

ASSUME CapAssumption == /\ BroadcastCap \in Nat \ {0} /\ ViewerCap \in Nat \ {0}
                        /\ LastEvent \in Nat

VARIABLES
  sent,         \* Broadcast calls so far
  broadcast,    \* Hub.broadcast
  subscribers,  \* Hub.subscribers, by viewer
  event,        \* the event Run is fanning out, 0 when it is at its select
  todo,         \* the subscribers its loop has not come to
  at,           \* where each viewer's stream handler is
  buf,          \* the buffer of each viewer's channel
  closed,       \* viewers without an open channel: it is closed, or not yet made
  got           \* ghost: the last event each viewer was sent

vars == <<sent, broadcast, subscribers, event, todo, at, buf, closed, got>>

hubVars    == <<subscribers, event, todo>>
viewerVars == <<at, buf, closed, got>>

(* away: no connection; subscribing: at h.register <- ch; watching: in the
   loop of newStreamHandler; leaving: at h.unregister <- ch, by the defer. *)
Place == {"away", "subscribing", "watching", "leaving"}
Event == 1 .. LastEvent

TypeOK ==
  /\ sent \in 0 .. LastEvent
  /\ broadcast \in Seq(Event) /\ Len(broadcast) <= BroadcastCap
  /\ subscribers \subseteq Viewers
  /\ event \in 0 .. LastEvent
  /\ todo \subseteq Viewers
  /\ at \in [Viewers -> Place]
  /\ buf \in [Viewers -> Seq(Event)] /\ \A v \in Viewers : Len(buf[v]) <= ViewerCap
  /\ closed \subseteq Viewers
  /\ got \in [Viewers -> 0 .. LastEvent]

Init ==
  /\ sent = 0 /\ broadcast = <<>>
  /\ subscribers = {} /\ event = 0 /\ todo = {}
  /\ at = [v \in Viewers |-> "away"]
  /\ buf = [v \in Viewers |-> <<>>]
  /\ closed = Viewers
  /\ got = [v \in Viewers |-> 0]

-----------------------------------------------------------------------------
(* A proxy handler calls Broadcast: a send that does not wait. *)

\* Mutant: a buffer without a bound.
BroadcastUnbounded ==
  /\ sent < LastEvent
  /\ sent' = sent + 1
  /\ broadcast' = Append(broadcast, sent + 1)
  /\ UNCHANGED <<hubVars, viewerVars>>

Broadcast ==
  /\ sent < LastEvent
  /\ sent' = sent + 1
  /\ broadcast' = IF Len(broadcast) < BroadcastCap
                    THEN Append(broadcast, sent + 1) ELSE broadcast
  /\ UNCHANGED <<hubVars, viewerVars>>

-----------------------------------------------------------------------------
(* The stream handler. *)

\* Subscribe makes a channel and sends it to the hub.
Subscribe(v) ==
  /\ at[v] = "away"
  /\ at' = [at EXCEPT ![v] = "subscribing"]
  /\ buf' = [buf EXCEPT ![v] = <<>>]
  /\ closed' = closed \ {v}
  /\ UNCHANGED <<sent, broadcast, hubVars, got>>

Receive(v) ==
  /\ at[v] = "watching" /\ buf[v] # <<>>
  /\ got' = [got EXCEPT ![v] = Head(buf[v])]
  /\ buf' = [buf EXCEPT ![v] = Tail(@)]
  /\ UNCHANGED <<sent, broadcast, hubVars, at, closed>>

\* Mutant: the stream handler closes its channel itself.
LeaveClosing(v) ==
  /\ at[v] = "watching"
  /\ at' = [at EXCEPT ![v] = "leaving"]
  /\ closed' = closed \cup {v}
  /\ UNCHANGED <<sent, broadcast, hubVars, buf, got>>

\* r.Context() is done: the handler returns and its defer unsubscribes.  The
\* select may choose this with events still in the buffer.
Leave(v) ==
  /\ at[v] = "watching"
  /\ at' = [at EXCEPT ![v] = "leaving"]
  /\ UNCHANGED <<sent, broadcast, hubVars, buf, closed, got>>

-----------------------------------------------------------------------------
(* Hub.Run. *)

AtSelect == event = 0

Register(v) ==
  /\ AtSelect /\ at[v] = "subscribing"
  /\ subscribers' = subscribers \cup {v}
  /\ at' = [at EXCEPT ![v] = "watching"]
  /\ UNCHANGED <<sent, broadcast, event, todo, buf, closed, got>>

\* Mutant: the entry is deleted, the channel is never closed.
UnregisterKeepsOpen(v) ==
  /\ AtSelect /\ at[v] = "leaving"
  /\ subscribers' = subscribers \ {v}
  /\ at' = [at EXCEPT ![v] = "away"]
  /\ UNCHANGED <<sent, broadcast, event, todo, buf, closed, got>>

Unregister(v) ==
  /\ AtSelect /\ at[v] = "leaving"
  /\ IF v \in subscribers
       THEN subscribers' = subscribers \ {v} /\ closed' = closed \cup {v}
       ELSE UNCHANGED <<subscribers, closed>>
  /\ at' = [at EXCEPT ![v] = "away"]
  /\ UNCHANGED <<sent, broadcast, event, todo, buf, got>>

StartFanOut ==
  /\ AtSelect /\ broadcast # <<>>
  /\ event' = Head(broadcast)
  /\ broadcast' = Tail(broadcast)
  /\ todo' = subscribers
  /\ UNCHANGED <<sent, subscribers, viewerVars>>

\* Mutant: the hub waits for room in the subscriber's buffer.
SendWaits(v) ==
  /\ v \in todo /\ Len(buf[v]) < ViewerCap
  /\ buf' = [buf EXCEPT ![v] = Append(@, event)]
  /\ todo' = todo \ {v}
  /\ UNCHANGED <<sent, broadcast, subscribers, event, at, closed, got>>

\* Mutant: an event that found a buffer full is broadcast again later.
SendRetries(v) ==
  /\ v \in todo
  /\ IF Len(buf[v]) < ViewerCap
       THEN buf' = [buf EXCEPT ![v] = Append(@, event)] /\ UNCHANGED broadcast
       ELSE UNCHANGED buf /\ broadcast' = IF Len(broadcast) < BroadcastCap
                                            THEN Append(broadcast, event) ELSE broadcast
  /\ todo' = todo \ {v}
  /\ UNCHANGED <<sent, subscribers, event, at, closed, got>>

\* A send that does not wait: a subscriber whose buffer is full misses the event.
Send(v) ==
  /\ v \in todo
  /\ buf' = IF Len(buf[v]) < ViewerCap
              THEN [buf EXCEPT ![v] = Append(@, event)] ELSE buf
  /\ todo' = todo \ {v}
  /\ UNCHANGED <<sent, broadcast, subscribers, event, at, closed, got>>

EndFanOut ==
  /\ event # 0 /\ todo = {}
  /\ event' = 0
  /\ UNCHANGED <<sent, broadcast, subscribers, todo, viewerVars>>

-----------------------------------------------------------------------------
FanOut == StartFanOut \/ (\E v \in Viewers : Send(v)) \/ EndFanOut
Viewer(v) == Subscribe(v) \/ Receive(v) \/ Leave(v)

Next ==
  \/ Broadcast \/ FanOut
  \/ \E v \in Viewers : Viewer(v) \/ Register(v) \/ Unregister(v)

\* Run never stops, and Go's select chooses at random among the cases that are
\* ready, so a waiting register or unregister is not passed over for ever by
\* broadcasts.  Nothing is assumed of the viewers: one may read nothing for ever.
Fairness ==
  /\ WF_vars(FanOut)
  /\ \A v \in Viewers : SF_vars(Register(v)) /\ SF_vars(Unregister(v))

Spec == Init /\ [][Next]_vars /\ Fairness

-----------------------------------------------------------------------------
(* Properties *)

\* The fan-out never sends on a closed channel, which would panic and take the
\* whole gateway down (hub.go closes in Run only, never in the stream handler).
NoSendOnClosed == todo \cap closed = {}

\* No channel and no map entry leaks (the comments of Subscribe and of
\* newStreamHandler): the hub holds exactly the connections it has taken in and
\* not yet let go of, and the channels that are open are exactly those of handlers
\* that have not returned, so one that is let go of is closed.
NoLeak ==
  /\ subscribers = {v \in Viewers : at[v] \in {"watching", "leaving"}}
  /\ closed = {v \in Viewers : at[v] = "away"}

\* The live feed implements the lossy feed: what a viewer sees is in order and
\* never seen twice, whatever is dropped at either buffer, and across reconnects.
Feed == INSTANCE LossyFeed
InOrder == Feed!Spec

\* Neither end of a stream gets stuck on the hub: a handler that wants in or out
\* gets through, even when nobody reads and the feed never pauses.
JoinsAndLeaves ==
  \A v \in Viewers :
    /\ at[v] = "subscribing" ~> at[v] = "watching"
    /\ at[v] = "leaving" ~> at[v] = "away"
=============================================================================
