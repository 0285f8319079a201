----------------------------- MODULE HubProofs -----------------------------
(***************************************************************************)
(* Proofs about the live feed: types, that nothing is sent on a closed     *)
(* channel and nothing leaks, and that Hub implements LossyFeed, for any   *)
(* viewers, buffer sizes and number of events.                             *)
(***************************************************************************)
EXTENDS Hub, SequenceTheorems, TLAPS

-----------------------------------------------------------------------------
(* The inductive invariant *)

\* Between two events the fan-out's list is empty, so that entries are added and
\* removed only then.
Channels == AtSelect => todo = {}

Rises(s) == \A i, j \in 1 .. Len(s) : i < j => s[i] < s[j]

\* Every element of s is above lo and at most hi.
Within(s, lo, hi) == \A i \in 1 .. Len(s) : lo < s[i] /\ s[i] <= hi

Below(s, n) == \A i \in 1 .. Len(s) : s[i] < n

\* What the hub has not begun to fan out.
Waiting == Rises(broadcast) /\ Within(broadcast, event, sent) /\ event <= sent

\* What a viewer was sent, is in its buffer, is to be sent next, and waits: each
\* part is below the next.
Pipe(v) ==
  /\ Rises(buf[v]) /\ Within(buf[v], got[v], sent)
  /\ got[v] <= sent
  /\ v \in todo => got[v] < event /\ Below(buf[v], event)
  /\ \A j \in 1 .. Len(broadcast) : got[v] < broadcast[j] /\ Below(buf[v], broadcast[j])

Order == Waiting /\ \A v \in Viewers : Pipe(v)

HubInv == TypeOK /\ NoLeak /\ NoSendOnClosed /\ Channels

-----------------------------------------------------------------------------
(* Sequences *)

\* Adding at the end.
LEMMA AppendFacts ==
  ASSUME NEW S, NEW s \in Seq(S), NEW x \in S
  PROVE  /\ Append(s, x) \in Seq(S)
         /\ Len(Append(s, x)) = Len(s) + 1
         /\ \A i \in 1 .. Len(s) : Append(s, x)[i] = s[i]
         /\ Append(s, x)[Len(s) + 1] = x
  OBVIOUS

\* Taking from the front.
LEMMA TailFacts ==
  ASSUME NEW S, NEW s \in Seq(S), s # <<>>
  PROVE  /\ Head(s) \in S /\ Head(s) = s[1]
         /\ Len(s) \in Nat \ {0}
         /\ Tail(s) \in Seq(S)
         /\ Len(Tail(s)) = Len(s) - 1
         /\ \A i \in 1 .. Len(s) - 1 : Tail(s)[i] = s[i + 1]
  OBVIOUS

\* A number above all the others may follow them.
LEMMA RisesAppend ==
  ASSUME NEW s \in Seq(Nat), NEW x \in Nat, NEW lo \in Nat, NEW hi \in Nat,
         Rises(s), Within(s, lo, hi), Below(s, x), lo < x
  PROVE  Rises(Append(s, x)) /\ (x >= hi => Within(Append(s, x), lo, x))
           /\ (x <= hi => Within(Append(s, x), lo, hi))
<1>1. /\ Len(Append(s, x)) = Len(s) + 1 /\ Len(s) \in Nat
      /\ \A i \in 1 .. Len(s) : Append(s, x)[i] = s[i] /\ s[i] \in Nat
      /\ Append(s, x)[Len(s) + 1] = x
  OBVIOUS
<1>2. \A i \in 1 .. Len(s) + 1 : i \in 1 .. Len(s) \/ i = Len(s) + 1
  BY <1>1
<1>3. Rises(Append(s, x))
  BY <1>1, <1>2 DEF Rises, Below
<1>4. x >= hi => Within(Append(s, x), lo, x)
  BY <1>1, <1>2 DEF Within
<1>5. x <= hi => Within(Append(s, x), lo, hi)
  BY <1>1, <1>2 DEF Within
<1> QED BY <1>3, <1>4, <1>5

\* What follows the first element is above it.
LEMMA RisesTail ==
  ASSUME NEW s \in Seq(Nat), s # <<>>, NEW lo \in Nat, NEW hi \in Nat,
         Rises(s), Within(s, lo, hi)
  PROVE  /\ Rises(Tail(s)) /\ Within(Tail(s), Head(s), hi)
         /\ lo < Head(s) /\ Head(s) <= hi
         /\ \A n \in Nat : Below(s, n) => Head(s) < n /\ Below(Tail(s), n)
<1>1. /\ Head(s) = s[1] /\ Len(s) \in Nat \ {0}
      /\ Len(Tail(s)) = Len(s) - 1
      /\ \A i \in 1 .. Len(s) - 1 : Tail(s)[i] = s[i + 1]
      /\ \A i \in 1 .. Len(s) : s[i] \in Nat
  BY TailFacts
<1>2. \A i \in 1 .. Len(s) - 1 : i + 1 \in 1 .. Len(s) /\ 1 < i + 1
  BY <1>1
<1>3. 1 \in 1 .. Len(s)
  BY <1>1
<1>4. Rises(Tail(s))
  BY <1>1, <1>2 DEF Rises
<1>5. Within(Tail(s), Head(s), hi) /\ lo < Head(s) /\ Head(s) <= hi
  BY <1>1, <1>2, <1>3 DEF Rises, Within
<1>6. \A n \in Nat : Below(s, n) => Head(s) < n /\ Below(Tail(s), n)
  BY <1>1, <1>2, <1>3 DEF Below
<1> QED BY <1>4, <1>5, <1>6

-----------------------------------------------------------------------------
(* Types, closed channels, leaks *)

LEMMA InitHub == Init => HubInv
<1> SUFFICES ASSUME Init PROVE HubInv
  OBVIOUS
<1>1. TypeOK
  BY CapAssumption DEF Init, TypeOK, Place, Event
<1>2. NoLeak /\ NoSendOnClosed /\ Channels
  BY DEF Init, NoLeak, NoSendOnClosed, Channels
<1> QED BY <1>1, <1>2 DEF HubInv

LEMMA StepHub == HubInv /\ [Next]_vars => HubInv'
<1> SUFFICES ASSUME HubInv, [Next]_vars PROVE HubInv'
  OBVIOUS
<1> USE CapAssumption DEF HubInv
<1>1. CASE Broadcast
  <2>1. sent + 1 \in Event
    BY <1>1 DEF Broadcast, TypeOK, Event
  <2>2. TypeOK'
    <3>1. CASE Len(broadcast) < BroadcastCap
      BY <1>1, <2>1, <3>1, AppendFacts DEF Broadcast, TypeOK, hubVars, viewerVars, Event
    <3>2. CASE ~(Len(broadcast) < BroadcastCap)
      BY <1>1, <2>1, <3>2 DEF Broadcast, TypeOK, hubVars, viewerVars, Event
    <3> QED BY <3>1, <3>2
  <2>3. (NoLeak /\ NoSendOnClosed /\ Channels)'
    BY <1>1 DEF Broadcast, hubVars, viewerVars, NoLeak, NoSendOnClosed, Channels, AtSelect
  <2> QED BY <2>2, <2>3
<1>2. CASE StartFanOut
  <2>1. TypeOK'
    BY <1>2, TailFacts DEF StartFanOut, TypeOK, viewerVars, Event
  <2>2. (NoLeak /\ NoSendOnClosed)'
    BY <1>2 DEF StartFanOut, viewerVars, NoLeak, NoSendOnClosed
  <2>3. event' # 0
    BY <1>2, TailFacts DEF StartFanOut, TypeOK, Event
  <2>4. Channels'
    BY <1>2, <2>3 DEF StartFanOut, viewerVars, Channels, AtSelect
  <2> QED BY <2>1, <2>2, <2>4
<1>3. ASSUME NEW v \in Viewers, Send(v) PROVE HubInv'
  <2>1. event # 0
    BY <1>3 DEF Send, Channels, AtSelect
  <2>2. TypeOK'
    <3>1. CASE Len(buf[v]) < ViewerCap
      <4>1. Append(buf[v], event) \in Seq(Event) /\ Len(Append(buf[v], event)) <= ViewerCap
        BY <2>1, <3>1, AppendFacts DEF TypeOK, Event
      <4> QED BY <1>3, <3>1, <4>1 DEF Send, TypeOK
    <3>2. CASE ~(Len(buf[v]) < ViewerCap)
      BY <1>3, <3>2 DEF Send, TypeOK
    <3> QED BY <3>1, <3>2
  <2>3. (NoLeak /\ NoSendOnClosed /\ Channels)'
    BY <1>3, <2>1 DEF Send, NoLeak, NoSendOnClosed, Channels, AtSelect
  <2> QED BY <2>2, <2>3
<1>4. CASE EndFanOut
  BY <1>4 DEF EndFanOut, TypeOK, viewerVars, NoLeak, NoSendOnClosed, Channels, AtSelect
<1>5. ASSUME NEW v \in Viewers, Subscribe(v) PROVE HubInv'
  <2>1. TypeOK'
    BY <1>5 DEF Subscribe, TypeOK, hubVars, Place
  <2>2. (NoLeak /\ NoSendOnClosed /\ Channels)'
    BY <1>5 DEF Subscribe, TypeOK, hubVars, NoLeak, NoSendOnClosed, Channels, AtSelect, Place
  <2> QED BY <2>1, <2>2
<1>6. ASSUME NEW v \in Viewers, Receive(v) PROVE HubInv'
  <2>1. TypeOK'
    <3>1. /\ Head(buf[v]) \in Event /\ Tail(buf[v]) \in Seq(Event)
          /\ Len(Tail(buf[v])) <= ViewerCap
      BY <1>6, TailFacts DEF Receive, TypeOK
    <3> QED BY <1>6, <3>1 DEF Receive, TypeOK, hubVars, Event
  <2>2. (NoLeak /\ NoSendOnClosed /\ Channels)'
    BY <1>6 DEF Receive, hubVars, NoLeak, NoSendOnClosed, Channels, AtSelect
  <2> QED BY <2>1, <2>2
<1>7. ASSUME NEW v \in Viewers, Leave(v) PROVE HubInv'
  BY <1>7 DEF Leave, TypeOK, hubVars, NoLeak, NoSendOnClosed, Channels, AtSelect, Place
<1>8. ASSUME NEW v \in Viewers, Register(v) PROVE HubInv'
  BY <1>8 DEF Register, TypeOK, NoLeak, NoSendOnClosed, Channels, AtSelect, Place
<1>9. ASSUME NEW v \in Viewers, Unregister(v) PROVE HubInv'
  <2>1. TypeOK'
    BY <1>9 DEF Unregister, TypeOK, Place
  <2>2. (NoLeak /\ NoSendOnClosed /\ Channels)'
    BY <1>9 DEF Unregister, TypeOK, NoLeak, NoSendOnClosed, Channels, AtSelect, Place
  <2> QED BY <2>1, <2>2
<1>10. CASE UNCHANGED vars
  BY <1>10 DEF vars, TypeOK, NoLeak, NoSendOnClosed, Channels, AtSelect
<1> QED BY <1>1, <1>2, <1>3, <1>4, <1>5, <1>6, <1>7, <1>8, <1>9, <1>10
        DEF Next, FanOut, Viewer

\* Spec => []TypeOK: the buffers of hub.go are never longer than they were made.
THEOREM TypeCorrect == Spec => []TypeOK
<1>1. HubInv => TypeOK
  BY DEF HubInv
<1> QED BY InitHub, StepHub, <1>1, PTL DEF Spec

\* Spec => []NoSendOnClosed: the fan-out of hub.go cannot panic.
THEOREM NeverSendsOnClosed == Spec => []NoSendOnClosed
<1>1. HubInv => NoSendOnClosed
  BY DEF HubInv
<1> QED BY InitHub, StepHub, <1>1, PTL DEF Spec

\* Spec => []NoLeak: channels and map entries do not leak.
THEOREM NeverLeaks == Spec => []NoLeak
<1>1. HubInv => NoLeak
  BY DEF HubInv
<1> QED BY InitHub, StepHub, <1>1, PTL DEF Spec

-----------------------------------------------------------------------------
(* Order *)

LEMMA InitOrder == Init => Order /\ Feed!Init
  BY CapAssumption DEF Init, Order, Waiting, Pipe, Rises, Within, Below, Feed!Init

\* What TypeOK says of numbers, in the form the lemmas about sequences want.
LEMMA Numbers ==
  ASSUME TypeOK
  PROVE  /\ sent \in Nat /\ event \in Nat /\ broadcast \in Seq(Nat)
         /\ \A v \in Viewers : buf[v] \in Seq(Nat) /\ got[v] \in Nat
<1>1. Event \subseteq Nat /\ 0 .. LastEvent \subseteq Nat
  BY CapAssumption DEF Event
<1>2. Seq(Event) \subseteq Seq(Nat)
  BY <1>1, SeqMonotonic
<1>3. sent \in Nat /\ event \in Nat /\ \A v \in Viewers : got[v] \in Nat
  BY <1>1 DEF TypeOK
<1>4. broadcast \in Seq(Nat) /\ \A v \in Viewers : buf[v] \in Seq(Nat)
  BY <1>2 DEF TypeOK
<1> QED BY <1>3, <1>4

LEMMA StepOrder ==
  HubInv /\ Order /\ [Next]_vars => Order' /\ [Feed!Next]_(Feed!vars)
<1> SUFFICES ASSUME HubInv, Order, [Next]_vars
             PROVE  Order' /\ [Feed!Next]_(Feed!vars)
  OBVIOUS
<1>t. TypeOK /\ TypeOK'
  BY StepHub DEF HubInv
<1>n. /\ sent \in Nat /\ event \in Nat /\ broadcast \in Seq(Nat)
      /\ \A v \in Viewers : buf[v] \in Seq(Nat) /\ got[v] \in Nat
  BY <1>t, Numbers
<1>f. UNCHANGED <<sent, got>> => [Feed!Next]_(Feed!vars)
  BY DEF Feed!vars
<1>1. CASE Broadcast
  <2>1. /\ sent' = sent + 1 /\ UNCHANGED <<hubVars, viewerVars>>
        /\ broadcast' = IF Len(broadcast) < BroadcastCap
                          THEN Append(broadcast, sent + 1) ELSE broadcast
    BY <1>1 DEF Broadcast
  <2>2. Feed!Next
    BY <2>1 DEF Feed!Next, Feed!Send, viewerVars
  <2>3. /\ Len(broadcast) \in Nat
        /\ \A i \in 1 .. Len(broadcast) : broadcast[i] \in Nat
        /\ \A v \in Viewers : \A i \in 1 .. Len(buf[v]) : buf[v][i] \in Nat
    BY <1>n
  <2>4. Below(broadcast, sent + 1)
    BY <1>n, <2>3 DEF Order, Waiting, Within, Below
  <2>5. Waiting'
    <3>1. CASE broadcast' = Append(broadcast, sent + 1)
      <4>1. Rises(broadcast') /\ Within(broadcast', event, sent + 1)
        <5>1. Rises(broadcast) /\ Within(broadcast, event, sent) /\ event < sent + 1
          BY <1>n DEF Order, Waiting
        <5>2. sent + 1 \in Nat /\ sent + 1 >= sent
          BY <1>n
        <5> QED BY <1>n, <2>4, <3>1, <5>1, <5>2, RisesAppend
      <4> QED BY <1>n, <2>1, <4>1 DEF Order, Waiting, hubVars
    <3>2. CASE broadcast' = broadcast
      BY <1>n, <2>1, <2>3, <3>2 DEF Order, Waiting, Within, hubVars
    <3> QED BY <2>1, <3>1, <3>2
  <2>6. ASSUME NEW v \in Viewers PROVE Pipe(v)'
    <3>1. /\ buf' = buf /\ got' = got /\ todo' = todo /\ event' = event
      BY <2>1 DEF hubVars, viewerVars
    <3>2. Pipe(v)
      BY DEF Order
    <3>3. Within(buf[v], got[v], sent + 1) /\ got[v] <= sent + 1
      BY <1>n, <2>3, <3>2 DEF Pipe, Within
    <3>4. got[v] < sent + 1 /\ Below(buf[v], sent + 1)
      BY <1>n, <2>3, <3>2 DEF Pipe, Within, Below
    <3>5. \A j \in 1 .. Len(broadcast') : got[v] < broadcast'[j] /\ Below(buf[v], broadcast'[j])
      <4>1. \A j \in 1 .. Len(broadcast') :
              broadcast'[j] = sent + 1 \/ (j \in 1 .. Len(broadcast) /\ broadcast'[j] = broadcast[j])
        BY <1>n, <2>1, <2>3
      <4> QED BY <3>2, <3>4, <4>1 DEF Pipe
    <3> QED BY <2>1, <3>1, <3>2, <3>3, <3>5 DEF Pipe
  <2> QED BY <2>2, <2>5, <2>6 DEF Order
<1>2. CASE StartFanOut
  <2>1. /\ broadcast # <<>> /\ event' = Head(broadcast) /\ broadcast' = Tail(broadcast)
        /\ UNCHANGED <<sent, buf, got>>
    BY <1>2 DEF StartFanOut, viewerVars
  <2>2. /\ Rises(broadcast') /\ Within(broadcast', event', sent) /\ event' <= sent
    BY <1>n, <2>1, RisesTail DEF Order, Waiting
  <2>3. ASSUME NEW v \in Viewers PROVE Pipe(v)'
    <3>1. Pipe(v)
      BY DEF Order
    <3>2. /\ Head(broadcast) = broadcast[1] /\ Len(broadcast) \in Nat \ {0}
          /\ Len(broadcast') = Len(broadcast) - 1
          /\ \A i \in 1 .. Len(broadcast) - 1 : broadcast'[i] = broadcast[i + 1]
      BY <1>n, <2>1, TailFacts
    <3>3. got[v] < event' /\ Below(buf[v], event')
      BY <2>1, <3>1, <3>2 DEF Pipe
    <3>4. \A j \in 1 .. Len(broadcast') : got[v] < broadcast'[j] /\ Below(buf[v], broadcast'[j])
      <4>1. \A j \in 1 .. Len(broadcast') :
              j + 1 \in 1 .. Len(broadcast) /\ broadcast'[j] = broadcast[j + 1]
        BY <3>2
      <4> QED BY <3>1, <4>1 DEF Pipe
    <3> QED BY <2>1, <3>1, <3>3, <3>4 DEF Pipe
  <2> QED BY <1>f, <2>1, <2>2, <2>3 DEF Order, Waiting
<1>3. ASSUME NEW w \in Viewers, Send(w) PROVE Order' /\ [Feed!Next]_(Feed!vars)
  <2>1. /\ w \in todo /\ todo' = todo \ {w} /\ UNCHANGED <<sent, broadcast, event, got>>
        /\ buf' = IF Len(buf[w]) < ViewerCap
                    THEN [buf EXCEPT ![w] = Append(@, event)] ELSE buf
    BY <1>3 DEF Send
  <2>2. Waiting'
    BY <2>1 DEF Order, Waiting
  <2>3. ASSUME NEW v \in Viewers PROVE Pipe(v)'
    <3>1. Pipe(v) /\ Waiting
      BY DEF Order
    <3>2. CASE buf'[v] = buf[v]
      BY <2>1, <3>1, <3>2 DEF Pipe
    <3>3. CASE v = w /\ buf'[v] = Append(buf[v], event)
      <4>1. got[v] < event /\ Below(buf[v], event) /\ event <= sent
        BY <2>1, <3>1, <3>3 DEF Pipe, Waiting
      <4>2. Rises(buf'[v]) /\ Within(buf'[v], got[v], sent)
        BY <1>n, <3>1, <3>3, <4>1, RisesAppend DEF Pipe
      <4>3. \A j \in 1 .. Len(broadcast) : Below(buf'[v], broadcast[j])
        <5>1. \A j \in 1 .. Len(broadcast) : event < broadcast[j]
          BY <3>1 DEF Waiting, Within
        <5>2. \A i \in 1 .. Len(buf'[v]) :
                buf'[v][i] = event \/ (i \in 1 .. Len(buf[v]) /\ buf'[v][i] = buf[v][i])
          BY <1>n, <3>3
        <5> QED BY <3>1, <5>1, <5>2 DEF Pipe, Below
      <4> QED BY <2>1, <3>1, <3>3, <4>2, <4>3 DEF Pipe
    <3>4. buf'[v] = buf[v] \/ (v = w /\ buf'[v] = Append(buf[v], event))
      BY <1>t, <2>1 DEF TypeOK
    <3> QED BY <3>2, <3>3, <3>4
  <2> QED BY <1>f, <2>1, <2>2, <2>3 DEF Order
<1>4. CASE EndFanOut
  <2>1. /\ todo = {} /\ event' = 0 /\ UNCHANGED <<sent, broadcast, todo, buf, got>>
    BY <1>4 DEF EndFanOut, viewerVars
  <2>2. Waiting'
    <3>1. \A i \in 1 .. Len(broadcast) : broadcast[i] \in Nat
      BY <1>n
    <3> QED BY <1>n, <2>1, <3>1 DEF Order, Waiting, Within
  <2>3. \A v \in Viewers : Pipe(v)'
    BY <2>1 DEF Order, Pipe
  <2> QED BY <1>f, <2>1, <2>2, <2>3 DEF Order
<1>5. ASSUME NEW w \in Viewers, Subscribe(w) PROVE Order' /\ [Feed!Next]_(Feed!vars)
  <2>1. /\ buf' = [buf EXCEPT ![w] = <<>>]
        /\ UNCHANGED <<sent, broadcast, event, todo, got>>
    BY <1>5 DEF Subscribe, hubVars
  <2>2. Waiting'
    BY <2>1 DEF Order, Waiting
  <2>3. ASSUME NEW v \in Viewers PROVE Pipe(v)'
    <3>1. buf'[v] = buf[v] \/ buf'[v] = <<>>
      BY <1>t, <2>1 DEF TypeOK
    <3>2. Rises(<<>>) /\ Within(<<>>, got[v], sent) /\ \A n : Below(<<>>, n)
      BY DEF Rises, Within, Below
    <3> QED BY <2>1, <3>1, <3>2 DEF Order, Pipe
  <2> QED BY <1>f, <2>1, <2>2, <2>3 DEF Order
<1>6. ASSUME NEW w \in Viewers, Receive(w) PROVE Order' /\ [Feed!Next]_(Feed!vars)
  <2>1. /\ buf[w] # <<>>
        /\ got' = [got EXCEPT ![w] = Head(buf[w])]
        /\ buf' = [buf EXCEPT ![w] = Tail(@)]
        /\ UNCHANGED <<sent, broadcast, event, todo>>
    BY <1>6 DEF Receive, hubVars
  <2>2. Pipe(w)
    BY DEF Order
  <2>3. /\ Rises(Tail(buf[w])) /\ Within(Tail(buf[w]), Head(buf[w]), sent)
        /\ got[w] < Head(buf[w]) /\ Head(buf[w]) <= sent
        /\ \A n \in Nat : Below(buf[w], n) => Head(buf[w]) < n /\ Below(Tail(buf[w]), n)
    BY <1>n, <2>1, <2>2, RisesTail DEF Pipe
  <2>4. got'[w] = Head(buf[w]) /\ buf'[w] = Tail(buf[w])
    BY <1>t, <2>1 DEF TypeOK
  <2>5. Waiting'
    BY <2>1 DEF Order, Waiting
  <2>6. ASSUME NEW v \in Viewers PROVE Pipe(v)'
    <3>1. CASE v = w
      <4>1. \A j \in 1 .. Len(broadcast) : broadcast[j] \in Nat
        BY <1>n
      <4> QED BY <1>n, <2>1, <2>2, <2>3, <2>4, <3>1, <4>1 DEF Pipe
    <3>2. CASE v # w
      <4>1. buf'[v] = buf[v] /\ got'[v] = got[v]
        BY <1>t, <2>1, <3>2 DEF TypeOK
      <4> QED BY <2>1, <4>1 DEF Order, Pipe
    <3> QED BY <3>1, <3>2
  <2>7. Feed!See(w)
    <3>1. Head(buf[w]) \in got[w] + 1 .. sent
      <4>1. Head(buf[w]) \in Nat
        BY <1>n, <2>1, TailFacts
      <4> QED BY <1>n, <2>3, <4>1
    <3> QED BY <2>1, <3>1 DEF Feed!See
  <2> QED BY <2>5, <2>6, <2>7 DEF Order, Feed!Next
<1>7. ASSUME NEW w \in Viewers, Leave(w) \/ Register(w) \/ Unregister(w)
      PROVE  Order' /\ [Feed!Next]_(Feed!vars)
  <2>1. UNCHANGED <<sent, broadcast, event, todo, buf, got>>
    BY <1>7 DEF Leave, Register, Unregister, hubVars
  <2> QED BY <1>f, <2>1 DEF Order, Waiting, Pipe
<1>8. CASE UNCHANGED vars
  <2>1. UNCHANGED <<sent, broadcast, event, todo, buf, got>>
    BY <1>8 DEF vars
  <2> QED BY <1>f, <2>1 DEF Order, Waiting, Pipe
<1> QED BY <1>1, <1>2, <1>3, <1>4, <1>5, <1>6, <1>7, <1>8 DEF Next, FanOut, Viewer

\* Spec => InOrder: hub.go implements the lossy feed.  However many events are
\* dropped, and at whichever buffer, and however often a viewer reconnects, it is
\* shown events in the order they were broadcast and none twice.
THEOREM ImplementsLossyFeed == Spec => InOrder
<1> QED BY InitHub, StepHub, InitOrder, StepOrder, PTL DEF Spec, InOrder, Feed!Spec
=============================================================================
