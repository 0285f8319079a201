-------------------------- MODULE LifecycleProofs --------------------------
(***************************************************************************)
(* Proofs about the request log in the life of the process: types, that    *)
(* rows keep the order of the queue, that the drain leaves nothing early   *)
(* behind, and that the log implements LossyLog, for any requests, queue   *)
(* size and dashboards.                                                    *)
(***************************************************************************)
EXTENDS Lifecycle, SequenceTheorems, TLAPS

-----------------------------------------------------------------------------
(* The inductive invariant *)

\* How many accepted events the worker has taken, and of how many the insert has
\* come to an end.
Taken   == Len(accepted) - Len(queue)
Decided == IF Idle THEN Taken ELSE Taken - 1

\* The queue is what is left of the accepted events, and the worker holds the one
\* it took last.
Line ==
  /\ Taken >= 0
  /\ \A i \in 1 .. Len(queue) : queue[i] = accepted[Taken + i]
  /\ ~Idle => Taken >= 1 /\ holding = accepted[Taken]

Distinct == \A i, j \in 1 .. Len(accepted) : accepted[i] = accepted[j] => i = j

Known == early \subseteq offered /\ \A i \in 1 .. Len(accepted) : accepted[i] \in offered

\* Events whose insert has come to an end.
Past == {accepted[k] : k \in 1 .. Decided}

Behind == limbo \subseteq Past /\ \A i \in 1 .. Len(rows) : rows[i] \in Past

Ordered ==
  \A i, j \in 1 .. Len(rows) : \A k, l \in 1 .. Len(accepted) :
    /\ i < j /\ rows[i] \notin slow /\ rows[j] \notin slow
    /\ accepted[k] = rows[i] /\ accepted[l] = rows[j]
    => k < l

Drained == DrainedBeforeReturn /\ (worker # "run" => stopping)

LogInv ==
  /\ StoreTypeOK /\ Line /\ Distinct /\ Known /\ Behind /\ Ordered /\ Drained

-----------------------------------------------------------------------------
(* Lemmas *)

\* What the members of a sequence are.
LEMMA Members ==
  ASSUME NEW S, NEW s \in Seq(S)
  PROVE  \A x : x \in ToSet(s) <=> \E i \in 1 .. Len(s) : s[i] = x
  BY DEF ToSet

LEMMA AppendFacts ==
  ASSUME NEW S, NEW s \in Seq(S), NEW x \in S
  PROVE  /\ Append(s, x) \in Seq(S)
         /\ Len(s) \in Nat /\ Len(Append(s, x)) = Len(s) + 1
         /\ \A i \in 1 .. Len(s) : Append(s, x)[i] = s[i]
         /\ Append(s, x)[Len(s) + 1] = x
         /\ ToSet(Append(s, x)) = ToSet(s) \cup {x}
<1>1. /\ Append(s, x) \in Seq(S)
      /\ Len(s) \in Nat /\ Len(Append(s, x)) = Len(s) + 1
      /\ \A i \in 1 .. Len(s) : Append(s, x)[i] = s[i]
      /\ Append(s, x)[Len(s) + 1] = x
  OBVIOUS
<1>2. \A i \in 1 .. Len(s) + 1 : i \in 1 .. Len(s) \/ i = Len(s) + 1
  BY <1>1
<1>3. ToSet(Append(s, x)) = ToSet(s) \cup {x}
  <2>1. \A y : y \in ToSet(s) <=> \E i \in 1 .. Len(s) : s[i] = y
    BY Members
  <2>2. \A y : y \in ToSet(Append(s, x)) <=>
          \E i \in 1 .. Len(Append(s, x)) : Append(s, x)[i] = y
    BY <1>1, Members
  <2>3. \A i \in 1 .. Len(s) : i \in 1 .. Len(s) + 1
    BY <1>1
  <2>4. Len(s) + 1 \in 1 .. Len(s) + 1
    BY <1>1
  <2> QED BY <1>1, <1>2, <2>1, <2>2, <2>3, <2>4
<1> QED BY <1>1, <1>3

LEMMA TailFacts ==
  ASSUME NEW S, NEW s \in Seq(S), s # <<>>
  PROVE  /\ Head(s) \in S /\ Head(s) = s[1]
         /\ Len(s) \in Nat \ {0}
         /\ Tail(s) \in Seq(S) /\ Len(Tail(s)) = Len(s) - 1
         /\ \A i \in 1 .. Len(s) - 1 : Tail(s)[i] = s[i + 1]
         /\ ToSet(s) = ToSet(Tail(s)) \cup {Head(s)}
<1>1. /\ Head(s) \in S /\ Head(s) = s[1]
      /\ Len(s) \in Nat \ {0}
      /\ Tail(s) \in Seq(S) /\ Len(Tail(s)) = Len(s) - 1
      /\ \A i \in 1 .. Len(s) - 1 : Tail(s)[i] = s[i + 1]
  OBVIOUS
<1>2. \A i \in 1 .. Len(s) : i = 1 \/ (i - 1 \in 1 .. Len(s) - 1 /\ i = (i - 1) + 1)
  BY <1>1
<1>3. \A i \in 1 .. Len(s) - 1 : i + 1 \in 1 .. Len(s)
  BY <1>1
<1>4. ToSet(s) = ToSet(Tail(s)) \cup {Head(s)}
  <2>1. \A y : y \in ToSet(s) <=> \E i \in 1 .. Len(s) : s[i] = y
    BY Members
  <2>2. \A y : y \in ToSet(Tail(s)) <=> \E i \in 1 .. Len(s) - 1 : s[i + 1] = y
    <3>1. \A y : y \in ToSet(Tail(s)) <=> \E i \in 1 .. Len(Tail(s)) : Tail(s)[i] = y
      BY <1>1, Members
    <3> QED BY <1>1, <3>1
  <2>3. 1 \in 1 .. Len(s)
    BY <1>1
  <2> QED BY <1>1, <1>2, <1>3, <2>1, <2>2, <2>3
<1> QED BY <1>1, <1>4

\* The numbers in StoreTypeOK and Line.
LEMMA Sizes ==
  ASSUME StoreTypeOK, Line
  PROVE  /\ Len(queue) \in Nat /\ Len(accepted) \in Nat /\ Len(rows) \in Nat
         /\ Taken \in 0 .. Len(accepted) /\ Decided \in 0 .. Taken
  BY DEF StoreTypeOK, Line, Taken, Decided

\* What waits, what is held and what is past are different events.
LEMMA Apart ==
  ASSUME StoreTypeOK, Line, Distinct
  PROVE  /\ Past \cap ToSet(queue) = {}
         /\ ~Idle => holding \notin Past /\ holding \notin ToSet(queue)
<1>1. /\ Len(queue) \in Nat /\ Len(accepted) \in Nat
      /\ Taken \in 0 .. Len(accepted) /\ Decided \in 0 .. Taken
  BY Sizes
<1>2. \A i \in 1 .. Len(queue) :
        Taken + i \in 1 .. Len(accepted) /\ Taken + i > Taken /\ queue[i] = accepted[Taken + i]
  BY <1>1 DEF Line, Taken
<1>3. \A k \in 1 .. Decided : k \in 1 .. Len(accepted) /\ k <= Taken
  BY <1>1
<1>4. Past \cap ToSet(queue) = {}
  BY <1>1, <1>2, <1>3, Members DEF Past, Distinct, StoreTypeOK
<1>5. ASSUME ~Idle PROVE holding \notin Past /\ holding \notin ToSet(queue)
  <2>1. Taken \in 1 .. Len(accepted) /\ holding = accepted[Taken] /\ Decided = Taken - 1
    BY <1>1, <1>5 DEF Line, Decided
  <2> QED BY <1>1, <1>2, <1>3, <2>1, Members DEF Past, Distinct, StoreTypeOK
<1> QED BY <1>4, <1>5

\* Distinct makes Position what its name says.
LEMMA PositionIs ==
  ASSUME Distinct, StoreTypeOK, NEW k \in 1 .. Len(accepted)
  PROVE  Position(accepted[k]) = k
<1>1. DOMAIN accepted = 1 .. Len(accepted)
  BY DEF StoreTypeOK
<1> QED BY <1>1 DEF Distinct, Position

-----------------------------------------------------------------------------
(* The store's steps *)

LEMMA InitLog == StoreInit => LogInv
<1> SUFFICES ASSUME StoreInit PROVE LogInv
  OBVIOUS
<1>1. StoreTypeOK
  <2>1. <<>> \in Seq(Events) /\ Len(<<>>) = 0
    BY EmptySeq
  <2>2. QueueCap \in Nat
    BY QueueAssumption
  <2>3. stopping \in BOOLEAN
    BY DEF StoreInit
  <2> QED BY <2>1, <2>2, <2>3 DEF StoreInit, StoreTypeOK
<1>2. Line /\ Distinct /\ Known /\ Ordered
  BY DEF StoreInit, Line, Distinct, Known, Ordered, Taken, Idle
<1>3. Behind
  BY DEF StoreInit, Behind
<1>4. Drained
  BY DEF StoreInit, Drained, DrainedBeforeReturn
<1> QED BY <1>1, <1>2, <1>3, <1>4 DEF LogInv

\* An event joins the queue, or is lost.
LEMMA EnqueueKeeps ==
  ASSUME LogInv, NEW e \in Events, Enqueue(e)
  PROVE  LogInv' /\ [Log!Next]_(Log!vars)
<1>1. /\ e \notin offered /\ offered' = offered \cup {e}
      /\ UNCHANGED <<worker, holding, limbo, slow, stopping, early, rows>>
  BY DEF Enqueue
<1>t. /\ StoreTypeOK /\ Line /\ Distinct /\ Known /\ Behind /\ Ordered /\ Drained
  BY DEF LogInv
<1>2. CASE UNCHANGED <<queue, accepted>>
  <2>1. LogInv'
    BY <1>1, <1>t, <1>2 DEF LogInv, StoreTypeOK, Line, Distinct, Known, Behind, Past, Ordered,
                           Drained, DrainedBeforeReturn, Taken, Decided, Idle
  <2>2. Log!Offer(e)
    BY <1>1, <1>2 DEF Log!Offer, Undecided
  <2> QED BY <2>1, <2>2 DEF Log!Next
<1>3. CASE /\ Len(queue) < QueueCap
           /\ queue' = Append(queue, e) /\ accepted' = Append(accepted, e)
  <2>1. /\ queue' \in Seq(Events) /\ Len(queue) \in Nat /\ Len(queue') = Len(queue) + 1
        /\ \A i \in 1 .. Len(queue) : queue'[i] = queue[i]
        /\ queue'[Len(queue) + 1] = e
        /\ ToSet(queue') = ToSet(queue) \cup {e}
    BY <1>t, <1>3, AppendFacts DEF StoreTypeOK
  <2>2. /\ accepted' \in Seq(Events) /\ Len(accepted) \in Nat
        /\ Len(accepted') = Len(accepted) + 1
        /\ \A i \in 1 .. Len(accepted) : accepted'[i] = accepted[i]
        /\ accepted'[Len(accepted) + 1] = e
    BY <1>t, <1>3, AppendFacts DEF StoreTypeOK
  <2>3. Taken' = Taken /\ Decided' = Decided /\ Idle' = Idle
    BY <1>1, <2>1, <2>2 DEF Taken, Decided, Idle
  <2>4. Taken \in 0 .. Len(accepted) /\ Decided \in 0 .. Taken
    BY <1>t, Sizes
  <2>5. StoreTypeOK'
    BY <1>1, <1>t, <1>3, <2>1, <2>2, QueueAssumption DEF StoreTypeOK
  <2>6. \A i \in 1 .. Len(queue') : i \in 1 .. Len(queue) \/ i = Len(queue) + 1
    BY <2>1
  <2>7. \A i \in 1 .. Len(accepted') : i \in 1 .. Len(accepted) \/ i = Len(accepted) + 1
    BY <2>2
  <2>8. Line'
    <3>1. \A i \in 1 .. Len(queue) : Taken + i \in 1 .. Len(accepted)
      BY <2>1, <2>2, <2>4 DEF Taken
    <3>2. Taken + (Len(queue) + 1) = Len(accepted) + 1
      BY <2>1, <2>2 DEF Taken
    <3>3. \A i \in 1 .. Len(queue') : queue'[i] = accepted'[Taken + i]
      BY <1>t, <2>1, <2>2, <2>6, <3>1, <3>2 DEF Line
    <3>4. ~Idle => Taken \in 1 .. Len(accepted) /\ holding = accepted[Taken]
      BY <1>t, <2>4 DEF Line
    <3> QED BY <1>1, <2>2, <2>3, <2>4, <3>3, <3>4 DEF Line
  <2>9. Distinct' /\ Known'
    BY <1>1, <1>t, <2>2, <2>7 DEF Distinct, Known
  <2>10. Past' = Past
    <3>1. \A k \in 1 .. Decided : accepted'[k] = accepted[k]
      BY <2>2, <2>4
    <3> QED BY <2>3, <3>1 DEF Past
  <2>11. Behind'
    BY <1>1, <1>t, <2>10 DEF Behind
  <2>12. Ordered'
    <3>1. \A i \in 1 .. Len(rows) : rows[i] # e
      <4>1. \A x \in Past : x \in offered
        BY <1>t, <2>4 DEF Past, Known
      <4> QED BY <1>1, <1>t, <4>1 DEF Behind
    <3> QED BY <1>1, <1>t, <2>2, <2>7, <3>1 DEF Ordered
  <2>13. Drained'
    BY <1>1, <1>t, <2>1 DEF Drained, DrainedBeforeReturn, Known
  <2>14. Log!Offer(e)
    BY <1>1, <2>1 DEF Log!Offer, Undecided
  <2> QED BY <2>5, <2>8, <2>9, <2>11, <2>12, <2>13, <2>14 DEF LogInv, Log!Next
<1> QED BY <1>2, <1>3 DEF Enqueue

\* The head of the queue is held.
LEMMA TakeKeeps ==
  ASSUME LogInv, Take
  PROVE  LogInv' /\ [Log!Next]_(Log!vars)
<1>1. /\ Idle /\ worker # "done" /\ queue # <<>>
      /\ holding' = Head(queue) /\ queue' = Tail(queue)
      /\ UNCHANGED <<offered, accepted, worker, limbo, slow, stopping, early, rows>>
  BY DEF Take
<1>t. /\ StoreTypeOK /\ Line /\ Distinct /\ Known /\ Behind /\ Ordered /\ Drained
  BY DEF LogInv
<1>2. /\ Head(queue) \in Events /\ Head(queue) = queue[1]
      /\ Len(queue) \in Nat \ {0}
      /\ queue' \in Seq(Events) /\ Len(queue') = Len(queue) - 1
      /\ \A i \in 1 .. Len(queue) - 1 : queue'[i] = queue[i + 1]
      /\ ToSet(queue) = ToSet(queue') \cup {Head(queue)}
  BY <1>t, <1>1, TailFacts DEF StoreTypeOK
<1>3. ~Idle'
  BY <1>1, <1>2, QueueAssumption DEF Idle
<1>4. Len(accepted) \in Nat /\ Taken \in 0 .. Len(accepted) /\ Decided = Taken
  BY <1>1, <1>t, Sizes DEF Decided
<1>5. Taken' = Taken + 1 /\ Decided' = Decided
  BY <1>1, <1>2, <1>3, <1>4 DEF Taken, Decided
<1>6. StoreTypeOK'
  BY <1>1, <1>t, <1>2, QueueAssumption DEF StoreTypeOK
<1>7. Line'
  <2>1. holding' = accepted[Taken + 1]
    BY <1>1, <1>t, <1>2 DEF Line
  <2>2. \A i \in 1 .. Len(queue') : i + 1 \in 1 .. Len(queue) /\ Taken + (i + 1) = (Taken + 1) + i
    BY <1>2, <1>4
  <2>3. \A i \in 1 .. Len(queue') : queue'[i] = accepted[(Taken + 1) + i]
    BY <1>t, <1>2, <2>2 DEF Line
  <2> QED BY <1>1, <1>4, <1>5, <2>1, <2>3 DEF Line
<1>8. Past' = Past
  BY <1>1, <1>5 DEF Past
<1>9. Distinct' /\ Known' /\ Behind' /\ Ordered'
  BY <1>1, <1>t, <1>8 DEF Distinct, Known, Behind, Ordered
<1>10. Drained'
  BY <1>1, <1>t DEF Drained, DrainedBeforeReturn
<1>11. UNCHANGED Log!vars
  BY <1>1, <1>2, QueueAssumption DEF Log!vars, Undecided, Idle
<1> QED BY <1>6, <1>7, <1>9, <1>10, <1>11 DEF LogInv

\* An insert comes to an end, in whatever way.
LEMMA InsertEnds ==
  ASSUME LogInv, ~Idle, holding' = NoEvent, UNCHANGED <<accepted, queue>>
  PROVE  /\ Line' /\ Distinct' /\ Past' = Past \cup {holding}
         /\ holding \in Events /\ holding \notin Past /\ holding \notin ToSet(queue)
         /\ Taken \in 1 .. Len(accepted) /\ holding = accepted[Taken]
         /\ \A x \in Past : \E k \in 1 .. Taken - 1 : x = accepted[k]
<1>t. StoreTypeOK /\ Line /\ Distinct
  BY DEF LogInv
<1>1. /\ Len(accepted) \in Nat /\ Taken \in 1 .. Len(accepted) /\ Decided = Taken - 1
      /\ holding = accepted[Taken]
  BY <1>t, Sizes DEF Line, Decided
<1>2. Idle' /\ Taken' = Taken /\ Decided' = Taken
  BY DEF Idle, Taken, Decided
<1>3. Line' /\ Distinct'
  BY <1>1, <1>2, <1>t DEF Line, Distinct
<1>4. Past' = Past \cup {holding}
  <2>1. \A k : k \in 1 .. Taken <=> k \in 1 .. Taken - 1 \/ k = Taken
    BY <1>1
  <2>2. Past' = {accepted[k] : k \in 1 .. Taken}
    BY <1>2 DEF Past
  <2>3. Past = {accepted[k] : k \in 1 .. Taken - 1}
    BY <1>1 DEF Past
  <2> QED BY <1>1, <2>1, <2>2, <2>3
<1>5. holding \in Events /\ holding \notin Past /\ holding \notin ToSet(queue)
  BY <1>t, Apart DEF StoreTypeOK, Idle
<1>6. \A x \in Past : \E k \in 1 .. Taken - 1 : x = accepted[k]
  BY <1>1 DEF Past
<1> QED BY <1>1, <1>3, <1>4, <1>5, <1>6

\* The row is written, behind all the others.
LEMMA InsertOkKeeps ==
  ASSUME LogInv, InsertOk
  PROVE  LogInv' /\ [Log!Next]_(Log!vars)
<1>1. /\ ~Idle /\ rows' = Append(rows, holding) /\ holding' = NoEvent
      /\ UNCHANGED <<offered, accepted, queue, worker, limbo, slow, stopping, early>>
  BY DEF InsertOk
<1>t. /\ StoreTypeOK /\ Line /\ Distinct /\ Known /\ Behind /\ Ordered /\ Drained
  BY DEF LogInv
<1>2. /\ Line' /\ Distinct' /\ Past' = Past \cup {holding}
      /\ holding \in Events /\ holding \notin Past /\ holding \notin ToSet(queue)
      /\ Taken \in 1 .. Len(accepted) /\ holding = accepted[Taken]
      /\ \A x \in Past : \E k \in 1 .. Taken - 1 : x = accepted[k]
  BY <1>1, InsertEnds
<1>3. /\ rows' \in Seq(Events) /\ Len(rows) \in Nat /\ Len(rows') = Len(rows) + 1
      /\ \A i \in 1 .. Len(rows) : rows'[i] = rows[i]
      /\ rows'[Len(rows) + 1] = holding
  BY <1>1, <1>2, <1>t, AppendFacts DEF StoreTypeOK
<1>4. \A i \in 1 .. Len(rows') : i \in 1 .. Len(rows) \/ i = Len(rows) + 1
  BY <1>3
<1>5. StoreTypeOK'
  BY <1>1, <1>3, <1>t DEF StoreTypeOK
<1>6. Known' /\ Drained'
  BY <1>1, <1>t DEF Known, Drained, DrainedBeforeReturn
<1>7. Behind'
  BY <1>1, <1>2, <1>3, <1>4, <1>t DEF Behind
<1>8. Ordered'
  <2> SUFFICES ASSUME NEW i \in 1 .. Len(rows'), NEW j \in 1 .. Len(rows'),
                      NEW k \in 1 .. Len(accepted), NEW l \in 1 .. Len(accepted),
                      i < j, rows'[i] \notin slow, rows'[j] \notin slow,
                      accepted[k] = rows'[i], accepted[l] = rows'[j]
               PROVE  k < l
    BY <1>1 DEF Ordered
  <2>1. CASE j \in 1 .. Len(rows)
    <3>1. i \in 1 .. Len(rows)
      BY <1>3, <2>1
    <3> QED BY <1>3, <1>t, <2>1, <3>1 DEF Ordered
  <2>2. CASE j = Len(rows) + 1
    <3>1. i \in 1 .. Len(rows)
      BY <1>3, <2>2
    <3>2. rows[i] \in Past /\ rows'[i] = rows[i] /\ rows'[j] = holding
      BY <1>3, <1>t, <2>2, <3>1 DEF Behind
    <3>3. PICK n \in 1 .. Taken - 1 : rows[i] = accepted[n]
      BY <1>2, <3>2
    <3>4. Taken \in Nat /\ Len(accepted) \in Nat /\ n \in 1 .. Len(accepted) /\ n < Taken
      BY <1>2, <1>t DEF StoreTypeOK
    <3>5. k = n /\ l = Taken
      BY <1>2, <1>t, <3>2, <3>3, <3>4 DEF Distinct
    <3> QED BY <3>4, <3>5
  <2> QED BY <1>4, <2>1, <2>2
<1>9. Log!Write(holding)
  <2>1. holding \notin limbo
    BY <1>2, <1>t DEF Behind
  <2>2. holding # NoEvent
    BY <1>1 DEF Idle
  <2>3. Undecided' = Undecided \ {holding} /\ holding \in Undecided
    BY <1>1, <1>2, <2>1, <2>2 DEF Undecided
  <2> QED BY <1>1, <2>3 DEF Log!Write
<1> QED BY <1>2, <1>5, <1>6, <1>7, <1>8, <1>9 DEF LogInv, Log!Next

\* The event is lost, or its fate is open.
LEMMA InsertFailsKeeps ==
  ASSUME LogInv, InsertFails \/ InsertTimesOut
  PROVE  LogInv' /\ [Log!Next]_(Log!vars)
<1>1. /\ ~Idle /\ holding' = NoEvent
      /\ UNCHANGED <<offered, accepted, queue, worker, stopping, early, rows>>
      /\ \/ UNCHANGED <<limbo, slow>>
         \/ limbo' = limbo \cup {holding} /\ slow' = slow \cup {holding}
  BY DEF InsertFails, InsertTimesOut
<1>t. /\ StoreTypeOK /\ Line /\ Distinct /\ Known /\ Behind /\ Ordered /\ Drained
  BY DEF LogInv
<1>2. /\ Line' /\ Distinct' /\ Past' = Past \cup {holding}
      /\ holding \in Events /\ holding \notin Past /\ holding \notin ToSet(queue)
  BY <1>1, InsertEnds
<1>3. StoreTypeOK'
  BY <1>1, <1>2, <1>t DEF StoreTypeOK
<1>4. Known' /\ Drained' /\ Behind' /\ Ordered'
  BY <1>1, <1>2, <1>t DEF Known, Drained, DrainedBeforeReturn, Behind, Ordered
<1>5. holding # NoEvent /\ holding \in Undecided
  BY <1>1 DEF Idle, Undecided
<1>6. CASE UNCHANGED <<limbo, slow>>
  <2>1. Undecided' = Undecided \ {holding}
    BY <1>1, <1>2, <1>5, <1>6, <1>t DEF Undecided, Behind
  <2>2. Log!Lose(holding)
    BY <1>1, <1>5, <2>1 DEF Log!Lose
  <2> QED BY <1>2, <1>3, <1>4, <2>2 DEF LogInv, Log!Next
<1>7. CASE limbo' = limbo \cup {holding}
  <2>1. UNCHANGED Log!vars
    BY <1>1, <1>5, <1>7 DEF Undecided, Log!vars
  <2> QED BY <1>2, <1>3, <1>4, <2>1 DEF LogInv
<1> QED BY <1>1, <1>6, <1>7

\* Postgres decides on an event whose insert timed out.
LEMMA LateKeeps ==
  ASSUME LogInv, NEW e \in Events, LateCommit(e) \/ LateAbort(e)
  PROVE  LogInv' /\ [Log!Next]_(Log!vars)
<1>1. /\ e \in limbo /\ limbo' = limbo \ {e}
      /\ UNCHANGED <<offered, accepted, queue, worker, holding, slow, stopping, early>>
      /\ rows' = rows \/ rows' = Append(rows, e)
  BY DEF LateCommit, LateAbort
<1>t. /\ StoreTypeOK /\ Line /\ Distinct /\ Known /\ Behind /\ Ordered /\ Drained
  BY DEF LogInv
<1>2. e \in Past /\ e \in slow
  BY <1>1, <1>t DEF Behind, StoreTypeOK
<1>3. Idle' = Idle /\ Taken' = Taken /\ Decided' = Decided /\ Past' = Past
  BY <1>1 DEF Idle, Taken, Decided, Past
<1>4. Line' /\ Distinct' /\ Known' /\ Drained'
  BY <1>1, <1>3, <1>t DEF Line, Distinct, Known, Drained, DrainedBeforeReturn
<1>5. e \in Undecided /\ Undecided' = Undecided \ {e}
  <2>1. e \notin ToSet(queue) /\ e # holding
    <3>1. e # NoEvent
      BY QueueAssumption
    <3> QED BY <1>2, <1>t, <3>1, Apart DEF Idle
  <2> QED BY <1>1, <2>1 DEF Undecided
<1>6. CASE rows' = rows
  <2>1. StoreTypeOK' /\ Behind' /\ Ordered'
    BY <1>1, <1>3, <1>6, <1>t DEF StoreTypeOK, Behind, Ordered
  <2>2. Log!Lose(e)
    BY <1>1, <1>5, <1>6 DEF Log!Lose
  <2> QED BY <1>4, <2>1, <2>2 DEF LogInv, Log!Next
<1>7. CASE rows' = Append(rows, e)
  <2>1. /\ rows' \in Seq(Events) /\ Len(rows) \in Nat /\ Len(rows') = Len(rows) + 1
        /\ \A i \in 1 .. Len(rows) : rows'[i] = rows[i]
        /\ rows'[Len(rows) + 1] = e
    BY <1>7, <1>t, AppendFacts DEF StoreTypeOK
  <2>2. \A i \in 1 .. Len(rows') : i \in 1 .. Len(rows) \/ i = Len(rows) + 1
    BY <2>1
  <2>3. StoreTypeOK'
    BY <1>1, <1>t, <2>1 DEF StoreTypeOK
  <2>4. Behind'
    BY <1>1, <1>2, <1>3, <1>t, <2>1, <2>2 DEF Behind
  <2>5. Ordered'
    BY <1>1, <1>2, <1>t, <2>1, <2>2 DEF Ordered
  <2>6. Log!Write(e)
    BY <1>1, <1>5, <1>7 DEF Log!Write
  <2> QED BY <1>4, <2>3, <2>4, <2>5, <2>6 DEF LogInv, Log!Next
<1> QED BY <1>1, <1>6, <1>7

\* The signal, and what the worker does about it.
LEMMA StopKeeps ==
  ASSUME LogInv, Cancel \/ BeginDrain \/ EndDrain
  PROVE  LogInv' /\ [Log!Next]_(Log!vars)
<1>1. UNCHANGED <<offered, accepted, queue, holding, limbo, slow, rows>>
  BY DEF Cancel, BeginDrain, EndDrain
<1>t. /\ StoreTypeOK /\ Line /\ Distinct /\ Known /\ Behind /\ Ordered /\ Drained
  BY DEF LogInv
<1>2. Line' /\ Distinct' /\ Behind' /\ Ordered'
  BY <1>1, <1>t DEF Line, Distinct, Behind, Ordered, Past, Decided, Taken, Idle
<1>3. UNCHANGED Log!vars
  BY <1>1 DEF Log!vars, Undecided
<1>4. CASE Cancel
  <2>1. /\ early' = ToSet(queue) /\ stopping' = TRUE /\ ~stopping /\ worker' = worker
    BY <1>4 DEF Cancel
  <2>2. ToSet(queue) \subseteq offered /\ ToSet(queue) \subseteq Events
    <3>1. \A y : y \in ToSet(queue) <=> \E i \in 1 .. Len(queue) : queue[i] = y
      BY <1>t, Members DEF StoreTypeOK
    <3>2. \A i \in 1 .. Len(queue) : Taken + i \in 1 .. Len(accepted)
      BY <1>t, Sizes DEF Taken
    <3> QED BY <1>t, <3>1, <3>2 DEF Line, Known, StoreTypeOK
  <2>3. Known' /\ StoreTypeOK'
    BY <1>1, <1>t, <2>1, <2>2 DEF Known, StoreTypeOK
  <2>4. Drained'
    BY <1>t, <2>1 DEF Drained, DrainedBeforeReturn
  <2> QED BY <1>2, <1>3, <2>3, <2>4 DEF LogInv
<1>5. CASE BeginDrain \/ EndDrain
  <2>1. Known' /\ StoreTypeOK'
    BY <1>1, <1>5, <1>t DEF BeginDrain, EndDrain, Known, StoreTypeOK
  <2>2. ToSet(<<>>) = {}
    BY DEF ToSet
  <2>3. Drained'
    BY <1>5, <1>t, <2>2 DEF BeginDrain, EndDrain, Drained, DrainedBeforeReturn
  <2> QED BY <1>2, <1>3, <2>1, <2>3 DEF LogInv
<1> QED BY <1>4, <1>5

LEMMA StepLog ==
  LogInv /\ [StoreNext]_storeVars => LogInv' /\ [Log!Next]_(Log!vars)
<1> SUFFICES ASSUME LogInv, [StoreNext]_storeVars PROVE LogInv' /\ [Log!Next]_(Log!vars)
  OBVIOUS
<1>1. CASE StoreNext
  BY <1>1, EnqueueKeeps, TakeKeeps, InsertOkKeeps, InsertFailsKeeps, LateKeeps, StopKeeps
     DEF StoreNext, Worker, Late
<1>2. CASE UNCHANGED storeVars
  <2>1. UNCHANGED Log!vars
    BY <1>2 DEF storeVars, Log!vars, Undecided
  <2>2. LogInv'
    BY <1>2 DEF storeVars, LogInv, StoreTypeOK, Line, Distinct, Known, Behind, Ordered, Drained,
                DrainedBeforeReturn, Past, Decided, Taken, Idle
  <2> QED BY <2>1, <2>2
<1> QED BY <1>1, <1>2

-----------------------------------------------------------------------------
(* The process *)

\* Whatever the process does is a step of its store, or none.
LEMMA ProcessIsStore == [Next]_vars => [StoreNext]_storeVars
  BY DEF Next, vars, Main, Listen, ListenFails, BeginShutdown, ShutdownEnds, ShutdownTimesOut,
         Signal, Write, Database, Accept, Finish, Return, OpenStream, CloseStream, StoreNext,
         Worker, Late, storeVars

LifeTypeOK ==
  /\ server \in {"starting", "serving", "closing", "clean", "failed", "unheard"}
  /\ handler \in [Events -> {"none", "running", "done"}]
  /\ streams \subseteq Viewers

LEMMA StepLife == LifeTypeOK /\ [Next]_vars => LifeTypeOK'
<1> SUFFICES ASSUME LifeTypeOK, [Next]_vars PROVE LifeTypeOK'
  OBVIOUS
<1> USE DEF LifeTypeOK
<1>1. CASE Main
  BY <1>1 DEF Main, Listen, ListenFails, BeginShutdown, ShutdownEnds, ShutdownTimesOut
<1>2. CASE Signal \/ Write \/ Database
  BY <1>2 DEF Signal, Write, Database, lifeVars
<1>3. ASSUME NEW e \in Events, Accept(e) \/ Finish(e) \/ Return(e) PROVE LifeTypeOK'
  BY <1>3 DEF Accept, Finish, Return
<1>4. ASSUME NEW v \in Viewers, OpenStream(v) \/ CloseStream(v) PROVE LifeTypeOK'
  BY <1>4 DEF OpenStream, CloseStream
<1>5. CASE UNCHANGED vars
  BY <1>5 DEF vars
<1> QED BY <1>1, <1>2, <1>3, <1>4, <1>5 DEF Next

LEMMA InitAll == Init => LogInv /\ LifeTypeOK /\ Log!Init
<1> SUFFICES ASSUME Init PROVE LogInv /\ LifeTypeOK /\ Log!Init
  OBVIOUS
<1>1. LogInv
  BY InitLog DEF Init
<1>2. LifeTypeOK
  BY DEF Init, LifeTypeOK
<1>3. ToSet(<<>>) = {}
  BY DEF ToSet
<1>4. Log!Init
  BY <1>3 DEF Init, StoreInit, Log!Init, Undecided
<1> QED BY <1>1, <1>2, <1>4

\* Spec => []TypeOK, in which store.go's queue never exceeds its buffer.
THEOREM TypeCorrect == Spec => []TypeOK
<1>1. LogInv /\ LifeTypeOK => TypeOK
  BY DEF LogInv, LifeTypeOK, TypeOK
<1> QED BY InitAll, StepLog, StepLife, ProcessIsStore, <1>1, PTL DEF Spec

\* Spec => []RowsInOrder: the one worker of store.go writes rows in the order the
\* events were enqueued, up to inserts that timed out.
THEOREM KeepsOrder == Spec => []RowsInOrder
<1>1. LogInv => RowsInOrder
  <2> SUFFICES ASSUME LogInv, NEW i \in DOMAIN rows, NEW j \in DOMAIN rows,
                      i < j, rows[i] \notin slow, rows[j] \notin slow
               PROVE  Position(rows[i]) < Position(rows[j])
    BY DEF RowsInOrder
  <2>1. StoreTypeOK /\ Line /\ Distinct /\ Behind /\ Ordered
    BY DEF LogInv
  <2>2. Len(accepted) \in Nat /\ Decided \in 0 .. Len(accepted) /\ DOMAIN rows = 1 .. Len(rows)
    BY <2>1, Sizes DEF StoreTypeOK
  <2>3. PICK k \in 1 .. Len(accepted) : accepted[k] = rows[i]
    BY <2>1, <2>2 DEF Behind, Past
  <2>4. PICK l \in 1 .. Len(accepted) : accepted[l] = rows[j]
    BY <2>1, <2>2 DEF Behind, Past
  <2>5. k < l
    BY <2>1, <2>2, <2>3, <2>4 DEF Ordered
  <2>6. Position(rows[i]) = k /\ Position(rows[j]) = l
    BY <2>1, <2>3, <2>4, PositionIs
  <2> QED BY <2>5, <2>6
<1> QED BY InitAll, StepLog, ProcessIsStore, <1>1, PTL DEF Spec

\* Spec => []DrainedBeforeReturn: what Run's comment (store.go:35) promises.
THEOREM DrainsBeforeReturn == Spec => []DrainedBeforeReturn
<1>1. LogInv => DrainedBeforeReturn
  BY DEF LogInv, Drained
<1> QED BY InitAll, StepLog, ProcessIsStore, <1>1, PTL DEF Spec

\* Spec => LogIsLossy: store.go, in a process that may stop at any time and next to
\* a database that may fail, implements the lossy log.
THEOREM ImplementsLossyLog == Spec => LogIsLossy
<1> QED BY InitAll, StepLog, ProcessIsStore, PTL DEF Spec, LogIsLossy, Log!Spec
=============================================================================
