--------------------------- MODULE ExchangeProofs ---------------------------
(***************************************************************************)
(* Proofs about one proxied request: what streamBody reassembles from the  *)
(* reads, what is charged and logged, and what the command line client     *)
(* makes of it, for streams of any length, any buffer and any prices.      *)
(***************************************************************************)
EXTENDS Exchange, SequenceTheorems, TLAPS

-----------------------------------------------------------------------------
(* The stream *)

Text == Lines \cup {"nl", "cr"}

\* What holds of every answer of the upstream, and of none.
Proper(u) ==
  /\ u.lines \in Seq(Lines) /\ u.crlf \in BOOLEAN /\ u.short \in Nat
  /\ u.short <= (IF u.lines = <<>> THEN 0 ELSE Len(Separator(u)))

LEMMA FrameIs ==
  ASSUME NEW u, u.crlf \in BOOLEAN
  PROVE  /\ FrameLen(u) = IF u.crlf THEN 5 ELSE 3
         /\ Len(Separator(u)) = FrameLen(u) - 1
         /\ \A k \in 1 .. FrameLen(u) - 1 : Separator(u)[k] \in {"nl", "cr"}
         /\ ~u.crlf => \A k \in 1 .. 2 : Separator(u)[k] = "nl"
<1>1. CASE u.crlf
  <2>1. Separator(u) = <<"cr", "nl", "cr", "nl">>
    BY <1>1 DEF Separator
  <2>2. \A k \in 1 .. 4 : k = 1 \/ k = 2 \/ k = 3 \/ k = 4
    OBVIOUS
  <2>3. Len(Separator(u)) = 4 /\ \A k \in 1 .. 4 : Separator(u)[k] \in {"nl", "cr"}
    BY <2>1, <2>2
  <2> QED BY <1>1, <2>3 DEF FrameLen
<1>2. CASE ~u.crlf
  <2>1. Separator(u) = <<"nl", "nl">>
    BY <1>2 DEF Separator
  <2>2. \A k \in 1 .. 2 : k = 1 \/ k = 2
    OBVIOUS
  <2>3. Len(Separator(u)) = 2 /\ \A k \in 1 .. 2 : Separator(u)[k] = "nl"
    BY <2>1, <2>2
  <2> QED BY <1>2, <2>3 DEF FrameLen
<1> QED BY <1>1, <1>2

\* The i-th token is in frame k, which is one of the n there are.
LEMMA FrameOf ==
  ASSUME NEW n \in Nat, NEW i \in Nat, NEW F \in {3, 5}, i >= 1, i <= n * F
  PROVE  /\ (i - 1) % F \in 0 .. F - 1
         /\ (i - 1) \div F + 1 \in 1 .. n
<1>1. CASE F = 3
  <2>1. (i - 1) % 3 \in 0 .. 2 /\ (i - 1) \div 3 + 1 >= 1 /\ (i - 1) \div 3 + 1 <= n
    BY <1>1, Z3
  <2> QED BY <1>1, <2>1, Z3
<1>2. CASE F = 5
  <2>1. (i - 1) % 5 \in 0 .. 4 /\ (i - 1) \div 5 + 1 >= 1 /\ (i - 1) \div 5 + 1 <= n
    BY <1>2, Z3
  <2> QED BY <1>2, <2>1, Z3
<1> QED BY <1>1, <1>2

LEMMA FrameThree ==
  ASSUME NEW k \in Nat, k >= 1
  PROVE  /\ (3 * k - 2 - 1) % 3 = 0 /\ (3 * k - 2 - 1) \div 3 + 1 = k
         /\ (3 * k - 1 - 1) % 3 = 1 /\ (3 * k - 1) % 3 = 2
  BY Z3

LEMMA WireIs ==
  ASSUME NEW u, Proper(u)
  PROVE  /\ Wire(u) \in Seq(Text)
         /\ Len(u.lines) \in Nat
         /\ Len(Wire(u)) = Len(u.lines) * FrameLen(u) - u.short
         /\ Len(Wire(u)) \in Nat
         /\ ~u.crlf =>
              /\ u.short \in 0 .. 2 /\ (Len(u.lines) = 0 => u.short = 0)
              /\ Len(Wire(u)) = 3 * Len(u.lines) - u.short
              /\ \A k \in 1 .. Len(u.lines) :
                   /\ 3 * k - 2 <= Len(Wire(u)) => Wire(u)[3 * k - 2] = u.lines[k]
                   /\ 3 * k - 1 <= Len(Wire(u)) => Wire(u)[3 * k - 1] = "nl"
                   /\ 3 * k <= Len(Wire(u)) => Wire(u)[3 * k] = "nl"
<1> DEFINE n == Len(u.lines)
           F == FrameLen(u)
           L == n * F - u.short
           tok(i) == LET k == (i - 1) % F
                     IN  IF k = 0 THEN u.lines[(i - 1) \div F + 1] ELSE Separator(u)[k]
<1>1. n \in Nat /\ u.lines \in Seq(Lines) /\ u.short \in Nat /\ u.crlf \in BOOLEAN
  BY DEF Proper
<1>2. F \in {3, 5} /\ (u.crlf => F = 5) /\ (~u.crlf => F = 3)
  BY <1>1, FrameIs
<1>3. n = 0 => u.short = 0
  <2>1. u.lines # <<>> => n # 0
    BY <1>1, EmptySeq
  <2> QED BY <2>1 DEF Proper
<1>4. u.short <= F - 1
  BY <1>1, <1>2, FrameIs DEF Proper
<1>5. L \in Nat
  <2>1. CASE n = 0
    BY <1>2, <1>3, <2>1
  <2>2. CASE n >= 1
    <3>1. F = 3 => n * 3 >= 3
      BY <1>1, <2>2
    <3>2. F = 5 => n * 5 >= 5
      BY <1>1, <2>2
    <3> QED BY <1>1, <1>2, <1>4, <3>1, <3>2
  <2> QED BY <1>1, <2>1, <2>2
<1>6. Wire(u) = [i \in 1 .. L |-> tok(i)]
  BY DEF Wire
<1>7. \A i \in 1 .. L : tok(i) \in Text
  <2> SUFFICES ASSUME NEW i \in 1 .. L PROVE tok(i) \in Text
    OBVIOUS
  <2>1. i \in Nat /\ i >= 1 /\ i <= n * F
    BY <1>1, <1>2, <1>5
  <2>2. (i - 1) % F \in 0 .. F - 1 /\ (i - 1) \div F + 1 \in 1 .. n
    BY <1>1, <1>2, <2>1, FrameOf
  <2>3. u.lines[(i - 1) \div F + 1] \in Lines
    BY <1>1, <2>2, ElementOfSeq
  <2>4. \A k \in 1 .. F - 1 : Separator(u)[k] \in {"nl", "cr"}
    BY <1>1, FrameIs
  <2>5. (i - 1) % F = 0 \/ (i - 1) % F \in 1 .. F - 1
    BY <1>2, <2>2
  <2> QED BY <2>3, <2>4, <2>5 DEF Text
<1>8. Wire(u) \in Seq(Text) /\ Len(Wire(u)) = L
  <2> HIDE DEF tok, L
  <2>1. Wire(u) \in [1 .. L -> Text]
    BY <1>6, <1>7
  <2> QED BY <1>5, <2>1
<1>9. ASSUME ~u.crlf, NEW k \in 1 .. n
      PROVE  /\ 3 * k - 2 <= L => Wire(u)[3 * k - 2] = u.lines[k]
             /\ 3 * k - 1 <= L => Wire(u)[3 * k - 1] = "nl"
             /\ 3 * k <= L => Wire(u)[3 * k] = "nl"
  <2>1. F = 3 /\ Separator(u)[1] = "nl" /\ Separator(u)[2] = "nl"
    BY <1>1, <1>2, <1>9, FrameIs
  <2>2. k \in Nat /\ k >= 1
    BY <1>1
  <2>3. /\ (3 * k - 2 - 1) % 3 = 0 /\ (3 * k - 2 - 1) \div 3 + 1 = k
        /\ (3 * k - 1 - 1) % 3 = 1 /\ (3 * k - 1) % 3 = 2
    BY <2>2, FrameThree
  <2>4. tok(3 * k - 2) = u.lines[k] /\ tok(3 * k - 1) = "nl" /\ tok(3 * k) = "nl"
    BY <2>1, <2>3
  <2> HIDE DEF tok, L
  <2>5. /\ 3 * k - 2 <= L => 3 * k - 2 \in 1 .. L
        /\ 3 * k - 1 <= L => 3 * k - 1 \in 1 .. L
        /\ 3 * k <= L => 3 * k \in 1 .. L
    BY <1>5, <2>2
  <2> QED BY <1>6, <2>4, <2>5
<1>10. ~u.crlf => L = 3 * n - u.short /\ u.short \in 0 .. 2
  BY <1>1, <1>2, <1>4
<1> QED BY <1>1, <1>3, <1>5, <1>8, <1>9, <1>10

\* What streamBody holds in pending, once c events are cut off: at most one break
\* matters, the one behind the next line.
LEMMA PendingIs ==
  ASSUME NEW u, Proper(u), ~u.crlf,
         NEW c \in Nat, NEW t \in Nat, 3 * c <= t, t <= Len(Wire(u))
  PROVE  LET p == SubSeq(Wire(u), 3 * c + 1, t)
         IN  /\ p \in Seq(Text) /\ Len(p) = t - 3 * c
             /\ 1 \notin Breaks(p)
             /\ t < 3 * c + 3 => Breaks(p) = {}
             /\ t >= 3 * c + 3 =>
                  /\ 2 \in Breaks(p) /\ c + 1 <= Len(u.lines)
                  /\ SubSeq(p, 1, 1) = <<u.lines[c + 1]>>
                  /\ SubSeq(p, 4, Len(p)) = SubSeq(Wire(u), 3 * (c + 1) + 1, t)
<1> DEFINE W == Wire(u)
           n == Len(u.lines)
           p == SubSeq(W, 3 * c + 1, t)
<1>1. /\ W \in Seq(Text) /\ n \in Nat /\ Len(W) \in Nat
      /\ u.short \in 0 .. 2 /\ Len(W) = 3 * n - u.short
      /\ \A k \in 1 .. n :
           /\ 3 * k - 2 <= Len(W) => W[3 * k - 2] = u.lines[k]
           /\ 3 * k - 1 <= Len(W) => W[3 * k - 1] = "nl"
           /\ 3 * k <= Len(W) => W[3 * k] = "nl"
  BY WireIs
<1>2. u.lines \in Seq(Lines) /\ t <= Len(W)
  BY DEF Proper
<1> HIDE DEF W
<1>3. \A i \in 3 * c + 1 .. t : W[i] \in Text
  BY <1>1, <1>2
<1>4. /\ p \in Seq(Text)
      /\ Len(p) = IF 3 * c + 1 <= t THEN t - (3 * c + 1) + 1 ELSE 0
      /\ \A i \in 1 .. t - (3 * c + 1) + 1 : p[i] = W[3 * c + 1 + i - 1]
  BY <1>3, SubSeqProperties
<1>5. Len(p) = t - 3 * c /\ \A i \in 1 .. t - 3 * c : p[i] = W[3 * c + i]
  BY <1>4
<1> HIDE DEF p
<1>6. t > 3 * c => c + 1 \in 1 .. n
  BY <1>1, <1>2
<1>7. t > 3 * c => p[1] = u.lines[c + 1] /\ u.lines[c + 1] \in Lines
  <2> SUFFICES ASSUME t > 3 * c PROVE p[1] = u.lines[c + 1] /\ u.lines[c + 1] \in Lines
    OBVIOUS
  <2>1. p[1] = W[3 * c + 1] /\ 3 * (c + 1) - 2 = 3 * c + 1
    BY <1>5
  <2>2. W[3 * c + 1] = u.lines[c + 1]
    BY <1>1, <1>2, <1>6, <2>1
  <2> QED BY <1>2, <1>6, <2>1, <2>2, ElementOfSeq
<1>8. 1 \notin Breaks(p)
  <2>1. "nl" \notin Lines
    BY LinesAssumption
  <2>2. 1 \in Breaks(p) => t > 3 * c /\ p[1] = "nl"
    BY <1>5 DEF Breaks
  <2> QED BY <1>7, <2>1, <2>2
<1>9. t < 3 * c + 3 => Breaks(p) = {}
  <2> SUFFICES ASSUME t < 3 * c + 3, NEW i \in Breaks(p) PROVE FALSE
    OBVIOUS
  <2>1. i \in 1 .. Len(p) - 1 /\ Len(p) <= 2
    BY <1>5 DEF Breaks
  <2>2. i = 1
    BY <1>5, <2>1
  <2> QED BY <1>8, <2>2
<1>10. ASSUME t >= 3 * c + 3
       PROVE  /\ 2 \in Breaks(p) /\ c + 1 <= n
              /\ SubSeq(p, 1, 1) = <<u.lines[c + 1]>>
              /\ SubSeq(p, 4, Len(p)) = SubSeq(W, 3 * (c + 1) + 1, t)
  <2>1. c + 1 \in 1 .. n /\ p[1] = u.lines[c + 1]
    BY <1>6, <1>7, <1>10
  <2>2. p[2] = W[3 * c + 2] /\ p[3] = W[3 * c + 3]
    BY <1>5, <1>10
  <2>3. W[3 * c + 2] = "nl" /\ W[3 * c + 3] = "nl"
    <3>1. 3 * (c + 1) - 1 = 3 * c + 2 /\ 3 * (c + 1) = 3 * c + 3
      OBVIOUS
    <3>2. 3 * (c + 1) <= Len(W) /\ 3 * (c + 1) - 1 <= Len(W)
      BY <1>1, <1>2, <1>10
    <3> QED BY <1>1, <2>1, <3>1, <3>2
  <2>4. 2 \in Breaks(p)
    BY <1>5, <1>10, <2>2, <2>3 DEF Breaks
  <2>5. SubSeq(p, 1, 1) = <<p[1]>>
    <3>1. p # <<>> /\ 1 \in 1 .. Len(p)
      BY <1>4, <1>5, <1>10
    <3>2. \A i \in 1 .. 1 : p[i] \in Text
      BY <1>4, <3>1, ElementOfSeq
    <3>3. /\ SubSeq(p, 1, 1) \in Seq(Text)
          /\ Len(SubSeq(p, 1, 1)) = IF 1 <= 1 THEN 1 - 1 + 1 ELSE 0
          /\ \A i \in 1 .. 1 - 1 + 1 : SubSeq(p, 1, 1)[i] = p[1 + i - 1]
      BY <3>2, SubSeqProperties
    <3>4. <<p[1]>> \in Seq(Text) /\ Len(<<p[1]>>) = 1 /\ <<p[1]>>[1] = p[1]
      BY <3>2
    <3>5. Len(SubSeq(p, 1, 1)) = 1 /\ SubSeq(p, 1, 1)[1] = p[1]
      BY <3>3
    <3>6. \A i \in 1 .. 1 : i = 1
      OBVIOUS
    <3> QED BY <3>3, <3>4, <3>5, <3>6, SeqEqual
  <2>6. SubSeq(p, 4, Len(p)) = SubSeq(W, 3 * (c + 1) + 1, t)
    <3>1. CASE t = 3 * c + 3
      <4>1. Len(p) = 3 /\ Len(p) < 4 /\ t < 3 * (c + 1) + 1
        BY <1>5, <3>1
      <4>2. SubSeq(p, 4, Len(p)) = <<>> /\ SubSeq(W, 3 * (c + 1) + 1, t) = <<>>
        BY <4>1, SubSeqEmpty
      <4> QED BY <4>2
    <3>2. CASE t > 3 * c + 3
      <4> DEFINE i == 3 * c + 1
      <4>1. i \in 1 .. Len(W) /\ t \in 1 .. Len(W)
        BY <1>1, <1>2, <3>2
      <4>2. 4 \in 1 .. t - i + 1 /\ t - 3 * c \in 1 .. t - i + 1
        BY <3>2
      <4>3. SubSeq(SubSeq(W, i, t), 4, t - 3 * c) = SubSeq(W, i + 4 - 1, i + (t - 3 * c) - 1)
        BY <1>1, <4>1, <4>2, SubSeqOfSubSeq
      <4>4. i + 4 - 1 = 3 * (c + 1) + 1 /\ i + (t - 3 * c) - 1 = t
        OBVIOUS
      <4> QED BY <1>5, <4>3, <4>4 DEF p
    <3> QED BY <1>10, <3>1, <3>2
  <2> QED BY <2>1, <2>4, <2>5, <2>6
<1> QED BY <1>4, <1>5, <1>8, <1>9, <1>10 DEF p, W

\* The next read goes on where the last one ended.
LEMMA ChunkIs ==
  ASSUME NEW u, Proper(u),
         NEW m \in Nat, m >= 1, NEW t \in Nat, m <= t + 1,
         NEW n \in Nat, t + n <= Len(Wire(u))
  PROVE  /\ SubSeq(Wire(u), t + 1, t + n) \in Seq(Text)
         /\ SubSeq(Wire(u), m, t) \o SubSeq(Wire(u), t + 1, t + n) = SubSeq(Wire(u), m, t + n)
<1>1. Wire(u) \in Seq(Text) /\ Len(Wire(u)) \in Nat
  BY WireIs
<1>2. \A i \in t + 1 .. t + n : Wire(u)[i] \in Text
  BY <1>1
<1>3. SubSeq(Wire(u), t + 1, t + n) \in Seq(Text)
  BY <1>2, SubSeqProperties
<1>4. /\ m \in 1 .. Len(Wire(u)) + 1 /\ t \in m - 1 .. Len(Wire(u))
      /\ t + n \in t .. Len(Wire(u))
  BY <1>1
<1> QED BY <1>1, <1>3, <1>4, ConcatAdjacentSubSeq

-----------------------------------------------------------------------------
(* Usage *)

\* Of the first c events of u, e is the last that mentions usage.
Told(u, c) == {i \in 1 .. c : u.lines[i] \in DOMAIN Usage}
IsLast(u, c, e) ==
  \/ Told(u, c) = {} /\ e = <<>>
  \/ \E i \in Told(u, c) : e = <<u.lines[i]>> /\ \A j \in Told(u, c) : j <= i

LEMMA LastNext ==
  ASSUME NEW u, NEW c \in Nat, NEW e, IsLast(u, c, e)
  PROVE  IsLast(u, c + 1, IF Mentions(<<u.lines[c + 1]>>) THEN <<u.lines[c + 1]>> ELSE e)
<1> DEFINE l == u.lines[c + 1]
<1>1. Mentions(<<l>>) <=> l \in DOMAIN Usage
  <2>1. DOMAIN <<l>> = {1} /\ <<l>>[1] = l
    OBVIOUS
  <2> QED BY <2>1 DEF Mentions
<1>2. \A i : i \in 1 .. c + 1 <=> i \in 1 .. c \/ i = c + 1
  OBVIOUS
<1>3. CASE l \in DOMAIN Usage
  <2>1. c + 1 \in Told(u, c + 1) /\ \A j \in Told(u, c + 1) : j <= c + 1
    BY <1>2, <1>3 DEF Told
  <2> QED BY <1>1, <1>3, <2>1 DEF IsLast
<1>4. CASE l \notin DOMAIN Usage
  <2>1. Told(u, c + 1) = Told(u, c)
    BY <1>2, <1>4 DEF Told
  <2> QED BY <1>1, <1>4, <2>1 DEF IsLast
<1> QED BY <1>3, <1>4

LEMMA LastIsReported ==
  ASSUME NEW u, Closed(u) \in Nat, NEW e, IsLast(u, Closed(u), e)
  PROVE  /\ ParseUsage(e) = Reported(u)
         /\ Reported(u) \in Tokens
<1> DEFINE T == Told(u, Closed(u))
<1>1. T = {i \in 1 .. Closed(u) : u.lines[i] \in DOMAIN Usage}
  BY DEF Told
<1>2. CASE T = {} /\ e = <<>>
  <2>1. Reported(u) = NoUse
    BY <1>1, <1>2 DEF Reported
  <2>2. ParseUsage(e) = NoUse
    BY <1>2 DEF ParseUsage
  <2>3. NoUse \in Tokens
    BY DEF NoUse, Tokens
  <2> QED BY <2>1, <2>2, <2>3
<1>3. ASSUME NEW i \in T, e = <<u.lines[i]>>, \A j \in T : j <= i
      PROVE  ParseUsage(e) = Reported(u) /\ Reported(u) \in Tokens
  <2> DEFINE M == CHOOSE k \in T : \A j \in T : j <= k
  <2>1. M \in T /\ \A j \in T : j <= M
    BY <1>3
  <2>2. T \subseteq Nat
    BY <1>1
  <2>3. M = i
    <3> HIDE DEF M, T
    <3> QED BY <1>3, <2>1, <2>2
  <2>4. Reported(u) = Usage[u.lines[M]]
    BY <1>1, <1>3 DEF Reported
  <2>5. u.lines[i] \in DOMAIN Usage
    BY <1>1, <1>3
  <2>6. Len(e) = 1 /\ e[1] = u.lines[i]
    BY <1>3
  <2>7. ParseUsage(e) = Usage[u.lines[i]]
    BY <2>5, <2>6 DEF ParseUsage
  <2> QED BY <2>3, <2>4, <2>5, <2>7, UsageAssumption
<1> QED BY <1>2, <1>3 DEF IsLast

\* What is charged for some tokens.
LEMMA CostIs ==
  ASSUME NEW m \in DOMAIN Prices, NEW use \in Tokens
  PROVE  /\ Cost(m, use) \in Nat
         /\ Cost(m, use) * Million <= use.in * Prices[m].in + use.out * Prices[m].out
         /\ use.in * Prices[m].in + use.out * Prices[m].out < (Cost(m, use) + 2) * Million
<1>1. /\ use.in \in Nat /\ use.out \in Nat
      /\ Prices[m].in \in Nat /\ Prices[m].out \in Nat
  BY PricesAssumption DEF Tokens
<1> DEFINE a == use.in * Prices[m].in
           b == use.out * Prices[m].out
<1>2. \A x, y \in Nat : x * y \in Nat
  OBVIOUS
<1>3. a \in Nat /\ b \in Nat
  BY <1>1, <1>2
<1>4. Cost(m, use) = a \div 1000000 + b \div 1000000
  BY DEF Cost, Million
<1> HIDE DEF a, b
<1>5. \A x \in Nat : /\ x \div 1000000 \in Nat
                     /\ (x \div 1000000) * 1000000 <= x
                     /\ x < (x \div 1000000) * 1000000 + 1000000
  BY Z3
<1> DEFINE qa == a \div 1000000
           qb == b \div 1000000
<1>6. /\ qa \in Nat /\ qb \in Nat
      /\ qa * 1000000 <= a /\ a < qa * 1000000 + 1000000
      /\ qb * 1000000 <= b /\ b < qb * 1000000 + 1000000
  BY <1>3, <1>5
<1> HIDE DEF qa, qb
<1>7. /\ qa + qb \in Nat
      /\ (qa + qb) * 1000000 <= a + b /\ a + b < (qa + qb + 2) * 1000000
  BY <1>3, <1>6
<1> QED BY <1>4, <1>7 DEF qa, qb, a, b, Million

-----------------------------------------------------------------------------
(* The invariant *)

Answers == [status : {0, 200, 400, 500, 502}, torn : BOOLEAN,
            body : Seq(Lines \cup {"nl", "cr", "error"})]
Logged  == [status : {0, 200, 500, 502}, partial : BOOLEAN, in : Nat, out : Nat, cost : Nat,
            unknown : BOOLEAN, error : {"none", "left", "unreachable", "interrupted"}]

Streaming == pc \in {"relaying", "scanning"}

\* Where the handler is, by what it has done so far.
Flow ==
  /\ Proper(upstream)
  /\ pc # "done" => event = NoEvent
  /\ ~Streaming /\ pc # "done" => pending = <<>> /\ lastUsage = <<>> /\ answer.body = <<>>
  /\ pc \in {"decoding", "waiting"} =>
       /\ upstream = Silence /\ taken = 0
       /\ answer.status = 0
  /\ pc = "collecting" =>
       /\ ~request.stream /\ upstream # Silence
       /\ answer.status = upstream.status
       /\ Len(upstream.lines) = 1 /\ ~upstream.crlf /\ upstream.short = 0
  /\ Streaming => request.stream /\ upstream # Silence

\* What was read was sent on.
Copied ==
  Streaming => /\ taken <= Len(Wire(upstream))
               /\ answer.body = SubSeq(Wire(upstream), 1, taken)

\* pending is what was read behind the last event that was cut off, and lastUsage
\* the last of these that mentions usage.
Reassembled ==
  Streaming /\ ~upstream.crlf =>
    \E c \in Nat :
      /\ 3 * c <= taken
      /\ pending = SubSeq(Wire(upstream), 3 * c + 1, taken)
      /\ IsLast(upstream, c, lastUsage)
      /\ pc = "relaying" => taken < 3 * c + 3
      /\ pc = "scanning" => taken < 3 * c + 3 + MaxRead

\* An answer that the command line client can use is the whole of what was sent.
Whole ==
  /\ pc = "done" /\ ~request.stream /\ Usable(answer) =>
       event.status = 200 /\ answer.body = upstream.lines
  /\ match = "written" => pc = "done" /\ ~request.stream /\ Usable(answer)

Settled == BilledAsReported /\ CostWithinTwo /\ PartialIsTrue

ExInv == TypeOK /\ Flow /\ Copied /\ Reassembled /\ Whole /\ Settled /\ BufferBounded

LEMMA Types ==
  ASSUME TypeOK
  PROVE  /\ answer \in Answers
         /\ pending \in Seq(Text) /\ lastUsage \in Seq(Text)
         /\ event \in {NoEvent} \cup Logged
         /\ upstream # Silence => upstream.status \in {200, 500}
         /\ request.stream \in BOOLEAN /\ request.route \in {"chat", "embed"}
         /\ request.route = "embed" => ~request.stream
  BY DEF TypeOK, Answers, Text, Logged, Sent, Requests

LEMMA StatusIs ==
  ASSUME NEW a \in Answers, NEW s \in {0, 200, 400, 500, 502},
         NEW b, b = [a EXCEPT !.status = s]
  PROVE  b \in Answers /\ b.status = s /\ b.body = a.body
  BY DEF Answers

LEMMA BodyIs ==
  ASSUME NEW a \in Answers, NEW t \in Seq(Lines \cup {"nl", "cr", "error"}),
         NEW b, b = [a EXCEPT !.body = t]
  PROVE  b \in Answers /\ b.status = a.status /\ b.body = t
  BY DEF Answers

LEMMA TornIs ==
  ASSUME NEW a \in Answers, NEW t \in BOOLEAN, NEW b, b = [a EXCEPT !.torn = t]
  PROVE  b \in Answers /\ b.body = a.body
  BY DEF Answers

LEMMA EmitIs ==
  ASSUME TypeOK, upstream # Silence, UNCHANGED <<request, upstream>>,
         NEW use \in Tokens, NEW partial \in BOOLEAN,
         NEW error \in {"none", "left", "unreachable", "interrupted"},
         Emit(use, partial, error)
  PROVE  /\ pc' = "done" /\ event' \in Logged /\ event' # NoEvent
         /\ event'.status = upstream.status /\ event'.partial = partial
         /\ event'.error = error /\ event'.in = use.in /\ event'.out = use.out
         /\ CostWithinTwo'
<1> DEFINE m == request.model
           known == Priced(m)
           cost == IF known THEN Cost(m, use) ELSE 0
           e == [status |-> upstream.status, partial |-> partial, error |-> error,
                 in |-> use.in, out |-> use.out, cost |-> cost, unknown |-> ~known]
<1>1. event' = e /\ pc' = "done"
  BY DEF Emit
<1>2. upstream.status \in {200, 500} /\ use.in \in Nat /\ use.out \in Nat
  BY Types DEF Tokens
<1>3. known => /\ Cost(m, use) \in Nat
               /\ Cost(m, use) * Million <= use.in * Prices[m].in + use.out * Prices[m].out
               /\ use.in * Prices[m].in + use.out * Prices[m].out < (Cost(m, use) + 2) * Million
  BY CostIs DEF Priced
<1>4. cost \in Nat
  <2> DEFINE k == Cost(m, use)
  <2>1. known => k \in Nat
    BY <1>3
  <2> HIDE DEF k, known
  <2>2. (IF known THEN k ELSE 0) \in Nat
    BY <2>1
  <2> QED BY <2>2 DEF k
<1> DEFINE unknown == ~known
<1>5. /\ e.status = upstream.status /\ e.partial = partial /\ e.error = error
      /\ e.in = use.in /\ e.out = use.out /\ e.cost = cost
      /\ e \in Logged
  <2> HIDE DEF cost
  <2>1. unknown \in BOOLEAN
    OBVIOUS
  <2> HIDE DEF known
  <2> QED BY <1>2, <1>4, <2>1 DEF Logged
<1>6. e # NoEvent
  <2> HIDE DEF e
  <2>1. e.status >= 0
    BY <1>2, <1>5
  <2>2. NoEvent.status = -1
    BY DEF NoEvent
  <2> QED BY <2>1, <2>2
<1>7. CostWithinTwo'
  <2> SUFFICES ASSUME Priced(request.model)
               PROVE  LET p == Prices[request.model]
                          exact == event'.in * p.in + event'.out * p.out
                      IN  event'.cost * Million <= exact /\ exact < (event'.cost + 2) * Million
    BY DEF CostWithinTwo
  <2>1. cost = Cost(m, use)
    BY DEF Priced
  <2> HIDE DEF e, cost
  <2> QED BY <1>1, <1>3, <1>5, <2>1
<1> HIDE DEF e
<1> QED BY <1>1, <1>5, <1>6, <1>7

LEMMA EmitFailureIs ==
  ASSUME NEW status \in {0, 502}, NEW partial \in BOOLEAN,
         NEW error \in {"left", "unreachable"}, EmitFailure(status, partial, error)
  PROVE  /\ pc' = "done" /\ event' \in Logged /\ event' # NoEvent
         /\ event'.partial = partial
<1> DEFINE e == [status |-> status, partial |-> partial, error |-> error,
                 in |-> 0, out |-> 0, cost |-> 0, unknown |-> FALSE]
<1>1. event' = e /\ pc' = "done"
  BY DEF EmitFailure
<1>2. e \in Logged /\ e.status = status /\ e.partial = partial
  BY DEF Logged
<1>3. e # NoEvent
  <2> HIDE DEF e
  <2>1. e.status >= 0
    BY <1>2
  <2>2. NoEvent.status = -1
    BY DEF NoEvent
  <2> QED BY <2>1, <2>2
<1> HIDE DEF e
<1> QED BY <1>1, <1>2, <1>3

LEMMA InitOk == Init => ExInv
<1> SUFFICES ASSUME Init PROVE ExInv
  OBVIOUS
<1>1. /\ request \in Requests /\ pc = "decoding" /\ gone = FALSE
      /\ upstream = Silence /\ taken = 0
      /\ pending = <<>> /\ lastUsage = <<>>
      /\ answer = NoAnswer /\ event = NoEvent /\ match = "none"
  BY DEF Init
<1>2. answer.body = <<>> /\ answer.status = 0 /\ answer \in Answers
  <2>1. <<>> \in Seq(Lines \cup {"nl", "cr", "error"})
    BY EmptySeq
  <2> QED BY <1>1, <2>1 DEF NoAnswer, Answers
<1>3. TypeOK
  <2>1. <<>> \in Seq(Lines \cup {"nl", "cr"})
    BY EmptySeq
  <2>2. gone \in BOOLEAN
    BY <1>1
  <2> QED BY <1>1, <1>2, <2>1, <2>2 DEF TypeOK, Answers
<1>4. Proper(upstream) /\ upstream.crlf = FALSE
  <2>1. <<>> \in Seq(Lines)
    BY EmptySeq
  <2> QED BY <1>1, <2>1 DEF Proper, Silence
<1>5. Flow
  BY <1>1, <1>2, <1>4 DEF Flow, Streaming
<1>6. Copied /\ Reassembled /\ Whole
  BY <1>1 DEF Copied, Reassembled, Whole, Streaming
<1>7. Settled
  BY <1>1 DEF Settled, BilledAsReported, CostWithinTwo, PartialIsTrue, Answered, Emitted
<1>8. BufferBounded
  <2>1. Len(pending) = 0 /\ MaxRead \in Nat
    BY <1>1, EmptySeq, SizeAssumption
  <2>2. upstream.crlf \in BOOLEAN
    BY <1>4
  <2>3. FrameLen(upstream) \in {3, 5}
    BY <2>2, FrameIs
  <2> QED BY <2>1, <2>3 DEF BufferBounded
<1> QED BY <1>3, <1>5, <1>6, <1>7, <1>8 DEF ExInv

-----------------------------------------------------------------------------
(* Steps before the Event *)

LEMMA Unlogged == ASSUME event' = NoEvent PROVE Settled'
  BY DEF Settled, BilledAsReported, CostWithinTwo, PartialIsTrue, Answered, Emitted

LEMMA Bounded ==
  ASSUME UNCHANGED <<upstream, pending>>, BufferBounded PROVE BufferBounded'
  BY DEF BufferBounded

LEMMA ClientLeavesOk == ASSUME ExInv, ClientLeaves PROVE ExInv'
<1>1. /\ pc # "done" /\ gone' = TRUE
      /\ UNCHANGED <<request, pc, upstream, taken, pending, lastUsage, answer, event, match>>
  BY DEF ClientLeaves
<1>2. event' = NoEvent
  BY <1>1 DEF ExInv, Flow
<1>3. TypeOK'
  <2>1. gone' \in BOOLEAN
    BY <1>1
  <2> QED BY <1>1, <2>1 DEF ExInv, TypeOK
<1>4. Flow' /\ Copied'
  BY <1>1 DEF ExInv, Flow, Copied, Streaming
<1>5. Reassembled' /\ Whole'
  BY <1>1 DEF ExInv, Reassembled, Whole, Streaming
<1> QED BY <1>1, <1>2, <1>3, <1>4, <1>5, Unlogged, Bounded DEF ExInv

LEMMA BadBodyOk == ASSUME ExInv, BadBody PROVE ExInv'
<1>1. /\ pc = "decoding" /\ pc' = "done"
      /\ answer' = [answer EXCEPT !.status = 400]
      /\ UNCHANGED <<request, gone, upstream, taken, pending, lastUsage, event, match>>
  BY DEF BadBody
<1>2. answer \in Answers /\ TypeOK
  BY Types DEF ExInv
<1>3. answer' \in Answers /\ answer'.status = 400
  BY <1>1, <1>2, StatusIs
<1>4. TypeOK'
  BY <1>1, <1>2, <1>3 DEF TypeOK, Answers
<1>5. event' = NoEvent
  BY <1>1 DEF ExInv, Flow
<1>6. Flow' /\ Copied' /\ Reassembled'
  BY <1>1 DEF ExInv, Flow, Copied, Reassembled, Streaming
<1>7. Whole'
  BY <1>1, <1>3 DEF ExInv, Whole, Usable
<1> QED BY <1>1, <1>4, <1>5, <1>6, <1>7, Unlogged, Bounded DEF ExInv

LEMMA ForwardOk == ASSUME ExInv, Forward PROVE ExInv'
<1>1. /\ pc = "decoding" /\ pc' = "waiting"
      /\ UNCHANGED <<request, gone, upstream, taken, pending, lastUsage, answer, event, match>>
  BY DEF Forward
<1>2. TypeOK'
  BY <1>1 DEF ExInv, TypeOK
<1>3. event' = NoEvent
  BY <1>1 DEF ExInv, Flow
<1>4. Flow' /\ Copied' /\ Reassembled' /\ Whole'
  BY <1>1 DEF ExInv, Flow, Copied, Reassembled, Whole, Streaming
<1> QED BY <1>1, <1>2, <1>3, <1>4, Unlogged, Bounded DEF ExInv

LEMMA FunIsSeq ==
  ASSUME NEW S, NEW n \in Nat, NEW f \in [1 .. n -> S]
  PROVE  f \in Seq(S) /\ Len(f) = n
  OBVIOUS

\* What the upstream may answer with.
LEMMA SentIs ==
  ASSUME NEW r, NEW u \in Streams(r) \cup Documents
  PROVE  /\ u \in Sent(Seq(Lines)) /\ u.status \in {200, 500} /\ u # Silence /\ Proper(u)
         /\ u \in Documents => Len(u.lines) = 1 /\ ~u.crlf /\ u.short = 0
<1>1. CASE u \in Streams(r)
  <2>1. u \in Sent(Sequences) /\ u.short <= (IF u.lines = <<>> THEN 0 ELSE Len(Separator(u)))
    BY <1>1 DEF Streams
  <2>2. Sequences \subseteq Seq(Lines)
    BY SizeAssumption DEF Sequences
  <2>3. u \in Sent(Seq(Lines)) /\ u.lines \in Seq(Lines) /\ u.crlf \in BOOLEAN
        /\ u.short \in Nat /\ u.status \in {200, 500}
    BY <2>1, <2>2 DEF Sent
  <2>4. ~(u \in Documents) \/ (Len(u.lines) = 1 /\ ~u.crlf /\ u.short = 0)
    BY DEF Documents, Sent
  <2> QED BY <2>1, <2>3, <2>4 DEF Proper, Silence
<1>2. CASE u \in Documents
  <2>1. u \in Sent([{1} -> Lines]) /\ ~u.crlf /\ u.short = 0
    BY <1>2 DEF Documents
  <2>2. [{1} -> Lines] \subseteq Seq(Lines) /\ \A f \in [{1} -> Lines] : Len(f) = 1
    <3>1. {1} = 1 .. 1
      OBVIOUS
    <3>2. ASSUME NEW f \in [1 .. 1 -> Lines] PROVE f \in Seq(Lines) /\ Len(f) = 1
      BY FunIsSeq
    <3> QED BY <3>1, <3>2
  <2>3. u \in Sent(Seq(Lines)) /\ u.lines \in Seq(Lines) /\ u.crlf \in BOOLEAN
        /\ u.status \in {200, 500} /\ u.lines \in [{1} -> Lines]
    BY <2>1, <2>2 DEF Sent
  <2>4. Len(u.lines) = 1
    BY <2>2, <2>3
  <2>5. u.short <= (IF u.lines = <<>> THEN 0 ELSE Len(Separator(u)))
    <3>1. Len(Separator(u)) = FrameLen(u) - 1 /\ FrameLen(u) = 3
      BY <2>1, <2>3, FrameIs
    <3> QED BY <2>1, <3>1
  <2> QED BY <2>1, <2>3, <2>4, <2>5 DEF Proper, Silence
<1> QED BY <1>1, <1>2

LEMMA HeadersOk ==
  ASSUME ExInv, NEW u \in Streams(request) \cup Documents, Headers(u) PROVE ExInv'
<1>1. /\ pc = "waiting"
      /\ u \in IF request.stream THEN Streams(request) ELSE Documents
      /\ upstream' = u
      /\ answer' = [answer EXCEPT !.status = u.status]
      /\ pc' = IF request.stream THEN "relaying" ELSE "collecting"
      /\ UNCHANGED <<request, gone, taken, pending, lastUsage, event, match>>
  BY DEF Headers
<1>2. /\ u \in Sent(Seq(Lines)) /\ u.status \in {200, 500} /\ u # Silence /\ Proper(u)
      /\ u \in Documents => Len(u.lines) = 1 /\ ~u.crlf /\ u.short = 0
  BY SentIs
<1>3. answer \in Answers /\ TypeOK /\ request.stream \in BOOLEAN
  BY Types DEF ExInv
<1>4. answer' \in Answers /\ answer'.status = u.status /\ answer'.body = answer.body
  BY <1>1, <1>2, <1>3, StatusIs
<1>5. TypeOK'
  BY <1>1, <1>2, <1>3, <1>4 DEF TypeOK, Answers
<1>6. /\ event' = NoEvent /\ taken = 0 /\ pending = <<>> /\ lastUsage = <<>>
      /\ answer.body = <<>>
  BY <1>1 DEF ExInv, Flow, Streaming
<1>7. Flow'
  BY <1>1, <1>2, <1>4, <1>6 DEF Flow, Streaming
<1>8. /\ SubSeq(Wire(u), 1, 0) = <<>> /\ SubSeq(Wire(u), 3 * 0 + 1, 0) = <<>>
      /\ Len(Wire(u)) \in Nat
  BY <1>2, SubSeqEmpty, WireIs
<1>9. Copied'
  <2>1. upstream' = u /\ taken' = 0 /\ answer'.body = <<>>
    BY <1>1, <1>4, <1>6
  <2>2. 0 <= Len(Wire(u)) /\ <<>> = SubSeq(Wire(u), 1, 0)
    BY <1>8
  <2> QED BY <2>1, <2>2 DEF Copied
<1>10. IsLast(u, 0, <<>>)
  BY DEF IsLast, Told
<1>11. Reassembled'
  <2>1. /\ 3 * 0 <= taken' /\ pending' = SubSeq(Wire(u), 3 * 0 + 1, taken')
        /\ IsLast(u, 0, lastUsage') /\ taken' < 3 * 0 + 3 /\ pc' # "scanning"
    BY <1>1, <1>6, <1>8, <1>10
  <2> QED BY <1>1, <2>1 DEF Reassembled
<1>12. Whole'
  BY <1>1 DEF ExInv, Whole
<1>13. BufferBounded'
  <2>1. FrameLen(u) \in {3, 5} /\ MaxRead \in Nat /\ Len(pending') = 0
    BY <1>1, <1>2, <1>6, FrameIs, SizeAssumption, EmptySeq DEF Proper
  <2> QED BY <1>1, <2>1 DEF BufferBounded
<1> QED BY <1>5, <1>6, <1>7, <1>9, <1>11, <1>12, <1>13, Unlogged DEF ExInv

LEMMA RelayOk ==
  ASSUME ExInv, NEW n \in 1 .. MaxRead, Relay(n) PROVE ExInv'
<1>1. /\ pc = "relaying" /\ n <= Len(Wire(upstream)) - taken
      /\ taken' = taken + n
      /\ pending' = pending \o Chunk(n)
      /\ pc' = "scanning"
      /\ UNCHANGED <<request, gone, upstream, lastUsage, event, match>>
  BY DEF Relay, Rest
<1>2. answer' = [answer EXCEPT !.body = answer.body \o Chunk(n)]
  BY DEF Relay
<1>3. answer \in Answers /\ TypeOK /\ taken \in Nat /\ n \in Nat /\ n <= MaxRead
      /\ pending \in Seq(Text) /\ MaxRead \in Nat
  BY Types, SizeAssumption DEF ExInv, TypeOK
<1>4. /\ Proper(upstream) /\ taken <= Len(Wire(upstream))
      /\ answer.body = SubSeq(Wire(upstream), 1, taken)
  BY <1>1 DEF ExInv, Flow, Copied, Streaming
<1>5. Len(Wire(upstream)) \in Nat /\ taken + n <= Len(Wire(upstream))
  BY <1>1, <1>3, <1>4, WireIs
<1>6. /\ Chunk(n) \in Seq(Text)
      /\ answer.body \o Chunk(n) = SubSeq(Wire(upstream), 1, taken + n)
  <2>1. 1 \in Nat /\ 1 >= 1 /\ 1 <= taken + 1
    BY <1>3
  <2>2. /\ SubSeq(Wire(upstream), taken + 1, taken + n) \in Seq(Text)
        /\ SubSeq(Wire(upstream), 1, taken) \o SubSeq(Wire(upstream), taken + 1, taken + n)
             = SubSeq(Wire(upstream), 1, taken + n)
    BY <1>3, <1>4, <1>5, <2>1, ChunkIs
  <2> QED BY <1>4, <2>2 DEF Chunk
<1>7. answer.body \o Chunk(n) \in Seq(Lines \cup {"nl", "cr", "error"})
  <2>1. Text \subseteq Lines \cup {"nl", "cr", "error"}
    BY DEF Text
  <2>2. Chunk(n) \in Seq(Lines \cup {"nl", "cr", "error"})
    BY <1>6, <2>1, SeqMonotonic
  <2> QED BY <1>3, <2>2, ConcatProperties DEF Answers
<1>8. answer' \in Answers /\ answer'.body = SubSeq(Wire(upstream), 1, taken + n)
  <2> DEFINE t == answer.body \o Chunk(n)
  <2>1. answer' = [answer EXCEPT !.body = t] /\ t \in Seq(Lines \cup {"nl", "cr", "error"})
    BY <1>2, <1>7
  <2>2. t = SubSeq(Wire(upstream), 1, taken + n)
    BY <1>6
  <2> HIDE DEF t
  <2>3. answer' \in Answers /\ answer'.body = t
    BY <1>3, <2>1, BodyIs
  <2> QED BY <2>2, <2>3
<1>9. pending' \in Seq(Text)
  BY <1>1, <1>3, <1>6, ConcatProperties
<1>10. TypeOK'
  <2>1. taken' \in Nat
    BY <1>1, <1>3
  <2> QED BY <1>1, <1>3, <1>8, <1>9, <2>1 DEF TypeOK, Answers, Text
<1>11. event' = NoEvent
  BY <1>1 DEF ExInv, Flow
<1>12. Flow'
  BY <1>1 DEF ExInv, Flow, Streaming
<1>13. Copied'
  BY <1>1, <1>5, <1>8 DEF Copied
<1>14. ASSUME ~upstream.crlf
       PROVE  \E c \in Nat :
                /\ 3 * c <= taken' /\ taken' < 3 * c + 3 + MaxRead
                /\ pending' = SubSeq(Wire(upstream), 3 * c + 1, taken')
                /\ IsLast(upstream, c, lastUsage)
                /\ Len(pending') <= MaxRead + 2
  <2>1. PICK c \in Nat :
          /\ 3 * c <= taken
          /\ pending = SubSeq(Wire(upstream), 3 * c + 1, taken)
          /\ IsLast(upstream, c, lastUsage)
          /\ taken < 3 * c + 3
    BY <1>1, <1>14 DEF ExInv, Reassembled, Streaming
  <2>2. 3 * c + 1 \in Nat /\ 3 * c + 1 >= 1 /\ 3 * c + 1 <= taken + 1
    BY <1>3, <2>1
  <2>3. pending' = SubSeq(Wire(upstream), 3 * c + 1, taken + n)
    BY <1>1, <1>3, <1>4, <1>5, <2>1, <2>2, ChunkIs DEF Chunk
  <2>4. 3 * c <= taken' /\ taken' < 3 * c + 3 + MaxRead /\ taken' \in Nat
        /\ taken' <= Len(Wire(upstream))
    BY <1>1, <1>3, <1>5, <2>1
  <2>5. Len(pending') = taken' - 3 * c
    BY <1>1, <1>4, <1>14, <2>3, <2>4, PendingIs
  <2>6. Len(pending') <= MaxRead + 2
    <3>1. \A a, b, t \in Nat : t < 3 * a + 3 + b => t - 3 * a <= b + 2
      OBVIOUS
    <3> QED BY <1>3, <2>4, <2>5, <3>1
  <2>7. pending' = SubSeq(Wire(upstream), 3 * c + 1, taken')
    BY <1>1, <2>3
  <2> QED BY <2>1, <2>4, <2>6, <2>7
<1>15. Reassembled'
  BY <1>1, <1>14 DEF Reassembled
<1>16. BufferBounded'
  <2> SUFFICES ASSUME ~upstream.crlf
               PROVE  Len(pending') <= MaxRead + FrameLen(upstream) - 1
    BY <1>1 DEF BufferBounded
  <2>1. FrameLen(upstream) = 3
    BY <1>4, FrameIs DEF Proper
  <2>2. Len(pending') <= MaxRead + 2 /\ Len(pending') \in Nat
    BY <1>9, <1>14
  <2> QED BY <1>3, <2>1, <2>2
<1>17. Whole'
  BY <1>1 DEF ExInv, Whole
<1> QED BY <1>10, <1>11, <1>12, <1>13, <1>15, <1>16, <1>17, Unlogged DEF ExInv

\* Cutting an event off goes on to the next frame of the stream.
LEMMA CutOk ==
  ASSUME ExInv, NEW i \in DOMAIN pending, Cut(i) PROVE ExInv'
<1> DEFINE e == SubSeq(pending, 1, i - 1)
<1>1. /\ pc = "scanning"
      /\ i \in Breaks(pending) /\ \A j \in Breaks(pending) : i <= j
      /\ lastUsage' = (IF Mentions(e) THEN e ELSE lastUsage)
      /\ pending' = SubSeq(pending, i + 2, Len(pending))
      /\ UNCHANGED <<request, pc, gone, upstream, taken, answer, event, match>>
  BY DEF Cut
<1>2. /\ TypeOK /\ pending \in Seq(Text) /\ lastUsage \in Seq(Text)
      /\ Len(pending) \in Nat /\ MaxRead \in Nat /\ taken \in Nat
  BY Types, SizeAssumption DEF ExInv, TypeOK
<1>3. i \in 1 .. Len(pending) - 1
  BY <1>1 DEF Breaks
<1>4. e \in Seq(Text)
  <2>1. \A k \in 1 .. i - 1 : pending[k] \in Text
    BY <1>2, <1>3
  <2>2. 1 \in Int /\ i - 1 \in Int
    BY <1>3
  <2> QED BY <2>1, <2>2, SubSeqProperties
<1>5. pending' \in Seq(Text) /\ Len(pending') \in Nat /\ Len(pending') <= Len(pending)
  <2>1. \A k \in i + 2 .. Len(pending) : pending[k] \in Text
    BY <1>2, <1>3
  <2>2. i + 2 \in Int /\ Len(pending) \in Int
    BY <1>2, <1>3
  <2>3. /\ SubSeq(pending, i + 2, Len(pending)) \in Seq(Text)
        /\ Len(SubSeq(pending, i + 2, Len(pending))) =
             IF i + 2 <= Len(pending) THEN Len(pending) - (i + 2) + 1 ELSE 0
    BY <2>1, <2>2, SubSeqProperties
  <2> QED BY <1>1, <1>2, <1>3, <2>3
<1>6. TypeOK'
  BY <1>1, <1>2, <1>4, <1>5 DEF TypeOK, Text
<1>7. event' = NoEvent
  BY <1>1 DEF ExInv, Flow
<1>8. Flow' /\ Copied' /\ Whole'
  BY <1>1 DEF ExInv, Flow, Copied, Whole, Streaming
<1>9. Proper(upstream)
  BY DEF ExInv, Flow
<1>10. ASSUME ~upstream.crlf
       PROVE  \E c \in Nat :
                /\ 3 * c <= taken /\ taken < 3 * c + 3 + MaxRead
                /\ pending' = SubSeq(Wire(upstream), 3 * c + 1, taken)
                /\ IsLast(upstream, c, lastUsage')
  <2>1. PICK c \in Nat :
          /\ 3 * c <= taken
          /\ pending = SubSeq(Wire(upstream), 3 * c + 1, taken)
          /\ IsLast(upstream, c, lastUsage)
          /\ taken < 3 * c + 3 + MaxRead
    BY <1>1, <1>10 DEF ExInv, Reassembled, Streaming
  <2>2. taken <= Len(Wire(upstream))
    BY <1>1 DEF ExInv, Copied, Streaming
  <2>3. /\ 1 \notin Breaks(pending)
        /\ taken < 3 * c + 3 => Breaks(pending) = {}
        /\ taken >= 3 * c + 3 =>
             /\ 2 \in Breaks(pending) /\ c + 1 <= Len(upstream.lines)
             /\ SubSeq(pending, 1, 1) = <<upstream.lines[c + 1]>>
             /\ SubSeq(pending, 4, Len(pending)) = SubSeq(Wire(upstream), 3 * (c + 1) + 1, taken)
    BY <1>2, <1>9, <1>10, <2>1, <2>2, PendingIs
  <2>4. taken >= 3 * c + 3
    <3>1. Breaks(pending) # {}
      BY <1>1
    <3>2. ~(taken < 3 * c + 3)
      BY <2>3, <3>1
    <3> QED BY <1>2, <2>1, <3>2
  <2>5. i = 2
    <3>1. i <= 2 /\ i # 1
      BY <1>1, <2>3, <2>4
    <3> QED BY <1>3, <3>1
  <2>6. e = <<upstream.lines[c + 1]>> /\ pending' = SubSeq(Wire(upstream), 3 * (c + 1) + 1, taken)
    <3>1. i - 1 = 1 /\ i + 2 = 4
      BY <2>5
    <3>2. e = SubSeq(pending, 1, 1) /\ pending' = SubSeq(pending, 4, Len(pending))
      BY <1>1, <3>1
    <3> QED BY <2>3, <2>4, <3>2
  <2>7. IsLast(upstream, c + 1, lastUsage')
    <3> HIDE DEF e
    <3> QED BY <1>1, <2>1, <2>6, LastNext
  <2>8. c + 1 \in Nat /\ 3 * (c + 1) <= taken /\ taken < 3 * (c + 1) + 3 + MaxRead
    BY <1>2, <2>1, <2>4
  <2> QED BY <2>6, <2>7, <2>8
<1>11. Reassembled'
  BY <1>1, <1>10 DEF Reassembled
<1>12. BufferBounded'
  <2> SUFFICES ASSUME ~upstream.crlf
               PROVE  Len(pending') <= MaxRead + FrameLen(upstream) - 1
    BY <1>1 DEF BufferBounded
  <2>1. FrameLen(upstream) = 3
    BY <1>9, FrameIs DEF Proper
  <2>2. Len(pending) <= MaxRead + FrameLen(upstream) - 1
    BY DEF ExInv, BufferBounded
  <2> QED BY <1>2, <1>5, <2>1, <2>2
<1> QED BY <1>6, <1>7, <1>8, <1>11, <1>12, Unlogged DEF ExInv

LEMMA NoneLeftOk == ASSUME ExInv, NoneLeft PROVE ExInv'
<1>1. /\ pc = "scanning" /\ Breaks(pending) = {} /\ pc' = "relaying"
      /\ UNCHANGED <<request, gone, upstream, taken, pending, lastUsage, answer, event, match>>
  BY DEF NoneLeft
<1>2. TypeOK'
  BY <1>1 DEF ExInv, TypeOK
<1>3. event' = NoEvent
  BY <1>1 DEF ExInv, Flow
<1>4. Flow' /\ Copied' /\ Whole'
  BY <1>1 DEF ExInv, Flow, Copied, Whole, Streaming
<1>5. ASSUME ~upstream.crlf
      PROVE  \E c \in Nat :
               /\ 3 * c <= taken /\ taken < 3 * c + 3
               /\ pending = SubSeq(Wire(upstream), 3 * c + 1, taken)
               /\ IsLast(upstream, c, lastUsage)
  <2>1. PICK c \in Nat :
          /\ 3 * c <= taken
          /\ pending = SubSeq(Wire(upstream), 3 * c + 1, taken)
          /\ IsLast(upstream, c, lastUsage)
    BY <1>1, <1>5 DEF ExInv, Reassembled, Streaming
  <2>2. taken <= Len(Wire(upstream)) /\ Proper(upstream) /\ taken \in Nat
    BY <1>1 DEF ExInv, Flow, Copied, Streaming, TypeOK
  <2>3. taken >= 3 * c + 3 => 2 \in Breaks(pending)
    BY <1>5, <2>1, <2>2, PendingIs
  <2>4. taken < 3 * c + 3
    BY <1>1, <2>2, <2>3
  <2> QED BY <2>1, <2>4
<1>6. Reassembled'
  BY <1>1, <1>5 DEF Reassembled
<1> QED BY <1>1, <1>2, <1>3, <1>4, <1>6, Unlogged, Bounded DEF ExInv

-----------------------------------------------------------------------------
(* Steps that emit the Event *)

LEMMA Finish ==
  ASSUME ExInv, pc # "done", pc' = "done", event' \in Logged, answer' \in Answers,
         UNCHANGED <<request, gone, upstream, taken, pending, lastUsage, match>>
  PROVE  /\ TypeOK' /\ Flow' /\ Copied' /\ Reassembled' /\ BufferBounded'
         /\ match' # "written"
<1>1. TypeOK
  BY DEF ExInv
<1>2. TypeOK'
  BY <1>1 DEF TypeOK, Answers, Logged
<1>3. Flow' /\ Copied' /\ Reassembled'
  BY DEF ExInv, Flow, Copied, Reassembled, Streaming
<1>4. match' # "written"
  BY DEF ExInv, Whole
<1> QED BY <1>2, <1>3, <1>4, Bounded DEF ExInv

LEMMA NoAnswerOk == ASSUME ExInv, Unreachable \/ Abandoned PROVE ExInv'
<1>1. TypeOK /\ answer \in Answers
  BY Types DEF ExInv
<1>2. /\ pc = "waiting"
      /\ UNCHANGED <<request, gone, upstream, taken, pending, lastUsage, match>>
      /\ pc' = "done" /\ event' \in Logged /\ event' # NoEvent
      /\ event'.partial => gone
      /\ answer' \in Answers /\ answer'.status \in {0, 502}
  <2>1. CASE Unreachable
    <3>1. EmitFailure(502, FALSE, "unreachable") /\ answer' = [answer EXCEPT !.status = 502]
          /\ pc = "waiting"
          /\ UNCHANGED <<request, gone, upstream, taken, pending, lastUsage, match>>
      BY <2>1 DEF Unreachable
    <3>2. answer' \in Answers /\ answer'.status = 502
      BY <1>1, <3>1, StatusIs
    <3>3. pc' = "done" /\ event' \in Logged /\ event' # NoEvent /\ event'.partial = FALSE
      BY <3>1, EmitFailureIs
    <3> QED BY <3>1, <3>2, <3>3
  <2>2. CASE Abandoned
    <3>1. EmitFailure(0, TRUE, "left") /\ pc = "waiting" /\ gone
          /\ UNCHANGED <<request, gone, upstream, taken, pending, lastUsage, answer, match>>
      BY <2>2 DEF Abandoned
    <3>2. answer.status = 0
      BY <3>1 DEF ExInv, Flow
    <3>3. pc' = "done" /\ event' \in Logged /\ event' # NoEvent
      BY <3>1, EmitFailureIs
    <3> QED BY <1>1, <3>1, <3>2, <3>3
  <2> QED BY <2>1, <2>2
<1>3. upstream' = Silence
  BY <1>2 DEF ExInv, Flow
<1>4. Settled'
  BY <1>2, <1>3 DEF Settled, BilledAsReported, CostWithinTwo, PartialIsTrue, Answered, Emitted
<1>5. /\ TypeOK' /\ Flow' /\ Copied' /\ Reassembled' /\ BufferBounded'
      /\ match' # "written"
  BY <1>2, Finish
<1>6. Whole'
  BY <1>2, <1>5 DEF Whole, Usable
<1> QED BY <1>4, <1>5, <1>6 DEF ExInv

LEMMA UseIs ==
  ASSUME NEW use \in Tokens
  PROVE  /\ NoUse \in Tokens /\ Relevant(use) \in Tokens
         /\ request.route # "embed" => Relevant(use) = use
  BY DEF NoUse, Tokens, Relevant

LEMMA CollectOk == ASSUME ExInv, Collect PROVE ExInv'
<1>1. /\ pc = "collecting"
      /\ answer' = [answer EXCEPT !.body = upstream.lines]
      /\ Emit(Relevant(ParseUsage(upstream.lines)), FALSE, "none")
      /\ UNCHANGED <<request, gone, upstream, taken, pending, lastUsage, match>>
  BY DEF Collect
<1>2. /\ TypeOK /\ answer \in Answers /\ ~request.stream /\ upstream # Silence
      /\ answer.status = upstream.status
      /\ Len(upstream.lines) = 1 /\ ~upstream.crlf /\ upstream.short = 0
      /\ upstream.lines \in Seq(Lines)
  BY <1>1, Types DEF ExInv, Flow, Proper
<1>3. upstream.lines \in Seq(Lines \cup {"nl", "cr", "error"})
  BY <1>2, SeqMonotonic
<1>4. answer' \in Answers /\ answer'.body = upstream.lines /\ answer'.status = upstream.status
  BY <1>1, <1>2, <1>3, BodyIs
<1>5. ParseUsage(upstream.lines) = Reported(upstream) /\ Reported(upstream) \in Tokens
  <2>1. Closed(upstream) = 1
    BY <1>2 DEF Closed
  <2>2. upstream.lines = <<upstream.lines[1]>>
    <3> DEFINE l == upstream.lines[1]
    <3>1. l \in Lines
      BY <1>2, ElementOfSeq
    <3>2. <<l>> \in Seq(Lines) /\ Len(<<l>>) = 1 /\ <<l>>[1] = l
      BY <3>1
    <3>3. \A k \in 1 .. 1 : k = 1
      OBVIOUS
    <3> QED BY <1>2, <3>2, <3>3, SeqEqual
  <2>3. DOMAIN Usage \subseteq Lines
    BY UsageAssumption
  <2>4. CASE upstream.lines[1] \in DOMAIN Usage
    <3>1. 1 \in Told(upstream, 1) /\ \A j \in Told(upstream, 1) : j <= 1
      BY <2>4 DEF Told
    <3>2. IsLast(upstream, 1, upstream.lines)
      BY <2>2, <3>1 DEF IsLast
    <3> QED BY <2>1, <3>2, LastIsReported
  <2>5. CASE upstream.lines[1] \notin DOMAIN Usage
    <3>1. Told(upstream, 1) = {}
      <4>1. \A k \in 1 .. 1 : k = 1
        OBVIOUS
      <4> QED BY <2>5, <4>1 DEF Told
    <3>2. IsLast(upstream, 1, <<>>)
      BY <3>1 DEF IsLast
    <3>3. ParseUsage(<<>>) = Reported(upstream) /\ Reported(upstream) \in Tokens
      BY <2>1, <3>2, LastIsReported
    <3>4. ParseUsage(<<>>) = NoUse
      BY DEF ParseUsage
    <3>5. ParseUsage(upstream.lines) = NoUse
      BY <2>5 DEF ParseUsage
    <3> QED BY <3>3, <3>4, <3>5
  <2> QED BY <2>4, <2>5
<1> DEFINE use == Relevant(Reported(upstream))
<1>6. use \in Tokens
  BY <1>5, UseIs
<1>7. /\ pc' = "done" /\ event' \in Logged /\ event' # NoEvent
      /\ event'.status = upstream.status /\ event'.partial = FALSE
      /\ event'.in = use.in /\ event'.out = use.out
      /\ CostWithinTwo'
  BY <1>1, <1>2, <1>5, <1>6, EmitIs
<1>8. BilledAsReported'
  BY <1>1, <1>7 DEF BilledAsReported, Relevant
<1>9. PartialIsTrue'
  BY <1>1, <1>2 DEF PartialIsTrue
<1>10. /\ TypeOK' /\ Flow' /\ Copied' /\ Reassembled' /\ BufferBounded'
       /\ match' # "written"
  BY <1>1, <1>4, <1>7, Finish
<1>11. Whole'
  BY <1>1, <1>4, <1>7, <1>10 DEF Whole, Usable
<1> QED BY <1>7, <1>8, <1>9, <1>10, <1>11 DEF ExInv, Settled

LEMMA CollectPartOk == ASSUME ExInv, CollectPart PROVE ExInv'
<1>1. /\ pc = "collecting"
      /\ answer' = [answer EXCEPT !.torn = upstream.sized]
      /\ Emit(NoUse, FALSE, "none")
      /\ UNCHANGED <<request, gone, upstream, taken, pending, lastUsage, match>>
  BY DEF CollectPart
<1>2. /\ TypeOK /\ answer \in Answers /\ ~request.stream /\ upstream # Silence
      /\ answer.body = <<>>
  BY <1>1, Types DEF ExInv, Flow, Streaming
<1>3. upstream.sized \in BOOLEAN
  BY <1>2 DEF TypeOK, Sent
<1>4. answer' \in Answers /\ answer'.body = <<>>
  BY <1>1, <1>2, <1>3, TornIs
<1>5. NoUse \in Tokens
  BY DEF NoUse, Tokens
<1>6. pc' = "done" /\ event' \in Logged /\ CostWithinTwo'
  BY <1>1, <1>2, <1>5, EmitIs
<1>7. BilledAsReported' /\ PartialIsTrue'
  BY <1>1, <1>2, <1>4 DEF BilledAsReported, PartialIsTrue
<1>8. /\ TypeOK' /\ Flow' /\ Copied' /\ Reassembled' /\ BufferBounded'
      /\ match' # "written"
  BY <1>1, <1>4, <1>6, Finish
<1>9. ~Usable(answer')
  BY <1>4, EmptySeq DEF Usable
<1>10. Whole'
  BY <1>8, <1>9 DEF Whole
<1> QED BY <1>6, <1>7, <1>8, <1>10 DEF ExInv, Settled

\* A stream that does not come to its end.
LEMMA StreamCutOk ==
  ASSUME ExInv, pc = "relaying", NEW error \in {"none", "interrupted"},
         gone \/ error = "interrupted", Emit(NoUse, TRUE, error), answer' \in Answers,
         UNCHANGED <<request, gone, upstream, taken, pending, lastUsage, match>>
  PROVE  ExInv'
<1>1. TypeOK /\ request.stream /\ upstream # Silence
  BY DEF ExInv, Flow, Streaming
<1>2. NoUse \in Tokens
  BY DEF NoUse, Tokens
<1>3. /\ pc' = "done" /\ event' \in Logged /\ CostWithinTwo'
      /\ event'.partial = TRUE /\ event'.error = error
  BY <1>1, <1>2, EmitIs
<1>4. BilledAsReported' /\ PartialIsTrue'
  BY <1>3 DEF BilledAsReported, PartialIsTrue
<1>5. /\ TypeOK' /\ Flow' /\ Copied' /\ Reassembled' /\ BufferBounded'
      /\ match' # "written"
  BY <1>3, Finish
<1>6. Whole'
  BY <1>1, <1>5 DEF Whole
<1> QED BY <1>3, <1>4, <1>5, <1>6 DEF ExInv, Settled

\* A stream that does: all of its events are cut off, and it was sent on whole.
LEMMA StreamEndsOk == ASSUME ExInv, StreamEnds PROVE ExInv'
<1>1. /\ pc = "relaying" /\ Len(Wire(upstream)) - taken = 0
      /\ Emit(ParseUsage(lastUsage), FALSE, "none")
      /\ UNCHANGED <<request, gone, upstream, taken, pending, lastUsage, answer, match>>
  BY DEF StreamEnds, Rest
<1>2. /\ TypeOK /\ answer \in Answers /\ request.stream /\ upstream # Silence
      /\ Proper(upstream) /\ taken \in Nat /\ request.route # "embed"
  BY <1>1, Types DEF ExInv, Flow, Streaming, TypeOK
<1>3. taken = Len(Wire(upstream)) /\ Wire(upstream) \in Seq(Text)
  BY <1>1, <1>2, WireIs
<1>4. answer.body = Wire(upstream)
  <2>1. answer.body = SubSeq(Wire(upstream), 1, Len(Wire(upstream)))
    BY <1>1, <1>3 DEF ExInv, Copied, Streaming
  <2> QED BY <1>3, <2>1, SubSeqFull
<1>5. ParseUsage(lastUsage) \in Tokens
  BY UsageAssumption DEF ParseUsage, NoUse, Tokens
<1>6. ASSUME ~upstream.crlf
      PROVE  ParseUsage(lastUsage) = Relevant(Reported(upstream))
  <2>1. PICK c \in Nat :
          /\ 3 * c <= taken /\ taken < 3 * c + 3
          /\ IsLast(upstream, c, lastUsage)
    BY <1>1, <1>6 DEF ExInv, Reassembled, Streaming
  <2> DEFINE n == Len(upstream.lines)
  <2>2. /\ n \in Nat /\ upstream.short \in 0 .. 2 /\ (n = 0 => upstream.short = 0)
        /\ taken = 3 * n - upstream.short
    BY <1>2, <1>3, <1>6, WireIs
  <2>3. Closed(upstream) = IF upstream.short = 0 THEN n ELSE n - 1
    BY DEF Closed
  <2> HIDE DEF n
  <2>4. c = Closed(upstream)
    BY <2>1, <2>2, <2>3
  <2>5. ParseUsage(lastUsage) = Reported(upstream) /\ Reported(upstream) \in Tokens
    BY <2>1, <2>4, LastIsReported
  <2> QED BY <1>2, <2>5, UseIs
<1>7. /\ pc' = "done" /\ event' \in Logged /\ event'.partial = FALSE
      /\ event'.in = ParseUsage(lastUsage).in /\ event'.out = ParseUsage(lastUsage).out
      /\ CostWithinTwo'
  BY <1>1, <1>2, <1>5, EmitIs
<1>8. BilledAsReported'
  BY <1>1, <1>6, <1>7 DEF BilledAsReported, Relevant
<1>9. PartialIsTrue'
  BY <1>1, <1>4, <1>7 DEF PartialIsTrue
<1>10. /\ TypeOK' /\ Flow' /\ Copied' /\ Reassembled' /\ BufferBounded'
       /\ match' # "written"
  BY <1>1, <1>2, <1>7, Finish
<1>11. Whole'
  BY <1>1, <1>2, <1>10 DEF Whole
<1> QED BY <1>7, <1>8, <1>9, <1>10, <1>11 DEF ExInv, Settled

LEMMA CliOk == ASSUME ExInv, CliWrites \/ CliFails PROVE ExInv'
<1>1. /\ pc = "done" /\ IsCli /\ match' \in {"written", "failed"}
      /\ match' = "written" => Usable(answer)
      /\ UNCHANGED <<request, pc, gone, upstream, taken, pending, lastUsage, answer, event>>
  BY DEF CliWrites, CliFails
<1>2. TypeOK'
  BY <1>1 DEF ExInv, TypeOK
<1>3. Flow' /\ Copied' /\ Reassembled'
  BY <1>1 DEF ExInv, Flow, Copied, Reassembled, Streaming
<1>4. Whole'
  BY <1>1 DEF ExInv, Whole, IsCli
<1>5. Settled'
  BY <1>1 DEF ExInv, Settled, BilledAsReported, CostWithinTwo, PartialIsTrue, Answered, Emitted, Relevant
<1> QED BY <1>1, <1>2, <1>3, <1>4, <1>5, Bounded DEF ExInv

LEMMA NextOk == ExInv /\ [Next]_vars => ExInv'
<1> SUFFICES ASSUME ExInv, [Next]_vars PROVE ExInv'
  OBVIOUS
<1>1. CASE Own
  BY <1>1, BadBodyOk, ForwardOk, NoneLeftOk, CutOk DEF Own
<1>2. CASE ClientLeaves \/ Unreachable \/ Abandoned \/ Collect \/ CollectPart
  BY <1>2, ClientLeavesOk, NoAnswerOk, CollectOk, CollectPartOk
<1>3. ASSUME NEW u \in Streams(request) \cup Documents, Headers(u) PROVE ExInv'
  BY <1>3, HeadersOk
<1>4. ASSUME NEW n \in 1 .. MaxRead, Relay(n) PROVE ExInv'
  BY <1>4, RelayOk
<1>5. CASE WriteFails \/ Cancelled
  <2>1. /\ pc = "relaying" /\ gone /\ Emit(NoUse, TRUE, "none")
        /\ UNCHANGED <<request, gone, upstream, taken, pending, lastUsage, answer, match>>
    BY <1>5 DEF WriteFails, Cancelled
  <2>2. answer' \in Answers
    BY <2>1, Types DEF ExInv
  <2> QED BY <2>1, <2>2, StreamCutOk
<1>6. CASE Interrupted
  <2>1. /\ pc = "relaying" /\ answer' = [answer EXCEPT !.body = Append(answer.body, "error")]
        /\ Emit(NoUse, TRUE, "interrupted")
        /\ UNCHANGED <<request, gone, upstream, taken, pending, lastUsage, match>>
    BY <1>6 DEF Interrupted
  <2>2. answer \in Answers
    BY Types DEF ExInv
  <2>3. Append(answer.body, "error") \in Seq(Lines \cup {"nl", "cr", "error"})
    BY <2>2, AppendProperties DEF Answers
  <2>4. answer' \in Answers
    BY <2>1, <2>2, <2>3, BodyIs
  <2> QED BY <2>1, <2>4, StreamCutOk
<1>7. CASE StreamEnds
  BY <1>7, StreamEndsOk
<1>8. CASE CliWrites \/ CliFails
  BY <1>8, CliOk
<1>9. CASE UNCHANGED vars
  <2>1. UNCHANGED <<request, pc, gone, upstream, taken, pending, lastUsage, answer, event, match>>
    BY <1>9 DEF vars
  <2>2. TypeOK' /\ Flow' /\ Copied' /\ Reassembled' /\ Whole'
    BY <2>1 DEF ExInv, TypeOK, Flow, Copied, Reassembled, Whole, Streaming
  <2>3. Settled'
    BY <2>1 DEF ExInv, Settled, BilledAsReported, CostWithinTwo, PartialIsTrue, Answered, Emitted, Relevant
  <2> QED BY <2>1, <2>2, <2>3, Bounded DEF ExInv
<1> QED BY <1>1, <1>2, <1>3, <1>4, <1>5, <1>6, <1>7, <1>8, <1>9 DEF Next

LEMMA Always == Spec => []ExInv
  BY InitOk, NextOk, PTL DEF Spec

-----------------------------------------------------------------------------
(* The exchange implements Passage, step by step. *)

Source == IF request.stream THEN Wire(upstream) ELSE upstream.lines
Bill   == IF event = NoEvent THEN 0 ELSE event.cost

\* Passage's steps, in the terms of the exchange.
LEMMA InTermsOfExchange ==
  /\ Promise!Init <=> Source = <<>> /\ answer.body = <<>> /\ Ending = "open" /\ Bill = 0
  /\ Promise!Answered <=> /\ Ending = "open" /\ Source = <<>> /\ answer.body = <<>>
                          /\ Source' \in Seq(Lines \cup {"nl", "cr"})
                          /\ answer.body' = answer.body /\ Ending' = Ending /\ Bill' = Bill
  /\ Promise!Pass <=> /\ Ending = "open"
                      /\ \E n \in Len(answer.body) .. Len(Source) :
                           answer.body' = SubSeq(Source, 1, n)
                      /\ Source' = Source /\ Ending' = Ending /\ Bill' = Bill
  /\ Promise!Complete <=> /\ Ending = "open" /\ Ending' = "whole"
                          /\ answer.body = Source /\ Bill' \in Nat
                          /\ Source' = Source /\ answer.body' = answer.body
  /\ Promise!Break <=> /\ Ending = "open" /\ Ending' = "cut"
                       /\ answer.body' \in {answer.body, Append(answer.body, "error")}
                       /\ Source' = Source /\ Bill' = Bill
  /\ Promise!HandOver <=> /\ Ending = "open" /\ Ending' = "document"
                          /\ answer.body = <<>>
                          /\ \/ answer.body' = Source /\ Bill' \in Nat
                             \/ answer.body' = answer.body /\ Bill' = Bill
                          /\ Source' = Source
  /\ Promise!Fail <=> /\ Ending = "open" /\ Ending' \in {"refused", "failed"}
                      /\ Source = <<>> /\ answer.body = <<>>
                      /\ Source' = Source /\ answer.body' = answer.body /\ Bill' = Bill
  /\ UNCHANGED Promise!vars <=> /\ Source' = Source /\ answer.body' = answer.body
                                /\ Ending' = Ending /\ Bill' = Bill
  BY DEF Promise!Init, Promise!Answered, Promise!Pass, Promise!Complete, Promise!Break,
         Promise!HandOver, Promise!Fail, Promise!vars, Source, Bill

LEMMA SilentSource == ASSUME upstream = Silence, ExInv PROVE Source = <<>>
<1>1. Proper(upstream) /\ upstream.lines = <<>> /\ upstream.short = 0
  BY DEF ExInv, Flow, Silence
<1>2. Len(upstream.lines) = 0
  BY <1>1
<1>3. /\ Wire(upstream) \in Seq(Text)
      /\ Len(Wire(upstream)) = Len(upstream.lines) * FrameLen(upstream) - upstream.short
  BY <1>1, WireIs
<1>4. FrameLen(upstream) \in Nat
  BY <1>1, FrameIs DEF Proper
<1>5. Len(Wire(upstream)) = 0
  BY <1>1, <1>2, <1>3, <1>4
<1>6. Wire(upstream) = <<>>
  BY <1>3, <1>5, EmptySeq
<1> QED BY <1>1, <1>6 DEF Source

\* Before the end there is no Event and no bill; the end is what the Event says.
LEMMA Open ==
  ASSUME ExInv, pc # "done"
  PROVE  Ending = "open" /\ Bill = 0
  BY DEF ExInv, Flow, Ending, Bill

\* A step that leaves the body, the answer and the Event alone.
LEMMA Stutters ==
  ASSUME UNCHANGED <<request, upstream, answer, event>>, (pc = "done") <=> (pc' = "done")
  PROVE  UNCHANGED Promise!vars
<1>1. Source' = Source /\ Bill' = Bill
  BY DEF Source, Bill
<1>2. Ending' = Ending
  BY DEF Ending
<1> QED BY <1>1, <1>2, InTermsOfExchange

\* What is not known to be used is not charged.
LEMMA NothingBilled ==
  ASSUME NEW partial, NEW error, Emit(NoUse, partial, error)
  PROVE  event'.cost = 0
<1>1. ASSUME Priced(request.model) PROVE Cost(request.model, NoUse) = 0
  <2>1. Prices[request.model].in \in Nat /\ Prices[request.model].out \in Nat
    BY <1>1, PricesAssumption DEF Priced, Tokens
  <2>2. \A p \in Nat : (0 * p) \div 1000000 = 0
    OBVIOUS
  <2> QED BY <2>1, <2>2 DEF Cost, NoUse, Million
<1> QED BY <1>1 DEF Emit

LEMMA EndingIs ==
  ASSUME pc' = "done", event' # NoEvent
  PROVE  /\ upstream' = Silence => Ending' = "failed"
         /\ upstream' # Silence /\ ~request'.stream => Ending' = "document"
         /\ upstream' # Silence /\ request'.stream =>
              Ending' = IF event'.partial THEN "cut" ELSE "whole"
  BY DEF Ending

LEMMA FailMaps ==
  ASSUME ExInv, BadBody \/ Unreachable \/ Abandoned
  PROVE  Promise!Fail
<1>1. /\ pc \in {"decoding", "waiting"}
      /\ UNCHANGED <<request, upstream>> /\ pc' = "done"
  BY DEF BadBody, Unreachable, Abandoned, EmitFailure
<1>2. upstream = Silence /\ answer.body = <<>> /\ answer \in Answers /\ event = NoEvent
  BY <1>1, Types DEF ExInv, Flow, Streaming
<1>3. answer.body' = answer.body
  <2>1. UNCHANGED answer \/ \E s \in {400, 502} : answer' = [answer EXCEPT !.status = s]
    BY DEF BadBody, Unreachable, Abandoned
  <2> QED BY <1>2, <2>1, StatusIs
<1>4. Ending' \in {"refused", "failed"} /\ Bill' = 0
  <2>1. CASE BadBody
    BY <1>1, <1>2, <2>1 DEF BadBody, Ending, Bill
  <2>2. CASE Unreachable \/ Abandoned
    <3>1. event' # NoEvent
      BY <2>2, EmitFailureIs DEF Unreachable, Abandoned
    <3>2. event'.cost = 0
      BY <2>2 DEF Unreachable, Abandoned, EmitFailure
    <3> QED BY <1>1, <1>2, <3>1, <3>2, EndingIs DEF Bill
  <2> QED BY <2>1, <2>2
<1>5. Source = <<>> /\ Source' = Source
  BY <1>1, <1>2, SilentSource DEF Source
<1>6. Ending = "open" /\ Bill = 0
  BY <1>1, Open
<1> QED BY <1>2, <1>3, <1>4, <1>5, <1>6, InTermsOfExchange

LEMMA HeadersMap ==
  ASSUME ExInv, ExInv', NEW u, Headers(u)
  PROVE  Promise!Answered
<1>1. /\ pc = "waiting" /\ pc' # "done" /\ upstream' = u
      /\ answer' = [answer EXCEPT !.status = u.status]
      /\ UNCHANGED <<request, event>>
      /\ u \in Streams(request) \cup Documents
  BY DEF Headers
<1>2. upstream = Silence /\ answer.body = <<>> /\ answer \in Answers
  BY <1>1, Types DEF ExInv, Flow, Streaming
<1>3. answer.body' = answer.body
  BY <1>1, <1>2 DEF Answers
<1>4. Source' \in Seq(Lines \cup {"nl", "cr"})
  <2>1. Proper(u)
    BY <1>1 DEF ExInv, Flow
  <2>2. Wire(u) \in Seq(Lines \cup {"nl", "cr"})
    BY <2>1, WireIs DEF Text
  <2>3. u.lines \in Seq(Lines \cup {"nl", "cr"})
    BY <2>1, SeqMonotonic DEF Proper
  <2> QED BY <1>1, <2>2, <2>3 DEF Source
<1>5. /\ Ending = "open" /\ Bill = 0 /\ Ending' = "open" /\ Bill' = 0
  <2>1. Ending = "open" /\ Bill = 0
    BY <1>1, Open
  <2> QED BY <1>1, <2>1 DEF Ending, Bill
<1> QED BY <1>2, <1>3, <1>4, <1>5, SilentSource, InTermsOfExchange

LEMMA RelayMaps ==
  ASSUME ExInv, ExInv', NEW n \in 1 .. MaxRead, Relay(n)
  PROVE  Promise!Pass
<1>1. /\ pc = "relaying" /\ pc' = "scanning" /\ taken' = taken + n
      /\ UNCHANGED <<request, upstream, event>>
  BY DEF Relay
<1>2. /\ request.stream /\ Proper(upstream) /\ taken \in Nat /\ taken + n \in Nat
      /\ taken + n <= Len(Wire(upstream))
      /\ answer.body = SubSeq(Wire(upstream), 1, taken)
      /\ answer.body' = SubSeq(Wire(upstream), 1, taken + n)
  BY <1>1, SizeAssumption DEF ExInv, Flow, Copied, Streaming, TypeOK
<1>3. Wire(upstream) \in Seq(Text) /\ Len(Wire(upstream)) \in Nat
  BY <1>2, WireIs
<1>4. Len(answer.body) = taken
  <2>1. \A i \in 1 .. taken : Wire(upstream)[i] \in Text
    BY <1>2, <1>3
  <2>2. Len(SubSeq(Wire(upstream), 1, taken)) = IF 1 <= taken THEN taken - 1 + 1 ELSE 0
    BY <1>2, <2>1, SubSeqProperties
  <2> QED BY <1>2, <2>2
<1>5. taken + n \in Len(answer.body) .. Len(Wire(upstream))
  BY <1>2, <1>3, <1>4
<1>6. Source = Wire(upstream) /\ Source' = Source /\ Bill' = Bill
  BY <1>1, <1>2 DEF Source, Bill
<1>7. Ending = "open" /\ Ending' = "open"
  BY <1>1, Open DEF Ending
<1> QED BY <1>2, <1>5, <1>6, <1>7, InTermsOfExchange

LEMMA EndsMap ==
  ASSUME ExInv, ExInv', StreamEnds
  PROVE  Promise!Complete
<1>1. /\ pc = "relaying" /\ UNCHANGED <<request, upstream, answer>>
      /\ Emit(ParseUsage(lastUsage), FALSE, "none")
  BY DEF StreamEnds
<1>2. TypeOK /\ upstream # Silence /\ request.stream
  BY <1>1 DEF ExInv, Flow, Streaming
<1>3. ParseUsage(lastUsage) \in Tokens
  BY UsageAssumption DEF ParseUsage, NoUse, Tokens
<1>4. pc' = "done" /\ event' \in Logged /\ event' # NoEvent /\ event'.partial = FALSE
  BY <1>1, <1>2, <1>3, EmitIs
<1>5. answer.body = Wire(upstream)
  BY <1>1, <1>2, <1>4 DEF ExInv, Settled, PartialIsTrue, Answered, Emitted
<1>6. Ending' = "whole" /\ Bill' \in Nat
  BY <1>1, <1>2, <1>4, EndingIs DEF Bill, Logged
<1>7. Source = Wire(upstream) /\ Source' = Source /\ Ending = "open"
  BY <1>1, <1>2, Open DEF Source
<1> QED BY <1>1, <1>5, <1>6, <1>7, InTermsOfExchange

LEMMA BreakMaps ==
  ASSUME ExInv, WriteFails \/ Interrupted \/ Cancelled
  PROVE  Promise!Break
<1>1. /\ pc = "relaying" /\ UNCHANGED <<request, upstream>>
      /\ \E e \in {"none", "interrupted"} : Emit(NoUse, TRUE, e)
  BY DEF WriteFails, Interrupted, Cancelled
<1>2. TypeOK /\ upstream # Silence /\ request.stream /\ answer \in Answers
  BY <1>1, Types DEF ExInv, Flow, Streaming
<1>3. NoUse \in Tokens
  BY DEF NoUse, Tokens
<1>4. /\ pc' = "done" /\ event' # NoEvent /\ event'.partial = TRUE /\ event'.cost = 0
  BY <1>1, <1>2, <1>3, EmitIs, NothingBilled
<1>5. answer.body' \in {answer.body, Append(answer.body, "error")}
  <2>1. \/ UNCHANGED answer
        \/ answer' = [answer EXCEPT !.body = Append(answer.body, "error")]
    BY DEF WriteFails, Interrupted, Cancelled
  <2> QED BY <1>2, <2>1 DEF Answers
<1>6. Ending' = "cut" /\ Bill' = 0
  BY <1>1, <1>2, <1>4, EndingIs DEF Bill
<1>7. Source' = Source /\ Ending = "open" /\ Bill = 0
  BY <1>1, Open DEF Source
<1> QED BY <1>5, <1>6, <1>7, InTermsOfExchange

LEMMA CollectMaps ==
  ASSUME ExInv, Collect \/ CollectPart
  PROVE  Promise!HandOver
<1>1. /\ pc = "collecting" /\ UNCHANGED <<request, upstream>>
  BY DEF Collect, CollectPart
<1>2. /\ TypeOK /\ upstream # Silence /\ ~request.stream /\ answer \in Answers
      /\ answer.body = <<>>
  BY <1>1, Types DEF ExInv, Flow, Streaming
<1>3. Source = upstream.lines /\ Source' = Source /\ Ending = "open" /\ Bill = 0
  BY <1>1, <1>2, Open DEF Source
<1>4. CASE Collect
  <2>1. Emit(Relevant(ParseUsage(upstream.lines)), FALSE, "none")
        /\ answer' = [answer EXCEPT !.body = upstream.lines]
    BY <1>4 DEF Collect
  <2>2. ParseUsage(upstream.lines) \in Tokens
    BY UsageAssumption DEF ParseUsage, NoUse, Tokens
  <2>3. Relevant(ParseUsage(upstream.lines)) \in Tokens
    BY <2>2, UseIs
  <2>4. pc' = "done" /\ event' \in Logged /\ event' # NoEvent
    BY <1>1, <1>2, <2>1, <2>3, EmitIs
  <2>5. Ending' = "document" /\ Bill' \in Nat
    BY <1>1, <1>2, <2>4, EndingIs DEF Bill, Logged
  <2>6. answer.body' = Source
    BY <1>2, <1>3, <2>1 DEF Answers
  <2> QED BY <1>2, <1>3, <2>5, <2>6, InTermsOfExchange
<1>5. CASE CollectPart
  <2>1. Emit(NoUse, FALSE, "none") /\ answer' = [answer EXCEPT !.torn = upstream.sized]
    BY <1>5 DEF CollectPart
  <2>2. NoUse \in Tokens
    BY DEF NoUse, Tokens
  <2>3. pc' = "done" /\ event' # NoEvent /\ event'.cost = 0
    BY <1>1, <1>2, <2>1, <2>2, EmitIs, NothingBilled
  <2>4. Ending' = "document" /\ Bill' = 0
    BY <1>1, <1>2, <2>3, EndingIs DEF Bill
  <2>5. answer.body' = answer.body
    BY <1>2, <2>1 DEF Answers
  <2> QED BY <1>2, <1>3, <2>4, <2>5, InTermsOfExchange
<1> QED BY <1>4, <1>5

LEMMA InitMaps == Init => Promise!Init
<1> SUFFICES ASSUME Init PROVE Promise!Init
  OBVIOUS
<1>1. upstream = Silence /\ answer.body = <<>> /\ event = NoEvent /\ pc = "decoding"
  BY DEF Init, NoAnswer
<1>2. Ending = "open" /\ Bill = 0
  BY <1>1 DEF Ending, Bill
<1> QED BY <1>1, <1>2, InitOk, SilentSource, InTermsOfExchange

LEMMA StepMaps == ExInv /\ ExInv' /\ [Next]_vars => [Promise!Next]_Promise!vars
<1> SUFFICES ASSUME ExInv, ExInv', [Next]_vars
             PROVE  Promise!Next \/ UNCHANGED Promise!vars
  OBVIOUS
<1>1. CASE BadBody \/ Unreachable \/ Abandoned
  BY <1>1, FailMaps DEF Promise!Next
<1>2. CASE \/ Forward \/ NoneLeft \/ ClientLeaves \/ CliWrites \/ CliFails
           \/ \E i \in DOMAIN pending : Cut(i)
  <2>1. /\ UNCHANGED <<request, upstream, answer, event>>
        /\ (pc = "done") <=> (pc' = "done")
    BY <1>2 DEF Forward, NoneLeft, ClientLeaves, CliWrites, CliFails, Cut
  <2> QED BY <2>1, Stutters
<1>3. ASSUME NEW u \in Streams(request) \cup Documents, Headers(u) PROVE Promise!Next
  BY <1>3, HeadersMap DEF Promise!Next
<1>4. ASSUME NEW n \in 1 .. MaxRead, Relay(n) PROVE Promise!Next
  BY <1>4, RelayMaps DEF Promise!Next
<1>5. CASE WriteFails \/ Interrupted \/ Cancelled
  BY <1>5, BreakMaps DEF Promise!Next
<1>6. CASE StreamEnds
  BY <1>6, EndsMap DEF Promise!Next
<1>7. CASE Collect \/ CollectPart
  BY <1>7, CollectMaps DEF Promise!Next
<1>8. CASE UNCHANGED vars
  <2>1. /\ UNCHANGED <<request, upstream, answer, event>>
        /\ (pc = "done") <=> (pc' = "done")
    BY <1>8 DEF vars
  <2> QED BY <2>1, Stutters
<1> QED BY <1>1, <1>2, <1>3, <1>4, <1>5, <1>6, <1>7, <1>8 DEF Next, Own

-----------------------------------------------------------------------------
(* Theorems *)

\* Every variable of an exchange keeps its type.
THEOREM TypeCorrect == Spec => []TypeOK
<1>1. ExInv => TypeOK
  BY DEF ExInv
<1> QED BY <1>1, Always, PTL

\* However a stream is split over reads, what is logged and charged is the usage of
\* its last complete event that mentions any.
THEOREM BillsAsReported == Spec => []BilledAsReported
<1>1. ExInv => BilledAsReported
  BY DEF ExInv, Settled
<1> QED BY <1>1, Always, PTL

\* The two roundings of calcCost lose less than two micro-USD, for any price list.
THEOREM CostsWithinTwo == Spec => []CostWithinTwo
<1>1. ExInv => CostWithinTwo
  BY DEF ExInv, Settled
<1> QED BY <1>1, Always, PTL

\* partial tells whether the client was sent all of the stream.
THEOREM PartialTellsTrue == Spec => []PartialIsTrue
<1>1. ExInv => PartialIsTrue
  BY DEF ExInv, Settled
<1> QED BY <1>1, Always, PTL

\* streamBody's memory is one read and one unfinished event, for any stream.
THEOREM StaysBounded == Spec => []BufferBounded
<1>1. ExInv => BufferBounded
  BY DEF ExInv
<1> QED BY <1>1, Always, PTL

\* No match.md is written from half an answer.
THEOREM WritesWhole == Spec => []NoHalfMatch
<1>1. ExInv => NoHalfMatch
  BY DEF ExInv, Whole, NoHalfMatch
<1> QED BY <1>1, Always, PTL

\* However the body is split, the exchange implements Passage: a growing beginning
\* of the upstream's body for the client, then one Event that is true of it.
THEOREM ImplementsPassage == Spec => KeepsPromise
  BY InitMaps, StepMaps, Always, PTL DEF Spec, KeepsPromise, Promise!Spec
=============================================================================
