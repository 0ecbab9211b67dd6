------------------------ MODULE RouterSessionProofs ------------------------
(***************************************************************************)
(* RouterSession implements SessionChannel, the sender forgets only what was  *)
(* delivered, and a session that lost nothing is never torn down, for every   *)
(* window, every number of transmissions and every radio.                     *)
(***************************************************************************)
EXTENDS RouterSession, SequenceTheorems, TLAPS

Segment == [lo : Nat, hi : Nat, tries : 1 .. MaxTries, timer : BOOLEAN, piggy : Nat]

\* The segments S carry the messages 1 .. a: each some, in order, without a gap.
Chain(S, a) ==
    /\ \A s \in 1 .. Len(S) : S[s].lo < S[s].hi /\ S[s].hi <= a
    /\ \A s \in 2 .. Len(S) : S[s].lo = S[s - 1].hi
    /\ \A s, t \in 1 .. Len(S) : s < t => S[s].hi <= S[t].lo
    /\ Len(S) > 0 => S[1].lo = 0 /\ S[Len(S)].hi = a
    /\ Len(S) = 0 => a = 0

ChainInv == \A d \in Dir : backlog[d] <= accepted[d] /\ Chain(segs[d], FirstWaiting(d))

WindowInv == \A d \in Dir : una[d] <= expected[d] /\ expected[d] <= Len(segs[d]) + 1

\* What is delivered is what the segments before the expected one carry.
AppInv == \A d \in Dir :
    Len(app[d]) = IF expected[d] = 1 THEN 0 ELSE segs[d][expected[d] - 1].hi

\* A frame of this session is a copy of its segment.
Copy(f, d) ==
    /\ f.seq <= Len(segs[d])
    /\ f.lo = segs[d][f.seq].lo /\ f.hi = segs[d][f.seq].hi
AirInv == \A f \in air : f.epoch <= epoch /\ (f.epoch = epoch => Copy(f, f.dir))
OooInv == \A d \in Dir : \A o \in ooo[d] : Copy(o, d)

\* No ack of this session, alone or on a segment, is ahead of the receiver.
AckInv == \A f \in acks : f.epoch <= epoch /\ (f.epoch = epoch => f.ack <= expected[f.dir])
PiggyInv == \A d \in Dir : \A s \in 1 .. Len(segs[d]) : segs[d][s].piggy <= expected[Rev(d)]

IInv ==
    /\ TypeOK /\ BacklogWaits /\ ChainInv /\ WindowInv /\ AppInv
    /\ AirInv /\ OooInv /\ AckInv /\ PiggyInv

----------------------------------------------------------------------------
LEMMA RevDir == \A d \in Dir : Rev(d) \in Dir /\ Rev(d) # d /\ Rev(Rev(d)) = d
BY DEF Dir, Rev

LEMMA Joined ==
    ASSUME NEW X, NEW S \in Seq(X), NEW T \in Seq(X)
    PROVE  S \o T \in Seq(X) /\ Len(S \o T) = Len(S) + Len(T)
BY ConcatProperties

\* Segments added to a chain that carry on where it ends make a longer chain.
LEMMA Extend ==
    ASSUME NEW S, NEW T, NEW k \in Nat, NEW n \in Nat, NEW a \in Nat, NEW m \in [1 .. n -> Nat],
           Len(S) = k, Len(T) = k + n, Chain(S, a),
           \A s \in 1 .. k : S[s].lo \in Nat /\ S[s].hi \in Nat,
           \A s \in 1 .. k : T[s] = S[s],
           \A i \in 1 .. n : a < m[i],
           \A i, j \in 1 .. n : i < j => m[i] < m[j],
           \A i \in 1 .. n : T[k + i].hi = m[i],
           \A i \in 1 .. n : T[k + i].lo = IF i = 1 THEN a ELSE m[i - 1]
    PROVE  Chain(T, IF n = 0 THEN a ELSE m[n])
<1> DEFINE b == IF n = 0 THEN a ELSE m[n]
<1> DEFINE lo(s) == T[s].lo
<1> DEFINE hi(s) == T[s].hi
<1>1. \A s \in 1 .. k :
         /\ lo(s) \in Nat /\ hi(s) \in Nat /\ lo(s) < hi(s) /\ hi(s) <= a
         /\ \A t \in 1 .. k : s < t => hi(s) <= lo(t)
  BY DEF Chain
<1>2. \A s \in 2 .. k : lo(s) = hi(s - 1)
  BY DEF Chain
<1>3. k > 0 => lo(1) = 0 /\ hi(k) = a
  BY DEF Chain
<1>4. k = 0 => a = 0
  BY DEF Chain
<1>5. \A s \in k + 1 .. k + n :
         /\ s - k \in 1 .. n /\ hi(s) = m[s - k]
         /\ lo(s) = IF s = k + 1 THEN a ELSE m[(s - k) - 1]
  <2> TAKE s \in k + 1 .. k + n
  <2>1. s - k \in 1 .. n /\ k + (s - k) = s /\ (s - k = 1 <=> s = k + 1)
    OBVIOUS
  <2> QED BY <2>1
<1> HIDE DEF lo, hi
<1>6. b \in Nat /\ a <= b /\ \A i \in 1 .. n : m[i] <= b
  <2>1. \A i \in 1 .. n : m[i] \in Nat /\ n \in 1 .. n
    OBVIOUS
  <2>2. \A i \in 1 .. n : i < n => m[i] < m[n]
    BY <2>1
  <2> QED BY <2>1, <2>2
<1>7. \A s \in 1 .. k + n : lo(s) < hi(s) /\ hi(s) <= b
  <2> TAKE s \in 1 .. k + n
  <2>1. CASE s <= k
    BY <2>1, <1>1, <1>6
  <2>2. CASE s = k + 1
    BY <2>2, <1>5, <1>6
  <2>3. CASE s > k + 1
    <3>1. s - k \in 1 .. n /\ (s - k) - 1 \in 1 .. n /\ (s - k) - 1 < s - k
      BY <2>3
    <3>2. m[(s - k) - 1] < m[s - k]
      BY <3>1
    <3> QED BY <3>1, <3>2, <2>3, <1>5, <1>6
  <2> QED BY <2>1, <2>2, <2>3
<1>8. \A s \in 2 .. k + n : lo(s) = hi(s - 1)
  <2> TAKE s \in 2 .. k + n
  <2>1. CASE s <= k
    BY <2>1, <1>2
  <2>2. CASE s = k + 1
    BY <2>2, <1>3, <1>5
  <2>3. CASE s > k + 1
    BY <2>3, <1>5
  <2> QED BY <2>1, <2>2, <2>3
<1>9. \A s, t \in 1 .. k + n : s < t => hi(s) <= lo(t)
  <2> TAKE s, t \in 1 .. k + n
  <2> HAVE s < t
  <2>1. CASE t <= k
    BY <2>1, <1>1
  <2>2. CASE t > k /\ s <= k
    <3>1. hi(s) \in Nat /\ hi(s) <= a
      BY <2>2, <1>1
    <3>2. CASE t = k + 1
      BY <3>1, <3>2, <1>5
    <3>3. CASE t > k + 1
      <4>1. (t - k) - 1 \in 1 .. n
        BY <3>3
      <4>2. lo(t) = m[(t - k) - 1] /\ a < m[(t - k) - 1] /\ m[(t - k) - 1] \in Nat
        BY <4>1, <3>3, <1>5
      <4> QED BY <4>2, <3>1
    <3> QED BY <3>2, <3>3, <2>2
  <2>3. CASE s > k
    <3> DEFINE i == s - k
    <3> DEFINE j == (t - k) - 1
    <3>1. i \in 1 .. n /\ j \in 1 .. n /\ i <= j
      BY <2>3
    <3>2. hi(s) = m[i] /\ lo(t) = m[j]
      BY <2>3, <1>5
    <3>3. m[i] \in Nat /\ m[j] \in Nat /\ (i < j => m[i] < m[j])
      BY <3>1
    <3> HIDE DEF i, j
    <3>4. i \in Nat /\ j \in Nat /\ (i = j => m[i] = m[j])
      BY <3>1
    <3> QED BY <3>1, <3>2, <3>3, <3>4
  <2> QED BY <2>1, <2>2, <2>3
<1>10. k + n > 0 => lo(1) = 0 /\ hi(k + n) = b
  <2>1. CASE n = 0
    BY <2>1, <1>3
  <2>2. CASE n > 0
    <3>1. hi(k + n) = m[n]
      BY <2>2, <1>5
    <3>2. lo(1) = 0
      BY <2>2, <1>3, <1>4, <1>5
    <3> QED BY <3>1, <3>2, <2>2
  <2> QED BY <2>1, <2>2
<1>11. k + n = 0 => b = 0
  BY <1>4
<1> HIDE DEF b
<1>12. Chain(T, b)
  BY <1>7, <1>8, <1>9, <1>10, <1>11 DEF Chain, lo, hi
<1> QED BY <1>12 DEF b

\* What _send_batch makes of the messages after a.
LEMMA BatchShape ==
    ASSUME TypeOK, NEW d \in Dir, NEW a \in Nat, NEW n \in Nat, NEW m \in [1 .. n -> Nat]
    PROVE  /\ Batches(d, a, n, m) \in Seq(Segment) /\ Len(Batches(d, a, n, m)) = n
           /\ \A i \in 1 .. n :
                 /\ Batches(d, a, n, m)[i].hi = m[i]
                 /\ Batches(d, a, n, m)[i].lo = IF i = 1 THEN a ELSE m[i - 1]
                 /\ Batches(d, a, n, m)[i].piggy <= expected[Rev(d)]
<1> DEFINE B == Batches(d, a, n, m)
<1> DEFINE lo(i) == IF i = 1 THEN a ELSE m[i - 1]
<1> DEFINE piggy(i) == IF i = 1 THEN Piggy(d) ELSE 0
<1>1. \A i \in 1 .. n : m[i] \in Nat /\ lo(i) \in Nat
  <2>1. \A i \in 1 .. n : i # 1 => i - 1 \in 1 .. n
    OBVIOUS
  <2> QED BY <2>1
<1>2. expected[Rev(d)] \in Nat
  BY RevDir DEF TypeOK
<1>3. \A i \in 1 .. n : piggy(i) \in Nat /\ piggy(i) <= expected[Rev(d)]
  BY <1>2 DEF Piggy
<1>4. B = [i \in 1 .. n |-> [lo |-> lo(i), hi |-> m[i], tries |-> 1, timer |-> TRUE,
                             piggy |-> piggy(i)]]
  BY DEF Batches
<1> HIDE DEF B, lo, piggy
<1>5. 1 \in 1 .. MaxTries
  BY RouterAssumption
<1>6. \A i \in 1 .. n : B[i] \in Segment
  BY <1>1, <1>3, <1>4, <1>5 DEF Segment
<1>7. B \in Seq(Segment) /\ Len(B) = n
  BY <1>4, <1>6
<1>8. \A i \in 1 .. n : B[i].hi = m[i] /\ B[i].lo = lo(i) /\ B[i].piggy <= expected[Rev(d)]
  BY <1>3, <1>4
<1> QED BY <1>7, <1>8 DEF B, lo

\* The segments of d after some are sent on their first try: what the invariant says
\* of them holds up to the last message sent.
LEMMA Grow ==
    ASSUME TypeOK, PiggyInv, NEW d \in Dir, NEW a \in Nat, NEW n \in Nat,
           NEW m \in [1 .. n -> Nat], Chain(segs[d], a),
           \A i \in 1 .. n : a < m[i],
           \A i, j \in 1 .. n : i < j => m[i] < m[j],
           segs' = [segs EXCEPT ![d] = @ \o Batches(d, a, n, m)]
    PROVE  /\ segs' \in [Dir -> Seq(Segment)]
           /\ Len(segs[d]) \in Nat /\ Len(segs'[d]) = Len(segs[d]) + n
           /\ \A s \in 1 .. Len(segs[d]) : segs'[d][s] = segs[d][s]
           /\ \A i \in 1 .. n : segs'[d][Len(segs[d]) + i] = Batches(d, a, n, m)[i]
           /\ \A e \in Dir : e # d => segs'[e] = segs[e]
           /\ Chain(segs'[d], IF n = 0 THEN a ELSE m[n])
           /\ \A s \in 1 .. Len(segs'[d]) : segs'[d][s].piggy <= expected[Rev(d)]
<1> DEFINE B == Batches(d, a, n, m)
<1> DEFINE k == Len(segs[d])
<1> DEFINE T == segs'[d]
<1>1. segs \in [Dir -> Seq(Segment)]
  BY DEF TypeOK, Segment
<1>2. B \in Seq(Segment) /\ Len(B) = n
  BY BatchShape
<1>3. \A i \in 1 .. n : B[i].hi = m[i]
  BY BatchShape
<1>3a. \A i \in 1 .. n : B[i].lo = IF i = 1 THEN a ELSE m[i - 1]
  BY BatchShape
<1>4. \A i \in 1 .. n : B[i].piggy <= expected[Rev(d)]
  BY BatchShape
<1> HIDE DEF B
<1>5. segs' = [segs EXCEPT ![d] = segs[d] \o B] /\ segs[d] \in Seq(Segment)
  BY <1>1 DEF B
<1>6. segs[d] \o B \in Seq(Segment) /\ Len(segs[d] \o B) = k + n /\ k \in Nat
  <2>1. k \in Nat
    BY <1>5, LenProperties
  <2>2. segs[d] \o B \in Seq(Segment) /\ Len(segs[d] \o B) = k + Len(B)
    BY <1>2, <1>5, Joined
  <2> QED BY <2>1, <2>2, <1>2
<1>7. \A i \in 1 .. k + n : (segs[d] \o B)[i] = IF i <= k THEN segs[d][i] ELSE B[i - k]
  BY SMTT(30), <1>2, <1>5, ConcatProperties
<1>8. T = segs[d] \o B /\ segs' \in [Dir -> Seq(Segment)] /\ \A e \in Dir : e # d => segs'[e] = segs[e]
  BY <1>1, <1>5, <1>6
<1> HIDE DEF T
<1>9. Len(T) = k + n /\ T \in Seq(Segment)
  BY <1>6, <1>8
<1>10. \A s \in 1 .. k : T[s] = segs[d][s]
  BY <1>6, <1>7, <1>8
<1>11. \A i \in 1 .. n : T[k + i] = B[i]
  <2> TAKE i \in 1 .. n
  <2>1. k + i \in 1 .. k + n /\ ~(k + i <= k) /\ (k + i) - k = i
    BY <1>6
  <2> QED BY <2>1, <1>7, <1>8
<1>12. \A s \in 1 .. k : segs[d][s].lo \in Nat /\ segs[d][s].hi \in Nat
  <2>1. segs[d] \in [1 .. k -> Segment]
    BY <1>5, LenProperties
  <2> QED BY <2>1 DEF Segment
<1>13. Chain(T, IF n = 0 THEN a ELSE m[n])
  <2>1. \A i \in 1 .. n : T[k + i].hi = m[i]
    BY <1>3, <1>11
  <2>2. \A i \in 1 .. n : T[k + i].lo = IF i = 1 THEN a ELSE m[i - 1]
    BY <1>3a, <1>11
  <2> QED BY <2>1, <2>2, <1>6, <1>9, <1>10, <1>12, Extend
<1>14. \A s \in 1 .. Len(T) : T[s].piggy <= expected[Rev(d)]
  <2> TAKE s \in 1 .. Len(T)
  <2>1. CASE s <= k
    <3>1. s \in 1 .. k /\ T[s] = segs[d][s]
      BY <2>1, <1>6, <1>9, <1>10
    <3> QED BY <3>1 DEF PiggyInv
  <2>2. CASE s > k
    <3>1. s - k \in 1 .. n /\ k + (s - k) = s
      BY <2>2, <1>6, <1>9
    <3> QED BY <3>1, <1>4, <1>11
  <2> QED BY <2>1, <2>2, <1>6, <1>9
<1> QED BY <1>6, <1>8, <1>9, <1>10, <1>11, <1>13, <1>14 DEF B, T

----------------------------------------------------------------------------
(* A step within a session: what its sender does, and what its receiver does *)

SenderTypes ==
    /\ segs \in [Dir -> Seq(Segment)] /\ una \in [Dir -> Nat \ {0}]
    /\ accepted \in [Dir -> Nat] /\ backlog \in [Dir -> Nat] /\ air \subseteq Frame
ReceiverTypes ==
    /\ expected \in [Dir -> Nat \ {0}] /\ ooo \in [Dir -> SUBSET Frame]
    /\ unacked \in [Dir -> 0 .. 1] /\ ack_pending \in [Dir -> BOOLEAN]
    /\ app \in [Dir -> Seq(Nat)] /\ acks \subseteq [dir : Dir, epoch : Nat, ack : Nat \ {0}]
OtherTypes ==
    /\ epoch \in Nat /\ down \in BOOLEAN /\ alive \in [Node -> BOOLEAN]
    /\ budget \in [RadioEvents -> Nat] /\ hurt \in BOOLEAN

LEMMA Types == TypeOK <=> SenderTypes /\ ReceiverTypes /\ OtherTypes
BY DEF TypeOK, SenderTypes, ReceiverTypes, OtherTypes, Segment

\* Segments are added, and the messages of the old ones stay.
Kept == \A d \in Dir :
    /\ Len(segs[d]) <= Len(segs'[d])
    /\ \A s \in 1 .. Len(segs[d]) :
          segs'[d][s].lo = segs[d][s].lo /\ segs'[d][s].hi = segs[d][s].hi

SenderPart ==
    /\ SenderTypes' /\ ChainInv' /\ BacklogWaits' /\ AirInv' /\ Kept
    /\ \A d \in Dir :
          /\ una'[d] <= expected[d]
          /\ \A s \in 1 .. Len(segs'[d]) : segs'[d][s].piggy <= expected[Rev(d)]

ReceiverPart ==
    /\ ReceiverTypes' /\ AckInv'
    /\ \A d \in Dir :
          /\ expected[d] <= expected'[d] /\ expected'[d] <= Len(segs[d]) + 1
          /\ Len(app'[d]) = IF expected'[d] = 1 THEN 0 ELSE segs[d][expected'[d] - 1].hi
          /\ \A o \in ooo'[d] : Copy(o, d)

LEMMA SameChain ==
    ASSUME NEW S, NEW T, NEW a, Chain(S, a), Len(S) \in Nat, Len(T) = Len(S),
           \A s \in 1 .. Len(S) : T[s].lo = S[s].lo /\ T[s].hi = S[s].hi
    PROVE  Chain(T, a)
<1>1. \A s \in 2 .. Len(S) : s \in 1 .. Len(S) /\ s - 1 \in 1 .. Len(S)
  OBVIOUS
<1>2. Len(S) > 0 => 1 \in 1 .. Len(S) /\ Len(S) \in 1 .. Len(S)
  OBVIOUS
<1> QED BY <1>1, <1>2 DEF Chain

LEMMA Unack ==
    ASSUME unacked \in [Dir -> 0 .. 1], NEW e, unacked' = [unacked EXCEPT ![e] = 0]
    PROVE  unacked' \in [Dir -> 0 .. 1]
<1> DEFINE T == 0 .. 1
<1>1. 0 \in T /\ unacked \in [Dir -> T]
  OBVIOUS
<1> HIDE DEF T
<1>2. unacked' \in [Dir -> T]
  BY <1>1
<1> QED BY <1>2 DEF T

LEMMA Lengths == ASSUME SenderTypes PROVE \A d \in Dir : Len(segs[d]) \in Nat
BY DEF SenderTypes

\* The two parts make the invariant.
LEMMA Parts == ASSUME IInv, SenderPart, ReceiverPart, OtherTypes' PROVE IInv'
<1>1. TypeOK'
  BY Types, PTL DEF SenderPart, ReceiverPart
<1>2. SenderTypes /\ SenderTypes' /\ ReceiverTypes /\ ReceiverTypes'
  BY Types DEF SenderPart, ReceiverPart, IInv
<1>3. \A d \in Dir : /\ Len(segs[d]) \in Nat /\ Len(segs'[d]) \in Nat
                     /\ expected[d] \in Nat \ {0} /\ expected'[d] \in Nat \ {0}
                     /\ una'[d] \in Nat
  BY <1>2 DEF SenderTypes, ReceiverTypes
<1>4. WindowInv'
  BY <1>3 DEF WindowInv, SenderPart, ReceiverPart, Kept
<1>5. AppInv'
  <2> SUFFICES ASSUME NEW d \in Dir
               PROVE  Len(app'[d]) = IF expected'[d] = 1 THEN 0 ELSE segs'[d][expected'[d] - 1].hi
    BY DEF AppInv
  <2>1. CASE expected'[d] = 1
    BY <2>1 DEF ReceiverPart
  <2>2. CASE expected'[d] # 1
    <3>1. expected'[d] - 1 \in 1 .. Len(segs[d])
      BY <2>2, <1>3 DEF ReceiverPart
    <3> QED BY <3>1, <2>2 DEF ReceiverPart, SenderPart, Kept
  <2> QED BY <2>1, <2>2
<1>6. OooInv'
  <2> SUFFICES ASSUME NEW d \in Dir, NEW o \in ooo'[d]
               PROVE  /\ o.seq <= Len(segs'[d])
                      /\ o.lo = segs'[d][o.seq].lo /\ o.hi = segs'[d][o.seq].hi
    BY DEF OooInv, Copy
  <2>1. Copy(o, d) /\ o.seq \in Nat \ {0}
    BY <1>2 DEF ReceiverPart, ReceiverTypes, Frame
  <2>2. o.seq \in 1 .. Len(segs[d])
    BY <2>1, <1>3 DEF Copy
  <2> QED BY <2>1, <2>2, <1>3 DEF Copy, SenderPart, Kept
<1>7. PiggyInv'
  <2> SUFFICES ASSUME NEW d \in Dir, NEW s \in 1 .. Len(segs'[d])
               PROVE  segs'[d][s].piggy <= expected'[Rev(d)]
    BY DEF PiggyInv
  <2>1. segs'[d][s] \in Segment
    BY <1>2 DEF SenderTypes
  <2>2. segs'[d][s].piggy \in Nat /\ segs'[d][s].piggy <= expected[Rev(d)]
    BY <2>1 DEF Segment, SenderPart
  <2>3. expected[Rev(d)] <= expected'[Rev(d)]
    BY RevDir DEF ReceiverPart
  <2> QED BY <2>2, <2>3, <1>3, RevDir
<1> QED BY <1>1, <1>4, <1>5, <1>6, <1>7 DEF IInv, SenderPart, ReceiverPart

\* The sender rests, and frames may be gone.
LEMMA SenderRests ==
    ASSUME IInv, UNCHANGED <<senderVars, epoch>>, air' \subseteq air PROVE SenderPart
<1>1. SenderTypes' /\ Kept
  BY Types, Lengths DEF IInv, SenderTypes, senderVars, Kept
<1>2. ChainInv' /\ BacklogWaits'
  BY DEF IInv, senderVars, ChainInv, FirstWaiting, BacklogWaits, WindowFull
<1>3. AirInv'
  BY DEF IInv, senderVars, AirInv, Copy
<1> QED BY <1>1, <1>2, <1>3 DEF SenderPart, IInv, senderVars, WindowInv, PiggyInv

\* The receiver rests: it may take a pending ack back, and acks may be gone.
LEMMA ReceiverRests ==
    ASSUME IInv, UNCHANGED <<expected, ooo, app, epoch>>, acks' \subseteq acks,
           unacked' \in [Dir -> 0 .. 1], ack_pending' \in [Dir -> BOOLEAN]
    PROVE  ReceiverPart
<1>1. ReceiverTypes' /\ \A d \in Dir : expected[d] \in Nat
  BY Types DEF IInv, ReceiverTypes
<1>2. AckInv'
  BY DEF IInv, AckInv
<1> QED BY <1>1, <1>2 DEF ReceiverPart, IInv, WindowInv, AppInv, OooInv

\* Segments of d are added that carry the messages up to b, and its ack a is read.
LEMMA Sent ==
    ASSUME IInv, NEW d \in Dir, NEW n \in Nat, NEW m \in [1 .. n -> Nat], NEW b \in Nat,
           \A i \in 1 .. n : FirstWaiting(d) < m[i],
           \A i, j \in 1 .. n : i < j => m[i] < m[j],
           b = IF n = 0 THEN FirstWaiting(d) ELSE m[n],
           segs' = [segs EXCEPT ![d] = @ \o Batches(d, FirstWaiting(d), n, m)],
           una' \in [Dir -> Nat \ {0}], \A e \in Dir : una'[e] <= expected[e],
           accepted' \in [Dir -> Nat], backlog' \in [Dir -> Nat],
           accepted'[d] - backlog'[d] = b, backlog'[d] <= accepted'[d],
           \A e \in Dir : e # d => accepted'[e] = accepted[e] /\ backlog'[e] = backlog[e],
           BacklogWaits', epoch' = epoch,
           air' \subseteq air \union OnAir(d, n, Batches(d, FirstWaiting(d), n, m))
    PROVE  SenderPart
<1> DEFINE a == FirstWaiting(d)
<1> DEFINE B == Batches(d, a, n, m)
<1> DEFINE k == Len(segs[d])
<1>1. SenderTypes /\ ReceiverTypes /\ OtherTypes
  BY Types DEF IInv
<1>2. a \in Nat /\ Chain(segs[d], a)
  BY <1>1 DEF IInv, ChainInv, FirstWaiting, SenderTypes
<1> HIDE DEF a
<1>0. TypeOK /\ PiggyInv
  BY DEF IInv
<1>4. /\ segs' \in [Dir -> Seq(Segment)] /\ k \in Nat /\ Len(segs'[d]) = k + n
      /\ \A s \in 1 .. k : segs'[d][s] = segs[d][s]
      /\ \A i \in 1 .. n : segs'[d][k + i] = B[i]
      /\ \A e \in Dir : e # d => segs'[e] = segs[e]
      /\ Chain(segs'[d], b)
      /\ \A s \in 1 .. Len(segs'[d]) : segs'[d][s].piggy <= expected[Rev(d)]
  <2>1. segs' = [segs EXCEPT ![d] = @ \o Batches(d, a, n, m)] /\ \A i \in 1 .. n : a < m[i]
    BY DEF a
  <2>2. b = IF n = 0 THEN a ELSE m[n]
    BY DEF a
  <2>3. Chain(segs[d], a) /\ a \in Nat
    BY <1>2
  <2> HIDE DEF B, k
  <2>4. /\ segs' \in [Dir -> Seq(Segment)]
        /\ Len(segs[d]) \in Nat /\ Len(segs'[d]) = Len(segs[d]) + n
        /\ \A s \in 1 .. Len(segs[d]) : segs'[d][s] = segs[d][s]
        /\ \A i \in 1 .. n : segs'[d][Len(segs[d]) + i] = Batches(d, a, n, m)[i]
        /\ \A e \in Dir : e # d => segs'[e] = segs[e]
        /\ Chain(segs'[d], IF n = 0 THEN a ELSE m[n])
        /\ \A s \in 1 .. Len(segs'[d]) : segs'[d][s].piggy <= expected[Rev(d)]
    BY <1>0, <2>1, <2>3, Grow
  <2> QED BY <2>2, <2>4 DEF B, k
<1> HIDE DEF B, k
<1>5. Kept
  <2> SUFFICES ASSUME NEW e \in Dir
               PROVE  /\ Len(segs[e]) <= Len(segs'[e])
                      /\ \A s \in 1 .. Len(segs[e]) :
                            segs'[e][s].lo = segs[e][s].lo /\ segs'[e][s].hi = segs[e][s].hi
    BY DEF Kept
  <2>1. CASE e = d
    BY <2>1, <1>4 DEF k
  <2>2. CASE e # d
    BY <2>2, <1>1, <1>4, Lengths
  <2> QED BY <2>1, <2>2
<1>6. ChainInv'
  <2> SUFFICES ASSUME NEW e \in Dir
               PROVE  backlog'[e] <= accepted'[e] /\ Chain(segs'[e], accepted'[e] - backlog'[e])
    BY DEF ChainInv, FirstWaiting
  <2>1. CASE e = d
    BY <2>1, <1>4
  <2>2. CASE e # d
    BY <2>2, <1>4 DEF IInv, ChainInv, FirstWaiting
  <2> QED BY <2>1, <2>2
<1>7. ASSUME NEW f \in air'
      PROVE  f \in Frame /\ f.epoch <= epoch' /\ (f.epoch = epoch' => Copy(f, f.dir)')
  <2>1. CASE f \in air
    <3>1. f \in Frame /\ f.dir \in Dir /\ f.seq \in Nat \ {0}
      BY <2>1, <1>1 DEF SenderTypes, Frame
    <3>2. f.epoch = epoch => f.seq \in 1 .. Len(segs[f.dir])
      BY <2>1, <3>1, <1>1, Lengths DEF IInv, AirInv, Copy
    <3>3. Len(segs[f.dir]) \in Nat /\ Len(segs'[f.dir]) \in Nat
      BY <3>1, <1>1, <1>4, Lengths DEF SenderTypes
    <3> QED BY <2>1, <3>1, <3>2, <3>3, <1>5 DEF IInv, AirInv, Copy, Kept
  <2>2. CASE f \in OnAir(d, n, B)
    <3>1. PICK i \in 1 .. n : f = SegFrame(d, k + i, B[i], 1)
      BY <2>2 DEF OnAir, k
    <3>2. B[i] = segs'[d][k + i] /\ k + i \in Nat \ {0} /\ k + i <= Len(segs'[d])
      BY <3>1, <1>4
    <3>3. B[i].lo \in Nat /\ B[i].hi \in Nat
      <4>1. segs'[d] \in Seq(Segment) /\ k + i \in 1 .. Len(segs'[d])
        BY <3>1, <3>2, <1>4
      <4>2. segs'[d][k + i] \in Segment
        BY <4>1
      <4> QED BY <4>2, <3>2 DEF Segment
    <3>4. epoch \in Nat /\ 1 \in 1 .. MaxTries
      BY <1>1, RouterAssumption DEF OtherTypes
    <3>5. f \in Frame
      BY <3>1, <3>2, <3>3, <3>4 DEF SegFrame, Frame
    <3>6. f.dir = d /\ f.epoch = epoch /\ f.seq = k + i /\ f.lo = B[i].lo /\ f.hi = B[i].hi
      BY <3>1 DEF SegFrame
    <3> QED BY <3>2, <3>4, <3>5, <3>6 DEF Copy
  <2> QED BY <2>1, <2>2 DEF B, a
<1>8. SenderTypes' /\ AirInv'
  <2>1. air' \subseteq Frame
    BY <1>7
  <2>2. AirInv'
    BY <1>7 DEF AirInv
  <2> QED BY <2>1, <2>2, <1>4 DEF SenderTypes
<1>9. \A e \in Dir : \A s \in 1 .. Len(segs'[e]) : segs'[e][s].piggy <= expected[Rev(e)]
  <2> SUFFICES ASSUME NEW e \in Dir
               PROVE  \A s \in 1 .. Len(segs'[e]) : segs'[e][s].piggy <= expected[Rev(e)]
    OBVIOUS
  <2>1. CASE e = d
    BY <2>1, <1>4
  <2>2. CASE e # d
    BY <2>2, <1>4 DEF IInv, PiggyInv
  <2> QED BY <2>1, <2>2
<1> QED BY <1>5, <1>6, <1>8, <1>9 DEF SenderPart

LEMMA GrownLen ==
    ASSUME TypeOK, NEW d \in Dir, NEW a \in Nat, NEW n \in Nat, NEW m \in [1 .. n -> Nat],
           segs' = [segs EXCEPT ![d] = @ \o Batches(d, a, n, m)]
    PROVE  /\ Len(segs[d]) \in Nat /\ Len(segs'[d]) = Len(segs[d]) + n
           /\ \A e \in Dir : e # d => segs'[e] = segs[e]
<1> DEFINE B == Batches(d, a, n, m)
<1>1. segs \in [Dir -> Seq(Segment)]
  BY DEF TypeOK, Segment
<1>2. B \in Seq(Segment) /\ Len(B) = n
  BY SMTT(30), BatchShape
<1> HIDE DEF B
<1>3. segs' = [segs EXCEPT ![d] = segs[d] \o B]
  BY DEF B
<1>4. Len(segs[d] \o B) = Len(segs[d]) + n /\ Len(segs[d]) \in Nat
  <2>1. segs[d] \in Seq(Segment)
    BY <1>1
  <2>2. Len(segs[d] \o B) = Len(segs[d]) + Len(B)
    BY <1>2, <2>1, Joined
  <2> QED BY <1>2, <2>1, <2>2, LenProperties
<1> QED BY <1>1, <1>3, <1>4

\* An ack of d is read that is not ahead of the receiver.
LEMMA AckRead ==
    ASSUME IInv, NEW d \in Dir, NEW a \in Nat, a <= expected[d],
           NEW n \in 0 .. CWND, NEW m \in Cuts(d, n), OnAck(d, a, n, m), epoch' = epoch,
           air' \subseteq air \union OnAir(d, n, Batches(d, FirstWaiting(d), n, m))
    PROVE  SenderPart
<1> DEFINE b == IF n = 0 THEN FirstWaiting(d) ELSE m[n]
<1>1. SenderTypes /\ ReceiverTypes /\ TypeOK
  BY Types DEF IInv
<1>2. /\ accepted[d] \in Nat /\ backlog[d] \in Nat /\ backlog[d] <= accepted[d]
      /\ FirstWaiting(d) \in Nat /\ FirstWaiting(d) <= accepted[d] /\ n \in Nat /\ CWND \in Nat
      /\ una[d] \in Nat \ {0}
  BY <1>1, RouterAssumption DEF SenderTypes, IInv, ChainInv, FirstWaiting
<1>3. /\ m \in [1 .. n -> Nat]
      /\ \A i \in 1 .. n : FirstWaiting(d) < m[i] /\ m[i] <= accepted[d]
  BY <1>2 DEF Cuts
<1>4. b \in Nat /\ b <= accepted[d]
  <2>1. n # 0 => n \in 1 .. n
    BY <1>2
  <2> QED BY <2>1, <1>2, <1>3
<1>5. /\ \A i, j \in 1 .. n : i < j => m[i] < m[j]
      /\ n <= Room(d, a)
      /\ n < Room(d, a) => b = accepted[d]
  BY DEF OnAck, Releases
<1>6. /\ segs' = [segs EXCEPT ![d] = @ \o Batches(d, FirstWaiting(d), n, m)]
      /\ una' = [una EXCEPT ![d] = Later(@, a)]
      /\ backlog' = [backlog EXCEPT ![d] = accepted[d] - b]
      /\ accepted' = accepted
  BY DEF OnAck
<1> HIDE DEF b
<1>7. una' \in [Dir -> Nat \ {0}] /\ \A e \in Dir : una'[e] <= expected[e]
  BY <1>1, <1>6 DEF SenderTypes, Later, IInv, WindowInv
<1>8. backlog' \in [Dir -> Nat] /\ accepted' \in [Dir -> Nat] /\ backlog'[d] = accepted[d] - b
  <2>1. accepted[d] - b \in Nat
    BY <1>2, <1>4
  <2> QED BY <2>1, <1>1, <1>6 DEF SenderTypes
<1>9. BacklogWaits'
  <2>1. /\ Len(segs[d]) \in Nat /\ Len(segs'[d]) = Len(segs[d]) + n
        /\ \A e \in Dir : e # d => segs'[e] = segs[e]
    BY <1>1, <1>2, <1>3, <1>6, GrownLen
  <2> SUFFICES ASSUME NEW e \in Dir, backlog'[e] > 0
               PROVE  Len(segs'[e]) + 1 - una'[e] >= CWND
    BY DEF BacklogWaits, WindowFull
  <2>2. CASE e = d
    <3>1. ~(n < Room(d, a))
      BY <2>2, <1>2, <1>4, <1>5, <1>8
    <3>2. una'[d] = Later(una[d], a) /\ una'[d] \in Nat
      BY <1>1, <1>6, <1>7 DEF SenderTypes
    <3>3. Room(d, a) = IF CWND + una'[d] > Len(segs[d]) + 1
                       THEN CWND + una'[d] - (Len(segs[d]) + 1) ELSE 0
      BY <3>2 DEF Room
    <3>4. Room(d, a) \in Nat
      BY <3>2, <3>3, <2>1, <1>2
    <3>5. n = Room(d, a)
      BY <3>1, <3>4, <1>2, <1>5
    <3> QED BY SMTT(30), <2>1, <2>2, <3>2, <3>3, <3>5, <1>2
  <2>3. CASE e # d
    BY <2>1, <2>3, <1>1, <1>6 DEF IInv, BacklogWaits, WindowFull, SenderTypes
  <2> QED BY <2>2, <2>3
<1>10. accepted'[d] - backlog'[d] = b /\ backlog'[d] <= accepted'[d]
  BY <1>2, <1>4, <1>6, <1>8
<1>11. \A e \in Dir : e # d => accepted'[e] = accepted[e] /\ backlog'[e] = backlog[e]
  BY <1>1, <1>6 DEF SenderTypes
<1>12. b = IF n = 0 THEN FirstWaiting(d) ELSE m[n]
  BY DEF b
<1> QED
  BY <1>2, <1>3, <1>4, <1>5, <1>6, <1>7, <1>8, <1>9, <1>10, <1>11, <1>12, Sent

LEMMA SendKeeps == ASSUME IInv, NEW d \in Dir, NEW reliable, Send(d, reliable) PROVE IInv'
<1>1. SenderTypes /\ ReceiverTypes /\ OtherTypes /\ TypeOK
  BY Types DEF IInv
<1>2. /\ accepted' = [accepted EXCEPT ![d] = @ + 1]
      /\ UNCHANGED <<sessionVars, alive, una, expected, ooo, ack_pending, app, acks, faultVars>>
      /\ OtherTypes'
  BY <1>1 DEF Send, sessionVars, faultVars, OtherTypes
<1>3. accepted[d] \in Nat /\ backlog[d] \in Nat /\ backlog[d] <= accepted[d]
  BY <1>1 DEF SenderTypes, IInv, ChainInv
<1>4. CASE WindowFull(d) /\ backlog' = [backlog EXCEPT ![d] = @ + 1]
           /\ UNCHANGED <<segs, unacked, air>>
  <2>1. SenderTypes' /\ Kept
    BY <1>1, <1>2, <1>4, Lengths DEF SenderTypes, Kept
  <2>2. ChainInv'
    <3> SUFFICES ASSUME NEW e \in Dir
                 PROVE  backlog'[e] <= accepted'[e] /\ Chain(segs'[e], accepted'[e] - backlog'[e])
      BY DEF ChainInv, FirstWaiting
    <3>1. accepted'[e] - backlog'[e] = accepted[e] - backlog[e] /\ backlog'[e] <= accepted'[e]
      BY <1>1, <1>2, <1>3, <1>4 DEF SenderTypes, IInv, ChainInv
    <3> QED BY <3>1, <1>4 DEF IInv, ChainInv, FirstWaiting
  <2>3. BacklogWaits'
    BY <1>1, <1>2, <1>4 DEF IInv, BacklogWaits, WindowFull, SenderTypes
  <2>4. AirInv'
    BY <1>2, <1>4 DEF IInv, AirInv, Copy, sessionVars
  <2>5. SenderPart
    BY <2>1, <2>2, <2>3, <2>4, <1>2, <1>4 DEF SenderPart, IInv, WindowInv, PiggyInv
  <2>6. ReceiverPart
    <3>1. unacked' \in [Dir -> 0 .. 1] /\ ack_pending' \in [Dir -> BOOLEAN]
      BY <1>1, <1>2, <1>4 DEF ReceiverTypes
    <3> QED BY <3>1, <1>2, ReceiverRests DEF sessionVars
  <2> QED BY <2>5, <2>6, <1>2, Parts
<1>5. CASE /\ ~WindowFull(d) /\ UNCHANGED backlog
           /\ LET new == Batches(d, accepted[d], 1, <<accepted[d] + 1>>) IN
                 /\ segs' = [segs EXCEPT ![d] = @ \o new]
                 /\ air' = air \union OnAir(d, 1, new)
           /\ unacked' = [unacked EXCEPT ![Rev(d)] = 0]
  <2> DEFINE m == <<accepted[d] + 1>>
  <2>1. FirstWaiting(d) = accepted[d] /\ backlog[d] = 0
    BY <1>3, <1>5 DEF IInv, BacklogWaits, FirstWaiting
  <2>2. m \in [1 .. 1 -> Nat] /\ m[1] = accepted[d] + 1
    BY <1>3
  <2>3. /\ segs' = [segs EXCEPT ![d] = @ \o Batches(d, FirstWaiting(d), 1, m)]
        /\ air' = air \union OnAir(d, 1, Batches(d, FirstWaiting(d), 1, m))
    BY <1>5, <2>1
  <2> HIDE DEF m
  <2>4. /\ una' \in [Dir -> Nat \ {0}] /\ \A e \in Dir : una'[e] <= expected[e]
        /\ accepted' \in [Dir -> Nat] /\ backlog' \in [Dir -> Nat]
        /\ accepted'[d] - backlog'[d] = m[1] /\ backlog'[d] <= accepted'[d]
        /\ \A e \in Dir : e # d => accepted'[e] = accepted[e] /\ backlog'[e] = backlog[e]
    BY <1>1, <1>2, <1>3, <1>5, <2>1, <2>2 DEF SenderTypes, IInv, WindowInv
  <2>5. BacklogWaits'
    <3>1. \A e \in Dir : e # d => segs'[e] = segs[e]
      BY <1>1, <2>3 DEF SenderTypes
    <3> QED BY <3>1, <1>1, <1>2, <1>5, <2>1 DEF IInv, BacklogWaits, WindowFull, SenderTypes
  <2>6. SenderPart
    <3>1. \A i \in 1 .. 1 : FirstWaiting(d) < m[i]
      BY <1>3, <2>1, <2>2
    <3>2. \A i, j \in 1 .. 1 : i < j => m[i] < m[j]
      OBVIOUS
    <3>3. m[1] = (IF 1 = 0 THEN FirstWaiting(d) ELSE m[1]) /\ m[1] \in Nat
      BY <1>3, <2>2
    <3>4. epoch' = epoch
      BY <1>2 DEF sessionVars
    <3> QED BY <2>2, <2>3, <2>4, <2>5, <3>1, <3>2, <3>3, <3>4, Sent
  <2>7. ReceiverPart
    <3>0. unacked' = [unacked EXCEPT ![Rev(d)] = 0]
      BY <1>5
    <3>1. unacked' \in [Dir -> 0 .. 1]
      BY <1>1, <3>0, Unack DEF ReceiverTypes
    <3>2. ack_pending' \in [Dir -> BOOLEAN]
      BY <1>1, <1>2 DEF ReceiverTypes
    <3> QED BY <3>1, <3>2, <1>2, ReceiverRests DEF sessionVars
  <2> QED BY <2>6, <2>7, <1>2, Parts
<1> QED BY <1>4, <1>5 DEF Send

LEMMA RtoKeeps == ASSUME IInv, NEW d \in Dir, NEW s \in Inflight(d), Rto(d, s) PROVE IInv'
<1>1. SenderTypes /\ ReceiverTypes /\ OtherTypes
  BY Types DEF IInv
<1>2. /\ UNCHANGED <<sessionVars, alive, una, accepted, backlog, expected, ooo, ack_pending,
                     app, acks, hurt>>
      /\ epoch' = epoch
  BY DEF Rto, sessionVars
<1>3. segs[d] \in Seq(Segment) /\ una[d] \in Nat \ {0} /\ Len(segs[d]) \in Nat
  BY <1>1, LenProperties DEF SenderTypes
<1>4. s \in 1 .. Len(segs[d]) /\ segs[d][s] \in Segment
  BY <1>3 DEF Inflight
<1>5. \A e \in Dir : expected[e] \in Nat
  BY <1>1 DEF ReceiverTypes
<1>6. ASSUME NEW seg \in Segment, segs' = [segs EXCEPT ![d] = [@ EXCEPT ![s] = seg]],
             seg.lo = segs[d][s].lo, seg.hi = segs[d][s].hi, seg.piggy <= expected[Rev(d)],
             air' \subseteq air \union {SegFrame(d, s, segs[d][s], segs[d][s].tries + 1)},
             air' = air \/ segs[d][s].tries < MaxTries,
             unacked' \in [Dir -> 0 .. 1], OtherTypes'
      PROVE  IInv'
  <2>1. [segs[d] EXCEPT ![s] = seg] \in Seq(Segment)
        /\ Len([segs[d] EXCEPT ![s] = seg]) = Len(segs[d])
    BY <1>3, <1>4, ExceptSeq
  <2>2. /\ segs' \in [Dir -> Seq(Segment)] /\ segs'[d] = [segs[d] EXCEPT ![s] = seg]
        /\ \A e \in Dir : e # d => segs'[e] = segs[e]
    BY <1>1, <1>6, <2>1 DEF SenderTypes
  <2>3. \A e \in Dir : Len(segs'[e]) = Len(segs[e])
    BY <2>1, <2>2
  <2>4. \A e \in Dir : \A t \in 1 .. Len(segs[e]) :
           segs'[e][t].lo = segs[e][t].lo /\ segs'[e][t].hi = segs[e][t].hi
    BY <1>3, <1>4, <1>6, <2>2
  <2>5. Kept
    BY <2>3, <2>4, <1>1, Lengths DEF Kept
  <2>6. \A e \in Dir : \A t \in 1 .. Len(segs'[e]) : segs'[e][t].piggy <= expected[Rev(e)]
    BY <1>3, <1>4, <1>6, <2>2, <2>3 DEF IInv, PiggyInv
  <2>7. ChainInv'
    <3> SUFFICES ASSUME NEW e \in Dir
                 PROVE  backlog[e] <= accepted[e] /\ Chain(segs'[e], FirstWaiting(e))
      BY <1>2 DEF ChainInv, FirstWaiting
    <3>1. Chain(segs[e], FirstWaiting(e)) /\ backlog[e] <= accepted[e]
      BY DEF IInv, ChainInv
    <3>2. Len(segs[e]) \in Nat
      BY <1>1, Lengths
    <3> QED BY <3>1, <3>2, <2>3, <2>4, SameChain
  <2>8. BacklogWaits'
    BY <1>2, <2>3 DEF IInv, BacklogWaits, WindowFull
  <2>9. ASSUME NEW f \in air'
        PROVE  f \in Frame /\ f.epoch <= epoch' /\ (f.epoch = epoch' => Copy(f, f.dir)')
    <3>1. CASE f \in air
      <4>1. f \in Frame /\ f.dir \in Dir /\ f.seq \in Nat \ {0}
        BY <3>1, <1>1 DEF SenderTypes, Frame
      <4>2. f.epoch = epoch => f.seq \in 1 .. Len(segs[f.dir])
        BY <3>1, <4>1, <1>1, Lengths DEF IInv, AirInv, Copy
      <4> QED BY <3>1, <4>1, <4>2, <1>2, <2>3, <2>4 DEF IInv, AirInv, Copy
    <3>2. CASE f \notin air
      <4>1. f = SegFrame(d, s, segs[d][s], segs[d][s].tries + 1) /\ segs[d][s].tries < MaxTries
        BY <3>2, <1>6
      <4>2. segs[d][s].lo \in Nat /\ segs[d][s].hi \in Nat /\ segs[d][s].tries + 1 \in 1 .. MaxTries
        BY SMTT(30), <4>1, <1>4, RouterAssumption DEF Segment
      <4>3. epoch \in Nat
        BY <1>1 DEF OtherTypes
      <4> QED BY <4>1, <4>2, <4>3, <1>2, <1>3, <1>4, <2>3, <2>4 DEF SegFrame, Frame, Copy
    <3> QED BY <3>1, <3>2
  <2>10. SenderPart
    <3>1. air' \subseteq Frame /\ AirInv'
      BY <2>9 DEF AirInv
    <3>2. SenderTypes'
      BY <3>1, <2>2, <1>1, <1>2 DEF SenderTypes
    <3> QED BY <3>1, <3>2, <2>5, <2>6, <2>7, <2>8, <1>2 DEF SenderPart, IInv, WindowInv
  <2>11. ReceiverPart
    <3>1. ack_pending' \in [Dir -> BOOLEAN]
      BY <1>1, <1>2 DEF ReceiverTypes
    <3> QED BY <3>1, <1>2, <1>6, ReceiverRests
  <2> QED BY <2>10, <2>11, <1>6, Parts
<1>7. CASE /\ segs[d][s].tries < MaxTries /\ Spend("rto")
           /\ LET piggy == IF unacked[Rev(d)] > 0 THEN expected[Rev(d)] ELSE segs[d][s].piggy IN
                 segs' = [segs EXCEPT ![d][s].tries = @ + 1, ![d][s].piggy = piggy]
           /\ air' = air \union {SegFrame(d, s, segs[d][s], segs[d][s].tries + 1)}
           /\ unacked' = [unacked EXCEPT ![Rev(d)] = 0]
  <2> DEFINE piggy == IF unacked[Rev(d)] > 0 THEN expected[Rev(d)] ELSE segs[d][s].piggy
  <2> DEFINE seg == [segs[d][s] EXCEPT !.tries = @ + 1, !.piggy = piggy]
  <2>1. piggy \in Nat /\ piggy <= expected[Rev(d)]
    BY <1>4, <1>5, RevDir DEF IInv, PiggyInv, Segment
  <2>2. segs' = [segs EXCEPT ![d] = [@ EXCEPT ![s] = seg]]
    BY <1>1, <1>3, <1>4, <1>7 DEF SenderTypes, Segment
  <2> HIDE DEF piggy
  <2>3. seg \in Segment /\ seg.lo = segs[d][s].lo /\ seg.hi = segs[d][s].hi /\ seg.piggy = piggy
    <3>1. MaxTries \in Nat
      BY RouterAssumption
    <3>2. segs[d][s].tries + 1 \in 1 .. MaxTries
      BY <1>4, <1>7, <3>1 DEF Segment
    <3> DEFINE old == segs[d][s]
    <3>3. old \in Segment /\ old.tries + 1 \in 1 .. MaxTries
      BY <1>4, <3>2
    <3>4. seg = [old EXCEPT !.tries = old.tries + 1, !.piggy = piggy]
      OBVIOUS
    <3> HIDE DEF old, seg
    <3>5. seg \in Segment
      BY <2>1, <3>3, <3>4 DEF Segment
    <3>6. seg.lo = old.lo /\ seg.hi = old.hi /\ seg.piggy = piggy
      BY <3>3, <3>4 DEF Segment
    <3> QED BY <3>5, <3>6 DEF old
  <2> HIDE DEF seg
  <2>4. unacked' \in [Dir -> 0 .. 1]
    BY <1>1, <1>7, Unack DEF ReceiverTypes
  <2>5. OtherTypes'
    BY <1>1, <1>2, <1>7 DEF OtherTypes, sessionVars, Spend, RadioEvents
  <2> QED BY <1>6, <1>7, <2>1, <2>2, <2>3, <2>4, <2>5
<1>8. CASE /\ segs' = [segs EXCEPT ![d][s].timer = FALSE]
           /\ UNCHANGED <<air, unacked, budget>>
  <2> DEFINE seg == [segs[d][s] EXCEPT !.timer = FALSE]
  <2>1. segs' = [segs EXCEPT ![d] = [@ EXCEPT ![s] = seg]]
    BY <1>1, <1>3, <1>4, <1>8 DEF SenderTypes, Segment
  <2>2. seg \in Segment /\ seg.lo = segs[d][s].lo /\ seg.hi = segs[d][s].hi
        /\ seg.piggy = segs[d][s].piggy
    BY <1>4 DEF Segment
  <2> HIDE DEF seg
  <2>3. segs[d][s].piggy <= expected[Rev(d)]
    BY <1>4 DEF IInv, PiggyInv
  <2>4. unacked' \in [Dir -> 0 .. 1] /\ OtherTypes'
    BY <1>1, <1>2, <1>8 DEF ReceiverTypes, OtherTypes, sessionVars
  <2> QED BY <1>6, <1>8, <2>1, <2>2, <2>3, <2>4
<1> QED BY <1>7, <1>8 DEF Rto

\* An ack on its way names what its receiver expects.
LEMMA AckOnAir ==
    ASSUME IInv, epoch' = epoch, expected' \in [Dir -> Nat \ {0}], NEW d \in Dir,
           \A e \in Dir : expected[e] <= expected'[e],
           acks' \subseteq acks \union AcksOnAir(d, expected'[d])
    PROVE  AckInv' /\ acks' \subseteq [dir : Dir, epoch : Nat, ack : Nat \ {0}]
<1>1. epoch \in Nat /\ acks \subseteq [dir : Dir, epoch : Nat, ack : Nat \ {0}]
      /\ expected \in [Dir -> Nat \ {0}]
  BY Types DEF IInv, OtherTypes, ReceiverTypes
<1> SUFFICES ASSUME NEW f \in acks'
             PROVE  /\ f \in [dir : Dir, epoch : Nat, ack : Nat \ {0}]
                    /\ f.epoch <= epoch /\ (f.epoch = epoch => f.ack <= expected'[f.dir])
  BY DEF AckInv
<1>2. CASE f \in acks
  <2>1. f.dir \in Dir /\ f.ack \in Nat
    BY <1>1, <1>2
  <2> QED BY <2>1, <1>1, <1>2 DEF IInv, AckInv
<1>3. CASE f = AckFrame(d, expected'[d])
  BY <1>1, <1>3 DEF AckFrame
<1> QED BY <1>2, <1>3 DEF AcksOnAir

LEMMA RunLen == ASSUME NEW a \in Nat, NEW b \in Nat, a <= b
                PROVE  Run(a, b) \in Seq(Nat) /\ Len(Run(a, b)) = b - a
<1>1. b - a \in Nat /\ \A i \in 1 .. b - a : a + i \in Nat
  OBVIOUS
<1>2. Run(a, b) \in [1 .. b - a -> Nat]
  BY <1>1 DEF Run
<1> QED BY <1>1, <1>2, LenProperties

\* What the segments up to s carry ends where the next one begins.
LEMMA CopyIsNext ==
    ASSUME IInv, NEW d \in Dir, NEW f \in Frame, Copy(f, d), f.seq = expected[d]
    PROVE  /\ expected[d] \in 1 .. Len(segs[d]) /\ Len(segs[d]) \in Nat
           /\ f.lo = Len(app[d])
<1>1. SenderTypes /\ ReceiverTypes /\ expected[d] \in Nat \ {0} /\ Len(segs[d]) \in Nat
  BY Types, Lengths DEF IInv, ReceiverTypes
<1>2. expected[d] \in 1 .. Len(segs[d]) /\ f.lo = segs[d][expected[d]].lo
  BY <1>1 DEF Copy
<1>3. Chain(segs[d], FirstWaiting(d))
  BY DEF IInv, ChainInv
<1>4. CASE expected[d] = 1
  BY <1>1, <1>2, <1>3, <1>4 DEF Chain, IInv, AppInv
<1>5. CASE expected[d] # 1
  <2>1. expected[d] \in 2 .. Len(segs[d])
    BY <1>2, <1>5
  <2>2. segs[d][expected[d]].lo = segs[d][expected[d] - 1].hi
    BY <2>1, <1>3 DEF Chain
  <2> QED BY <1>1, <1>2, <1>5, <2>2 DEF IInv, AppInv
<1> QED BY <1>1, <1>2, <1>4, <1>5

\* The segment in turn: the receiver's part, and what the application gets.
LEMMA InOrderPart ==
    ASSUME IInv, NEW f \in air, f.epoch = epoch, NEW last \in Nat, NEW u \in 0 .. 1,
           InOrder(f, last, u), epoch' = epoch
    PROVE  /\ ReceiverPart
           /\ \E n \in Nat :
                 /\ Len(app[f.dir]) < n /\ n <= FirstWaiting(f.dir)
                 /\ app' = [app EXCEPT ![f.dir] = @ \o Run(Len(@), n)]
<1> DEFINE d == f.dir
<1>1. SenderTypes /\ ReceiverTypes /\ OtherTypes
  BY Types DEF IInv
<1>2. f \in Frame /\ d \in Dir /\ f.seq \in Nat \ {0} /\ f.lo \in Nat /\ f.hi \in Nat
  BY <1>1 DEF SenderTypes, Frame
<1>3. Copy(f, d)
  BY DEF IInv, AirInv
<1>4. /\ f.seq = expected[d] /\ last >= f.seq
      /\ \A k \in f.seq + 1 .. last : \E o \in ooo[d] : o.seq = k
      /\ expected' = [expected EXCEPT ![d] = last + 1]
      /\ ooo' = [ooo EXCEPT ![d] = {o \in @ : o.seq > last}]
      /\ unacked' = [unacked EXCEPT ![d] = Unacked(u)]
      /\ ack_pending' = [ack_pending EXCEPT ![d] = @ \/ u = 0]
      /\ acks' = IF u = 0 THEN acks ELSE acks \union AcksOnAir(d, Acks(f, last + 1))
  BY DEF InOrder, Turn
<1>5. PICK o \in ooo[d] \union {f} : /\ o.seq = last
                                    /\ app' = [app EXCEPT ![d] = @ \o Run(f.lo, o.hi)]
  BY DEF InOrder
<1>6. o \in Frame /\ Copy(o, d) /\ o.hi \in Nat
  <2>1. CASE o = f
    BY <2>1, <1>2, <1>3
  <2>2. CASE o \in ooo[d]
    <3>1. o \in Frame
      BY <2>2, <1>1, <1>2 DEF ReceiverTypes
    <3> QED BY <3>1, <2>2, <1>2 DEF IInv, OooInv, Frame
  <2> QED BY <2>1, <2>2
<1>7. /\ expected[d] \in 1 .. Len(segs[d]) /\ Len(segs[d]) \in Nat /\ f.lo = Len(app[d])
  BY <1>2, <1>3, <1>4, CopyIsNext
<1>8. last \in 1 .. Len(segs[d]) /\ o.hi = segs[d][last].hi /\ f.lo = segs[d][f.seq].lo
  BY SMTT(30), <1>2, <1>3, <1>4, <1>5, <1>6, <1>7 DEF Copy
<1>9. f.lo < o.hi /\ o.hi <= FirstWaiting(d)
  <2>1. Chain(segs[d], FirstWaiting(d)) /\ f.seq \in 1 .. Len(segs[d]) /\ f.hi = segs[d][f.seq].hi
    BY <1>2, <1>3, <1>4, <1>7 DEF IInv, ChainInv, Copy
  <2>2. segs[d][f.seq].lo < segs[d][f.seq].hi /\ segs[d][last].lo < segs[d][last].hi
        /\ segs[d][last].hi <= FirstWaiting(d)
    BY <2>1, <1>8 DEF Chain
  <2>3. f.seq < last => segs[d][f.seq].hi <= segs[d][last].lo
    BY <2>1, <1>8 DEF Chain
  <2>4. segs[d][last].lo \in Nat
    <3>1. segs[d] \in Seq(Segment)
      BY <1>1, <1>2 DEF SenderTypes
    <3>2. segs[d][last] \in Segment
      BY <3>1, <1>8
    <3> QED BY <3>2 DEF Segment
  <2> QED BY SMTT(30), <2>1, <2>2, <2>3, <2>4, <1>2, <1>4, <1>6, <1>8
<1>10. app[d] \in Seq(Nat) /\ app \in [Dir -> Seq(Nat)]
  BY <1>1, <1>2 DEF ReceiverTypes
<1>11. Run(f.lo, o.hi) \in Seq(Nat) /\ Len(Run(f.lo, o.hi)) = o.hi - f.lo
  <2> DEFINE a == f.lo
  <2> DEFINE b == o.hi
  <2>1. a \in Nat /\ b \in Nat /\ a <= b
    BY <1>2, <1>6, <1>9
  <2> HIDE DEF a, b
  <2>2. Run(a, b) \in Seq(Nat) /\ Len(Run(a, b)) = b - a
    BY <2>1, RunLen
  <2> QED BY <2>2 DEF a, b
<1>12. app[d] \o Run(f.lo, o.hi) \in Seq(Nat) /\ Len(app[d] \o Run(f.lo, o.hi)) = o.hi
  <2>1. Len(app[d] \o Run(f.lo, o.hi)) = Len(app[d]) + Len(Run(f.lo, o.hi))
        /\ app[d] \o Run(f.lo, o.hi) \in Seq(Nat)
    BY <1>10, <1>11, Joined
  <2> QED BY <2>1, <1>2, <1>6, <1>7, <1>11
<1> DEFINE new == app[d] \o Run(f.lo, o.hi)
<1>13. app' = [app EXCEPT ![d] = new] /\ new \in Seq(Nat) /\ Len(new) = o.hi
  BY <1>5, <1>12
<1> HIDE DEF new
<1>14. app' \in [Dir -> Seq(Nat)]
  BY <1>10, <1>13
<1>15. expected' \in [Dir -> Nat \ {0}] /\ \A e \in Dir : expected[e] <= expected'[e]
  BY <1>1, <1>2, <1>4 DEF ReceiverTypes
<1>16. AckInv' /\ acks' \subseteq [dir : Dir, epoch : Nat, ack : Nat \ {0}]
  <2>1. acks' \subseteq acks \union AcksOnAir(d, expected'[d])
    BY <1>1, <1>2, <1>4 DEF ReceiverTypes, Acks
  <2> QED BY <2>1, <1>2, <1>15, AckOnAir
<1>17. unacked' \in [Dir -> 0 .. 1]
  <2> DEFINE T == 0 .. 1
  <2>1. Unacked(u) \in T /\ unacked \in [Dir -> T]
    BY <1>1 DEF Unacked, ReceiverTypes
  <2> HIDE DEF T
  <2>2. unacked' \in [Dir -> T]
    BY <2>1, <1>4
  <2> QED BY <2>2 DEF T
<1>18. ack_pending' \in [Dir -> BOOLEAN]
  <2>1. ack_pending \in [Dir -> BOOLEAN]
    BY <1>1 DEF ReceiverTypes
  <2>2. (ack_pending[d] \/ u = 0) \in BOOLEAN
    OBVIOUS
  <2> QED BY <2>1, <2>2, <1>4, Zenon
<1>19. ooo' \in [Dir -> SUBSET Frame] /\ \A e \in Dir : ooo'[e] \subseteq ooo[e]
  BY <1>1, <1>2, <1>4 DEF ReceiverTypes
<1>20. \A e \in Dir :
          /\ expected'[e] <= Len(segs[e]) + 1
          /\ Len(app'[e]) = IF expected'[e] = 1 THEN 0 ELSE segs[e][expected'[e] - 1].hi
  <2> SUFFICES ASSUME NEW e \in Dir
               PROVE  /\ expected'[e] <= Len(segs[e]) + 1
                      /\ Len(app'[e]) = IF expected'[e] = 1 THEN 0
                                        ELSE segs[e][expected'[e] - 1].hi
    OBVIOUS
  <2>1. CASE e = d
    <3>1. expected'[e] = last + 1 /\ app'[e] = new
      BY <2>1, <1>1, <1>4, <1>10, <1>13 DEF ReceiverTypes
    <3> QED BY <3>1, <2>1, <1>7, <1>8, <1>13
  <2>2. CASE e # d
    BY <2>2, <1>1, <1>4, <1>10, <1>13 DEF ReceiverTypes, IInv, WindowInv, AppInv
  <2> QED BY <2>1, <2>2
<1>21. ReceiverPart
  <2>1. \A e \in Dir : \A x \in ooo'[e] : Copy(x, e)
    BY <1>19 DEF IInv, OooInv
  <2>2. ReceiverTypes'
    BY <1>14, <1>15, <1>16, <1>17, <1>18, <1>19 DEF ReceiverTypes
  <2> QED BY <2>1, <2>2, <1>15, <1>16, <1>20 DEF ReceiverPart
<1>22. /\ Len(app[d]) < o.hi /\ o.hi <= FirstWaiting(d) /\ o.hi \in Nat
       /\ app' = [app EXCEPT ![d] = @ \o Run(Len(@), o.hi)]
  BY <1>5, <1>6, <1>7, <1>9
<1> QED BY <1>21, <1>22

LEMMA OutOfOrderPart ==
    ASSUME IInv, NEW f \in air, f.epoch = epoch, OutOfOrder(f), epoch' = epoch
    PROVE  ReceiverPart
<1> DEFINE d == f.dir
<1>1. SenderTypes /\ ReceiverTypes
  BY Types DEF IInv
<1>2. f \in Frame /\ d \in Dir /\ Copy(f, d)
  BY <1>1 DEF SenderTypes, Frame, IInv, AirInv
<1>3. /\ expected' = expected /\ app' = app /\ ack_pending' = ack_pending
      /\ unacked' = [unacked EXCEPT ![d] = 0]
      /\ acks' = acks \union AcksOnAir(d, expected[d])
      /\ ooo' \in {ooo, [ooo EXCEPT ![d] = {o \in @ : o.seq # f.seq} \union {f}]}
  BY DEF OutOfOrder, Acks
<1>4. AckInv' /\ acks' \subseteq [dir : Dir, epoch : Nat, ack : Nat \ {0}]
  <2>1. expected' \in [Dir -> Nat \ {0}] /\ \A e \in Dir : expected[e] <= expected'[e]
    BY <1>1, <1>3 DEF ReceiverTypes
  <2> QED BY <2>1, <1>2, <1>3, AckOnAir
<1>5. ooo' \in [Dir -> SUBSET Frame] /\ \A e \in Dir : \A o \in ooo'[e] : Copy(o, e)
  <2>1. CASE ooo' = ooo
    BY <2>1, <1>1 DEF ReceiverTypes, IInv, OooInv
  <2>2. CASE ooo' = [ooo EXCEPT ![d] = {o \in @ : o.seq # f.seq} \union {f}]
    <3>1. ooo' \in [Dir -> SUBSET Frame]
          /\ \A e \in Dir : \A o \in ooo'[e] : o \in ooo[e] \/ (e = d /\ o = f)
      BY <2>2, <1>1, <1>2 DEF ReceiverTypes
    <3> QED BY <3>1, <1>2 DEF IInv, OooInv
  <2> QED BY <2>1, <2>2, <1>3
<1>6. unacked' \in [Dir -> 0 .. 1]
  BY <1>1, <1>3, Unack DEF ReceiverTypes
<1>7. ReceiverTypes'
  BY <1>1, <1>3, <1>4, <1>5, <1>6 DEF ReceiverTypes
<1>8. \A e \in Dir : expected[e] \in Nat
  BY <1>1 DEF ReceiverTypes
<1> QED BY <1>3, <1>4, <1>5, <1>7, <1>8 DEF ReceiverPart, IInv, WindowInv, AppInv

----------------------------------------------------------------------------
(* The steps *)

LEMMA ArriveAckKeeps == ASSUME IInv, NEW f \in acks, ArriveAck(f) PROVE IInv'
<1>1. SenderTypes /\ ReceiverTypes /\ OtherTypes
  BY Types DEF IInv
<1>2. /\ acks' \subseteq acks /\ epoch' = epoch
      /\ UNCHANGED <<expected, ooo, app, ack_pending>> /\ OtherTypes'
  BY <1>1 DEF ArriveAck, sessionVars, faultVars, OtherTypes
<1>3. f.dir \in Dir /\ ack_pending' \in [Dir -> BOOLEAN] /\ unacked \in [Dir -> 0 .. 1]
  BY <1>1, <1>2 DEF ReceiverTypes
<1>4. CASE UNCHANGED <<senderVars, unacked, air>>
  <2>1. SenderPart
    BY <1>2, <1>4, SenderRests
  <2>2. ReceiverPart
    BY <1>2, <1>3, <1>4, ReceiverRests
  <2> QED BY <2>1, <2>2, <1>2, Parts
<1>5. ASSUME f.epoch = epoch, NEW n \in 0 .. CWND, NEW m \in Cuts(f.dir, n),
             OnAck(f.dir, f.ack, n, m),
             air' = air \union OnAir(f.dir, n, Batches(f.dir, FirstWaiting(f.dir), n, m)),
             unacked' = IF n > 0 THEN [unacked EXCEPT ![Rev(f.dir)] = 0] ELSE unacked
      PROVE  IInv'
  <2>1. f.ack <= expected[f.dir]
    BY <1>5 DEF IInv, AckInv
  <2>2. SenderPart
    <3> DEFINE d == f.dir
    <3> DEFINE a == f.ack
    <3>1. /\ d \in Dir /\ a <= expected[d] /\ m \in Cuts(d, n) /\ OnAck(d, a, n, m)
          /\ epoch' = epoch
          /\ air' \subseteq air \union OnAir(d, n, Batches(d, FirstWaiting(d), n, m))
      BY <2>1, <1>2, <1>3, <1>5
    <3>2. a \in Nat
      BY <1>1 DEF ReceiverTypes
    <3> HIDE DEF d, a
    <3> QED BY <3>1, <3>2, AckRead
  <2>3. unacked' \in [Dir -> 0 .. 1]
    BY <1>3, <1>5, Unack
  <2>4. ReceiverPart
    BY <2>3, <1>2, <1>3, ReceiverRests
  <2> QED BY <2>2, <2>4, <1>2, Parts
<1> QED BY <1>4, <1>5 DEF ArriveAck

LEMMA ArriveSegKeeps ==
    ASSUME IInv, NEW f \in air, ArriveSeg(f)
    PROVE  /\ IInv'
           /\ \/ UNCHANGED app
              \/ \E n \in Nat :
                    /\ Len(app[f.dir]) < n /\ n <= accepted[f.dir]
                    /\ app' = [app EXCEPT ![f.dir] = @ \o Run(Len(@), n)]
           /\ f.dir \in Dir /\ UNCHANGED <<epoch, accepted>>
<1> DEFINE d == f.dir
<1> DEFINE r == Rev(d)
<1>1. SenderTypes /\ ReceiverTypes /\ OtherTypes
  BY Types DEF IInv
<1>2. d \in Dir /\ r \in Dir /\ Rev(r) = d /\ f.seq \in Nat \ {0}
  BY <1>1, RevDir DEF SenderTypes, Frame
<1>3. OtherTypes' /\ epoch' = epoch
  BY <1>1 DEF ArriveSeg, sessionVars, faultVars, OtherTypes
<1>4. CASE air' = air \ {f} /\ UNCHANGED <<senderVars, receiverVars, acks>>
  <2>1. SenderPart
    BY <1>3, <1>4, SenderRests
  <2>2. unacked' \in [Dir -> 0 .. 1] /\ ack_pending' \in [Dir -> BOOLEAN]
    BY <1>1, <1>4 DEF receiverVars, ReceiverTypes
  <2>3. ReceiverPart
    BY <2>2, <1>3, <1>4, ReceiverRests DEF receiverVars
  <2> QED BY <2>1, <2>3, <1>2, <1>3, <1>4, Parts DEF senderVars, receiverVars
<1>5. CASE OnSeg(f)
  <2> DEFINE piggy == segs[d][f.seq].piggy
  <2>1. f.epoch = epoch
    BY <1>5 DEF OnSeg
  <2>2a. PICK n \in 0 .. CWND : \E m \in Cuts(r, n) :
           /\ OnAck(r, piggy, n, m)
           /\ air' = (air \ {f}) \union OnAir(r, n, Batches(r, FirstWaiting(r), n, m))
           /\ \/ \E last \in f.seq .. Limit(d) : InOrder(f, last, IF n > 0 THEN 0 ELSE unacked[d])
              \/ OutOfOrder(f)
    BY <1>5 DEF OnSeg
  <2>2. PICK m \in Cuts(r, n) :
           /\ OnAck(r, piggy, n, m)
           /\ air' = (air \ {f}) \union OnAir(r, n, Batches(r, FirstWaiting(r), n, m))
           /\ \/ \E last \in f.seq .. Limit(d) : InOrder(f, last, IF n > 0 THEN 0 ELSE unacked[d])
              \/ OutOfOrder(f)
    BY <2>2a
  <2>3. SenderPart
    <3>1. Copy(f, d) /\ Len(segs[d]) \in Nat
      BY <2>1, <1>1, <1>2, Lengths DEF IInv, AirInv
    <3>2. f.seq \in 1 .. Len(segs[d])
      BY <3>1, <1>2 DEF Copy
    <3>3. piggy <= expected[r]
      BY <3>2, <1>2 DEF IInv, PiggyInv
    <3>5. piggy \in Nat
      <4>1. segs[d] \in Seq(Segment)
        BY <1>1, <1>2 DEF SenderTypes
      <4>2. segs[d][f.seq] \in Segment
        BY <4>1, <3>2
      <4> QED BY <4>2 DEF Segment
    <3>4. /\ r \in Dir /\ n \in 0 .. CWND /\ m \in Cuts(r, n) /\ OnAck(r, piggy, n, m)
          /\ epoch' = epoch
          /\ air' \subseteq air \union OnAir(r, n, Batches(r, FirstWaiting(r), n, m))
      BY <2>2, <1>2, <1>3
    <3> HIDE DEF piggy, r
    <3> QED BY <3>3, <3>4, <3>5, AckRead
  <2>4. UNCHANGED accepted
    BY <2>2 DEF OnAck
  <2>5. (IF n > 0 THEN 0 ELSE unacked[d]) \in 0 .. 1
    BY <1>1, <1>2 DEF ReceiverTypes
  <2>6. accepted[d] \in Nat /\ backlog[d] \in Nat /\ FirstWaiting(d) <= accepted[d]
        /\ FirstWaiting(d) \in Nat
    BY <1>1, <1>2 DEF SenderTypes, FirstWaiting, IInv, ChainInv
  <2>7. CASE OutOfOrder(f)
    <3>1. ReceiverPart
      BY <2>1, <2>7, <1>3, OutOfOrderPart
    <3>2. UNCHANGED app
      BY <2>7 DEF OutOfOrder
    <3> QED BY <3>1, <3>2, <2>3, <2>4, <1>2, <1>3, Parts
  <2>8. CASE \E last \in f.seq .. Limit(d) : InOrder(f, last, IF n > 0 THEN 0 ELSE unacked[d])
    <3>1. PICK last \in f.seq .. Limit(d) : InOrder(f, last, IF n > 0 THEN 0 ELSE unacked[d])
      BY <2>8
    <3>2. last \in Nat
      BY <1>2
    <3>3. /\ ReceiverPart
          /\ \E k \in Nat : /\ Len(app[d]) < k /\ k <= FirstWaiting(d)
                            /\ app' = [app EXCEPT ![d] = @ \o Run(Len(@), k)]
      BY <3>1, <3>2, <2>1, <2>5, <1>3, InOrderPart
    <3>4. PICK k \in Nat : /\ Len(app[d]) < k /\ k <= FirstWaiting(d)
                          /\ app' = [app EXCEPT ![d] = @ \o Run(Len(@), k)]
      BY <3>3
    <3>5. k <= accepted[d]
      BY <3>4, <2>6
    <3> QED BY <3>3, <3>4, <3>5, <2>3, <2>4, <1>2, <1>3, Parts
  <2> QED BY <2>2, <2>7, <2>8
<1> QED BY <1>4, <1>5 DEF ArriveSeg

LEMMA DelayedAckKeeps == ASSUME IInv, NEW d \in Dir, DelayedAck(d) PROVE IInv'
<1>1. SenderTypes /\ ReceiverTypes /\ OtherTypes
  BY Types DEF IInv
<1>2. /\ UNCHANGED <<senderVars, expected, ooo, app, air, epoch>> /\ OtherTypes'
      /\ unacked' = [unacked EXCEPT ![d] = 0] /\ ack_pending' = [ack_pending EXCEPT ![d] = FALSE]
      /\ acks' \subseteq acks \union AcksOnAir(d, expected'[d])
  BY <1>1 DEF DelayedAck, sessionVars, faultVars, OtherTypes
<1>3. unacked' \in [Dir -> 0 .. 1]
  BY <1>1, <1>2, Unack DEF ReceiverTypes
<1>4. ack_pending' \in [Dir -> BOOLEAN]
  <2>1. ack_pending \in [Dir -> BOOLEAN]
    BY <1>1 DEF ReceiverTypes
  <2> QED BY <2>1, <1>2, Zenon
<1>5. /\ expected' \in [Dir -> Nat \ {0}] /\ \A e \in Dir : expected[e] <= expected'[e]
      /\ \A e \in Dir : expected[e] \in Nat
  BY <1>1, <1>2 DEF ReceiverTypes
<1>6. AckInv' /\ acks' \subseteq [dir : Dir, epoch : Nat, ack : Nat \ {0}]
  BY <1>2, <1>5, AckOnAir
<1>7. ReceiverPart
  <2>1. ReceiverTypes'
    BY <1>1, <1>2, <1>3, <1>4, <1>6 DEF ReceiverTypes
  <2> QED BY <2>1, <1>2, <1>5, <1>6 DEF ReceiverPart, IInv, WindowInv, AppInv, OooInv
<1>8. SenderPart
  BY <1>2, SenderRests
<1> QED BY <1>2, <1>7, <1>8, Parts

\* A new session: nothing of the old one belongs to it.
LEMMA FreshKeeps ==
    ASSUME IInv, Fresh, epoch' = epoch + 1, down' \in BOOLEAN, UNCHANGED <<alive, airVars>>,
           budget' \in [RadioEvents -> Nat], hurt' \in BOOLEAN
    PROVE  IInv'
<1>1. SenderTypes /\ ReceiverTypes /\ OtherTypes /\ epoch \in Nat
  BY Types DEF IInv, OtherTypes
<1>2. \A d \in Dir : /\ segs'[d] = <<>> /\ una'[d] = 1 /\ accepted'[d] = 0 /\ backlog'[d] = 0
                     /\ expected'[d] = 1 /\ ooo'[d] = {} /\ app'[d] = <<>>
  BY DEF Fresh
<1>3. SenderTypes'
  BY <1>1 DEF Fresh, SenderTypes, airVars
<1>4. ReceiverTypes'
  <2>1. ack_pending' \in [Dir -> BOOLEAN]
    BY Zenon DEF Fresh
  <2>2. unacked' \in [Dir -> 0 .. 1]
    BY DEF Fresh
  <2> QED BY <2>1, <2>2, <1>1 DEF Fresh, ReceiverTypes, airVars
<1>5. TypeOK'
  <2>1. OtherTypes'
    BY <1>1 DEF OtherTypes
  <2> QED BY <2>1, <1>3, <1>4, Types, PTL
<1>6. BacklogWaits' /\ WindowInv' /\ AppInv' /\ OooInv' /\ PiggyInv'
  BY <1>2 DEF BacklogWaits, WindowInv, AppInv, OooInv, PiggyInv
<1>7. ChainInv'
  BY <1>2 DEF ChainInv, Chain, FirstWaiting
<1>8. AirInv' /\ AckInv'
  <2>1. \A f \in air' \union acks' : f.epoch \in Nat /\ f.epoch <= epoch
    BY <1>1 DEF IInv, AirInv, AckInv, airVars, SenderTypes, ReceiverTypes, Frame
  <2>2. \A f \in air' \union acks' : f.epoch <= epoch' /\ f.epoch # epoch'
    BY <2>1, <1>1
  <2> QED BY <2>2 DEF AirInv, AckInv
<1> QED BY <1>5, <1>6, <1>7, <1>8 DEF IInv

LEMMA OthersKeep ==
    ASSUME IInv, UNCHANGED <<senderVars, receiverVars, epoch>>, air' \subseteq air,
           acks' \subseteq acks, OtherTypes'
    PROVE  IInv'
<1>1. ReceiverTypes
  BY Types DEF IInv
<1>2. unacked' \in [Dir -> 0 .. 1] /\ ack_pending' \in [Dir -> BOOLEAN]
  BY <1>1 DEF receiverVars, ReceiverTypes
<1>3. SenderPart /\ ReceiverPart
  BY <1>2, SenderRests, ReceiverRests DEF receiverVars
<1> QED BY <1>3, Parts

LEMMA InitInv == Init => IInv
<1> SUFFICES ASSUME Init PROVE IInv
  OBVIOUS
<1>1. /\ epoch = 0 /\ air = {} /\ acks = {}
      /\ \A d \in Dir : /\ segs[d] = <<>> /\ una[d] = 1 /\ accepted[d] = 0 /\ backlog[d] = 0
                        /\ expected[d] = 1 /\ ooo[d] = {} /\ app[d] = <<>>
  BY DEF Init
<1>2. SenderTypes
  BY DEF Init, SenderTypes
<1>3. ReceiverTypes
  <2>1. ack_pending \in [Dir -> BOOLEAN]
    BY Zenon DEF Init
  <2>2. unacked \in [Dir -> 0 .. 1]
    BY DEF Init
  <2> QED BY <2>1, <2>2 DEF Init, ReceiverTypes
<1>4. OtherTypes
  <2>1. alive \in [Node -> BOOLEAN]
    BY Zenon DEF Init
  <2>2. budget \in [RadioEvents -> Nat]
    BY RouterAssumption DEF Init
  <2> QED BY <2>1, <2>2 DEF Init, OtherTypes
<1>5. TypeOK
  BY <1>2, <1>3, <1>4, Types
<1>6. BacklogWaits /\ WindowInv /\ AppInv /\ OooInv /\ PiggyInv /\ AirInv /\ AckInv
  BY <1>1 DEF BacklogWaits, WindowInv, AppInv, OooInv, PiggyInv, AirInv, AckInv
<1>7. ChainInv
  BY <1>1 DEF ChainInv, Chain, FirstWaiting
<1> QED BY <1>5, <1>6, <1>7 DEF IInv

LEMMA FaultTypes ==
    ASSUME OtherTypes, NEW k \in RadioEvents, Fault(k)
    PROVE  budget' \in [RadioEvents -> Nat] /\ hurt' \in BOOLEAN
<1>1. budget \in [RadioEvents -> Nat] /\ budget[k] > 0 /\ budget' = [budget EXCEPT ![k] = @ - 1]
  BY DEF OtherTypes, Fault, Spend
<1>2. budget[k] - 1 \in Nat
  BY <1>1
<1>3. budget' \in [RadioEvents -> Nat]
  BY <1>1, <1>2
<1>4. hurt' = TRUE
  BY DEF Fault
<1>5. hurt' \in BOOLEAN
  BY <1>4, Zenon
<1> QED BY <1>3, <1>5

\* What the channel sees of a step.
ChanStep == [ImplementsChannel!ChanNext]_<<epoch, accepted, app>>

\* Every step keeps the invariant, and is a step of the channel or none.
LEMMA StepKeeps == ASSUME IInv, [Next]_vars PROVE IInv' /\ ChanStep
<1>1. SenderTypes /\ ReceiverTypes /\ OtherTypes
  BY Types DEF IInv
<1>2. ASSUME UNCHANGED <<epoch, accepted, app>> PROVE ChanStep
  BY <1>2 DEF ChanStep
<1>3. ASSUME Fresh, epoch' = epoch + 1 PROVE ChanStep
  BY <1>3 DEF ChanStep, Fresh, ImplementsChannel!ChanNext, ImplementsChannel!NextSession
<1>4. CASE UNCHANGED vars
  <2>1. OtherTypes'
    BY <1>1, <1>4 DEF vars, sessionVars, faultVars, OtherTypes
  <2> QED BY <2>1, <1>2, <1>4, OthersKeep DEF vars, senderVars, receiverVars, sessionVars, airVars
<1>5. ASSUME NEW d \in Dir, NEW reliable \in BOOLEAN, Send(d, reliable) PROVE IInv' /\ ChanStep
  <2>1. ImplementsChannel!Accept(d)
    BY <1>5 DEF Send, ImplementsChannel!Accept, sessionVars
  <2>2. ChanStep
    BY <2>1 DEF ChanStep, ImplementsChannel!ChanNext
  <2> QED BY <2>2, <1>5, SendKeeps
<1>6. ASSUME NEW d \in Dir, NEW s \in Inflight(d), Rto(d, s) PROVE IInv' /\ ChanStep
  BY <1>2, <1>6, RtoKeeps DEF Rto, sessionVars
<1>7. ASSUME NEW f \in acks, ArriveAck(f) PROVE IInv' /\ ChanStep
  <2>1. UNCHANGED <<epoch, accepted, app>>
    BY <1>7 DEF ArriveAck, OnAck, sessionVars, senderVars
  <2> QED BY <2>1, <1>2, <1>7, ArriveAckKeeps
<1>8. ASSUME NEW f \in air, ArriveSeg(f) PROVE IInv' /\ ChanStep
  <2> DEFINE d == f.dir
  <2>1. /\ IInv' /\ d \in Dir /\ UNCHANGED <<epoch, accepted>>
        /\ \/ UNCHANGED app
           \/ \E n \in Nat : /\ Len(app[d]) < n /\ n <= accepted[d]
                             /\ app' = [app EXCEPT ![d] = @ \o Run(Len(@), n)]
    BY <1>8, ArriveSegKeeps
  <2>2. CASE \E n \in Nat : /\ Len(app[d]) < n /\ n <= accepted[d]
                            /\ app' = [app EXCEPT ![d] = @ \o Run(Len(@), n)]
    <3>1. PICK n \in Nat : /\ Len(app[d]) < n /\ n <= accepted[d]
                          /\ app' = [app EXCEPT ![d] = @ \o Run(Len(@), n)]
      BY <2>2
    <3>2. n \in Len(app[d]) + 1 .. accepted[d]
      <4>1. app[d] \in Seq(Nat) /\ accepted[d] \in Nat
        BY <2>1, <1>1 DEF SenderTypes, ReceiverTypes
      <4>2. Len(app[d]) \in Nat
        BY <4>1, LenProperties
      <4> QED BY <3>1, <4>1, <4>2
    <3>3. ImplementsChannel!HandOver(d)
      BY <3>1, <3>2, <2>1 DEF ImplementsChannel!HandOver, ImplementsChannel!Run, Run
    <3> QED BY <3>3, <2>1 DEF ChanStep, ImplementsChannel!ChanNext
  <2> QED BY <2>1, <2>2, <1>2
<1>9. ASSUME NEW d \in Dir, DelayedAck(d) PROVE IInv' /\ ChanStep
  BY <1>2, <1>9, DelayedAckKeeps DEF DelayedAck, sessionVars, senderVars
<1>10. ASSUME LeaseOver PROVE IInv' /\ ChanStep
  <2>1. /\ Fresh /\ epoch' = epoch + 1 /\ down' \in BOOLEAN /\ UNCHANGED <<alive, airVars>>
        /\ UNCHANGED faultVars \/ Fault("delay")
    BY <1>10 DEF LeaseOver, Close
  <2>2. budget' \in [RadioEvents -> Nat] /\ hurt' \in BOOLEAN
    <3>1. CASE UNCHANGED faultVars
      BY <3>1, <1>1 DEF faultVars, OtherTypes
    <3>2. CASE Fault("delay")
      BY <3>2, <1>1, FaultTypes DEF RadioEvents
    <3> QED BY <3>1, <3>2, <2>1
  <2> QED BY <2>1, <2>2, <1>3, FreshKeeps
<1>11. ASSUME Reopen PROVE IInv' /\ ChanStep
  <2>1. /\ Fresh /\ epoch' = epoch + 1 /\ down' \in BOOLEAN /\ UNCHANGED <<alive, airVars>>
        /\ budget' \in [RadioEvents -> Nat] /\ hurt' \in BOOLEAN
    BY <1>11, <1>1 DEF Reopen, faultVars, OtherTypes
  <2> QED BY <2>1, <1>3, FreshKeeps
<1>12. ASSUME NEW x \in Node, Kill(x) \/ Revive(x) PROVE IInv' /\ ChanStep
  <2>1. UNCHANGED <<sessionVars, senderVars, receiverVars, airVars>>
    BY <1>12 DEF Kill, Revive
  <2>2. alive' \in [Node -> BOOLEAN]
    <3>1. alive \in [Node -> BOOLEAN] /\ alive' \in {[alive EXCEPT ![x] = FALSE], [alive EXCEPT ![x] = TRUE]}
      BY <1>12, <1>1 DEF Kill, Revive, OtherTypes
    <3> QED BY <3>1, Zenon
  <2>3. budget' \in [RadioEvents -> Nat] /\ hurt' \in BOOLEAN
    <3>1. CASE Kill(x)
      BY <3>1, <1>1, FaultTypes DEF Kill, RadioEvents
    <3>2. CASE Revive(x)
      BY <3>2, <1>1 DEF Revive, faultVars, OtherTypes
    <3> QED BY <3>1, <3>2, <1>12
  <2>4. OtherTypes'
    BY <2>1, <2>2, <2>3, <1>1 DEF OtherTypes, sessionVars
  <2> QED BY <2>1, <2>4, <1>2, OthersKeep DEF sessionVars, senderVars, receiverVars, airVars
<1>13. ASSUME Lose PROVE IInv' /\ ChanStep
  <2>1. UNCHANGED <<sessionVars, alive, senderVars, receiverVars>> /\ air' \subseteq air
        /\ acks' \subseteq acks
    BY <1>13 DEF Lose
  <2>2. budget' \in [RadioEvents -> Nat] /\ hurt' \in BOOLEAN
    BY <1>13, <1>1, FaultTypes DEF Lose, RadioEvents
  <2>3. OtherTypes'
    BY <2>1, <2>2, <1>1 DEF OtherTypes, sessionVars
  <2> QED BY <2>1, <2>3, <1>2, OthersKeep DEF sessionVars, senderVars, receiverVars
<1> QED
  BY <1>4, <1>5, <1>6, <1>7, <1>8, <1>9, <1>10, <1>11, <1>12, <1>13 DEF Next

----------------------------------------------------------------------------
(* A session without a fault *)

\* Segment s is received, or a copy is on the air.
Reaches(d, s) ==
    \/ s < expected[d]
    \/ \E o \in ooo[d] : o.seq = s
    \/ \E f \in air : f.dir = d /\ f.epoch = epoch /\ f.seq = s

\* What was received is acked, or will be: the timer runs, or the ack is on the air,
\* alone or on a segment of the other direction.
PiggyComes(d) ==
    \E f \in air : f.dir = Rev(d) /\ f.epoch = epoch /\ segs[Rev(d)][f.seq].piggy = expected[d]
AckComes(d) ==
    \/ una[d] = expected[d]
    \/ unacked[d] > 0
    \/ \E f \in acks : f.dir = d /\ f.epoch = epoch /\ f.ack = expected[d]
    \/ PiggyComes(d)

Receives(d) ==
    /\ \A s \in 1 .. Len(segs[d]) : Reaches(d, s)
    /\ \A o \in ooo[d] : o.seq > expected[d]
    /\ unacked[d] > 0 => ack_pending[d]

Whole ==
    /\ epoch = 0 /\ ~down /\ \A x \in Node : alive[x]
    /\ \A d \in Dir : Receives(d) /\ AckComes(d)
WholeInv == ~hurt => Whole

\* What batches add: the old segments stay, and the first new one takes the ack along.
LEMMA Batched ==
    ASSUME IInv, NEW d \in Dir, NEW n \in Nat, NEW m \in [1 .. n -> Nat],
           segs' = [segs EXCEPT ![d] = @ \o Batches(d, FirstWaiting(d), n, m)]
    PROVE  /\ Len(segs[d]) \in Nat /\ Len(segs'[d]) = Len(segs[d]) + n
           /\ \A s \in 1 .. Len(segs[d]) : segs'[d][s] = segs[d][s]
           /\ n > 0 => segs'[d][Len(segs[d]) + 1].piggy = Piggy(d)
           /\ segs'[Rev(d)] = segs[Rev(d)]
<1> DEFINE B == Batches(d, FirstWaiting(d), n, m)
<1>1. segs \in [Dir -> Seq(Segment)] /\ TypeOK /\ Rev(d) \in Dir /\ Rev(d) # d
  BY RevDir DEF IInv, TypeOK, Segment
<1>2. FirstWaiting(d) \in Nat
  BY <1>1 DEF IInv, ChainInv, FirstWaiting, TypeOK
<1>3. B \in Seq(Segment) /\ Len(B) = n
  <2> DEFINE a == FirstWaiting(d)
  <2>1. a \in Nat /\ TypeOK
    BY <1>1, <1>2
  <2> HIDE DEF a
  <2>2. Batches(d, a, n, m) \in Seq(Segment) /\ Len(Batches(d, a, n, m)) = n
    BY <2>1, SMTT(30), BatchShape
  <2> QED BY <2>2 DEF a
<1>4. n > 0 => 1 \in 1 .. n /\ B[1].piggy = Piggy(d)
  BY DEF Batches
<1> HIDE DEF B
<1>5. segs' = [segs EXCEPT ![d] = segs[d] \o B]
  BY DEF B
<1>6. segs'[d] = segs[d] \o B /\ segs'[Rev(d)] = segs[Rev(d)] /\ segs[d] \in Seq(Segment)
  BY <1>1, <1>5
<1>7. /\ Len(segs[d]) \in Nat /\ Len(segs'[d]) = Len(segs[d]) + n
      /\ \A s \in 1 .. Len(segs[d]) : segs'[d][s] = segs[d][s]
      /\ \A i \in 1 .. n : segs'[d][Len(segs[d]) + i] = B[i]
  <2> DEFINE S == segs[d]
  <2> DEFINE T == segs'[d]
  <2>1. S \in Seq(Segment) /\ B \in Seq(Segment) /\ Len(B) = n /\ T = S \o B
    BY <1>3, <1>6
  <2> HIDE DEF S, T
  <2>2. Len(S) \in Nat /\ Len(T) = Len(S) + n
    BY <2>1, ConcatProperties, LenProperties
  <2>3. \A i \in 1 .. Len(S) + n : T[i] = IF i <= Len(S) THEN S[i] ELSE B[i - Len(S)]
    BY <2>1, ConcatProperties
  <2>4. \A s \in 1 .. Len(S) : T[s] = S[s]
    BY <2>2, <2>3
  <2>5. ASSUME NEW i \in 1 .. n PROVE T[Len(S) + i] = B[i]
    <3>1. /\ Len(S) + i \in 1 .. Len(S) + n /\ ~(Len(S) + i <= Len(S))
          /\ (Len(S) + i) - Len(S) = i
      BY <2>2
    <3> QED BY <3>1, <2>3
  <2> QED BY <2>2, <2>4, <2>5 DEF S, T
<1> QED BY <1>4, <1>6, <1>7

\* The frames of batches of a router that is up.
LEMMA OnTheAir ==
    ASSUME NEW d \in Dir, NEW n \in Nat, NEW B, alive[Src(d)], NEW i \in 1 .. n
    PROVE  \E f \in OnAir(d, n, B) : f.dir = d /\ f.epoch = epoch /\ f.seq = Len(segs[d]) + i
<1>1. SegFrame(d, Len(segs[d]) + i, B[i], 1) \in OnAir(d, n, B)
  BY DEF OnAir
<1> QED BY <1>1 DEF SegFrame

\* Batches are on the air, and the direction of the sender still reaches its receiver.
LEMMA BatchesReach ==
    ASSUME IInv, NEW d \in Dir, NEW n \in Nat, NEW m \in [1 .. n -> Nat], alive[Src(d)],
           segs' = [segs EXCEPT ![d] = @ \o Batches(d, FirstWaiting(d), n, m)],
           OnAir(d, n, Batches(d, FirstWaiting(d), n, m)) \subseteq air',
           \A f \in air : f.dir = d => f \in air',
           UNCHANGED <<expected[d], ooo[d], unacked[d], ack_pending[d], epoch>>, Receives(d)
    PROVE  Receives(d)'
<1> DEFINE k == Len(segs[d])
<1>1. k \in Nat /\ Len(segs'[d]) = k + n
  BY Batched
<1>2. ASSUME NEW s \in 1 .. Len(segs'[d]) PROVE Reaches(d, s)'
  <2>1. CASE s <= k
    <3>1. Reaches(d, s)
      BY <2>1, <1>1 DEF Receives
    <3> QED BY <3>1 DEF Reaches
  <2>2. CASE s > k
    <3>1. s - k \in 1 .. n /\ k + (s - k) = s
      BY <2>2, <1>1
    <3>2. \E f \in OnAir(d, n, Batches(d, FirstWaiting(d), n, m)) :
             f.dir = d /\ f.epoch = epoch /\ f.seq = k + (s - k)
      <4> DEFINE i == s - k
      <4>1. i \in 1 .. n
        BY <3>1
      <4> HIDE DEF i
      <4>2. \E f \in OnAir(d, n, Batches(d, FirstWaiting(d), n, m)) :
               f.dir = d /\ f.epoch = epoch /\ f.seq = k + i
        BY <4>1, OnTheAir
      <4> QED BY <4>2 DEF i
    <3> QED BY <3>1, <3>2 DEF Reaches
  <2> QED BY <2>1, <2>2, <1>1
<1> QED BY <1>2 DEF Receives

\* What d sends takes the ack of the other direction along that was pending.
LEMMA BatchesAck ==
    ASSUME IInv, NEW d \in Dir, NEW n \in Nat, NEW m \in [1 .. n -> Nat], alive[Src(d)],
           segs' = [segs EXCEPT ![d] = @ \o Batches(d, FirstWaiting(d), n, m)],
           air' = air \union OnAir(d, n, Batches(d, FirstWaiting(d), n, m)),
           UNCHANGED <<expected[Rev(d)], una[Rev(d)], epoch>>,
           \A f \in acks : f.dir = Rev(d) => f \in acks',
           n = 0 => unacked'[Rev(d)] = unacked[Rev(d)], AckComes(Rev(d))
    PROVE  AckComes(Rev(d))'
<1> DEFINE e == Rev(d)
<1> DEFINE k == Len(segs[d])
<1>1. /\ k \in Nat /\ Len(segs'[d]) = k + n
      /\ \A s \in 1 .. k : segs'[d][s] = segs[d][s]
      /\ n > 0 => segs'[d][k + 1].piggy = Piggy(d)
  BY Batched
<1>2. e \in Dir /\ Rev(e) = d
  BY RevDir
<1>3. CASE una[e] = expected[e] \/ \E f \in acks : f.dir = e /\ f.epoch = epoch /\ f.ack = expected[e]
  BY <1>3 DEF AckComes
<1>4. CASE unacked[e] > 0 /\ n = 0
  BY <1>4 DEF AckComes
<1>5. CASE unacked[e] > 0 /\ n # 0
  <2>1. 1 \in 1 .. n /\ Piggy(d) = expected[e]
    BY <1>5 DEF Piggy
  <2>2. \E f \in OnAir(d, n, Batches(d, FirstWaiting(d), n, m)) :
           f.dir = d /\ f.epoch = epoch /\ f.seq = k + 1
    BY <2>1, OnTheAir
  <2>3. \E f \in air' : f.dir = d /\ f.epoch = epoch' /\ segs'[d][f.seq].piggy = expected'[e]
    BY <2>1, <2>2, <1>1
  <2> QED BY <2>3, <1>2 DEF AckComes, PiggyComes
<1>6. CASE PiggyComes(e)
  <2>1. PICK f \in air : f.dir = d /\ f.epoch = epoch /\ segs[d][f.seq].piggy = expected[e]
    BY <1>2, <1>6 DEF PiggyComes
  <2>2. f.seq \in 1 .. k
    BY <2>1, <1>1 DEF IInv, AirInv, Copy, TypeOK, Frame
  <2>3. f \in air' /\ segs'[d][f.seq].piggy = expected'[e]
    BY <2>1, <2>2, <1>1
  <2> QED BY <2>1, <2>3, <1>2 DEF AckComes, PiggyComes
<1> QED BY <1>3, <1>4, <1>5, <1>6 DEF AckComes

\* The sender of d reads the ack a, which may have been the one to come.
LEMMA ReadingAck ==
    ASSUME IInv, NEW d \in Dir, NEW a \in Nat, a <= expected[d],
           una'[d] = Later(una[d], a), segs'[Rev(d)] = segs[Rev(d)],
           UNCHANGED <<expected[d], unacked[d], epoch>>,
           \A f \in acks : f.dir = d /\ f.ack # a => f \in acks',
           \A f \in air : f.dir = Rev(d) /\ segs[Rev(d)][f.seq].piggy # a => f \in air',
           AckComes(d)
    PROVE  AckComes(d)'
<1>1. una[d] \in Nat /\ expected[d] \in Nat /\ una[d] <= expected[d]
  BY DEF IInv, TypeOK, WindowInv
<1>2. CASE una[d] = expected[d] \/ a = expected[d]
  <2>1. una'[d] = expected[d]
    BY <1>1, <1>2 DEF Later
  <2> QED BY <2>1 DEF AckComes
<1>3. CASE unacked[d] > 0
  BY <1>3 DEF AckComes
<1>4. CASE a # expected[d] /\ \E f \in acks : f.dir = d /\ f.epoch = epoch /\ f.ack = expected[d]
  BY <1>4 DEF AckComes
<1>5. CASE a # expected[d] /\ PiggyComes(d)
  BY <1>5 DEF AckComes, PiggyComes
<1> QED BY <1>2, <1>3, <1>4, <1>5 DEF AckComes

\* Nothing is sent or received in d.
LEMMA ReceivesRests ==
    ASSUME NEW d \in Dir, Len(segs'[d]) = Len(segs[d]), UNCHANGED <<expected[d], ooo[d], epoch>>,
           \A f \in air : f.dir = d => f \in air', unacked'[d] > 0 => ack_pending'[d], Receives(d)
    PROVE  Receives(d)'
<1>1. \A s \in 1 .. Len(segs[d]) : Reaches(d, s)'
  BY DEF Receives, Reaches
<1> QED BY <1>1 DEF Receives

LEMMA AckRests ==
    ASSUME NEW d \in Dir, UNCHANGED <<expected[d], una[d], unacked[d], epoch>>,
           \A f \in acks : f.dir = d => f \in acks', air \subseteq air',
           \A f \in air : f.dir = Rev(d) /\ f.epoch = epoch /\ segs[Rev(d)][f.seq].piggy = expected[d]
                          => segs'[Rev(d)][f.seq].piggy = expected[d],
           AckComes(d)
    PROVE  AckComes(d)'
<1>1. PiggyComes(d) => PiggyComes(d)'
  BY DEF PiggyComes
<1> QED BY <1>1 DEF AckComes

\* The segment in turn: what waited for it is received too, and the ack is due.
LEMMA TurnReceived ==
    ASSUME IInv, NEW f \in air, f.epoch = epoch, NEW last \in Nat, NEW u \in 0 .. 1,
           InOrder(f, last, u), u = unacked[f.dir] \/ u = 0, alive[Dst(f.dir)],
           epoch' = epoch, segs'[f.dir] = segs[f.dir], air \ {f} \subseteq air',
           Receives(f.dir)
    PROVE  Receives(f.dir)' /\ AckComes(f.dir)'
<1> DEFINE d == f.dir
<1>1. /\ d \in Dir /\ f.seq \in Nat /\ expected[d] \in Nat /\ expected \in [Dir -> Nat \ {0}]
      /\ ooo \in [Dir -> SUBSET Frame] /\ ack_pending \in [Dir -> BOOLEAN]
      /\ DOMAIN unacked = Dir /\ DOMAIN ack_pending = Dir
  BY DEF IInv, TypeOK, Frame
<1>2. /\ f.seq = expected[d] /\ last >= f.seq
      /\ \A k \in f.seq + 1 .. last : \E o \in ooo[d] : o.seq = k
      /\ ~ \E o \in ooo[d] : o.seq = last + 1
      /\ expected'[d] = last + 1
      /\ ooo'[d] = {o \in ooo[d] : o.seq > last}
  BY <1>1 DEF InOrder, Turn
<1>3. /\ unacked' = [unacked EXCEPT ![d] = Unacked(u)]
      /\ ack_pending' = [ack_pending EXCEPT ![d] = @ \/ u = 0]
      /\ acks' = IF u = 0 THEN acks ELSE acks \union AcksOnAir(d, last + 1)
  BY DEF InOrder, Acks
<1>4. \A o \in ooo[d] : o.seq \in Nat
  BY <1>1 DEF Frame
<1>5. ASSUME NEW s \in 1 .. Len(segs[d]) PROVE Reaches(d, s)'
  <2>1. Reaches(d, s)
    BY <1>5 DEF Receives
  <2>2. CASE s <= last
    BY <1>2, <2>2 DEF Reaches
  <2>3. CASE s > last /\ \E o \in ooo[d] : o.seq = s
    BY <1>2, <2>3 DEF Reaches
  <2>4. CASE s > last /\ \E g \in air : g.dir = d /\ g.epoch = epoch /\ g.seq = s
    <3>1. PICK g \in air : g.dir = d /\ g.epoch = epoch /\ g.seq = s
      BY <2>4
    <3>2. g # f
      BY <3>1, <2>4, <1>1, <1>2
    <3> QED BY <3>1, <3>2 DEF Reaches
  <2> QED BY <2>1, <2>2, <2>3, <2>4, <1>1, <1>2 DEF Reaches
<1>6. \A o \in ooo'[d] : o.seq > expected'[d]
  BY <1>2, <1>4
<1>7. unacked'[d] = Unacked(u)
  BY <1>1, <1>3
<1>8. CASE u = 0
  <2>1. unacked'[d] > 0
    BY <1>7, <1>8 DEF Unacked
  <2>2. ack_pending'[d]
    BY <1>1, <1>3, <1>8, Zenon
  <2> QED BY <2>1, <2>2, <1>5, <1>6 DEF Receives, AckComes
<1>9. CASE u # 0
  <2>1. ~(unacked'[d] > 0)
    BY <1>7, <1>9 DEF Unacked
  <2>2. AckFrame(d, last + 1) \in acks'
    BY <1>3, <1>9 DEF AcksOnAir
  <2>3. AckComes(d)'
    BY <2>2, <1>2 DEF AckComes, AckFrame
  <2> QED BY <2>1, <2>3, <1>5, <1>6 DEF Receives
<1> QED BY <1>8, <1>9

\* Another segment: it waits, or was received before, and is acked at once.
LEMMA OtherReceived ==
    ASSUME IInv, NEW f \in air, f.epoch = epoch, OutOfOrder(f), alive[Dst(f.dir)],
           epoch' = epoch, segs'[f.dir] = segs[f.dir], air \ {f} \subseteq air',
           Receives(f.dir)
    PROVE  Receives(f.dir)' /\ AckComes(f.dir)'
<1> DEFINE d == f.dir
<1>1. /\ d \in Dir /\ f.seq \in Nat /\ expected[d] \in Nat
      /\ ooo \in [Dir -> SUBSET Frame] /\ DOMAIN unacked = Dir
  BY DEF IInv, TypeOK, Frame
<1>2. /\ f.seq # expected[d] /\ expected' = expected
      /\ ooo' = IF f.seq > expected[d]
                THEN [ooo EXCEPT ![d] = {o \in @ : o.seq # f.seq} \union {f}] ELSE ooo
      /\ unacked' = [unacked EXCEPT ![d] = 0]
      /\ acks' = acks \union AcksOnAir(d, expected[d])
  BY DEF OutOfOrder, Turn, Acks
<1>3. \A o \in ooo[d] : \E x \in ooo'[d] : x.seq = o.seq
  BY <1>1, <1>2
<1>4. f.seq > expected[d] => f \in ooo'[d]
  BY <1>1, <1>2
<1>5. \A o \in ooo'[d] : o \in ooo[d] \/ (o = f /\ f.seq > expected[d])
  BY <1>1, <1>2
<1>6. ASSUME NEW s \in 1 .. Len(segs[d]) PROVE Reaches(d, s)'
  <2>1. Reaches(d, s)
    BY <1>6 DEF Receives
  <2>2. CASE s < expected[d]
    BY <2>2, <1>2 DEF Reaches
  <2>3. CASE \E o \in ooo[d] : o.seq = s
    BY <2>3, <1>3 DEF Reaches
  <2>4. CASE \E g \in air : g # f /\ g.dir = d /\ g.epoch = epoch /\ g.seq = s
    BY <2>4 DEF Reaches
  <2>5. CASE f.seq = s
    BY <2>5, <1>1, <1>2, <1>4 DEF Reaches
  <2> QED BY <2>1, <2>2, <2>3, <2>4, <2>5 DEF Reaches
<1>7. unacked'[d] = 0 /\ \A o \in ooo'[d] : o.seq > expected'[d]
  BY <1>1, <1>2, <1>5 DEF Receives
<1>8. AckFrame(d, expected[d]) \in acks'
  BY <1>2 DEF AcksOnAir
<1>9. AckComes(d)'
  BY <1>2, <1>8 DEF AckComes, AckFrame
<1> QED BY <1>6, <1>7, <1>9 DEF Receives

----------------------------------------------------------------------------
(* The steps of a session without a fault *)

LEMMA EndsUp == Whole => \A d \in Dir : alive[Src(d)] /\ alive[Dst(d)]
<1>1. \A d \in Dir : Src(d) \in Node /\ Dst(d) \in Node
  BY DEF Src, Dst, Node
<1> QED BY <1>1 DEF Whole

\* Both directions keep their part, and nothing else of the session changes.
LEMMA WholeAgain ==
    ASSUME Whole, UNCHANGED <<epoch, down, alive>>,
           \A d \in Dir : Receives(d)' /\ AckComes(d)'
    PROVE  Whole'
BY DEF Whole

LEMMA SendWhole == ASSUME IInv, Whole, NEW d \in Dir, NEW reliable, Send(d, reliable) PROVE Whole'
<1>1. /\ UNCHANGED <<epoch, down, alive, una, expected, ooo, ack_pending, acks>>
      /\ accepted[d] \in Nat /\ backlog[d] \in Nat /\ backlog[d] <= accepted[d]
      /\ unacked \in [Dir -> 0 .. 1]
  BY DEF Send, sessionVars, IInv, TypeOK, ChainInv
<1>2. \A e \in Dir : Receives(e) /\ AckComes(e) /\ alive[Src(e)]
  BY EndsUp DEF Whole
<1>3. CASE UNCHANGED <<segs, unacked, air>>
  <2>1. \A e \in Dir : Receives(e)' /\ AckComes(e)'
    BY <1>1, <1>2, <1>3 DEF Receives, Reaches, AckComes, PiggyComes
  <2> QED BY <2>1, <1>1, WholeAgain
<1>4. CASE /\ ~WindowFull(d) /\ UNCHANGED backlog
           /\ LET new == Batches(d, accepted[d], 1, <<accepted[d] + 1>>) IN
                 /\ segs' = [segs EXCEPT ![d] = @ \o new]
                 /\ air' = air \union OnAir(d, 1, new)
           /\ unacked' = [unacked EXCEPT ![Rev(d)] = 0]
  <2> DEFINE m == <<accepted[d] + 1>>
  <2> DEFINE r == Rev(d)
  <2>1. FirstWaiting(d) = accepted[d]
    BY <1>1, <1>4 DEF IInv, BacklogWaits, FirstWaiting
  <2>2. m \in [1 .. 1 -> Nat] /\ 1 \in Nat
    BY <1>1
  <2>3. /\ segs' = [segs EXCEPT ![d] = @ \o Batches(d, FirstWaiting(d), 1, m)]
        /\ air' = air \union OnAir(d, 1, Batches(d, FirstWaiting(d), 1, m))
    BY <1>4, <2>1
  <2> HIDE DEF m
  <2>4. r \in Dir /\ r # d /\ Rev(r) = d /\ unacked'[r] = 0 /\ unacked'[d] = unacked[d]
    BY <1>1, <1>4, RevDir
  <2>5. /\ segs'[r] = segs[r] /\ Len(segs[d]) \in Nat
        /\ \A s \in 1 .. Len(segs[d]) : segs'[d][s] = segs[d][s]
    BY <2>2, <2>3, Batched
  <2>6. Receives(d)'
    BY <1>1, <1>2, <2>2, <2>3, <2>4, BatchesReach
  <2>7. Receives(r)'
    BY <1>1, <1>2, <2>3, <2>4, <2>5, ReceivesRests
  <2>8. AckComes(r)'
    <3>1. /\ UNCHANGED <<expected[Rev(d)], una[Rev(d)], epoch>> /\ alive[Src(d)]
          /\ \A f \in acks : f.dir = Rev(d) => f \in acks'
          /\ 1 = 0 => unacked'[Rev(d)] = unacked[Rev(d)]
          /\ AckComes(Rev(d))
      BY <1>1, <1>2, <2>4
    <3> HIDE DEF r
    <3>2. AckComes(Rev(d))'
      BY <3>1, <2>2, <2>3, BatchesAck
    <3> QED BY <3>2 DEF r
  <2>9. AckComes(d)'
    BY <1>1, <1>2, <2>3, <2>4, <2>5, AckRests
  <2>10. \A e \in Dir : e = d \/ e = r
    BY DEF Dir, Rev
  <2> QED BY <2>6, <2>7, <2>8, <2>9, <2>10, <1>1, WholeAgain
<1> QED BY <1>3, <1>4 DEF Send

LEMMA RtoWhole == ASSUME IInv, Whole, NEW d \in Dir, NEW s \in Inflight(d), Rto(d, s) PROVE Whole'
<1> DEFINE r == Rev(d)
<1> DEFINE piggy == IF unacked[r] > 0 THEN expected[r] ELSE segs[d][s].piggy
<1> DEFINE frame == SegFrame(d, s, segs[d][s], segs[d][s].tries + 1)
<1>1. \A e \in Dir : Receives(e) /\ AckComes(e) /\ alive[Src(e)]
  BY EndsUp DEF Whole
<1>2. /\ UNCHANGED <<epoch, down, alive, una, expected, ooo, ack_pending, acks>>
      /\ segs' = [segs EXCEPT ![d][s].tries = @ + 1, ![d][s].piggy = piggy]
      /\ air' = air \union {frame}
      /\ unacked' = [unacked EXCEPT ![r] = 0]
  BY <1>1 DEF Rto, sessionVars
<1>3. /\ segs \in [Dir -> Seq(Segment)] /\ unacked \in [Dir -> 0 .. 1]
      /\ segs[d] \in Seq(Segment) /\ s \in 1 .. Len(segs[d]) /\ segs[d][s] \in Segment
  <2>1. segs \in [Dir -> Seq(Segment)] /\ unacked \in [Dir -> 0 .. 1] /\ una[d] \in Nat \ {0}
    BY DEF IInv, TypeOK, Segment
  <2>2. s \in 1 .. Len(segs[d])
    BY <2>1 DEF Inflight
  <2>3. segs[d] \in Seq(Segment)
    BY <2>1
  <2> QED BY <2>1, <2>2, <2>3
<1>4. r \in Dir /\ r # d /\ Rev(r) = d
  BY RevDir
<1> DEFINE old == segs[d][s]
<1> DEFINE seg == [old EXCEPT !.tries = @ + 1, !.piggy = piggy]
<1>5. segs' = [segs EXCEPT ![d] = [@ EXCEPT ![s] = seg]] /\ seg.piggy = piggy
  BY <1>2, <1>3 DEF Segment
<1> HIDE DEF seg
<1>6. /\ \A e \in Dir : Len(segs'[e]) = Len(segs[e])
      /\ segs'[r] = segs[r]
      /\ \A t \in 1 .. Len(segs[d]) : segs'[d][t] = IF t = s THEN seg ELSE segs[d][t]
  BY <1>3, <1>4, <1>5
<1>7. \A e \in Dir : unacked'[e] = IF e = r THEN 0 ELSE unacked[e]
  BY <1>2, <1>3, <1>4
<1>8. \A f \in air : f.dir = d /\ f.epoch = epoch => f.seq \in 1 .. Len(segs[d])
  BY <1>3 DEF IInv, AirInv, Copy, TypeOK, Frame
<1>9. \A e \in Dir : Receives(e)'
  <2>1. \A e \in Dir : unacked'[e] > 0 => ack_pending'[e]
    BY <1>1, <1>2, <1>7 DEF Receives
  <2> QED BY <2>1, <1>1, <1>2, <1>6, ReceivesRests
<1>10. AckComes(d)'
  BY <1>1, <1>2, <1>4, <1>6, <1>7, AckRests
<1>11. AckComes(r)'
  <2>1. CASE una[r] = expected[r] \/ \E f \in acks : f.dir = r /\ f.epoch = epoch /\ f.ack = expected[r]
    BY <2>1, <1>2 DEF AckComes
  <2>2. CASE unacked[r] > 0
    <3>1. frame.dir = d /\ frame.epoch = epoch /\ frame.seq = s
      BY DEF SegFrame
    <3>2. segs'[d][s].piggy = expected[r]
      BY <2>2, <1>3, <1>5, <1>6
    <3> HIDE DEF frame
    <3> QED BY <3>1, <3>2, <1>2, <1>4 DEF AckComes, PiggyComes
  <2>3. CASE ~(unacked[r] > 0) /\ PiggyComes(r)
    <3>1. PICK f \in air : f.dir = d /\ f.epoch = epoch /\ segs[d][f.seq].piggy = expected[r]
      BY <2>3, <1>4 DEF PiggyComes
    <3>2. segs'[d][f.seq].piggy = expected[r]
      BY <3>1, <2>3, <1>5, <1>6, <1>8
    <3> QED BY <3>1, <3>2, <1>2, <1>4 DEF AckComes, PiggyComes
  <2> QED BY <2>1, <2>2, <2>3, <1>1, <1>4 DEF AckComes
<1>12. \A e \in Dir : e = d \/ e = r
  BY DEF Dir, Rev
<1> QED BY <1>2, <1>9, <1>10, <1>11, <1>12, WholeAgain

LEMMA ArriveAckWhole == ASSUME IInv, Whole, NEW f \in acks, ArriveAck(f) PROVE Whole'
<1> DEFINE d == f.dir
<1> DEFINE r == Rev(d)
<1>1. /\ UNCHANGED <<epoch, down, alive, expected, ooo, ack_pending>> /\ acks' = acks \ {f}
      /\ d \in Dir /\ f.ack \in Nat /\ unacked \in [Dir -> 0 .. 1]
      /\ una \in [Dir -> Nat \ {0}] /\ segs \in [Dir -> Seq(Segment)]
  BY DEF ArriveAck, sessionVars, IInv, TypeOK, Segment
<1>2. \A e \in Dir : Receives(e) /\ AckComes(e) /\ alive[Src(e)]
  BY EndsUp DEF Whole
<1>3. r \in Dir /\ r # d /\ Rev(r) = d
  BY <1>1, RevDir
<1>4. \A e \in Dir : e = d \/ e = r
  BY <1>1 DEF Dir, Rev
<1>5. CASE f.epoch # epoch /\ UNCHANGED <<senderVars, unacked, air>>
  <2>1. \A e \in Dir : Receives(e)'
    BY <1>1, <1>2, <1>5, ReceivesRests DEF Receives, senderVars
  <2>2. \A e \in Dir : AckComes(e)'
    BY <1>1, <1>2, <1>5 DEF AckComes, PiggyComes, senderVars
  <2> QED BY <2>1, <2>2, <1>1, WholeAgain
<1>6. ASSUME f.epoch = epoch, NEW n \in 0 .. CWND, NEW m \in Cuts(d, n), OnAck(d, f.ack, n, m),
             air' = air \union OnAir(d, n, Batches(d, FirstWaiting(d), n, m)),
             unacked' = IF n > 0 THEN [unacked EXCEPT ![r] = 0] ELSE unacked
      PROVE  Whole'
  <2>1. /\ segs' = [segs EXCEPT ![d] = @ \o Batches(d, FirstWaiting(d), n, m)]
        /\ una' = [una EXCEPT ![d] = Later(@, f.ack)]
    BY <1>6 DEF OnAck
  <2>2. n \in Nat /\ m \in [1 .. n -> Nat]
    <3>1. FirstWaiting(d) \in Nat /\ n \in Nat
      BY <1>1, RouterAssumption DEF IInv, ChainInv, FirstWaiting, TypeOK
    <3> QED BY <3>1 DEF Cuts
  <2>3. /\ segs'[r] = segs[r] /\ una'[d] = Later(una[d], f.ack) /\ una'[r] = una[r]
        /\ Len(segs[d]) \in Nat
        /\ unacked'[d] = unacked[d] /\ (n = 0 => unacked'[r] = unacked[r])
        /\ unacked'[r] > 0 => ack_pending'[r]
    <3>1. segs'[r] = segs[r] /\ una'[d] = Later(una[d], f.ack) /\ una'[r] = una[r]
      BY <1>1, <1>3, <2>1
    <3>2. unacked'[d] = unacked[d] /\ unacked'[r] = IF n > 0 THEN 0 ELSE unacked[r]
      BY <1>1, <1>3, <1>6
    <3> QED BY <3>1, <3>2, <1>1, <1>2, <1>3, <2>2, Lengths, Types DEF IInv, Receives
  <2> HIDE DEF d, r
  <2>4. Receives(d)'
    BY <1>1, <1>2, <1>6, <2>1, <2>2, <2>3, BatchesReach
  <2>5. Receives(r)'
    BY <1>1, <1>2, <1>3, <1>6, <2>3, ReceivesRests
  <2>6. AckComes(d)'
    <3>1. f.ack <= expected[d]
      BY <1>6 DEF IInv, AckInv, d
    <3>2. \A g \in acks : g.dir = d /\ g.ack # f.ack => g \in acks'
      BY <1>1
    <3> DEFINE a == f.ack
    <3>3. a \in Nat /\ a <= expected[d] /\ una'[d] = Later(una[d], a)
          /\ \A g \in acks : g.dir = d /\ g.ack # a => g \in acks'
      BY <3>1, <3>2, <1>1, <2>3
    <3>4. segs'[Rev(d)] = segs[Rev(d)] /\ air \subseteq air'
      BY <2>3, <1>6 DEF r
    <3> HIDE DEF a
    <3> QED BY <3>3, <3>4, <1>1, <1>2, <2>3, ReadingAck
  <2>7. AckComes(r)'
    <3>1. \A g \in acks : g.dir = Rev(d) => g \in acks'
      BY <1>1, <1>3 DEF r, d
    <3>2. /\ UNCHANGED <<expected[Rev(d)], una[Rev(d)], epoch>> /\ alive[Src(d)]
          /\ n = 0 => unacked'[Rev(d)] = unacked[Rev(d)]
          /\ AckComes(Rev(d))
      BY <1>1, <1>2, <1>3, <2>3 DEF r
    <3>3. AckComes(Rev(d))'
      BY <3>1, <3>2, <1>1, <1>6, <2>1, <2>2, BatchesAck
    <3> QED BY <3>3 DEF r
  <2> QED BY <2>4, <2>5, <2>6, <2>7, <1>1, <1>4, WholeAgain
<1>7. alive[Src(d)]
  BY <1>1, <1>2
<1> QED BY <1>5, <1>6, <1>7 DEF ArriveAck

LEMMA ArriveSegWhole == ASSUME IInv, Whole, NEW f \in air, ArriveSeg(f) PROVE Whole'
<1> DEFINE d == f.dir
<1> DEFINE r == Rev(d)
<1>1. /\ UNCHANGED <<epoch, down, alive>> /\ d \in Dir /\ f.seq \in Nat \ {0}
      /\ unacked \in [Dir -> 0 .. 1] /\ una \in [Dir -> Nat \ {0}]
      /\ segs \in [Dir -> Seq(Segment)] /\ DOMAIN expected = Dir /\ DOMAIN ooo = Dir
      /\ DOMAIN ack_pending = Dir
  BY DEF ArriveSeg, sessionVars, IInv, TypeOK, Frame, Segment
<1>2. \A e \in Dir : Receives(e) /\ AckComes(e) /\ alive[Src(e)] /\ alive[Dst(e)]
  BY EndsUp DEF Whole
<1>3. r \in Dir /\ r # d /\ Rev(r) = d
  BY <1>1, RevDir
<1>4. \A e \in Dir : e = d \/ e = r
  BY <1>1 DEF Dir, Rev
<1>5. CASE f.epoch # epoch /\ air' = air \ {f} /\ UNCHANGED <<senderVars, receiverVars, acks>>
  <2>1. \A e \in Dir : Receives(e)'
    BY <1>1, <1>2, <1>5 DEF Receives, Reaches, senderVars, receiverVars
  <2>2. \A e \in Dir : AckComes(e)'
    BY <1>1, <1>2, <1>5 DEF AckComes, PiggyComes, senderVars, receiverVars
  <2> QED BY <2>1, <2>2, <1>1, WholeAgain
<1>6. ASSUME f.epoch = epoch, NEW n \in 0 .. CWND, NEW m \in Cuts(r, n),
             OnAck(r, segs[d][f.seq].piggy, n, m),
             air' = (air \ {f}) \union OnAir(r, n, Batches(r, FirstWaiting(r), n, m)),
             \/ \E last \in f.seq .. Limit(d) : InOrder(f, last, IF n > 0 THEN 0 ELSE unacked[d])
             \/ OutOfOrder(f)
      PROVE  Whole'
  <2> DEFINE a == segs[d][f.seq].piggy
  <2>1. /\ segs' = [segs EXCEPT ![r] = @ \o Batches(r, FirstWaiting(r), n, m)]
        /\ una' = [una EXCEPT ![r] = Later(@, a)]
    BY <1>6 DEF OnAck
  <2>2. n \in Nat /\ m \in [1 .. n -> Nat]
    <3>1. FirstWaiting(r) \in Nat /\ n \in Nat
      BY <1>1, <1>3, RouterAssumption DEF IInv, ChainInv, FirstWaiting, TypeOK
    <3> QED BY <3>1 DEF Cuts
  <2>3. a \in Nat /\ a <= expected[r]
    <3>1. f.seq \in 1 .. Len(segs[d])
      <4>1. Len(segs[d]) \in Nat
        BY <1>1, LenProperties
      <4> QED BY <4>1, <1>1, <1>6 DEF IInv, AirInv, Copy
    <3>2. segs[d][f.seq] \in Segment
      BY <3>1, <1>1
    <3> QED BY <3>1, <3>2, <1>1 DEF IInv, PiggyInv, Segment
  <2>4. /\ expected'[r] = expected[r] /\ ooo'[r] = ooo[r] /\ ack_pending'[r] = ack_pending[r]
        /\ unacked'[r] = unacked[r] /\ acks \subseteq acks'
    BY <1>1, <1>3, <1>6 DEF InOrder, OutOfOrder
  <2>5. segs'[d] = segs[d] /\ una'[r] = Later(una[r], a)
    BY <1>1, <1>3, <2>1
  <2>6. Receives(r)'
    <3>1. \A g \in air : g.dir = r => g \in air'
      BY <1>3, <1>6
    <3>2. OnAir(r, n, Batches(r, FirstWaiting(r), n, m)) \subseteq air'
      BY <1>6
    <3> HIDE DEF r, a, d
    <3> QED BY <3>1, <3>2, <1>1, <1>2, <1>3, <2>1, <2>2, <2>4, BatchesReach
  <2>7. AckComes(r)'
    <3>1. \A g \in air : g.dir = Rev(r) /\ segs[Rev(r)][g.seq].piggy # a => g \in air'
      BY <1>3, <1>6
    <3>2. segs'[Rev(r)] = segs[Rev(r)] /\ una'[r] = Later(una[r], a)
      BY <1>3, <2>5
    <3> HIDE DEF r, a, d
    <3> QED BY <3>1, <3>2, <1>1, <1>2, <1>3, <2>3, <2>4, ReadingAck
  <2>8. Receives(d)' /\ AckComes(d)'
    <3>1. air \ {f} \subseteq air'
      BY <1>6
    <3>2. CASE OutOfOrder(f)
      BY <3>1, <3>2, <1>1, <1>2, <1>6, <2>5, OtherReceived
    <3>3. CASE \E last \in f.seq .. Limit(d) : InOrder(f, last, IF n > 0 THEN 0 ELSE unacked[d])
      <4> DEFINE u == IF n > 0 THEN 0 ELSE unacked[d]
      <4>1. PICK last \in f.seq .. Limit(d) : InOrder(f, last, u)
        BY <3>3
      <4>2. last \in Nat /\ u \in 0 .. 1 /\ (u = unacked[f.dir] \/ u = 0)
        BY <1>1
      <4> HIDE DEF u
      <4> QED BY <4>1, <4>2, <3>1, <1>1, <1>2, <1>6, <2>5, TurnReceived
    <3> QED BY <3>2, <3>3, <1>6
  <2> QED BY <2>6, <2>7, <2>8, <1>1, <1>4, WholeAgain
<1>7. CASE OnSeg(f)
  <2>1. f.epoch = epoch
    BY <1>7 DEF OnSeg
  <2>2. PICK n \in 0 .. CWND : \E m \in Cuts(r, n) :
          /\ OnAck(r, segs[d][f.seq].piggy, n, m)
          /\ air' = (air \ {f}) \union OnAir(r, n, Batches(r, FirstWaiting(r), n, m))
          /\ \/ \E last \in f.seq .. Limit(d) : InOrder(f, last, IF n > 0 THEN 0 ELSE unacked[d])
             \/ OutOfOrder(f)
    BY <1>7 DEF OnSeg
  <2> QED BY <2>1, <2>2, <1>6
<1> QED BY <1>1, <1>2, <1>5, <1>7 DEF ArriveSeg

LEMMA DelayedAckWhole == ASSUME IInv, Whole, NEW d \in Dir, DelayedAck(d) PROVE Whole'
<1>1. /\ UNCHANGED <<epoch, down, alive, segs, una, expected, ooo, air>>
      /\ ack_pending' = [ack_pending EXCEPT ![d] = FALSE]
      /\ unacked' = [unacked EXCEPT ![d] = 0]
      /\ acks' = IF unacked[d] > 0 THEN acks \union AcksOnAir(d, expected[d]) ELSE acks
      /\ DOMAIN unacked = Dir /\ DOMAIN ack_pending = Dir
  BY DEF DelayedAck, sessionVars, senderVars, IInv, TypeOK
<1>2. \A e \in Dir : Receives(e) /\ AckComes(e) /\ alive[Dst(e)]
  BY EndsUp DEF Whole
<1>3. ASSUME NEW e \in Dir PROVE Receives(e)'
  <2>1. unacked'[e] > 0 => ack_pending'[e]
    <3>1. CASE e = d
      BY <3>1, <1>1
    <3>2. CASE e # d
      <4>1. unacked'[e] = unacked[e]
        BY <3>2, <1>1
      <4>2. ack_pending'[e] = ack_pending[e]
        BY <3>2, <1>1, Zenon
      <4> QED BY <4>1, <4>2, <1>2 DEF Receives
    <3> QED BY <3>1, <3>2
  <2> QED BY <2>1, <1>1, <1>2, ReceivesRests
<1>4. AckComes(d)'
  <2>1. CASE unacked[d] > 0
    <3>1. AckFrame(d, expected[d]) \in acks'
      BY <2>1, <1>1, <1>2 DEF AcksOnAir
    <3> QED BY <3>1, <1>1 DEF AckComes, AckFrame
  <2>2. CASE ~(unacked[d] > 0)
    BY <2>2, <1>1, <1>2 DEF AckComes, PiggyComes
  <2> QED BY <2>1, <2>2
<1>5. \A e \in Dir : e # d => AckComes(e)'
  BY <1>1, <1>2 DEF AckComes, PiggyComes
<1> QED BY <1>1, <1>3, <1>4, <1>5, WholeAgain

\* What is in flight is received, and its ack is due: no direction falls silent.
LEMMA NeverSilent == ASSUME IInv, Whole, NEW d \in Dir, Silent(d) PROVE FALSE
<1>1. /\ Receives(d) /\ AckComes(d) /\ alive[Src(d)]
      /\ ~OnTheWay(d) /\ ~OnTheWay(Rev(d)) /\ ~ack_pending[d]
      /\ WindowFull(d) \/ Inflight(d) # {}
  BY EndsUp DEF Silent, Whole
<1>2. /\ una[d] \in Nat \ {0} /\ expected[d] \in Nat \ {0} /\ Len(segs[d]) \in Nat
      /\ CWND \in Nat \ {0} /\ una[d] <= expected[d] /\ expected[d] <= Len(segs[d]) + 1
  BY Types, Lengths, RouterAssumption DEF IInv, SenderTypes, ReceiverTypes, WindowInv
<1>3. una[d] <= Len(segs[d])
  BY <1>1, <1>2 DEF WindowFull, Inflight
<1>4. expected[d] = Len(segs[d]) + 1
  <2> SUFFICES ASSUME expected[d] \in 1 .. Len(segs[d]) PROVE FALSE
    BY <1>2
  <2>1. Reaches(d, expected[d])
    BY <1>1 DEF Receives
  <2>2. \A o \in ooo[d] : o.seq # expected[d]
    BY <1>1, <1>2 DEF Receives
  <2> QED BY <2>1, <2>2, <1>1, <1>2 DEF Reaches, OnTheWay
<1>5. ~PiggyComes(d)
  BY <1>1 DEF PiggyComes, OnTheWay
<1>6. ~(unacked[d] > 0)
  BY <1>1 DEF Receives
<1> QED BY <1>1, <1>2, <1>3, <1>4, <1>5, <1>6 DEF AckComes, OnTheWay

LEMMA WholeKept == ASSUME IInv, WholeInv, [Next]_vars PROVE WholeInv'
<1> SUFFICES ASSUME ~hurt' PROVE Whole'
  BY DEF WholeInv
<1>1. ASSUME NEW k, Fault(k) PROVE FALSE
  BY <1>1 DEF Fault
<1>2. ~hurt
  BY <1>1 DEF Next, vars, Send, Rto, ArriveAck, ArriveSeg, DelayedAck, LeaseOver, Reopen, Kill,
              Revive, Lose, faultVars
<1>3. Whole
  BY <1>2 DEF WholeInv
<1>4. CASE UNCHANGED vars
  BY <1>3, <1>4 DEF vars, sessionVars, senderVars, receiverVars, airVars, Whole, Receives, Reaches,
                    AckComes, PiggyComes
<1>5. ~LeaseOver /\ ~Reopen /\ ~Lose
  BY <1>1, <1>3, NeverSilent DEF LeaseOver, Reopen, Lose, Whole
<1>6. \A x \in Node : ~Kill(x) /\ ~Revive(x)
  BY <1>1, <1>3 DEF Kill, Revive, Whole
<1> QED
  BY <1>3, <1>4, <1>5, <1>6, SendWhole, RtoWhole, ArriveAckWhole, ArriveSegWhole, DelayedAckWhole
     DEF Next

----------------------------------------------------------------------------
(* The theorems *)

\* The inductive invariant of the session: the segments are a chain of the messages
\* sent, frames are copies of it, and no ack is ahead of its receiver.
THEOREM SessionInvariant == Spec => []IInv
<1>1. IInv /\ [Next]_vars => IInv'
  BY StepKeeps
<1> QED BY InitInv, <1>1, PTL DEF Spec

\* The sender forgets a segment only when its messages are with the application
\* (on_ack, _send_ack and the piggybacked ack of _tx).
THEOREM Forgotten == Spec => []ForgottenIsDelivered
<1>1. IInv => ForgottenIsDelivered
  <2> SUFFICES ASSUME IInv PROVE ForgottenIsDelivered
    OBVIOUS
  <2>1. \A d \in Dir : una[d] <= expected[d]
    BY DEF IInv, WindowInv
  <2>2. \A d \in Dir : \A f \in acks : f.dir = d /\ f.epoch = epoch => f.ack <= expected[d]
    BY DEF IInv, AckInv
  <2>3. ASSUME NEW d \in Dir, NEW s \in 1 .. una[d] - 1 PROVE segs[d][s].hi <= Len(app[d])
    <3>1. /\ expected[d] \in Nat /\ una[d] \in Nat /\ Len(segs[d]) \in Nat /\ segs[d] \in Seq(Segment)
          /\ una[d] <= expected[d] /\ expected[d] <= Len(segs[d]) + 1
      BY Types, Lengths DEF IInv, SenderTypes, ReceiverTypes, WindowInv
    <3> DEFINE t == expected[d] - 1
    <3>2. s \in 1 .. Len(segs[d]) /\ t \in 1 .. Len(segs[d]) /\ s <= t /\ expected[d] # 1
      BY <3>1
    <3>3. Len(app[d]) = segs[d][t].hi
      BY <3>2 DEF IInv, AppInv
    <3>4. segs[d][t] \in Segment /\ segs[d][s] \in Segment
      BY <3>1, <3>2
    <3>5. segs[d][t].lo \in Nat /\ segs[d][t].hi \in Nat /\ segs[d][s].hi \in Nat
      BY <3>4 DEF Segment
    <3>6. segs[d][t].lo < segs[d][t].hi /\ (s < t => segs[d][s].hi <= segs[d][t].lo)
      BY <3>2 DEF IInv, ChainInv, Chain
    <3> HIDE DEF t
    <3>7. s = t \/ s < t
      BY <3>2
    <3> QED BY <3>3, <3>5, <3>6, <3>7
  <2> QED BY <2>1, <2>2, <2>3 DEF ForgottenIsDelivered
<1> QED BY <1>1, SessionInvariant, PTL

\* No room stays unused while messages wait for it (send and on_ack).
THEOREM NoLostWakeup == Spec => []BacklogWaits
<1>1. IInv => BacklogWaits
  BY DEF IInv
<1> QED BY <1>1, SessionInvariant, PTL

\* A session is torn down only after a loss, a delay beyond the lease or a death
\* (keepalive_tick, with what on_seg, _send_ack and _tx do for the other direction).
THEOREM UpUnlessHurt == Spec => []UpWithoutFault
<1>1. Init => WholeInv
  <2> SUFFICES ASSUME Init PROVE Whole
    BY DEF WholeInv
  <2>1. /\ epoch = 0 /\ ~down /\ \A x \in Node : alive[x]
        /\ \A d \in Dir : /\ segs[d] = <<>> /\ una[d] = 1 /\ expected[d] = 1 /\ ooo[d] = {}
                           /\ unacked[d] = 0
    BY DEF Init
  <2> QED BY <2>1 DEF Whole, Receives, AckComes
<1>2. WholeInv => UpWithoutFault
  BY DEF WholeInv, Whole, UpWithoutFault
<1>3. IInv /\ WholeInv /\ [Next]_vars => WholeInv'
  BY WholeKept
<1> QED BY <1>1, <1>2, <1>3, SessionInvariant, PTL DEF Spec

\* The session implements the channel: in order, each once, without a gap, and
\* nothing crosses sessions, whatever the radio does.
THEOREM SessionRefines == Spec => Channel
<1>1. Init => ImplementsChannel!ChanInit
  BY DEF Init, ImplementsChannel!ChanInit
<1>2. IInv /\ [Next]_vars => ChanStep
  BY StepKeeps
<1>3. IInv /\ [Next]_vars => [ImplementsChannel!ChanNext]_(ImplementsChannel!chanVars)
  BY <1>2 DEF ChanStep, ImplementsChannel!chanVars
<1> QED BY <1>1, <1>3, SessionInvariant, PTL DEF Spec, Channel, ImplementsChannel!Channel
=============================================================================
