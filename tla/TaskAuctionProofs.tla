------------------------- MODULE TaskAuctionProofs -------------------------
(***************************************************************************)
(* Theorems of the task auction, for every fleet and every choice of timers *)
(* that the assumptions of TaskAuction allow: the type invariant, that a    *)
(* robot cut off from the majority stops uncommitted work in time; for a    *)
(* connected fleet, that of two claimants the losing one is being told and  *)
(* that a task that ended stays ended; and for a fleet that splits once the *)
(* owner is known, that the two sides never both work on the task.          *)
(***************************************************************************)
EXTENDS TaskAuction, FiniteSetTheorems, SequenceTheorems, WellFoundedInduction, TLAPS

BidCost == Costs \union {Infinity}
Messages == Seq(Message)

----------------------------------------------------------------------------
(* The fleet and its costs *)

\* The fleet is a finite set of numbers, so a majority of it can be counted.
LEMMA FleetFacts ==
    /\ Gateway \in Node
    /\ Robots \subseteq Node
    /\ Node \subseteq Nat
    /\ IsFiniteSet(Node)
    /\ Cardinality(Node) \in Nat
<1>1. IsFiniteSet(Node)
  BY FS_AddElement, FleetAssumption DEF Node
<1> QED
  BY <1>1, FS_CardinalityType, FleetAssumption DEF Node

\* Evidence of a majority only grows: a row that is at least as recent, for a
\* bound that is at least as long, still shows the majority.
LEMMA HeardMonotone ==
    ASSUME NEW n \in Node, NEW a, NEW b, NEW row, NEW later,
           HeardMajority(row, n, a),
           \A p \in Node : row[p] <= a => later[p] <= b
    PROVE  HeardMajority(later, n, b)
<1> DEFINE S == {p \in Node \ {n} : row[p] <= a}
           T == {p \in Node \ {n} : later[p] <= b}
<1>1. S \subseteq T
  OBVIOUS
<1>2. IsFiniteSet(T) /\ IsFiniteSet(S)
  BY FS_Subset, FleetFacts
<1>3. Cardinality(S) <= Cardinality(T)
  BY <1>1, <1>2, FS_Subset
<1>4. Cardinality(S) \in Nat /\ Cardinality(T) \in Nat
  BY <1>2, FS_CardinalityType
<1>5. Cardinality(S) >= Cardinality(Node) \div 2
  BY DEF HeardMajority
<1>6. Cardinality(Node) \div 2 \in Int
  BY FleetFacts
<1> QED
  BY <1>3, <1>4, <1>5, <1>6 DEF HeardMajority

\* A round with bids has a winner, a bidder that beats every other bidder:
\* (cost, id) orders the bids strictly and there are finitely many of them.
LEMMA WinnerBeatsAll ==
    ASSUME NEW v \in View, Bidders(v) # {}
    PROVE  /\ Winner(v) \in Bidders(v)
           /\ \A o \in Bidders(v) \ {Winner(v)} :
                  Beats(v.bids[Winner(v)], Winner(v), v.bids[o], o)
<1> DEFINE B == Bidders(v)
           Better(r) == {o \in B : Beats(v.bids[o], o, v.bids[r], r)}
           Betters == {Better(r) : r \in B}
<1>1. B \subseteq Robots /\ B \subseteq Nat /\ IsFiniteSet(B)
  BY FS_Subset, FleetAssumption DEF Bidders
<1>2. \A r \in B : v.bids[r] \in Nat
  BY CostAssumption DEF Bidders, View
<1>3. Betters \subseteq SUBSET B /\ Betters # {}
  OBVIOUS
<1>4. PICK U \in Betters : \A W \in Betters : ~(<<W, U>> \in StrictSubsetOrdering(B))
  <2>1. IsWellFoundedOn(StrictSubsetOrdering(B), SUBSET B)
    BY <1>1, FS_StrictSubsetOrderingWellFounded, FS_FiniteSubsetsOfFinite
  <2> HIDE DEF Betters
  <2> QED
    BY <1>3, <2>1, WFMin
<1>5. PICK r \in B : U = Better(r)
  BY <1>4
<1>6. Better(r) = {}
  <2> SUFFICES ASSUME NEW o \in Better(r) PROVE FALSE
    OBVIOUS
  <2>1. Better(o) \subseteq Better(r)
    BY <1>1, <1>2 DEF Beats
  <2>2. o \notin Better(o) /\ o \in Better(r)
    BY <1>1, <1>2 DEF Beats
  <2>3. <<Better(o), Better(r)>> \in StrictSubsetOrdering(B)
    BY <2>1, <2>2 DEF StrictSubsetOrdering
  <2> QED
    BY <1>4, <1>5, <2>3
<1>7. \A o \in B \ {r} : Beats(v.bids[r], r, v.bids[o], o)
  BY <1>1, <1>2, <1>6 DEF Beats
<1> QED
  BY <1>7 DEF Winner

----------------------------------------------------------------------------
(* What the helpers of the auction return *)

\* The values the helpers write into a view are in range.
LEMMA FieldFacts ==
    /\ 0 \in 0 .. BidWindow /\ BidWindow \in 0 .. BidWindow
    /\ 0 \in 0 .. Expiry + 1
    /\ 0 \in 0 .. Retention + 1
    /\ 1 .. RebidDelay \subseteq 0 .. RebidDelay
    /\ 0 \in 0 .. FailedBackoff /\ FailedBackoff \in 0 .. FailedBackoff
    /\ NoBids \in [Robots -> BidCost]
BY TimerAssumption DEF Expiry, NoBids, BidCost

LEMMA NoTaskType == NoTask \in View
BY FieldFacts DEF NoTask, View, TaskState, BidCost

LEMMA OpenBiddingType ==
    ASSUME NEW n \in Node, NEW v \in View, NEW c \in BidCost
    PROVE  OpenBidding(n, v, c) \in View /\ OpenBidding(n, v, c).st = "bidding"
<1> DEFINE bs == [r \in Robots |-> IF r = n THEN c ELSE Infinity]
<1>1. bs \in [Robots -> BidCost]
  BY DEF BidCost
<1> HIDE DEF bs
<1> DEFINE w == [v EXCEPT !.st = "bidding", !.win = BidWindow, !.rebid = NoTimer, !.renew = 0]
<1>2. w \in View /\ w.st = "bidding"
  BY FieldFacts DEF View, TaskState
<1>3. OpenBidding(n, v, c) = [w EXCEPT !.owner = NoOwner, !.cost = Infinity, !.bids = bs]
  BY DEF OpenBidding, bs, View
<1> HIDE DEF w
<1> QED
  BY <1>1, <1>2, <1>3 DEF View, BidCost

LEMMA AssertOwnerType ==
    ASSUME NEW s \in Node, NEW v \in View, NEW c \in BidCost \union {CommittedCost}
    PROVE  AssertOwner(v, s, c) \in View
<1> DEFINE w == [v EXCEPT !.st = "claimed", !.owner = s, !.cost = c, !.renew = 0, !.win = 0]
           x == [w EXCEPT !.rebid = NoTimer, !.bids = NoBids, !.missing = FALSE,
                          !.waiting = FALSE]
<1>1. w \in View
  BY FieldFacts DEF View, TaskState, BidCost
<1>2. AssertOwner(v, s, c) \in {v, x}
  BY DEF AssertOwner, View
<1> HIDE DEF w
<1>3. x \in View
  BY <1>1, FieldFacts DEF View, BidCost
<1> QED
  BY <1>2, <1>3

LEMMA FinishType ==
    ASSUME NEW v \in View, NEW st \in Finished
    PROVE  Finish(v, st) \in View
BY FieldFacts DEF Finish, View, TaskState, Finished, BidCost

LEMMA BidRecordType ==
    ASSUME NEW v \in View, NEW s, NEW c \in BidCost
    PROVE  [v EXCEPT !.bids[s] = c] \in View
<1>1. [v.bids EXCEPT ![s] = c] \in [Robots -> BidCost]
  BY DEF View, BidCost
<1> QED
  BY <1>1 DEF View, BidCost

LEMMA KnownType ==
    ASSUME NEW v \in View
    PROVE  Known(v) \in View
BY NoTaskType DEF Known, View, TaskState

LEMMA AgedType ==
    ASSUME NEW v \in View
    PROVE  Aged(v) \in View
<1>1. Sooner(v.win) \in 0 .. BidWindow
  BY TimerAssumption DEF View, Sooner
<1>2. Sooner(v.rebid) \in {NoTimer} \union (0 .. RebidDelay) \union (0 .. FailedBackoff)
  BY TimerAssumption DEF View, Sooner, NoTimer
<1>2a. Sooner(v.avoid) \in 0 .. FailedBackoff
  BY TimerAssumption DEF View, Sooner
<1>3. Older(v.renew, Expiry + 1) \in 0 .. Expiry + 1
  BY TimerAssumption DEF View, Older, Expiry
<1>4. Older(v.fin, Retention + 1) \in 0 .. Retention + 1
  BY TimerAssumption DEF View, Older
<1> QED
  BY <1>1, <1>2, <1>2a, <1>3, <1>4 DEF Aged, View

\* Every cost a robot may bid is a bid cost.
LEMMA BidChoicesType ==
    ASSUME NEW n, NEW v, NEW row, NEW iso
    PROVE  BidChoices(n, v, row, iso) \subseteq BidCost
BY DEF BidChoices, BidCost

LEMMA MessageOutType ==
    ASSUME NEW type \in MsgType \ {"Bid"}, NEW c \in BidCost \union {CommittedCost}
    PROVE  <<Msg(type, c)>> \in Messages
BY TimerAssumption DEF Msg, Message, Messages, BidCost

LEMMA BidOutType ==
    ASSUME NEW c \in BidCost
    PROVE  BidOut(c) \in Messages
<1>1. c # Infinity => Msg("Bid", c) \in Message
  BY TimerAssumption DEF Msg, Message, BidCost
<1> QED
  BY <1>1 DEF BidOut, Messages

LEMMA PublishType ==
    ASSUME NEW ch \in [Node -> [Node -> Messages]], NEW n \in Node, NEW out \in Messages
    PROVE  Publish(ch, n, out) \in [Node -> [Node -> Messages]]
<1>1. \A d \in Node : ch[n][d] \o out \in Messages
  BY ConcatProperties DEF Messages
<1> QED
  BY <1>1 DEF Publish

----------------------------------------------------------------------------
(* The frames of the handlers, ticks and calls keep the types *)

LEMMA HandledType ==
    ASSUME TypeOK, NEW n \in Node, NEW s \in Node, NEW v \in View, NEW out \in Messages,
           chan[s][n] # <<>>, Handled(n, s, v, out)
    PROVE  TypeOK'
<1> USE DEF TypeOK
<1>1. view' \in [Node -> View]
  BY DEF Handled
<1>2. heard' \in [Node -> [Node -> 0 .. HeardMax]] /\ quiet' \in [Node -> 0 .. HeardMax]
  BY TimerAssumption DEF Handled, Hear, HeardMax
<1>3. chan' \in [Node -> [Node -> Messages]]
  <2> DEFINE ch == [chan EXCEPT ![s][n] = Tail(@)]
  <2>1. Tail(chan[s][n]) \in Messages
    BY HeadTailProperties DEF Messages
  <2>2. ch \in [Node -> [Node -> Messages]]
    BY <2>1 DEF Messages
  <2>3. chan' = Publish(ch, n, out)
    BY DEF Handled
  <2> HIDE DEF ch
  <2> QED
    BY <2>2, <2>3, PublishType
<1> QED
  BY <1>1, <1>2, <1>3 DEF Handled, Messages

LEMMA TickedType ==
    ASSUME TypeOK, NEW n \in alive, NEW v \in View, NEW out \in Messages,
           Ticked(n, v, out), budget' \in [Events -> Nat]
    PROVE  TypeOK'
<1> USE DEF TypeOK
<1>0. n \in Node /\ view[n] \in View
  OBVIOUS
<1>1. view' \in [Node -> View]
  BY NoTaskType DEF Ticked
<1>2. heard' \in [Node -> [Node -> 0 .. HeardMax]] /\ quiet' \in [Node -> 0 .. HeardMax]
  BY TimerAssumption DEF Ticked, HeardMax
<1>3. isolated' \in [Node -> BOOLEAN]
  BY DEF Ticked, IsolatedNow
<1>4. quorum' \in [Node -> [had : BOOLEAN, age : 0 .. Margin]]
  <2>1. QuorumNow(n) \in BOOLEAN
    BY DEF QuorumNow, HasQuorum, HeardMajority
  <2>2. QuorumAgeNow(n) \in 0 .. Margin
    BY <1>0, TimerAssumption DEF QuorumAgeNow
  <2> QED
    BY <2>1, <2>2 DEF Ticked
<1>5. chan' \in [Node -> [Node -> Messages]]
  <2>1. Beacon(n) \in Messages
    BY <1>0, MessageOutType DEF Beacon, MsgType, View, BidCost, Messages
  <2>2. Beacon(n) \o out \in Messages
    BY <2>1, ConcatProperties DEF Messages
  <2> QED
    BY <1>0, <2>2, PublishType DEF Ticked, Messages
<1> QED
  BY <1>1, <1>2, <1>3, <1>4, <1>5 DEF Ticked, Messages

LEMMA CalledType ==
    ASSUME TypeOK, NEW n, NEW v \in View, NEW out \in Messages,
           Called(n, v, out), budget' \in [Events -> Nat]
    PROVE  TypeOK'
<1> USE DEF TypeOK
<1>1. n \in Node
  BY DEF Called
<1>2. chan' \in [Node -> [Node -> Messages]]
  BY <1>1, PublishType DEF Called, Messages
<1> QED
  BY <1>1, <1>2 DEF Called, Messages

LEMMA SpendType ==
    ASSUME TypeOK, NEW e \in Events, Spend(e)
    PROVE  budget' \in [Events -> Nat]
BY DEF Spend, TypeOK

----------------------------------------------------------------------------
(* Every handler keeps the types *)

\* The oldest message on its way to a node is a message of the protocol.
LEMMA HeadType ==
    ASSUME TypeOK, NEW n \in Node, NEW s \in Node, NEW types, Arrived(n, s, types)
    PROVE  /\ chan[s][n] # <<>>
           /\ Head(chan[s][n]).type \in types
           /\ Head(chan[s][n]).cost \in BidCost \union {CommittedCost}
           /\ Head(chan[s][n]).type = "Bid" => Head(chan[s][n]).cost \in Costs
<1>1. Head(chan[s][n]) \in Message
  BY HeadTailProperties DEF TypeOK, Arrived
<1> QED
  BY <1>1 DEF Arrived, Message, BidCost

LEMMA ReceiveType ==
    ASSUME TypeOK, NEW n \in Node, Receive(n)
    PROVE  TypeOK'
<1>0. view[n] \in View
  BY DEF TypeOK
<1>e. <<>> \in Messages
  BY DEF Messages
<1>1. PICK s \in Node : \/ OnAnnounce(n, s)
                       \/ OnBid(n, s)
                       \/ OnClaim(n, s)
                       \/ OnLeaseRenewal(n, s)
                       \/ OnTaskEvent(n, s)
  BY DEF Receive
<1>2. CASE OnAnnounce(n, s)
  <2>1. chan[s][n] # <<>>
    BY <1>2 DEF OnAnnounce, Arrived
  <2> DEFINE fresh == [NoTask EXCEPT !.known = TRUE]
  <2>2. fresh \in View
    BY NoTaskType DEF View
  <2>3. CASE view[n].st = "none"
    <3>1. PICK c \in BidCost : Handled(n, s, OpenBidding(n, fresh, c), BidOut(c))
      BY <1>2, <2>3, BidChoicesType DEF OnAnnounce
    <3> HIDE DEF fresh
    <3> QED
      BY <2>1, <2>2, <3>1, OpenBiddingType, BidOutType, HandledType
  <2>4. CASE view[n].st # "none"
    <3>1. Handled(n, s, [view[n] EXCEPT !.known = TRUE], <<>>)
      BY <1>2, <2>4 DEF OnAnnounce
    <3>2. [view[n] EXCEPT !.known = TRUE] \in View
      BY <1>0 DEF View
    <3> QED
      BY <1>e, <2>1, <3>1, <3>2, HandledType
  <2> QED
    BY <2>3, <2>4
<1>3. CASE OnBid(n, s)
  <2> DEFINE b == Head(chan[s][n]).cost
             record(w) == [w EXCEPT !.bids[s] = b]
  <2>1. chan[s][n] # <<>> /\ b \in BidCost
    BY <1>3, HeadType DEF OnBid, BidCost
  <2>2. \/ \E c \in BidCost : Handled(n, s, record(OpenBidding(n, view[n], c)), BidOut(c))
        \/ Handled(n, s, record(view[n]), <<>>)
        \/ Handled(n, s, view[n], <<>>)
    BY <1>3, BidChoicesType DEF OnBid
  <2>3. \A w \in View : record(w) \in View
    BY <2>1, BidRecordType
  <2> HIDE DEF record, b
  <2> QED
    BY <1>0, <1>e, <2>1, <2>2, <2>3, OpenBiddingType, BidOutType, HandledType
<1>4. CASE OnClaim(n, s)
  <2> DEFINE v == Known(view[n])
             c == Head(chan[s][n]).cost
             cheaper == /\ v.st = "bidding" /\ n \in Bidders(v)
                        /\ Beats(v.bids[n], n, c, s)
  <2>1. chan[s][n] # <<>> /\ c \in BidCost \union {CommittedCost} /\ v \in View
    BY <1>0, <1>4, HeadType, KnownType DEF OnClaim
  <2>2. Handled(n, s, IF cheaper THEN [v EXCEPT !.bids[s] = c]
                                 ELSE AssertOwner(v, s, c), <<>>)
    BY <1>4 DEF OnClaim
  <2>3. ASSUME cheaper PROVE c \in BidCost
    <3>1. v.bids[n] \in Nat
      BY <2>1, <2>3, CostAssumption DEF Bidders, View
    <3> QED
      BY <2>1, <2>3, <3>1 DEF Beats, CommittedCost, BidCost
  <2> HIDE DEF v, c
  <2> QED
    BY <1>e, <2>1, <2>2, <2>3, BidRecordType, AssertOwnerType, HandledType
<1>5. CASE OnLeaseRenewal(n, s)
  <2> DEFINE v == Known(view[n])
             c == Head(chan[s][n]).cost
  <2>1. chan[s][n] # <<>> /\ c \in BidCost \union {CommittedCost} /\ v \in View
    BY <1>0, <1>5, HeadType, KnownType DEF OnLeaseRenewal
  <2>2. Handled(n, s, AssertOwner(v, s, c), <<>>)
    BY <1>5 DEF OnLeaseRenewal
  <2> HIDE DEF v, c
  <2> QED
    BY <1>e, <2>1, <2>2, AssertOwnerType, HandledType
<1>6. CASE OnTaskEvent(n, s)
  <2>1. chan[s][n] # <<>>
    BY <1>6 DEF OnTaskEvent, Arrived
  <2>2. \/ Handled(n, s, view[n], <<>>)
        \/ \E st \in Finished : Handled(n, s, Finish(view[n], st), <<>>)
        \/ \E c \in BidCost : Handled(n, s, OpenBidding(n, view[n], c), BidOut(c))
        \/ Handled(n, s, [view[n] EXCEPT !.bids[s] = Infinity], <<>>)
    BY <1>6, BidChoicesType DEF OnTaskEvent, Finished
  <2> QED
    BY <1>0, <1>e, <2>1, <2>2, FinishType, OpenBiddingType, BidRecordType, BidOutType,
       HandledType DEF BidCost
<1> QED
  BY <1>1, <1>2, <1>3, <1>4, <1>5, <1>6

\* A tick leaves the view as it was, writes one of the fields below, or opens
\* bidding; what it publishes are messages of the protocol.
LEMMA TickType ==
    ASSUME TypeOK, NEW n \in Node, Tick(n)
    PROVE  TypeOK'
<1> DEFINE v == view[n]
           Reopened(w) == [w EXCEPT !.st = "open", !.owner = NoOwner, !.cost = Infinity,
                                    !.renew = 0]
<1>1. n \in alive /\ v \in View /\ budget' \in [Events -> Nat]
  BY SpendType DEF Tick, TypeOK, Events
<1>2. <<>> \in Messages /\ <<Msg("Release", Infinity)>> \in Messages
  BY MessageOutType DEF Messages, MsgType, BidCost
<1>3. CASE NoWinner(n)
  <2>1. \A d \in 1 .. RebidDelay : [v EXCEPT !.st = "open", !.rebid = d] \in View
    BY <1>1, FieldFacts DEF View, TaskState
  <2> QED
    BY <1>1, <1>2, <1>3, <2>1, TickedType DEF NoWinner
<1>4. CASE Decline(n)
  <2>1. OpenBidding(n, v, Infinity) \in View
    BY <1>1, OpenBiddingType DEF BidCost
  <2> QED
    BY <1>1, <1>2, <1>4, <2>1, TickedType DEF Decline
<1>5. CASE TakeOwner(n)
  <2> DEFINE w == Winner(v)
             u == [v EXCEPT !.st = "claimed", !.owner = w, !.cost = v.bids[w],
                            !.renew = 0, !.bids = NoBids]
             out == IF w = n THEN <<Msg("Claim", v.bids[w])>> ELSE <<>>
  <2>1. w \in Robots /\ v.bids[w] \in BidCost
    BY <1>1, <1>5, WinnerBeatsAll DEF TakeOwner, Bidders, View, BidCost
  <2>2. u \in View
    BY <1>1, <2>1, FieldFacts DEF View, TaskState, BidCost, Node
  <2>3. out \in Messages
    BY <1>2, <2>1, MessageOutType DEF MsgType
  <2>4. Ticked(n, u, out)
    BY <1>5 DEF TakeOwner
  <2> HIDE DEF u, out
  <2> QED
    BY <1>1, <2>2, <2>3, <2>4, TickedType
<1>6. CASE Rebid(n) \/ Reclaim(n)
  <2>1. PICK c \in BidCost : Ticked(n, OpenBidding(n, v, c), <<>> \o BidOut(c))
    BY <1>6, BidChoicesType DEF Rebid, Reclaim, Reopen
  <2>2. <<>> \o BidOut(c) \in Messages
    BY <1>2, BidOutType, ConcatProperties DEF Messages
  <2> QED
    BY <1>1, <2>1, <2>2, OpenBiddingType, TickedType
<1>7. CASE LeaseLost(n)
  <2>1. Reopened(v) \in View
    BY <1>1, FieldFacts DEF View, TaskState
  <2> QED
    BY <1>1, <1>2, <1>7, <2>1, TickedType DEF LeaseLost
<1>8. CASE OwnerMissing(n) \/ ReclaimBlocked(n)
  <2>1. [v EXCEPT !.missing = TRUE] \in View /\ [v EXCEPT !.waiting = TRUE] \in View
    BY <1>1 DEF View
  <2> QED
    BY <1>1, <1>2, <1>8, <2>1, TickedType DEF OwnerMissing, ReclaimBlocked
<1>9. CASE IdleTick(n)
  BY <1>1, <1>2, <1>9, TickedType DEF IdleTick
<1> QED
  BY <1>3, <1>4, <1>5, <1>6, <1>7, <1>8, <1>9 DEF Tick

\* The calls of the gateway and of a robot's task_manager.
LEMMA CallType ==
    ASSUME TypeOK,
           \/ Announce \/ Reannounce
           \/ \E n \in Robots : Commit(n) \/ Complete(n) \/ Fail(n) \/ Withdraw(n)
           \/ \E n \in Node : Cancel(n)
    PROVE  TypeOK'
<1>1. Robots \subseteq Node /\ Gateway \in Node
  BY FleetFacts
<1>2. \A n \in Node : view[n] \in View
  BY DEF TypeOK
<1>3. \A type \in MsgType \ {"Bid"} : \A c \in BidCost \union {CommittedCost} :
          <<Msg(type, c)>> \in Messages
  BY MessageOutType
<1>4. \A e \in Events : Spend(e) => budget' \in [Events -> Nat]
  BY SpendType
<1>5. CASE Announce
  <2> DEFINE fresh == [NoTask EXCEPT !.known = TRUE]
  <2>1. fresh \in View
    BY NoTaskType DEF View
  <2> HIDE DEF fresh
  <2>2. OpenBidding(Gateway, fresh, Infinity) \in View
    BY <1>1, <2>1, OpenBiddingType DEF BidCost
  <2>3. /\ Spend("announce")
        /\ Called(Gateway, OpenBidding(Gateway, fresh, Infinity),
                  <<Msg("TaskAnnounce", Infinity)>>)
    BY <1>5 DEF Announce, fresh
  <2> QED
    BY <1>3, <1>4, <2>2, <2>3, CalledType DEF Events, MsgType, BidCost
<1>6. CASE Reannounce
  BY <1>1, <1>2, <1>3, <1>4, <1>6, CalledType DEF Reannounce, Events, MsgType, BidCost
<1>7. ASSUME NEW n \in Robots, Commit(n) PROVE TypeOK'
  <2>1. [view[n] EXCEPT !.cost = CommittedCost] \in View
    BY <1>1, <1>2 DEF View
  <2> QED
    BY <1>3, <1>4, <1>7, <2>1, CalledType DEF Commit, Events, MsgType
<1>8. ASSUME NEW n \in Robots, Complete(n) PROVE TypeOK'
  <2>1. Finish(view[n], "done") \in View
    BY <1>1, <1>2, FinishType DEF Finished
  <2> QED
    BY <1>3, <1>4, <1>8, <2>1, CalledType DEF Complete, Events, MsgType, BidCost
<1>9. ASSUME NEW n \in Robots, Fail(n) PROVE TypeOK'
  <2> DEFINE v == view[n]
  <2>0. v \in View
    BY <1>1, <1>2
  <2> HIDE DEF v
  <2>1. [v EXCEPT !.st = "open", !.owner = NoOwner, !.cost = Infinity,
                  !.renew = 0, !.rebid = FailedBackoff, !.avoid = FailedBackoff] \in View
    BY <2>0, FieldFacts DEF View, TaskState
  <2> QED
    BY <1>3, <1>4, <1>9, <2>1, CalledType DEF Fail, Events, MsgType, BidCost, v
<1>10. ASSUME NEW n \in Robots, Withdraw(n) PROVE TypeOK'
  <2>1. [view[n] EXCEPT !.bids[n] = Infinity] \in View
    BY <1>1, <1>2, BidRecordType DEF BidCost
  <2> QED
    BY <1>3, <1>4, <1>10, <2>1, CalledType DEF Withdraw, Events, MsgType, BidCost
<1>11. ASSUME NEW n \in Node, Cancel(n) PROVE TypeOK'
  <2>1. Finish(view[n], "cancelled") \in View
    BY <1>2, FinishType DEF Finished
  <2> QED
    BY <1>3, <1>4, <1>11, <2>1, CalledType DEF Cancel, Events, MsgType, BidCost
<1> QED
  BY <1>5, <1>6, <1>7, <1>8, <1>9, <1>10, <1>11

\* Time, cuts, the heal and crashes.
LEMMA EnvironmentType ==
    ASSUME TypeOK,
           \/ Advance \/ Heal
           \/ \E side \in SUBSET Node : Partition(side)
           \/ \E a, b \in Node : CutPair(a, b)
           \/ \E n \in Node : Crash(n)
    PROVE  TypeOK'
<1> USE DEF TypeOK
<1>1. CASE Advance
  <2>1. view' \in [Node -> View]
    BY <1>1, AgedType DEF Advance
  <2>2. heard' \in [Node -> [Node -> 0 .. HeardMax]] /\ quiet' \in [Node -> 0 .. HeardMax]
    <3>1. \A x \in 0 .. HeardMax : Older(x, HeardMax) \in 0 .. HeardMax
      BY TimerAssumption DEF Older, HeardMax
    <3> QED
      BY <1>1, <3>1 DEF Advance
  <2>3. quorum' \in [Node -> [had : BOOLEAN, age : 0 .. Margin]]
    <3>1. \A x \in 0 .. Margin : Older(x, Margin) \in 0 .. Margin
      BY TimerAssumption DEF Older
    <3> QED
      BY <1>1, <3>1 DEF Advance
  <2>4. chan' \in [Node -> [Node -> Seq(Message)]]
    <3>1. ASSUME NEW s \in Node, NEW d \in Node
          PROVE  [i \in DOMAIN chan[s][d] |-> [chan[s][d][i] EXCEPT !.age = @ + 1]]
                     \in Seq(Message)
      <4> DEFINE q == chan[s][d]
      <4>1. /\ Len(q) \in Nat /\ DOMAIN q = 1 .. Len(q)
            /\ \A i \in 1 .. Len(q) : q[i] \in Message
        BY LenProperties
      <4>2. \A i \in DOMAIN q : q[i].age < MaxDelay
        BY <1>1 DEF Advance
      <4>3. \A i \in 1 .. Len(q) : [q[i] EXCEPT !.age = @ + 1] \in Message
        <5> SUFFICES ASSUME NEW m \in Message, m.age < MaxDelay
                     PROVE  [m EXCEPT !.age = @ + 1] \in Message
          BY <4>1, <4>2
        <5>1. m.age \in 0 .. MaxDelay
          BY DEF Message
        <5>2. m.age + 1 \in 0 .. MaxDelay
          <6>1. \A x \in 0 .. MaxDelay : x < MaxDelay => x + 1 \in 0 .. MaxDelay
            BY TimerAssumption
          <6> QED
            BY <5>1, <6>1
        <5> DEFINE a == m.age + 1
        <5> HIDE DEF a
        <5>3. [m EXCEPT !.age = a] \in Message
          <6>1. CASE m \in [type : {"Bid"}, cost : Costs, age : 0 .. MaxDelay]
            BY <5>2, <6>1 DEF Message, a
          <6>2. CASE m \in [type : MsgType \ {"Bid"},
                            cost : Costs \union {CommittedCost, Infinity},
                            age : 0 .. MaxDelay]
            BY <5>2, <6>2 DEF Message, a
          <6> QED
            BY <6>1, <6>2 DEF Message
        <5> QED
          BY <5>3 DEF a, Message
      <4> HIDE DEF q
      <4>4. [i \in DOMAIN q |-> [q[i] EXCEPT !.age = @ + 1]] \in [1 .. Len(q) -> Message]
        BY <4>1, <4>3
      <4>5. [i \in DOMAIN q |-> [q[i] EXCEPT !.age = @ + 1]] \in Seq(Message)
        BY <4>1, <4>4
      <4> QED
        BY <4>5 DEF q
    <3> QED
      BY <1>1, <3>1 DEF Advance
  <2> QED
    BY <1>1, <2>1, <2>2, <2>3, <2>4 DEF Advance
<1>2. CASE Heal
  BY <1>2 DEF Heal
<1>3. ASSUME NEW pairs \in SUBSET (SUBSET Node), Cut(pairs), budget' \in [Events -> Nat]
      PROVE  TypeOK'
  <2>1. <<>> \in Seq(Message)
    OBVIOUS
  <2> QED
    BY <1>3, <2>1 DEF Cut
<1>4. ASSUME NEW side \in SUBSET Node, Partition(side) PROVE TypeOK'
  <2> DEFINE pairs == {{a, b} : a \in side, b \in Node \ side}
  <2>1. pairs \subseteq SUBSET Node
    <3> SUFFICES ASSUME NEW p \in pairs PROVE p \subseteq Node
      OBVIOUS
    <3>1. PICK a \in side, b \in Node \ side : p = {a, b}
      OBVIOUS
    <3> QED
      BY <3>1
  <2>2. budget' \in [Events -> Nat] /\ Cut(pairs)
    BY <1>4, SpendType DEF Partition, Events
  <2> HIDE DEF pairs
  <2> QED
    BY <1>3, <2>1, <2>2
<1>5. ASSUME NEW a \in Node, NEW b \in Node, CutPair(a, b) PROVE TypeOK'
  BY <1>3, <1>5, SpendType DEF CutPair, Events
<1>6. ASSUME NEW n \in Node, Crash(n) PROVE TypeOK'
  <2>1. <<>> \in Seq(Message) /\ budget' \in [Events -> Nat]
    BY <1>6, SpendType DEF Crash, Events
  <2> QED
    BY <1>6, <2>1 DEF Crash
<1> QED
  BY <1>1, <1>2, <1>4, <1>5, <1>6

\* Every variable of the auction keeps its type, for every fleet, every timer
\* and every environment: in particular the age of a message never passes
\* MaxDelay, and a node that closes a round with bids finds a winner.
THEOREM TypeCorrect == Spec => []TypeOK
<1>1. Init => TypeOK
  <2> SUFFICES ASSUME Init PROVE TypeOK
    OBVIOUS
  <2>1. HeardMax \in 0 .. HeardMax /\ 0 \in 0 .. HeardMax /\ Margin \in 0 .. Margin
    BY TimerAssumption DEF HeardMax
  <2> QED
    BY <2>1, NoTaskType, BudgetAssumption DEF Init, TypeOK
<1>2. TypeOK /\ [Next]_vars => TypeOK'
  <2> SUFFICES ASSUME TypeOK, [Next]_vars PROVE TypeOK'
    OBVIOUS
  <2>1. CASE UNCHANGED vars
    BY <2>1 DEF vars, TypeOK
  <2> QED
    BY <2>1, ReceiveType, TickType, CallType, EnvironmentType DEF Next
<1> QED
  BY <1>1, <1>2, PTL DEF Spec

----------------------------------------------------------------------------
(* A cut-off owner stops *)

\* CutOffOwnerStops is not inductive: a robot one lease and one tick away from
\* its evidence would be allowed one tick too many.  What is preserved tells
\* apart a robot that has ticked in this unit, whose tick has just compared the
\* evidence with the lease, and one that has still to tick.
Limit(n) == IF n \in ticked THEN TaskLease ELSE TaskLease + 1
Working(n) == SelfOwner(n) /\ ~Committed(view[n])
FreshEvidence == \A n \in Robots : Working(n) => HeardMajority(heard[n], n, Limit(n))

\* Only its own tick can put a robot on the task: the handlers of messages
\* leave it where it was or take it off.
LEMMA ReceiveOwns ==
    ASSUME TypeOK, NEW n \in Node, Receive(n), Owns(n, view'[n])
    PROVE  Owns(n, view[n]) /\ view'[n].cost = view[n].cost
<1>0. view[n] \in View
  BY DEF TypeOK
<1>1. PICK s \in Node : \/ OnAnnounce(n, s)
                       \/ OnBid(n, s)
                       \/ OnClaim(n, s)
                       \/ OnLeaseRenewal(n, s)
                       \/ OnTaskEvent(n, s)
  BY DEF Receive
<1>2. \A v \in View : \A out : Handled(n, s, v, out) => view'[n] = v
  BY DEF Handled, TypeOK
<1>3. \A v \in View : \A c \in BidCost :
          OpenBidding(n, v, c) \in View /\ ~Owns(n, OpenBidding(n, v, c))
  BY OpenBiddingType DEF Owns
<1>4. n # s
  BY <1>1 DEF OnAnnounce, OnBid, OnClaim, OnLeaseRenewal, OnTaskEvent, Arrived
<1>5. \A c \in BidCost \union {CommittedCost} :
          LET u == AssertOwner(Known(view[n]), s, c)
          IN  u \in View /\ (Owns(n, u) => Owns(n, view[n]) /\ u.cost = view[n].cost)
  <2> SUFFICES ASSUME NEW c \in BidCost \union {CommittedCost}
               PROVE  LET u == AssertOwner(Known(view[n]), s, c)
                      IN  u \in View /\ (Owns(n, u) => Owns(n, view[n]) /\ u.cost = view[n].cost)
    OBVIOUS
  <2> DEFINE k == Known(view[n])
             u == AssertOwner(k, s, c)
  <2>1. k \in View /\ u \in View
    BY <1>0, KnownType, AssertOwnerType
  <2>2. k = view[n] \/ k.st = "open"
    BY NoTaskType DEF Known, View
  <2> HIDE DEF k
  <2>3. u = k \/ (u.st = "claimed" /\ u.owner = s)
    BY <2>1 DEF AssertOwner, View
  <2>4. Owns(n, u) => Owns(n, k) /\ u.cost = k.cost
    BY <1>4, <2>3 DEF Owns
  <2>5. Owns(n, k) => k = view[n]
    BY <2>2 DEF Owns
  <2> HIDE DEF u
  <2>6. u \in View /\ (Owns(n, u) => Owns(n, view[n]) /\ u.cost = view[n].cost)
    BY <2>1, <2>4, <2>5
  <2> QED
    BY <2>6 DEF u, k
<1>6. CASE OnAnnounce(n, s)
  <2> DEFINE fresh == [NoTask EXCEPT !.known = TRUE]
             seen == [view[n] EXCEPT !.known = TRUE]
  <2>1. \/ \E c \in BidCost : Handled(n, s, OpenBidding(n, fresh, c), BidOut(c))
        \/ Handled(n, s, seen, <<>>)
    BY <1>6, BidChoicesType DEF OnAnnounce
  <2>2. fresh \in View
    BY NoTaskType DEF View
  <2>3. seen \in View /\ seen.st = view[n].st /\ seen.owner = view[n].owner
                     /\ seen.cost = view[n].cost
    BY <1>0 DEF View
  <2> HIDE DEF fresh, seen
  <2> QED
    BY <1>2, <1>3, <2>1, <2>2, <2>3 DEF Owns
<1>7. CASE OnBid(n, s)
  <2> DEFINE b == Head(chan[s][n]).cost
             record(w) == [w EXCEPT !.bids[s] = b]
  <2>1. b \in BidCost
    BY <1>7, HeadType DEF OnBid, BidCost
  <2>2. \/ \E c \in BidCost : Handled(n, s, record(OpenBidding(n, view[n], c)), BidOut(c))
        \/ Handled(n, s, record(view[n]), <<>>)
        \/ Handled(n, s, view[n], <<>>)
    BY <1>7, BidChoicesType DEF OnBid
  <2>3. \A w \in View : /\ record(w) \in View
                        /\ record(w).st = w.st
                        /\ record(w).owner = w.owner
                        /\ record(w).cost = w.cost
    BY <2>1, BidRecordType DEF View
  <2> HIDE DEF record, b
  <2> QED
    BY <1>0, <1>2, <1>3, <2>2, <2>3 DEF Owns
<1>8. CASE OnClaim(n, s)
  <2> DEFINE k == Known(view[n])
             c == Head(chan[s][n]).cost
             w == [k EXCEPT !.bids[s] = c]
             cheaper == /\ k.st = "bidding" /\ n \in Bidders(k)
                        /\ Beats(k.bids[n], n, c, s)
  <2>1. c \in BidCost \union {CommittedCost} /\ k \in View
    BY <1>0, <1>8, HeadType, KnownType DEF OnClaim
  <2>2. Handled(n, s, IF cheaper THEN w ELSE AssertOwner(k, s, c), <<>>)
    BY <1>8 DEF OnClaim
  <2>3. CASE cheaper
    <3>1. view' = [view EXCEPT ![n] = w]
      BY <2>2, <2>3 DEF Handled
    <3>2. view'[n] = w /\ w.st = "bidding"
      BY <2>1, <2>3, <3>1 DEF TypeOK, View
    <3> QED
      BY <3>2 DEF Owns
  <2>4. CASE ~cheaper
    <3>1. Handled(n, s, AssertOwner(k, s, c), <<>>)
      BY <2>2, <2>4
    <3> HIDE DEF c, cheaper, w
    <3> QED
      BY <1>2, <1>5, <2>1, <3>1
  <2> QED
    BY <2>3, <2>4
<1>9. CASE OnLeaseRenewal(n, s)
  <2> DEFINE c == Head(chan[s][n]).cost
  <2>1. c \in BidCost \union {CommittedCost}
    BY <1>9, HeadType DEF OnLeaseRenewal
  <2>2. Handled(n, s, AssertOwner(Known(view[n]), s, c), <<>>)
    BY <1>9 DEF OnLeaseRenewal
  <2> HIDE DEF c
  <2> QED
    BY <1>2, <1>5, <2>1, <2>2
<1>10. CASE OnTaskEvent(n, s)
  <2> DEFINE less == [view[n] EXCEPT !.bids[s] = Infinity]
  <2>1. \/ Handled(n, s, view[n], <<>>)
        \/ \E st \in Finished : Handled(n, s, Finish(view[n], st), <<>>)
        \/ \E c \in BidCost : Handled(n, s, OpenBidding(n, view[n], c), BidOut(c))
        \/ Handled(n, s, less, <<>>)
    BY <1>10, BidChoicesType DEF OnTaskEvent, Finished
  <2>2. /\ less \in View /\ less.st = view[n].st
        /\ less.owner = view[n].owner /\ less.cost = view[n].cost
    BY <1>0, BidRecordType DEF View, BidCost
  <2>3. \A st \in Finished : Finish(view[n], st) \in View /\ ~Owns(n, Finish(view[n], st))
    BY <1>0, FinishType DEF Finish, Finished, Owns, View
  <2> HIDE DEF less
  <2> QED
    BY <1>0, <1>2, <1>3, <2>1, <2>2, <2>3 DEF Owns
<1> QED
  BY <1>1, <1>6, <1>7, <1>8, <1>9, <1>10

\* A tick that leaves a robot on an uncommitted task found evidence within the
\* lease: MustStop takes the others off, and a robot that claims has a quorum.
LEMMA TickOwns ==
    ASSUME TypeOK, NEW n \in Node, Tick(n), Owns(n, view'[n]), ~Committed(view'[n])
    PROVE  HeardMajority(heard[n], n, TaskLease)
<1> DEFINE v == view[n]
<1>1. n \in alive /\ v \in View
  BY DEF Tick, TypeOK
<1>2. \A u \in View : \A out : Ticked(n, u, out) => Owns(n, u) /\ view'[n] = u
  <2> SUFFICES ASSUME NEW u \in View, NEW out, Ticked(n, u, out)
               PROVE  Owns(n, u) /\ view'[n] = u
    OBVIOUS
  <2>1. view'[n] \in {u, NoTask}
    BY DEF Ticked, TypeOK
  <2> QED
    BY <2>1 DEF Owns, NoTask
<1>3. \A c \in BidCost :
          OpenBidding(n, v, c) \in View /\ ~Owns(n, OpenBidding(n, v, c))
  BY <1>1, OpenBiddingType DEF Owns
<1>4. QuorumNow(n) => HeardMajority(heard[n], n, TaskLease)
  <2>1. \A p \in Node : heard[n][p] <= StatusTimeout => heard[n][p] <= TaskLease
    BY TimerAssumption DEF TypeOK
  <2> QED
    BY <2>1, HeardMonotone DEF QuorumNow, HasQuorum
<1>5. CASE NoWinner(n)
  <2>1. \A d \in 1 .. RebidDelay : [v EXCEPT !.st = "open", !.rebid = d] \in View
    BY <1>1, FieldFacts DEF View, TaskState
  <2> QED
    BY <1>1, <1>2, <1>5, <2>1 DEF NoWinner, Owns, View
<1>6. CASE Decline(n)
  BY <1>2, <1>3, <1>6 DEF Decline, BidCost
<1>7. CASE TakeOwner(n)
  <2> DEFINE w == Winner(v)
             u == [v EXCEPT !.st = "claimed", !.owner = w, !.cost = v.bids[w],
                            !.renew = 0, !.bids = NoBids]
             out == IF w = n THEN <<Msg("Claim", v.bids[w])>> ELSE <<>>
  <2>1. w \in Robots /\ v.bids[w] \in BidCost
    BY <1>1, <1>7, WinnerBeatsAll DEF TakeOwner, Bidders, View, BidCost
  <2>2. u \in View /\ u.owner = w
    BY <1>1, <2>1, FieldFacts DEF View, TaskState, BidCost, Node
  <2>3. Ticked(n, u, out)
    BY <1>7 DEF TakeOwner
  <2> HIDE DEF u, out
  <2>4. w = n
    BY <1>2, <2>2, <2>3 DEF Owns
  <2>5. QuorumNow(n)
    BY <1>7, <2>4 DEF TakeOwner, Won
  <2> QED
    BY <1>4, <2>5
<1>8. CASE Rebid(n) \/ Reclaim(n)
  <2>1. PICK c \in BidCost : Ticked(n, OpenBidding(n, v, c), <<>> \o BidOut(c))
    BY <1>8, BidChoicesType DEF Rebid, Reclaim, Reopen
  <2> QED
    BY <1>2, <1>3, <2>1
<1>9. CASE LeaseLost(n)
  <2> DEFINE u == [v EXCEPT !.st = "open", !.owner = NoOwner, !.cost = Infinity, !.renew = 0]
  <2>1. u \in View /\ u.st = "open"
    BY <1>1, FieldFacts DEF View, TaskState
  <2>2. Ticked(n, u, <<>>)
    BY <1>9 DEF LeaseLost
  <2> HIDE DEF u
  <2> QED
    BY <1>2, <2>1, <2>2 DEF Owns
<1>10. CASE OwnerMissing(n) \/ ReclaimBlocked(n)
  <2> DEFINE m == [v EXCEPT !.missing = TRUE]
             r == [v EXCEPT !.waiting = TRUE]
  <2>1. m \in View /\ r \in View /\ m.owner = v.owner /\ r.owner = v.owner
    BY <1>1 DEF View
  <2>2. Ticked(n, m, <<>>) \/ Ticked(n, r, <<>>)
    BY <1>10 DEF OwnerMissing, ReclaimBlocked
  <2>3. v.owner # n
    BY <1>10 DEF OwnerMissing, ReclaimBlocked, Expired
  <2> HIDE DEF m, r
  <2> QED
    BY <1>2, <2>1, <2>2, <2>3 DEF Owns
<1>11. CASE IdleTick(n)
  <2>1. Ticked(n, v, <<>>) /\ ~MustStop(n)
    BY <1>11 DEF IdleTick
  <2>2. Owns(n, v) /\ view'[n] = v
    BY <1>1, <1>2, <2>1
  <2> QED
    BY <2>1, <2>2 DEF MustStop
<1> QED
  BY <1>5, <1>6, <1>7, <1>8, <1>9, <1>10, <1>11 DEF Tick

\* The calls of the operator and of the robot's task_manager put no robot on the
\* task either: what they leave uncommitted on a robot was there before.
LEMMA CallOwns ==
    ASSUME TypeOK, NEW n \in Robots, Working(n)',
           \/ Announce \/ Reannounce
           \/ \E m \in Robots : Commit(m) \/ Complete(m) \/ Fail(m) \/ Withdraw(m)
           \/ \E m \in Node : Cancel(m)
    PROVE  Working(n) /\ heard' = heard /\ ticked' = ticked
<1>1. PICK m, v : /\ m \in Node
                  /\ \E out : Called(m, v, out)
                  /\ \/ v.st # "claimed"
                     \/ v = view[m]
                     \/ v.cost = CommittedCost
  <2>1. Gateway \in Node /\ Robots \subseteq Node /\ \A m \in Node : view[m] \in View
    BY FleetFacts DEF TypeOK
  <2>2. CASE Announce
    <3> DEFINE fresh == [NoTask EXCEPT !.known = TRUE]
    <3>1. fresh \in View
      BY NoTaskType DEF View
    <3>2. \E out : Called(Gateway, OpenBidding(Gateway, fresh, Infinity), out)
      BY <2>2 DEF Announce
    <3> HIDE DEF fresh
    <3>3. OpenBidding(Gateway, fresh, Infinity).st = "bidding"
      BY <2>1, <3>1, OpenBiddingType DEF BidCost
    <3> QED
      BY <2>1, <3>2, <3>3
  <2>3. CASE Reannounce
    BY <2>1, <2>3 DEF Reannounce
  <2>4. ASSUME NEW m \in Robots, Commit(m)
        PROVE  \E v, out : Called(m, v, out) /\ v.cost = CommittedCost
    <3>1. [view[m] EXCEPT !.cost = CommittedCost].cost = CommittedCost
      BY <2>1 DEF View
    <3> QED
      BY <2>4, <3>1 DEF Commit
  <2>5. ASSUME NEW m \in Node, NEW st \in Finished
        PROVE  Finish(view[m], st).st # "claimed"
    BY <2>1 DEF Finish, Finished, View
  <2>6. ASSUME NEW m \in Robots, Fail(m)
        PROVE  \E v, out : Called(m, v, out) /\ v.st # "claimed"
    <3>1. [view[m] EXCEPT !.st = "open", !.owner = NoOwner, !.cost = Infinity,
                          !.renew = 0, !.rebid = FailedBackoff, !.avoid = FailedBackoff].st = "open"
      BY <2>1 DEF View
    <3> QED
      BY <2>6, <3>1 DEF Fail
  <2>7. ASSUME NEW m \in Robots, Withdraw(m)
        PROVE  \E v, out : Called(m, v, out) /\ v.st # "claimed"
    <3>1. [view[m] EXCEPT !.bids[m] = Infinity].st = view[m].st
      BY <2>1 DEF View
    <3> QED
      BY <2>7, <3>1 DEF Withdraw
  <2>8. ASSUME NEW m \in Robots, Complete(m)
        PROVE  \E v, out : Called(m, v, out) /\ v.st # "claimed"
    BY <2>1, <2>5, <2>8 DEF Complete, Finished
  <2>9. ASSUME NEW m \in Node, Cancel(m)
        PROVE  \E v, out : Called(m, v, out) /\ v.st # "claimed"
    BY <2>5, <2>9 DEF Cancel, Finished
  <2> QED
    BY <2>1, <2>2, <2>3, <2>4, <2>6, <2>7, <2>8, <2>9
<1>2. /\ view' = [view EXCEPT ![m] = v]
      /\ heard' = heard /\ ticked' = ticked /\ alive' = alive
  BY <1>1 DEF Called
<1>3. view'[n] = IF n = m THEN v ELSE view[n]
  BY <1>2, FleetFacts DEF TypeOK
<1>4. view'[n] = view[n]
  BY <1>1, <1>3 DEF Working, SelfOwner, Owns, Committed, CommittedCost
<1> QED
  BY <1>2, <1>4 DEF Working, SelfOwner, Owns, Committed

\* The evidence of every working robot stays fresh.
LEMMA FreshEvidenceStep ==
    ASSUME TypeOK, FreshEvidence, [Next]_vars
    PROVE  FreshEvidence'
<1> SUFFICES ASSUME NEW n \in Robots, Working(n)'
             PROVE  HeardMajority(heard'[n], n, Limit(n)')
  BY DEF FreshEvidence
<1>0. n \in Node /\ heard[n] \in [Node -> 0 .. HeardMax]
  BY FleetFacts DEF TypeOK
<1>1. ASSUME Working(n), \A p \in Node : heard'[n][p] <= heard[n][p],
             heard'[n] \in [Node -> 0 .. HeardMax], Limit(n)' = Limit(n)
      PROVE  HeardMajority(heard'[n], n, Limit(n)')
  <2>1. HeardMajority(heard[n], n, Limit(n)) /\ Limit(n) \in Nat
    BY <1>1, TimerAssumption DEF FreshEvidence, Limit
  <2>2. \A p \in Node : heard[n][p] <= Limit(n) => heard'[n][p] <= Limit(n)
    BY <1>0, <1>1, <2>1, TimerAssumption DEF HeardMax
  <2> QED
    BY <1>0, <1>1, <2>1, <2>2, HeardMonotone
<1>2. ASSUME Working(n), heard'[n] = heard[n], Limit(n)' = Limit(n)
      PROVE  HeardMajority(heard'[n], n, Limit(n)')
  BY <1>2 DEF FreshEvidence
<1>3. CASE UNCHANGED vars
  BY <1>2, <1>3 DEF vars, Working, SelfOwner, Owns, Committed, Limit
<1>4. ASSUME NEW m \in Node, Receive(m)
      PROVE  HeardMajority(heard'[n], n, Limit(n)')
  <2>1. PICK s, v, out : s \in Node /\ Handled(m, s, v, out)
    BY <1>4 DEF Receive, OnAnnounce, OnBid, OnClaim, OnLeaseRenewal, OnTaskEvent
  <2>2. /\ ticked' = ticked /\ alive' = alive
        /\ heard' = [heard EXCEPT ![m][s] = 0]
        /\ view' = [view EXCEPT ![m] = v]
    BY <2>1 DEF Handled, Hear
  <2>3. /\ heard'[n] \in [Node -> 0 .. HeardMax]
        /\ \A p \in Node : heard'[n][p] <= heard[n][p]
    <3>1. heard'[n] = IF n = m THEN [heard[n] EXCEPT ![s] = 0] ELSE heard[n]
      BY <1>0, <2>2 DEF TypeOK
    <3> QED
      BY <1>0, <2>1, <3>1, TimerAssumption DEF HeardMax
  <2>4. Working(n)
    <3>1. CASE m = n
      BY <1>0, <1>4, <2>2, <3>1, ReceiveOwns DEF Working, SelfOwner, Committed, Owns
    <3>2. CASE m # n
      BY <1>0, <2>2, <3>2 DEF Working, SelfOwner, Committed, Owns, TypeOK
    <3> QED
      BY <3>1, <3>2
  <2> QED
    BY <1>1, <2>2, <2>3, <2>4 DEF Limit
<1>5. ASSUME NEW m \in Node, Tick(m)
      PROVE  HeardMajority(heard'[n], n, Limit(n)')
  <2>1. PICK v, out : Ticked(m, v, out)
    BY <1>5 DEF Tick, NoWinner, Decline, TakeOwner, Rebid, Reclaim, Reopen, LeaseLost,
                OwnerMissing, ReclaimBlocked, IdleTick
  <2>2. /\ ticked' = ticked \union {m} /\ alive' = alive
        /\ \A p \in Node : p # m => view'[p] = view[p]
    BY <2>1 DEF Ticked, TypeOK
  <2>3. heard'[n] = IF n # m /\ Linked(m, n) THEN [heard[n] EXCEPT ![m] = 0] ELSE heard[n]
    BY <1>0, <2>1 DEF Ticked
  <2>4. CASE m = n
    <3>1. HeardMajority(heard[n], n, TaskLease)
      BY <1>0, <1>5, <2>4, TickOwns DEF Working, SelfOwner
    <3> QED
      BY <2>2, <2>3, <2>4, <3>1 DEF Limit
  <2>5. CASE m # n
    <3>1. /\ heard'[n] \in [Node -> 0 .. HeardMax]
          /\ \A p \in Node : heard'[n][p] <= heard[n][p]
      BY <1>0, <2>3, TimerAssumption DEF HeardMax
    <3>2. Working(n) /\ Limit(n)' = Limit(n)
      BY <1>0, <2>2, <2>5 DEF Working, SelfOwner, Committed, Owns, Limit
    <3> QED
      BY <1>1, <3>1, <3>2
  <2> QED
    BY <2>4, <2>5
<1>6. CASE \/ Announce \/ Reannounce
           \/ \E m \in Robots : Commit(m) \/ Complete(m) \/ Fail(m) \/ Withdraw(m)
           \/ \E m \in Node : Cancel(m)
  <2>1. Working(n) /\ heard' = heard /\ ticked' = ticked
    BY <1>6, CallOwns
  <2> QED
    BY <1>2, <2>1 DEF Limit
<1>7. CASE Advance
  <2>1. Working(n) /\ n \in ticked /\ ticked' = {}
    <3>1. /\ view'[n] = Aged(view[n])
          /\ alive' = alive /\ ticked = alive /\ ticked' = {}
      BY <1>0, <1>7 DEF Advance
    <3>2. \A u \in View : /\ Aged(u).st = u.st
                          /\ Aged(u).owner = u.owner
                          /\ Aged(u).cost = u.cost
      BY DEF Aged, View
    <3>3. view[n] \in View
      BY <1>0 DEF TypeOK
    <3> QED
      BY <3>1, <3>2, <3>3 DEF Working, SelfOwner, Owns, Committed
  <2>2. HeardMajority(heard[n], n, TaskLease)
    BY <2>1 DEF FreshEvidence, Limit
  <2>3. \A p \in Node : heard[n][p] <= TaskLease => heard'[n][p] <= TaskLease + 1
    <3>1. \A p \in Node : heard'[n][p] = Older(heard[n][p], HeardMax)
      BY <1>0, <1>7 DEF Advance
    <3> QED
      BY <1>0, <3>1, TimerAssumption DEF Older, HeardMax
  <2>4. HeardMajority(heard'[n], n, TaskLease + 1)
    BY <1>0, <2>2, <2>3, HeardMonotone
  <2> QED
    BY <2>1, <2>4 DEF Limit
<1>8. CASE \/ Heal
           \/ \E side \in SUBSET Node : Partition(side)
           \/ \E a, b \in Node : CutPair(a, b)
  <2>1. UNCHANGED <<view, heard, alive, ticked>>
    <3>1. \A pairs : Cut(pairs) => UNCHANGED <<view, heard, alive, ticked>>
      BY DEF Cut
    <3>2. ASSUME NEW side \in SUBSET Node, Partition(side)
          PROVE  UNCHANGED <<view, heard, alive, ticked>>
      <4> DEFINE pairs == {{a, b} : a \in side, b \in Node \ side}
      <4>1. Cut(pairs)
        BY <3>2 DEF Partition
      <4> HIDE DEF pairs
      <4> QED
        BY <3>1, <4>1
    <3>3. ASSUME NEW a \in Node, NEW b \in Node, CutPair(a, b)
          PROVE  UNCHANGED <<view, heard, alive, ticked>>
      BY <3>1, <3>3 DEF CutPair
    <3>4. CASE Heal
      BY <3>4 DEF Heal
    <3> QED
      BY <1>8, <3>2, <3>3, <3>4
  <2> QED
    BY <1>2, <2>1 DEF Working, SelfOwner, Owns, Committed, Limit
<1>9. ASSUME NEW m \in Node, Crash(m)
      PROVE  HeardMajority(heard'[n], n, Limit(n)')
  <2>1. view' = view /\ heard' = heard /\ alive' = alive \ {m} /\ ticked' = ticked \ {m}
    BY <1>9 DEF Crash
  <2>2. n # m /\ Working(n)
    BY <2>1 DEF Working, SelfOwner, Owns, Committed
  <2> QED
    BY <1>2, <2>1, <2>2 DEF Limit
<1> QED
  BY <1>3, <1>4, <1>5, <1>6, <1>7, <1>8, <1>9 DEF Next

\* Whatever the fleet, its timers, the network and the crashes, no robot is on
\* an uncommitted task more than one tick after the lease of its evidence.
THEOREM CutOffOwnerStopsAlways == Spec => []CutOffOwnerStops
<1>1. Init => FreshEvidence
  BY FleetFacts DEF Init, FreshEvidence, Working, SelfOwner, Owns, NoTask
<1>2. TypeOK /\ FreshEvidence /\ [Next]_vars => FreshEvidence'
  BY FreshEvidenceStep
<1>3. TypeOK /\ FreshEvidence => CutOffOwnerStops
  <2> SUFFICES ASSUME TypeOK, FreshEvidence, NEW n \in SelfOwners, ~Committed(view[n])
               PROVE  HeardMajority(heard[n], n, TaskLease + 1)
    BY DEF CutOffOwnerStops
  <2>1. n \in Robots /\ n \in Node /\ HeardMajority(heard[n], n, Limit(n))
    BY FleetFacts DEF SelfOwners, FreshEvidence, Working
  <2>2. \A p \in Node : heard[n][p] <= Limit(n) => heard[n][p] <= TaskLease + 1
    BY <2>1, TimerAssumption DEF Limit, TypeOK, HeardMax
  <2> QED
    BY <2>1, <2>2, HeardMonotone
<1> QED
  BY <1>1, <1>2, <1>3, TypeCorrect, PTL DEF Spec

----------------------------------------------------------------------------
(* A losing claimant is told *)

\* LoserWillHear is about two claimants, and it is not inductive: it says
\* nothing of a robot that is still bidding when another one claims.  What is
\* preserved watches every robot b from the moment another robot a, on the task, has
\* ticked in this beacon period.  Either a message that takes b off is on its way from
\* a, or b is safe: as an owner it has the better claim, and as a bidder it has no bid
\* to win with, a better bid, or a window that just opened and stays open past the next
\* tick of a, whose beacon ends b's round.
Loud == {"Claim", "LeaseBeacon"}
Calls(q, c) == \E i \in DOMAIN q : q[i].type \in Loud /\ q[i].cost = c
Safe(a, b) ==
    /\ Owns(b, view[b]) => ~Beats(view[a].cost, a, view[b].cost, b)
    /\ view[b].st = "bidding" =>
           \/ view[b].bids[b] = Infinity
           \/ Beats(view[b].bids[b], b, view[a].cost, a)
           \/ view[b].win = BidWindow
NoSilentClaim ==
    \A a \in SelfOwners : a \in ticked =>
        \A b \in Robots \ {a} : Calls(chan[a][b], view[a].cost) \/ Safe(a, b)

\* No link is cut and no node crashes, and a bid window is at least one beacon
\* period, as shipped (both 1 s): a window never closes in the period it opens in.
Connected == Budget["split"] = 0 /\ Budget["fault"] = 0 /\ BidWindow >= 1
Whole ==
    /\ alive = Node
    /\ blocked = {}
    /\ budget["split"] = 0
    /\ budget["fault"] = 0

\* The view w of node n is no more of a claim or of a bid than its view v.
Keeps(n, v, w) ==
    /\ Owns(n, w) => Owns(n, v) /\ w.cost = v.cost
    /\ w.st = "bidding" =>
           \/ w.bids[n] = Infinity
           \/ w.win = BidWindow
           \/ v.st = "bidding" /\ w.bids[n] = v.bids[n] /\ w.win = v.win

\* Node n, with the view w, has heard that s is on the task at the cost c.
Heeds(n, s, c, w) ==
    /\ Owns(n, w) => ~Beats(c, s, w.cost, n)
    /\ w.st = "bidding" => Beats(w.bids[n], n, c, s)

\* Node n claims the task of the round that it won.
Claims(n, v, w, out) ==
    /\ v.st = "bidding" /\ v.win = 0
    /\ v.bids[n] # Infinity
    /\ Owns(n, w) /\ w.cost = v.bids[n]
    /\ out = <<Msg("Claim", w.cost)>>

\* Node n commits the task it is on.
Commits(n, v, w, out) ==
    /\ Owns(n, v) /\ ~Committed(v)
    /\ Owns(n, w) /\ w.cost = CommittedCost
    /\ out = <<Msg("Claim", CommittedCost)>>

\* Where the messages of two channels are when one follows the other.
LEMMA ConcatEntries ==
    ASSUME NEW q \in Messages, NEW out \in Messages
    PROVE  /\ \A i \in DOMAIN q : /\ i \in DOMAIN (q \o out)
                                 /\ (q \o out)[i] = q[i]
           /\ \A i \in DOMAIN out : /\ Len(q) + i \in DOMAIN (q \o out)
                                   /\ (q \o out)[Len(q) + i] = out[i]
           /\ \A i \in DOMAIN (q \o out) :
                  \/ i \in DOMAIN q
                  \/ i - Len(q) \in DOMAIN out /\ (q \o out)[i] = out[i - Len(q)]
           /\ \A i \in DOMAIN q : \A j \in DOMAIN out : i < Len(q) + j
<1>1. /\ q \o out \in Messages
      /\ Len(q \o out) = Len(q) + Len(out)
      /\ \A i \in 1 .. Len(q) : (q \o out)[i] = q[i]
      /\ \A i \in 1 .. Len(out) : (q \o out)[Len(q) + i] = out[i]
  BY ConcatProperties DEF Messages
<1>2. /\ Len(q) \in Nat /\ DOMAIN q = 1 .. Len(q)
      /\ Len(out) \in Nat /\ DOMAIN out = 1 .. Len(out)
      /\ DOMAIN (q \o out) = 1 .. Len(q \o out)
  BY <1>1, LenProperties DEF Messages
<1>3. ASSUME NEW i \in 1 .. Len(q) + Len(out), i \notin 1 .. Len(q)
      PROVE  i - Len(q) \in 1 .. Len(out) /\ (q \o out)[i] = out[i - Len(q)]
  <2>1. i - Len(q) \in 1 .. Len(out) /\ Len(q) + (i - Len(q)) = i
    BY <1>2, <1>3
  <2> QED
    BY <1>1, <2>1
<1>4. \A i \in 1 .. Len(q) : \A j \in 1 .. Len(out) : i < Len(q) + j
  BY <1>2
<1>5. \A i \in 1 .. Len(q) : i \in 1 .. Len(q) + Len(out)
  BY <1>2
<1>6. \A i \in 1 .. Len(out) : Len(q) + i \in 1 .. Len(q) + Len(out)
  BY <1>2
<1> QED
  BY <1>1, <1>2, <1>3, <1>4, <1>5, <1>6

\* Where they are when the head of a channel is consumed.
LEMMA TailEntries ==
    ASSUME NEW q \in Messages, q # <<>>
    PROVE  /\ Tail(q) \in Messages
           /\ 1 \in DOMAIN q /\ Head(q) = q[1]
           /\ \A i \in DOMAIN Tail(q) : i + 1 \in DOMAIN q /\ Tail(q)[i] = q[i + 1]
           /\ \A i \in DOMAIN q : i # 1 => i - 1 \in DOMAIN Tail(q) /\ Tail(q)[i - 1] = q[i]
           /\ DOMAIN q \subseteq Nat \ {0}
<1>1. /\ Tail(q) \in Messages /\ Len(Tail(q)) = Len(q) - 1
      /\ Head(q) = q[1]
      /\ \A i \in 1 .. Len(Tail(q)) : Tail(q)[i] = q[i + 1]
  BY HeadTailProperties DEF Messages
<1>2. /\ Len(q) \in Nat /\ Len(q) # 0 /\ DOMAIN q = 1 .. Len(q)
      /\ DOMAIN Tail(q) = 1 .. Len(Tail(q))
  BY <1>1, LenProperties, EmptySeq DEF Messages
<1>3. 1 \in 1 .. Len(q) /\ 1 .. Len(q) \subseteq Nat \ {0}
  BY <1>2
<1>4. \A i \in 1 .. Len(Tail(q)) : i + 1 \in 1 .. Len(q)
  BY <1>1, <1>2
<1>5. ASSUME NEW i \in 1 .. Len(q), i # 1
      PROVE  i - 1 \in 1 .. Len(Tail(q)) /\ Tail(q)[i - 1] = q[i]
  <2>1. i - 1 \in 1 .. Len(Tail(q)) /\ (i - 1) + 1 = i
    BY <1>1, <1>2, <1>5
  <2> QED
    BY <1>1, <2>1
<1> QED
  BY <1>1, <1>2, <1>3, <1>4, <1>5

\* What was on its way stays on its way when messages are added behind it, and
\* what is added is on its way.
LEMMA CallsAppended ==
    ASSUME NEW q \in Messages, NEW out \in Messages, NEW c, Calls(q, c) \/ Calls(out, c)
    PROVE  Calls(q \o out, c)
<1>1. CASE Calls(q, c)
  <2>1. PICK i \in DOMAIN q : q[i].type \in Loud /\ q[i].cost = c
    BY <1>1 DEF Calls
  <2>2. i \in DOMAIN (q \o out) /\ (q \o out)[i] = q[i]
    BY ConcatEntries
  <2> QED
    BY <2>1, <2>2 DEF Calls
<1>2. CASE Calls(out, c)
  <2>1. PICK i \in DOMAIN out : out[i].type \in Loud /\ out[i].cost = c
    BY <1>2 DEF Calls
  <2>2. Len(q) + i \in DOMAIN (q \o out) /\ (q \o out)[Len(q) + i] = out[i]
    BY ConcatEntries
  <2> QED
    BY <2>1, <2>2 DEF Calls
<1> QED
  BY <1>1, <1>2

\* Of what was on its way, only the head is no longer once it is consumed.
LEMMA CallsTail ==
    ASSUME NEW q \in Messages, q # <<>>, NEW c, Calls(q, c)
    PROVE  (Head(q).type \in Loud /\ Head(q).cost = c) \/ Calls(Tail(q), c)
<1>1. PICK i \in DOMAIN q : q[i].type \in Loud /\ q[i].cost = c
  BY DEF Calls
<1>2. CASE i = 1
  <2>1. Head(q) = q[1]
    BY TailEntries
  <2> QED
    BY <1>1, <1>2, <2>1
<1>3. CASE i # 1
  <2>1. i - 1 \in DOMAIN Tail(q) /\ Tail(q)[i - 1] = q[i]
    BY <1>3, TailEntries
  <2> QED
    BY <1>1, <2>1 DEF Calls
<1> QED
  BY <1>2, <1>3

\* Two different claims do not both win.
LEMMA BeatsOneWay ==
    ASSUME NEW c1 \in Int, NEW c2 \in Int, NEW r1 \in Nat, NEW r2 \in Nat,
           Beats(c1, r1, c2, r2)
    PROVE  ~Beats(c2, r2, c1, r1)
BY DEF Beats

\* Every cost of a view is a number, and above COMMITTED_COST unless committed.
LEMMA CostFacts ==
    ASSUME TypeOK, NEW n \in Node
    PROVE  /\ view[n] \in View
           /\ view[n].cost \in Int
           /\ view[n].cost >= CommittedCost
           /\ \A r \in Robots : view[n].bids[r] \in Nat
<1>1. view[n] \in View
  BY DEF TypeOK
<1>2. view[n].cost \in Costs \union {CommittedCost, Infinity}
  BY <1>1 DEF View
<1>3. view[n].bids \in [Robots -> Costs \union {Infinity}]
  BY <1>1 DEF View
<1>4. Costs \subseteq Nat /\ Infinity \in Nat /\ CommittedCost = -1
  BY CostAssumption DEF CommittedCost
<1>5. view[n].cost \in Int /\ view[n].cost >= CommittedCost
  <2> SUFFICES ASSUME NEW x \in Costs \union {CommittedCost, Infinity}
               PROVE  x \in Int /\ x >= CommittedCost
    BY <1>2
  <2>1. x \in Nat \/ x = -1
    BY <1>4
  <2> QED
    BY <1>4, <2>1
<1>6. \A r \in Robots : view[n].bids[r] \in Nat
  BY <1>3, <1>4
<1> QED
  BY <1>1, <1>5, <1>6

\* In a connected fleet what n publishes reaches the channel of every peer.
LEMMA PublishReaches ==
    ASSUME Whole, NEW ch \in [Node -> [Node -> Messages]], NEW n \in Node,
           NEW out \in Messages
    PROVE  \A a, b \in Node : a # b =>
               Publish(ch, n, out)[a][b] = IF a = n THEN ch[a][b] \o out ELSE ch[a][b]
BY DEF Publish, Linked, Whole

\* A round that opens has its whole window ahead of it.
LEMMA OpenBiddingWindow ==
    ASSUME NEW n \in Node, NEW v \in View, NEW c \in BidCost
    PROVE  /\ OpenBidding(n, v, c) \in View
           /\ OpenBidding(n, v, c).st = "bidding"
           /\ OpenBidding(n, v, c).win = BidWindow
<1>1. OpenBidding(n, v, c).win = BidWindow
  BY DEF OpenBidding, View
<1> QED
  BY <1>1, OpenBiddingType

\* A node that hears a message is no more of a claimant or bidder than before,
\* and after a claim or a beacon it heeds the claim of its sender.
LEMMA ReceiveFrame ==
    ASSUME TypeOK, NEW n \in Node, Receive(n)
    PROVE  \E s \in Node, v \in View, out \in Messages :
               /\ s # n /\ chan[s][n] # <<>>
               /\ Handled(n, s, v, out)
               /\ n \in Robots =>
                      /\ Keeps(n, view[n], v)
                      /\ Head(chan[s][n]).type \in Loud =>
                             Heeds(n, s, Head(chan[s][n]).cost, v)
<1>0. view[n] \in View /\ <<>> \in Messages
  BY DEF TypeOK, Messages
<1>1. PICK s \in Node : \/ OnAnnounce(n, s)
                       \/ OnBid(n, s)
                       \/ OnClaim(n, s)
                       \/ OnLeaseRenewal(n, s)
                       \/ OnTaskEvent(n, s)
  BY DEF Receive
<1>2. s # n /\ chan[s][n] # <<>>
  BY <1>1 DEF OnAnnounce, OnBid, OnClaim, OnLeaseRenewal, OnTaskEvent, Arrived
<1> DEFINE h == Head(chan[s][n])
           Good(v) == n \in Robots => /\ Keeps(n, view[n], v)
                                      /\ h.type \in Loud => Heeds(n, s, h.cost, v)
<1> SUFFICES \E v \in View, out \in Messages : Handled(n, s, v, out) /\ Good(v)
  BY <1>2
<1>3. Keeps(n, view[n], view[n])
  BY DEF Keeps
<1>4. \A u \in View : \A c \in BidCost :
          /\ OpenBidding(n, u, c) \in View
          /\ OpenBidding(n, u, c).st = "bidding"
          /\ OpenBidding(n, u, c).win = BidWindow
  BY OpenBiddingWindow
<1>5. \A w : w.st = "bidding" /\ w.win = BidWindow => Keeps(n, view[n], w)
  BY DEF Keeps, Owns
<1>6. \A c \in BidCost : BidOut(c) \in Messages
  BY BidOutType
<1>7. CASE OnAnnounce(n, s)
  <2> DEFINE fresh == [NoTask EXCEPT !.known = TRUE]
             seen == [view[n] EXCEPT !.known = TRUE]
  <2>1. \/ \E c \in BidCost : Handled(n, s, OpenBidding(n, fresh, c), BidOut(c))
        \/ Handled(n, s, seen, <<>>)
    BY <1>7, BidChoicesType DEF OnAnnounce
  <2>2. fresh \in View
    BY NoTaskType DEF View
  <2>3. /\ seen \in View /\ seen.st = view[n].st /\ seen.owner = view[n].owner
        /\ seen.cost = view[n].cost /\ seen.bids = view[n].bids /\ seen.win = view[n].win
    BY <1>0 DEF View
  <2> HIDE DEF fresh, seen
  <2>4. Keeps(n, view[n], seen)
    BY <2>3 DEF Keeps, Owns
  <2>5. h.type \notin Loud
    BY <1>7 DEF OnAnnounce, Arrived, Loud
  <2> QED
    BY <1>0, <1>4, <1>5, <1>6, <2>1, <2>2, <2>3, <2>4, <2>5
<1>8. CASE OnBid(n, s)
  <2> DEFINE b == Head(chan[s][n]).cost
             record(w) == [w EXCEPT !.bids[s] = b]
  <2>1. b \in BidCost /\ h.type \notin Loud
    BY <1>8, HeadType DEF OnBid, BidCost, Arrived, Loud
  <2>2. \/ \E c \in BidCost : Handled(n, s, record(OpenBidding(n, view[n], c)), BidOut(c))
        \/ Handled(n, s, record(view[n]), <<>>)
        \/ Handled(n, s, view[n], <<>>)
    BY <1>8, BidChoicesType DEF OnBid
  <2>3. \A w \in View : /\ record(w) \in View
                        /\ record(w).st = w.st
                        /\ record(w).owner = w.owner
                        /\ record(w).cost = w.cost
                        /\ record(w).win = w.win
                        /\ n \in Robots => record(w).bids[n] = w.bids[n]
    BY <1>2, <2>1, BidRecordType DEF View
  <2> HIDE DEF record, b
  <2>4. n \in Robots => Keeps(n, view[n], record(view[n]))
    BY <1>0, <2>3 DEF Keeps, Owns
  <2> QED
    BY <1>0, <1>3, <1>4, <1>5, <1>6, <2>1, <2>2, <2>3, <2>4
<1>9. \A c \in BidCost \union {CommittedCost} :
          /\ AssertOwner(Known(view[n]), s, c) \in View
          /\ Keeps(n, view[n], AssertOwner(Known(view[n]), s, c))
          /\ Heeds(n, s, c, AssertOwner(Known(view[n]), s, c))
  <2> SUFFICES ASSUME NEW c \in BidCost \union {CommittedCost}
               PROVE  /\ AssertOwner(Known(view[n]), s, c) \in View
                      /\ Keeps(n, view[n], AssertOwner(Known(view[n]), s, c))
                      /\ Heeds(n, s, c, AssertOwner(Known(view[n]), s, c))
    OBVIOUS
  <2> DEFINE k == Known(view[n])
             u == AssertOwner(k, s, c)
  <2>1. k \in View /\ u \in View
    BY <1>0, KnownType, AssertOwnerType
  <2>2. k = view[n] \/ k.st = "open"
    BY NoTaskType DEF Known, View
  <2> HIDE DEF k
  <2>3. \/ u = k /\ k.st \in Finished
        \/ u = k /\ k.st = "claimed" /\ k.owner # s /\ ~Beats(c, s, k.cost, k.owner)
        \/ u.st = "claimed" /\ u.owner = s
    BY <2>1 DEF AssertOwner, View
  <2> HIDE DEF u
  <2>4. Keeps(n, view[n], u)
    BY <1>2, <1>3, <2>2, <2>3 DEF Keeps, Owns, Finished
  <2>5. Heeds(n, s, c, u)
    BY <1>2, <2>3 DEF Heeds, Owns, Finished
  <2> QED
    BY <2>1, <2>4, <2>5 DEF u, k
<1>10. CASE OnClaim(n, s)
  <2> DEFINE k == Known(view[n])
             c == Head(chan[s][n]).cost
             w == [k EXCEPT !.bids[s] = c]
             cheaper == /\ k.st = "bidding" /\ n \in Bidders(k)
                        /\ Beats(k.bids[n], n, c, s)
  <2>1. c \in BidCost \union {CommittedCost} /\ k \in View
    BY <1>0, <1>10, HeadType, KnownType DEF OnClaim
  <2>2. Handled(n, s, IF cheaper THEN w ELSE AssertOwner(k, s, c), <<>>)
    BY <1>10 DEF OnClaim
  <2>3. CASE cheaper
    <3>1. k = view[n] /\ n \in Robots
      BY <2>3, NoTaskType DEF Known, View, Bidders
    <3>2. c \in BidCost
      <4>1. k.bids[n] \in Nat
        BY <2>1, <3>1, CostAssumption DEF View
      <4> QED
        BY <2>1, <2>3, <4>1 DEF Beats, CommittedCost, BidCost
    <3>3. /\ w \in View /\ w.st = k.st /\ w.win = k.win /\ w.bids[n] = k.bids[n]
      BY <1>2, <2>1, <3>1, <3>2, BidRecordType DEF View
    <3>4. Handled(n, s, w, <<>>) /\ k.st = "bidding" /\ Beats(k.bids[n], n, c, s)
      BY <2>2, <2>3
    <3> HIDE DEF w, k, c, cheaper
    <3>5. Keeps(n, view[n], w) /\ Heeds(n, s, c, w)
      BY <3>1, <3>3, <3>4 DEF Keeps, Heeds, Owns
    <3> QED
      BY <1>0, <3>3, <3>4, <3>5 DEF c
  <2>4. CASE ~cheaper
    <3>1. Handled(n, s, AssertOwner(k, s, c), <<>>)
      BY <2>2, <2>4
    <3> HIDE DEF cheaper, w
    <3> QED
      BY <1>0, <1>9, <2>1, <3>1
  <2> QED
    BY <2>3, <2>4
<1>11. CASE OnLeaseRenewal(n, s)
  <2>1. h.cost \in BidCost \union {CommittedCost}
    BY <1>11, HeadType DEF OnLeaseRenewal
  <2>2. Handled(n, s, AssertOwner(Known(view[n]), s, h.cost), <<>>)
    BY <1>11 DEF OnLeaseRenewal
  <2> QED
    BY <1>0, <1>9, <2>1, <2>2
<1>12. CASE OnTaskEvent(n, s)
  <2> DEFINE less == [view[n] EXCEPT !.bids[s] = Infinity]
  <2>1. \/ Handled(n, s, view[n], <<>>)
        \/ \E st \in Finished : Handled(n, s, Finish(view[n], st), <<>>)
        \/ \E c \in BidCost : Handled(n, s, OpenBidding(n, view[n], c), BidOut(c))
        \/ Handled(n, s, less, <<>>)
    BY <1>12, BidChoicesType DEF OnTaskEvent, Finished
  <2>2. /\ less \in View /\ less.st = view[n].st
        /\ less.owner = view[n].owner /\ less.cost = view[n].cost
        /\ less.win = view[n].win
        /\ n \in Robots => less.bids[n] = view[n].bids[n]
    BY <1>0, <1>2, BidRecordType DEF View, BidCost
  <2>3. \A st \in Finished : /\ Finish(view[n], st) \in View
                             /\ Keeps(n, view[n], Finish(view[n], st))
    BY <1>0, FinishType DEF Finish, Finished, Owns, View, Keeps
  <2> HIDE DEF less
  <2>4. n \in Robots => Keeps(n, view[n], less)
    BY <2>2 DEF Keeps, Owns
  <2>5. h.type \notin Loud
    BY <1>12 DEF OnTaskEvent, Arrived, Loud
  <2> QED
    BY <1>0, <1>3, <1>4, <1>5, <1>6, <2>1, <2>2, <2>3, <2>4, <2>5
<1> QED
  BY <1>1, <1>7, <1>8, <1>10, <1>11, <1>12

\* A tick makes nobody a claimant or a bidder that is not safe, except the
\* winner of a round, which says so.
LEMMA TickFrame ==
    ASSUME TypeOK, NEW n \in Node, Tick(n)
    PROVE  \E v \in View, out \in Messages :
               /\ Ticked(n, v, out)
               /\ n \in Robots => Keeps(n, view[n], v) \/ Claims(n, view[n], v, out)
<1> DEFINE v == view[n]
           Good(u, out) == n \in Robots => Keeps(n, v, u) \/ Claims(n, v, u, out)
<1>1. v \in View
  BY DEF Tick, TypeOK
<1>2. <<>> \in Messages /\ <<Msg("Release", Infinity)>> \in Messages
  BY MessageOutType DEF Messages, MsgType, BidCost
<1>3. \A c \in BidCost :
          /\ OpenBidding(n, v, c) \in View
          /\ Keeps(n, v, OpenBidding(n, v, c))
  <2>1. \A c \in BidCost : /\ OpenBidding(n, v, c) \in View
                           /\ OpenBidding(n, v, c).st = "bidding"
                           /\ OpenBidding(n, v, c).win = BidWindow
    BY <1>1, OpenBiddingWindow
  <2> QED
    BY <2>1 DEF Keeps, Owns
<1> SUFFICES \E u \in View, out \in Messages : Ticked(n, u, out) /\ Good(u, out)
  OBVIOUS
<1>4. CASE NoWinner(n)
  <2>0. PICK d \in 1 .. RebidDelay : Ticked(n, [v EXCEPT !.st = "open", !.rebid = d], <<>>)
    BY <1>4 DEF NoWinner
  <2> DEFINE u == [v EXCEPT !.st = "open", !.rebid = d]
  <2>1. u \in View /\ u.st = "open" /\ Ticked(n, u, <<>>)
    BY <1>1, <2>0, FieldFacts DEF View, TaskState
  <2> HIDE DEF u
  <2> QED
    BY <1>2, <2>1 DEF Keeps, Owns
<1>5. CASE Decline(n)
  BY <1>2, <1>3, <1>5 DEF Decline, BidCost
<1>6. CASE TakeOwner(n)
  <2> DEFINE w == Winner(v)
             u == [v EXCEPT !.st = "claimed", !.owner = w, !.cost = v.bids[w],
                            !.renew = 0, !.bids = NoBids]
             out == IF w = n THEN <<Msg("Claim", v.bids[w])>> ELSE <<>>
  <2>1. w \in Robots /\ v.bids[w] \in BidCost /\ v.bids[w] # Infinity
    BY <1>1, <1>6, WinnerBeatsAll DEF TakeOwner, Bidders, View, BidCost
  <2>2. u \in View /\ u.st = "claimed" /\ u.owner = w /\ u.cost = v.bids[w]
    BY <1>1, <2>1, FieldFacts DEF View, TaskState, BidCost, Node
  <2>3. out \in Messages
    BY <1>2, <2>1, MessageOutType DEF MsgType
  <2>4. Ticked(n, u, out) /\ v.st = "bidding" /\ v.win = 0
    BY <1>6 DEF TakeOwner, WindowOver
  <2>5. w = n => out = <<Msg("Claim", v.bids[w])>>
    OBVIOUS
  <2> HIDE DEF u, out
  <2>6. Good(u, out)
    <3>1. CASE w = n
      BY <2>1, <2>2, <2>4, <2>5, <3>1 DEF Claims, Owns
    <3>2. CASE w # n
      BY <2>2, <3>2 DEF Keeps, Owns
    <3> QED
      BY <3>1, <3>2
  <2> HIDE DEF Good
  <2> QED
    BY <2>2, <2>3, <2>4, <2>6
<1>7. CASE Rebid(n) \/ Reclaim(n)
  <2>1. PICK c \in BidCost : Ticked(n, OpenBidding(n, v, c), <<>> \o BidOut(c))
    BY <1>7, BidChoicesType DEF Rebid, Reclaim, Reopen
  <2>2. <<>> \o BidOut(c) \in Messages
    BY <1>2, BidOutType, ConcatProperties DEF Messages
  <2> QED
    BY <1>3, <2>1, <2>2
<1>8. CASE LeaseLost(n)
  <2> DEFINE u == [v EXCEPT !.st = "open", !.owner = NoOwner, !.cost = Infinity, !.renew = 0]
  <2>1. u \in View /\ u.st = "open" /\ Ticked(n, u, <<>>)
    BY <1>1, <1>8, FieldFacts DEF View, TaskState, LeaseLost
  <2> HIDE DEF u
  <2> QED
    BY <1>2, <2>1 DEF Keeps, Owns
<1>9. CASE OwnerMissing(n) \/ ReclaimBlocked(n)
  <2> DEFINE m == [v EXCEPT !.missing = TRUE]
             r == [v EXCEPT !.waiting = TRUE]
  <2>1. /\ m \in View /\ m.st = v.st
        /\ r \in View /\ r.st = v.st
        /\ m.owner = v.owner /\ r.owner = v.owner
    BY <1>1 DEF View
  <2>2. /\ Ticked(n, m, <<>>) \/ Ticked(n, r, <<>>)
        /\ v.st = "claimed" /\ v.owner # n
    BY <1>9 DEF OwnerMissing, ReclaimBlocked, Expired
  <2> HIDE DEF m, r
  <2>3. Keeps(n, v, m) /\ Keeps(n, v, r)
    BY <2>1, <2>2 DEF Keeps, Owns
  <2> QED
    BY <1>2, <2>1, <2>2, <2>3
<1>10. CASE IdleTick(n)
  <2>1. Ticked(n, v, <<>>) /\ Keeps(n, v, v)
    BY <1>10 DEF IdleTick, Keeps
  <2> QED
    BY <1>1, <1>2, <2>1
<1> QED
  BY <1>4, <1>5, <1>6, <1>7, <1>8, <1>9, <1>10 DEF Tick

\* The calls of the operator and of the robot's task_manager make nobody a
\* claimant or a bidder; a commit changes the cost of a claim, and says so.
LEMMA CallFrame ==
    ASSUME TypeOK,
           \/ Announce \/ Reannounce
           \/ \E n \in Robots : Commit(n) \/ Complete(n) \/ Fail(n) \/ Withdraw(n)
           \/ \E n \in Node : Cancel(n)
    PROVE  \E m \in Node, v \in View, out \in Messages :
               /\ Called(m, v, out)
               /\ m \in Robots => Keeps(m, view[m], v) \/ Commits(m, view[m], v, out)
<1>1. Robots \subseteq Node /\ Gateway \in Node /\ Gateway \notin Robots
  BY FleetFacts, FleetAssumption
<1>2. \A n \in Node : view[n] \in View
  BY DEF TypeOK
<1>3. \A type \in MsgType \ {"Bid"} : \A c \in BidCost \union {CommittedCost} :
          <<Msg(type, c)>> \in Messages
  BY MessageOutType
<1>4. CASE Announce
  <2> DEFINE fresh == [NoTask EXCEPT !.known = TRUE]
  <2>1. fresh \in View
    BY NoTaskType DEF View
  <2>2. Called(Gateway, OpenBidding(Gateway, fresh, Infinity), <<Msg("TaskAnnounce", Infinity)>>)
    BY <1>4 DEF Announce
  <2> HIDE DEF fresh
  <2>3. OpenBidding(Gateway, fresh, Infinity) \in View
    BY <1>1, <2>1, OpenBiddingType DEF BidCost
  <2>4. <<Msg("TaskAnnounce", Infinity)>> \in Messages
    BY <1>3 DEF MsgType, BidCost
  <2> QED
    BY <1>1, <2>2, <2>3, <2>4
<1>5. CASE Reannounce
  <2>1. Called(Gateway, view[Gateway], <<Msg("TaskAnnounce", Infinity)>>)
    BY <1>5 DEF Reannounce
  <2>2. <<Msg("TaskAnnounce", Infinity)>> \in Messages
    BY <1>3 DEF MsgType, BidCost
  <2> QED
    BY <1>1, <1>2, <2>1, <2>2
<1>6. ASSUME NEW n \in Robots, Commit(n)
      PROVE  \E v \in View, out \in Messages :
                 Called(n, v, out) /\ Commits(n, view[n], v, out)
  <2> DEFINE v == [view[n] EXCEPT !.cost = CommittedCost]
             out == <<Msg("Claim", CommittedCost)>>
  <2>1. /\ v \in View /\ v.cost = CommittedCost
        /\ v.st = view[n].st /\ v.owner = view[n].owner
    BY <1>1, <1>2 DEF View
  <2>2. Called(n, v, out) /\ Owns(n, view[n]) /\ ~Committed(view[n])
    BY <1>6 DEF Commit, Arrives
  <2>3. out \in Messages
    BY <1>3 DEF MsgType
  <2>4. Commits(n, view[n], v, out)
    BY <2>1, <2>2 DEF Commits, Owns
  <2> QED
    BY <2>1, <2>2, <2>3, <2>4
<1>7. ASSUME NEW n \in Node, NEW st \in Finished
      PROVE  Finish(view[n], st) \in View /\ Keeps(n, view[n], Finish(view[n], st))
  BY <1>2, FinishType DEF Finish, Finished, Owns, View, Keeps
<1>8. ASSUME NEW n \in Robots, Complete(n)
      PROVE  \E v \in View, out \in Messages : Called(n, v, out) /\ Keeps(n, view[n], v)
  <2>1. Called(n, Finish(view[n], "done"), <<Msg("Complete", Infinity)>>)
    BY <1>8 DEF Complete
  <2>2. <<Msg("Complete", Infinity)>> \in Messages
    BY <1>3 DEF MsgType, BidCost
  <2> QED
    BY <1>1, <1>7, <2>1, <2>2 DEF Finished
<1>9. ASSUME NEW n \in Robots, Fail(n)
      PROVE  \E v \in View, out \in Messages : Called(n, v, out) /\ Keeps(n, view[n], v)
  <2> DEFINE w == view[n]
  <2>0. w \in View
    BY <1>1, <1>2
  <2> HIDE DEF w
  <2> DEFINE v == [w EXCEPT !.st = "open", !.owner = NoOwner, !.cost = Infinity,
                            !.renew = 0, !.rebid = FailedBackoff, !.avoid = FailedBackoff]
  <2>1. v \in View /\ v.st = "open"
    BY <2>0, FieldFacts DEF View, TaskState
  <2>2. Called(n, v, <<Msg("Release", Infinity)>>)
    BY <1>9 DEF Fail, w
  <2>3. <<Msg("Release", Infinity)>> \in Messages
    BY <1>3 DEF MsgType, BidCost
  <2> HIDE DEF v
  <2>4. Keeps(n, view[n], v)
    BY <2>1 DEF Keeps, Owns
  <2> QED
    BY <2>1, <2>2, <2>3, <2>4
<1>10. ASSUME NEW n \in Robots, Withdraw(n)
       PROVE  \E v \in View, out \in Messages : Called(n, v, out) /\ Keeps(n, view[n], v)
  <2> DEFINE v == [view[n] EXCEPT !.bids[n] = Infinity]
  <2>1. v \in View /\ v.st = view[n].st /\ v.bids[n] = Infinity
    BY <1>1, <1>2, BidRecordType DEF View, BidCost
  <2>2. Called(n, v, <<Msg("Release", Infinity)>>) /\ view[n].st = "bidding"
    BY <1>10 DEF Withdraw
  <2>3. <<Msg("Release", Infinity)>> \in Messages
    BY <1>3 DEF MsgType, BidCost
  <2> HIDE DEF v
  <2>4. Keeps(n, view[n], v)
    BY <2>1, <2>2 DEF Keeps, Owns
  <2> QED
    BY <2>1, <2>2, <2>3, <2>4
<1>11. ASSUME NEW n \in Node, Cancel(n)
       PROVE  \E v \in View, out \in Messages : Called(n, v, out) /\ Keeps(n, view[n], v)
  <2>1. Called(n, Finish(view[n], "cancelled"), <<Msg("Cancel", Infinity)>>)
    BY <1>11 DEF Cancel
  <2>2. <<Msg("Cancel", Infinity)>> \in Messages
    BY <1>3 DEF MsgType, BidCost
  <2> QED
    BY <1>7, <2>1, <2>2 DEF Finished
<1>12. ASSUME NEW m \in Node,
              \E v \in View, out \in Messages :
                  Called(m, v, out) /\ (Keeps(m, view[m], v) \/ Commits(m, view[m], v, out))
       PROVE  \E i \in Node, v \in View, out \in Messages :
                  /\ Called(i, v, out)
                  /\ i \in Robots => Keeps(i, view[i], v) \/ Commits(i, view[i], v, out)
  BY <1>12
<1> QED
  BY <1>1, <1>4, <1>5, <1>6, <1>8, <1>9, <1>10, <1>11, <1>12

\* The channels and the views after a message is heard.
LEMMA HandledChan ==
    ASSUME TypeOK, Whole, NEW n \in Node, NEW s \in Node, s # n, chan[s][n] # <<>>,
           NEW v \in View, NEW out \in Messages, Handled(n, s, v, out)
    PROVE  /\ \A x \in Node : view'[x] = IF x = n THEN v ELSE view[x]
           /\ \A a, b \in Node :
                  chan'[a][b] = IF a = n /\ b # n THEN chan[a][b] \o out
                                ELSE IF a = s /\ b = n THEN Tail(chan[s][n])
                                ELSE chan[a][b]
           /\ budget' = budget
<1> DEFINE ch == [chan EXCEPT ![s][n] = Tail(@)]
<1>1. ch \in [Node -> [Node -> Messages]]
  <2>1. Tail(chan[s][n]) \in Messages
    BY HeadTailProperties DEF Messages, TypeOK
  <2> QED
    BY <2>1 DEF Messages, TypeOK
<1>2. \A a, b \in Node :
          ch[a][b] = IF a = s /\ b = n THEN Tail(chan[s][n]) ELSE chan[a][b]
  BY DEF TypeOK
<1>3. chan' = Publish(ch, n, out) /\ budget' = budget
  BY DEF Handled
<1>4. \A x \in Node : view'[x] = IF x = n THEN v ELSE view[x]
  BY DEF Handled, TypeOK
<1> HIDE DEF ch
<1>5. \A a, b \in Node : chan'[a][b] = IF a = n /\ b # n THEN ch[a][b] \o out ELSE ch[a][b]
  BY <1>1, <1>3 DEF Publish, Linked, Whole
<1> QED
  BY <1>2, <1>3, <1>4, <1>5

\* A message is heard: a bidder or an owner that it reaches is safe from its
\* sender, and nobody else sees a difference.
LEMMA NoSilentReceive ==
    ASSUME TypeOK, Whole, NoSilentClaim, NEW n \in Node, Receive(n)
    PROVE  NoSilentClaim'
<1>1. PICK s \in Node, v \in View, out \in Messages :
          /\ s # n /\ chan[s][n] # <<>>
          /\ Handled(n, s, v, out)
          /\ n \in Robots =>
                 /\ Keeps(n, view[n], v)
                 /\ Head(chan[s][n]).type \in Loud => Heeds(n, s, Head(chan[s][n]).cost, v)
  BY ReceiveFrame
<1>2. /\ view' = [view EXCEPT ![n] = v]
      /\ ticked' = ticked /\ alive' = alive
      /\ chan' = Publish([chan EXCEPT ![s][n] = Tail(@)], n, out)
  BY <1>1 DEF Handled
<1>3. \A a, b \in Node : a # b =>
          chan'[a][b] = IF a = n THEN chan[a][b] \o out
                        ELSE IF a = s /\ b = n THEN Tail(chan[s][n])
                        ELSE chan[a][b]
  BY <1>1, HandledChan
<1> SUFFICES ASSUME NEW a \in SelfOwners', a \in ticked', NEW b \in Robots \ {a}
             PROVE  (Calls(chan[a][b], view[a].cost) \/ Safe(a, b))'
  BY DEF NoSilentClaim
<1>4. /\ a \in Node /\ b \in Node /\ a \in Robots /\ b \in Robots /\ a # b
      /\ a \in Nat /\ b \in Nat
  BY FleetFacts, FleetAssumption DEF SelfOwners
<1>5. /\ view'[a] = IF a = n THEN v ELSE view[a]
      /\ view'[b] = IF b = n THEN v ELSE view[b]
  BY <1>2, <1>4 DEF TypeOK
<1>6. Owns(a, view'[a])
  BY DEF SelfOwners, SelfOwner
<1>7. Owns(a, view[a]) /\ view'[a].cost = view[a].cost
  BY <1>1, <1>4, <1>5, <1>6 DEF Keeps
<1>8. Calls(chan[a][b], view[a].cost) \/ Safe(a, b)
  <2>1. a \in SelfOwners /\ a \in ticked
    BY <1>2, <1>4, <1>7 DEF SelfOwners, SelfOwner, Whole
  <2> QED
    BY <1>4, <2>1 DEF NoSilentClaim
<1>9. ASSUME Safe(a, b) PROVE Safe(a, b)'
  <2>1. Keeps(b, view[b], view'[b])
    BY <1>1, <1>4, <1>5 DEF Keeps
  <2> QED
    BY <1>2, <1>7, <1>9, <2>1 DEF Safe, Keeps
<1>10. chan[a][b] \in Messages
  BY <1>4 DEF TypeOK, Messages
<1>11. ASSUME Calls(chan[a][b], view[a].cost)
       PROVE  (Calls(chan[a][b], view[a].cost) \/ Safe(a, b))'
  <2>1. CASE a = n
    <3>1. Calls(chan[a][b] \o out, view[a].cost)
      BY <1>1, <1>10, <1>11, CallsAppended
    <3> QED
      BY <1>3, <1>4, <1>7, <2>1, <3>1
  <2>2. CASE a # n /\ ~(a = s /\ b = n)
    BY <1>3, <1>4, <1>7, <1>11, <2>2
  <2>3. CASE a = s /\ b = n
    <3>1. \/ /\ Head(chan[s][n]).type \in Loud
             /\ Head(chan[s][n]).cost = view[a].cost
          \/ Calls(Tail(chan[s][n]), view[a].cost)
      BY <1>1, <1>10, <1>11, <2>3, CallsTail
    <3>2. ASSUME Head(chan[s][n]).type \in Loud, Head(chan[s][n]).cost = view[a].cost
          PROVE  Safe(a, b)'
      <4>1. Heeds(b, a, view'[a].cost, view'[b])
        BY <1>1, <1>4, <1>5, <1>7, <2>3, <3>2
      <4> QED
        BY <4>1 DEF Heeds, Safe
    <3> QED
      BY <1>3, <1>4, <1>7, <2>3, <3>1, <3>2
  <2> QED
    BY <2>1, <2>2, <2>3
<1> QED
  BY <1>8, <1>9, <1>11

\* An owner's tick sends a beacon to every bidder, and a claim is sent when it
\* is made; a robot that claims has the better claim of those it has not told.
LEMMA NoSilentTick ==
    ASSUME TypeOK, Whole, BidWindow >= 1, NoSilentClaim, NEW n \in Node, Tick(n)
    PROVE  NoSilentClaim'
<1>1. PICK v \in View, out \in Messages :
          /\ Ticked(n, v, out)
          /\ n \in Robots => Keeps(n, view[n], v) \/ Claims(n, view[n], v, out)
  BY TickFrame
<1>2. /\ \A p \in Node : p # n => view'[p] = view[p]
      /\ view'[n] \in {v, NoTask}
      /\ ticked' = ticked \union {n} /\ alive' = alive
      /\ chan' = Publish(chan, n, Beacon(n) \o out)
  BY <1>1 DEF Ticked, TypeOK
<1>3. /\ Beacon(n) \in Messages
      /\ Beacon(n) \o out \in Messages
  <2>1. Beacon(n) \in Messages
    BY MessageOutType DEF Beacon, MsgType, View, BidCost, Messages, TypeOK
  <2> QED
    BY <1>1, <2>1, ConcatProperties DEF Messages
<1>4. chan \in [Node -> [Node -> Messages]]
  BY DEF TypeOK, Messages
<1>4a. \A c, d \in Node : c # d =>
           chan'[c][d] = IF c = n THEN chan[c][d] \o (Beacon(n) \o out) ELSE chan[c][d]
  <2>1. PICK sent \in Messages : sent = Beacon(n) \o out
    BY <1>3
  <2>2. chan' = Publish(chan, n, sent)
    BY <1>2, <2>1
  <2>3. \A c, d \in Node : c # d =>
            Publish(chan, n, sent)[c][d] = IF c = n THEN chan[c][d] \o sent ELSE chan[c][d]
    BY <1>4, PublishReaches
  <2> QED
    BY <2>1, <2>2, <2>3
<1> SUFFICES ASSUME NEW a \in SelfOwners', a \in ticked', NEW b \in Robots \ {a}
             PROVE  (Calls(chan[a][b], view[a].cost) \/ Safe(a, b))'
  BY DEF NoSilentClaim
<1>5. /\ a \in Node /\ b \in Node /\ a \in Robots /\ b \in Robots /\ a # b
      /\ a \in Nat /\ b \in Nat
  BY FleetFacts, FleetAssumption DEF SelfOwners
<1>6. Owns(a, view'[a])
  BY DEF SelfOwners, SelfOwner
<1>7. chan'[a][b] = IF a = n THEN chan[a][b] \o (Beacon(n) \o out) ELSE chan[a][b]
  BY <1>4a, <1>5
<1>8. chan[a][b] \in Messages
  BY <1>4, <1>5
<1>9. CASE a = n
  <2>1. view'[a] = v /\ Owns(a, v)
    BY <1>2, <1>6, <1>9 DEF Owns, NoTask
  <2>2. Calls(Beacon(n) \o out, v.cost)
    <3>1. CASE Keeps(n, view[n], v)
      <4>1. Owns(n, view[n]) /\ view[n].cost = v.cost
        BY <1>9, <2>1, <3>1 DEF Keeps
      <4>2. Beacon(n) = <<Msg("LeaseBeacon", v.cost)>>
        BY <4>1 DEF Beacon
      <4>3. Calls(Beacon(n), v.cost)
        BY <4>2 DEF Calls, Msg, Loud
      <4> QED
        BY <1>1, <1>3, <4>3, CallsAppended
    <3>2. CASE Claims(n, view[n], v, out)
      <4>1. out = <<Msg("Claim", v.cost)>>
        BY <3>2 DEF Claims
      <4>2. Calls(out, v.cost)
        BY <4>1 DEF Calls, Msg, Loud
      <4> QED
        BY <1>1, <1>3, <4>2, CallsAppended
    <3> QED
      BY <1>1, <1>5, <1>9, <3>1, <3>2
  <2>3. Calls(chan[a][b] \o (Beacon(n) \o out), v.cost)
    BY <1>3, <1>8, <2>2, CallsAppended
  <2> QED
    BY <1>7, <1>9, <2>1, <2>3
<1>10. CASE a # n
  <2>1. view'[a] = view[a] /\ chan'[a][b] = chan[a][b] /\ a \in ticked
    BY <1>2, <1>5, <1>7, <1>10
  <2>2. Calls(chan[a][b], view[a].cost) \/ Safe(a, b)
    <3>1. a \in SelfOwners
      BY <1>5, <1>6, <2>1 DEF SelfOwners, SelfOwner, Whole
    <3> QED
      BY <1>5, <2>1, <3>1 DEF NoSilentClaim
  <2>3. CASE Calls(chan[a][b], view[a].cost)
    BY <2>1, <2>3
  <2>4. ASSUME Safe(a, b) PROVE Safe(a, b)'
    <3>1. CASE b # n
      <4>1. view'[b] = view[b]
        BY <1>2, <1>5, <3>1
      <4> QED
        BY <2>1, <2>4, <4>1 DEF Safe
    <3>2. CASE b = n /\ view'[b] = NoTask
      BY <3>2 DEF Safe, Owns, NoTask
    <3>3. CASE b = n /\ view'[b] = v /\ Keeps(n, view[n], v)
      BY <2>1, <2>4, <3>3 DEF Safe, Keeps
    <3>4. CASE b = n /\ view'[b] = v /\ Claims(n, view[n], v, out)
      <4>1. /\ view[b].st = "bidding" /\ view[b].win = 0 /\ view[b].bids[b] # Infinity
            /\ v.cost = view[b].bids[b] /\ Owns(b, v)
        BY <3>4 DEF Claims
      <4>2. 0 # BidWindow
        BY TimerAssumption
      <4>3. Beats(view[b].bids[b], b, view[a].cost, a)
        BY <2>4, <4>1, <4>2 DEF Safe
      <4>4. view[a].cost \in Int /\ view[b].bids[b] \in Int
        BY <1>5, CostFacts
      <4>5. ~Beats(view[a].cost, a, v.cost, b)
        BY <1>5, <4>1, <4>3, <4>4, BeatsOneWay
      <4>6. v.st = "claimed"
        BY <4>1 DEF Owns
      <4> QED
        BY <2>1, <3>4, <4>5, <4>6 DEF Safe
    <3> QED
      BY <1>1, <1>2, <1>5, <3>1, <3>2, <3>3, <3>4
  <2> QED
    BY <2>2, <2>3, <2>4
<1> QED
  BY <1>9, <1>10

\* A commit is told to everybody, and no committed robot that b does not know of
\* lets b commit as well.
LEMMA NoSilentCall ==
    ASSUME TypeOK, Whole, NoSilentClaim,
           \/ Announce \/ Reannounce
           \/ \E n \in Robots : Commit(n) \/ Complete(n) \/ Fail(n) \/ Withdraw(n)
           \/ \E n \in Node : Cancel(n)
    PROVE  NoSilentClaim'
<1>1. PICK n \in Node, v \in View, out \in Messages :
          /\ Called(n, v, out)
          /\ n \in Robots => Keeps(n, view[n], v) \/ Commits(n, view[n], v, out)
  BY CallFrame
<1>2. /\ view' = [view EXCEPT ![n] = v]
      /\ ticked' = ticked /\ alive' = alive
      /\ chan' = Publish(chan, n, out)
  BY <1>1 DEF Called
<1>3. chan \in [Node -> [Node -> Messages]]
  BY DEF TypeOK, Messages
<1> SUFFICES ASSUME NEW a \in SelfOwners', a \in ticked', NEW b \in Robots \ {a}
             PROVE  (Calls(chan[a][b], view[a].cost) \/ Safe(a, b))'
  BY DEF NoSilentClaim
<1>4. /\ a \in Node /\ b \in Node /\ a \in Robots /\ b \in Robots /\ a # b
      /\ a \in Nat /\ b \in Nat
  BY FleetFacts, FleetAssumption DEF SelfOwners
<1>5. /\ view'[a] = IF a = n THEN v ELSE view[a]
      /\ view'[b] = IF b = n THEN v ELSE view[b]
  BY <1>2, <1>4 DEF TypeOK
<1>6. Owns(a, view'[a])
  BY DEF SelfOwners, SelfOwner
<1>7. chan'[a][b] = IF a = n THEN chan[a][b] \o out ELSE chan[a][b]
  <2>1. Publish(chan, n, out)[a][b] = IF a = n THEN chan[a][b] \o out ELSE chan[a][b]
    BY <1>1, <1>3, <1>4, PublishReaches
  <2> QED
    BY <1>2, <2>1
<1>8. chan[a][b] \in Messages
  BY <1>3, <1>4
<1>9. CASE a = n /\ Commits(n, view[n], v, out)
  <2>1. v.cost = CommittedCost /\ out = <<Msg("Claim", CommittedCost)>>
    BY <1>9 DEF Commits
  <2>2. Calls(out, v.cost)
    BY <2>1 DEF Calls, Msg, Loud
  <2>3. Calls(chan[a][b] \o out, v.cost)
    BY <1>1, <1>8, <2>2, CallsAppended
  <2> QED
    BY <1>5, <1>7, <1>9, <2>3
<1>10. CASE ~(a = n /\ Commits(n, view[n], v, out))
  <2>1. Owns(a, view[a]) /\ view'[a].cost = view[a].cost
    BY <1>1, <1>4, <1>5, <1>6, <1>10 DEF Keeps
  <2>2. Calls(chan[a][b], view[a].cost) \/ Safe(a, b)
    <3>1. a \in SelfOwners /\ a \in ticked
      BY <1>2, <1>4, <2>1 DEF SelfOwners, SelfOwner, Whole
    <3> QED
      BY <1>4, <3>1 DEF NoSilentClaim
  <2>3. ASSUME Calls(chan[a][b], view[a].cost) PROVE Calls(chan'[a][b], view'[a].cost)
    BY <1>1, <1>7, <1>8, <2>1, <2>3, CallsAppended
  <2>4. ASSUME Safe(a, b) PROVE Safe(a, b)'
    <3>1. CASE b # n
      BY <1>2, <1>5, <2>1, <2>4, <3>1 DEF Safe
    <3>2. CASE b = n /\ Keeps(n, view[n], v)
      BY <1>2, <1>5, <2>1, <2>4, <3>2 DEF Safe, Keeps
    <3>3. CASE b = n /\ Commits(n, view[n], v, out)
      <4>1. Owns(b, view[b]) /\ ~Committed(view[b]) /\ v.cost = CommittedCost /\ Owns(b, v)
        BY <3>3 DEF Commits
      <4>2. view[b].cost > CommittedCost /\ v.st = "claimed"
        BY <1>4, <4>1, CostFacts DEF Committed, Owns, CommittedCost
      <4>3. ~Beats(view[a].cost, a, view[b].cost, b)
        BY <2>4, <4>1 DEF Safe
      <4>4. view[a].cost \in Int /\ view[b].cost \in Int /\ view[a].cost >= CommittedCost
        BY <1>4, CostFacts
      <4>5. view[a].cost > CommittedCost
        BY <4>2, <4>3, <4>4 DEF Beats, CommittedCost
      <4>6. ~Beats(view[a].cost, a, v.cost, b)
        BY <4>1, <4>4, <4>5 DEF Beats, CommittedCost
      <4> QED
        BY <1>5, <2>1, <3>3, <4>2, <4>6 DEF Safe
    <3> QED
      BY <1>1, <1>4, <3>1, <3>2, <3>3
  <2> QED
    BY <2>2, <2>3, <2>4
<1> QED
  BY <1>9, <1>10

\* Time: a new beacon period begins, in which nobody has ticked yet.
LEMMA NoSilentAdvance ==
    ASSUME Advance
    PROVE  NoSilentClaim'
BY DEF Advance, NoSilentClaim

\* In a connected fleet nothing but the calls, the ticks, the messages and time
\* happens.
LEMMA WholeStep ==
    ASSUME TypeOK, Whole, [Next]_vars
    PROVE  /\ Whole'
           /\ \/ UNCHANGED vars
              \/ \E n \in Node : Receive(n) \/ Tick(n)
              \/ Announce \/ Reannounce
              \/ \E n \in Robots : Commit(n) \/ Complete(n) \/ Fail(n) \/ Withdraw(n)
              \/ \E n \in Node : Cancel(n)
              \/ Advance
<1>1. \A e \in Events : Spend(e) => /\ e \notin {"split", "fault"}
                                   /\ budget'["split"] = 0 /\ budget'["fault"] = 0
  BY DEF Spend, Whole, TypeOK, Events
<1>2. \/ UNCHANGED vars
      \/ \E n \in Node : Receive(n) \/ Tick(n)
      \/ Announce \/ Reannounce
      \/ \E n \in Robots : Commit(n) \/ Complete(n) \/ Fail(n) \/ Withdraw(n)
      \/ \E n \in Node : Cancel(n)
      \/ Advance
  <2>1. ~Heal
    BY DEF Heal, Whole
  <2>2. \A side \in SUBSET Node : ~Partition(side)
    BY <1>1 DEF Partition, Events
  <2>3. \A c, d \in Node : ~CutPair(c, d)
    BY <1>1 DEF CutPair, Events
  <2>4. \A n \in Node : ~Crash(n)
    BY <1>1 DEF Crash, Events
  <2> QED
    BY <2>1, <2>2, <2>3, <2>4 DEF Next
<1>3. CASE UNCHANGED vars
  BY <1>2, <1>3 DEF Whole, vars
<1>4. ASSUME NEW n \in Node, Receive(n) PROVE Whole'
  <2>1. UNCHANGED <<blocked, alive, budget>>
    BY <1>4 DEF Receive, OnAnnounce, OnBid, OnClaim, OnLeaseRenewal, OnTaskEvent, Handled
  <2> QED
    BY <2>1 DEF Whole
<1>5. ASSUME NEW n \in Node, Tick(n) PROVE Whole'
  <2>1. PICK v, out : Ticked(n, v, out)
    BY <1>5, TickFrame
  <2>2. Spend("full") \/ UNCHANGED budget
    BY <1>5 DEF Tick
  <2> QED
    BY <1>1, <2>1, <2>2 DEF Whole, Ticked, Events
<1>6. CASE \/ Announce \/ Reannounce
           \/ \E n \in Robots : Commit(n) \/ Complete(n) \/ Fail(n) \/ Withdraw(n)
           \/ \E n \in Node : Cancel(n)
  <2>1. PICK m, v, out : Called(m, v, out)
    BY <1>6, CallFrame
  <2>2. PICK e \in Events : Spend(e)
    BY <1>6 DEF Announce, Reannounce, Commit, Complete, Fail, Withdraw, Cancel, Events
  <2>3. budget'["split"] = 0 /\ budget'["fault"] = 0
    BY <1>1, <2>2
  <2>4. UNCHANGED <<blocked, alive>>
    BY <2>1 DEF Called
  <2> QED
    BY <1>2, <2>3, <2>4 DEF Whole
<1>7. CASE Advance
  BY <1>7 DEF Advance, Whole
<1> QED
  BY <1>2, <1>3, <1>4, <1>5, <1>6, <1>7

\* While the fleet is connected, of two robots on the task at once the one that
\* loses has a message on its way that takes it off, from the tick of the other in the
\* beacon period on: for every fleet, every costs and delays, every order of ticks, and every announcement, bid, commit,
\* failure, completion, cancel and withdrawal.
THEOREM LoserWillHearAlways == Connected /\ Spec => []LoserWillHear
<1> DEFINE I == Whole /\ BidWindow >= 1 /\ NoSilentClaim
<1>1. Connected /\ Init => I
  <2> SUFFICES ASSUME Connected, Init PROVE Whole /\ BidWindow >= 1 /\ NoSilentClaim
    OBVIOUS
  <2>1. SelfOwners = {}
    BY FleetFacts DEF Init, SelfOwners, SelfOwner, Owns, NoTask
  <2> QED
    BY <2>1 DEF Connected, Init, Whole, NoSilentClaim
<1>2. TypeOK /\ I /\ [Next]_vars => I'
  <2> SUFFICES ASSUME TypeOK, Whole, BidWindow >= 1, NoSilentClaim, [Next]_vars
               PROVE  Whole' /\ NoSilentClaim'
    OBVIOUS
  <2>1. CASE UNCHANGED vars
    BY <2>1, WholeStep DEF vars, NoSilentClaim, SelfOwners, SelfOwner, Owns, Calls, Safe
  <2> QED
    BY <2>1, WholeStep, NoSilentReceive, NoSilentTick, NoSilentCall, NoSilentAdvance
<1>3. TypeOK /\ NoSilentClaim => LoserWillHear
  <2> SUFFICES ASSUME NoSilentClaim, NEW a \in SelfOwners, NEW b \in SelfOwners,
                      TypeOK, a \in ticked, Beats(view[a].cost, a, view[b].cost, b)
               PROVE  InFlight(a, b, {"Claim", "LeaseBeacon"})
    BY DEF LoserWillHear
  <2>1. a \in Robots /\ a \in Node /\ a \in Nat /\ b \in Robots /\ Owns(b, view[b])
    BY FleetFacts DEF SelfOwners, SelfOwner
  <2>2. a # b
    BY <2>1, CostFacts DEF Beats
  <2>3. Calls(chan[a][b], view[a].cost)
    BY <2>1, <2>2 DEF NoSilentClaim, Safe
  <2> QED
    BY <2>3 DEF Calls, InFlight, Loud
<1> HIDE DEF I
<1>4. I => NoSilentClaim
  BY DEF I
<1> QED
  BY <1>1, <1>2, <1>3, <1>4, TypeCorrect, PTL DEF Spec

----------------------------------------------------------------------------
(* A finished task stays finished *)

\* FinishedStops is about a state and its next one, when nothing is under way;
\* what makes it so is the life of the task before: first nobody knows it, then
\* its announcement is on its way, then everybody knows it, and from the first
\* COMPLETE or CANCEL on, every node has finished it or has that message coming.
\* k counts the units since the announcement and since the first end of it: a
\* message that is still on its way from then is at least k old.
Ends == {"Complete", "Cancel"}
EndComes(q, k) == \E i \in DOMAIN q : q[i].type \in Ends /\ q[i].age >= k
AnnounceComes(q, k) == \E i \in DOMAIN q : q[i].type = "TaskAnnounce" /\ q[i].age >= k
EndBehind(q, k) == \E i, j \in DOMAIN q : /\ i < j
                                          /\ q[i].type = "TaskAnnounce"
                                          /\ q[j].type \in Ends /\ q[j].age >= k
Only(q, types) == \A i \in DOMAIN q : q[i].type \in types
\* What a node sent before it heard of the end is at most MaxDelay younger.
Settling(q, k) == \A i \in DOMAIN q : q[i].type \notin Ends => q[i].age + MaxDelay >= k

Running(v) == v.st \in {"open", "bidding", "claimed"}
Opening == {"TaskAnnounce", "Bid", "Release"}

Unknown ==
    /\ budget["announce"] <= 1
    /\ \A x \in Node : view[x].st = "none"
    /\ \A a, b \in Node : chan[a][b] = <<>>

\* Nobody can have closed a round: the window is longer than the delays.
Announced(k) ==
    /\ budget["announce"] = 0
    /\ k <= MaxDelay
    /\ view[Gateway].st # "none"
    /\ \A x \in Node : \/ view[x].st = "none" /\ AnnounceComes(chan[Gateway][x], k)
                       \/ view[x].st = "bidding" /\ view[x].win + k >= BidWindow
    /\ \A a, b \in Node : Only(chan[a][b], Opening)

KnownToAll ==
    /\ budget["announce"] = 0
    /\ \A x \in Node : Running(view[x])
    /\ \A a, b \in Node : Only(chan[a][b], MsgType \ Ends)

\* A node has ended the task, or is about to, or has forgotten it when nothing
\* of its life is left on the way.
Over(x, k) == view[x].st \in Finished /\ view[x].fin <= k
Told(x, k) == Running(view[x]) /\ \E s \in Node : EndComes(chan[s][x], k)
Late(x, k) == view[x].st = "none" /\ EndBehind(chan[Gateway][x], k)
Gone(x, k) == view[x].st = "none" /\ k > Retention
Ended(k) ==
    /\ budget["announce"] = 0
    /\ \A x \in Node : Over(x, k) \/ Told(x, k) \/ Late(x, k) \/ Gone(x, k)
    /\ \A a, b \in Node : Settling(chan[a][b], k)

LifeOfTask ==
    \/ Unknown
    \/ \E k \in Nat : Announced(k)
    \/ KnownToAll
    \/ \E k \in Nat : Ended(k)

\* The task is announced once, no link is cut and no node crashes; a window is
\* longer than a message takes, and a finished task is remembered for longer
\* than two messages take, one that still starts work and one that tells of it
\* (1 s and 300 s in the code).
Prompt ==
    /\ Budget["split"] = 0 /\ Budget["fault"] = 0
    /\ Budget["announce"] <= 1
    /\ MaxDelay < BidWindow
    /\ MaxDelay + MaxDelay <= Retention
PromptTimers == MaxDelay < BidWindow /\ MaxDelay + MaxDelay <= Retention

\* What is on its way stays on its way when messages are added behind it.
LEMMA EndsAppended ==
    ASSUME NEW q \in Messages, NEW out \in Messages, NEW k \in Nat
    PROVE  /\ EndComes(q, k) \/ EndComes(out, k) => EndComes(q \o out, k)
           /\ AnnounceComes(q, k) \/ AnnounceComes(out, k) => AnnounceComes(q \o out, k)
           /\ EndBehind(q, k) => EndBehind(q \o out, k)
           /\ AnnounceComes(q, k) /\ EndComes(out, 0) => EndBehind(q \o out, 0)
<1>1. /\ \A i \in DOMAIN q : i \in DOMAIN (q \o out) /\ (q \o out)[i] = q[i]
      /\ \A i \in DOMAIN out : /\ Len(q) + i \in DOMAIN (q \o out)
                               /\ (q \o out)[Len(q) + i] = out[i]
      /\ \A i \in DOMAIN q : \A j \in DOMAIN out : i < Len(q) + j
  BY ConcatEntries
<1>2. EndComes(q, k) => EndComes(q \o out, k)
  BY <1>1 DEF EndComes
<1>3. ASSUME EndComes(out, k) PROVE EndComes(q \o out, k)
  <2>1. PICK i \in DOMAIN out : out[i].type \in Ends /\ out[i].age >= k
    BY <1>3 DEF EndComes
  <2>2. Len(q) + i \in DOMAIN (q \o out) /\ (q \o out)[Len(q) + i] = out[i]
    BY <1>1
  <2> QED
    BY <2>1, <2>2 DEF EndComes
<1>4. AnnounceComes(q, k) => AnnounceComes(q \o out, k)
  BY <1>1 DEF AnnounceComes
<1>5. ASSUME AnnounceComes(out, k) PROVE AnnounceComes(q \o out, k)
  <2>1. PICK i \in DOMAIN out : out[i].type = "TaskAnnounce" /\ out[i].age >= k
    BY <1>5 DEF AnnounceComes
  <2>2. Len(q) + i \in DOMAIN (q \o out) /\ (q \o out)[Len(q) + i] = out[i]
    BY <1>1
  <2> QED
    BY <2>1, <2>2 DEF AnnounceComes
<1>6. EndBehind(q, k) => EndBehind(q \o out, k)
  BY <1>1 DEF EndBehind
<1>7. ASSUME AnnounceComes(q, k), EndComes(out, 0) PROVE EndBehind(q \o out, 0)
  <2>1. PICK i \in DOMAIN q : q[i].type = "TaskAnnounce"
    BY <1>7 DEF AnnounceComes
  <2>2. PICK j \in DOMAIN out : out[j].type \in Ends /\ out[j].age >= 0
    BY <1>7 DEF EndComes
  <2>3. /\ i \in DOMAIN (q \o out) /\ (q \o out)[i] = q[i]
        /\ Len(q) + j \in DOMAIN (q \o out) /\ (q \o out)[Len(q) + j] = out[j]
        /\ i < Len(q) + j
    BY <1>1
  <2> QED
    BY <2>1, <2>2, <2>3 DEF EndBehind
<1> QED
  BY <1>2, <1>3, <1>4, <1>5, <1>6, <1>7

\* Only the head is no longer on its way once it is consumed.
LEMMA EndsTail ==
    ASSUME NEW q \in Messages, q # <<>>, NEW k \in Nat
    PROVE  /\ EndComes(q, k) => Head(q).type \in Ends \/ EndComes(Tail(q), k)
           /\ AnnounceComes(q, k) => Head(q).type = "TaskAnnounce" \/ AnnounceComes(Tail(q), k)
           /\ EndBehind(q, k) => EndComes(Tail(q), k)
           /\ EndBehind(q, k) => Head(q).type = "TaskAnnounce" \/ EndBehind(Tail(q), k)
<1>1. /\ Head(q) = q[1]
      /\ \A i \in DOMAIN q : i # 1 => i - 1 \in DOMAIN Tail(q) /\ Tail(q)[i - 1] = q[i]
      /\ DOMAIN q \subseteq Nat \ {0}
  BY TailEntries
<1>2. ASSUME EndComes(q, k), Head(q).type \notin Ends PROVE EndComes(Tail(q), k)
  <2>1. PICK i \in DOMAIN q : q[i].type \in Ends /\ q[i].age >= k
    BY <1>2 DEF EndComes
  <2>2. i - 1 \in DOMAIN Tail(q) /\ Tail(q)[i - 1] = q[i]
    BY <1>1, <1>2, <2>1
  <2> QED
    BY <2>1, <2>2 DEF EndComes
<1>3. ASSUME AnnounceComes(q, k), Head(q).type # "TaskAnnounce"
      PROVE  AnnounceComes(Tail(q), k)
  <2>1. PICK i \in DOMAIN q : q[i].type = "TaskAnnounce" /\ q[i].age >= k
    BY <1>3 DEF AnnounceComes
  <2>2. i - 1 \in DOMAIN Tail(q) /\ Tail(q)[i - 1] = q[i]
    BY <1>1, <1>3, <2>1
  <2> QED
    BY <2>1, <2>2 DEF AnnounceComes
<1>4. ASSUME EndBehind(q, k)
      PROVE  /\ EndComes(Tail(q), k)
             /\ Head(q).type = "TaskAnnounce" \/ EndBehind(Tail(q), k)
  <2>1. PICK i \in DOMAIN q, j \in DOMAIN q :
            /\ i < j /\ q[i].type = "TaskAnnounce"
            /\ q[j].type \in Ends /\ q[j].age >= k
    BY <1>4 DEF EndBehind
  <2>2. j # 1 /\ j - 1 \in DOMAIN Tail(q) /\ Tail(q)[j - 1] = q[j]
    BY <1>1, <2>1
  <2>3. EndComes(Tail(q), k)
    BY <2>1, <2>2 DEF EndComes
  <2>4. ASSUME i # 1 PROVE EndBehind(Tail(q), k)
    <3>1. i - 1 \in DOMAIN Tail(q) /\ Tail(q)[i - 1] = q[i]
      BY <1>1, <2>4
    <3>2. i - 1 < j - 1
      BY <1>1, <2>1
    <3> QED
      BY <2>1, <2>2, <3>1, <3>2 DEF EndBehind
  <2>5. i = 1 => Head(q).type = "TaskAnnounce"
    BY <1>1, <2>1
  <2> QED
    BY <2>3, <2>4, <2>5
<1> QED
  BY <1>2, <1>3, <1>4

\* What holds of every message of a channel holds of its tail, of its head, and
\* of the channel with such messages added.
LEMMA AllMessages ==
    ASSUME NEW q \in Messages, NEW out \in Messages, NEW types, NEW k \in Nat
    PROVE  /\ Only(q, types) /\ Only(out, types) => Only(q \o out, types)
           /\ Settling(q, k) /\ Settling(out, k) => Settling(q \o out, k)
           /\ q # <<>> /\ Only(q, types) => Only(Tail(q), types) /\ Head(q).type \in types
           /\ q # <<>> /\ Settling(q, k) => Settling(Tail(q), k)
           /\ q # <<>> /\ Settling(q, k) /\ Head(q).type \notin Ends =>
                  Head(q).age + MaxDelay >= k
<1>1. \A i \in DOMAIN (q \o out) : \/ i \in DOMAIN q /\ (q \o out)[i] = q[i]
                                   \/ /\ i - Len(q) \in DOMAIN out
                                      /\ (q \o out)[i] = out[i - Len(q)]
  BY ConcatEntries
<1>2. Only(q, types) /\ Only(out, types) => Only(q \o out, types)
  BY <1>1 DEF Only
<1>3. Settling(q, k) /\ Settling(out, k) => Settling(q \o out, k)
  BY <1>1 DEF Settling
<1>4. q # <<>> => /\ 1 \in DOMAIN q /\ Head(q) = q[1]
                  /\ \A i \in DOMAIN Tail(q) : i + 1 \in DOMAIN q /\ Tail(q)[i] = q[i + 1]
  BY TailEntries
<1>5. q # <<>> /\ Only(q, types) => Only(Tail(q), types) /\ Head(q).type \in types
  BY <1>4 DEF Only
<1>6. q # <<>> /\ Settling(q, k) => Settling(Tail(q), k)
  BY <1>4 DEF Settling
<1>7. q # <<>> /\ Settling(q, k) /\ Head(q).type \notin Ends => Head(q).age + MaxDelay >= k
  BY <1>4 DEF Settling
<1> QED
  BY <1>2, <1>3, <1>5, <1>6, <1>7

\* A message that nobody has heard yet has an age, and it is at most MaxDelay.
LEMMA AgeFacts ==
    ASSUME NEW q \in Messages, NEW i \in DOMAIN q
    PROVE  /\ q[i] \in Message /\ q[i].type \in MsgType
           /\ q[i].age \in Nat /\ q[i].age <= MaxDelay
<1>1. q[i] \in Message
  BY DEF Messages
<1> QED
  BY <1>1, TimerAssumption DEF Message, MsgType

\* What a message of this type makes of the view u that a node has of the life
\* of the task.
Hears(u, type, v, out) ==
    /\ u.st \in Finished => v.st \in Finished /\ v.fin \in {0, u.fin}
    /\ ~Running(u) /\ ~(u.st = "none" /\ type = "TaskAnnounce") => out = <<>>
    /\ u.st = "none" => v.st \notin Finished
    /\ u.st = "none" /\ type = "TaskAnnounce" => v.st = "bidding" /\ v.win = BidWindow
    /\ u.st = "none" /\ type \notin Loud \union {"TaskAnnounce"} => v.st = "none"
    /\ Running(u) /\ type \in Ends => v.st \in Finished /\ v.fin = 0
    /\ Running(u) /\ type \notin Ends => Running(v)
    /\ u.st = "bidding" /\ type \in Opening =>
           v.st = "bidding" /\ v.win \in {BidWindow, u.win}

\* A message of age 0 that says the task goes on.
Fresh(out, types) == \A i \in DOMAIN out : out[i].type \in types /\ out[i].age = 0

LEMMA ReceiveLife ==
    ASSUME TypeOK, NEW n \in Node, Receive(n)
    PROVE  \E s \in Node, v \in View, out \in Messages :
               /\ s # n /\ chan[s][n] # <<>>
               /\ Handled(n, s, v, out)
               /\ Fresh(out, {"Bid"})
               /\ Hears(view[n], Head(chan[s][n]).type, v, out)
<1>0. view[n] \in View /\ <<>> \in Messages /\ Fresh(<<>>, {"Bid"})
  BY DEF TypeOK, Messages, Fresh
<1>1. PICK s \in Node : \/ OnAnnounce(n, s)
                       \/ OnBid(n, s)
                       \/ OnClaim(n, s)
                       \/ OnLeaseRenewal(n, s)
                       \/ OnTaskEvent(n, s)
  BY DEF Receive
<1>2. s # n /\ chan[s][n] # <<>>
  BY <1>1 DEF OnAnnounce, OnBid, OnClaim, OnLeaseRenewal, OnTaskEvent, Arrived
<1> DEFINE u == view[n]
           h == Head(chan[s][n])
           Good(v, out) == Fresh(out, {"Bid"}) /\ Hears(u, h.type, v, out)
<1> SUFFICES \E v \in View, out \in Messages : Handled(n, s, v, out) /\ Good(v, out)
  BY <1>2
<1>3. \A w \in View : \A c \in BidCost :
          /\ OpenBidding(n, w, c) \in View
          /\ OpenBidding(n, w, c).st = "bidding"
          /\ OpenBidding(n, w, c).win = BidWindow
  BY OpenBiddingWindow
<1>4. \A c \in BidCost : BidOut(c) \in Messages /\ Fresh(BidOut(c), {"Bid"})
  <2> SUFFICES ASSUME NEW c \in BidCost PROVE Fresh(BidOut(c), {"Bid"})
    BY BidOutType
  <2>1. BidOut(c) \in {<<>>, <<Msg("Bid", c)>>}
    BY DEF BidOut
  <2>2. Fresh(<<Msg("Bid", c)>>, {"Bid"})
    BY DEF Fresh, Msg
  <2> QED
    BY <1>0, <2>1, <2>2
<1>5. h.type \in MsgType
  BY <1>1 DEF OnAnnounce, OnBid, OnClaim, OnLeaseRenewal, OnTaskEvent, Arrived, MsgType
<1>6. CASE OnAnnounce(n, s)
  <2> DEFINE fresh == [NoTask EXCEPT !.known = TRUE]
             seen == [u EXCEPT !.known = TRUE]
  <2>1. h.type = "TaskAnnounce"
    BY <1>6 DEF OnAnnounce, Arrived
  <2>2. fresh \in View
    BY NoTaskType DEF View
  <2>3. seen \in View /\ seen.st = u.st /\ seen.win = u.win /\ seen.fin = u.fin
    BY <1>0 DEF View
  <2>4. CASE u.st = "none"
    <3>1. PICK c \in BidCost : Handled(n, s, OpenBidding(n, fresh, c), BidOut(c))
      BY <1>6, <2>4, BidChoicesType DEF OnAnnounce
    <3> HIDE DEF fresh
    <3>2. Hears(u, h.type, OpenBidding(n, fresh, c), BidOut(c))
      BY <1>3, <2>1, <2>2, <2>4 DEF Hears, Running, Finished, Ends
    <3> QED
      BY <1>3, <1>4, <2>2, <3>1, <3>2
  <2>5. CASE u.st # "none"
    <3>1. Handled(n, s, seen, <<>>)
      BY <1>6, <2>5 DEF OnAnnounce
    <3> HIDE DEF seen
    <3>2. Hears(u, h.type, seen, <<>>)
      BY <2>1, <2>3, <2>5 DEF Hears, Running, Ends
    <3> QED
      BY <1>0, <2>3, <3>1, <3>2
  <2> QED
    BY <2>4, <2>5
<1>7. CASE OnBid(n, s)
  <2> DEFINE b == Head(chan[s][n]).cost
             record(w) == [w EXCEPT !.bids[s] = b]
  <2>1. b \in BidCost /\ h.type = "Bid"
    BY <1>7, HeadType DEF OnBid, BidCost, Arrived
  <2>2. \A w \in View : /\ record(w) \in View
                        /\ record(w).st = w.st
                        /\ record(w).win = w.win
    BY <2>1, BidRecordType DEF View
  <2> HIDE DEF record, b
  <2>3. CASE u.st = "open"
    <3>1. PICK c \in BidCost : Handled(n, s, record(OpenBidding(n, u, c)), BidOut(c))
      BY <1>7, <2>3, BidChoicesType DEF OnBid, record, b
    <3>2. Hears(u, h.type, record(OpenBidding(n, u, c)), BidOut(c))
      BY <1>0, <1>3, <2>1, <2>2, <2>3 DEF Hears, Running, Finished, Ends
    <3> QED
      BY <1>0, <1>3, <1>4, <2>2, <3>1, <3>2
  <2>4. CASE u.st = "bidding"
    <3>1. Handled(n, s, record(u), <<>>)
      BY <1>7, <2>4 DEF OnBid, record, b
    <3>2. Hears(u, h.type, record(u), <<>>)
      BY <1>0, <2>1, <2>2, <2>4 DEF Hears, Running, Finished, Ends
    <3> QED
      BY <1>0, <2>2, <3>1, <3>2
  <2>5. CASE u.st \notin {"open", "bidding"}
    <3>1. Handled(n, s, u, <<>>)
      BY <1>7, <2>5 DEF OnBid
    <3>2. Hears(u, h.type, u, <<>>)
      BY <2>1, <2>5 DEF Hears, Running, Finished, Ends
    <3> QED
      BY <1>0, <3>1, <3>2
  <2> QED
    BY <2>3, <2>4, <2>5
<1>8. \A c \in BidCost \union {CommittedCost} :
          LET w == AssertOwner(Known(u), s, c)
          IN  /\ w \in View
              /\ u.st \in Finished => w = u
              /\ u.st \notin Finished => w.st = "claimed"
  <2> SUFFICES ASSUME NEW c \in BidCost \union {CommittedCost}
               PROVE  LET w == AssertOwner(Known(u), s, c)
                      IN  /\ w \in View
                          /\ u.st \in Finished => w = u
                          /\ u.st \notin Finished => w.st = "claimed"
    OBVIOUS
  <2> DEFINE k == Known(u)
             w == AssertOwner(k, s, c)
  <2>1. k \in View /\ w \in View
    BY <1>0, KnownType, AssertOwnerType
  <2>2. (k = u /\ u.st # "none") \/ (u.st = "none" /\ k.st = "open")
    BY NoTaskType DEF Known, View
  <2> HIDE DEF k
  <2>3. /\ k.st \in Finished => w = k
        /\ k.st \notin Finished => w.st = "claimed"
    BY <2>1 DEF AssertOwner, View
  <2> HIDE DEF w
  <2>4. w \in View /\ (u.st \in Finished => w = u) /\ (u.st \notin Finished => w.st = "claimed")
    BY <2>1, <2>2, <2>3 DEF Finished
  <2> QED
    BY <2>4 DEF w, k
<1>9. ASSUME h.type \in Loud, NEW w \in View,
             u.st \in Finished => w = u,
             u.st \notin Finished => w.st \in {"bidding", "claimed"}
      PROVE  Hears(u, h.type, w, <<>>)
  BY <1>9 DEF Hears, Running, Finished, Ends, Loud, Opening
<1>10. CASE OnClaim(n, s)
  <2> DEFINE k == Known(u)
             c == Head(chan[s][n]).cost
             w == [k EXCEPT !.bids[s] = c]
             cheaper == /\ k.st = "bidding" /\ n \in Bidders(k)
                        /\ Beats(k.bids[n], n, c, s)
  <2>1. c \in BidCost \union {CommittedCost} /\ k \in View /\ h.type \in Loud
    BY <1>0, <1>10, HeadType, KnownType DEF OnClaim, Arrived, Loud
  <2>2. Handled(n, s, IF cheaper THEN w ELSE AssertOwner(k, s, c), <<>>)
    BY <1>10 DEF OnClaim
  <2>3. CASE cheaper
    <3>1. k.st = "bidding" /\ n \in Robots /\ k = u
      BY <2>3, NoTaskType DEF Known, View, Bidders
    <3>2. c \in BidCost
      <4>1. k.bids[n] \in Nat
        BY <2>1, <3>1, CostAssumption DEF View
      <4> QED
        BY <2>1, <2>3, <4>1 DEF Beats, CommittedCost, BidCost
    <3>3. w \in View /\ w.st = "bidding"
      BY <2>1, <3>1, <3>2, BidRecordType DEF View
    <3>4. Handled(n, s, w, <<>>)
      BY <2>2, <2>3
    <3> HIDE DEF w, k, c, cheaper
    <3>5. Hears(u, h.type, w, <<>>)
      BY <1>9, <2>1, <3>1, <3>3 DEF Finished
    <3> QED
      BY <1>0, <3>3, <3>4, <3>5
  <2>4. CASE ~cheaper
    <3>1. Handled(n, s, AssertOwner(k, s, c), <<>>)
      BY <2>2, <2>4
    <3>2. /\ AssertOwner(k, s, c) \in View
          /\ u.st \in Finished => AssertOwner(k, s, c) = u
          /\ u.st \notin Finished => AssertOwner(k, s, c).st = "claimed"
      BY <1>8, <2>1
    <3> HIDE DEF cheaper, w, k, c
    <3>3. Hears(u, h.type, AssertOwner(k, s, c), <<>>)
      BY <1>9, <2>1, <3>2
    <3> QED
      BY <1>0, <3>1, <3>2, <3>3
  <2> QED
    BY <2>3, <2>4
<1>11. CASE OnLeaseRenewal(n, s)
  <2> DEFINE c == Head(chan[s][n]).cost
             w == AssertOwner(Known(u), s, c)
  <2>1. c \in BidCost \union {CommittedCost} /\ h.type \in Loud
    BY <1>11, HeadType DEF OnLeaseRenewal, Arrived, Loud
  <2>2. Handled(n, s, w, <<>>)
    BY <1>11 DEF OnLeaseRenewal
  <2>3. w \in View /\ (u.st \in Finished => w = u) /\ (u.st \notin Finished => w.st = "claimed")
    BY <1>8, <2>1
  <2> HIDE DEF w, c
  <2>4. Hears(u, h.type, w, <<>>)
    BY <1>9, <2>1, <2>3
  <2> QED
    BY <1>0, <2>2, <2>3, <2>4
<1>12. CASE OnTaskEvent(n, s)
  <2> DEFINE less == [u EXCEPT !.bids[s] = Infinity]
  <2>1. h.type \in {"Complete", "Cancel", "Release"}
    BY <1>12 DEF OnTaskEvent, Arrived
  <2>2. less \in View /\ less.st = u.st /\ less.win = u.win
    BY <1>0, BidRecordType DEF View, BidCost
  <2>3. \A st \in Finished : /\ Finish(u, st) \in View
                             /\ Finish(u, st).st = st /\ Finish(u, st).fin = 0
    BY <1>0, FinishType DEF Finish, View
  <2>4. CASE u.st = "none"
    <3>1. Handled(n, s, u, <<>>)
      BY <1>12, <2>4 DEF OnTaskEvent, Owns
    <3>2. Hears(u, h.type, u, <<>>)
      BY <2>1, <2>4 DEF Hears, Running, Finished, Ends, Loud
    <3> QED
      BY <1>0, <3>1, <3>2
  <2>5. CASE u.st # "none" /\ h.type \in Ends
    <3>1. \E st \in Finished : Handled(n, s, Finish(u, st), <<>>)
      BY <1>12, <2>5 DEF OnTaskEvent, Finished, Ends
    <3>2. \A st \in Finished : Hears(u, h.type, Finish(u, st), <<>>)
      BY <2>3, <2>5 DEF Hears, Running, Finished, Ends, Opening
    <3> QED
      BY <1>0, <2>3, <3>1, <3>2
  <2>6. CASE u.st # "none" /\ h.type = "Release"
    <3>1. \/ Owns(s, u) /\ \E c \in BidCost : Handled(n, s, OpenBidding(n, u, c), BidOut(c))
          \/ u.st = "bidding" /\ Handled(n, s, less, <<>>)
          \/ Handled(n, s, u, <<>>)
      BY <1>12, <2>6, BidChoicesType DEF OnTaskEvent, Ends
    <3> HIDE DEF less
    <3>2. CASE Owns(s, u) /\ \E c \in BidCost : Handled(n, s, OpenBidding(n, u, c), BidOut(c))
      <4>1. PICK c \in BidCost : Handled(n, s, OpenBidding(n, u, c), BidOut(c))
        BY <3>2
      <4>2. Hears(u, h.type, OpenBidding(n, u, c), BidOut(c))
        BY <1>0, <1>3, <2>6, <3>2 DEF Hears, Owns, Running, Finished, Ends
      <4> QED
        BY <1>0, <1>3, <1>4, <4>1, <4>2
    <3>3. CASE u.st = "bidding" /\ Handled(n, s, less, <<>>)
      <4>1. Hears(u, h.type, less, <<>>)
        BY <2>2, <2>6, <3>3 DEF Hears, Running, Finished, Ends
      <4> QED
        BY <1>0, <2>2, <3>3, <4>1
    <3>4. CASE Handled(n, s, u, <<>>)
      <4>1. Hears(u, h.type, u, <<>>)
        BY <2>6 DEF Hears, Running, Finished, Ends
      <4> QED
        BY <1>0, <3>4, <4>1
    <3> QED
      BY <3>1, <3>2, <3>3, <3>4
  <2> QED
    BY <2>1, <2>4, <2>5, <2>6 DEF Ends
<1> QED
  BY <1>1, <1>6, <1>7, <1>10, <1>11, <1>12

\* A step of node n that changes its view to v and publishes sent.
Moves(n, v, sent) ==
    /\ view' = [view EXCEPT ![n] = v]
    /\ chan' = Publish(chan, n, sent)

\* What a tick makes of the view u: a node that has nothing under way only
\* forgets a task that has been finished for long, and an open window stays.
Ticks(u, v, sent) ==
    /\ ~Running(u) =>
           /\ sent = <<>>
           /\ v = u \/ (v = NoTask /\ u.st \in Finished /\ u.fin > Retention)
    /\ Running(u) => Running(v)
    /\ Fresh(sent, MsgType \ Ends)
    /\ u.st = "bidding" /\ u.win # 0 => v = u /\ sent = <<>>

\* What a call makes of it: the gateway announces, the task goes on, or it ends.
Opens(n, u, v, sent) ==
    /\ n = Gateway /\ u.st = "none"
    /\ v.st = "bidding" /\ v.win = BidWindow
    /\ sent = <<Msg("TaskAnnounce", Infinity)>>
    /\ budget["announce"] > 0 /\ budget'["announce"] = budget["announce"] - 1
GoesOn(u, v, sent) ==
    /\ Running(u) /\ Running(v)
    /\ Fresh(sent, MsgType \ Ends)
    /\ u.st = "bidding" =>
           v.st = "bidding" /\ v.win = u.win /\ Fresh(sent, {"TaskAnnounce", "Release"})
    /\ budget'["announce"] = budget["announce"]
Closes(n, u, v, sent) ==
    /\ u.st # "none" /\ (n = Gateway \/ Owns(n, u))
    /\ v.st \in Finished /\ v.fin = 0
    /\ sent \in {<<Msg("Complete", Infinity)>>, <<Msg("Cancel", Infinity)>>}
    /\ budget'["announce"] = budget["announce"]

LEMMA TickLife ==
    ASSUME TypeOK, NEW n \in Node, Tick(n)
    PROVE  /\ budget'["announce"] = budget["announce"]
           /\ \E v \in View, sent \in Messages : Moves(n, v, sent) /\ Ticks(view[n], v, sent)
<1> DEFINE u == view[n]
<1>1. u \in View
  BY DEF TypeOK
<1>2. budget'["announce"] = budget["announce"]
  BY DEF Tick, Spend, TypeOK, Events
<1>3. <<>> \in Messages /\ <<Msg("Release", Infinity)>> \in Messages
  BY MessageOutType DEF Messages, MsgType, BidCost
<1>4. /\ Beacon(n) \in Messages
      /\ Fresh(Beacon(n), MsgType \ Ends)
      /\ ~Owns(n, u) => Beacon(n) = <<>>
  <2>1. Beacon(n) \in Messages
    BY <1>1, MessageOutType DEF Beacon, MsgType, View, BidCost, Messages
  <2>2. Fresh(Beacon(n), MsgType \ Ends)
    BY DEF Fresh, Beacon, Msg, MsgType, Ends
  <2> QED
    BY <2>1, <2>2 DEF Beacon
\* Only an unfinished task has anything to do.
<1>5. ASSUME ~Running(u) \/ (u.st = "bidding" /\ u.win # 0)
      PROVE  \E v \in View, sent \in Messages : Moves(n, v, sent) /\ Ticks(u, v, sent)
  <2>1. ~WindowOver(u) /\ ~RebidDue(u) /\ ~MustStop(n) /\ ~Expired(n)
    BY <1>5 DEF WindowOver, RebidDue, MustStop, Expired, Owns, Running
  <2>2. Ticked(n, u, <<>>)
    BY <2>1 DEF Tick, NoWinner, Decline, Won, TakeOwner, Rebid, LeaseLost, OwnerMissing,
                ReclaimBlocked, Reclaim, IdleTick
  <2>3. Beacon(n) \o <<>> = <<>>
    <3>1. Beacon(n) = <<>>
      BY <1>4, <1>5 DEF Owns, Running
    <3>2. <<>> \o <<>> = <<>>
      BY ConcatProperties, EmptySeq
    <3> QED
      BY <3>1, <3>2
  <2> DEFINE v == IF u.st \in Finished /\ u.fin > Retention THEN NoTask ELSE u
  <2>4. Moves(n, v, <<>>)
    BY <2>2, <2>3 DEF Ticked, Moves
  <2>5. v \in View /\ Ticks(u, v, <<>>)
    BY <1>1, <1>5, NoTaskType DEF Ticks, Running, Fresh, Finished
  <2> QED
    BY <1>3, <2>4, <2>5
\* An unfinished task stays unfinished.
<1>6. ASSUME Running(u), ~(u.st = "bidding" /\ u.win # 0),
             NEW v \in View, Running(v), NEW out \in Messages,
             Fresh(out, MsgType \ Ends), Ticked(n, v, out)
      PROVE  \E w \in View, sent \in Messages : Moves(n, w, sent) /\ Ticks(u, w, sent)
  <2>1. PICK sent \in Messages : sent = Beacon(n) \o out
    BY <1>4, <1>6, ConcatProperties DEF Messages
  <2>2. Moves(n, v, sent)
    BY <1>6, <2>1 DEF Ticked, Moves, Running, Finished
  <2>3. Fresh(sent, MsgType \ Ends)
    BY <1>4, <1>6, <2>1, ConcatEntries DEF Fresh
  <2>4. Ticks(u, v, sent)
    BY <1>6, <2>3 DEF Ticks
  <2> QED
    BY <1>6, <2>2, <2>4
<1>7. ASSUME Running(u), ~(u.st = "bidding" /\ u.win # 0)
      PROVE  \E v \in View, out \in Messages :
                 Ticked(n, v, out) /\ Running(v) /\ Fresh(out, MsgType \ Ends)
  <2>0. /\ Fresh(<<>>, MsgType \ Ends)
        /\ \A type \in MsgType \ Ends : \A c : Fresh(<<Msg(type, c)>>, MsgType \ Ends)
    BY DEF Fresh, Msg
  <2>1. \A c \in BidCost : /\ OpenBidding(n, u, c) \in View
                           /\ Running(OpenBidding(n, u, c))
                           /\ BidOut(c) \in Messages
                           /\ Fresh(<<>> \o BidOut(c), MsgType \ Ends)
                           /\ <<>> \o BidOut(c) \in Messages
    <3> SUFFICES ASSUME NEW c \in BidCost
                 PROVE  /\ OpenBidding(n, u, c) \in View
                        /\ Running(OpenBidding(n, u, c))
                        /\ BidOut(c) \in Messages
                        /\ Fresh(<<>> \o BidOut(c), MsgType \ Ends)
                        /\ <<>> \o BidOut(c) \in Messages
      OBVIOUS
    <3>1. OpenBidding(n, u, c) \in View /\ Running(OpenBidding(n, u, c))
      BY <1>1, OpenBiddingType DEF Running
    <3>2. BidOut(c) \in Messages /\ <<>> \o BidOut(c) \in Messages
      BY BidOutType, ConcatProperties DEF Messages
    <3>3. Fresh(BidOut(c), MsgType \ Ends)
      BY <2>0 DEF BidOut, MsgType, Ends
    <3>4. Fresh(<<>> \o BidOut(c), MsgType \ Ends)
      BY <1>3, <2>0, <3>2, <3>3, ConcatEntries DEF Fresh
    <3> QED
      BY <3>1, <3>2, <3>4
  <2>2. CASE NoWinner(n)
    <3>0. PICK d \in 1 .. RebidDelay : Ticked(n, [u EXCEPT !.st = "open", !.rebid = d], <<>>)
      BY <2>2 DEF NoWinner
    <3> DEFINE v == [u EXCEPT !.st = "open", !.rebid = d]
    <3>1. v \in View /\ v.st = "open" /\ Ticked(n, v, <<>>)
      BY <1>1, <3>0, FieldFacts DEF View, TaskState
    <3> HIDE DEF v
    <3> QED
      BY <1>3, <2>0, <3>1 DEF Running
  <2>3. CASE Decline(n)
    <3>1. Ticked(n, OpenBidding(n, u, Infinity), <<Msg("Release", Infinity)>>)
      BY <2>3 DEF Decline
    <3>2. Fresh(<<Msg("Release", Infinity)>>, MsgType \ Ends)
      BY <2>0 DEF MsgType, Ends
    <3> QED
      BY <1>3, <2>1, <3>1, <3>2 DEF BidCost
  <2>4. CASE TakeOwner(n)
    <3> DEFINE w == Winner(u)
               v == [u EXCEPT !.st = "claimed", !.owner = w, !.cost = u.bids[w],
                              !.renew = 0, !.bids = NoBids]
               out == IF w = n THEN <<Msg("Claim", u.bids[w])>> ELSE <<>>
    <3>1. w \in Robots /\ u.bids[w] \in BidCost
      BY <1>1, <2>4, WinnerBeatsAll DEF TakeOwner, Bidders, View, BidCost
    <3>2. v \in View /\ v.st = "claimed"
      BY <1>1, <3>1, FieldFacts DEF View, TaskState, BidCost, Node
    <3>3. out \in Messages
      BY <1>3, <3>1, MessageOutType DEF MsgType
    <3>4. Fresh(out, MsgType \ Ends)
      BY <2>0 DEF MsgType, Ends
    <3>5. Ticked(n, v, out)
      BY <2>4 DEF TakeOwner
    <3> HIDE DEF v, out
    <3> QED
      BY <3>2, <3>3, <3>4, <3>5 DEF Running
  <2>5. CASE Rebid(n) \/ Reclaim(n)
    <3>1. PICK c \in BidCost : Ticked(n, OpenBidding(n, u, c), <<>> \o BidOut(c))
      BY <2>5, BidChoicesType DEF Rebid, Reclaim, Reopen
    <3> QED
      BY <2>1, <3>1
  <2>6. CASE LeaseLost(n)
    <3> DEFINE v == [u EXCEPT !.st = "open", !.owner = NoOwner, !.cost = Infinity, !.renew = 0]
    <3>1. v \in View /\ v.st = "open" /\ Ticked(n, v, <<>>)
      BY <1>1, <2>6, FieldFacts DEF View, TaskState, LeaseLost
    <3> HIDE DEF v
    <3> QED
      BY <1>3, <2>0, <3>1 DEF Running
  <2>7. CASE OwnerMissing(n) \/ ReclaimBlocked(n)
    <3> DEFINE m == [u EXCEPT !.missing = TRUE]
               r == [u EXCEPT !.waiting = TRUE]
    <3>1. m \in View /\ m.st = u.st /\ r \in View /\ r.st = u.st
      BY <1>1 DEF View
    <3>2. Ticked(n, m, <<>>) \/ Ticked(n, r, <<>>)
      BY <2>7 DEF OwnerMissing, ReclaimBlocked
    <3> HIDE DEF m, r
    <3> QED
      BY <1>3, <1>7, <2>0, <3>1, <3>2 DEF Running
  <2>8. CASE IdleTick(n)
    <3>1. Ticked(n, u, <<>>)
      BY <2>8 DEF IdleTick
    <3> QED
      BY <1>1, <1>3, <1>7, <2>0, <3>1
  <2> QED
    BY <2>2, <2>3, <2>4, <2>5, <2>6, <2>7, <2>8 DEF Tick
<1> QED
  BY <1>2, <1>5, <1>6, <1>7

LEMMA CallLife ==
    ASSUME TypeOK,
           \/ Announce \/ Reannounce
           \/ \E n \in Robots : Commit(n) \/ Complete(n) \/ Fail(n) \/ Withdraw(n)
           \/ \E n \in Node : Cancel(n)
    PROVE  \E n \in Node, v \in View, sent \in Messages :
               /\ Moves(n, v, sent)
               /\ \/ Opens(n, view[n], v, sent)
                  \/ GoesOn(view[n], v, sent)
                  \/ Closes(n, view[n], v, sent)
<1>1. Robots \subseteq Node /\ Gateway \in Node
  BY FleetFacts
<1>2. \A n \in Node : view[n] \in View
  BY DEF TypeOK
<1>3. \A type \in MsgType \ {"Bid"} : \A c \in BidCost \union {CommittedCost} :
          /\ <<Msg(type, c)>> \in Messages
          /\ \A types : type \in types => Fresh(<<Msg(type, c)>>, types)
  <2>1. \A type, c : \A types : type \in types => Fresh(<<Msg(type, c)>>, types)
    BY DEF Fresh, Msg
  <2> QED
    BY <2>1, MessageOutType
<1>4. \A e \in Events : Spend(e) =>
          /\ e = "announce" => /\ budget["announce"] > 0
                               /\ budget'["announce"] = budget["announce"] - 1
          /\ e # "announce" => budget'["announce"] = budget["announce"]
  BY DEF Spend, TypeOK, Events
<1>5. \A n, v, out : Called(n, v, out) => Moves(n, v, out)
  BY DEF Called, Moves
<1>6. Infinity \in BidCost
  BY DEF BidCost
<1>7. CASE Announce
  <2> DEFINE fresh == [NoTask EXCEPT !.known = TRUE]
             out == <<Msg("TaskAnnounce", Infinity)>>
  <2>1. fresh \in View
    BY NoTaskType DEF View
  <2>2. /\ Called(Gateway, OpenBidding(Gateway, fresh, Infinity), out)
        /\ Spend("announce") /\ view[Gateway].st = "none"
    BY <1>7 DEF Announce
  <2>3. out \in Messages
    BY <1>3, <1>6 DEF MsgType
  <2> HIDE DEF fresh
  <2>4. /\ OpenBidding(Gateway, fresh, Infinity) \in View
        /\ OpenBidding(Gateway, fresh, Infinity).st = "bidding"
        /\ OpenBidding(Gateway, fresh, Infinity).win = BidWindow
    BY <1>1, <1>6, <2>1, OpenBiddingWindow
  <2>5. Opens(Gateway, view[Gateway], OpenBidding(Gateway, fresh, Infinity), out)
    BY <1>4, <2>2, <2>4 DEF Opens, Events
  <2> HIDE DEF out
  <2> QED
    BY <1>1, <1>5, <2>2, <2>3, <2>4, <2>5
<1>8. CASE Reannounce
  <2> DEFINE u == view[Gateway]
             out == <<Msg("TaskAnnounce", Infinity)>>
  <2>1. /\ Called(Gateway, u, out)
        /\ Spend("reannounce") /\ u.st \in {"open", "bidding"}
    BY <1>8 DEF Reannounce
  <2>2. /\ out \in Messages
        /\ Fresh(out, MsgType \ Ends) /\ Fresh(out, {"TaskAnnounce", "Release"})
    BY <1>3, <1>6 DEF MsgType, Ends
  <2> HIDE DEF out
  <2>3. GoesOn(u, u, out)
    BY <1>4, <2>1, <2>2 DEF GoesOn, Running, Events
  <2> QED
    BY <1>1, <1>2, <1>5, <2>1, <2>2, <2>3
<1>9. ASSUME NEW n \in Robots, Commit(n)
      PROVE  \E v \in View, sent \in Messages : Moves(n, v, sent) /\ GoesOn(view[n], v, sent)
  <2> DEFINE v == [view[n] EXCEPT !.cost = CommittedCost]
             out == <<Msg("Claim", CommittedCost)>>
  <2>1. v \in View /\ v.st = view[n].st
    BY <1>1, <1>2 DEF View
  <2>2. Called(n, v, out) /\ view[n].st = "claimed" /\ Spend("commit")
    BY <1>9 DEF Commit, Arrives, Owns
  <2>3. out \in Messages /\ Fresh(out, MsgType \ Ends)
    BY <1>3 DEF MsgType, Ends
  <2> HIDE DEF v, out
  <2>4. GoesOn(view[n], v, out)
    BY <1>4, <2>1, <2>2, <2>3 DEF GoesOn, Running, Events
  <2> QED
    BY <1>5, <2>1, <2>2, <2>3, <2>4
<1>10. ASSUME NEW n \in Robots, Fail(n)
       PROVE  \E v \in View, sent \in Messages : Moves(n, v, sent) /\ GoesOn(view[n], v, sent)
  <2> DEFINE w == view[n]
             out == <<Msg("Release", Infinity)>>
  <2>0. w \in View
    BY <1>1, <1>2
  <2> HIDE DEF w
  <2> DEFINE v == [w EXCEPT !.st = "open", !.owner = NoOwner, !.cost = Infinity,
                            !.renew = 0, !.rebid = FailedBackoff, !.avoid = FailedBackoff]
  <2>1. v \in View /\ v.st = "open"
    BY <2>0, FieldFacts DEF View, TaskState
  <2>2. Called(n, v, out) /\ w.st = "claimed" /\ Spend("fail")
    BY <1>10 DEF Fail, Owns, w
  <2>3. out \in Messages /\ Fresh(out, MsgType \ Ends)
    BY <1>3, <1>6 DEF MsgType, Ends
  <2> HIDE DEF v, out
  <2>4. GoesOn(w, v, out)
    BY <1>4, <2>1, <2>2, <2>3 DEF GoesOn, Running, Events
  <2> QED
    BY <1>5, <2>1, <2>2, <2>3, <2>4 DEF w
<1>11. ASSUME NEW n \in Robots, Withdraw(n)
       PROVE  \E v \in View, sent \in Messages : Moves(n, v, sent) /\ GoesOn(view[n], v, sent)
  <2> DEFINE v == [view[n] EXCEPT !.bids[n] = Infinity]
             out == <<Msg("Release", Infinity)>>
  <2>1. v \in View /\ v.st = view[n].st /\ v.win = view[n].win
    BY <1>1, <1>2, <1>6, BidRecordType DEF View
  <2>2. Called(n, v, out) /\ view[n].st = "bidding" /\ Spend("withdraw")
    BY <1>11 DEF Withdraw
  <2>3. /\ out \in Messages
        /\ Fresh(out, MsgType \ Ends) /\ Fresh(out, {"TaskAnnounce", "Release"})
    BY <1>3, <1>6 DEF MsgType, Ends
  <2> HIDE DEF v, out
  <2>4. GoesOn(view[n], v, out)
    BY <1>4, <2>1, <2>2, <2>3 DEF GoesOn, Running, Events
  <2> QED
    BY <1>5, <2>1, <2>2, <2>3, <2>4
<1>12. ASSUME NEW n \in Node, NEW st \in Finished, NEW type \in Ends, NEW e \in Events,
              Called(n, Finish(view[n], st), <<Msg(type, Infinity)>>), Spend(e), e # "announce",
              view[n].st # "none", n = Gateway \/ Owns(n, view[n])
       PROVE  \E v \in View, sent \in Messages : Moves(n, v, sent) /\ Closes(n, view[n], v, sent)
  <2>1. /\ Finish(view[n], st) \in View
        /\ Finish(view[n], st).st = st /\ Finish(view[n], st).fin = 0
    BY <1>2, FinishType DEF Finish, View
  <2>2. <<Msg(type, Infinity)>> \in Messages
    BY <1>3, <1>6 DEF MsgType, Ends
  <2>3. Closes(n, view[n], Finish(view[n], st), <<Msg(type, Infinity)>>)
    BY <1>4, <1>12, <2>1 DEF Closes, Ends
  <2> QED
    BY <1>5, <1>12, <2>1, <2>2, <2>3
<1>13. ASSUME NEW n \in Robots, Complete(n)
       PROVE  \E v \in View, sent \in Messages : Moves(n, v, sent) /\ Closes(n, view[n], v, sent)
  <2>1. /\ Called(n, Finish(view[n], "done"), <<Msg("Complete", Infinity)>>)
        /\ Spend("complete") /\ Owns(n, view[n])
    BY <1>13 DEF Complete, Arrives
  <2>2. view[n].st # "none" /\ n \in Node
    BY <1>1, <2>1 DEF Owns
  <2> QED
    BY <1>12, <2>1, <2>2 DEF Finished, Ends, Events
<1>14. ASSUME NEW n \in Node, Cancel(n)
       PROVE  \E v \in View, sent \in Messages : Moves(n, v, sent) /\ Closes(n, view[n], v, sent)
  <2>1. /\ Called(n, Finish(view[n], "cancelled"), <<Msg("Cancel", Infinity)>>)
        /\ Spend("cancel") /\ view[n].st # "none" /\ (n = Gateway \/ Owns(n, view[n]))
    BY <1>14 DEF Cancel
  <2> QED
    BY <1>12, <2>1 DEF Finished, Ends, Events
<1> QED
  BY <1>1, <1>7, <1>8, <1>9, <1>10, <1>11, <1>13, <1>14

\* The channels and the views after any other step of a node.
LEMMA MovesChan ==
    ASSUME TypeOK, Whole, NEW n \in Node, NEW v \in View, NEW sent \in Messages,
           Moves(n, v, sent)
    PROVE  /\ \A x \in Node : view'[x] = IF x = n THEN v ELSE view[x]
           /\ \A a, b \in Node :
                  chan'[a][b] = IF a = n /\ b # n THEN chan[a][b] \o sent ELSE chan[a][b]
<1>1. \A x \in Node : view'[x] = IF x = n THEN v ELSE view[x]
  BY DEF Moves, TypeOK
<1>2. \A a, b \in Node :
          chan'[a][b] = IF a = n /\ b # n THEN chan[a][b] \o sent ELSE chan[a][b]
  BY DEF Moves, Publish, Linked, Whole, TypeOK
<1> QED
  BY <1>1, <1>2

\* Channels that only get longer keep what is on its way in them.
LEMMA Lengthened ==
    ASSUME TypeOK, NEW n \in Node, NEW sent \in Messages, NEW x \in Node, NEW a \in Node,
           chan'[a][x] \in {chan[a][x], chan[a][x] \o sent}, NEW k \in Nat
    PROVE  /\ EndComes(chan[a][x], k) => EndComes(chan'[a][x], k)
           /\ AnnounceComes(chan[a][x], k) => AnnounceComes(chan'[a][x], k)
           /\ EndBehind(chan[a][x], k) => EndBehind(chan'[a][x], k)
<1>1. chan[a][x] \in Messages
  BY DEF TypeOK, Messages
<1>2. CASE chan'[a][x] = chan[a][x]
  BY <1>2
<1>3. CASE chan'[a][x] = chan[a][x] \o sent
  BY <1>1, <1>3, EndsAppended
<1> QED
  BY <1>2, <1>3

\* A node that may still start work in the age of the end has a message of that
\* end coming, so the end is no older than a message may be.
LEMMA EndIsRecent ==
    ASSUME TypeOK, NEW k \in Nat, Ended(k), NEW x \in Node,
           Running(view[x]) \/ Late(x, k)
    PROVE  k <= MaxDelay
<1>1. PICK s \in Node : EndComes(chan[s][x], k)
  <2>1. CASE Running(view[x])
    BY <2>1 DEF Ended, Over, Told, Late, Gone, Running, Finished
  <2>2. CASE Late(x, k)
    BY <2>2, FleetFacts DEF Late, EndBehind, EndComes
  <2> QED
    BY <2>1, <2>2
<1>2. chan[s][x] \in Messages
  BY DEF TypeOK, Messages
<1>3. PICK i \in DOMAIN chan[s][x] : chan[s][x][i].age >= k
  BY <1>1 DEF EndComes
<1>4. chan[s][x][i].age \in Nat /\ chan[s][x][i].age <= MaxDelay
  BY <1>2, AgeFacts
<1> QED
  BY <1>3, <1>4, TimerAssumption

\* What is sent in the age of the end settles with it.
LEMMA SettlesWith ==
    ASSUME NEW k \in Nat, NEW out \in Messages, NEW types, Fresh(out, types),
           k <= MaxDelay \/ types \subseteq Ends
    PROVE  Settling(out, k)
BY TimerAssumption DEF Fresh, Settling

\* A message is heard: an announcement starts the round of its receiver, a
\* COMPLETE or CANCEL ends the task there, and no other message does either.
LEMMA LifeReceive ==
    ASSUME TypeOK, Whole, PromptTimers, LifeOfTask, NEW n \in Node, Receive(n)
    PROVE  LifeOfTask'
<1>1. PICK s \in Node, v \in View, out \in Messages :
          /\ s # n /\ chan[s][n] # <<>>
          /\ Handled(n, s, v, out)
          /\ Fresh(out, {"Bid"})
          /\ Hears(view[n], Head(chan[s][n]).type, v, out)
  BY ReceiveLife
<1>2. /\ \A x \in Node : view'[x] = IF x = n THEN v ELSE view[x]
      /\ \A a, b \in Node :
             chan'[a][b] = IF a = n /\ b # n THEN chan[a][b] \o out
                           ELSE IF a = s /\ b = n THEN Tail(chan[s][n])
                           ELSE chan[a][b]
      /\ budget' = budget
  BY <1>1, HandledChan
<1>3. PICK u \in View : u = view[n]
  BY DEF TypeOK
<1>4. PICK q \in Messages : q = chan[s][n]
  BY DEF TypeOK, Messages
<1>5. PICK type \in MsgType : type = Head(q).type
  BY <1>1, <1>4, TailEntries, AgeFacts
<1>6. \A a, b \in Node : chan[a][b] \in Messages
  BY DEF TypeOK, Messages
<1>7. /\ Hears(u, type, v, out) /\ q # <<>>
      /\ Gateway \in Node
  BY <1>1, <1>3, <1>4, <1>5, FleetFacts
<1>8. \A types : {"Bid"} \subseteq types => Only(out, types)
  BY <1>1 DEF Fresh, Only
<1>9. \A types : (\A a, b \in Node : Only(chan[a][b], types)) /\ Only(out, types) =>
          /\ \A a, b \in Node : Only(chan'[a][b], types)
          /\ type \in types
  <2> SUFFICES ASSUME NEW types, \A a, b \in Node : Only(chan[a][b], types), Only(out, types)
               PROVE  /\ \A a, b \in Node : Only(chan'[a][b], types)
                      /\ type \in types
    OBVIOUS
  <2>1. Only(q, types)
    BY <1>4
  <2>2. Only(Tail(q), types) /\ type \in types
    BY <1>1, <1>5, <1>7, <2>1, AllMessages
  <2>3. \A a, b \in Node : Only(chan[a][b] \o out, types)
    BY <1>6, AllMessages
  <2> QED
    BY <1>2, <1>4, <2>2, <2>3
\* Every other node's channels are as they were, or longer.
<1>10. \A x \in Node \ {n} : \A a \in Node : chan'[a][x] \in {chan[a][x], chan[a][x] \o out}
  BY <1>2
<1>11. \A x \in Node \ {n} : \A a \in Node : \A k \in Nat :
           /\ EndComes(chan[a][x], k) => EndComes(chan'[a][x], k)
           /\ AnnounceComes(chan[a][x], k) => AnnounceComes(chan'[a][x], k)
           /\ EndBehind(chan[a][x], k) => EndBehind(chan'[a][x], k)
  <2> SUFFICES ASSUME NEW x \in Node \ {n}, NEW a \in Node, NEW k \in Nat
               PROVE  /\ EndComes(chan[a][x], k) => EndComes(chan'[a][x], k)
                      /\ AnnounceComes(chan[a][x], k) => AnnounceComes(chan'[a][x], k)
                      /\ EndBehind(chan[a][x], k) => EndBehind(chan'[a][x], k)
    OBVIOUS
  <2>1. x \in Node /\ chan'[a][x] \in {chan[a][x], chan[a][x] \o out}
    BY <1>10
  <2> QED
    BY <2>1, Lengthened
<1>12. \A a \in Node : chan'[a][n] = IF a = s THEN Tail(q) ELSE chan[a][n]
  BY <1>1, <1>2, <1>4
<1>13. ~Unknown
  BY <1>1 DEF Unknown
<1>14. ASSUME NEW k \in Nat, Announced(k) PROVE Announced(k)'
  <2>1. (\A a, b \in Node : Only(chan'[a][b], Opening)) /\ type \in Opening
    BY <1>8, <1>9, <1>14 DEF Announced, Opening
  <2>2. \/ u.st = "none" /\ AnnounceComes(chan[Gateway][n], k)
        \/ u.st = "bidding" /\ u.win + k >= BidWindow
    BY <1>3, <1>14 DEF Announced
  <2>3. \/ v.st = "none" /\ AnnounceComes(chan'[Gateway][n], k) /\ u.st = "none"
        \/ v.st = "bidding" /\ v.win + k >= BidWindow
    <3>1. CASE u.st = "bidding"
      <4>1. v.st = "bidding" /\ v.win \in {BidWindow, u.win}
        BY <1>7, <2>1, <3>1 DEF Hears
      <4> QED
        BY <1>3, <2>2, <3>1, <4>1, TimerAssumption DEF View
    <3>2. CASE u.st = "none" /\ type = "TaskAnnounce"
      <4>1. v.st = "bidding" /\ v.win = BidWindow
        BY <1>7, <3>2 DEF Hears
      <4> QED
        BY <4>1, TimerAssumption
    <3>3. CASE u.st = "none" /\ type # "TaskAnnounce"
      <4>1. v.st = "none"
        BY <1>7, <2>1, <3>3 DEF Hears, Opening, Loud
      <4>2. AnnounceComes(chan[Gateway][n], k)
        BY <2>2, <3>3
      <4>3. Gateway = s => AnnounceComes(Tail(q), k)
        BY <1>4, <1>5, <1>7, <3>3, <4>2, EndsTail
      <4> QED
        BY <1>7, <1>12, <3>3, <4>1, <4>2, <4>3
    <3> QED
      BY <2>2, <3>1, <3>2, <3>3
  <2>4. \A x \in Node : \/ view'[x].st = "none" /\ AnnounceComes(chan'[Gateway][x], k)
                        \/ view'[x].st = "bidding" /\ view'[x].win + k >= BidWindow
    BY <1>2, <1>7, <1>11, <1>14, <2>3 DEF Announced
  <2>5. view'[Gateway].st # "none"
    <3>1. CASE Gateway = n
      <4>1. u.st # "none"
        BY <1>3, <1>14, <3>1 DEF Announced
      <4> QED
        BY <1>2, <1>7, <2>3, <3>1, <4>1
    <3>2. CASE Gateway # n
      BY <1>2, <1>7, <1>14, <3>2 DEF Announced
    <3> QED
      BY <3>1, <3>2
  <2> QED
    BY <1>2, <1>14, <2>1, <2>4, <2>5 DEF Announced
<1>15. ASSUME KnownToAll PROVE KnownToAll'
  <2>1. (\A a, b \in Node : Only(chan'[a][b], MsgType \ Ends)) /\ type \notin Ends
    BY <1>8, <1>9, <1>15 DEF KnownToAll, MsgType, Ends
  <2>2. Running(u)
    BY <1>3, <1>15 DEF KnownToAll
  <2>3. Running(v)
    BY <1>7, <2>1, <2>2 DEF Hears
  <2>4. \A x \in Node : Running(view'[x])
    BY <1>2, <1>15, <2>3 DEF KnownToAll
  <2> QED
    BY <1>2, <1>15, <2>1, <2>4 DEF KnownToAll
<1>16. ASSUME NEW k \in Nat, Ended(k) PROVE Ended(k)'
  <2>1. Over(n, k) \/ Told(n, k) \/ Late(n, k) \/ Gone(n, k)
    BY <1>16 DEF Ended
  <2>2. Settling(q, k)
    BY <1>4, <1>16 DEF Ended
  <2>3. type \notin Ends => k <= MaxDelay + MaxDelay
    <3>1. 1 \in DOMAIN q /\ Head(q) = q[1]
      BY <1>7, TailEntries
    <3>2. q[1].age \in Nat /\ q[1].age <= MaxDelay
      BY <3>1, AgeFacts
    <3>3. type \notin Ends => q[1].age + MaxDelay >= k
      BY <1>5, <2>2, <3>1 DEF Settling
    <3> QED
      BY <3>2, <3>3, TimerAssumption
  <2>4. Gone(n, k) => type \in Ends
    BY <2>3, TimerAssumption DEF Gone, PromptTimers
  <2>5. Settling(out, k)
    <3>1. CASE Running(u) \/ Late(n, k)
      <4>1. k <= MaxDelay
        BY <1>3, <1>16, <3>1, EndIsRecent
      <4> QED
        BY <1>1, <4>1, SettlesWith
    <3>2. CASE ~Running(u) /\ ~Late(n, k)
      <4>1. out = <<>>
        BY <1>3, <1>7, <2>1, <2>4, <3>2
           DEF Hears, Over, Told, Gone, Running, Finished, Ends
      <4> QED
        BY <4>1 DEF Settling
    <3> QED
      BY <3>1, <3>2
  <2>6. \A a, b \in Node : Settling(chan'[a][b], k)
    <3>1. Settling(Tail(q), k)
      BY <1>7, <2>2, AllMessages
    <3>2. \A a, b \in Node : Settling(chan[a][b], k)
      BY <1>16 DEF Ended
    <3>3. \A a, b \in Node : Settling(chan[a][b] \o out, k)
      BY <1>6, <2>5, <3>2, AllMessages
    <3> QED
      BY <1>2, <1>4, <3>1, <3>2, <3>3
  <2>7. ASSUME NEW x \in Node \ {n} PROVE (Over(x, k) \/ Told(x, k) \/ Late(x, k) \/ Gone(x, k))'
    <3>1. Over(x, k) \/ Told(x, k) \/ Late(x, k) \/ Gone(x, k)
      BY <1>16 DEF Ended
    <3>2. view'[x] = view[x]
      BY <1>2
    <3> QED
      BY <1>7, <1>11, <3>1, <3>2 DEF Over, Told, Late, Gone
  <2>8. CASE Over(n, k)
    <3>1. v.st \in Finished /\ v.fin <= k
      BY <1>3, <1>7, <2>8 DEF Hears, Over
    <3> QED
      BY <1>2, <1>16, <2>6, <2>7, <3>1 DEF Ended, Over
  <2>9. CASE Told(n, k)
    <3>1. Running(u)
      BY <1>3, <2>9 DEF Told
    <3>2. CASE type \in Ends
      <4>1. v.st \in Finished /\ v.fin = 0
        BY <1>7, <3>1, <3>2 DEF Hears
      <4> QED
        BY <1>2, <1>16, <2>6, <2>7, <4>1 DEF Ended, Over
    <3>3. CASE type \notin Ends
      <4>1. Running(v)
        BY <1>7, <3>1, <3>3 DEF Hears
      <4>2. PICK t \in Node : EndComes(chan[t][n], k)
        BY <2>9 DEF Told
      <4>3. EndComes(chan'[t][n], k)
        BY <1>4, <1>5, <1>7, <1>12, <3>3, <4>2, EndsTail
      <4> QED
        BY <1>2, <1>16, <2>6, <2>7, <4>1, <4>3 DEF Ended, Told
    <3> QED
      BY <3>2, <3>3
  <2>10. CASE Late(n, k)
    <3>1. u.st = "none" /\ EndBehind(chan[Gateway][n], k)
      BY <1>3, <2>10 DEF Late
    <3>2. v.st \notin Finished
      BY <1>7, <3>1 DEF Hears
    <3>3. EndComes(chan'[Gateway][n], k)
      <4>1. CASE Gateway = s
        BY <1>4, <1>7, <1>12, <3>1, <4>1, EndsTail
      <4>2. CASE Gateway # s
        BY <1>7, <1>12, <3>1, <4>2 DEF EndBehind, EndComes
      <4> QED
        BY <4>1, <4>2
    <3>4. CASE Running(v)
      BY <1>2, <1>7, <1>16, <2>6, <2>7, <3>3, <3>4 DEF Ended, Told
    <3>5. CASE ~Running(v)
      <4>1. v.st = "none"
        BY <3>2, <3>5 DEF Running, Finished, View, TaskState
      <4>2. type # "TaskAnnounce"
        BY <1>7, <3>1, <4>1 DEF Hears
      <4>3. EndBehind(chan'[Gateway][n], k)
        BY <1>4, <1>5, <1>7, <1>12, <3>1, <4>2, EndsTail
      <4> QED
        BY <1>2, <1>16, <2>6, <2>7, <4>1, <4>3 DEF Ended, Late
    <3> QED
      BY <3>4, <3>5
  <2>11. CASE Gone(n, k)
    <3>1. u.st = "none" /\ k > Retention
      BY <1>3, <2>11 DEF Gone
    <3>2. v.st = "none"
      BY <1>7, <2>4, <2>11, <3>1 DEF Hears, Ends, Loud
    <3> QED
      BY <1>2, <1>16, <2>6, <2>7, <3>1, <3>2 DEF Ended, Gone
  <2> QED
    BY <2>1, <2>8, <2>9, <2>10, <2>11
<1> QED
  BY <1>13, <1>14, <1>15, <1>16 DEF LifeOfTask

\* After any other step of a node its own incoming channels are as they were,
\* and what is on its way to the others still is.
LEMMA MovesKeep ==
    ASSUME TypeOK, Whole, NEW n \in Node, NEW v \in View, NEW sent \in Messages,
           Moves(n, v, sent)
    PROVE  /\ \A a \in Node : chan'[a][n] = chan[a][n]
           /\ \A x, a \in Node : \A k \in Nat :
                  /\ EndComes(chan[a][x], k) => EndComes(chan'[a][x], k)
                  /\ AnnounceComes(chan[a][x], k) => AnnounceComes(chan'[a][x], k)
                  /\ EndBehind(chan[a][x], k) => EndBehind(chan'[a][x], k)
           /\ \A types : (\A a, b \in Node : Only(chan[a][b], types)) /\ Only(sent, types)
                             => \A a, b \in Node : Only(chan'[a][b], types)
           /\ \A k \in Nat : (\A a, b \in Node : Settling(chan[a][b], k)) /\ Settling(sent, k)
                                 => \A a, b \in Node : Settling(chan'[a][b], k)
<1>1. \A a, b \in Node :
          chan'[a][b] = IF a = n /\ b # n THEN chan[a][b] \o sent ELSE chan[a][b]
  BY MovesChan
<1>2. \A a, b \in Node : chan[a][b] \in Messages
  BY DEF TypeOK, Messages
<1>3. \A a \in Node : chan'[a][n] = chan[a][n]
  BY <1>1
<1>4. ASSUME NEW x \in Node, NEW a \in Node, NEW k \in Nat
      PROVE  /\ EndComes(chan[a][x], k) => EndComes(chan'[a][x], k)
             /\ AnnounceComes(chan[a][x], k) => AnnounceComes(chan'[a][x], k)
             /\ EndBehind(chan[a][x], k) => EndBehind(chan'[a][x], k)
  <2>1. chan'[a][x] \in {chan[a][x], chan[a][x] \o sent}
    BY <1>1
  <2> QED
    BY <2>1, Lengthened
<1>5. \A types : (\A a, b \in Node : Only(chan[a][b], types)) /\ Only(sent, types)
                     => \A a, b \in Node : Only(chan'[a][b], types)
  BY <1>1, <1>2, AllMessages
<1>6. \A k \in Nat : (\A a, b \in Node : Settling(chan[a][b], k)) /\ Settling(sent, k)
                         => \A a, b \in Node : Settling(chan'[a][b], k)
  BY <1>1, <1>2, AllMessages
<1> QED
  BY <1>3, <1>4, <1>5, <1>6

\* A tick starts nothing where nothing is, ends nothing, and closes no round
\* that an announcement opened while that announcement is still on its way.
LEMMA LifeTick ==
    ASSUME TypeOK, Whole, PromptTimers, LifeOfTask, NEW n \in Node, Tick(n)
    PROVE  LifeOfTask'
<1>1. PICK v \in View, sent \in Messages : Moves(n, v, sent) /\ Ticks(view[n], v, sent)
  BY TickLife
<1>2. budget'["announce"] = budget["announce"]
  BY TickLife
<1>3. PICK u \in View : u = view[n]
  BY DEF TypeOK
<1>4. \A x \in Node : view'[x] = IF x = n THEN v ELSE view[x]
  BY <1>1, MovesChan
<1>5. /\ \A a \in Node : chan'[a][n] = chan[a][n]
      /\ \A x, a \in Node : \A k \in Nat :
             /\ EndComes(chan[a][x], k) => EndComes(chan'[a][x], k)
             /\ AnnounceComes(chan[a][x], k) => AnnounceComes(chan'[a][x], k)
             /\ EndBehind(chan[a][x], k) => EndBehind(chan'[a][x], k)
      /\ \A types : (\A a, b \in Node : Only(chan[a][b], types)) /\ Only(sent, types)
                        => \A a, b \in Node : Only(chan'[a][b], types)
      /\ \A k \in Nat : (\A a, b \in Node : Settling(chan[a][b], k)) /\ Settling(sent, k)
                            => \A a, b \in Node : Settling(chan'[a][b], k)
  BY <1>1, MovesKeep
<1>6. Ticks(u, v, sent) /\ Gateway \in Node
  BY <1>1, <1>3, FleetFacts
<1>7. ASSUME v = u, sent = <<>>
      PROVE  (\A x \in Node : view'[x] = view[x]) /\ (\A a, b \in Node : chan'[a][b] = chan[a][b])
  <2>1. \A x \in Node : view'[x] = view[x]
    BY <1>3, <1>4, <1>7
  <2>2. \A a, b \in Node :
            chan'[a][b] = IF a = n /\ b # n THEN chan[a][b] \o sent ELSE chan[a][b]
    BY <1>1, MovesChan
  <2>3. \A a, b \in Node : chan[a][b] \in Seq(Message)
    BY DEF TypeOK
  <2>4. \A r \in Seq(Message) : r \o <<>> = r
    BY ConcatProperties, EmptySeq
  <2> QED
    BY <1>7, <2>1, <2>2, <2>3, <2>4
<1>8. ASSUME Unknown PROVE Unknown'
  <2>1. u.st = "none"
    BY <1>3, <1>8 DEF Unknown
  <2>2. v = u /\ sent = <<>>
    BY <1>6, <2>1 DEF Ticks, Running, Finished
  <2> QED
    BY <1>2, <1>7, <1>8, <2>2 DEF Unknown
<1>9. ASSUME NEW k \in Nat, Announced(k) PROVE Announced(k)'
  <2>1. u.st = "none" \/ (u.st = "bidding" /\ u.win + k >= BidWindow /\ k <= MaxDelay)
    BY <1>3, <1>9 DEF Announced
  <2>2. u.st = "bidding" => u.win # 0
    BY <2>1, TimerAssumption DEF PromptTimers
  <2>3. v = u /\ sent = <<>>
    BY <1>6, <2>1, <2>2 DEF Ticks, Running, Finished
  <2> QED
    BY <1>2, <1>6, <1>7, <1>9, <2>3 DEF Announced
<1>10. ASSUME KnownToAll PROVE KnownToAll'
  <2>1. Running(u)
    BY <1>3, <1>10 DEF KnownToAll
  <2>2. Running(v) /\ Only(sent, MsgType \ Ends)
    BY <1>6, <2>1 DEF Ticks, Fresh, Only
  <2>3. \A a, b \in Node : Only(chan'[a][b], MsgType \ Ends)
    BY <1>5, <1>10, <2>2 DEF KnownToAll
  <2>4. \A x \in Node : Running(view'[x])
    BY <1>4, <1>10, <2>2 DEF KnownToAll
  <2> QED
    BY <1>2, <1>10, <2>3, <2>4 DEF KnownToAll
<1>11. ASSUME NEW k \in Nat, Ended(k) PROVE Ended(k)'
  <2>1. Settling(sent, k)
    <3>1. CASE Running(u)
      <4>1. k <= MaxDelay
        BY <1>3, <1>11, <3>1, EndIsRecent
      <4> QED
        BY <1>6, <4>1, SettlesWith DEF Ticks
    <3>2. CASE ~Running(u)
      BY <1>6, <3>2 DEF Ticks, Settling
    <3> QED
      BY <3>1, <3>2
  <2>2. \A a, b \in Node : Settling(chan'[a][b], k)
    BY <1>5, <1>11, <2>1 DEF Ended
  <2>3. ASSUME NEW x \in Node PROVE (Over(x, k) \/ Told(x, k) \/ Late(x, k) \/ Gone(x, k))'
    <3>1. Over(x, k) \/ Told(x, k) \/ Late(x, k) \/ Gone(x, k)
      BY <1>11 DEF Ended
    <3>2. CASE view'[x] = view[x]
      BY <1>5, <1>6, <3>1, <3>2 DEF Over, Told, Late, Gone
    <3>3. CASE x = n /\ Running(u)
      <4>1. Running(v)
        BY <1>6, <3>3 DEF Ticks
      <4>2. Told(x, k)
        BY <1>3, <3>1, <3>3 DEF Over, Told, Late, Gone, Running, Finished
      <4> QED
        BY <1>4, <1>5, <3>3, <4>1, <4>2 DEF Told
    <3>4. CASE x = n /\ v # u /\ ~Running(u)
      <4>1. v = NoTask /\ u.st \in Finished /\ u.fin > Retention
        BY <1>6, <3>4 DEF Ticks
      <4>2. u.fin <= k
        BY <1>3, <3>1, <3>4, <4>1 DEF Over, Told, Late, Gone, Running, Finished
      <4>3. k > Retention
        BY <1>3, <4>1, <4>2, TimerAssumption DEF View
      <4> QED
        BY <1>4, <3>4, <4>1, <4>3 DEF Gone, NoTask
    <3> QED
      BY <1>3, <1>4, <3>2, <3>3, <3>4
  <2> QED
    BY <1>2, <1>11, <2>2, <2>3 DEF Ended
<1> QED
  BY <1>8, <1>9, <1>10, <1>11 DEF LifeOfTask

\* A call announces the task where nobody knows it, or ends it where it is
\* known: then the end is on its way to every other node, behind the
\* announcement where that is still coming.
LEMMA LifeCall ==
    ASSUME TypeOK, Whole, PromptTimers, LifeOfTask,
           \/ Announce \/ Reannounce
           \/ \E n \in Robots : Commit(n) \/ Complete(n) \/ Fail(n) \/ Withdraw(n)
           \/ \E n \in Node : Cancel(n)
    PROVE  LifeOfTask'
<1>1. PICK n \in Node, v \in View, sent \in Messages :
          /\ Moves(n, v, sent)
          /\ \/ Opens(n, view[n], v, sent)
             \/ GoesOn(view[n], v, sent)
             \/ Closes(n, view[n], v, sent)
  BY CallLife
<1>2. PICK u \in View : u = view[n]
  BY DEF TypeOK
<1>3. /\ \A x \in Node : view'[x] = IF x = n THEN v ELSE view[x]
      /\ \A a, b \in Node :
             chan'[a][b] = IF a = n /\ b # n THEN chan[a][b] \o sent ELSE chan[a][b]
  BY <1>1, MovesChan
<1>4. \A a, b \in Node : chan[a][b] \in Messages
  BY DEF TypeOK, Messages
<1>5. /\ \A a \in Node : chan'[a][n] = chan[a][n]
      /\ \A x, a \in Node : \A k \in Nat :
             /\ EndComes(chan[a][x], k) => EndComes(chan'[a][x], k)
             /\ AnnounceComes(chan[a][x], k) => AnnounceComes(chan'[a][x], k)
             /\ EndBehind(chan[a][x], k) => EndBehind(chan'[a][x], k)
      /\ \A types : (\A a, b \in Node : Only(chan[a][b], types)) /\ Only(sent, types)
                        => \A a, b \in Node : Only(chan'[a][b], types)
      /\ \A k \in Nat : (\A a, b \in Node : Settling(chan[a][b], k)) /\ Settling(sent, k)
                            => \A a, b \in Node : Settling(chan'[a][b], k)
  BY <1>1, MovesKeep
<1>6. budget["announce"] \in Nat /\ Gateway \in Node
  BY FleetFacts DEF TypeOK, Events
<1>7. ASSUME Opens(n, u, v, sent) PROVE Announced(0)'
  <2>1. Unknown
    BY <1>6, <1>7 DEF LifeOfTask, Announced, KnownToAll, Ended, Opens
  <2>2. budget'["announce"] = 0
    BY <1>6, <1>7, <2>1 DEF Opens, Unknown
  <2>3. AnnounceComes(sent, 0) /\ Only(sent, Opening)
    BY <1>7 DEF Opens, Msg, AnnounceComes, Only, Opening
  <2>4. \A x \in Node \ {n} : AnnounceComes(chan[n][x] \o sent, 0)
    BY <1>4, <2>3, EndsAppended
  <2>5. \A x \in Node \ {n} : view'[x].st = "none" /\ AnnounceComes(chan'[n][x], 0)
    BY <1>3, <2>1, <2>4 DEF Unknown
  <2>6. view'[n].st = "bidding" /\ view'[n].win + 0 >= BidWindow /\ n = Gateway
    BY <1>3, <1>7, TimerAssumption DEF Opens
  <2>7. \A a, b \in Node : Only(chan[a][b], Opening)
    BY <2>1 DEF Unknown, Only
  <2>8. \A a, b \in Node : Only(chan'[a][b], Opening)
    BY <1>5, <2>3, <2>7
  <2> QED
    BY <2>2, <2>5, <2>6, <2>8, TimerAssumption DEF Announced
<1>8. ASSUME GoesOn(u, v, sent) PROVE LifeOfTask'
  <2>1. /\ Running(u) /\ Running(v) /\ Only(sent, MsgType \ Ends)
        /\ budget'["announce"] = budget["announce"]
    BY <1>8 DEF GoesOn, Fresh, Only
  <2>2. ~Unknown
    BY <1>2, <2>1 DEF Unknown, Running
  <2>3. ASSUME NEW k \in Nat, Announced(k) PROVE Announced(k)'
    <3>1. u.st = "bidding" /\ u.win + k >= BidWindow
      BY <1>2, <2>1, <2>3 DEF Announced, Running
    <3>2. v.st = "bidding" /\ v.win = u.win /\ Only(sent, Opening)
      BY <1>8, <3>1 DEF GoesOn, Fresh, Only, Opening
    <3>3. \A a, b \in Node : Only(chan'[a][b], Opening)
      BY <1>5, <2>3, <3>2 DEF Announced
    <3>4. \A x \in Node : \/ view'[x].st = "none" /\ AnnounceComes(chan'[Gateway][x], k)
                          \/ view'[x].st = "bidding" /\ view'[x].win + k >= BidWindow
      BY <1>3, <1>5, <1>6, <2>3, <3>1, <3>2 DEF Announced
    <3>5. view'[Gateway].st # "none"
      BY <1>3, <1>6, <2>3, <3>2 DEF Announced
    <3> QED
      BY <2>1, <2>3, <3>3, <3>4, <3>5 DEF Announced
  <2>4. ASSUME KnownToAll PROVE KnownToAll'
    <3>1. \A a, b \in Node : Only(chan'[a][b], MsgType \ Ends)
      BY <1>5, <2>1, <2>4 DEF KnownToAll
    <3>2. \A x \in Node : Running(view'[x])
      BY <1>3, <2>1, <2>4 DEF KnownToAll
    <3> QED
      BY <2>1, <2>4, <3>1, <3>2 DEF KnownToAll
  <2>5. ASSUME NEW k \in Nat, Ended(k) PROVE Ended(k)'
    <3>1. k <= MaxDelay
      BY <1>2, <2>1, <2>5, EndIsRecent
    <3>2. Settling(sent, k)
      BY <1>8, <3>1, SettlesWith DEF GoesOn
    <3>3. \A a, b \in Node : Settling(chan'[a][b], k)
      BY <1>5, <2>5, <3>2 DEF Ended
    <3>4. ASSUME NEW x \in Node PROVE (Over(x, k) \/ Told(x, k) \/ Late(x, k) \/ Gone(x, k))'
      <4>1. Over(x, k) \/ Told(x, k) \/ Late(x, k) \/ Gone(x, k)
        BY <2>5 DEF Ended
      <4>2. CASE x # n
        <5>1. view'[x] = view[x]
          BY <1>3, <4>2
        <5> QED
          BY <1>5, <1>6, <4>1, <5>1 DEF Over, Told, Late, Gone
      <4>3. CASE x = n
        <5>1. Told(x, k)
          BY <1>2, <2>1, <4>1, <4>3 DEF Over, Told, Late, Gone, Running, Finished
        <5> QED
          BY <1>3, <1>5, <2>1, <4>3, <5>1 DEF Told
      <4> QED
        BY <4>2, <4>3
    <3> QED
      BY <2>1, <2>5, <3>3, <3>4 DEF Ended
  <2> QED
    BY <2>2, <2>3, <2>4, <2>5 DEF LifeOfTask
<1>9. ASSUME Closes(n, u, v, sent) PROVE LifeOfTask'
  <2>1. /\ u.st # "none" /\ (n = Gateway \/ Owns(n, u))
        /\ v.st \in Finished /\ v.fin = 0
        /\ EndComes(sent, 0) /\ Only(sent, Ends)
        /\ budget'["announce"] = budget["announce"]
    BY <1>9 DEF Closes, Msg, EndComes, Only, Ends
  <2>2. \A k \in Nat : Settling(sent, k)
    BY <2>1 DEF Only, Settling
  <2>3. ~Unknown
    BY <1>2, <2>1 DEF Unknown
  <2>4. \A k \in Nat : view'[n].st \in Finished /\ view'[n].fin <= k
    BY <1>3, <2>1
  <2>5. \A a, b \in Node : Settling(chan[a][b], 0)
    BY <1>4, AgeFacts, TimerAssumption DEF Settling
  <2>6. \A a, b \in Node : Settling(chan'[a][b], 0)
    BY <1>5, <2>2, <2>5
  <2>7. \A x \in Node \ {n} : EndComes(chan'[n][x], 0) /\ view'[x] = view[x]
    <3>1. \A x \in Node \ {n} : EndComes(chan[n][x] \o sent, 0)
      BY <1>4, <2>1, EndsAppended
    <3> QED
      BY <1>3, <3>1
  <2>8. ASSUME NEW k \in Nat, Announced(k) PROVE Ended(0)'
    <3>1. n = Gateway
      BY <1>2, <2>1, <2>8 DEF Announced, Owns
    <3>2. \A x \in Node \ {n} : AnnounceComes(chan[n][x], k) => EndBehind(chan'[n][x], 0)
      <4>1. \A x \in Node \ {n} :
                AnnounceComes(chan[n][x], k) => EndBehind(chan[n][x] \o sent, 0)
        BY <1>4, <2>1, EndsAppended
      <4> QED
        BY <1>3, <4>1
    <3>3. ASSUME NEW x \in Node PROVE (Over(x, 0) \/ Told(x, 0) \/ Late(x, 0) \/ Gone(x, 0))'
      <4>1. CASE x = n
        BY <2>4, <4>1 DEF Over
      <4>2. CASE x # n /\ view[x].st = "none"
        <5>1. AnnounceComes(chan[n][x], k)
          BY <2>8, <3>1, <4>2 DEF Announced
        <5> QED
          BY <2>7, <3>1, <3>2, <4>2, <5>1 DEF Late
      <4>3. CASE x # n /\ view[x].st = "bidding"
        BY <2>7, <4>3 DEF Told, Running
      <4> QED
        BY <2>8, <4>1, <4>2, <4>3 DEF Announced
    <3> QED
      BY <2>1, <2>6, <2>8, <3>3 DEF Ended, Announced
  <2>9. ASSUME KnownToAll PROVE Ended(0)'
    <3>1. ASSUME NEW x \in Node PROVE (Over(x, 0) \/ Told(x, 0) \/ Late(x, 0) \/ Gone(x, 0))'
      <4>1. CASE x = n
        BY <2>4, <4>1 DEF Over
      <4>2. CASE x # n
        BY <2>7, <2>9, <4>2 DEF Told, KnownToAll
      <4> QED
        BY <4>1, <4>2
    <3> QED
      BY <2>1, <2>6, <2>9, <3>1 DEF Ended, KnownToAll
  <2>10. ASSUME NEW k \in Nat, Ended(k) PROVE Ended(k)'
    <3>1. \A a, b \in Node : Settling(chan'[a][b], k)
      BY <1>5, <2>2, <2>10 DEF Ended
    <3>2. ASSUME NEW x \in Node PROVE (Over(x, k) \/ Told(x, k) \/ Late(x, k) \/ Gone(x, k))'
      <4>1. CASE x = n
        BY <2>4, <4>1 DEF Over
      <4>2. CASE x # n
        <5>1. Over(x, k) \/ Told(x, k) \/ Late(x, k) \/ Gone(x, k)
          BY <2>10 DEF Ended
        <5>2. view'[x] = view[x]
          BY <2>7, <4>2
        <5> QED
          BY <1>5, <1>6, <5>1, <5>2 DEF Over, Told, Late, Gone
      <4> QED
        BY <4>1, <4>2
    <3> QED
      BY <2>1, <2>10, <3>1, <3>2 DEF Ended
  <2> QED
    BY <2>3, <2>8, <2>9, <2>10 DEF LifeOfTask
<1> QED
  BY <1>1, <1>2, <1>7, <1>8, <1>9 DEF LifeOfTask

\* A unit of time ages what is on its way, and nothing of it is overdue.
LEMMA AdvanceChan ==
    ASSUME TypeOK, TypeOK', Advance
    PROVE  /\ \A a, b \in Node :
                  /\ DOMAIN chan'[a][b] = DOMAIN chan[a][b]
                  /\ chan[a][b] = <<>> => chan'[a][b] = <<>>
                  /\ \A i \in DOMAIN chan[a][b] :
                         /\ chan[a][b][i].age < MaxDelay
                         /\ chan'[a][b][i].type = chan[a][b][i].type
                         /\ chan'[a][b][i].age = chan[a][b][i].age + 1
           /\ \A x \in Node : /\ view'[x].st = view[x].st
                              /\ view'[x].win + 1 >= view[x].win
                              /\ view'[x].fin <= view[x].fin + 1
           /\ budget' = budget
<1>1. ASSUME NEW a \in Node, NEW b \in Node
      PROVE  /\ DOMAIN chan'[a][b] = DOMAIN chan[a][b]
             /\ chan[a][b] = <<>> => chan'[a][b] = <<>>
             /\ \A i \in DOMAIN chan[a][b] :
                    /\ chan[a][b][i].age < MaxDelay
                    /\ chan'[a][b][i].type = chan[a][b][i].type
                    /\ chan'[a][b][i].age = chan[a][b][i].age + 1
  <2> DEFINE q == chan[a][b]
             r == chan'[a][b]
  <2>1. q \in Seq(Message) /\ r \in Seq(Message)
    BY DEF TypeOK
  <2>2. r = [i \in DOMAIN q |-> [q[i] EXCEPT !.age = @ + 1]]
    BY DEF Advance
  <2>3. \A i \in DOMAIN q : q[i].age < MaxDelay
    BY DEF Advance
  <2> HIDE DEF q, r
  <2>4. \A m \in Message : /\ [m EXCEPT !.age = @ + 1].type = m.type
                           /\ [m EXCEPT !.age = @ + 1].age = m.age + 1
    BY DEF Message
  <2>5. ASSUME NEW i \in DOMAIN q PROVE r[i].type = q[i].type /\ r[i].age = q[i].age + 1
    <3>1. q[i] \in Message
      BY <2>1
    <3> QED
      BY <2>2, <2>4, <3>1
  <2>6. DOMAIN r = DOMAIN q
    BY <2>2
  <2>7. q = <<>> => r = <<>>
    BY <2>1, <2>6, EmptySeq, LenProperties
  <2> QED
    BY <2>3, <2>5, <2>6, <2>7 DEF q, r
<1>2. ASSUME NEW x \in Node
      PROVE  /\ view'[x].st = view[x].st
             /\ view'[x].win + 1 >= view[x].win
             /\ view'[x].fin <= view[x].fin + 1
  <2>1. view[x] \in View /\ view'[x] = Aged(view[x])
    BY DEF TypeOK, Advance
  <2>2. \A u \in View : /\ Aged(u).st = u.st
                        /\ Aged(u).win = Sooner(u.win)
                        /\ Aged(u).fin \in {u.fin, Older(u.fin, Retention + 1)}
                        /\ u.win \in Nat /\ u.fin \in Nat
    BY TimerAssumption DEF Aged, View
  <2>3. \A i \in Nat : Sooner(i) + 1 >= i /\ Older(i, Retention + 1) <= i + 1 /\ i <= i + 1
    BY TimerAssumption DEF Sooner, Older
  <2> HIDE DEF Aged
  <2> QED
    BY <2>1, <2>2, <2>3
<1>3. budget' = budget
  BY DEF Advance
<1> QED
  BY <1>1, <1>2, <1>3

\* Time passes: the announcement reaches everybody within MaxDelay, and so does
\* the end.
LEMMA LifeAdvance ==
    ASSUME TypeOK, TypeOK', Whole, PromptTimers, LifeOfTask, Advance
    PROVE  LifeOfTask'
<1>1. \A a, b \in Node :
          /\ DOMAIN chan'[a][b] = DOMAIN chan[a][b]
          /\ chan[a][b] = <<>> => chan'[a][b] = <<>>
          /\ \A i \in DOMAIN chan[a][b] :
                 /\ chan[a][b][i].age < MaxDelay
                 /\ chan'[a][b][i].type = chan[a][b][i].type
                 /\ chan'[a][b][i].age = chan[a][b][i].age + 1
  BY AdvanceChan
<1>2. /\ \A x \in Node : /\ view'[x].st = view[x].st
                         /\ view'[x].win + 1 >= view[x].win
                         /\ view'[x].fin <= view[x].fin + 1
      /\ budget' = budget
  BY AdvanceChan
<1>3. \A a, b \in Node : \A i \in DOMAIN chan[a][b] : chan[a][b][i].age \in Nat
  BY AgeFacts DEF TypeOK, Messages
<1>4. \A x \in Node : /\ view[x].win \in Nat /\ view[x].fin \in Nat
                      /\ view'[x].win \in Nat /\ view'[x].fin \in Nat
  BY TimerAssumption DEF TypeOK, View
<1>5. ASSUME NEW a \in Node, NEW b \in Node, NEW k \in Nat
      PROVE  /\ EndComes(chan[a][b], k) => EndComes(chan'[a][b], k + 1)
             /\ AnnounceComes(chan[a][b], k) => AnnounceComes(chan'[a][b], k + 1) /\ k < MaxDelay
             /\ EndBehind(chan[a][b], k) => EndBehind(chan'[a][b], k + 1)
             /\ Settling(chan[a][b], k) => Settling(chan'[a][b], k + 1)
  <2>0. ASSUME NEW i \in DOMAIN chan[a][b], chan[a][b][i].age >= k
        PROVE  /\ i \in DOMAIN chan'[a][b] /\ chan'[a][b][i].type = chan[a][b][i].type
               /\ chan'[a][b][i].age >= k + 1
               /\ k < MaxDelay
    <3>1. /\ i \in DOMAIN chan'[a][b] /\ chan'[a][b][i].type = chan[a][b][i].type
          /\ chan'[a][b][i].age = chan[a][b][i].age + 1 /\ chan[a][b][i].age < MaxDelay
      BY <1>1, <2>0
    <3>2. chan[a][b][i].age \in Nat
      BY <1>3, <2>0
    <3> QED
      BY <2>0, <3>1, <3>2, TimerAssumption
  <2>1. EndComes(chan[a][b], k) => EndComes(chan'[a][b], k + 1)
    <3>1. ASSUME NEW i \in DOMAIN chan[a][b], chan[a][b][i].type \in Ends,
                 chan[a][b][i].age >= k
          PROVE  EndComes(chan'[a][b], k + 1)
      BY <2>0, <3>1 DEF EndComes
    <3> QED
      BY <3>1 DEF EndComes
  <2>2. AnnounceComes(chan[a][b], k) => AnnounceComes(chan'[a][b], k + 1) /\ k < MaxDelay
    <3>1. ASSUME NEW i \in DOMAIN chan[a][b], chan[a][b][i].type = "TaskAnnounce",
                 chan[a][b][i].age >= k
          PROVE  AnnounceComes(chan'[a][b], k + 1) /\ k < MaxDelay
      BY <2>0, <3>1 DEF AnnounceComes
    <3> QED
      BY <3>1 DEF AnnounceComes
  <2>3. EndBehind(chan[a][b], k) => EndBehind(chan'[a][b], k + 1)
    <3>1. ASSUME NEW i \in DOMAIN chan[a][b], NEW j \in DOMAIN chan[a][b], i < j,
                 chan[a][b][i].type = "TaskAnnounce", chan[a][b][j].type \in Ends,
                 chan[a][b][j].age >= k
          PROVE  EndBehind(chan'[a][b], k + 1)
      <4>1. /\ j \in DOMAIN chan'[a][b] /\ chan'[a][b][j].type \in Ends
            /\ chan'[a][b][j].age >= k + 1
        BY <2>0, <3>1
      <4>2. i \in DOMAIN chan'[a][b] /\ chan'[a][b][i].type = "TaskAnnounce"
        BY <1>1, <3>1
      <4> QED
        BY <3>1, <4>1, <4>2 DEF EndBehind
    <3> QED
      BY <3>1 DEF EndBehind
  <2>4. Settling(chan[a][b], k) => Settling(chan'[a][b], k + 1)
    <3>1. ASSUME Settling(chan[a][b], k), NEW i \in DOMAIN chan'[a][b],
                 chan'[a][b][i].type \notin Ends
          PROVE  chan'[a][b][i].age + MaxDelay >= k + 1
      <4>1. i \in DOMAIN chan[a][b] /\ chan[a][b][i].type \notin Ends
        BY <1>1, <3>1
      <4>2. chan[a][b][i].age + MaxDelay >= k /\ chan[a][b][i].age \in Nat
        BY <1>3, <3>1, <4>1 DEF Settling
      <4>3. chan'[a][b][i].age = chan[a][b][i].age + 1
        BY <1>1, <4>1
      <4> QED
        BY <4>2, <4>3, TimerAssumption
    <3> QED
      BY <3>1 DEF Settling
  <2> QED
    BY <2>1, <2>2, <2>3, <2>4
<1>6. \A types : \A a, b \in Node : Only(chan[a][b], types) => Only(chan'[a][b], types)
  BY <1>1 DEF Only
<1>7. ASSUME Unknown PROVE Unknown'
  BY <1>1, <1>2, <1>7 DEF Unknown
<1>8. ASSUME NEW k \in Nat, Announced(k) PROVE Announced(k + 1)' \/ KnownToAll'
  <2>1. \A a, b \in Node : Only(chan'[a][b], Opening)
    BY <1>6, <1>8 DEF Announced
  <2>2. CASE \E x \in Node : view[x].st = "none"
    <3>1. k < MaxDelay
      BY <1>5, <1>8, <2>2, FleetFacts DEF Announced
    <3>2. ASSUME NEW x \in Node
          PROVE  \/ view'[x].st = "none" /\ AnnounceComes(chan'[Gateway][x], k + 1)
                 \/ view'[x].st = "bidding" /\ view'[x].win + (k + 1) >= BidWindow
      <4>1. CASE view[x].st = "none" /\ AnnounceComes(chan[Gateway][x], k)
        BY <1>2, <1>5, <4>1, FleetFacts
      <4>2. CASE view[x].st = "bidding" /\ view[x].win + k >= BidWindow
        BY <1>2, <1>4, <4>2, TimerAssumption
      <4> QED
        BY <1>8, <4>1, <4>2 DEF Announced
    <3>3. view'[Gateway].st # "none" /\ budget'["announce"] = 0
      BY <1>2, <1>8, FleetFacts DEF Announced
    <3> QED
      BY <2>1, <3>1, <3>2, <3>3, TimerAssumption DEF Announced
  <2>3. CASE \A x \in Node : view[x].st # "none"
    <3>1. \A x \in Node : Running(view'[x])
      BY <1>2, <1>8, <2>3 DEF Announced, Running
    <3>2. \A a, b \in Node : Only(chan'[a][b], MsgType \ Ends)
      BY <2>1 DEF Only, Opening, MsgType, Ends
    <3> QED
      BY <1>2, <1>8, <3>1, <3>2 DEF Announced, KnownToAll
  <2> QED
    BY <2>2, <2>3
<1>9. ASSUME KnownToAll PROVE KnownToAll'
  <2>1. \A x \in Node : Running(view'[x])
    BY <1>2, <1>9 DEF KnownToAll, Running
  <2> QED
    BY <1>2, <1>6, <1>9, <2>1 DEF KnownToAll
<1>10. ASSUME NEW k \in Nat, Ended(k) PROVE Ended(k + 1)'
  <2>1. \A a, b \in Node : Settling(chan'[a][b], k + 1)
    BY <1>5, <1>10 DEF Ended
  <2>2. ASSUME NEW x \in Node
        PROVE  (Over(x, k + 1) \/ Told(x, k + 1) \/ Late(x, k + 1) \/ Gone(x, k + 1))'
    <3>1. CASE Over(x, k)
      <4>1. view'[x].fin <= k + 1
        BY <1>2, <1>4, <3>1 DEF Over
      <4> QED
        BY <1>2, <3>1, <4>1 DEF Over
    <3>2. CASE Told(x, k)
      BY <1>2, <1>5, <3>2 DEF Told, Running
    <3>3. CASE Late(x, k)
      BY <1>2, <1>5, <3>3, FleetFacts DEF Late
    <3>4. CASE Gone(x, k)
      BY <1>2, <3>4, TimerAssumption DEF Gone
    <3> QED
      BY <1>10, <3>1, <3>2, <3>3, <3>4 DEF Ended
  <2> QED
    BY <1>2, <1>10, <2>1, <2>2 DEF Ended
<1> QED
  BY <1>7, <1>8, <1>9, <1>10 DEF LifeOfTask

\* Once nothing is on its way and some node has finished the task, every node
\* has finished or forgotten it.
LEMMA QuietEnd ==
    ASSUME Whole, LifeOfTask, Silence, NEW n \in Node, view[n].st \in Finished
    PROVE  \A x \in Node : view[x].st \in Finished \/ view[x].st = "none"
<1>1. PICK k \in Nat : Ended(k)
  BY DEF LifeOfTask, Unknown, Announced, KnownToAll, Running, Finished
<1>2. \A x \in Node : ~Told(x, k) /\ ~Late(x, k)
  BY FleetFacts DEF Told, Late, Silence, EndComes, EndBehind
<1> QED
  BY <1>1, <1>2 DEF Ended, Over, Gone

\* A task that is finished at some node, when nothing is on its way any more, is
\* worked by nobody and taken by nobody: for every fleet, every costs, delays and
\* timers, every order of ticks, and every call of the operator and the robots.
THEOREM FinishedStopsAlways == Prompt /\ Spec => FinishedStops
<1> DEFINE I == Whole /\ PromptTimers /\ LifeOfTask
           A == Silence /\ (\E n \in alive : view[n].st \in Finished)
                    => SelfOwners = {} /\ SelfOwners' = {}
<1>1. Prompt /\ Init => I
  <2> SUFFICES ASSUME Prompt, Init PROVE Whole /\ PromptTimers /\ Unknown
    BY DEF LifeOfTask
  <2> QED
    BY DEF Prompt, PromptTimers, Init, Whole, Unknown, NoTask
<1>2. TypeOK /\ TypeOK' /\ I /\ [Next]_vars => I'
  <2> SUFFICES ASSUME TypeOK, TypeOK', Whole, PromptTimers, LifeOfTask, [Next]_vars
               PROVE  Whole' /\ LifeOfTask'
    BY DEF PromptTimers
  <2>1. CASE UNCHANGED vars
    BY <2>1, WholeStep DEF vars, LifeOfTask, Unknown, Announced, KnownToAll, Ended,
                           Over, Told, Late, Gone
  <2> QED
    BY <2>1, WholeStep, LifeReceive, LifeTick, LifeCall, LifeAdvance
<1>3. TypeOK /\ TypeOK' /\ I /\ I' /\ [Next]_vars => [A]_vars
  <2> SUFFICES ASSUME TypeOK, TypeOK', Whole, Whole', LifeOfTask, [Next]_vars,
                      Silence, NEW n \in alive, view[n].st \in Finished
               PROVE  SelfOwners = {} /\ SelfOwners' = {}
    OBVIOUS
  <2>1. n \in Node /\ \A a, b \in Node : chan[a][b] = <<>>
    BY DEF Whole, Silence
  <2>2. \A x \in Node : view[x].st \in Finished \/ view[x].st = "none"
    BY <2>1, QuietEnd
  <2>3. (\A x \in Robots : view'[x].st # "claimed") => SelfOwners' = {}
    BY DEF SelfOwners, SelfOwner, Owns
  <2>4. SelfOwners = {}
    BY <2>2, FleetFacts DEF SelfOwners, SelfOwner, Owns, Finished
  <2>5. \A x \in Node : ~Running(view[x]) /\ ~Owns(x, view[x])
    BY <2>2 DEF Running, Finished, Owns
  <2>6. ASSUME NEW x \in Node, NEW v \in View, NEW sent \in Messages,
               Moves(x, v, sent), v.st # "claimed"
        PROVE  SelfOwners' = {}
    <3>1. \A y \in Node : view'[y] = IF y = x THEN v ELSE view[y]
      BY <2>6, MovesChan
    <3> QED
      BY <2>2, <2>3, <2>6, <3>1, FleetFacts DEF Finished
  <2>7. CASE UNCHANGED vars
    BY <2>4, <2>7 DEF vars, SelfOwners, SelfOwner, Owns
  <2>8. ASSUME NEW x \in Node, Tick(x) PROVE SelfOwners' = {}
    <3>1. PICK v \in View, sent \in Messages : Moves(x, v, sent) /\ Ticks(view[x], v, sent)
      BY <2>8, TickLife
    <3>2. v.st # "claimed"
      BY <2>5, <3>1 DEF Ticks, Running, NoTask
    <3> QED
      BY <2>6, <3>1, <3>2
  <2>9. \A x \in Node : ~Receive(x)
    BY <2>1 DEF Receive, OnAnnounce, OnBid, OnClaim, OnLeaseRenewal, OnTaskEvent, Arrived
  <2>10. CASE \/ Announce \/ Reannounce
              \/ \E x \in Robots : Commit(x) \/ Complete(x) \/ Fail(x) \/ Withdraw(x)
              \/ \E x \in Node : Cancel(x)
    <3>1. PICK x \in Node, v \in View, sent \in Messages :
              /\ Moves(x, v, sent)
              /\ \/ Opens(x, view[x], v, sent)
                 \/ GoesOn(view[x], v, sent)
                 \/ Closes(x, view[x], v, sent)
      BY <2>10, CallLife
    <3>2. v.st # "claimed"
      BY <2>5, <3>1 DEF Opens, GoesOn, Closes, Finished
    <3> QED
      BY <2>4, <2>6, <3>1, <3>2
  <2>11. CASE Advance
    <3>1. \A x \in Node : view'[x].st = view[x].st
      BY <2>11, AdvanceChan
    <3> QED
      BY <2>2, <2>3, <2>4, <3>1, FleetFacts DEF Finished
  <2> QED
    BY <2>4, <2>7, <2>8, <2>9, <2>10, <2>11, WholeStep
<1> HIDE DEF I
<1>4. FinishedStops <=> [][A]_vars
  BY PTL DEF FinishedStops
<1> HIDE DEF A
<1> QED
  BY <1>1, <1>2, <1>3, <1>4, TypeCorrect, PTL DEF Spec

----------------------------------------------------------------------------
(* Robots that cannot hear each other are never both on the task *)

\* OneSideWorks is about the two sides of a split, and what decides it is when
\* the nodes of the side without the owner last heard of it.  What is preserved
\* is the life of the auction up to the split, where the network splits only
\* once everybody knows the owner: nobody knows the task, or it is known and
\* nobody has bid, or a round is under way whose best bidder w nobody has
\* missed, or w is about to take the task or has taken it, and every node
\* follows it or is about to hear of it.  After the split k counts the units.
Contents(q) == {q[i] : i \in DOMAIN q}
Way(a, b) == Contents(chan[a][b])
OnlyOnWay(types) == \A a, b \in Node : \A msg \in Way(a, b) : msg.type \in types
Comes(a, x, type) == \E msg \in Way(a, x) : msg.type = type
BidComes(x) == \E a \in Node : Comes(a, x, "Bid")
ClaimComes(w, c, x) == \E msg \in Way(w, x) : msg.type \in Loud /\ msg.cost = c
Calm == Loud \union {"TaskAnnounce", "Bid"}

\* The view v, or anything that is known or under way, has robot o at the cost b.
Price == Costs \union {Infinity, CommittedCost}
Tells(v, o, b) ==
    \/ o \in Robots /\ b # Infinity /\ v.bids[o] = b
    \/ v.st = "claimed" /\ v.owner = o /\ v.cost = b
Says(o, b) ==
    \/ \E x \in Node : Tells(view[x], o, b)
    \/ o \in Node /\ \E x \in Node : \E msg \in Way(o, x) :
                         msg.type # "TaskAnnounce" /\ msg.cost = b
OwnBid(o, b) ==
    /\ o \in Robots /\ b # Infinity
    /\ view[o].st = "bidding" /\ view[o].bids[o] = b
Honest == \A o \in Node \union {NoOwner}, b \in Price : Says(o, b) => OwnBid(o, b)
Beaten(w, c, o, b) == IF o = w THEN b = c ELSE Beats(c, w, b, o)
AllBeaten(w, c) ==
    \A o \in Node \union {NoOwner}, b \in Price :
        Says(o, b) => o \in Robots /\ Beaten(w, c, o, b)

\* Nobody has bid.
Untold ==
    /\ \A x \in Node : view[x].st = "none" /\ Bidders(view[x]) = {}
    /\ \A a, b \in Node : Way(a, b) = {}
Waits(x) == x # Gateway /\ view[x].st = "none" /\ Comes(Gateway, x, "TaskAnnounce")
Lull ==
    /\ \A x \in Node : Waits(x) \/ view[x].st \in {"open", "bidding"}
    /\ \A x \in Node : Bidders(view[x]) = {}
    /\ OnlyOnWay({"TaskAnnounce"})

\* w's window closes in m units, and nobody else's bid beats w's.
InRound(m, x) ==
    /\ view[x].st = "bidding" /\ view[x].win <= m
    /\ x \in Bidders(view[x]) => view[x].win = m
    /\ \/ view[x].win = m
       \/ Bidders(view[x]) # {}
       \/ m = BidWindow /\ BidComes(x)
Early(m, x) ==
    view[x].st = "claimed" /\ view[x].owner # x /\ view[x].renew + m <= BidWindow
Round(m, w, c) ==
    /\ OwnBid(w, c) /\ view[w].win = m
    /\ Honest
    /\ AllBeaten(w, c)
    /\ OnlyOnWay(IF m = BidWindow THEN {"TaskAnnounce", "Bid"} ELSE {"TaskAnnounce"})
    /\ \A x \in Node : \/ m = BidWindow /\ Waits(x)
                       \/ m = BidWindow /\ view[x].st = "open" /\ BidComes(x)
                       \/ InRound(m, x)
                       \/ Early(m, x)

\* w takes the task in its next tick, or has taken it.
Closing(w, c) == OwnBid(w, c) /\ view[w].win = 0 /\ w \notin ticked
Follows(w, c, x) ==
    /\ view[x].st = "claimed" /\ view[x].owner = w /\ view[x].renew <= BidWindow
    /\ \/ view[x].renew = 0
       \/ Closing(w, c)
       \/ ClaimComes(w, c, x)
       \/ w \notin ticked /\ view[x].renew <= 1
WillHear(w, c, x) ==
    /\ Closing(w, c) \/ ClaimComes(w, c, x)
    /\ \/ view[x].st = "bidding" /\ view[x].win = 0
       \/ /\ view[x].st = "claimed" /\ view[x].renew <= BidWindow
          /\ view[x].owner = x => x \in ticked
       \/ view[x].st = "open" /\ x \in ticked
Decided(w, c) ==
    /\ \/ Closing(w, c) /\ OnlyOnWay({"TaskAnnounce", "Claim"})
       \/ /\ Owns(w, view[w]) /\ view[w].cost = c
          /\ OnlyOnWay(Loud \union {"TaskAnnounce"})
    /\ AllBeaten(w, c)
    /\ \A x \in Node \ {w} : Follows(w, c, x) \/ WillHear(w, c, x)

\* Every peer that was heard lately was heard in this unit or in the last one.
Lately ==
    \A n \in Node : \A p \in Node \ {n} :
        /\ p \in ticked => heard[n][p] = 0 /\ quiet[n] = 0
        /\ heard[n][p] <= 1 \/ heard[n][p] > StatusTimeout
        /\ quiet[n] <= 1
Engaged(n) == (view[n].st = "bidding" /\ n \in Bidders(view[n])) \/ Owns(n, view[n])
Connecting == blocked = {} /\ Lately /\ \A n \in Robots : Engaged(n) => HasQuorum(heard[n], n)
Phase ==
    \/ Untold
    \/ Lull
    \/ \E m \in 1 .. BidWindow, w \in Robots, c \in Costs : Round(m, w, c)
    \/ \E w \in Robots, c \in Costs : Decided(w, c)
Together == Connecting /\ Phase

\* S and the other nodes have not heard each other for k units.  Until the owner
\* has stopped, the side without it follows a robot of the other side.
Waiting(S, k) ==
    \A x \in Node \ S :
        /\ view[x].st = "claimed" /\ view[x].owner # x /\ view[x].renew <= k + BidWindow
        /\ \A a \in Node : \A msg \in Way(a, x) : msg.type \in Calm
Apart(S, k) ==
    /\ \A a, b \in Node : {a, b} \in blocked <=> ((a \in S) # (b \in S))
    /\ \A a, b \in Node : (a \in S) # (b \in S) =>
           Way(a, b) = {} /\ (heard[a][b] >= k \/ heard[a][b] = HeardMax)
    /\ k <= TaskLease + 1 => Waiting(S, k)
Parted ==
    /\ budget["split"] = 0
    /\ blocked = {} \/ \E S \in SUBSET Node, k \in Nat : Apart(S, k)

Uncommitted == \A n \in Robots : Owns(n, view[n]) => ~Committed(view[n])
Uneventful ==
    /\ alive = Node
    /\ \A e \in Events \ {"announce", "reannounce", "split"} : budget[e] = 0
    /\ budget["split"] <= 1
OneSide == Uneventful /\ Uncommitted /\ (Together \/ Parted)

\* The network splits only once everybody knows the owner; a message is heard in
\* the unit it is sent in; a bid window and a status timeout are at least one
\* unit, and the margin of a reclaim covers the window and the tick that notices
\* its end (a window of 1 s and a margin of 2 s in the code).
SplitTimers ==
    /\ ~SplitAnytime
    /\ MaxDelay = 0
    /\ BidWindow >= 1
    /\ StatusTimeout >= 1
    /\ Margin >= BidWindow + 1
\* It splits at most once, and nothing else happens to the task.
OneSplit ==
    /\ \A e \in Events \ {"announce", "reannounce", "split"} : Budget[e] = 0
    /\ Budget["split"] <= 1
    /\ SplitTimers

LEMMA ContentsFacts ==
    ASSUME NEW q \in Messages, NEW out \in Messages
    PROVE  /\ Contents(q) \subseteq Message
           /\ Contents(q \o out) = Contents(q) \union Contents(out)
           /\ q # <<>> => /\ Head(q) \in Contents(q)
                          /\ Contents(Tail(q)) \subseteq Contents(q)
                          /\ Contents(q) \subseteq Contents(Tail(q)) \union {Head(q)}
           /\ q = <<>> <=> Contents(q) = {}
<1>1. Contents(q) \subseteq Message
  BY DEF Contents, Messages
<1>2. Contents(q \o out) = Contents(q) \union Contents(out)
  <2>1. \A i \in DOMAIN (q \o out) : \/ i \in DOMAIN q /\ (q \o out)[i] = q[i]
                                     \/ /\ i - Len(q) \in DOMAIN out
                                        /\ (q \o out)[i] = out[i - Len(q)]
    BY ConcatEntries
  <2>2. /\ \A i \in DOMAIN q : i \in DOMAIN (q \o out) /\ (q \o out)[i] = q[i]
        /\ \A i \in DOMAIN out : /\ Len(q) + i \in DOMAIN (q \o out)
                                 /\ (q \o out)[Len(q) + i] = out[i]
    BY ConcatEntries
  <2> QED
    BY <2>1, <2>2 DEF Contents
<1>3. ASSUME q # <<>>
      PROVE  /\ Head(q) \in Contents(q)
             /\ Contents(Tail(q)) \subseteq Contents(q)
             /\ Contents(q) \subseteq Contents(Tail(q)) \union {Head(q)}
  <2>1. /\ 1 \in DOMAIN q /\ Head(q) = q[1]
        /\ \A i \in DOMAIN Tail(q) : i + 1 \in DOMAIN q /\ Tail(q)[i] = q[i + 1]
    BY <1>3, TailEntries
  <2>2. \A i \in DOMAIN q : i = 1 \/ (i - 1 \in DOMAIN Tail(q) /\ q[i] = Tail(q)[i - 1])
    <3>1. /\ Len(q) \in Nat /\ DOMAIN q = 1 .. Len(q)
          /\ Tail(q) \in Seq(Message) /\ Len(Tail(q)) = Len(q) - 1
      BY <1>3, HeadTailProperties, LenProperties DEF Messages
    <3>2. DOMAIN Tail(q) = 1 .. Len(q) - 1
      BY <3>1, LenProperties
    <3>3. \A i \in 2 .. Len(q) : i - 1 \in DOMAIN Tail(q)
      BY <3>1, <3>2
    <3> QED
      BY <2>1, <3>1, <3>3
  <2> QED
    BY <2>1, <2>2 DEF Contents
<1>4. q = <<>> <=> Contents(q) = {}
  <2>1. q = <<>> => Contents(q) = {}
    BY EmptySeq DEF Contents
  <2> QED
    BY <1>3, <2>1
<1> QED
  BY <1>1, <1>2, <1>3, <1>4

LEMMA NewContents ==
    /\ Contents(<<>>) = {}
    /\ \A msg : Contents(<<msg>>) = {msg}
BY DEF Contents

\* What node n puts on the way from a to b when it publishes out.
Sends(n, out, a, b) == IF a = n /\ b # n /\ Linked(n, b) THEN Contents(out) ELSE {}

LEMMA PublishWay ==
    ASSUME NEW ch \in [Node -> [Node -> Messages]], NEW n \in Node, NEW out \in Messages
    PROVE  \A a, b \in Node :
               Contents(Publish(ch, n, out)[a][b]) = Contents(ch[a][b]) \union Sends(n, out, a, b)
<1> SUFFICES ASSUME NEW a \in Node, NEW b \in Node
             PROVE  Contents(Publish(ch, n, out)[a][b])
                        = Contents(ch[a][b]) \union Sends(n, out, a, b)
  OBVIOUS
<1>1. Publish(ch, n, out)[a][b] =
          IF a = n /\ b # n /\ Linked(n, b) THEN ch[a][b] \o out ELSE ch[a][b]
  BY DEF Publish
<1>2. Contents(ch[a][b] \o out) = Contents(ch[a][b]) \union Contents(out)
  BY ContentsFacts
<1> QED
  BY <1>1, <1>2 DEF Sends

\* The views and what is on the way after a message is heard.
LEMMA HandledWay ==
    ASSUME TypeOK, NEW n \in Node, NEW s \in Node, s # n, chan[s][n] # <<>>,
           NEW v \in View, NEW out \in Messages, Handled(n, s, v, out)
    PROVE  /\ \A x \in Node : view'[x] = IF x = n THEN v ELSE view[x]
           /\ \A a, b \in Node : a # s \/ b # n =>
                  Way(a, b)' = Way(a, b) \union Sends(n, out, a, b)
           /\ Way(s, n)' \subseteq Way(s, n)
           /\ Way(s, n) \subseteq Way(s, n)' \union {Head(chan[s][n])}
           /\ Head(chan[s][n]) \in Way(s, n)
<1>0. \A a, b \in Node : chan[a][b] \in Messages
  BY DEF TypeOK, Messages
<1>1. PICK ch \in [Node -> [Node -> Messages]] : ch = [chan EXCEPT ![s][n] = Tail(@)]
  <2>1. Tail(chan[s][n]) \in Messages
    BY <1>0, TailEntries
  <2> QED
    BY <2>1 DEF Messages, TypeOK
<1>2. /\ \A a, b \in Node : a # s \/ b # n => ch[a][b] = chan[a][b]
      /\ ch[s][n] = Tail(chan[s][n])
  BY <1>1 DEF TypeOK
<1>3. chan' = Publish(ch, n, out)
  BY <1>1 DEF Handled
<1>4. \A a, b \in Node :
          Contents(chan'[a][b]) = Contents(ch[a][b]) \union Sends(n, out, a, b)
  <2>1. \A a, b \in Node :
            Contents(Publish(ch, n, out)[a][b]) = Contents(ch[a][b]) \union Sends(n, out, a, b)
    BY PublishWay
  <2> QED
    BY <1>3, <2>1
<1>5. Sends(n, out, s, n) = {}
  BY DEF Sends
<1>6. /\ Head(chan[s][n]) \in Contents(chan[s][n])
      /\ Contents(Tail(chan[s][n])) \subseteq Contents(chan[s][n])
      /\ Contents(chan[s][n]) \subseteq Contents(Tail(chan[s][n])) \union {Head(chan[s][n])}
  BY <1>0, ContentsFacts
<1>7. \A x \in Node : view'[x] = IF x = n THEN v ELSE view[x]
  BY DEF Handled, TypeOK
<1> QED
  BY <1>2, <1>4, <1>5, <1>6, <1>7 DEF Way

\* The views and what is on the way after any other step of a node.
LEMMA MovesWay ==
    ASSUME TypeOK, NEW n \in Node, NEW v \in View, NEW sent \in Messages, Moves(n, v, sent)
    PROVE  /\ \A x \in Node : view'[x] = IF x = n THEN v ELSE view[x]
           /\ \A a, b \in Node : Way(a, b)' = Way(a, b) \union Sends(n, sent, a, b)
<1>1. chan \in [Node -> [Node -> Messages]]
  BY DEF TypeOK, Messages
<1>2. \A x \in Node : view'[x] = IF x = n THEN v ELSE view[x]
  BY DEF Moves, TypeOK
<1>3. \A a, b \in Node :
          Contents(Publish(chan, n, sent)[a][b]) = Contents(chan[a][b]) \union Sends(n, sent, a, b)
  BY <1>1, PublishWay
<1>4. chan' = Publish(chan, n, sent)
  BY DEF Moves
<1> QED
  BY <1>2, <1>3, <1>4 DEF Way

\* What a node makes of a message that only tells of the round or of its owner.
Unmoved(u, v) ==
    /\ v.st = u.st /\ v.owner = u.owner /\ v.cost = u.cost
    /\ v.bids = u.bids /\ v.win = u.win /\ v.renew = u.renew
Cheaper(n, u, s, c) == u.st = "bidding" /\ n \in Bidders(u) /\ Beats(u.bids[n], n, c, s)
\* Nothing changes for a node with the view u that hears s say msg.
Ignores(u, s, msg) ==
    /\ msg.type = "TaskAnnounce" => u.st # "none"
    /\ msg.type = "Bid" => u.st \notin {"open", "bidding"}
    /\ msg.type \in Loud =>
           \/ u.st \in Finished
           \/ u.st = "claimed" /\ u.owner # s /\ ~Beats(msg.cost, s, u.cost, u.owner)
\* Node n opens a round with the bid c, and a message has told it of s's bid.
Opened(n, v, c, row) ==
    /\ v.st = "bidding" /\ v.win = BidWindow
    /\ c # Infinity => n \in Robots /\ HasQuorum(row, n)
Joins(n, u, s, msg, v, c, row) ==
    /\ \/ u.st = "none" /\ msg.type = "TaskAnnounce"
       \/ u.st = "open" /\ msg.type = "Bid"
    /\ Opened(n, v, c, row)
    /\ \A r \in Robots : v.bids[r] = IF r = n THEN c
                                     ELSE IF msg.type = "Bid" /\ r = s THEN msg.cost
                                     ELSE Infinity
Records(n, u, s, msg, v) ==
    /\ msg.type = "Bid" \/ (msg.type = "Claim" /\ Cheaper(n, u, s, msg.cost))
    /\ u.st = "bidding" /\ v.st = "bidding" /\ v.win = u.win
    /\ \A r \in Robots : v.bids[r] = IF r = s THEN msg.cost ELSE u.bids[r]
Heeded(n, u, s, msg, v) ==
    /\ msg.type \in Loud
    /\ msg.type = "Claim" => ~Cheaper(n, u, s, msg.cost)
    /\ u.st = "claimed" => u.owner = s \/ Beats(msg.cost, s, u.cost, u.owner)
    /\ v.st = "claimed" /\ v.owner = s /\ v.cost = msg.cost /\ v.renew = 0
    /\ \A r \in Robots : v.bids[r] = Infinity
Makes(n, u, s, msg, v, out, row) ==
    \/ Unmoved(u, v) /\ out = <<>> /\ Ignores(u, s, msg)
    \/ \E c \in BidCost : Joins(n, u, s, msg, v, c, row) /\ out = BidOut(c)
    \/ Records(n, u, s, msg, v) /\ out = <<>>
    \/ Heeded(n, u, s, msg, v) /\ out = <<>>

LEMMA OpenedRound ==
    ASSUME NEW n \in Node, NEW v \in View, NEW row, NEW iso, NEW c \in BidChoices(n, v, row, iso)
    PROVE  /\ c \in BidCost
           /\ OpenBidding(n, v, c) \in View
           /\ Opened(n, OpenBidding(n, v, c), c, row)
           /\ \A r \in Robots : OpenBidding(n, v, c).bids[r] = IF r = n THEN c ELSE Infinity
<1>1. c \in BidCost
  BY BidChoicesType
<1>2. c # Infinity => n \in Robots /\ HasQuorum(row, n)
  BY DEF BidChoices, CanTakeNew, Node
<1>3. \A r \in Robots : OpenBidding(n, v, c).bids[r] = IF r = n THEN c ELSE Infinity
  BY DEF OpenBidding, View
<1> QED
  BY <1>1, <1>2, <1>3, OpenBiddingWindow DEF Opened

LEMMA HeedsClaim ==
    ASSUME NEW u \in View, NEW s \in Node, NEW c \in BidCost \union {CommittedCost},
           NEW w, w = Known(u)
    PROVE  /\ AssertOwner(w, s, c) \in View
           /\ \/ /\ Unmoved(u, AssertOwner(w, s, c))
                 /\ \/ u.st \in Finished
                    \/ u.st = "claimed" /\ u.owner # s /\ ~Beats(c, s, u.cost, u.owner)
              \/ /\ u.st = "claimed" => u.owner = s \/ Beats(c, s, u.cost, u.owner)
                 /\ AssertOwner(w, s, c).st = "claimed" /\ AssertOwner(w, s, c).owner = s
                 /\ AssertOwner(w, s, c).cost = c /\ AssertOwner(w, s, c).renew = 0
                 /\ \A r \in Robots : AssertOwner(w, s, c).bids[r] = Infinity
<1>1. w \in View
  BY KnownType
<1>2. AssertOwner(w, s, c) \in View
  BY <1>1, AssertOwnerType
<1>3. \/ w = u /\ u.st # "none"
      \/ u.st = "none" /\ w.st = "open"
  BY NoTaskType DEF Known, View
<1>4. CASE \/ w.st \in Finished
           \/ w.st = "claimed" /\ w.owner # s /\ ~Beats(c, s, w.cost, w.owner)
  <2>1. AssertOwner(w, s, c) = w
    BY <1>4 DEF AssertOwner
  <2>2. w = u
    BY <1>3, <1>4 DEF Finished
  <2> QED
    BY <1>2, <1>4, <2>1, <2>2 DEF Unmoved
<1>5. CASE ~ \/ w.st \in Finished
             \/ w.st = "claimed" /\ w.owner # s /\ ~Beats(c, s, w.cost, w.owner)
  <2>1. AssertOwner(w, s, c) =
            [w EXCEPT !.st = "claimed", !.owner = s, !.cost = c, !.renew = 0, !.win = 0,
                      !.rebid = NoTimer, !.bids = NoBids, !.missing = FALSE, !.waiting = FALSE]
    BY <1>5 DEF AssertOwner
  <2>2. /\ AssertOwner(w, s, c).st = "claimed" /\ AssertOwner(w, s, c).owner = s
        /\ AssertOwner(w, s, c).cost = c /\ AssertOwner(w, s, c).renew = 0
        /\ AssertOwner(w, s, c).bids = NoBids
    BY <1>1, <2>1 DEF View
  <2>3. \A r \in Robots : NoBids[r] = Infinity
    BY DEF NoBids
  <2>4. u.st = "claimed" => u.owner = s \/ Beats(c, s, u.cost, u.owner)
    BY <1>3, <1>5
  <2> QED
    BY <1>2, <2>2, <2>3, <2>4
<1> QED
  BY <1>4, <1>5

\* A message of the round or of its owner, heard by node n.
LEMMA ReceiveMakes ==
    ASSUME TypeOK, NEW n \in Node, Receive(n),
           \A a \in Node : \A msg \in Way(a, n) : msg.type \in Calm
    PROVE  \E s \in Node, v \in View, out \in Messages :
               /\ s # n /\ chan[s][n] # <<>>
               /\ Handled(n, s, v, out)
               /\ Makes(n, view[n], s, Head(chan[s][n]), v, out, Hear(n, s)[n])
<1>0. PICK u \in View : u = view[n]
  BY DEF TypeOK
<1>1. PICK s \in Node : \/ OnAnnounce(n, s)
                       \/ OnBid(n, s)
                       \/ OnClaim(n, s)
                       \/ OnLeaseRenewal(n, s)
                       \/ OnTaskEvent(n, s)
  BY DEF Receive
<1>2. s # n /\ chan[s][n] # <<>>
  BY <1>1 DEF OnAnnounce, OnBid, OnClaim, OnLeaseRenewal, OnTaskEvent, Arrived
<1>3. PICK msg \in Message : msg = Head(chan[s][n])
  BY <1>2, HeadTailProperties DEF TypeOK
<1>4. /\ msg.type \in Calm
      /\ msg.cost \in BidCost \union {CommittedCost}
      /\ msg.type = "Bid" => msg.cost \in BidCost
  <2>1. chan[s][n] \in Messages
    BY DEF TypeOK, Messages
  <2>2. msg \in Way(s, n)
    BY <1>2, <1>3, <2>1, ContentsFacts DEF Way
  <2> QED
    BY <2>2 DEF Message, BidCost
<1> DEFINE row == Hear(n, s)[n]
           iso == isolated[n]
           Good(v, out) == Makes(n, u, s, msg, v, out, row)
<1> SUFFICES \E v \in View, out \in Messages : Handled(n, s, v, out) /\ Good(v, out)
  BY <1>0, <1>2, <1>3
<1>5. <<>> \in Messages
  BY DEF Messages
<1>6. CASE OnAnnounce(n, s)
  <2>1. msg.type = "TaskAnnounce"
    BY <1>3, <1>6 DEF OnAnnounce, Arrived
  <2>2. CASE u.st = "none"
    <3>1. PICK w \in View : w = [NoTask EXCEPT !.known = TRUE]
      BY NoTaskType DEF View
    <3>2. PICK c \in BidChoices(n, w, row, iso) :
              Handled(n, s, OpenBidding(n, w, c), BidOut(c))
      BY <1>0, <1>6, <2>2, <3>1 DEF OnAnnounce
    <3>3. /\ c \in BidCost
          /\ OpenBidding(n, w, c) \in View
          /\ Opened(n, OpenBidding(n, w, c), c, row)
          /\ \A r \in Robots : OpenBidding(n, w, c).bids[r] = IF r = n THEN c ELSE Infinity
      BY OpenedRound
    <3>4. Joins(n, u, s, msg, OpenBidding(n, w, c), c, row)
      BY <2>1, <2>2, <3>3 DEF Joins
    <3>5. Good(OpenBidding(n, w, c), BidOut(c)) /\ BidOut(c) \in Messages
      BY <3>3, <3>4, BidOutType DEF Makes
    <3> HIDE DEF Good
    <3> QED
      BY <3>2, <3>3, <3>5
  <2>3. CASE u.st # "none"
    <3>1. PICK v \in View : v = [u EXCEPT !.known = TRUE]
      BY DEF View
    <3>2. Handled(n, s, v, <<>>)
      BY <1>0, <1>6, <2>3, <3>1 DEF OnAnnounce
    <3>3. Unmoved(u, v) /\ Ignores(u, s, msg)
      BY <2>1, <2>3, <3>1 DEF Unmoved, Ignores, Loud, View
    <3> QED
      BY <1>5, <3>2, <3>3 DEF Makes
  <2> QED
    BY <2>2, <2>3
<1>7. CASE OnBid(n, s)
  <2>1. msg.type = "Bid"
    BY <1>3, <1>7 DEF OnBid, Arrived
  <2>2. CASE u.st = "open"
    <3>1. PICK c \in BidChoices(n, u, row, iso) :
              Handled(n, s, [OpenBidding(n, u, c) EXCEPT !.bids[s] = msg.cost], BidOut(c))
      BY <1>0, <1>3, <1>7, <2>2 DEF OnBid
    <3>2. /\ c \in BidCost
          /\ OpenBidding(n, u, c) \in View
          /\ Opened(n, OpenBidding(n, u, c), c, row)
          /\ \A r \in Robots : OpenBidding(n, u, c).bids[r] = IF r = n THEN c ELSE Infinity
      BY OpenedRound
    <3>3. PICK w \in View : w = OpenBidding(n, u, c)
      BY <3>2
    <3>4. PICK v \in View : v = [w EXCEPT !.bids[s] = msg.cost]
      BY <1>4, <2>1, BidRecordType
    <3>5. /\ v.st = w.st /\ v.win = w.win
          /\ \A r \in Robots : v.bids[r] = IF r = s THEN msg.cost ELSE w.bids[r]
      BY <3>4 DEF View
    <3>6. Opened(n, v, c, row)
      BY <3>2, <3>3, <3>5 DEF Opened
    <3>7. Joins(n, u, s, msg, v, c, row)
      BY <1>2, <2>1, <2>2, <3>2, <3>3, <3>5, <3>6 DEF Joins
    <3>8. Good(v, BidOut(c)) /\ BidOut(c) \in Messages
      BY <3>2, <3>7, BidOutType DEF Makes
    <3> HIDE DEF Good
    <3> QED
      BY <3>1, <3>3, <3>4, <3>8
  <2>3. CASE u.st = "bidding"
    <3>1. PICK v \in View : v = [u EXCEPT !.bids[s] = msg.cost]
      BY <1>4, <2>1, BidRecordType
    <3>2. Handled(n, s, v, <<>>)
      BY <1>0, <1>3, <1>7, <2>3, <3>1 DEF OnBid
    <3>3. Records(n, u, s, msg, v)
      BY <2>1, <2>3, <3>1 DEF Records, View
    <3> QED
      BY <1>5, <3>2, <3>3 DEF Makes
  <2>4. CASE u.st \notin {"open", "bidding"}
    <3>1. Handled(n, s, u, <<>>)
      BY <1>0, <1>7, <2>4 DEF OnBid
    <3>2. Unmoved(u, u) /\ Ignores(u, s, msg)
      BY <2>1, <2>4 DEF Unmoved, Ignores, Loud
    <3> QED
      BY <1>5, <3>1, <3>2 DEF Makes
  <2> QED
    BY <2>2, <2>3, <2>4
<1>8. PICK w \in View : w = Known(u)
  BY KnownType
<1>9. PICK x \in View : x = AssertOwner(w, s, msg.cost)
  BY <1>4, <1>8, HeedsClaim
<1>10. \/ Unmoved(u, x) /\ (msg.type \in Loud => Ignores(u, s, msg))
       \/ msg.type \in Loud /\ (msg.type = "Claim" => ~Cheaper(n, u, s, msg.cost)) =>
              Heeded(n, u, s, msg, x)
  <2>1. \/ /\ Unmoved(u, x)
           /\ \/ u.st \in Finished
              \/ u.st = "claimed" /\ u.owner # s /\ ~Beats(msg.cost, s, u.cost, u.owner)
        \/ /\ u.st = "claimed" => u.owner = s \/ Beats(msg.cost, s, u.cost, u.owner)
           /\ x.st = "claimed" /\ x.owner = s /\ x.cost = msg.cost /\ x.renew = 0
           /\ \A r \in Robots : x.bids[r] = Infinity
    BY <1>4, <1>8, <1>9, HeedsClaim
  <2> QED
    BY <2>1 DEF Ignores, Heeded, Loud
<1>11. CASE OnClaim(n, s)
  <2>1. msg.type = "Claim"
    BY <1>3, <1>11 DEF OnClaim, Arrived
  <2>2. CASE Cheaper(n, u, s, msg.cost)
    <3>1. w = u /\ msg.cost \in BidCost
      <4>1. w = u
        BY <1>8, <2>2 DEF Known, Cheaper
      <4>2. u.bids[n] \in Nat
        BY <2>2, CostAssumption DEF Cheaper, View, Bidders
      <4>3. msg.cost # CommittedCost
        BY <2>2, <4>2 DEF Cheaper, Beats, CommittedCost
      <4> QED
        BY <1>4, <4>1, <4>3
    <3>2. PICK v \in View : v = [u EXCEPT !.bids[s] = msg.cost]
      BY <3>1, BidRecordType
    <3>3. Handled(n, s, v, <<>>)
      BY <1>0, <1>3, <1>8, <1>11, <2>2, <3>1, <3>2 DEF OnClaim, Cheaper
    <3>4. Records(n, u, s, msg, v)
      BY <2>1, <2>2, <3>2 DEF Records, View, Cheaper
    <3> QED
      BY <1>5, <3>3, <3>4 DEF Makes
  <2>3. CASE ~Cheaper(n, u, s, msg.cost)
    <3>1. Handled(n, s, x, <<>>)
      <4>1. w.st = "bidding" => w = u
        BY <1>8, NoTaskType DEF Known, View
      <4>2. ~(w.st = "bidding" /\ n \in Bidders(w) /\ Beats(w.bids[n], n, msg.cost, s))
        BY <2>3, <4>1 DEF Cheaper
      <4> QED
        BY <1>0, <1>3, <1>8, <1>9, <1>11, <4>2 DEF OnClaim
    <3>2. (Unmoved(u, x) /\ Ignores(u, s, msg)) \/ Heeded(n, u, s, msg, x)
      BY <1>10, <2>1, <2>3 DEF Loud
    <3> QED
      BY <1>5, <3>1, <3>2 DEF Makes
  <2> QED
    BY <2>2, <2>3
<1>12. CASE OnLeaseRenewal(n, s)
  <2>1. msg.type = "LeaseBeacon"
    BY <1>3, <1>12 DEF OnLeaseRenewal, Arrived
  <2>2. Handled(n, s, x, <<>>)
    BY <1>0, <1>3, <1>8, <1>9, <1>12 DEF OnLeaseRenewal
  <2>3. (Unmoved(u, x) /\ Ignores(u, s, msg)) \/ Heeded(n, u, s, msg, x)
    BY <1>10, <2>1 DEF Loud
  <2> QED
    BY <1>5, <2>2, <2>3 DEF Makes
<1>13. ~OnTaskEvent(n, s)
  BY <1>3, <1>4 DEF OnTaskEvent, Arrived, Calm, Loud
<1> QED
  BY <1>1, <1>6, <1>7, <1>11, <1>12, <1>13

\* What a tick makes of the view u, for a node that need not stop and whose
\* owner is not silent.
NothingDue(n, u, v, sent) ==
    /\ Unmoved(u, v)
    /\ Contents(sent) = IF Owns(n, u) THEN {Msg("LeaseBeacon", u.cost)} ELSE {}
    /\ ~(u.st = "bidding" /\ u.win = 0)
NobodyBid(u, v, sent) ==
    /\ u.st = "bidding" /\ u.win = 0 /\ Bidders(u) = {}
    /\ v.st = "open" /\ v.bids = u.bids
    /\ Contents(sent) = {}
Awards(n, u, v, sent, r) ==
    /\ u.st = "bidding" /\ u.win = 0 /\ r \in Bidders(u)
    /\ \A o \in Bidders(u) \ {r} : Beats(u.bids[r], r, u.bids[o], o)
    /\ v.st = "claimed" /\ v.owner = r /\ v.cost = u.bids[r] /\ v.renew = 0
    /\ \A o \in Robots : v.bids[o] = Infinity
    /\ Contents(sent) = IF r = n THEN {Msg("Claim", v.cost)} ELSE {}
Rebids(n, u, v, sent, c) ==
    /\ u.st = "open"
    /\ Opened(n, v, c, heard[n])
    /\ \A r \in Robots : v.bids[r] = IF r = n THEN c ELSE Infinity
    /\ Contents(sent) = Contents(BidOut(c))
Turns(n, u, v, sent) ==
    \/ NothingDue(n, u, v, sent)
    \/ NobodyBid(u, v, sent)
    \/ \E r \in Robots : Awards(n, u, v, sent, r)
    \/ \E c \in BidCost : Rebids(n, u, v, sent, c)

LEMMA TickTurns ==
    ASSUME TypeOK, NEW n \in Node, Tick(n), budget["full"] = 0, view[n].st \notin Finished,
           ~MustStop(n), ~Expired(n), Won(n) => QuorumNow(n)
    PROVE  /\ n \notin ticked /\ ticked' = ticked \union {n}
           /\ budget' = budget
           /\ \E v \in View, sent \in Messages :
                  /\ Moves(n, v, sent)
                  /\ Turns(n, view[n], v, sent)
<1>0. PICK u \in View : u = view[n]
  BY DEF TypeOK
<1>2. ~Spend("full")
  BY DEF Spend
<1>3. /\ n \notin ticked
      /\ budget' = budget
      /\ NoWinner(n) \/ TakeOwner(n) \/ Rebid(n) \/ IdleTick(n)
  BY <1>2 DEF Tick, LeaseLost, OwnerMissing, ReclaimBlocked, Reclaim, Decline
<1>4. \A v, out : Ticked(n, v, out) => ticked' = ticked \union {n}
  BY DEF Ticked
<1>5. \A v \in View, out \in Messages : Ticked(n, v, out) /\ v.st \notin Finished =>
          /\ Moves(n, v, Beacon(n) \o out)
          /\ Beacon(n) \o out \in Messages
          /\ Contents(Beacon(n) \o out) = Contents(Beacon(n)) \union Contents(out)
  <2> SUFFICES ASSUME NEW v \in View, NEW out \in Messages, Ticked(n, v, out), v.st \notin Finished
               PROVE  /\ Moves(n, v, Beacon(n) \o out)
                      /\ Beacon(n) \o out \in Messages
                      /\ Contents(Beacon(n) \o out) = Contents(Beacon(n)) \union Contents(out)
    OBVIOUS
  <2>1. Beacon(n) \in Messages
    BY <1>0, MessageOutType DEF Beacon, MsgType, View, BidCost, Messages
  <2>2. Beacon(n) \o out \in Messages
    BY <2>1, ConcatProperties DEF Messages
  <2>3. Moves(n, v, Beacon(n) \o out)
    BY DEF Ticked, Moves
  <2> QED
    BY <2>1, <2>2, <2>3, ContentsFacts
<1>6. Contents(Beacon(n)) = IF Owns(n, u) THEN {Msg("LeaseBeacon", u.cost)} ELSE {}
  BY <1>0, NewContents DEF Beacon
<1> DEFINE Good(v, sent) == Moves(n, v, sent) /\ Turns(n, u, v, sent)
<1> SUFFICES /\ ticked' = ticked \union {n}
             /\ \E v \in View, sent \in Messages : Good(v, sent)
  BY <1>0, <1>3
<1>7. <<>> \in Messages /\ Contents(<<>>) = {}
  BY NewContents DEF Messages
<1>8. CASE NoWinner(n)
  <2>1. PICK d \in 1 .. RebidDelay : Ticked(n, [u EXCEPT !.st = "open", !.rebid = d], <<>>)
    BY <1>0, <1>8 DEF NoWinner
  <2>2. d \in 0 .. RebidDelay
    BY FieldFacts
  <2>3. PICK v \in View : v = [u EXCEPT !.st = "open", !.rebid = d]
    BY <2>2 DEF View, TaskState
  <2>4. v.st = "open" /\ v.bids = u.bids
    BY <2>3 DEF View
  <2>5. u.st = "bidding" /\ u.win = 0 /\ Bidders(u) = {} /\ ~Owns(n, u)
    BY <1>0, <1>8 DEF NoWinner, WindowOver, Owns
  <2>6. Ticked(n, v, <<>>)
    BY <2>1, <2>3
  <2>7. /\ Moves(n, v, Beacon(n) \o <<>>) /\ Beacon(n) \o <<>> \in Messages
        /\ Contents(Beacon(n) \o <<>>) = {}
    BY <1>5, <1>6, <1>7, <2>4, <2>5, <2>6 DEF Finished
  <2> QED
    BY <1>4, <2>4, <2>5, <2>6, <2>7 DEF Turns, NobodyBid
<1>9. CASE TakeOwner(n)
  <2>1. u.st = "bidding" /\ u.win = 0 /\ Bidders(u) # {} /\ ~Owns(n, u)
    BY <1>0, <1>9 DEF TakeOwner, WindowOver, Owns
  <2>2. PICK r \in Bidders(u) : /\ r = Winner(u)
                               /\ \A o \in Bidders(u) \ {r} : Beats(u.bids[r], r, u.bids[o], o)
    BY <2>1, WinnerBeatsAll
  <2>3. r \in Robots /\ r \in Node /\ u.bids[r] \in BidCost
    BY <2>2, FleetFacts DEF Bidders, View, BidCost
  <2>4. PICK v \in View : v = [u EXCEPT !.st = "claimed", !.owner = r, !.cost = u.bids[r],
                                        !.renew = 0, !.bids = NoBids]
    <3>1. [u EXCEPT !.st = "claimed", !.owner = r, !.cost = u.bids[r],
                    !.renew = 0, !.bids = NoBids] \in View
      BY <2>3, FieldFacts DEF View, TaskState, BidCost
    <3> QED
      BY <3>1
  <2>5. /\ v.st = "claimed" /\ v.owner = r /\ v.cost = u.bids[r] /\ v.renew = 0
        /\ v.bids = NoBids
    BY <2>4 DEF View
  <2>6. \A o \in Robots : v.bids[o] = Infinity
    BY <2>5 DEF NoBids
  <2>7. PICK out \in Messages : out = IF r = n THEN <<Msg("Claim", v.cost)>> ELSE <<>>
    <3>1. <<Msg("Claim", v.cost)>> \in Messages
      BY <2>3, <2>5, MessageOutType DEF MsgType
    <3> QED
      BY <1>7, <3>1
  <2>8. Ticked(n, v, out)
    BY <1>0, <1>9, <2>2, <2>4, <2>5, <2>7 DEF TakeOwner
  <2>9. Contents(out) = IF r = n THEN {Msg("Claim", v.cost)} ELSE {}
    BY <2>7, NewContents
  <2>10. /\ Moves(n, v, Beacon(n) \o out) /\ Beacon(n) \o out \in Messages
         /\ Contents(Beacon(n) \o out) = Contents(out)
    BY <1>5, <1>6, <2>1, <2>5, <2>8 DEF Finished
  <2>11. Awards(n, u, v, Beacon(n) \o out, r)
    BY <2>1, <2>2, <2>5, <2>6, <2>9, <2>10 DEF Awards
  <2> QED
    BY <1>4, <2>3, <2>8, <2>10, <2>11 DEF Turns
<1>10. CASE Rebid(n)
  <2>1. PICK c \in BidChoices(n, u, heard[n], IsolatedNow(n)) :
            Ticked(n, OpenBidding(n, u, c), <<>> \o BidOut(c))
    BY <1>0, <1>10 DEF Rebid, Reopen
  <2>2. /\ c \in BidCost
        /\ OpenBidding(n, u, c) \in View
        /\ Opened(n, OpenBidding(n, u, c), c, heard[n])
        /\ \A r \in Robots : OpenBidding(n, u, c).bids[r] = IF r = n THEN c ELSE Infinity
    BY OpenedRound
  <2>3. PICK v \in View : v = OpenBidding(n, u, c)
    BY <2>2
  <2>4. PICK out \in Messages : out = <<>> \o BidOut(c)
    BY <1>7, <2>2, BidOutType, ConcatProperties DEF Messages
  <2>5. Contents(out) = Contents(BidOut(c))
    BY <1>7, <2>2, <2>4, BidOutType, ContentsFacts
  <2>6. Ticked(n, v, out) /\ v.st = "bidding"
    BY <2>1, <2>2, <2>3, <2>4 DEF Opened
  <2>7. u.st = "open" /\ ~Owns(n, u)
    BY <1>0, <1>10 DEF Rebid, RebidDue, Owns
  <2>8. /\ Moves(n, v, Beacon(n) \o out) /\ Beacon(n) \o out \in Messages
        /\ Contents(Beacon(n) \o out) = Contents(out)
    BY <1>5, <1>6, <2>6, <2>7 DEF Finished
  <2>9. Rebids(n, u, v, Beacon(n) \o out, c)
    BY <2>2, <2>3, <2>5, <2>7, <2>8 DEF Rebids
  <2> QED
    BY <1>4, <2>2, <2>6, <2>8, <2>9 DEF Turns
<1>11. CASE IdleTick(n)
  <2>1. Ticked(n, u, <<>>)
    BY <1>0, <1>11 DEF IdleTick
  <2>2. ~(u.st = "bidding" /\ u.win = 0)
    BY <1>0, <1>11 DEF IdleTick, WindowOver
  <2>3. /\ Moves(n, u, Beacon(n) \o <<>>) /\ Beacon(n) \o <<>> \in Messages
        /\ Contents(Beacon(n) \o <<>>) = Contents(Beacon(n))
    BY <1>0, <1>5, <1>7, <2>1
  <2>4. NothingDue(n, u, u, Beacon(n) \o <<>>)
    BY <1>6, <2>2, <2>3 DEF NothingDue, Unmoved
  <2> QED
    BY <1>4, <2>1, <2>3, <2>4 DEF Turns
<1> QED
  BY <1>3, <1>8, <1>9, <1>10, <1>11

\* In every phase of a connected fleet, the task is not finished, a robot has
\* it, and nobody has waited for its owner for longer than a window.
LEMMA PhaseFacts ==
    ASSUME TypeOK, Phase, NEW x \in Node
    PROVE  /\ view[x].st \notin Finished
           /\ view[x].st = "claimed" => view[x].owner \in Robots
           /\ view[x].st = "claimed" /\ view[x].owner # x => view[x].renew <= BidWindow
<1>1. PICK u \in View : u = view[x]
  BY DEF TypeOK
<1>2. u.renew \in Nat /\ u.owner \in Node \union {NoOwner} /\ u.cost \in Price
  BY <1>1, TimerAssumption DEF View, Price, Expiry
<1>3. u.st = "claimed" => Says(u.owner, u.cost)
  BY <1>1 DEF Says, Tells
<1>4. CASE Untold \/ Lull
  BY <1>4 DEF Untold, Lull, Waits, Finished
<1>5. CASE \E m \in 1 .. BidWindow, w \in Robots, c \in Costs : Round(m, w, c)
  <2>1. PICK m \in 1 .. BidWindow, w \in Robots, c \in Costs : Round(m, w, c)
    BY <1>5
  <2>2. u.st = "claimed" => u.owner \in Robots
    BY <1>2, <1>3, <2>1 DEF Round, AllBeaten
  <2>3. u.st \in {"none", "open", "bidding"} \/ (u.st = "claimed" /\ u.renew + m <= BidWindow)
    BY <1>1, <2>1 DEF Round, Waits, InRound, Early
  <2> QED
    BY <1>1, <1>2, <2>2, <2>3, TimerAssumption DEF Finished
<1>6. CASE \E w \in Robots, c \in Costs : Decided(w, c)
  <2>1. PICK w \in Robots, c \in Costs : Decided(w, c)
    BY <1>6
  <2>2. u.st = "claimed" => u.owner \in Robots
    BY <1>2, <1>3, <2>1 DEF Decided, AllBeaten
  <2>3. CASE x = w
    BY <1>1, <2>1, <2>2, <2>3 DEF Decided, Closing, OwnBid, Owns, Finished
  <2>4. CASE x # w
    BY <1>1, <2>1, <2>2, <2>4 DEF Decided, Follows, WillHear, Finished
  <2> QED
    BY <2>3, <2>4
<1> QED
  BY <1>4, <1>5, <1>6 DEF Phase

\* So no tick stops a robot, gives a task back or reclaims it.
LEMMA Steady ==
    ASSUME TypeOK, SplitTimers, Together, NEW n \in Node
    PROVE  /\ view[n].st \notin Finished
           /\ ~MustStop(n) /\ ~Expired(n)
           /\ Won(n) => QuorumNow(n)
<1>0. PICK u \in View : u = view[n]
  BY DEF TypeOK
<1>1. /\ u.st \notin Finished
      /\ u.st = "claimed" => u.owner \in Robots
      /\ u.st = "claimed" /\ u.owner # n => u.renew <= BidWindow
  BY <1>0, PhaseFacts DEF Together
<1>2. ~Expired(n)
  <2>1. u.renew \in Nat /\ BidWindow < Expiry
    BY TimerAssumption DEF View, Expiry, SplitTimers
  <2> QED
    BY <1>0, <1>1, <2>1, TimerAssumption DEF Expired, Expiry
<1>3. ASSUME n \in Robots, Engaged(n)
      PROVE  HasQuorum(heard[n], n) /\ HeardMajority(heard[n], n, TaskLease) /\ quiet[n] <= TaskLease
  <2>1. HeardMajority(heard[n], n, StatusTimeout)
    BY <1>3 DEF Together, Connecting, HasQuorum
  <2>2. \A p \in Node : heard[n][p] \in Nat
    BY TimerAssumption DEF TypeOK, HeardMax
  <2>3. HeardMajority(heard[n], n, TaskLease)
    <3>1. \A p \in Node : heard[n][p] <= StatusTimeout => heard[n][p] <= TaskLease
      BY <2>2, TimerAssumption
    <3> QED
      BY <2>1, <3>1, HeardMonotone
  <2>4. quiet[n] <= 1 /\ quiet[n] \in Nat
    <3>1. Gateway \in Node \ {n}
      BY <1>3, FleetAssumption, FleetFacts
    <3>2. quiet[n] <= 1
      BY <3>1 DEF Together, Connecting, Lately
    <3> QED
      BY <3>2, TimerAssumption DEF TypeOK, HeardMax
  <2> QED
    BY <2>1, <2>3, <2>4, TimerAssumption DEF HasQuorum, SplitTimers
<1>4. ~MustStop(n)
  <2>1. MustStop(n) => Owns(n, u) /\ (quiet[n] > TaskLease \/ ~HeardMajority(heard[n], n, TaskLease))
    BY <1>0 DEF MustStop
  <2>2. Owns(n, u) => n \in Robots /\ Engaged(n)
    BY <1>0, <1>1 DEF Owns, Engaged
  <2>3. quiet[n] \in Nat
    BY TimerAssumption DEF TypeOK, HeardMax
  <2> QED
    BY <1>3, <2>1, <2>2, <2>3, TimerAssumption
<1>5. Won(n) => QuorumNow(n)
  <2>1. Won(n) => u.st = "bidding" /\ n \in Bidders(u)
    BY <1>0, WinnerBeatsAll DEF Won, WindowOver
  <2>2. Won(n) => n \in Robots /\ Engaged(n)
    BY <1>0, <2>1 DEF Engaged, Bidders
  <2> QED
    BY <1>3, <2>2 DEF QuorumNow
<1> QED
  BY <1>0, <1>1, <1>2, <1>4, <1>5

\* Only a node that joins a round, which takes a quorum, becomes engaged.
LEMMA HandledHeard ==
    ASSUME TypeOK, alive = Node, Connecting, NEW n \in Node, NEW s \in Node, s # n, NEW v, NEW out,
           Handled(n, s, v, out),
           n \in Robots /\ Engaged(n)' => Engaged(n) \/ HasQuorum(Hear(n, s)[n], n)
    PROVE  Connecting'
<1>1. /\ blocked' = blocked /\ ticked' = ticked
      /\ \A m, p \in Node : heard'[m][p] = IF m = n /\ p = s THEN 0 ELSE heard[m][p]
      /\ \A m \in Node : quiet'[m] = IF m = n THEN 0 ELSE quiet[m]
      /\ \A m \in Node : m # n => view'[m] = view[m]
      /\ heard'[n] = Hear(n, s)[n]
  BY DEF Handled, Hear, TypeOK
<1>2. Lately'
  BY <1>1 DEF Lately, Connecting
<1>3. ASSUME NEW m \in Robots, Engaged(m)'
      PROVE  HasQuorum(heard'[m], m)
  <2>1. m \in Node
    BY FleetFacts
  <2>2. CASE m = n /\ ~Engaged(n)
    BY <1>1, <1>3, <2>2
  <2>3. CASE Engaged(m)
    <3>1. HeardMajority(heard[m], m, StatusTimeout)
      BY <2>3 DEF Connecting, HasQuorum
    <3>2. \A p \in Node : heard[m][p] <= StatusTimeout => heard'[m][p] <= StatusTimeout
      BY <1>1, <2>1, TimerAssumption
    <3> QED
      BY <2>1, <3>1, <3>2, HeardMonotone DEF HasQuorum
  <2> QED
    BY <1>1, <1>3, <2>1, <2>2, <2>3 DEF Engaged
<1> QED
  BY <1>1, <1>2, <1>3 DEF Connecting

LEMMA TickedHeard ==
    ASSUME TypeOK, alive = Node, Connecting, NEW n \in Node, Tick(n),
           n \in Robots /\ Engaged(n)' => Engaged(n) \/ HasQuorum(heard[n], n)
    PROVE  Connecting' /\ alive' = Node /\ blocked' = {}
<1>1. PICK v \in View, out \in Messages : Ticked(n, v, out)
  BY TickFrame
<1>2. /\ blocked' = {} /\ alive' = Node /\ ticked' = ticked \union {n}
      /\ \A m, p \in Node : heard'[m][p] = IF m # n /\ p = n THEN 0 ELSE heard[m][p]
      /\ \A m \in Node : quiet'[m] = IF m # n THEN 0 ELSE quiet[m]
      /\ \A m \in Node : m # n => view'[m] = view[m]
      /\ heard'[n] = heard[n]
  BY <1>1 DEF Ticked, TypeOK, Linked, Connecting
<1>3. Lately'
  BY <1>2 DEF Lately, Connecting
<1>4. ASSUME NEW m \in Robots, Engaged(m)'
      PROVE  HasQuorum(heard'[m], m)
  <2>1. m \in Node
    BY FleetFacts
  <2>2. CASE m = n /\ ~Engaged(n)
    BY <1>2, <1>4, <2>2
  <2>3. CASE Engaged(m)
    <3>1. HeardMajority(heard[m], m, StatusTimeout)
      BY <2>3 DEF Connecting, HasQuorum
    <3>2. \A p \in Node : heard[m][p] <= StatusTimeout => heard'[m][p] <= StatusTimeout
      BY <1>2, <2>1, TimerAssumption
    <3> QED
      BY <2>1, <3>1, <3>2, HeardMonotone DEF HasQuorum
  <2> QED
    BY <1>2, <1>4, <2>1, <2>2, <2>3 DEF Engaged
<1> QED
  BY <1>2, <1>3, <1>4 DEF Connecting

\* Time passes once every node has ticked and every message is heard.
LEMMA AdvanceWay ==
    ASSUME TypeOK, TypeOK', alive = Node, MaxDelay = 0, Advance
    PROVE  /\ ticked = Node /\ ticked' = {}
           /\ alive' = alive /\ blocked' = blocked /\ budget' = budget
           /\ \A a, b \in Node : Way(a, b) = {} /\ Way(a, b)' = {}
           /\ \A x \in Node :
                  /\ view'[x].st = view[x].st /\ view'[x].owner = view[x].owner
                  /\ view'[x].cost = view[x].cost /\ view'[x].bids = view[x].bids
                  /\ view'[x].win = Sooner(view[x].win)
                  /\ view'[x].renew \in Nat /\ view'[x].renew <= view[x].renew + 1
           /\ \A x, p \in Node : heard'[x][p] = Older(heard[x][p], HeardMax)
           /\ \A x \in Node : quiet'[x] = Older(quiet[x], HeardMax)
<1>1. ASSUME NEW a \in Node, NEW b \in Node PROVE Way(a, b) = {} /\ Way(a, b)' = {}
  <2>1. chan[a][b] \in Messages /\ chan'[a][b] \in Messages
    BY DEF TypeOK, Messages
  <2>2. chan[a][b] = <<>>
    <3> SUFFICES ASSUME chan[a][b] # <<>> PROVE FALSE
      OBVIOUS
    <3>1. 1 \in DOMAIN chan[a][b]
      BY <2>1, TailEntries
    <3>2. chan[a][b][1].age < MaxDelay
      BY <3>1 DEF Advance
    <3>3. chan[a][b][1].age \in Nat
      BY <2>1, <3>1, AgeFacts
    <3> QED
      BY <3>2, <3>3
  <2>3. chan'[a][b] = <<>>
    BY <2>2, AdvanceChan
  <2>4. Contents(chan[a][b]) = {} /\ Contents(chan'[a][b]) = {}
    BY <2>2, <2>3, NewContents
  <2> QED
    BY <2>4 DEF Way
<1>2. ASSUME NEW x \in Node
      PROVE  /\ view'[x].st = view[x].st /\ view'[x].owner = view[x].owner
             /\ view'[x].cost = view[x].cost /\ view'[x].bids = view[x].bids
             /\ view'[x].win = Sooner(view[x].win)
             /\ view'[x].renew \in Nat /\ view'[x].renew <= view[x].renew + 1
  <2>1. PICK u \in View : u = view[x] /\ view'[x] = Aged(u)
    BY DEF TypeOK, Advance
  <2>2. /\ Aged(u).st = u.st /\ Aged(u).owner = u.owner /\ Aged(u).cost = u.cost
        /\ Aged(u).bids = u.bids /\ Aged(u).win = Sooner(u.win)
        /\ Aged(u).renew \in {u.renew, Older(u.renew, Expiry + 1)}
    BY DEF Aged, View
  <2>3. u.renew \in Nat
    BY TimerAssumption DEF View, Expiry
  <2>4. Older(u.renew, Expiry + 1) \in {u.renew, u.renew + 1}
    BY DEF Older
  <2> QED
    BY <2>1, <2>2, <2>3, <2>4
<1>3. /\ ticked = Node /\ ticked' = {}
      /\ alive' = alive /\ blocked' = blocked /\ budget' = budget
      /\ \A x, p \in Node : heard'[x][p] = Older(heard[x][p], HeardMax)
      /\ \A x \in Node : quiet'[x] = Older(quiet[x], HeardMax)
  BY DEF Advance
<1> QED
  BY <1>1, <1>2, <1>3

LEMMA AdvanceHeard ==
    ASSUME TypeOK, TypeOK', SplitTimers, alive = Node, Connecting, Advance
    PROVE  Connecting'
<1>1. /\ ticked = Node /\ ticked' = {} /\ blocked' = blocked
      /\ \A x \in Node : view'[x].st = view[x].st /\ view'[x].owner = view[x].owner
      /\ \A x \in Node : view'[x].bids = view[x].bids
      /\ \A x, p \in Node : heard'[x][p] = Older(heard[x][p], HeardMax)
      /\ \A x \in Node : quiet'[x] = Older(quiet[x], HeardMax)
  BY AdvanceWay DEF SplitTimers
<1>2. Older(0, HeardMax) = 1
  BY TimerAssumption DEF Older, HeardMax
<1>3. \A n \in Node : \A p \in Node \ {n} : heard'[n][p] = 1 /\ quiet'[n] = 1
  BY <1>1, <1>2 DEF Connecting, Lately
<1>4. Lately'
  BY <1>1, <1>3 DEF Lately
<1>5. ASSUME NEW n \in Robots, Engaged(n)'
      PROVE  HasQuorum(heard'[n], n)
  <2>1. n \in Node /\ n # Gateway
    BY FleetFacts, FleetAssumption
  <2>2. Engaged(n)
    BY <1>1, <1>5, <2>1 DEF Engaged, Owns, Bidders
  <2>3. HeardMajority(heard[n], n, StatusTimeout)
    BY <2>2 DEF Connecting, HasQuorum
  <2>4. \A p \in Node : heard[n][p] <= StatusTimeout => heard'[n][p] <= StatusTimeout \/ p = n
    BY <1>3, <2>1, TimerAssumption DEF SplitTimers
  <2>5. {p \in Node \ {n} : heard[n][p] <= StatusTimeout} \subseteq
            {p \in Node \ {n} : heard'[n][p] <= StatusTimeout}
    BY <2>4
  <2>6. HeardMajority(heard'[n], n, StatusTimeout)
    <3>1. IsFiniteSet({p \in Node \ {n} : heard'[n][p] <= StatusTimeout})
      BY FS_Subset, FleetFacts
    <3>2. /\ Cardinality({p \in Node \ {n} : heard[n][p] <= StatusTimeout}) <=
                 Cardinality({p \in Node \ {n} : heard'[n][p] <= StatusTimeout})
          /\ IsFiniteSet({p \in Node \ {n} : heard[n][p] <= StatusTimeout})
      BY <2>5, <3>1, FS_Subset
    <3>3. /\ Cardinality({p \in Node \ {n} : heard'[n][p] <= StatusTimeout}) \in Nat
          /\ Cardinality({p \in Node \ {n} : heard[n][p] <= StatusTimeout}) \in Nat
      BY <3>1, <3>2, FS_CardinalityType
    <3>4. Cardinality(Node) \div 2 \in Int
      BY FleetFacts
    <3> QED
      BY <2>3, <3>2, <3>3, <3>4 DEF HeardMajority
  <2> QED
    BY <2>6 DEF HasQuorum
<1> QED
  BY <1>1, <1>4, <1>5 DEF Connecting

\* A step of node n of a connected fleet, which changes its view to v and sends
\* sent to every other node.
Step(n, v, sent) ==
    /\ \A x \in Node : view'[x] = IF x = n THEN v ELSE view[x]
    /\ \A a, b \in Node : \A msg \in Way(a, b)' :
           msg \in Way(a, b) \/ (a = n /\ msg \in Contents(sent))
    /\ \A a \in Node, x \in Node \ {n} : Way(a, x) \subseteq Way(a, x)'
    /\ \A x \in Node \ {n} : Contents(sent) \subseteq Way(n, x)'

LEMMA HandledStep ==
    ASSUME TypeOK, alive = Node, blocked = {},
           NEW n \in Node, NEW s \in Node, s # n, chan[s][n] # <<>>,
           NEW v \in View, NEW out \in Messages, Handled(n, s, v, out)
    PROVE  /\ Step(n, v, out)
           /\ \A a \in Node : Way(a, n) \subseteq Way(a, n)' \union {Head(chan[s][n])}
           /\ \A a \in Node \ {s} : Way(a, n) \subseteq Way(a, n)'
           /\ Head(chan[s][n]) \in Way(s, n)
           /\ ticked' = ticked /\ budget' = budget /\ alive' = Node /\ blocked' = {}
<1>1. /\ \A x \in Node : view'[x] = IF x = n THEN v ELSE view[x]
      /\ \A a, b \in Node : a # s \/ b # n =>
             Way(a, b)' = Way(a, b) \union Sends(n, out, a, b)
      /\ Way(s, n)' \subseteq Way(s, n)
      /\ Way(s, n) \subseteq Way(s, n)' \union {Head(chan[s][n])}
      /\ Head(chan[s][n]) \in Way(s, n)
  BY HandledWay
<1>2. \A a, b \in Node : Sends(n, out, a, b) = IF a = n /\ b # n THEN Contents(out) ELSE {}
  BY DEF Sends, Linked
<1>3. Step(n, v, out)
  BY <1>1, <1>2 DEF Step
<1>4. ticked' = ticked /\ budget' = budget /\ alive' = Node /\ blocked' = {}
  BY DEF Handled
<1> QED
  BY <1>1, <1>3, <1>4

LEMMA MovesStep ==
    ASSUME TypeOK, alive = Node, blocked = {},
           NEW n \in Node, NEW v \in View, NEW sent \in Messages, Moves(n, v, sent)
    PROVE  /\ Step(n, v, sent)
           /\ \A a \in Node : Way(a, n) \subseteq Way(a, n)'
<1>1. /\ \A x \in Node : view'[x] = IF x = n THEN v ELSE view[x]
      /\ \A a, b \in Node : Way(a, b)' = Way(a, b) \union Sends(n, sent, a, b)
  BY MovesWay
<1>2. \A a, b \in Node : Sends(n, sent, a, b) = IF a = n /\ b # n THEN Contents(sent) ELSE {}
  BY DEF Sends, Linked
<1> QED
  BY <1>1, <1>2 DEF Step

\* Only what the node itself now holds and what it sends is new to the fleet.
LEMMA SaysKept ==
    ASSUME NEW n \in Node, NEW v, NEW sent, Step(n, v, sent)
    PROVE  \A o, b : Says(o, b)' =>
               \/ Says(o, b)
               \/ Tells(v, o, b)
               \/ o = n /\ \E msg \in Contents(sent) : msg.type # "TaskAnnounce" /\ msg.cost = b
<1> SUFFICES ASSUME NEW o, NEW b, Says(o, b)'
             PROVE  \/ Says(o, b)
                    \/ Tells(v, o, b)
                    \/ /\ o = n
                       /\ \E msg \in Contents(sent) : msg.type # "TaskAnnounce" /\ msg.cost = b
  OBVIOUS
<1>0. \A x \in Node : view'[x] = IF x = n THEN v ELSE view[x]
  BY DEF Step
<1>1. CASE \E x \in Node : Tells(view'[x], o, b)
  BY <1>0, <1>1 DEF Says
<1>2. CASE o \in Node /\ \E x \in Node : \E msg \in Way(o, x)' :
                             msg.type # "TaskAnnounce" /\ msg.cost = b
  <2>1. PICK x \in Node : \E msg \in Way(o, x)' : msg.type # "TaskAnnounce" /\ msg.cost = b
    BY <1>2
  <2>2. PICK msg \in Way(o, x)' : msg.type # "TaskAnnounce" /\ msg.cost = b
    BY <2>1
  <2>3. msg \in Way(o, x) \/ (o = n /\ msg \in Contents(sent))
    BY <1>2, <2>2 DEF Step
  <2> QED
    BY <1>2, <2>2, <2>3 DEF Says
<1> QED
  BY <1>1, <1>2 DEF Says

LEMMA BeatsOrder ==
    ASSUME NEW c1 \in Int, NEW c2 \in Int, NEW c3 \in Int, NEW r1 \in Nat, NEW r2 \in Nat,
           NEW r3 \in Nat
    PROVE  /\ r1 # r2 => Beats(c1, r1, c2, r2) \/ Beats(c2, r2, c1, r1)
           /\ Beats(c1, r1, c2, r2) /\ Beats(c2, r2, c3, r3) => Beats(c1, r1, c3, r3)
BY DEF Beats

LEMMA PriceFacts ==
    /\ Price \subseteq Int /\ Costs \subseteq Price /\ BidCost \subseteq Price
    /\ Robots \subseteq Nat /\ Robots \subseteq Node /\ Gateway \in Node
    /\ Costs \subseteq BidCost /\ Infinity \notin Costs
BY CostAssumption, FleetAssumption DEF Price, BidCost, CommittedCost, Node

LEMMA BidContents ==
    ASSUME NEW c
    PROVE  /\ c = Infinity => Contents(BidOut(c)) = {}
           /\ c # Infinity => /\ Contents(BidOut(c)) = {Msg("Bid", c)}
                              /\ Msg("Bid", c).type = "Bid" /\ Msg("Bid", c).cost = c
BY NewContents DEF BidOut, Msg

\* The bids of a node that opens a round: its own, and those it was told of.
FirstBids(n, v, c) ==
    /\ n \in Robots => v.bids[n] = c
    /\ \A r \in Robots \ {n} : v.bids[r] # Infinity => Says(r, v.bids[r])

LEMMA BidSays ==
    ASSUME NEW n \in Node, NEW v, NEW sent, NEW c, NEW row, Step(n, v, sent),
           Opened(n, v, c, row), FirstBids(n, v, c), Contents(sent) = Contents(BidOut(c))
    PROVE  \A o, b : Says(o, b)' => Says(o, b) \/ (o = n /\ b = c /\ c # Infinity)
<1> SUFFICES ASSUME NEW o, NEW b, Says(o, b)'
             PROVE  Says(o, b) \/ (o = n /\ b = c /\ c # Infinity)
  OBVIOUS
<1>1. Tells(v, o, b) => Says(o, b) \/ (o = n /\ b = c /\ c # Infinity)
  BY DEF Tells, Opened, FirstBids
<1>2. (\E msg \in Contents(sent) : msg.type # "TaskAnnounce" /\ msg.cost = b) =>
          b = c /\ c # Infinity
  BY BidContents
<1> QED
  BY <1>1, <1>2, SaysKept

\* The first bid after a lull starts the round.
LEMMA LullBid ==
    ASSUME TypeOK, SplitTimers, NEW n \in Node, NEW v \in View, NEW sent, NEW c \in BidCost,
           NEW row, Step(n, v, sent), Opened(n, v, c, row),
           \A r \in Robots : v.bids[r] = IF r = n THEN c ELSE Infinity,
           Contents(sent) = Contents(BidOut(c)), Lull
    PROVE  Phase'
<1>1. \A x \in Node : view'[x] = IF x = n THEN v ELSE view[x]
  BY DEF Step
<1>2. v.st = "bidding" /\ v.win = BidWindow
  BY DEF Opened
<1>3. \A x \in Node \ {n} : Waits(x) => Waits(x)'
  BY <1>1, FleetFacts DEF Waits, Comes, Step
<1>4. CASE c = Infinity
  <2>1. OnlyOnWay({"TaskAnnounce"})'
    BY <1>4, BidContents DEF OnlyOnWay, Step, Lull
  <2>2. Bidders(v) = {}
    BY <1>4 DEF Bidders
  <2>3. Lull'
    BY <1>1, <1>2, <1>3, <2>1, <2>2 DEF Lull
  <2> QED
    BY <2>3 DEF Phase
<1>5. CASE c # Infinity
  <2>1. n \in Robots /\ c \in Costs
    BY <1>5 DEF Opened, BidCost
  <2>2. Contents(sent) = {Msg("Bid", c)} /\ Msg("Bid", c).type = "Bid"
    BY <1>5, BidContents
  <2>3. FirstBids(n, v, c)
    BY DEF FirstBids
  <2>4. \A o, b : ~Says(o, b)
    <3>1. \A x \in Node : \A o, b : ~Tells(view[x], o, b)
      BY DEF Tells, Lull, Waits, Bidders
    <3> QED
      BY <3>1 DEF Says, Lull, OnlyOnWay
  <2>5. \A o, b : Says(o, b)' => o = n /\ b = c
    BY <2>3, <2>4, BidSays
  <2>6. OwnBid(n, c)'
    BY <1>1, <1>2, <1>5, <2>1 DEF OwnBid
  <2>7. Honest' /\ AllBeaten(n, c)'
    BY <2>1, <2>5, <2>6 DEF Honest, AllBeaten, Beaten
  <2>8. OnlyOnWay({"TaskAnnounce", "Bid"})'
    BY <2>2 DEF OnlyOnWay, Step, Lull
  <2>9. \A x \in Node \ {n} : BidComes(x)'
    BY <2>2 DEF BidComes, Comes, Step
  <2>10. ASSUME NEW x \in Node
         PROVE  \/ Waits(x)'
                \/ view'[x].st = "open" /\ BidComes(x)'
                \/ InRound(BidWindow, x)'
    <3>1. CASE x = n
      BY <1>1, <1>2, <3>1, TimerAssumption DEF InRound
    <3>2. CASE x # n
      <4>1. view'[x] = view[x] /\ view[x].win <= BidWindow /\ Bidders(view[x]) = {}
        <5>1. view[x] \in View
          BY DEF TypeOK
        <5>2. view[x].win \in 0 .. BidWindow
          BY <5>1 DEF View
        <5> QED
          BY <1>1, <3>2, <5>2, TimerAssumption DEF Lull
      <4>2. Waits(x) \/ view[x].st \in {"open", "bidding"}
        BY DEF Lull
      <4> QED
        BY <1>3, <2>9, <3>2, <4>1, <4>2 DEF InRound
    <3> QED
      BY <3>1, <3>2
  <2>11. Round(BidWindow, n, c)'
    BY <1>1, <1>2, <2>6, <2>7, <2>8, <2>10 DEF Round
  <2>12. BidWindow \in 1 .. BidWindow
    BY TimerAssumption DEF SplitTimers
  <2> QED
    BY <2>1, <2>11, <2>12 DEF Phase
<1> QED
  BY <1>4, <1>5

\* A further bid in the unit in which a round starts: the best bidder is the one
\* before or this one.
LEMMA RoundBid ==
    ASSUME TypeOK, SplitTimers, NEW n \in Node, NEW v \in View, NEW sent, NEW c \in BidCost,
           NEW row, Step(n, v, sent), Opened(n, v, c, row), FirstBids(n, v, c),
           Contents(sent) = Contents(BidOut(c)),
           NEW w \in Robots, NEW d \in Costs, Round(BidWindow, w, d),
           view[n].st \in {"none", "open"}
    PROVE  Phase'
<1>1. \A x \in Node : view'[x] = IF x = n THEN v ELSE view[x]
  BY DEF Step
<1>2. v.st = "bidding" /\ v.win = BidWindow /\ BidWindow \in 1 .. BidWindow
  BY TimerAssumption DEF Opened, SplitTimers
<1>3. /\ OwnBid(w, d) /\ view[w].win = BidWindow /\ w # n /\ w \in Node
      /\ Honest /\ AllBeaten(w, d)
      /\ OnlyOnWay({"TaskAnnounce", "Bid"})
  BY PriceFacts DEF Round, OwnBid
<1>4. \A x \in Node : \/ Waits(x)
                      \/ view[x].st = "open" /\ BidComes(x)
                      \/ InRound(BidWindow, x)
                      \/ Early(BidWindow, x)
  BY DEF Round
<1>5. \A b \in Price : ~Says(n, b)
  BY <1>3 DEF Honest, OwnBid
<1>6. \A o, b : Says(o, b)' => Says(o, b) \/ (o = n /\ b = c /\ c # Infinity)
  BY BidSays
<1>7. \A o, b : o # n /\ OwnBid(o, b) => OwnBid(o, b)'
  BY <1>1, PriceFacts DEF OwnBid
<1>8. c # Infinity => n \in Robots /\ c \in Costs /\ OwnBid(n, c)'
  BY <1>1, <1>2 DEF Opened, FirstBids, BidCost, OwnBid
<1>9. Honest'
  <2> SUFFICES ASSUME NEW o \in Node \union {NoOwner}, NEW b \in Price, Says(o, b)'
               PROVE  OwnBid(o, b)'
    BY DEF Honest
  <2>1. CASE Says(o, b)
    BY <1>3, <1>5, <1>7, <2>1 DEF Honest
  <2> QED
    BY <1>6, <1>8, <2>1
<1>10. OnlyOnWay({"TaskAnnounce", "Bid"})'
  BY <1>3, BidContents DEF OnlyOnWay, Step
<1>11. ASSUME NEW x \in Node
       PROVE  \/ Waits(x)'
              \/ view'[x].st = "open" /\ BidComes(x)'
              \/ InRound(BidWindow, x)'
              \/ Early(BidWindow, x)'
  <2>1. CASE x = n
    BY <1>1, <1>2, <2>1, TimerAssumption DEF InRound
  <2>2. CASE x # n
    <3>1. view'[x] = view[x]
      BY <1>1, <2>2
    <3>2. BidComes(x) => BidComes(x)'
      BY <2>2 DEF BidComes, Comes, Step
    <3>3. Waits(x) => Waits(x)'
      BY <2>2, <3>1, FleetFacts DEF Waits, Comes, Step
    <3>4. InRound(BidWindow, x) => InRound(BidWindow, x)'
      BY <3>1, <3>2 DEF InRound
    <3>5. Early(BidWindow, x) => Early(BidWindow, x)'
      BY <3>1 DEF Early
    <3> QED
      BY <1>4, <3>1, <3>2, <3>3, <3>4, <3>5
  <2> QED
    BY <2>1, <2>2
<1>12. OwnBid(w, d)' /\ view'[w].win = BidWindow
  BY <1>1, <1>3, <1>7
<1>13. CASE c = Infinity \/ Beats(d, w, c, n)
  <2>1. AllBeaten(w, d)'
    BY <1>3, <1>6, <1>8, <1>13 DEF AllBeaten, Beaten
  <2>2. Round(BidWindow, w, d)'
    BY <1>9, <1>10, <1>11, <1>12, <2>1 DEF Round
  <2> QED
    BY <1>2, <2>2 DEF Phase
<1>14. CASE c # Infinity /\ Beats(c, n, d, w)
  <2>1. AllBeaten(n, c)'
    <3> SUFFICES ASSUME NEW o \in Node \union {NoOwner}, NEW b \in Price, Says(o, b)'
                 PROVE  o \in Robots /\ Beaten(n, c, o, b)
      BY DEF AllBeaten
    <3>1. CASE o = n
      BY <1>5, <1>6, <1>8, <1>14, <3>1 DEF Beaten
    <3>2. CASE o # n
      <4>1. o \in Robots /\ Beaten(w, d, o, b)
        BY <1>3, <1>6, <3>2 DEF AllBeaten
      <4>2. CASE o = w
        BY <1>14, <3>2, <4>1, <4>2 DEF Beaten
      <4>3. CASE o # w
        <5>1. Beats(d, w, b, o)
          BY <4>1, <4>3 DEF Beaten
        <5>2. c \in Int /\ d \in Int /\ b \in Int /\ n \in Nat /\ w \in Nat /\ o \in Nat
          BY <1>8, <1>14, <4>1, PriceFacts
        <5>3. Beats(c, n, b, o)
          BY <1>14, <5>1, <5>2, BeatsOrder
        <5> QED
          BY <3>2, <4>1, <5>3 DEF Beaten
      <4> QED
        BY <4>2, <4>3
    <3> QED
      BY <3>1, <3>2
  <2>2. Round(BidWindow, n, c)'
    BY <1>1, <1>2, <1>8, <1>9, <1>10, <1>11, <1>14, <2>1 DEF Round
  <2> QED
    BY <1>2, <1>8, <1>14, <2>2 DEF Phase
<1>15. c = Infinity \/ Beats(d, w, c, n) \/ Beats(c, n, d, w)
  <2>1. c # Infinity => c \in Int /\ d \in Int /\ n \in Nat /\ w \in Nat
    BY <1>8, PriceFacts
  <2> QED
    BY <1>3, <2>1, BeatsOrder
<1> QED
  BY <1>13, <1>14, <1>15

\* Node n hears s say msg; node n ticks.
Hearing(n, s, msg, v, out, row) ==
    /\ s # n /\ msg \in Message /\ msg \in Way(s, n)
    /\ Step(n, v, out)
    /\ \A a \in Node : Way(a, n) \subseteq Way(a, n)' \union {msg}
    /\ \A a \in Node \ {s} : Way(a, n) \subseteq Way(a, n)'
    /\ ticked' = ticked
    /\ Makes(n, view[n], s, msg, v, out, row)
Turning(n, v, sent) ==
    /\ Step(n, v, sent)
    /\ \A a \in Node : Way(a, n) \subseteq Way(a, n)'
    /\ n \notin ticked /\ ticked' = ticked \union {n}
    /\ Turns(n, view[n], v, sent)

LEMMA LullKept ==
    ASSUME TypeOK, NEW n \in Node, NEW v \in View, NEW sent, Step(n, v, sent), Lull,
           v.st \in {"open", "bidding"} \/ Waits(n)', Bidders(v) = {},
           \A msg \in Contents(sent) : msg.type = "TaskAnnounce"
    PROVE  Phase'
<1>1. \A x \in Node : view'[x] = IF x = n THEN v ELSE view[x]
  BY DEF Step
<1>2. \A x \in Node \ {n} : Waits(x) => Waits(x)'
  BY <1>1, FleetFacts DEF Waits, Comes, Step
<1>3. OnlyOnWay({"TaskAnnounce"})'
  BY DEF OnlyOnWay, Step, Lull
<1>4. Lull'
  BY <1>1, <1>2, <1>3 DEF Lull
<1> QED
  BY <1>4 DEF Phase

LEMMA LullReceive ==
    ASSUME TypeOK, SplitTimers, Lull, NEW n \in Node, NEW s \in Node, NEW msg, NEW v \in View,
           NEW out \in Messages, NEW row, Hearing(n, s, msg, v, out, row)
    PROVE  Phase'
<1>0. PICK u \in View : u = view[n]
  BY DEF TypeOK
<1>1. msg.type = "TaskAnnounce" /\ Step(n, v, out) /\ Makes(n, u, s, msg, v, out, row)
  BY <1>0 DEF Hearing, Lull, OnlyOnWay
<1>2. CASE Unmoved(u, v) /\ out = <<>> /\ Ignores(u, s, msg)
  <2>1. v.st \in {"open", "bidding"} /\ Bidders(v) = {}
    BY <1>0, <1>1, <1>2 DEF Unmoved, Ignores, Lull, Waits, Bidders
  <2> QED
    BY <1>1, <1>2, <2>1, NewContents, LullKept
<1>3. CASE \E c \in BidCost : Joins(n, u, s, msg, v, c, row) /\ out = BidOut(c)
  <2>1. PICK c \in BidCost : Joins(n, u, s, msg, v, c, row) /\ out = BidOut(c)
    BY <1>3
  <2>2. /\ Opened(n, v, c, row)
        /\ \A r \in Robots : v.bids[r] = IF r = n THEN c ELSE Infinity
    BY <1>1, <2>1 DEF Joins
  <2> QED
    BY <1>1, <2>1, <2>2, LullBid
<1> QED
  BY <1>1, <1>2, <1>3 DEF Makes, Records, Heeded, Loud

LEMMA LullTick ==
    ASSUME TypeOK, SplitTimers, Lull, NEW n \in Node, NEW v \in View, NEW sent \in Messages,
           Turning(n, v, sent)
    PROVE  Phase'
<1>0. PICK u \in View : u = view[n]
  BY DEF TypeOK
<1>1. /\ Step(n, v, sent) /\ Turns(n, u, v, sent) /\ view'[n] = v
      /\ Bidders(u) = {} /\ (Waits(n) \/ u.st \in {"open", "bidding"})
  BY <1>0 DEF Turning, Lull, Step
<1>2. CASE NothingDue(n, u, v, sent)
  <2>1. Contents(sent) = {} /\ Bidders(v) = {}
    BY <1>0, <1>1, <1>2 DEF NothingDue, Unmoved, Owns, Waits, Bidders
  <2>2. v.st \in {"open", "bidding"} \/ Waits(n)'
    BY <1>0, <1>1, <1>2, FleetFacts DEF NothingDue, Unmoved, Waits, Comes, Turning
  <2> QED
    BY <1>1, <2>1, <2>2, LullKept
<1>3. CASE NobodyBid(u, v, sent)
  <2>1. Contents(sent) = {} /\ Bidders(v) = {} /\ v.st = "open"
    BY <1>3 DEF NobodyBid, Bidders
  <2> QED
    BY <1>1, <2>1, LullKept
<1>4. CASE \E r \in Robots : Awards(n, u, v, sent, r)
  BY <1>1, <1>4 DEF Awards
<1>5. CASE \E c \in BidCost : Rebids(n, u, v, sent, c)
  <2>1. PICK c \in BidCost : Rebids(n, u, v, sent, c)
    BY <1>5
  <2>2. /\ Opened(n, v, c, heard[n]) /\ Contents(sent) = Contents(BidOut(c))
        /\ \A r \in Robots : v.bids[r] = IF r = n THEN c ELSE Infinity
    BY <2>1 DEF Rebids
  <2> QED
    BY <1>1, <2>2, LullBid
<1> QED
  BY <1>1, <1>2, <1>3, <1>4, <1>5 DEF Turns

\* Before the announcement nobody has anything to do.
LEMMA UntoldSteps ==
    ASSUME TypeOK, Untold, NEW n \in Node, NEW v \in View, NEW sent \in Messages
    PROVE  /\ \A s \in Node : \A msg, row : ~Hearing(n, s, msg, v, sent, row)
           /\ Turning(n, v, sent) => Phase'
           /\ /\ Step(n, v, sent) /\ v.st = "bidding" /\ Bidders(v) = {} /\ n = Gateway
              /\ Contents(sent) = {Msg("TaskAnnounce", Infinity)}
              => Phase'
<1>1. \A s \in Node : \A msg, row : ~Hearing(n, s, msg, v, sent, row)
  BY DEF Untold, Hearing
<1>2. ASSUME Turning(n, v, sent) PROVE Phase'
  <2>0. PICK u \in View : u = view[n]
    BY DEF TypeOK
  <2>1. u.st = "none" /\ Bidders(u) = {} /\ Turns(n, u, v, sent) /\ Step(n, v, sent)
    BY <1>2, <2>0 DEF Turning, Untold
  <2>2. NothingDue(n, u, v, sent)
    BY <2>1 DEF Turns, NobodyBid, Awards, Rebids
  <2>3. v.st = "none" /\ Bidders(v) = {} /\ Contents(sent) = {}
    BY <2>1, <2>2 DEF NothingDue, Unmoved, Bidders, Owns
  <2>4. Untold'
    BY <2>1, <2>3 DEF Untold, Step
  <2> QED
    BY <2>4 DEF Phase
<1>3. ASSUME Step(n, v, sent), v.st = "bidding", Bidders(v) = {}, n = Gateway,
             Contents(sent) = {Msg("TaskAnnounce", Infinity)}
      PROVE  Phase'
  <2>1. \A x \in Node : view'[x] = IF x = n THEN v ELSE view[x]
    BY <1>3 DEF Step
  <2>2. Msg("TaskAnnounce", Infinity).type = "TaskAnnounce"
    BY DEF Msg
  <2>3. \A x \in Node \ {n} : Waits(x)'
    BY <1>3, <2>1, <2>2 DEF Untold, Waits, Comes, Step
  <2>4. OnlyOnWay({"TaskAnnounce"})'
    BY <1>3, <2>2 DEF OnlyOnWay, Step, Untold
  <2>5. Lull'
    BY <1>3, <2>1, <2>3, <2>4 DEF Lull, Untold
  <2> QED
    BY <2>5 DEF Phase
<1> QED
  BY <1>1, <1>2, <1>3

\* Where the node x is in the round.
Attends(m, x) ==
    \/ m = BidWindow /\ Waits(x)
    \/ m = BidWindow /\ view[x].st = "open" /\ BidComes(x)
    \/ InRound(m, x)
    \/ Early(m, x)

\* A step that sends no bid and tells nothing new leaves the round as it is.
LEMMA RoundKept ==
    ASSUME TypeOK, NEW n \in Node, NEW v \in View, NEW sent, Step(n, v, sent),
           NEW m \in 1 .. BidWindow, NEW w \in Robots, NEW c \in Costs, Round(m, w, c),
           Attends(m, n)',
           \A o, b : Tells(v, o, b) => Says(o, b),
           \A b : OwnBid(n, b) => v.st = "bidding" /\ v.bids[n] = b /\ v.win = view[n].win,
           \A msg \in Contents(sent) : msg.type = "TaskAnnounce"
    PROVE  Phase'
<1>1. \A x \in Node : view'[x] = IF x = n THEN v ELSE view[x]
  BY DEF Step
<1>2. \A o, b : OwnBid(o, b) => OwnBid(o, b)'
  BY <1>1, PriceFacts DEF OwnBid
<1>3. \A o, b : Says(o, b)' => Says(o, b)
  BY SaysKept
<1>4. Honest' /\ AllBeaten(w, c)'
  BY <1>2, <1>3 DEF Round, Honest, AllBeaten
<1>5. OnlyOnWay(IF m = BidWindow THEN {"TaskAnnounce", "Bid"} ELSE {"TaskAnnounce"})'
  <2>1. \A msg \in Contents(sent) :
            msg.type \in IF m = BidWindow THEN {"TaskAnnounce", "Bid"} ELSE {"TaskAnnounce"}
    OBVIOUS
  <2> QED
    BY <2>1 DEF OnlyOnWay, Step, Round
<1>6. ASSUME NEW x \in Node PROVE Attends(m, x)'
  <2>1. CASE x = n
    BY <2>1
  <2>2. CASE x # n
    <3>1. view'[x] = view[x]
      BY <1>1, <2>2
    <3>2. BidComes(x) => BidComes(x)'
      BY <2>2 DEF BidComes, Comes, Step
    <3>3. Waits(x) => Waits(x)'
      BY <2>2, <3>1, FleetFacts DEF Waits, Comes, Step
    <3>4. InRound(m, x) => InRound(m, x)'
      BY <3>1, <3>2 DEF InRound
    <3>5. Early(m, x) => Early(m, x)'
      BY <3>1 DEF Early
    <3>6. Attends(m, x)
      BY DEF Round, Attends
    <3> QED
      BY <3>1, <3>2, <3>3, <3>4, <3>5, <3>6 DEF Attends
  <2> QED
    BY <2>1, <2>2
<1>7. OwnBid(w, c)' /\ view'[w].win = m
  BY <1>1, <1>2, PriceFacts DEF Round
<1>8. Round(m, w, c)'
  BY <1>4, <1>5, <1>6, <1>7 DEF Round, Attends
<1> QED
  BY <1>8 DEF Phase

\* A node that a message or a tick leaves as it was still attends the round.
LEMMA AttendsKept ==
    ASSUME TypeOK, NEW n \in Node, NEW m \in 1 .. BidWindow, Attends(m, n),
           Unmoved(view[n], view'[n]),
           Waits(n) => Comes(Gateway, n, "TaskAnnounce")',
           view[n].st \in {"open", "bidding"} /\ BidComes(n) => BidComes(n)'
    PROVE  Attends(m, n)'
<1>1. Bidders(view'[n]) = Bidders(view[n])
  BY DEF Unmoved, Bidders
<1> QED
  BY <1>1 DEF Attends, Unmoved, Waits, InRound, Early

LEMMA RoundReceive ==
    ASSUME TypeOK, SplitTimers, NEW m \in 1 .. BidWindow, NEW w \in Robots, NEW c \in Costs,
           Round(m, w, c), NEW n \in Node, NEW s \in Node, NEW msg, NEW v \in View,
           NEW out \in Messages, NEW row, Hearing(n, s, msg, v, out, row)
    PROVE  Phase'
<1>0. PICK u \in View : u = view[n]
  BY DEF TypeOK
<1>1. /\ Step(n, v, out) /\ Makes(n, u, s, msg, v, out, row) /\ view'[n] = v
      /\ s # n /\ msg \in Way(s, n) /\ msg \in Message
      /\ msg.type \in {"TaskAnnounce", "Bid"}
      /\ Attends(m, n)
  BY <1>0 DEF Hearing, Round, OnlyOnWay, Step, Attends
<1>2. msg.type = "Bid" => Says(s, msg.cost) /\ s \in Robots /\ msg.cost # Infinity
  <2>1. msg.type = "Bid" => Says(s, msg.cost)
    BY <1>1 DEF Says
  <2>2. msg.type = "Bid" => msg.cost \in Price
    BY <1>1 DEF Message, Price
  <2> QED
    BY <2>1, <2>2 DEF Round, Honest, OwnBid
<1>3. \A o, b : Tells(u, o, b) => Says(o, b)
  BY <1>0 DEF Says
<1>4. CASE Unmoved(u, v) /\ out = <<>> /\ Ignores(u, s, msg)
  <2>1. Waits(n) => Comes(Gateway, n, "TaskAnnounce")'
    BY <1>0, <1>1, <1>4, FleetFacts DEF Ignores, Waits, Comes, Hearing
  <2>2. view[n].st \in {"open", "bidding"} /\ BidComes(n) => BidComes(n)'
    BY <1>0, <1>1, <1>4 DEF Ignores, BidComes, Comes, Hearing
  <2>3. Attends(m, n)'
    BY <1>0, <1>1, <1>4, <2>1, <2>2, AttendsKept
  <2>4. \A o, b : Tells(v, o, b) => Says(o, b)
    BY <1>3, <1>4 DEF Unmoved, Tells
  <2>5. \A b : OwnBid(n, b) => v.st = "bidding" /\ v.bids[n] = b /\ v.win = view[n].win
    BY <1>0, <1>4 DEF Unmoved, OwnBid
  <2> QED
    BY <1>1, <1>4, <2>3, <2>4, <2>5, NewContents, RoundKept
<1>5. CASE \E d \in BidCost : Joins(n, u, s, msg, v, d, row) /\ out = BidOut(d)
  <2>1. PICK d \in BidCost : Joins(n, u, s, msg, v, d, row) /\ out = BidOut(d)
    BY <1>5
  <2>2. m = BidWindow /\ u.st \in {"none", "open"}
    BY <1>0, <1>1, <2>1 DEF Joins, Attends, InRound, Early
  <2>3. Opened(n, v, d, row) /\ FirstBids(n, v, d)
    BY <1>1, <1>2, <2>1 DEF Joins, FirstBids
  <2> QED
    BY <1>0, <1>1, <2>1, <2>2, <2>3, RoundBid
<1>6. CASE Records(n, u, s, msg, v) /\ out = <<>>
  <2>1. /\ msg.type = "Bid" /\ u.st = "bidding" /\ v.st = "bidding" /\ v.win = u.win
        /\ \A r \in Robots : v.bids[r] = IF r = s THEN msg.cost ELSE u.bids[r]
    BY <1>1, <1>6 DEF Records
  <2>2. InRound(m, n)
    BY <1>0, <1>1, <2>1 DEF Attends, Waits, Early
  <2>3. s \in Bidders(v) /\ (n \in Bidders(v) => n \in Bidders(u))
    BY <1>1, <1>2, <2>1 DEF Bidders
  <2>4. Attends(m, n)'
    BY <1>0, <1>1, <2>1, <2>2, <2>3 DEF Attends, InRound
  <2>5. \A o, b : Tells(v, o, b) => Says(o, b)
    BY <1>2, <1>3, <2>1 DEF Tells
  <2>6. \A b : OwnBid(n, b) => v.st = "bidding" /\ v.bids[n] = b /\ v.win = view[n].win
    BY <1>0, <1>1, <2>1 DEF OwnBid
  <2> QED
    BY <1>1, <1>6, <2>4, <2>5, <2>6, NewContents, RoundKept
<1> QED
  BY <1>1, <1>4, <1>5, <1>6 DEF Makes, Heeded, Loud

LEMMA RoundTick ==
    ASSUME TypeOK, SplitTimers, NEW m \in 1 .. BidWindow, NEW w \in Robots, NEW c \in Costs,
           Round(m, w, c), NEW n \in Node, NEW v \in View, NEW sent \in Messages,
           Turning(n, v, sent)
    PROVE  Phase'
<1>0. PICK u \in View : u = view[n]
  BY DEF TypeOK
<1>1. /\ Step(n, v, sent) /\ Turns(n, u, v, sent) /\ view'[n] = v
      /\ Attends(m, n)
  BY <1>0 DEF Turning, Round, Step, Attends
<1>2. BidComes(n) => BidComes(n)'
  BY DEF BidComes, Comes, Turning
<1>3. \A o, b : Tells(u, o, b) => Says(o, b)
  BY <1>0 DEF Says
<1>4. CASE NothingDue(n, u, v, sent)
  <2>1. Waits(n) => Comes(Gateway, n, "TaskAnnounce")'
    BY FleetFacts DEF Waits, Comes, Turning
  <2>2. Attends(m, n)'
    BY <1>0, <1>1, <1>2, <1>4, <2>1, AttendsKept DEF NothingDue
  <2>3. \A o, b : Tells(v, o, b) => Says(o, b)
    BY <1>3, <1>4 DEF NothingDue, Unmoved, Tells
  <2>4. \A b : OwnBid(n, b) => v.st = "bidding" /\ v.bids[n] = b /\ v.win = view[n].win
    BY <1>0, <1>4 DEF NothingDue, Unmoved, OwnBid
  <2>5. Contents(sent) = {}
    BY <1>0, <1>1, <1>4 DEF NothingDue, Owns, Attends, Waits, InRound, Early
  <2> QED
    BY <1>1, <2>2, <2>3, <2>4, <2>5, RoundKept
<1>5. CASE NobodyBid(u, v, sent)
  <2>1. m = BidWindow /\ BidComes(n)'
    BY <1>0, <1>1, <1>2, <1>5 DEF NobodyBid, Attends, Waits, InRound, Early
  <2>2. Attends(m, n)'
    BY <1>1, <1>5, <2>1 DEF NobodyBid, Attends
  <2>3. \A o, b : Tells(v, o, b) => Says(o, b)
    BY <1>3, <1>5 DEF NobodyBid, Tells
  <2>4. \A b : ~OwnBid(n, b)
    BY <1>0, <1>5 DEF NobodyBid, OwnBid, Bidders
  <2> QED
    BY <1>1, <1>5, <2>2, <2>3, <2>4, RoundKept DEF NobodyBid
<1>6. CASE \E r \in Robots : Awards(n, u, v, sent, r)
  <2>1. PICK r \in Robots : Awards(n, u, v, sent, r)
    BY <1>6
  <2>2. n \notin Bidders(u)
    BY <1>0, <1>1, <2>1 DEF Awards, Attends, Waits, InRound, Early
  <2>3. r # n /\ Contents(sent) = {} /\ v.renew + m <= BidWindow
    BY <2>1, <2>2, TimerAssumption DEF Awards
  <2>4. Attends(m, n)'
    BY <1>1, <2>1, <2>3 DEF Attends, Early, Awards
  <2>5. \A o, b : Tells(v, o, b) => Tells(u, o, b)
    BY <2>1 DEF Awards, Tells, Bidders
  <2>6. \A b : ~OwnBid(n, b)
    BY <1>0, <2>2 DEF OwnBid, Bidders
  <2> QED
    BY <1>1, <1>3, <2>3, <2>4, <2>5, <2>6, RoundKept
<1>7. CASE \E d \in BidCost : Rebids(n, u, v, sent, d)
  <2>1. PICK d \in BidCost : Rebids(n, u, v, sent, d)
    BY <1>7
  <2>2. m = BidWindow /\ u.st = "open"
    BY <1>0, <1>1, <2>1 DEF Rebids, Attends, Waits, InRound, Early
  <2>3. Opened(n, v, d, heard[n]) /\ FirstBids(n, v, d) /\ Contents(sent) = Contents(BidOut(d))
    BY <2>1 DEF Rebids, FirstBids
  <2> QED
    BY <1>0, <1>1, <2>2, <2>3, RoundBid
<1> QED
  BY <1>1, <1>4, <1>5, <1>6, <1>7 DEF Turns

\* Time tells nobody anything new.
LEMMA SaysAged ==
    ASSUME TypeOK, TypeOK', alive = Node, MaxDelay = 0, Advance
    PROVE  /\ \A o, b : Says(o, b)' => Says(o, b)
           /\ \A o, b : OwnBid(o, b) => OwnBid(o, b)'
<1>1. /\ \A x \in Node : view'[x].st = view[x].st /\ view'[x].owner = view[x].owner
      /\ \A x \in Node : view'[x].cost = view[x].cost /\ view'[x].bids = view[x].bids
      /\ \A a, b \in Node : Way(a, b)' = {}
  BY AdvanceWay
<1>2. \A x \in Node : \A o, b : Tells(view'[x], o, b) => Tells(view[x], o, b)
  BY <1>1 DEF Tells
<1> QED
  BY <1>1, <1>2, PriceFacts DEF Says, OwnBid

\* A unit later the window of the round is a unit shorter, or closes.
LEMMA RoundAdvance ==
    ASSUME TypeOK, TypeOK', SplitTimers, alive = Node, Advance,
           NEW m \in 1 .. BidWindow, NEW w \in Robots, NEW c \in Costs, Round(m, w, c)
    PROVE  Phase'
<1>0. MaxDelay = 0 /\ BidWindow \in Nat /\ m \in Nat /\ m >= 1 /\ m <= BidWindow
  BY TimerAssumption DEF SplitTimers
<1>1. /\ ticked' = {}
      /\ \A a, b \in Node : Way(a, b) = {} /\ Way(a, b)' = {}
  BY <1>0, AdvanceWay
<1>2. ASSUME NEW x \in Node
      PROVE  /\ view'[x].st = view[x].st /\ view'[x].owner = view[x].owner
             /\ Bidders(view'[x]) = Bidders(view[x])
             /\ view'[x].win = Sooner(view[x].win) /\ view[x].win \in Nat
             /\ view[x].renew \in Nat
             /\ view'[x].renew \in Nat /\ view'[x].renew <= view[x].renew + 1
  <2>1. view[x].win \in 0 .. BidWindow /\ view[x].renew \in 0 .. Expiry + 1
    BY DEF TypeOK, View
  <2>2. view'[x].bids = view[x].bids
    BY <1>0, AdvanceWay
  <2>3. Bidders(view'[x]) = Bidders(view[x])
    BY <2>2 DEF Bidders
  <2> QED
    BY <1>0, <2>1, <2>3, AdvanceWay, TimerAssumption
<1>3. Honest' /\ AllBeaten(w, c)' /\ OwnBid(w, c)'
  <2>1. /\ \A o, b : Says(o, b)' => Says(o, b)
        /\ \A o, b : OwnBid(o, b) => OwnBid(o, b)'
    BY <1>0, SaysAged
  <2> QED
    BY <2>1 DEF Round, Honest, AllBeaten
<1>4. \A types : OnlyOnWay(types)'
  BY <1>1 DEF OnlyOnWay
<1>5. \A x \in Node : ~Waits(x) /\ ~BidComes(x)
  BY <1>1, FleetFacts DEF Waits, BidComes, Comes
<1>6. w \in Node /\ view'[w].win = m - 1
  BY <1>0, <1>2, PriceFacts DEF Round, Sooner
<1>7. CASE m = 1
  <2>1. Closing(w, c)'
    BY <1>1, <1>3, <1>6, <1>7 DEF Closing
  <2>2. ASSUME NEW x \in Node \ {w} PROVE WillHear(w, c, x)'
    <3>1. CASE InRound(m, x)
      <4>1. view'[x].st = "bidding" /\ view'[x].win = 0
        BY <1>2, <1>7, <3>1 DEF InRound, Sooner
      <4> QED
        BY <2>1, <4>1 DEF WillHear
    <3>2. CASE Early(m, x)
      <4>1. view'[x].st = "claimed" /\ view'[x].owner # x /\ view'[x].renew <= BidWindow
        <5>1. view[x].renew + 1 <= BidWindow
          BY <1>7, <3>2 DEF Early
        <5>2. view'[x].renew <= view[x].renew + 1 /\ view'[x].renew \in Nat /\ view[x].renew \in Nat
          BY <1>2
        <5>3. view'[x].renew <= BidWindow
          BY <1>0, <5>1, <5>2
        <5> QED
          BY <1>2, <3>2, <5>3 DEF Early
      <4> QED
        BY <2>1, <4>1 DEF WillHear
    <3> QED
      BY <1>5, <3>1, <3>2 DEF Round
  <2>3. Decided(w, c)'
    BY <1>3, <1>4, <2>1, <2>2 DEF Decided
  <2> QED
    BY <2>3 DEF Phase
<1>8. CASE m # 1
  <2>1. m - 1 \in 1 .. BidWindow
    BY <1>0, <1>8
  <2>2. ASSUME NEW x \in Node PROVE InRound(m - 1, x)' \/ Early(m - 1, x)'
    <3>1. CASE InRound(m, x)
      <4>1. /\ view'[x].win <= m - 1
            /\ view[x].win = m => view'[x].win = m - 1
        BY <1>0, <1>2, <3>1 DEF InRound, Sooner
      <4> QED
        BY <1>2, <1>5, <3>1, <4>1 DEF InRound
    <3>2. CASE Early(m, x)
      <4>1. view'[x].renew + (m - 1) <= BidWindow
        <5>1. view[x].renew + m <= BidWindow
          BY <3>2 DEF Early
        <5>2. view'[x].renew <= view[x].renew + 1 /\ view'[x].renew \in Nat /\ view[x].renew \in Nat
          BY <1>2
        <5> QED
          BY <1>0, <5>1, <5>2
      <4> QED
        BY <1>2, <3>2, <4>1 DEF Early
    <3> QED
      BY <1>5, <3>1, <3>2 DEF Round
  <2>3. Round(m - 1, w, c)'
    BY <1>3, <1>4, <1>6, <2>2 DEF Round
  <2> QED
    BY <2>1, <2>3 DEF Phase
<1> QED
  BY <1>7, <1>8

\* A step that tells nothing new, of w or of a node that still follows w or is
\* about to hear of it, leaves the outcome of the round decided.
LEMMA DecidedKept ==
    ASSUME TypeOK, NEW n \in Node, NEW v \in View, NEW sent, Step(n, v, sent),
           NEW w \in Robots, NEW c \in Costs, Decided(w, c),
           ticked \subseteq ticked', w \in ticked' => w \in ticked,
           \A o, b : Tells(v, o, b) => Says(o, b),
           \A msg \in Contents(sent) : \/ msg.type = "TaskAnnounce"
                                       \/ msg.type = "Claim" /\ Says(n, msg.cost),
           n = w /\ Closing(w, c) => v.st = "bidding" /\ v.bids[w] = c /\ v.win = 0,
           n = w /\ Owns(w, view[w]) => Owns(w, v) /\ v.cost = view[w].cost,
           n # w => Follows(w, c, n)' \/ WillHear(w, c, n)'
    PROVE  Phase'
<1>1. \A x \in Node : view'[x] = IF x = n THEN v ELSE view[x]
  BY DEF Step
<1>2. w \in Node
  BY PriceFacts
<1>3. Closing(w, c) => Closing(w, c)'
  BY <1>1, <1>2 DEF Closing, OwnBid
<1>4. AllBeaten(w, c)'
  <2>1. \A o, b : Says(o, b)' => Says(o, b)
    BY SaysKept
  <2> QED
    BY <2>1 DEF AllBeaten, Decided
<1>5. \/ Closing(w, c)' /\ OnlyOnWay({"TaskAnnounce", "Claim"})'
      \/ /\ Owns(w, view'[w]) /\ view'[w].cost = c
         /\ OnlyOnWay(Loud \union {"TaskAnnounce"})'
  <2>1. CASE Closing(w, c) /\ OnlyOnWay({"TaskAnnounce", "Claim"})
    BY <1>3, <2>1 DEF OnlyOnWay, Step
  <2>2. CASE Owns(w, view[w]) /\ view[w].cost = c /\ OnlyOnWay(Loud \union {"TaskAnnounce"})
    <3>1. OnlyOnWay(Loud \union {"TaskAnnounce"})'
      BY <2>2 DEF OnlyOnWay, Step, Loud
    <3> QED
      BY <1>1, <1>2, <2>2, <3>1
  <2> QED
    BY <2>1, <2>2 DEF Decided
<1>6. ASSUME NEW x \in Node \ {w} PROVE Follows(w, c, x)' \/ WillHear(w, c, x)'
  <2>1. CASE x # n
    <3>1. view'[x] = view[x]
      BY <1>1, <2>1
    <3>2. ClaimComes(w, c, x) => ClaimComes(w, c, x)'
      BY <1>2, <2>1 DEF ClaimComes, Step
    <3>3. Follows(w, c, x) => Follows(w, c, x)'
      BY <1>3, <3>1, <3>2 DEF Follows
    <3>4. WillHear(w, c, x) => WillHear(w, c, x)'
      BY <1>3, <3>1, <3>2 DEF WillHear
    <3> QED
      BY <3>3, <3>4 DEF Decided
  <2> QED
    BY <2>1
<1>7. Decided(w, c)'
  BY <1>4, <1>5, <1>6 DEF Decided
<1> QED
  BY <1>7 DEF Phase

\* What node x makes of w's claim: x is beaten, whatever it holds.
LEMMA DecidedFacts ==
    ASSUME TypeOK, NEW w \in Robots, NEW c \in Costs, Decided(w, c), NEW x \in Node,
           NEW u \in View, u = view[x]
    PROVE  /\ u.st \in {"open", "bidding", "claimed"}
           /\ u.st = "claimed" => /\ u.owner \in Robots
                                  /\ u.owner = w => u.cost = c
                                  /\ u.owner # w => Beats(c, w, u.cost, u.owner)
           /\ \A r \in Bidders(u) : r # w => Beats(c, w, u.bids[r], r)
           /\ \A o, b : Tells(u, o, b) => Says(o, b)
           /\ x = w => \/ Closing(w, c) /\ u.st = "bidding" /\ u.bids[w] = c /\ u.win = 0
                       \/ u.st = "claimed" /\ u.owner = w /\ u.cost = c
           /\ x # w => Follows(w, c, x) \/ WillHear(w, c, x)
<1>1. x = w => \/ Closing(w, c) /\ u.st = "bidding" /\ u.bids[w] = c /\ u.win = 0
               \/ u.st = "claimed" /\ u.owner = w /\ u.cost = c
  BY DEF Decided, Closing, OwnBid, Owns
<1>2. x # w => Follows(w, c, x) \/ WillHear(w, c, x)
  BY DEF Decided
<1>3. u.st \in {"open", "bidding", "claimed"}
  BY <1>1, <1>2 DEF Follows, WillHear
<1>4. \A o, b : Tells(u, o, b) => Says(o, b)
  BY DEF Says
<1>5. u.st = "claimed" => /\ u.owner \in Robots
                          /\ u.owner = w => u.cost = c
                          /\ u.owner # w => Beats(c, w, u.cost, u.owner)
  <2>1. u.owner \in Node \union {NoOwner} /\ u.cost \in Price
    BY DEF View, Price
  <2>2. u.st = "claimed" => Says(u.owner, u.cost)
    BY <1>4 DEF Tells
  <2> QED
    BY <2>1, <2>2 DEF Decided, AllBeaten, Beaten
<1>6. ASSUME NEW r \in Bidders(u), r # w PROVE Beats(c, w, u.bids[r], r)
  <2>1. r \in Robots /\ u.bids[r] \in Price /\ u.bids[r] # Infinity
    BY DEF Bidders, View, Price
  <2>2. Says(r, u.bids[r])
    BY <1>4, <2>1 DEF Tells
  <2> QED
    BY <1>6, <2>1, <2>2, PriceFacts DEF Decided, AllBeaten, Beaten
<1> QED
  BY <1>1, <1>2, <1>3, <1>4, <1>5, <1>6

LEMMA DecidedReceive ==
    ASSUME TypeOK, SplitTimers, NEW w \in Robots, NEW c \in Costs, Decided(w, c),
           NEW n \in Node, NEW s \in Node, NEW msg, NEW v \in View,
           NEW out \in Messages, NEW row, Hearing(n, s, msg, v, out, row)
    PROVE  Phase'
<1>0. PICK u \in View : u = view[n]
  BY DEF TypeOK
<1>1. /\ Step(n, v, out) /\ Makes(n, u, s, msg, v, out, row) /\ view'[n] = v
      /\ s # n /\ msg \in Way(s, n) /\ msg \in Message /\ ticked' = ticked
      /\ msg.type \in Loud \union {"TaskAnnounce"}
      /\ Closing(w, c) => msg.type # "LeaseBeacon"
      /\ w \in Node
  BY <1>0, PriceFacts DEF Hearing, Decided, OnlyOnWay, Step, Loud, Closing, OwnBid, Owns
<1>2. /\ u.st \in {"open", "bidding", "claimed"}
      /\ u.st = "claimed" => /\ u.owner \in Robots
                             /\ u.owner = w => u.cost = c
                             /\ u.owner # w => Beats(c, w, u.cost, u.owner)
      /\ \A r \in Bidders(u) : r # w => Beats(c, w, u.bids[r], r)
      /\ \A o, b : Tells(u, o, b) => Says(o, b)
      /\ n = w => \/ Closing(w, c) /\ u.st = "bidding" /\ u.bids[w] = c /\ u.win = 0
                  \/ u.st = "claimed" /\ u.owner = w /\ u.cost = c
      /\ n # w => Follows(w, c, n) \/ WillHear(w, c, n)
  BY <1>0, DecidedFacts
<1>3. /\ msg.type \in Loud => Says(s, msg.cost) /\ s \in Robots
      /\ msg.type \in Loud => msg.cost \in Int
      /\ msg.type \in Loud /\ s = w => msg.cost = c
      /\ msg.type \in Loud /\ s # w => /\ Beats(c, w, msg.cost, s)
                                       /\ ~Beats(msg.cost, s, c, w)
  <2>1. msg.type \in Loud => Says(s, msg.cost) /\ msg.cost \in Price
    BY <1>1 DEF Says, Message, Price, Loud
  <2>2. msg.type \in Loud => s \in Robots /\ Beaten(w, c, s, msg.cost)
    BY <2>1 DEF Decided, AllBeaten
  <2>3. msg.type \in Loud /\ s # w => Beats(c, w, msg.cost, s)
    BY <2>2 DEF Beaten
  <2>4. msg.type \in Loud => msg.cost \in Int /\ c \in Int /\ s \in Nat /\ w \in Nat
    BY <2>1, <2>2, PriceFacts
  <2> QED
    BY <2>1, <2>2, <2>3, <2>4, BeatsOneWay DEF Beaten
<1>4. n # w /\ ~(s = w /\ msg.type \in Loud) => (ClaimComes(w, c, n) => ClaimComes(w, c, n)')
  BY <1>1 DEF ClaimComes, Hearing
<1>5. Closing(w, c) /\ n # w => Closing(w, c)'
  BY <1>1 DEF Closing, OwnBid, Step
<1>6. CASE Unmoved(u, v) /\ out = <<>> /\ Ignores(u, s, msg)
  <2>1. n # w => ~(s = w /\ msg.type \in Loud)
    BY <1>2, <1>3, <1>6 DEF Ignores, Finished
  <2>2. n # w => Follows(w, c, n)' \/ WillHear(w, c, n)'
    BY <1>0, <1>1, <1>2, <1>4, <1>5, <1>6, <2>1 DEF Follows, WillHear, Unmoved
  <2>3. \A o, b : Tells(v, o, b) => Says(o, b)
    BY <1>2, <1>6 DEF Unmoved, Tells
  <2>4. /\ n = w /\ Closing(w, c) => v.st = "bidding" /\ v.bids[w] = c /\ v.win = 0
        /\ n = w /\ Owns(w, view[w]) => Owns(w, v) /\ v.cost = view[w].cost
    BY <1>0, <1>6 DEF Unmoved, Closing, OwnBid, Owns
  <2> QED
    BY <1>1, <1>6, <2>2, <2>3, <2>4, NewContents, DecidedKept
<1>7. ~(\E d \in BidCost : Joins(n, u, s, msg, v, d, row))
  BY <1>1, <1>2 DEF Joins, Loud
<1>8. CASE Records(n, u, s, msg, v) /\ out = <<>>
  <2>1. /\ msg.type = "Claim" /\ u.st = "bidding" /\ v.st = "bidding" /\ v.win = u.win
        /\ Cheaper(n, u, s, msg.cost)
        /\ \A r \in Robots : v.bids[r] = IF r = s THEN msg.cost ELSE u.bids[r]
    BY <1>1, <1>8 DEF Records, Loud
  <2>2. n # w => s # w
    <3> SUFFICES ASSUME n # w, s = w PROVE FALSE
      OBVIOUS
    <3>1. Beats(c, w, u.bids[n], n) /\ Beats(u.bids[n], n, c, w) /\ n \in Bidders(u)
      BY <1>2, <1>3, <2>1 DEF Cheaper, Loud
    <3>2. u.bids[n] \in Int /\ c \in Int /\ n \in Nat /\ w \in Nat
      BY <3>1, PriceFacts, CostAssumption DEF Bidders, View
    <3> QED
      BY <3>1, <3>2, BeatsOneWay
  <2>3. n # w => WillHear(w, c, n)'
    BY <1>0, <1>1, <1>2, <1>4, <1>5, <2>1, <2>2 DEF Follows, WillHear
  <2>4. \A o, b : Tells(v, o, b) => Says(o, b)
    BY <1>2, <1>3, <2>1 DEF Tells, Loud
  <2>5. /\ n = w /\ Closing(w, c) => v.st = "bidding" /\ v.bids[w] = c /\ v.win = 0
        /\ ~(n = w /\ Owns(w, view[w]))
    BY <1>0, <1>1, <2>1 DEF Closing, OwnBid, Owns
  <2> QED
    BY <1>1, <1>8, <2>3, <2>4, <2>5, NewContents, DecidedKept
<1>9. CASE Heeded(n, u, s, msg, v) /\ out = <<>>
  <2>1. /\ msg.type \in Loud
        /\ msg.type = "Claim" => ~Cheaper(n, u, s, msg.cost)
        /\ u.st = "claimed" => u.owner = s \/ Beats(msg.cost, s, u.cost, u.owner)
        /\ v.st = "claimed" /\ v.owner = s /\ v.cost = msg.cost /\ v.renew = 0
        /\ \A r \in Robots : v.bids[r] = Infinity
    BY <1>9 DEF Heeded
  <2>2. n # w
    <3> SUFFICES ASSUME n = w PROVE FALSE
      OBVIOUS
    <3>1. Beats(c, w, msg.cost, s) /\ ~Beats(msg.cost, s, c, w)
      BY <1>1, <1>3, <2>1
    <3>2. CASE Closing(w, c) /\ u.st = "bidding" /\ u.bids[w] = c
      <4>1. w \in Bidders(u) /\ msg.type = "Claim"
        BY <1>1, <2>1, <3>2, PriceFacts DEF Bidders, Loud
      <4> QED
        BY <2>1, <3>1, <3>2, <4>1 DEF Cheaper
    <3>3. CASE u.st = "claimed" /\ u.owner = w /\ u.cost = c
      BY <1>1, <2>1, <3>1, <3>3
    <3> QED
      BY <1>2, <3>2, <3>3
  <2>3. 0 <= BidWindow
    BY TimerAssumption
  <2>4. CASE s = w
    <3>1. Follows(w, c, n)'
      BY <1>1, <2>1, <2>3, <2>4 DEF Follows
    <3> QED
      BY <1>1, <1>3, <1>9, <2>1, <2>2, <3>1, NewContents, DecidedKept DEF Tells
  <2>5. CASE s # w
    <3>1. ~Follows(w, c, n)
      BY <1>0, <1>2, <1>3, <2>1, <2>5 DEF Follows
    <3>2. WillHear(w, c, n)
      BY <1>2, <2>2, <3>1
    <3>3. Closing(w, c)' \/ ClaimComes(w, c, n)'
      BY <1>4, <1>5, <2>2, <2>5, <3>2 DEF WillHear
    <3>4. WillHear(w, c, n)'
      BY <1>1, <2>1, <2>3, <3>3 DEF WillHear
    <3> QED
      BY <1>1, <1>3, <1>9, <2>1, <2>2, <3>4, NewContents, DecidedKept DEF Tells
  <2> QED
    BY <2>4, <2>5
<1> QED
  BY <1>1, <1>6, <1>7, <1>8, <1>9 DEF Makes

\* The tick of w takes the task, or repeats that it has it: everybody is told.
LEMMA DecidedOwnTick ==
    ASSUME TypeOK, SplitTimers, NEW w \in Robots, NEW c \in Costs, Decided(w, c),
           NEW v \in View, NEW sent \in Messages, Turning(w, v, sent)
    PROVE  Phase'
<1>0. w \in Node
  BY PriceFacts
<1>1. PICK u \in View : u = view[w]
  BY <1>0 DEF TypeOK
<1>2. /\ Step(w, v, sent) /\ Turns(w, u, v, sent) /\ ticked \subseteq ticked'
      /\ \A x \in Node : view'[x] = IF x = w THEN v ELSE view[x]
  BY <1>1 DEF Turning, Step
<1>3. /\ \/ Closing(w, c) /\ u.st = "bidding" /\ u.bids[w] = c /\ u.win = 0
         \/ u.st = "claimed" /\ u.owner = w /\ u.cost = c
      /\ \A r \in Bidders(u) : r # w => Beats(c, w, u.bids[r], r)
      /\ \A o, b : Tells(u, o, b) => Says(o, b)
  BY <1>0, <1>1, DecidedFacts
<1>4. Says(w, c)
  <2>1. Tells(u, w, c)
    BY <1>3, PriceFacts DEF Tells
  <2> QED
    BY <1>3, <2>1
<1>5. /\ v.st = "claimed" /\ v.owner = w /\ v.cost = c
      /\ \A o, b : Tells(v, o, b) => Says(o, b)
      /\ Contents(sent) # {}
      /\ \A msg \in Contents(sent) : msg.type \in Loud /\ msg.cost = c
  <2>1. CASE u.st = "bidding" /\ u.bids[w] = c /\ u.win = 0
    <3>1. w \in Bidders(u)
      BY <2>1, PriceFacts DEF Bidders
    <3>2. PICK r \in Robots : Awards(w, u, v, sent, r)
      BY <1>2, <2>1, <3>1 DEF Turns, NothingDue, NobodyBid, Rebids
    <3>3. r = w
      <4> SUFFICES ASSUME r # w PROVE FALSE
        OBVIOUS
      <4>1. Beats(u.bids[r], r, c, w) /\ Beats(c, w, u.bids[r], r)
        BY <1>3, <2>1, <3>1, <3>2 DEF Awards
      <4>2. u.bids[r] \in Costs \union {Infinity}
        BY DEF View
      <4>3. u.bids[r] \in Int /\ c \in Int /\ r \in Nat /\ w \in Nat
        BY <4>2, PriceFacts, CostAssumption
      <4> QED
        BY <4>1, <4>3, BeatsOneWay
    <3>4. /\ v.st = "claimed" /\ v.owner = w /\ v.cost = c
          /\ \A o \in Robots : v.bids[o] = Infinity
          /\ Contents(sent) = {Msg("Claim", c)}
      BY <2>1, <3>2, <3>3 DEF Awards
    <3>5. \A o, b : Tells(v, o, b) => Says(o, b)
      BY <1>4, <3>4 DEF Tells
    <3> QED
      BY <3>4, <3>5 DEF Msg, Loud
  <2>2. CASE u.st = "claimed" /\ u.owner = w /\ u.cost = c
    <3>1. NothingDue(w, u, v, sent)
      BY <1>2, <2>2 DEF Turns, Awards, NobodyBid, Rebids
    <3>2. /\ v.st = "claimed" /\ v.owner = w /\ v.cost = c
          /\ Contents(sent) = {Msg("LeaseBeacon", c)}
      BY <2>2, <3>1 DEF NothingDue, Unmoved, Owns
    <3>3. \A o, b : Tells(v, o, b) => Says(o, b)
      BY <1>3, <3>1 DEF NothingDue, Unmoved, Tells
    <3> QED
      BY <3>2, <3>3 DEF Msg, Loud
  <2> QED
    BY <1>3, <2>1, <2>2
<1>6. AllBeaten(w, c)'
  <2>1. \A o, b : Says(o, b)' => Says(o, b)
    BY <1>0, <1>2, <1>4, <1>5, SaysKept
  <2> QED
    BY <2>1 DEF AllBeaten, Decided
<1>7. Owns(w, view'[w]) /\ view'[w].cost = c /\ OnlyOnWay(Loud \union {"TaskAnnounce"})'
  <2>1. OnlyOnWay(Loud \union {"TaskAnnounce"})
    BY DEF Decided, OnlyOnWay, Loud
  <2>2. OnlyOnWay(Loud \union {"TaskAnnounce"})'
    BY <1>2, <1>5, <2>1 DEF OnlyOnWay, Step
  <2> QED
    BY <1>0, <1>2, <1>5, <2>2 DEF Owns
<1>8. ASSUME NEW x \in Node \ {w} PROVE Follows(w, c, x)' \/ WillHear(w, c, x)'
  <2>1. view'[x] = view[x]
    BY <1>2
  <2>2. ClaimComes(w, c, x)'
    <3>1. Contents(sent) \subseteq Way(w, x)'
      BY <1>2 DEF Step
    <3> QED
      BY <1>5, <3>1 DEF ClaimComes
  <2>3. Follows(w, c, x) \/ WillHear(w, c, x)
    BY DEF Decided
  <2> QED
    BY <1>2, <2>1, <2>2, <2>3 DEF Follows, WillHear
<1>9. Decided(w, c)'
  BY <1>6, <1>7, <1>8 DEF Decided
<1> QED
  BY <1>9 DEF Phase

LEMMA DecidedTick ==
    ASSUME TypeOK, SplitTimers, NEW w \in Robots, NEW c \in Costs, Decided(w, c),
           NEW n \in Node, NEW v \in View, NEW sent \in Messages, Turning(n, v, sent)
    PROVE  Phase'
<1>0. PICK u \in View : u = view[n]
  BY DEF TypeOK
<1>1. /\ Step(n, v, sent) /\ Turns(n, u, v, sent) /\ view'[n] = v
      /\ n \notin ticked /\ ticked' = ticked \union {n}
  BY <1>0 DEF Turning, Step
<1> SUFFICES ASSUME n # w PROVE Phase'
  BY DecidedOwnTick
<1>2. /\ \A o, b : Tells(u, o, b) => Says(o, b)
      /\ Follows(w, c, n) \/ WillHear(w, c, n)
  BY <1>0, DecidedFacts
<1>3. ClaimComes(w, c, n) => ClaimComes(w, c, n)'
  BY PriceFacts DEF ClaimComes, Turning
<1>4. /\ Closing(w, c) => Closing(w, c)'
      /\ w \notin ticked => w \notin ticked'
  BY <1>1, PriceFacts DEF Closing, OwnBid, Step
<1>5. CASE NothingDue(n, u, v, sent)
  <2>1. u.st = "claimed" => u.owner # n
    BY <1>0, <1>1, <1>2 DEF Follows, WillHear
  <2>2. Contents(sent) = {}
    BY <1>5, <2>1 DEF NothingDue, Owns
  <2>3. Follows(w, c, n)' \/ WillHear(w, c, n)'
    BY <1>0, <1>1, <1>2, <1>3, <1>4, <1>5 DEF Follows, WillHear, NothingDue, Unmoved
  <2>4. \A o, b : Tells(v, o, b) => Says(o, b)
    BY <1>2, <1>5 DEF NothingDue, Unmoved, Tells
  <2> QED
    BY <1>1, <1>4, <2>2, <2>3, <2>4, DecidedKept
<1>6. CASE NobodyBid(u, v, sent)
  <2>1. WillHear(w, c, n)'
    BY <1>0, <1>1, <1>2, <1>3, <1>4, <1>6 DEF Follows, WillHear, NobodyBid
  <2>2. \A o, b : Tells(v, o, b) => Says(o, b)
    BY <1>2, <1>6 DEF NobodyBid, Tells
  <2>3. Contents(sent) = {}
    BY <1>6 DEF NobodyBid
  <2> QED
    BY <1>1, <1>4, <2>1, <2>2, <2>3, DecidedKept
<1>7. CASE \E r \in Robots : Awards(n, u, v, sent, r)
  <2>1. PICK r \in Robots : Awards(n, u, v, sent, r)
    BY <1>7
  <2>2. WillHear(w, c, n)'
    <3>1. v.st = "claimed" /\ v.renew = 0 /\ u.st = "bidding"
      BY <2>1 DEF Awards
    <3>2. Closing(w, c)' \/ ClaimComes(w, c, n)'
      BY <1>0, <1>2, <1>3, <1>4, <3>1 DEF Follows, WillHear
    <3>3. v.renew <= BidWindow /\ n \in ticked'
      BY <1>1, <3>1, TimerAssumption
    <3> QED
      BY <1>1, <3>1, <3>2, <3>3 DEF WillHear
  <2>3. \A o, b : Tells(v, o, b) => Tells(u, o, b)
    BY <2>1 DEF Awards, Tells, Bidders
  <2>4. \A msg \in Contents(sent) : msg.type = "Claim" /\ Says(n, msg.cost)
    <3>1. Contents(sent) # {} => r = n /\ Contents(sent) = {Msg("Claim", v.cost)}
      BY <2>1 DEF Awards
    <3>2. Tells(v, r, v.cost)
      BY <2>1 DEF Awards, Tells
    <3> QED
      BY <1>2, <2>3, <3>1, <3>2 DEF Msg
  <2> QED
    BY <1>1, <1>2, <1>4, <2>2, <2>3, <2>4, DecidedKept
<1>8. CASE \E d \in BidCost : Rebids(n, u, v, sent, d)
  BY <1>0, <1>1, <1>2, <1>8 DEF Rebids, Follows, WillHear
<1> QED
  BY <1>1, <1>5, <1>6, <1>7, <1>8 DEF Turns

\* When time passes every node has heard of w.
LEMMA DecidedAdvance ==
    ASSUME TypeOK, TypeOK', SplitTimers, alive = Node, Advance,
           NEW w \in Robots, NEW c \in Costs, Decided(w, c)
    PROVE  Phase'
<1>0. MaxDelay = 0 /\ BidWindow \in Nat /\ BidWindow >= 1 /\ w \in Node
  BY TimerAssumption, PriceFacts DEF SplitTimers
<1>1. /\ ticked = Node /\ ticked' = {}
      /\ \A a, b \in Node : Way(a, b) = {} /\ Way(a, b)' = {}
      /\ \A x \in Node :
             /\ view'[x].st = view[x].st /\ view'[x].owner = view[x].owner
             /\ view'[x].cost = view[x].cost
             /\ view'[x].renew \in Nat /\ view'[x].renew <= view[x].renew + 1
  BY <1>0, AdvanceWay
<1>2. ~Closing(w, c) /\ \A x \in Node : ~ClaimComes(w, c, x)
  BY <1>0, <1>1 DEF Closing, ClaimComes
<1>3. ASSUME NEW x \in Node \ {w} PROVE Follows(w, c, x)'
  <2>1. view[x].st = "claimed" /\ view[x].owner = w /\ view[x].renew = 0
    BY <1>0, <1>1, <1>2 DEF Decided, Follows, WillHear
  <2>2. view'[x].renew <= 1 /\ view'[x].renew \in Nat
    BY <1>1, <2>1
  <2>3. view'[x].renew <= BidWindow /\ w \notin ticked'
    BY <1>0, <1>1, <2>2
  <2> QED
    BY <1>1, <2>1, <2>2, <2>3 DEF Follows
<1>4. Owns(w, view'[w]) /\ view'[w].cost = c
  BY <1>0, <1>1, <1>2 DEF Decided, Owns
<1>5. OnlyOnWay(Loud \union {"TaskAnnounce"})'
  BY <1>1 DEF OnlyOnWay
<1>6. AllBeaten(w, c)'
  <2>1. \A o, b : Says(o, b)' => Says(o, b)
    BY <1>0, SaysAged
  <2> QED
    BY <2>1 DEF AllBeaten, Decided
<1>7. Decided(w, c)'
  BY <1>3, <1>4, <1>5, <1>6 DEF Decided
<1> QED
  BY <1>7 DEF Phase

\* The call that announces the task, and those that repeat the announcement.
LEMMA AnnouncePhase ==
    ASSUME TypeOK, Phase, alive = Node, blocked = {}, Announce \/ Reannounce
    PROVE  Phase'
<1> DEFINE n == Gateway
           out == <<Msg("TaskAnnounce", Infinity)>>
<1>1. n \in Node /\ n \notin Robots /\ out \in Messages /\ Contents(out) = {Msg("TaskAnnounce", Infinity)}
  BY FleetFacts, FleetAssumption, MessageOutType, NewContents DEF MsgType, BidCost
<1>2. Msg("TaskAnnounce", Infinity).type = "TaskAnnounce"
  BY DEF Msg
<1>3. PICK u \in View : u = view[n]
  BY <1>1 DEF TypeOK
<1> HIDE DEF n, out
<1>4. CASE Announce
  <2>1. PICK f \in View : f = [NoTask EXCEPT !.known = TRUE]
    BY NoTaskType DEF View
  <2>2. Infinity \in BidCost
    BY DEF BidCost
  <2>3. PICK v \in View : v = OpenBidding(n, f, Infinity)
    BY <1>1, <2>2, OpenBiddingWindow
  <2>4. v.st = "bidding"
    BY <1>1, <2>2, <2>3, OpenBiddingWindow
  <2>5. Bidders(v) = {}
    BY <1>1, <2>1, <2>3 DEF OpenBidding, Bidders, View
  <2>6. Moves(n, v, out) /\ u.st = "none"
    BY <1>3, <1>4, <2>1, <2>3 DEF Announce, Called, Moves, n, out
  <2>7. Step(n, v, out)
    BY <1>1, <2>6, MovesStep
  <2>8. Untold
    BY <1>1, <1>3, <2>6, FleetFacts
      DEF Phase, Lull, Waits, Round, InRound, Early, Decided, Follows, WillHear, n
  <2> QED
    BY <1>1, <2>4, <2>5, <2>7, <2>8, UntoldSteps DEF n
<1>5. CASE Reannounce
  <2>1. Moves(n, u, out) /\ ticked' = ticked /\ u.st \in {"open", "bidding"}
    BY <1>3, <1>5 DEF Reannounce, Called, Moves, n, out
  <2>2. Step(n, u, out) /\ \A a \in Node : Way(a, n) \subseteq Way(a, n)'
    BY <1>1, <2>1, MovesStep
  <2>3. view'[n] = u /\ \A x \in Node : view'[x] = view[x]
    BY <1>1, <1>3, <2>2 DEF Step
  <2>4. \A msg \in Contents(out) : msg.type = "TaskAnnounce"
    BY <1>1, <1>2
  <2>5. \A o, b : Tells(u, o, b) => Says(o, b)
    BY <1>1, <1>3 DEF Says
  <2>6. ~Untold
    BY <1>1, <1>3, <2>1 DEF Untold
  <2>7. CASE Lull
    <3>1. Bidders(u) = {}
      BY <1>1, <1>3, <2>7 DEF Lull
    <3> QED
      BY <1>1, <2>1, <2>2, <2>4, <2>7, <3>1, LullKept
  <2>8. ASSUME NEW m \in 1 .. BidWindow, NEW w \in Robots, NEW c \in Costs, Round(m, w, c)
        PROVE  Phase'
    <3>1. Attends(m, n)
      BY <1>1, <2>8 DEF Round, Attends
    <3>2. Unmoved(view[n], view'[n])
      BY <1>3, <2>3 DEF Unmoved
    <3>3. /\ Waits(n) => Comes(Gateway, n, "TaskAnnounce")'
          /\ BidComes(n) => BidComes(n)'
      BY <1>1, <2>2, FleetFacts DEF Waits, Comes, BidComes
    <3>4. Attends(m, n)'
      BY <1>1, <3>1, <3>2, <3>3, AttendsKept
    <3>5. \A b : OwnBid(n, b) => u.st = "bidding" /\ u.bids[n] = b /\ u.win = view[n].win
      BY <1>3 DEF OwnBid
    <3> QED
      BY <1>1, <2>2, <2>4, <2>5, <2>8, <3>4, <3>5, RoundKept
  <2>9. ASSUME NEW w \in Robots, NEW c \in Costs, Decided(w, c)
        PROVE  Phase'
    <3>1. w \in Node /\ n # w
      BY <1>1, FleetFacts
    <3>2. Closing(w, c) => Closing(w, c)'
      BY <2>1, <2>3, <3>1 DEF Closing, OwnBid
    <3>3. ClaimComes(w, c, n) => ClaimComes(w, c, n)'
      BY <1>1, <2>2, <3>1 DEF ClaimComes
    <3>4. Follows(w, c, n) \/ WillHear(w, c, n)
      BY <1>1, <2>9, <3>1 DEF Decided
    <3>5. Follows(w, c, n)' \/ WillHear(w, c, n)'
      BY <1>1, <2>1, <2>3, <3>2, <3>3, <3>4 DEF Follows, WillHear
    <3> QED
      BY <1>1, <2>1, <2>2, <2>4, <2>5, <2>9, <3>1, <3>5, DecidedKept
  <2> QED
    BY <2>6, <2>7, <2>8, <2>9 DEF Phase
<1> QED
  BY <1>4, <1>5

\* Time passes for a fleet that is together.
LEMMA AdvancePhase ==
    ASSUME TypeOK, TypeOK', SplitTimers, alive = Node, Phase, Advance
    PROVE  Phase'
<1>1. /\ \A a, b \in Node : Way(a, b) = {} /\ Way(a, b)' = {}
      /\ \A x \in Node : view'[x].st = view[x].st /\ view'[x].bids = view[x].bids
  BY AdvanceWay DEF SplitTimers
<1>2. CASE Untold
  <2>1. Untold'
    BY <1>1, <1>2 DEF Untold, Bidders
  <2> QED
    BY <2>1 DEF Phase
<1>3. CASE Lull
  <2>1. \A x \in Node : view[x].st \in {"open", "bidding"}
    BY <1>1, <1>3, FleetFacts DEF Lull, Waits, Comes
  <2>2. Lull'
    BY <1>1, <1>3, <2>1 DEF Lull, Bidders, OnlyOnWay
  <2> QED
    BY <2>2 DEF Phase
<1> QED
  BY <1>2, <1>3, RoundAdvance, DecidedAdvance DEF Phase

\* In every phase only calls, bids, claims and beacons are on the way.
LEMMA PhaseCalm ==
    ASSUME Phase
    PROVE  \A a, b \in Node : \A msg \in Way(a, b) : msg.type \in Calm
BY DEF Phase, Untold, Lull, Round, Decided, OnlyOnWay, Calm, Loud

LEMMA HearingPhase ==
    ASSUME TypeOK, SplitTimers, Phase, NEW n \in Node, NEW s \in Node, NEW msg, NEW v \in View,
           NEW out \in Messages, NEW row, Hearing(n, s, msg, v, out, row)
    PROVE  Phase'
<1>1. ~Untold
  BY UntoldSteps
<1>2. Lull => Phase'
  BY LullReceive
<1>3. \A m \in 1 .. BidWindow, w \in Robots, c \in Costs : Round(m, w, c) => Phase'
  BY RoundReceive
<1>4. \A w \in Robots, c \in Costs : Decided(w, c) => Phase'
  BY DecidedReceive
<1> QED
  BY <1>1, <1>2, <1>3, <1>4 DEF Phase

LEMMA TurningPhase ==
    ASSUME TypeOK, SplitTimers, Phase, NEW n \in Node, NEW v \in View, NEW sent \in Messages,
           Turning(n, v, sent)
    PROVE  Phase'
<1>1. Untold => Phase'
  BY UntoldSteps
<1>2. Lull => Phase'
  BY LullTick
<1>3. \A m \in 1 .. BidWindow, w \in Robots, c \in Costs : Round(m, w, c) => Phase'
  BY RoundTick
<1>4. \A w \in Robots, c \in Costs : Decided(w, c) => Phase'
  BY DecidedTick
<1> QED
  BY <1>1, <1>2, <1>3, <1>4 DEF Phase

LEMMA MakesEngaged ==
    ASSUME NEW n \in Robots, NEW s, s # n, NEW u, NEW msg, NEW v \in View, NEW out, NEW row,
           Makes(n, u, s, msg, v, out, row),
           (v.st = "bidding" /\ n \in Bidders(v)) \/ Owns(n, v)
    PROVE  (u.st = "bidding" /\ n \in Bidders(u)) \/ Owns(n, u) \/ HasQuorum(row, n)
<1>1. CASE Unmoved(u, v)
  BY <1>1 DEF Unmoved, Bidders, Owns
<1>2. CASE \E c \in BidCost : Joins(n, u, s, msg, v, c, row)
  BY <1>2 DEF Joins, Opened, Bidders, Owns
<1>3. CASE Records(n, u, s, msg, v)
  BY <1>3 DEF Records, Bidders, Owns
<1>4. CASE Heeded(n, u, s, msg, v)
  BY <1>4 DEF Heeded, Owns
<1> QED
  BY <1>1, <1>2, <1>3, <1>4 DEF Makes

LEMMA TurnsEngaged ==
    ASSUME NEW n \in Robots, NEW u, NEW v \in View, NEW sent, Turns(n, u, v, sent),
           (v.st = "bidding" /\ n \in Bidders(v)) \/ Owns(n, v)
    PROVE  (u.st = "bidding" /\ n \in Bidders(u)) \/ Owns(n, u) \/ HasQuorum(heard[n], n)
<1>1. CASE NothingDue(n, u, v, sent)
  BY <1>1 DEF NothingDue, Unmoved, Bidders, Owns
<1>2. CASE NobodyBid(u, v, sent)
  BY <1>2 DEF NobodyBid, Owns
<1>3. CASE \E r \in Robots : Awards(n, u, v, sent, r)
  BY <1>3 DEF Awards, Owns
<1>4. CASE \E c \in BidCost : Rebids(n, u, v, sent, c)
  BY <1>4 DEF Rebids, Opened, Bidders, Owns
<1> QED
  BY <1>1, <1>2, <1>3, <1>4 DEF Turns

LEMMA TogetherReceive ==
    ASSUME TypeOK, SplitTimers, alive = Node, Together, NEW n \in Node, Receive(n)
    PROVE  Together'
<1>1. \A a \in Node : \A msg \in Way(a, n) : msg.type \in Calm
  BY PhaseCalm DEF Together
<1>2. PICK s \in Node, v \in View, out \in Messages :
          /\ s # n /\ chan[s][n] # <<>>
          /\ Handled(n, s, v, out)
          /\ Makes(n, view[n], s, Head(chan[s][n]), v, out, Hear(n, s)[n])
  BY <1>1, ReceiveMakes
<1>3. PICK msg \in Message : msg = Head(chan[s][n])
  BY <1>2, HeadType DEF TypeOK
<1>4. PICK row : row = Hear(n, s)[n]
  OBVIOUS
<1>5. /\ Step(n, v, out)
      /\ \A a \in Node : Way(a, n) \subseteq Way(a, n)' \union {Head(chan[s][n])}
      /\ \A a \in Node \ {s} : Way(a, n) \subseteq Way(a, n)'
      /\ Head(chan[s][n]) \in Way(s, n)
      /\ ticked' = ticked
  BY <1>2, HandledStep DEF Together, Connecting
<1>6. Hearing(n, s, msg, v, out, row)
  BY <1>2, <1>3, <1>4, <1>5 DEF Hearing
<1>7. Phase'
  BY <1>6, HearingPhase DEF Together
<1>8. n \in Robots /\ Engaged(n)' => Engaged(n) \/ HasQuorum(Hear(n, s)[n], n)
  <2> SUFFICES ASSUME n \in Robots, Engaged(n)'
               PROVE  Engaged(n) \/ HasQuorum(row, n)
    BY <1>4
  <2>1. view'[n] = v
    BY <1>5 DEF Step
  <2>2. (v.st = "bidding" /\ n \in Bidders(v)) \/ Owns(n, v)
    BY <2>1 DEF Engaged
  <2>3. Makes(n, view[n], s, msg, v, out, row)
    BY <1>2, <1>3, <1>4
  <2> QED
    BY <1>2, <2>2, <2>3, MakesEngaged DEF Engaged
<1>9. Connecting'
  BY <1>2, <1>8, HandledHeard DEF Together
<1> QED
  BY <1>7, <1>9 DEF Together

LEMMA TogetherTick ==
    ASSUME TypeOK, SplitTimers, alive = Node, budget["full"] = 0, Together, NEW n \in Node, Tick(n)
    PROVE  Together' /\ budget' = budget /\ alive' = Node
<1>1. view[n].st \notin Finished /\ ~MustStop(n) /\ ~Expired(n) /\ (Won(n) => QuorumNow(n))
  BY Steady
<1>2. /\ n \notin ticked /\ ticked' = ticked \union {n} /\ budget' = budget
      /\ \E v \in View, sent \in Messages : Moves(n, v, sent) /\ Turns(n, view[n], v, sent)
  BY <1>1, TickTurns
<1>3. PICK v \in View, sent \in Messages : Moves(n, v, sent) /\ Turns(n, view[n], v, sent)
  BY <1>2
<1>4. Step(n, v, sent) /\ \A a \in Node : Way(a, n) \subseteq Way(a, n)'
  BY <1>3, MovesStep DEF Together, Connecting
<1>5. Turning(n, v, sent)
  BY <1>2, <1>3, <1>4 DEF Turning
<1>6. Phase'
  BY <1>5, TurningPhase DEF Together
<1>7. n \in Robots /\ Engaged(n)' => Engaged(n) \/ HasQuorum(heard[n], n)
  <2> SUFFICES ASSUME n \in Robots, Engaged(n)'
               PROVE  Engaged(n) \/ HasQuorum(heard[n], n)
    OBVIOUS
  <2>1. view'[n] = v
    BY <1>4 DEF Step
  <2>2. (v.st = "bidding" /\ n \in Bidders(v)) \/ Owns(n, v)
    BY <2>1 DEF Engaged
  <2> QED
    BY <1>3, <2>2, TurnsEngaged DEF Engaged
<1>8. Connecting' /\ alive' = Node
  BY <1>7, TickedHeard DEF Together
<1> QED
  BY <1>2, <1>6, <1>8 DEF Together

LEMMA TogetherCall ==
    ASSUME TypeOK, alive = Node, Together, Announce \/ Reannounce
    PROVE  Together'
<1>1. Phase'
  BY AnnouncePhase DEF Together, Connecting
<1>2. /\ blocked' = blocked /\ heard' = heard /\ quiet' = quiet /\ ticked' = ticked
      /\ \A x \in Node \ {Gateway} : view'[x] = view[x]
  BY DEF Announce, Reannounce, Called, TypeOK
<1>3. \A n \in Robots : n \in Node \ {Gateway}
  BY FleetFacts, FleetAssumption
<1>4. Lately'
  BY <1>2 DEF Lately, Together, Connecting
<1>5. \A n \in Robots : Engaged(n)' => Engaged(n)
  BY <1>2, <1>3 DEF Engaged
<1> QED
  BY <1>1, <1>2, <1>4, <1>5 DEF Together, Connecting

LEMMA TogetherAdvance ==
    ASSUME TypeOK, TypeOK', SplitTimers, alive = Node, Together, Advance
    PROVE  Together'
BY AdvancePhase, AdvanceHeard DEF Together

\* With nothing left of the other events, these are the steps the fleet takes.
LEMMA UneventfulStep ==
    ASSUME TypeOK, Uneventful, Next
    PROVE  /\ Uneventful'
           /\ \/ \E n \in Node : Receive(n) \/ Tick(n)
              \/ Announce \/ Reannounce
              \/ Advance
              \/ \E side \in SUBSET Node : Partition(side)
              \/ Heal
<1>1. /\ {"commit", "complete", "fail", "cancel", "full", "withdraw", "fault"} \subseteq
             Events \ {"announce", "reannounce", "split"}
      /\ {"announce", "reannounce", "split"} \subseteq Events
  BY DEF Events
<1>2. \A e \in {"commit", "complete", "fail", "cancel", "full", "withdraw", "fault"} : ~Spend(e)
  BY <1>1 DEF Spend, Uneventful
<1>3. \/ \E n \in Node : Receive(n) \/ Tick(n)
      \/ Announce \/ Reannounce
      \/ Advance
      \/ \E side \in SUBSET Node : Partition(side)
      \/ Heal
  BY <1>2 DEF Next, Commit, Complete, Fail, Withdraw, Cancel, Crash, CutPair
<1>4. ASSUME NEW e \in {"announce", "reannounce", "split"}, Spend(e), alive' = alive
      PROVE  Uneventful'
  <2>1. budget[e] \in Nat /\ budget[e] > 0 /\ budget' = [budget EXCEPT ![e] = @ - 1]
    BY <1>1, <1>4 DEF Spend, TypeOK
  <2>2. \A d \in Events \ {"announce", "reannounce", "split"} : budget'[d] = budget[d]
    BY <1>4, <2>1 DEF TypeOK
  <2>3. budget["split"] \in Nat /\ (budget'["split"] = budget["split"] \/ budget'["split"] = budget["split"] - 1)
    BY <1>1, <2>1 DEF TypeOK
  <2> QED
    BY <1>4, <2>2, <2>3 DEF Uneventful
<1>5. alive' = alive /\ budget' = budget => Uneventful'
  BY DEF Uneventful
<1>6. ASSUME NEW n \in Node, Receive(n) PROVE alive' = alive /\ budget' = budget
  <2>1. \E s \in Node, v \in View, out \in Messages : Handled(n, s, v, out)
    BY <1>6, ReceiveFrame
  <2> QED
    BY <2>1 DEF Handled
<1>7. ASSUME NEW n \in Node, Tick(n) PROVE alive' = alive /\ budget' = budget
  <2>1. \E v \in View, out \in Messages : Ticked(n, v, out)
    BY <1>7, TickFrame
  <2>2. budget' = budget
    BY <1>2, <1>7 DEF Tick
  <2> QED
    BY <2>1, <2>2 DEF Ticked
<1>8. Announce \/ Reannounce => Uneventful'
  BY <1>4 DEF Announce, Reannounce, Called
<1>9. Advance \/ Heal => Uneventful'
  BY <1>5 DEF Advance, Heal
<1>10. (\E side \in SUBSET Node : Partition(side)) => Uneventful'
  BY <1>4 DEF Partition, Cut
<1> QED
  BY <1>3, <1>5, <1>6, <1>7, <1>8, <1>9, <1>10

LEMMA UncommittedStep ==
    ASSUME TypeOK, Uneventful, Uncommitted, Next
    PROVE  Uncommitted'
<1> SUFFICES ASSUME NEW n \in Robots, Owns(n, view'[n]) PROVE ~Committed(view'[n])
  BY DEF Uncommitted
<1>0. n \in Node /\ n # Gateway
  BY FleetFacts, FleetAssumption
<1>1. ~(Owns(n, view[n]) /\ Committed(view[n]))
  BY DEF Uncommitted
<1>2. Owns(n, view[n]) /\ view'[n].cost = view[n].cost => ~Committed(view'[n])
  BY <1>1 DEF Committed, Owns
<1>3. view'[n] = view[n] => ~Committed(view'[n])
  BY <1>2
<1>4. ASSUME NEW x \in Node, Receive(x) PROVE ~Committed(view'[n])
  <2>1. PICK s \in Node, v \in View, out \in Messages :
            Handled(x, s, v, out) /\ (x \in Robots => Keeps(x, view[x], v))
    BY <1>4, ReceiveFrame
  <2>2. view'[n] = IF x = n THEN v ELSE view[n]
    BY <1>0, <2>1 DEF Handled, TypeOK
  <2> QED
    BY <1>2, <1>3, <2>1, <2>2 DEF Keeps
<1>5. ASSUME NEW x \in Node, Tick(x) PROVE ~Committed(view'[n])
  <2>1. PICK v \in View, out \in Messages :
            /\ Ticked(x, v, out)
            /\ x \in Robots => Keeps(x, view[x], v) \/ Claims(x, view[x], v, out)
    BY <1>5, TickFrame
  <2>2. view'[n] = IF x = n THEN (IF v.st \in Finished /\ v.fin > Retention THEN NoTask ELSE v)
                            ELSE view[n]
    BY <1>0, <2>1 DEF Ticked, TypeOK
  <2>3. x = n => view'[n] = v
    BY <2>2 DEF Owns, NoTask
  <2>4. CASE x = n /\ Keeps(n, view[n], v)
    BY <1>2, <2>3, <2>4 DEF Keeps
  <2>5. CASE x = n /\ Claims(n, view[n], v, out)
    <3>1. PICK u \in View : u = view[n]
      BY <1>0 DEF TypeOK
    <3>2. v.cost = u.bids[n] /\ u.bids[n] # Infinity
      BY <2>5, <3>1 DEF Claims
    <3>3. u.bids[n] \in Costs \union {Infinity}
      BY <3>1 DEF View
    <3>4. v.cost \in Nat
      BY <3>2, <3>3, CostAssumption
    <3> QED
      BY <2>3, <2>5, <3>4 DEF Committed, CommittedCost
  <2> QED
    BY <1>3, <2>1, <2>2, <2>4, <2>5
<1>6. Announce \/ Reannounce => view'[n] = view[n]
  BY <1>0 DEF Announce, Reannounce, Called, TypeOK
<1>7. Advance => view'[n] = Aged(view[n])
  BY <1>0 DEF Advance
<1>8. Aged(view[n]).st = view[n].st /\ Aged(view[n]).owner = view[n].owner
      /\ Aged(view[n]).cost = view[n].cost
  <2>1. view[n] \in View
    BY <1>0 DEF TypeOK
  <2> QED
    BY <2>1 DEF Aged, View
<1>9. Advance => ~Committed(view'[n])
  BY <1>2, <1>7, <1>8 DEF Owns
<1>10. Heal \/ (\E side \in SUBSET Node : Partition(side)) => view'[n] = view[n]
  BY DEF Heal, Partition, Cut
<1> QED
  BY <1>3, <1>4, <1>5, <1>6, <1>9, <1>10, UneventfulStep

\* The split that a settled fleet allows leaves the owner on one side.
LEMMA SplitParts ==
    ASSUME TypeOK, SplitTimers, Uneventful, Together, NEW side \in SUBSET Node, Partition(side)
    PROVE  Parted'
<1>1. PICK w \in Robots : \A n \in Node : view[n].st = "claimed" /\ view[n].owner = w
  BY DEF Partition, Settled, SelfOwners, SplitTimers, Uneventful, Owns
<1>2. w \in Node
  BY FleetFacts
<1>3. PICK c \in Costs : Decided(w, c)
  <2>1. ~Untold /\ ~Lull
    BY <1>1, <1>2 DEF Untold, Lull, Waits
  <2>2. \A m \in 1 .. BidWindow, r \in Robots, c \in Costs : ~Round(m, r, c)
    BY <1>1, FleetFacts DEF Round, OwnBid
  <2>3. \A r \in Robots, c \in Costs : Decided(r, c) => r = w
    BY <1>1, FleetFacts DEF Decided, Closing, OwnBid, Owns
  <2> QED
    BY <2>1, <2>2, <2>3 DEF Together, Phase
<1>4. \A x \in Node \ {w} : view[x].renew <= BidWindow
  BY <1>1, <1>3 DEF Decided, Follows, WillHear
<1>5. PICK S \in SUBSET Node : w \in S /\ (S = side \/ S = Node \ side)
  BY <1>2
<1>6. \A a, b \in Node : ((a \in S) # (b \in S)) <=> ((a \in side) # (b \in side))
  BY <1>5
<1> DEFINE pairs == {{a, b} : a \in side, b \in Node \ side}
<1> HIDE DEF pairs
<1>8. \A a, b \in Node : {a, b} \in pairs <=> ((a \in S) # (b \in S))
  <2> SUFFICES ASSUME NEW a \in Node, NEW b \in Node
               PROVE  {a, b} \in pairs <=> ((a \in side) # (b \in side))
    BY <1>6
  <2>1. ASSUME {a, b} \in pairs PROVE (a \in side) # (b \in side)
    <3>1. PICK p \in side, q \in Node \ side : {a, b} = {p, q}
      BY <2>1 DEF pairs
    <3>2. (a = p /\ b = q) \/ (a = q /\ b = p)
      BY <3>1
    <3> QED
      BY <3>1, <3>2
  <2>2. ASSUME a \in side, b \notin side PROVE {a, b} \in pairs
    BY <2>2 DEF pairs
  <2>3. ASSUME b \in side, a \notin side PROVE {a, b} \in pairs
    <3>1. {b, a} \in pairs
      BY <2>3 DEF pairs
    <3>2. {b, a} = {a, b}
      OBVIOUS
    <3> QED
      BY <3>1, <3>2
  <2> QED
    BY <2>1, <2>2, <2>3
<1>9. /\ blocked' = pairs
      /\ chan' = [s \in Node |-> [d \in Node |-> IF {s, d} \in pairs THEN <<>> ELSE chan[s][d]]]
      /\ view' = view /\ heard' = heard
  BY DEF Partition, Cut, pairs
<1>10. \A a, b \in Node : Way(a, b)' = IF {a, b} \in pairs THEN {} ELSE Way(a, b)
  BY <1>9, NewContents DEF Way
<1>11. \A a, b \in Node : heard'[a][b] >= 0
  BY <1>9, TimerAssumption DEF TypeOK, HeardMax
<1>12. Waiting(S, 0)'
  <2> SUFFICES ASSUME NEW x \in Node \ S
               PROVE  /\ view'[x].st = "claimed" /\ view'[x].owner # x
                      /\ view'[x].renew <= 0 + BidWindow
                      /\ \A a \in Node : \A msg \in Way(a, x)' : msg.type \in Calm
    BY DEF Waiting
  <2>1. x # w
    BY <1>5
  <2>2. \A a \in Node : \A msg \in Way(a, x)' : msg.type \in Calm
    BY <1>10, PhaseCalm DEF Together
  <2>3. 0 + BidWindow = BidWindow
    BY TimerAssumption
  <2> QED
    BY <1>1, <1>4, <1>9, <2>1, <2>2, <2>3
<1>13. Apart(S, 0)'
  BY <1>8, <1>9, <1>10, <1>11, <1>12 DEF Apart
<1>14. budget'["split"] = 0
  <2>1. budget["split"] \in Nat /\ budget["split"] > 0 /\ budget["split"] <= 1
    BY DEF Partition, Spend, Uneventful, TypeOK, Events
  <2>2. budget'["split"] = budget["split"] - 1
    BY DEF Partition, Spend, TypeOK, Events
  <2> QED
    BY <2>1, <2>2
<1> QED
  BY <1>5, <1>13, <1>14 DEF Parted

\* A step of a node that has the other side cut off: nothing crosses, and a node
\* that follows the owner of the other side keeps to it.
LEMMA ApartMoves ==
    ASSUME TypeOK, NEW S \in SUBSET Node, NEW k \in Nat, Apart(S, k),
           NEW n \in Node, NEW v \in View, NEW sent \in Messages, Moves(n, v, sent),
           blocked' = blocked,
           \A a, b \in Node : (a \in S) # (b \in S) => heard'[a][b] = heard[a][b],
           n \notin S /\ k <= TaskLease + 1 =>
               /\ v.st = "claimed" /\ v.owner # n /\ v.renew <= k + BidWindow
               /\ Contents(sent) = {}
    PROVE  Apart(S, k)'
<1>1. /\ \A x \in Node : view'[x] = IF x = n THEN v ELSE view[x]
      /\ \A a, b \in Node : Way(a, b)' = Way(a, b) \union Sends(n, sent, a, b)
  BY MovesWay
<1>2. \A a, b \in Node : (a \in S) # (b \in S) => Sends(n, sent, a, b) = {}
  BY DEF Sends, Linked, Apart
<1>3. \A a, b \in Node : (a \in S) # (b \in S) =>
          Way(a, b)' = {} /\ (heard'[a][b] >= k \/ heard'[a][b] = HeardMax)
  BY <1>1, <1>2 DEF Apart
<1>4. ASSUME k <= TaskLease + 1 PROVE Waiting(S, k)'
  <2> SUFFICES ASSUME NEW x \in Node \ S
               PROVE  /\ view'[x].st = "claimed" /\ view'[x].owner # x
                      /\ view'[x].renew <= k + BidWindow
                      /\ \A a \in Node : \A msg \in Way(a, x)' : msg.type \in Calm
    BY DEF Waiting
  <2>1. Waiting(S, k)
    BY <1>4 DEF Apart
  <2>2. /\ view'[x].st = "claimed" /\ view'[x].owner # x
        /\ view'[x].renew <= k + BidWindow
    BY <1>1, <1>4, <2>1 DEF Waiting
  <2>3. \A a \in Node : Sends(n, sent, a, x) = {}
    BY <1>2, <1>4 DEF Sends
  <2>4. \A a \in Node : \A msg \in Way(a, x)' : msg.type \in Calm
    BY <1>1, <2>1, <2>3 DEF Waiting
  <2> QED
    BY <2>2, <2>4
<1>5. \A a, b \in Node : {a, b} \in blocked' <=> ((a \in S) # (b \in S))
  BY DEF Apart
<1> QED
  BY <1>3, <1>4, <1>5 DEF Apart

LEMMA ApartReceive ==
    ASSUME TypeOK, SplitTimers, NEW S \in SUBSET Node, NEW k \in Nat, Apart(S, k),
           NEW n \in Node, Receive(n)
    PROVE  Apart(S, k)'
<1>1. PICK s \in Node, v \in View, out \in Messages :
          /\ s # n /\ chan[s][n] # <<>>
          /\ Handled(n, s, v, out)
          /\ n \notin S /\ k <= TaskLease + 1 =>
                 /\ v.st = "claimed" /\ v.owner # n /\ v.renew <= k + BidWindow
                 /\ out = <<>>
  <2>1. CASE ~(n \notin S /\ k <= TaskLease + 1)
    <3>1. \E s \in Node, v \in View, out \in Messages :
              s # n /\ chan[s][n] # <<>> /\ Handled(n, s, v, out)
      BY ReceiveFrame
    <3> QED
      BY <2>1, <3>1
  <2>2. CASE n \notin S /\ k <= TaskLease + 1
    <3>0. PICK u \in View : u = view[n]
      BY DEF TypeOK
    <3>1. /\ u.st = "claimed" /\ u.owner # n /\ u.renew <= k + BidWindow
          /\ \A a \in Node : \A msg \in Way(a, n) : msg.type \in Calm
      BY <2>2, <3>0 DEF Apart, Waiting
    <3>2. PICK s \in Node, v \in View, out \in Messages :
              /\ s # n /\ chan[s][n] # <<>>
              /\ Handled(n, s, v, out)
              /\ Makes(n, view[n], s, Head(chan[s][n]), v, out, Hear(n, s)[n])
      BY <3>1, ReceiveMakes
    <3>3. PICK msg, row : msg = Head(chan[s][n]) /\ row = Hear(n, s)[n]
      OBVIOUS
    <3>4. Makes(n, u, s, msg, v, out, row)
      BY <3>0, <3>2, <3>3
    <3>5. \/ Unmoved(u, v) /\ out = <<>>
          \/ Heeded(n, u, s, msg, v) /\ out = <<>>
      BY <3>1, <3>4 DEF Makes, Joins, Records
    <3>6. 0 <= k + BidWindow
      BY TimerAssumption
    <3>7. v.st = "claimed" /\ v.owner # n /\ v.renew <= k + BidWindow
      BY <3>1, <3>2, <3>5, <3>6 DEF Unmoved, Heeded
    <3> QED
      BY <3>2, <3>5, <3>7
  <2> QED
    BY <2>1, <2>2
<1>2. /\ \A x \in Node : view'[x] = IF x = n THEN v ELSE view[x]
      /\ \A a, b \in Node : a # s \/ b # n => Way(a, b)' = Way(a, b) \union Sends(n, out, a, b)
      /\ Way(s, n)' \subseteq Way(s, n)
      /\ Head(chan[s][n]) \in Way(s, n)
  BY <1>1, HandledWay
<1>3. \A a, b \in Node : Way(a, b)' \subseteq Way(a, b) \union Sends(n, out, a, b)
  BY <1>2
<1>4. ~((s \in S) # (n \in S))
  BY <1>2 DEF Apart
<1>5. \A a, b \in Node : (a \in S) # (b \in S) => Sends(n, out, a, b) = {}
  BY DEF Sends, Linked, Apart
<1>6. \A a, b \in Node : (a \in S) # (b \in S) => heard'[a][b] = heard[a][b]
  BY <1>1, <1>4 DEF Handled, Hear, TypeOK
<1>7. \A a, b \in Node : (a \in S) # (b \in S) =>
          Way(a, b)' = {} /\ (heard'[a][b] >= k \/ heard'[a][b] = HeardMax)
  BY <1>3, <1>5, <1>6 DEF Apart
<1>8. ASSUME k <= TaskLease + 1 PROVE Waiting(S, k)'
  <2> SUFFICES ASSUME NEW x \in Node \ S
               PROVE  /\ view'[x].st = "claimed" /\ view'[x].owner # x
                      /\ view'[x].renew <= k + BidWindow
                      /\ \A a \in Node : \A msg \in Way(a, x)' : msg.type \in Calm
    BY DEF Waiting
  <2>1. Waiting(S, k)
    BY <1>8 DEF Apart
  <2>2. /\ view'[x].st = "claimed" /\ view'[x].owner # x
        /\ view'[x].renew <= k + BidWindow
    BY <1>1, <1>2, <1>8, <2>1 DEF Waiting
  <2>3. \A a \in Node : Sends(n, out, a, x) = {}
    BY <1>1, <1>5, <1>8, NewContents DEF Sends
  <2>4. \A a \in Node : \A msg \in Way(a, x)' : msg.type \in Calm
    BY <1>3, <2>1, <2>3 DEF Waiting
  <2> QED
    BY <2>2, <2>4
<1>9. blocked' = blocked
  BY <1>1 DEF Handled
<1> QED
  BY <1>7, <1>8, <1>9 DEF Apart

LEMMA ApartTick ==
    ASSUME TypeOK, SplitTimers, budget["full"] = 0,
           NEW S \in SUBSET Node, NEW k \in Nat, Apart(S, k), NEW n \in Node, Tick(n)
    PROVE  Apart(S, k)'
<1>1. PICK v \in View, out \in Messages : Ticked(n, v, out)
  BY TickFrame
<1>2. /\ blocked' = blocked
      /\ \A m, p \in Node : heard'[m][p] = IF m # n /\ p = n /\ Linked(n, m) THEN 0 ELSE heard[m][p]
  BY <1>1 DEF Ticked, TypeOK
<1>3. \A a, b \in Node : (a \in S) # (b \in S) => heard'[a][b] = heard[a][b]
  <2> SUFFICES ASSUME NEW a \in Node, NEW b \in Node, (a \in S) # (b \in S)
               PROVE  ~Linked(b, a)
    BY <1>2
  <2>1. {b, a} \in blocked
    BY DEF Apart
  <2> QED
    BY <2>1 DEF Linked
<1>4. PICK w \in View, sent \in Messages :
          /\ Moves(n, w, sent)
          /\ n \notin S /\ k <= TaskLease + 1 =>
                 /\ w.st = "claimed" /\ w.owner # n /\ w.renew <= k + BidWindow
                 /\ Contents(sent) = {}
  <2>0. PICK u \in View : u = view[n]
    BY DEF TypeOK
  <2>1. CASE ~(n \notin S /\ k <= TaskLease + 1)
    <3>1. PICK w \in View : w = IF v.st \in Finished /\ v.fin > Retention THEN NoTask ELSE v
      BY NoTaskType
    <3>2. Beacon(n) \in Messages
      <4>1. u.cost \in BidCost \union {CommittedCost}
        BY <2>0 DEF View, BidCost
      <4>2. <<Msg("LeaseBeacon", u.cost)>> \in Messages /\ <<>> \in Messages
        BY <4>1, MessageOutType DEF MsgType, Messages
      <4> QED
        BY <2>0, <4>2 DEF Beacon
    <3>3. Beacon(n) \o out \in Messages
      BY <3>2 DEF Messages
    <3>4. Moves(n, w, Beacon(n) \o out)
      BY <1>1, <3>1 DEF Ticked, Moves
    <3> QED
      BY <2>1, <3>3, <3>4
  <2>2. CASE n \notin S /\ k <= TaskLease + 1
    <3>1. u.st = "claimed" /\ u.owner # n /\ u.renew <= k + BidWindow
      BY <2>0, <2>2 DEF Apart, Waiting
    <3>2. u.renew <= Expiry
      <4>1. u.renew \in Nat
        BY TimerAssumption DEF View, Expiry
      <4> QED
        BY <2>2, <3>1, <4>1, TimerAssumption DEF Expiry, SplitTimers
    <3>3. ~Expired(n)
      <4>1. u.renew \in Nat /\ Expiry \in Nat
        BY TimerAssumption DEF View, Expiry
      <4> QED
        BY <2>0, <3>2, <4>1 DEF Expired
    <3>4. view[n].st \notin Finished /\ ~MustStop(n) /\ ~Won(n)
      BY <2>0, <3>1 DEF MustStop, Owns, Won, WindowOver, Finished
    <3>5. \E w \in View, sent \in Messages : Moves(n, w, sent) /\ Turns(n, view[n], w, sent)
      BY <3>3, <3>4, TickTurns
    <3>6. PICK w \in View, sent \in Messages : Moves(n, w, sent) /\ Turns(n, u, w, sent)
      BY <2>0, <3>5
    <3>7. NothingDue(n, u, w, sent)
      BY <3>1, <3>6 DEF Turns, NobodyBid, Awards, Rebids
    <3>8. /\ w.st = "claimed" /\ w.owner # n /\ w.renew <= k + BidWindow
          /\ Contents(sent) = {}
      BY <3>1, <3>7 DEF NothingDue, Unmoved, Owns
    <3> QED
      BY <3>6, <3>8
  <2> QED
    BY <2>1, <2>2
<1> QED
  BY <1>2, <1>3, <1>4, ApartMoves

LEMMA ApartCall ==
    ASSUME TypeOK, NEW S \in SUBSET Node, NEW k \in Nat, Apart(S, k), Announce \/ Reannounce
    PROVE  Apart(S, k)'
<1>1. Gateway \in Node
  BY FleetFacts
<1>2. PICK v \in View, out \in Messages : Called(Gateway, v, out) /\ view[Gateway].st # "claimed"
  <2>1. CASE Announce
    <3>1. PICK f \in View : f = [NoTask EXCEPT !.known = TRUE]
      BY NoTaskType DEF View
    <3>2. PICK v \in View : v = OpenBidding(Gateway, f, Infinity)
      BY <1>1, OpenBiddingWindow DEF BidCost
    <3>3. <<Msg("TaskAnnounce", Infinity)>> \in Messages
      BY MessageOutType DEF MsgType, BidCost
    <3> QED
      BY <2>1, <3>1, <3>2, <3>3 DEF Announce
  <2>2. CASE Reannounce
    <3>1. PICK u \in View : u = view[Gateway]
      BY <1>1 DEF TypeOK
    <3>2. <<Msg("TaskAnnounce", Infinity)>> \in Messages
      BY MessageOutType DEF MsgType, BidCost
    <3> QED
      BY <2>2, <3>1, <3>2 DEF Reannounce
  <2> QED
    BY <2>1, <2>2
<1>3. Moves(Gateway, v, out) /\ blocked' = blocked /\ heard' = heard
  BY <1>2 DEF Called, Moves
<1>4. ~(Gateway \notin S /\ k <= TaskLease + 1)
  BY <1>1, <1>2 DEF Apart, Waiting
<1> QED
  BY <1>1, <1>3, <1>4, ApartMoves

LEMMA ApartAdvance ==
    ASSUME TypeOK, TypeOK', SplitTimers, alive = Node,
           NEW S \in SUBSET Node, NEW k \in Nat, Apart(S, k), Advance
    PROVE  Apart(S, k + 1)'
<1>1. /\ blocked' = blocked
      /\ \A a, b \in Node : Way(a, b) = {} /\ Way(a, b)' = {}
      /\ \A x \in Node :
             /\ view'[x].st = view[x].st /\ view'[x].owner = view[x].owner
             /\ view'[x].renew \in Nat /\ view'[x].renew <= view[x].renew + 1
      /\ \A x, p \in Node : heard'[x][p] = Older(heard[x][p], HeardMax)
  BY AdvanceWay DEF SplitTimers
<1>2. ASSUME NEW a \in Node, NEW b \in Node, (a \in S) # (b \in S)
      PROVE  Way(a, b)' = {} /\ (heard'[a][b] >= k + 1 \/ heard'[a][b] = HeardMax)
  <2>1. heard[a][b] \in 0 .. HeardMax /\ HeardMax \in Nat
    BY TimerAssumption DEF TypeOK, HeardMax
  <2>2. heard[a][b] >= k \/ heard[a][b] = HeardMax
    BY <1>2 DEF Apart
  <2>3. heard'[a][b] = IF heard[a][b] < HeardMax THEN heard[a][b] + 1 ELSE heard[a][b]
    BY <1>1 DEF Older
  <2>4. heard'[a][b] >= k + 1 \/ heard'[a][b] = HeardMax
    BY <2>1, <2>2, <2>3
  <2> QED
    BY <1>1, <2>4
<1>3. ASSUME k + 1 <= TaskLease + 1 PROVE Waiting(S, k + 1)'
  <2> SUFFICES ASSUME NEW x \in Node \ S
               PROVE  /\ view'[x].st = "claimed" /\ view'[x].owner # x
                      /\ view'[x].renew <= (k + 1) + BidWindow
                      /\ \A a \in Node : \A msg \in Way(a, x)' : msg.type \in Calm
    BY DEF Waiting
  <2>1. k <= TaskLease + 1
    BY <1>3, TimerAssumption
  <2>2. view[x].st = "claimed" /\ view[x].owner # x /\ view[x].renew <= k + BidWindow
    BY <2>1 DEF Apart, Waiting
  <2>3. view[x].renew \in Nat
    <3>1. view[x] \in View
      BY DEF TypeOK
    <3> QED
      BY <3>1, TimerAssumption DEF View, Expiry
  <2>4. view'[x].renew <= (k + 1) + BidWindow
    <3>1. view'[x].renew \in Nat /\ view'[x].renew <= view[x].renew + 1
      BY <1>1
    <3> QED
      BY <2>2, <2>3, <3>1, TimerAssumption
  <2> QED
    BY <1>1, <2>2, <2>4
<1>4. \A a, b \in Node : {a, b} \in blocked' <=> ((a \in S) # (b \in S))
  BY <1>1 DEF Apart
<1> QED
  BY <1>2, <1>3, <1>4 DEF Apart

\* After the split the fleet stays parted until the network heals.
LEMMA PartedStep ==
    ASSUME TypeOK, TypeOK', SplitTimers, Uneventful, Parted, Next
    PROVE  Parted'
<1>1. /\ alive = Node /\ budget["full"] = 0 /\ budget["split"] = 0
  BY DEF Uneventful, Parted, Events
<1>2. \A side : ~Partition(side)
  BY <1>1 DEF Partition, Spend
<1>3. budget'["split"] = 0
  <2>1. ASSUME NEW e \in {"announce", "reannounce"}, Spend(e) PROVE budget'["split"] = 0
    BY <1>1, <2>1 DEF Spend, TypeOK, Events
  <2>2. Announce \/ Reannounce => budget'["split"] = 0
    BY <2>1 DEF Announce, Reannounce
  <2>3. \A n \in Node : Receive(n) => budget' = budget
    <3> SUFFICES ASSUME NEW n \in Node, Receive(n) PROVE budget' = budget
      OBVIOUS
    <3>1. \E s \in Node, v \in View, out \in Messages : Handled(n, s, v, out)
      BY ReceiveFrame
    <3> QED
      BY <3>1 DEF Handled
  <2>4. \A n \in Node : Tick(n) => budget' = budget
    BY <1>1 DEF Tick, Spend
  <2> QED
    BY <1>1, <1>2, <2>2, <2>3, <2>4, UneventfulStep DEF Advance, Heal
<1>4. CASE \E S \in SUBSET Node, k \in Nat : Apart(S, k)
  <2>1. PICK S \in SUBSET Node, k \in Nat : Apart(S, k)
    BY <1>4
  <2>2. \A n \in Node : Receive(n) => Apart(S, k)'
    BY <2>1, ApartReceive
  <2>3. \A n \in Node : Tick(n) => Apart(S, k)'
    BY <1>1, <2>1, ApartTick
  <2>4. Announce \/ Reannounce => Apart(S, k)'
    BY <2>1, ApartCall
  <2>5. Advance => Apart(S, k + 1)' /\ k + 1 \in Nat
    BY <1>1, <2>1, ApartAdvance
  <2>6. Heal => blocked' = {}
    BY DEF Heal
  <2> QED
    BY <1>2, <1>3, <2>2, <2>3, <2>4, <2>5, <2>6, UneventfulStep DEF Parted
<1>5. CASE blocked = {}
  <2>1. ASSUME NEW n \in Node, Receive(n) PROVE blocked' = {}
    <3>1. \E s \in Node, v \in View, out \in Messages : Handled(n, s, v, out)
      BY <2>1, ReceiveFrame
    <3> QED
      BY <1>5, <3>1 DEF Handled
  <2>2. ASSUME NEW n \in Node, Tick(n) PROVE blocked' = {}
    <3>1. \E v \in View, out \in Messages : Ticked(n, v, out)
      BY <2>2, TickFrame
    <3> QED
      BY <1>5, <3>1 DEF Ticked
  <2>3. Announce \/ Reannounce \/ Advance => blocked' = {}
    BY <1>5 DEF Announce, Reannounce, Called, Advance
  <2>4. ~Heal
    BY <1>5 DEF Heal
  <2> QED
    BY <1>2, <1>3, <2>1, <2>2, <2>3, <2>4, UneventfulStep DEF Parted
<1> QED
  BY <1>4, <1>5 DEF Parted

LEMMA OneSideStep ==
    ASSUME TypeOK, TypeOK', SplitTimers, OneSide, Next
    PROVE  OneSide'
<1>1. Uneventful' /\ Uncommitted'
  BY UneventfulStep, UncommittedStep DEF OneSide
<1>2. alive = Node /\ budget["full"] = 0
  BY DEF OneSide, Uneventful, Events
<1>3. CASE Parted
  <2>1. Parted'
    BY <1>3, PartedStep DEF OneSide
  <2> QED
    BY <1>1, <2>1 DEF OneSide
<1>4. CASE Together
  <2>1. \A n \in Node : Receive(n) => Together'
    BY <1>2, <1>4, TogetherReceive
  <2>2. \A n \in Node : Tick(n) => Together'
    BY <1>2, <1>4, TogetherTick
  <2>3. Announce \/ Reannounce => Together'
    BY <1>2, <1>4, TogetherCall
  <2>4. Advance => Together'
    BY <1>2, <1>4, TogetherAdvance
  <2>5. \A side \in SUBSET Node : Partition(side) => Parted'
    BY <1>4, SplitParts DEF OneSide
  <2>6. ~Heal
    BY <1>4 DEF Heal, Together, Connecting
  <2>7. Together' \/ Parted'
    BY <2>1, <2>2, <2>3, <2>4, <2>5, <2>6, UneventfulStep DEF OneSide
  <2> QED
    BY <1>1, <2>7 DEF OneSide
<1> QED
  BY <1>3, <1>4 DEF OneSide

\* Two sides that do not hear each other cannot both hold a majority.
LEMMA TwoMajorities ==
    ASSUME TypeOK, NEW S \in SUBSET Node, NEW a \in S, NEW b \in Node \ S,
           \A x, y \in Node : (x \in S) # (y \in S) => heard[x][y] = HeardMax,
           HeardMajority(heard[a], a, TaskLease + 1), HeardMajority(heard[b], b, TaskLease + 1)
    PROVE  FALSE
<1> DEFINE T == Node \ S
           half == Cardinality(Node) \div 2
<1>1. IsFiniteSet(Node) /\ IsFiniteSet(S) /\ IsFiniteSet(T)
  BY FleetFacts, FS_Subset
<1>2. /\ Cardinality(S) \in Nat /\ Cardinality(T) \in Nat /\ Cardinality(Node) \in Nat
  BY <1>1, FS_CardinalityType
<1>3. Cardinality(Node) = Cardinality(S) + Cardinality(T)
  <2>1. S \intersect T = {} /\ S \union T = Node
    OBVIOUS
  <2>2. Cardinality(S \union T) = Cardinality(S) + Cardinality(T) - Cardinality(S \intersect T)
    BY <1>1, FS_Union
  <2>3. Cardinality({}) = 0
    BY FS_EmptySet
  <2>4. Cardinality(Node) = Cardinality(S) + Cardinality(T) - 0
    BY <2>1, <2>2, <2>3
  <2> HIDE DEF T
  <2> QED
    BY <1>2, <2>4
<1> HIDE DEF T
<1>4. ~(HeardMax <= TaskLease + 1)
  BY TimerAssumption DEF HeardMax
<1>5. {p \in Node \ {a} : heard[a][p] <= TaskLease + 1} \subseteq S \ {a}
  BY <1>4
<1>6. {p \in Node \ {b} : heard[b][p] <= TaskLease + 1} \subseteq T \ {b}
  BY <1>4 DEF T
<1>7. /\ IsFiniteSet(S \ {a}) /\ IsFiniteSet(T \ {b})
      /\ Cardinality(S \ {a}) = Cardinality(S) - 1
      /\ Cardinality(T \ {b}) = Cardinality(T) - 1
  <2>1. b \in T
    BY DEF T
  <2> QED
    BY <1>1, <2>1, FS_RemoveElement
<1>8. Cardinality({p \in Node \ {a} : heard[a][p] <= TaskLease + 1}) <= Cardinality(S) - 1
  BY <1>5, <1>7, FS_Subset
<1>9. Cardinality({p \in Node \ {b} : heard[b][p] <= TaskLease + 1}) <= Cardinality(T) - 1
  BY <1>6, <1>7, FS_Subset
<1>10. /\ IsFiniteSet({p \in Node \ {a} : heard[a][p] <= TaskLease + 1})
       /\ IsFiniteSet({p \in Node \ {b} : heard[b][p] <= TaskLease + 1})
  BY <1>1, FS_Subset
<1>11. /\ Cardinality({p \in Node \ {a} : heard[a][p] <= TaskLease + 1}) \in Nat
       /\ Cardinality({p \in Node \ {b} : heard[b][p] <= TaskLease + 1}) \in Nat
  BY <1>10, FS_CardinalityType
<1>12. /\ Cardinality({p \in Node \ {a} : heard[a][p] <= TaskLease + 1}) >= half
       /\ Cardinality({p \in Node \ {b} : heard[b][p] <= TaskLease + 1}) >= half
  BY DEF HeardMajority
<1>13. half \in Int /\ Cardinality(Node) <= half + half + 1
  BY <1>2
<1> HIDE DEF half
<1>14. half <= Cardinality(S) - 1 /\ half <= Cardinality(T) - 1
  BY <1>2, <1>8, <1>9, <1>11, <1>12, <1>13
<1> QED
  BY <1>2, <1>3, <1>13, <1>14

\* A robot outside S is on the task only after the robot of the other side has
\* lost its lease, and then at most one side holds a majority.
LEMMA OneSideMeans ==
    ASSUME TypeOK, OneSide, CutOffOwnerStops
    PROVE  OneSideWorks
<1> SUFFICES ASSUME NEW a \in SelfOwners, NEW b \in SelfOwners, {a, b} \in blocked
             PROVE  FALSE
  BY DEF OneSideWorks
<1>1. /\ a \in Node /\ b \in Node
      /\ Owns(a, view[a]) /\ Owns(b, view[b])
  BY FleetFacts DEF SelfOwners, SelfOwner
<1>2. PICK S \in SUBSET Node, k \in Nat : Apart(S, k)
  BY DEF OneSide, Together, Connecting, Parted
<1>3. ~(k <= TaskLease + 1)
  BY <1>1, <1>2 DEF Apart, Waiting, Owns
<1>4. \A x, y \in Node : (x \in S) # (y \in S) => heard[x][y] = HeardMax
  <2> SUFFICES ASSUME NEW x \in Node, NEW y \in Node, (x \in S) # (y \in S)
               PROVE  heard[x][y] = HeardMax
    OBVIOUS
  <2>1. heard[x][y] >= k \/ heard[x][y] = HeardMax
    BY <1>2 DEF Apart
  <2>2. heard[x][y] \in 0 .. HeardMax
    BY DEF TypeOK
  <2> QED
    BY <1>3, <2>1, <2>2, TimerAssumption DEF HeardMax
<1>5. ~Committed(view[a]) /\ ~Committed(view[b])
  BY <1>1 DEF OneSide, Uncommitted, SelfOwners
<1>6. /\ HeardMajority(heard[a], a, TaskLease + 1)
      /\ HeardMajority(heard[b], b, TaskLease + 1)
  BY <1>5 DEF CutOffOwnerStops
<1>7. (a \in S) # (b \in S)
  BY <1>1, <1>2 DEF Apart
<1>8. CASE a \in S
  BY <1>1, <1>4, <1>6, <1>7, <1>8, TwoMajorities
<1>9. CASE b \in S
  BY <1>1, <1>4, <1>6, <1>7, <1>9, TwoMajorities
<1> QED
  BY <1>7, <1>8, <1>9

LEMMA OneSideInit ==
    ASSUME OneSplit, Init
    PROVE  OneSide
<1>1. \A n \in Node : view[n] = NoTask
  BY DEF Init
<1>2. Uneventful
  BY DEF OneSplit, Init, Uneventful
<1>3. \A n \in Robots : ~Owns(n, view[n]) /\ ~Engaged(n)
  BY <1>1, FleetFacts DEF Owns, Engaged, NoTask
<1>4. Lately
  BY TimerAssumption DEF Init, Lately, HeardMax
<1>5. \A a, b \in Node : Way(a, b) = {}
  BY NewContents DEF Init, Way
<1>6. \A n \in Node : view[n].st = "none" /\ Bidders(view[n]) = {}
  BY <1>1 DEF NoTask, NoBids, Bidders
<1>7. Together
  BY <1>3, <1>4, <1>5, <1>6 DEF Together, Connecting, Phase, Untold, Init
<1> QED
  BY <1>2, <1>3, <1>7 DEF OneSide, Uncommitted

LEMMA OneSideStutter ==
    ASSUME OneSide, UNCHANGED vars
    PROVE  OneSide'
<1>1. /\ view' = view /\ heard' = heard /\ quiet' = quiet /\ chan' = chan
      /\ blocked' = blocked /\ alive' = alive /\ ticked' = ticked /\ budget' = budget
  BY DEF vars
<1>2. \A a, b : Way(a, b)' = Way(a, b)
  BY <1>1 DEF Way
<1>3. Uneventful' /\ Uncommitted'
  BY <1>1 DEF OneSide, Uneventful, Uncommitted
<1>4. Connecting => Connecting'
  BY <1>1 DEF Connecting, Lately, Engaged
<1>5. Untold => Untold'
  BY <1>1, <1>2 DEF Untold
<1>6. Lull => Lull'
  BY <1>1, <1>2 DEF Lull, Waits, Comes, OnlyOnWay
<1>7. \A o, b : Says(o, b)' = Says(o, b)
  BY <1>1, <1>2 DEF Says
<1>8. \A w, c : /\ OwnBid(w, c)' = OwnBid(w, c)
                /\ Closing(w, c)' = Closing(w, c)
                /\ AllBeaten(w, c)' = AllBeaten(w, c)
  BY <1>1, <1>7 DEF OwnBid, Closing, AllBeaten
<1>9. ASSUME NEW m, NEW w, NEW c, Round(m, w, c) PROVE Round(m, w, c)'
  <2>1. Honest'
    BY <1>7, <1>8, <1>9 DEF Honest, Round
  <2>2. OnlyOnWay(IF m = BidWindow THEN {"TaskAnnounce", "Bid"} ELSE {"TaskAnnounce"})'
    BY <1>2, <1>9 DEF OnlyOnWay, Round
  <2>3. \A x \in Node : /\ Waits(x)' = Waits(x) /\ BidComes(x)' = BidComes(x)
                        /\ InRound(m, x)' = InRound(m, x) /\ Early(m, x)' = Early(m, x)
    BY <1>1, <1>2 DEF Waits, Comes, BidComes, InRound, Early
  <2> QED
    BY <1>1, <1>8, <1>9, <2>1, <2>2, <2>3 DEF Round
<1>10. ASSUME NEW w, NEW c, Decided(w, c) PROVE Decided(w, c)'
  <2>1. \A types : OnlyOnWay(types)' = OnlyOnWay(types)
    BY <1>2 DEF OnlyOnWay
  <2>2. \A x : ClaimComes(w, c, x)' = ClaimComes(w, c, x)
    BY <1>2 DEF ClaimComes
  <2>3. \A x : /\ Follows(w, c, x)' = Follows(w, c, x)
               /\ WillHear(w, c, x)' = WillHear(w, c, x)
    BY <1>1, <1>8, <2>2 DEF Follows, WillHear
  <2> QED
    BY <1>1, <1>8, <1>10, <2>1, <2>3 DEF Decided
<1>11. \A S, k : Apart(S, k)' = Apart(S, k)
  BY <1>1, <1>2 DEF Apart, Waiting
<1>12. Together => Together'
  BY <1>4, <1>5, <1>6, <1>9, <1>10 DEF Together, Phase
<1>13. Parted => Parted'
  BY <1>1, <1>11 DEF Parted
<1> QED
  BY <1>3, <1>12, <1>13 DEF OneSide

\* Robots that cannot hear each other are never both on the task: for every fleet
\* and every costs and timers with these bounds, every order of ticks and
\* messages, and every way the network splits once the owner is known.
THEOREM OneSideWorksAlways == OneSplit /\ Spec => []OneSideWorks
<1> DEFINE I == SplitTimers /\ OneSide
<1>1. OneSplit /\ Init => I
  BY OneSideInit DEF OneSplit
<1>2. TypeOK /\ TypeOK' /\ I /\ [Next]_vars => I'
  <2> SUFFICES ASSUME TypeOK, TypeOK', SplitTimers, OneSide, [Next]_vars
               PROVE  OneSide'
    BY DEF SplitTimers
  <2>1. CASE UNCHANGED vars
    BY <2>1, OneSideStutter
  <2> QED
    BY <2>1, OneSideStep
<1>3. TypeOK /\ CutOffOwnerStops /\ I => OneSideWorks
  BY OneSideMeans
<1> HIDE DEF I
<1> QED
  BY <1>1, <1>2, <1>3, TypeCorrect, CutOffOwnerStopsAlways, PTL DEF Spec
==============================================================================
