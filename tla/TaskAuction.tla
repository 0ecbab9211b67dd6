---------------------------- MODULE TaskAuction ----------------------------
(***************************************************************************)
(* The decentralised task auction of commsim/core/protocol.py, seen from    *)
(* ONE task.  Every node of the fleet (robots and the gateway) runs the     *)
(* same Allocator; view[n] is what node n's Allocator knows of the task.    *)
(*                                                                          *)
(* The other tasks of a robot reach this one only through its capacity, its *)
(* open-bid cap and its costs, so they are inputs here: a robot bids any    *)
(* cost of Costs, or, when MayPass holds, not at all; it may be full when   *)
(* its window closes (event "full") and may withdraw a bid ("withdraw").    *)
(*                                                                          *)
(* Time advances in units of one tick.  A node's timers are kept as ages    *)
(* and countdowns of its own clock, exactly what the code compares (now - x *)
(* and x - now), and saturate one past the largest bound they are compared  *)
(* with.  Status heartbeats carry an empty owned list on the robots and     *)
(* only count as liveness, so they are heard at the tick that sends them;   *)
(* the protocol's own messages go through one ordered channel per pair.     *)
(***************************************************************************)
EXTENDS Integers, Sequences, FiniteSets

CONSTANTS
    Gateway,        \* id of the gateway, 0 on the wire
    Robots,         \* ids of the robots, from 1
    Costs,          \* bid costs the model distinguishes
    Infinity,       \* math.inf: above every cost
    MayPass,        \* TRUE when a robot may decide not to bid
    BidWindow,      \* Params.bid_window_s
    RebidDelay,     \* the largest delay of Params.rebid_delay_s
    StatusTimeout,  \* Params.status_timeout_s
    TaskLease,      \* Params.task_lease_s
    Margin,         \* Params.reclaim_margin_s
    Retention,      \* Params.finished_retention_s
    FailedBackoff,  \* failed_backoff_s of the fleet_tasks configuration
    MaxDelay,       \* units a message may stay in a channel
    DriveTime,      \* units a robot needs at least to reach the pickup
    InOrder,        \* TRUE: nodes tick by id, the schedule of LoopbackNet.step
    SplitAnytime,   \* FALSE: the network splits only once everybody knows the owner
    Budget          \* how often each event of the environment may happen

Node == Robots \union {Gateway}
NoOwner == -1
CommittedCost == -1
NoTimer == -1
Events == {"announce", "reannounce", "commit", "complete", "fail", "cancel",
           "full", "withdraw", "split", "fault"}

\* The ids are ordered numbers, costs are above COMMITTED_COST, and the task
\* lease exceeds the status timeout (commsim/core/timers.py checks it).
ASSUME FleetAssumption ==
    /\ Gateway \in Nat
    /\ Robots \subseteq Nat
    /\ IsFiniteSet(Robots)
    /\ Gateway \notin Robots
ASSUME CostAssumption ==
    /\ Costs \subseteq Nat
    /\ Infinity \in Nat
    /\ \A c \in Costs : c < Infinity
    /\ MayPass \in BOOLEAN
ASSUME TimerAssumption ==
    /\ BidWindow \in Nat
    /\ RebidDelay \in Nat \ {0}
    /\ StatusTimeout \in Nat
    /\ TaskLease \in Nat
    /\ StatusTimeout <= TaskLease
    /\ Margin \in Nat
    /\ Retention \in Nat
    /\ FailedBackoff \in Nat
    /\ MaxDelay \in Nat
    /\ DriveTime \in Nat
    /\ InOrder \in BOOLEAN
    /\ SplitAnytime \in BOOLEAN
ASSUME BudgetAssumption == Budget \in [Events -> Nat]

VARIABLES
    view,       \* node -> its TaskView of the task
    heard,      \* node -> peer -> age of peer_heard
    quiet,      \* node -> age of last_peer_heard
    isolated,   \* node -> the isolated flag of the last tick
    quorum,     \* node -> had: the last tick saw a quorum, age: of _quorum_since
    chan,       \* sender -> receiver -> messages on their way
    blocked,    \* pairs of nodes that do not hear each other
    alive,      \* nodes that have not crashed
    ticked,     \* nodes whose tick of the current unit is done
    budget      \* what is left of Budget

radioVars == <<heard, quiet, isolated, quorum>>
vars == <<view, heard, quiet, isolated, quorum, chan, blocked, alive, ticked, budget>>

----------------------------------------------------------------------------
(* Data *)

\* "none" stands for a task the node's tasks dict does not hold.
TaskState == {"none", "open", "bidding", "claimed", "done", "cancelled"}
Finished == {"done", "cancelled"}
NoBids == [r \in Robots |-> Infinity]
Expiry == TaskLease + Margin
HeardMax == TaskLease + 2

View == [st      : TaskState,
         known   : BOOLEAN,                         \* pickup is not None
         owner   : Node \union {NoOwner},
         cost    : Costs \union {CommittedCost, Infinity},
         bids    : [Robots -> Costs \union {Infinity}],
         win     : 0 .. BidWindow,                  \* window_end - now
         rebid   : {NoTimer} \union (0 .. RebidDelay) \union (0 .. FailedBackoff),
         renew   : 0 .. Expiry + 1,                 \* now - last_renew
         avoid   : 0 .. FailedBackoff,              \* failed[task] - now (FleetTasks)
         fin     : 0 .. Retention + 1,              \* now - finished_at
         missing : BOOLEAN,                         \* owner_missing
         waiting : BOOLEAN]                         \* reclaim_blocked

NoTask == [st |-> "none", known |-> FALSE, owner |-> NoOwner, cost |-> Infinity,
           bids |-> NoBids, win |-> 0, rebid |-> NoTimer, renew |-> 0, avoid |-> 0,
           fin |-> 0, missing |-> FALSE, waiting |-> FALSE]

\* TaskView(task_id) of a dict that may already hold the task (setdefault).
Known(v) == IF v.st = "none" THEN [NoTask EXCEPT !.st = "open"] ELSE v

MsgType == {"TaskAnnounce", "Bid", "Claim", "LeaseBeacon", "Complete", "Release", "Cancel"}
Message ==
    [type : {"Bid"}, cost : Costs, age : 0 .. MaxDelay]
    \union [type : MsgType \ {"Bid"}, cost : Costs \union {CommittedCost, Infinity},
            age : 0 .. MaxDelay]
Msg(type, cost) == [type |-> type, cost |-> cost, age |-> 0]

Owns(n, v) == v.st = "claimed" /\ v.owner = n
Committed(v) == v.st = "claimed" /\ v.cost <= CommittedCost
SelfOwner(n) == n \in alive /\ Owns(n, view[n])
SelfOwners == {n \in Robots : SelfOwner(n)}

\* (cost, robot id): the lower cost wins, a tie goes to the lower id.
Beats(c1, r1, c2, r2) == c1 < c2 \/ (c1 = c2 /\ r1 < r2)

Bidders(v) == {r \in Robots : v.bids[r] # Infinity}
Winner(v) == CHOOSE r \in Bidders(v) :
                \A o \in Bidders(v) \ {r} : Beats(v.bids[r], r, v.bids[o], o)

----------------------------------------------------------------------------
(* What a node hears *)

Linked(a, b) == {a, b} \subseteq alive /\ {a, b} \notin blocked

\* Mutant: half of an even fleet counts as a majority.
HeardHalf(row, n, a) ==
    Cardinality({p \in Node \ {n} : row[p] <= a}) >= (Cardinality(Node) - 1) \div 2
\* A majority, the node itself counted, was heard at most a units ago.  With
\* k = quorum_nodes / 2 this is now - _quorum_at() <= a, for k = 0 too.
HeardMajority(row, n, a) ==
    Cardinality({p \in Node \ {n} : row[p] <= a}) >= Cardinality(Node) \div 2
HasQuorum(row, n) == HeardMajority(row, n, StatusTimeout)

Hear(n, s) == [heard EXCEPT ![n][s] = 0]

\* What n puts on the topic reaches the channel of every peer it is linked to.
Publish(ch, n, out) ==
    [ch EXCEPT ![n] = [d \in Node |->
        IF d # n /\ Linked(n, d) THEN ch[n][d] \o out ELSE ch[n][d]]]

----------------------------------------------------------------------------
(* The auction *)

CanTakeNew(n, row, iso) == n # Gateway /\ ~iso /\ HasQuorum(row, n)

\* The costs n may bid when it opens bidding; Infinity is no bid.  A robot that
\* failed the task has no cost for it until its backoff ends.
BidChoices(n, v, row, iso) ==
    IF CanTakeNew(n, row, iso) /\ v.known /\ v.avoid = 0
    THEN Costs \union (IF MayPass THEN {Infinity} ELSE {})
    ELSE {Infinity}

OpenBidding(n, v, c) ==
    [v EXCEPT !.st = "bidding", !.win = BidWindow, !.rebid = NoTimer, !.renew = 0,
              !.owner = NoOwner, !.cost = Infinity,
              !.bids = [r \in Robots |-> IF r = n THEN c ELSE Infinity]]

BidOut(c) == IF c = Infinity THEN <<>> ELSE <<Msg("Bid", c)>>

\* Mutant: an owner never yields to another claim.
AssertOwnerIncumbent(v, s, c) ==
    IF v.st \in Finished \/ (v.st = "claimed" /\ v.owner # s)
    THEN v
    ELSE [v EXCEPT !.st = "claimed", !.owner = s, !.cost = c, !.renew = 0, !.win = 0,
                   !.rebid = NoTimer, !.bids = NoBids, !.missing = FALSE, !.waiting = FALSE]
\* Mutant: a late claim or beacon revives a finished task.
AssertOwnerRevives(v, s, c) ==
    IF v.st = "claimed" /\ v.owner # s /\ ~Beats(c, s, v.cost, v.owner)
    THEN v
    ELSE [v EXCEPT !.st = "claimed", !.owner = s, !.cost = c, !.renew = 0, !.win = 0,
                   !.rebid = NoTimer, !.bids = NoBids, !.missing = FALSE, !.waiting = FALSE]
AssertOwner(v, s, c) ==
    IF \/ v.st \in Finished
       \/ v.st = "claimed" /\ v.owner # s /\ ~Beats(c, s, v.cost, v.owner)
    THEN v
    ELSE [v EXCEPT !.st = "claimed", !.owner = s, !.cost = c, !.renew = 0, !.win = 0,
                   !.rebid = NoTimer, !.bids = NoBids, !.missing = FALSE, !.waiting = FALSE]

----------------------------------------------------------------------------
(* Receiving: s's oldest message to n runs the handler deliver() picks *)

\* The frame of every handler: the head of the channel is consumed, the sender
\* is heard, the view becomes v and n publishes out.
Handled(n, s, v, out) ==
    /\ view' = [view EXCEPT ![n] = v]
    /\ heard' = Hear(n, s)
    /\ quiet' = [quiet EXCEPT ![n] = 0]
    /\ chan' = Publish([chan EXCEPT ![s][n] = Tail(@)], n, out)
    /\ UNCHANGED <<isolated, quorum, blocked, alive, ticked, budget>>

Arrived(n, s, types) ==
    /\ n # s
    /\ chan[s][n] # <<>>
    /\ Head(chan[s][n]).type \in types

OnAnnounce(n, s) ==
    /\ Arrived(n, s, {"TaskAnnounce"})
    /\ LET v == view[n]
           fresh == [NoTask EXCEPT !.known = TRUE]
       IN  IF v.st = "none"
           THEN \E c \in BidChoices(n, fresh, Hear(n, s)[n], isolated[n]) :
                    Handled(n, s, OpenBidding(n, fresh, c), BidOut(c))
           ELSE Handled(n, s, [v EXCEPT !.known = TRUE], <<>>)

OnBid(n, s) ==
    /\ Arrived(n, s, {"Bid"})
    /\ LET v == view[n]
           record(w) == [w EXCEPT !.bids[s] = Head(chan[s][n]).cost]
       IN  CASE v.st = "open" ->
                    \E c \in BidChoices(n, v, Hear(n, s)[n], isolated[n]) :
                        Handled(n, s, record(OpenBidding(n, v, c)), BidOut(c))
             [] v.st = "bidding" -> Handled(n, s, record(v), <<>>)
             [] OTHER -> Handled(n, s, v, <<>>)

OnClaim(n, s) ==
    /\ Arrived(n, s, {"Claim"})
    /\ LET v == Known(view[n])
           c == Head(chan[s][n]).cost
           cheaper == /\ v.st = "bidding" /\ n \in Bidders(v)
                      /\ Beats(v.bids[n], n, c, s)
       IN  Handled(n, s, IF cheaper THEN [v EXCEPT !.bids[s] = c]
                                    ELSE AssertOwner(v, s, c), <<>>)

OnLeaseRenewal(n, s) ==
    /\ Arrived(n, s, {"LeaseBeacon"})
    /\ Handled(n, s, AssertOwner(Known(view[n]), s, Head(chan[s][n]).cost), <<>>)

\* COMPLETE and CANCEL end the task whoever sends them.  The code leaves the
\* bids and timers of a finished task as they were; nothing reads them again,
\* so they are cleared here.
Finish(v, st) == [v EXCEPT !.st = st, !.fin = 0, !.win = 0, !.rebid = NoTimer,
                           !.renew = 0, !.avoid = 0, !.bids = NoBids]

OnTaskEvent(n, s) ==
    /\ Arrived(n, s, {"Complete", "Cancel", "Release"})
    /\ LET v == view[n]
           kind == Head(chan[s][n]).type
       IN  CASE v.st = "none" -> Handled(n, s, v, <<>>)
             [] v.st # "none" /\ kind = "Complete" -> Handled(n, s, Finish(v, "done"), <<>>)
             [] v.st # "none" /\ kind = "Cancel" -> Handled(n, s, Finish(v, "cancelled"), <<>>)
             [] kind = "Release" /\ Owns(s, v) ->
                    \E c \in BidChoices(n, v, Hear(n, s)[n], isolated[n]) :
                        Handled(n, s, OpenBidding(n, v, c), BidOut(c))
             [] kind = "Release" /\ v.st = "bidding" ->
                    Handled(n, s, [v EXCEPT !.bids[s] = Infinity], <<>>)
             [] OTHER -> Handled(n, s, v, <<>>)

Receive(n) == \E s \in Node :
    \/ OnAnnounce(n, s)
    \/ OnBid(n, s)
    \/ OnClaim(n, s)
    \/ OnLeaseRenewal(n, s)
    \/ OnTaskEvent(n, s)

----------------------------------------------------------------------------
(* The tick of a node: timers first, then what the task's timers call for *)

\* The flags tick() recomputes before it looks at the task.
IsolatedNow(n) == quiet[n] > StatusTimeout
QuorumNow(n) == HasQuorum(heard[n], n)
QuorumAgeNow(n) == IF QuorumNow(n) /\ ~quorum[n].had THEN 0 ELSE quorum[n].age

\* An owner's tick renews its lease at every peer before anything else.
Beacon(n) == IF Owns(n, view[n]) THEN <<Msg("LeaseBeacon", view[n].cost)>> ELSE <<>>

\* The frame of every tick; the Status of this unit is heard by linked peers.
Ticked(n, v, out) ==
    /\ view' = [view EXCEPT ![n] =
            IF v.st \in Finished /\ v.fin > Retention THEN NoTask ELSE v]
    /\ chan' = Publish(chan, n, Beacon(n) \o out)
    /\ heard' = [p \in Node |-> IF p # n /\ Linked(n, p)
                                THEN [heard[p] EXCEPT ![n] = 0] ELSE heard[p]]
    /\ quiet' = [p \in Node |-> IF p # n /\ Linked(n, p) THEN 0 ELSE quiet[p]]
    /\ isolated' = [isolated EXCEPT ![n] = IsolatedNow(n)]
    /\ quorum' = [quorum EXCEPT ![n] = [had |-> QuorumNow(n), age |-> QuorumAgeNow(n)]]
    /\ ticked' = ticked \union {n}
    /\ UNCHANGED <<blocked, alive>>

Reopen(n, v, out) ==
    \E c \in BidChoices(n, v, heard[n], IsolatedNow(n)) :
        Ticked(n, OpenBidding(n, v, c), out \o BidOut(c))

WindowOver(v) == v.st = "bidding" /\ v.win = 0

\* Every node draws its own delay until it reopens the bidding.
NoWinner(n) ==
    /\ WindowOver(view[n])
    /\ Bidders(view[n]) = {}
    /\ \E d \in 1 .. RebidDelay :
           Ticked(n, [view[n] EXCEPT !.st = "open", !.rebid = d], <<>>)

\* The window of a round that n itself won.
Won(n) == WindowOver(view[n]) /\ Bidders(view[n]) # {} /\ Winner(view[n]) = n

\* A winner that is full or without a quorum gives the task back; it cannot
\* bid in the round it reopens, for the same reason.
Decline(n) ==
    /\ Won(n)
    /\ Ticked(n, OpenBidding(n, view[n], Infinity), <<Msg("Release", Infinity)>>)

TakeOwner(n) ==
    /\ WindowOver(view[n])
    /\ Bidders(view[n]) # {}
    /\ Won(n) => QuorumNow(n)
    /\ LET v == view[n]
           w == Winner(v)
       IN  Ticked(n, [v EXCEPT !.st = "claimed", !.owner = w, !.cost = v.bids[w],
                               !.renew = 0, !.bids = NoBids],
                  IF w = n THEN <<Msg("Claim", v.bids[w])>> ELSE <<>>)

RebidDue(v) == v.st = "open" /\ v.rebid = 0

Rebid(n) ==
    /\ RebidDue(view[n])
    /\ Reopen(n, view[n], <<>>)

\* Mutant: only an owner that hears nobody at all stops.
MustStopAlone(n) ==
    /\ Owns(n, view[n])
    /\ quiet[n] > TaskLease
    /\ ~Committed(view[n])
\* A lease without any peer, or without a majority, ends uncommitted work.
MustStop(n) ==
    /\ Owns(n, view[n])
    /\ quiet[n] > TaskLease \/ ~HeardMajority(heard[n], n, TaskLease)
    /\ ~Committed(view[n])

LeaseLost(n) ==
    /\ MustStop(n)
    /\ Ticked(n, [view[n] EXCEPT !.st = "open", !.owner = NoOwner, !.cost = Infinity,
                                 !.renew = 0], <<>>)

\* Mutant: the lease of a provisional winner never expires.
ExpiredOnceClaimed(n) ==
    view[n].st = "claimed" /\ view[n].owner # n /\ view[n].renew > Expiry /\ Committed(view[n])
Expired(n) == view[n].st = "claimed" /\ view[n].owner # n /\ view[n].renew > Expiry

OwnerMissing(n) ==
    /\ Expired(n)
    /\ Committed(view[n])
    /\ Ticked(n, [view[n] EXCEPT !.missing = TRUE], <<>>)

ReclaimBlocked(n) ==
    /\ Expired(n)
    /\ ~Committed(view[n])
    /\ ~QuorumNow(n)
    /\ Ticked(n, [view[n] EXCEPT !.waiting = TRUE], <<>>)

\* The quorum is only just back: the owner's beacon may be on its way.
JustHealed(n) == view[n].waiting /\ QuorumAgeNow(n) < Margin

\* Mutant: a reclaimed task is left open, for nobody to start a round.
ReclaimForgets(n) ==
    /\ Expired(n)
    /\ ~Committed(view[n])
    /\ QuorumNow(n)
    /\ ~JustHealed(n)
    /\ Ticked(n, [view[n] EXCEPT !.st = "open", !.owner = NoOwner, !.cost = Infinity,
                                 !.renew = 0], <<>>)
Reclaim(n) ==
    /\ Expired(n)
    /\ ~Committed(view[n])
    /\ QuorumNow(n)
    /\ ~JustHealed(n)
    /\ Reopen(n, view[n], <<>>)

\* Nothing of the task is due.
IdleTick(n) ==
    /\ ~WindowOver(view[n])
    /\ ~RebidDue(view[n])
    /\ ~MustStop(n)
    /\ Expired(n) => ~Committed(view[n]) /\ QuorumNow(n) /\ JustHealed(n)
    /\ Ticked(n, view[n], <<>>)

Spend(e) == budget[e] > 0 /\ budget' = [budget EXCEPT ![e] = @ - 1]

Tick(n) ==
    /\ n \in alive \ ticked
    /\ InOrder => \A m \in alive \ ticked : n <= m
    /\ \/ Spend("full") /\ Decline(n)
       \/ /\ \/ NoWinner(n)
             \/ ~QuorumNow(n) /\ Decline(n)
             \/ TakeOwner(n)
             \/ Rebid(n)
             \/ LeaseLost(n)
             \/ OwnerMissing(n)
             \/ ReclaimBlocked(n)
             \/ Reclaim(n)
             \/ IdleTick(n)
          /\ UNCHANGED budget

----------------------------------------------------------------------------
(* Calls into the allocator: the operator and the robot's task_manager *)

\* The frame of a local call: n's view becomes v and n publishes out.
Called(n, v, out) ==
    /\ n \in alive
    /\ view' = [view EXCEPT ![n] = v]
    /\ chan' = Publish(chan, n, out)
    /\ UNCHANGED <<heard, quiet, isolated, quorum, blocked, alive, ticked>>

Announce ==
    /\ Spend("announce")
    /\ view[Gateway].st = "none"
    /\ Called(Gateway, OpenBidding(Gateway, [NoTask EXCEPT !.known = TRUE], Infinity),
              <<Msg("TaskAnnounce", Infinity)>>)

\* The gateway repeats unowned tasks for robots that joined late.
Reannounce ==
    /\ Spend("reannounce")
    /\ view[Gateway].st \in {"open", "bidding"}
    /\ view[Gateway].known
    /\ Called(Gateway, view[Gateway], <<Msg("TaskAnnounce", Infinity)>>)

\* Nothing renews the view a robot has of its own task, so its renew is the
\* time since it claimed.
Arrives(n) == Owns(n, view[n]) /\ view[n].renew >= DriveTime

Commit(n) ==
    /\ Spend("commit")
    /\ Arrives(n)
    /\ ~Committed(view[n])
    /\ Called(n, [view[n] EXCEPT !.cost = CommittedCost], <<Msg("Claim", CommittedCost)>>)

\* task_status keeps only its last message, so DONE may be the first that the
\* robot's FleetTasks sees: the code asks for no commit before it.
Complete(n) ==
    /\ Spend("complete")
    /\ Arrives(n)
    /\ Called(n, Finish(view[n], "done"), <<Msg("Complete", Infinity)>>)

\* A task that failed before the item was on board is released, and this robot
\* schedules a round of its own for when its backoff ends.
Fail(n) ==
    /\ Spend("fail")
    /\ Owns(n, view[n])
    /\ ~Committed(view[n])
    /\ Called(n, [view[n] EXCEPT !.st = "open", !.owner = NoOwner, !.cost = Infinity,
                                 !.renew = 0, !.rebid = FailedBackoff,
                                 !.avoid = FailedBackoff],
              <<Msg("Release", Infinity)>>)

\* The operator at the gateway, or a person at the robot that owns the task.
Cancel(n) ==
    /\ Spend("cancel")
    /\ view[n].st # "none"
    /\ n = Gateway \/ Owns(n, view[n])
    /\ Called(n, Finish(view[n], "cancelled"), <<Msg("Cancel", Infinity)>>)

\* n's claim of another task filled it up: the open bid on this one goes back.
Withdraw(n) ==
    /\ Spend("withdraw")
    /\ view[n].st = "bidding"
    /\ n \in Bidders(view[n])
    /\ Called(n, [view[n] EXCEPT !.bids[n] = Infinity],
              <<Msg("Release", Infinity)>>)

----------------------------------------------------------------------------
(* The environment: time, the network and crashes *)

Older(x, bound) == IF x < bound THEN x + 1 ELSE x
\* Mutant: a window that nobody closed counts on below zero.
SoonerUnbounded(x) == IF x # NoTimer THEN x - 1 ELSE x
Sooner(x) == IF x > 0 THEN x - 1 ELSE x

Aged(v) ==
    [v EXCEPT !.win = Sooner(@), !.rebid = Sooner(@), !.avoid = Sooner(@),
              !.renew = IF v.st = "claimed" THEN Older(@, Expiry + 1) ELSE @,
              !.fin = IF v.st \in Finished THEN Older(@, Retention + 1) ELSE @]

\* A unit ends once every node has ticked and no message is overdue.
Advance ==
    /\ ticked = alive
    /\ \A s, d \in Node : \A i \in DOMAIN chan[s][d] : chan[s][d][i].age < MaxDelay
    /\ view' = [n \in Node |-> Aged(view[n])]
    /\ heard' = [n \in Node |-> [p \in Node |-> Older(heard[n][p], HeardMax)]]
    /\ quiet' = [n \in Node |-> Older(quiet[n], HeardMax)]
    /\ quorum' = [n \in Node |-> [quorum[n] EXCEPT !.age = Older(@, Margin)]]
    /\ chan' = [s \in Node |-> [d \in Node |->
            [i \in DOMAIN chan[s][d] |-> [chan[s][d][i] EXCEPT !.age = @ + 1]]]]
    /\ ticked' = {}
    /\ UNCHANGED <<isolated, blocked, alive, budget>>

\* A cut link loses what is on its way.
Cut(pairs) ==
    /\ blocked' = blocked \union pairs
    /\ chan' = [s \in Node |-> [d \in Node |->
            IF {s, d} \in pairs THEN <<>> ELSE chan[s][d]]]
    /\ UNCHANGED <<view, heard, quiet, isolated, quorum, alive, ticked>>

Settled == \E r \in SelfOwners : \A n \in alive : Owns(r, view[n])

Partition(side) ==
    /\ Spend("split")
    /\ SplitAnytime \/ Settled
    /\ blocked = {}
    /\ side # {} /\ side # Node
    /\ Cut({{a, b} : a \in side, b \in Node \ side})

CutPair(a, b) ==
    /\ Spend("fault")
    /\ a # b
    /\ {a, b} \notin blocked
    /\ Cut({{a, b}})

Heal ==
    /\ blocked # {}
    /\ blocked' = {}
    /\ UNCHANGED <<view, heard, quiet, isolated, quorum, chan, alive, ticked, budget>>

Crash(n) ==
    /\ Spend("fault")
    /\ n \in alive
    /\ alive' = alive \ {n}
    /\ ticked' = ticked \ {n}
    /\ chan' = [s \in Node |-> [d \in Node |-> IF n \in {s, d} THEN <<>> ELSE chan[s][d]]]
    /\ UNCHANGED <<view, heard, quiet, isolated, quorum, blocked>>

----------------------------------------------------------------------------

Init ==
    /\ view = [n \in Node |-> NoTask]
    /\ heard = [n \in Node |-> [p \in Node |-> HeardMax]]
    /\ quiet = [n \in Node |-> 0]
    /\ isolated = [n \in Node |-> FALSE]
    /\ quorum = [n \in Node |-> [had |-> FALSE, age |-> Margin]]
    /\ chan = [s \in Node |-> [d \in Node |-> <<>>]]
    /\ blocked = {}
    /\ alive = Node
    /\ ticked = {}
    /\ budget = Budget

Next ==
    \/ \E n \in Node : Receive(n) \/ Tick(n)
    \/ Announce
    \/ Reannounce
    \/ \E n \in Robots : Commit(n) \/ Complete(n) \/ Fail(n) \/ Withdraw(n)
    \/ \E n \in Node : Cancel(n) \/ Crash(n)
    \/ Advance
    \/ \E side \in SUBSET Node : Partition(side)
    \/ \E a, b \in Node : CutPair(a, b)
    \/ Heal

Spec == Init /\ [][Next]_vars

\* Nodes keep ticking, messages arrive and time passes; a cut link comes back.
Fairness ==
    /\ \A n \in Node : WF_vars(Receive(n)) /\ WF_vars(Tick(n))
    /\ WF_vars(Advance)
    /\ WF_vars(Heal)
    /\ WF_vars(Announce)

FairSpec == Spec /\ Fairness
----------------------------------------------------------------------------
(* Properties *)

\* Every variable keeps its range: no view, timer or message the code does not
\* have.
TypeOK ==
    /\ view \in [Node -> View]
    /\ heard \in [Node -> [Node -> 0 .. HeardMax]]
    /\ quiet \in [Node -> 0 .. HeardMax]
    /\ isolated \in [Node -> BOOLEAN]
    /\ quorum \in [Node -> [had : BOOLEAN, age : 0 .. Margin]]
    /\ chan \in [Node -> [Node -> Seq(Message)]]
    /\ blocked \subseteq SUBSET Node
    /\ alive \subseteq Node
    /\ ticked \subseteq alive
    /\ budget \in [Events -> Nat]

InFlight(s, d, types) == \E i \in DOMAIN chan[s][d] : chan[s][d][i].type \in types

\* Two robots may both claim when their windows close apart, but never silently:
\* from its tick in each beacon period on, the one the tie-break favours has a Claim
\* or a beacon on its way to the other, which yields on receipt (the early-claim case
\* of on_claim).  Before that tick the other's claim may be news to it.
LoserWillHear ==
    \A a, b \in SelfOwners :
        Beats(view[a].cost, a, view[b].cost, b) /\ a \in ticked =>
            InFlight(a, b, {"Claim", "LeaseBeacon"})

\* A robot that stays on the task ends up as its owner in every node's view, or
\* the view has raised owner_missing over a committed owner that crashed: a
\* provisional winner, or an owner last heard of before a cut, does not stay.
EveryoneLearns ==
    \A r \in Robots :
        <>[]SelfOwner(r) => <>[](\A n \in alive : Owns(r, view[n]) \/ view[n].missing)

\* No robot is on an uncommitted task more than one tick after the lease it
\* last heard a majority in: the deadline tick() promises the peers, which
\* reclaim a margin after it.
CutOffOwnerStops ==
    \A n \in SelfOwners : ~Committed(view[n]) => HeardMajority(heard[n], n, TaskLease + 1)

\* A split cannot put two robots on one task: robots that cannot hear each
\* other are never both on it.
OneSideWorks ==
    \A a, b \in SelfOwners : a # b => {a, b} \notin blocked

\* No task is abandoned: while some robot knows the task as unfinished, not on
\* board anyone, and no robot is on it, one takes it in the end.
Wanted == \E r \in Robots \cap alive :
              /\ view[r].known
              /\ view[r].st \in {"open", "bidding", "claimed"}
              /\ ~Committed(view[r])
NoAbandonedTask == Wanted ~> (SelfOwners # {} \/ ~Wanted)

\* Once nothing is on its way, a task that is finished anywhere is worked by
\* nobody and taken by nobody: COMPLETE and CANCEL reached everyone, and no late
\* claim or beacon has revived the task (the first guard of _assert_owner).
Silence == \A s, d \in Node : chan[s][d] = <<>>
FinishedStops ==
    [][Silence /\ (\E n \in alive : view[n].st \in Finished)
           => SelfOwners = {} /\ SelfOwners' = {}]_vars
=============================================================================
