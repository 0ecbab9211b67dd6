--------------------------- MODULE RouterSession ---------------------------
(***************************************************************************)
(* One router-to-router session of the radio simulator                       *)
(* (commsim/des/sim.py: Flow in both directions, keepalive_tick, kill and     *)
(* revive, net_send): a window of segments per direction, cumulative and     *)
(* piggybacked acks, retransmission, reassembly, and the lease that tears a   *)
(* silent session down.                                                       *)
(*                                                                          *)
(* The radio between the two routers loses, delays, duplicates (a segment is *)
(* retransmitted while a copy is still on the air) and reorders.  Times are   *)
(* kept as order only: MaxTries transmissions of a segment are as many as fit *)
(* in a lease, as _rto doubles its wait up to 60 s.  Messages are numbered    *)
(* per session and direction.  A message longer than a segment (a map patch)  *)
(* only adds segments without messages, and is left out.                      *)
(***************************************************************************)
EXTENDS Naturals, Sequences

CONSTANTS
    CWND,         \* segments in flight per direction
    BE_BACKLOG,   \* best-effort messages are dropped behind that many
    MaxTries,     \* transmissions of a segment within one lease
    MaxEpoch,     \* bound: how often the session closes or opens
    MaxSeq,       \* bound: segments per direction, in each session
    Budgets       \* bounds: how often each of RadioEvents may happen

\* "rto": a segment is sent again; the others are faults.
RadioEvents == {"rto", "loss", "delay", "death"}

ASSUME RouterAssumption ==
    /\ CWND \in Nat \ {0} /\ BE_BACKLOG \in Nat /\ MaxTries \in Nat \ {0}
    /\ MaxEpoch \in Nat /\ MaxSeq \in [{"there", "back"} -> [0 .. MaxEpoch -> Nat]]
    /\ Budgets \subseteq [RadioEvents -> Nat]

Dir == {"there", "back"}
Rev(d) == IF d = "there" THEN "back" ELSE "there"
Node == {"near", "far"}
Src(d) == IF d = "there" THEN "near" ELSE "far"
Dst(d) == Src(Rev(d))

VARIABLES
    epoch, down,   \* of the session: both directions change together
    alive,         \* per node
    segs,          \* per direction, the segments of this session, by sequence number
    una,           \* the lowest sequence number in inflight: on_ack removes all below
    accepted,      \* messages taken by send in this session
    backlog,       \* the last of them that wait for the window
    expected, ooo, unacked, ack_pending,   \* the receiver of each direction
    app,           \* the messages handed to its application in this session
    air, acks,     \* segments and acks on the radio, those of old sessions too
    budget,        \* what is left of the chosen element of Budgets
    hurt           \* there was a loss, a delay beyond the lease or a death

senderVars == <<segs, una, accepted, backlog>>
receiverVars == <<expected, ooo, unacked, ack_pending, app>>
sessionVars == <<epoch, down>>
airVars == <<air, acks>>
faultVars == <<budget, hurt>>
vars == <<sessionVars, alive, senderVars, receiverVars, airVars, faultVars>>

Later(x, y) == IF x > y THEN x ELSE y
Run(a, b) == [i \in 1 .. b - a |-> a + i]
Spend(k) == budget[k] > 0 /\ budget' = [budget EXCEPT ![k] = @ - 1]
Fault(k) == Spend(k) /\ hurt' = TRUE
Limit(d) == MaxSeq[d][epoch]

Inflight(d) == una[d] .. Len(segs[d])
WindowFull(d) == Len(segs[d]) + 1 - una[d] >= CWND
FirstWaiting(d) == accepted[d] - backlog[d]

----------------------------------------------------------------------------
(* Frames *)

\* A frame refers to its segment's payload; the try tells copies apart.
SegFrame(d, s, seg, try) ==
    [dir |-> d, epoch |-> epoch, seq |-> s, lo |-> seg.lo, hi |-> seg.hi, try |-> try]
AckFrame(d, n) == [dir |-> d, epoch |-> epoch, ack |-> n]

\* _tx takes a pending ack of the other direction along.
Piggy(d) == IF unacked[Rev(d)] > 0 THEN expected[Rev(d)] ELSE 0

\* The segments that carry messages a + 1 .. m[1], m[1] + 1 .. m[2], and so on.
Batches(d, a, n, m) ==
    [i \in 1 .. n |->
        [lo |-> IF i = 1 THEN a ELSE m[i - 1], hi |-> m[i], tries |-> 1, timer |-> TRUE,
         piggy |-> IF i = 1 THEN Piggy(d) ELSE 0]]

\* net_send: a dead router sends nothing.
OnAir(d, n, new) ==
    IF alive[Src(d)]
    THEN {SegFrame(d, Len(segs[d]) + i, new[i], 1) : i \in 1 .. n}
    ELSE {}
AcksOnAir(d, n) == IF alive[Dst(d)] THEN {AckFrame(d, n)} ELSE {}

----------------------------------------------------------------------------
(* The sender *)

\* send: with a session, within the window or behind it.  (Without a session the
\* message is dropped, as is best effort behind a long backlog: nothing changes.)
Send(d, reliable) ==
    /\ ~down /\ alive[Src(d)] /\ Len(segs[d]) + backlog[d] < Limit(d)
    /\ accepted' = [accepted EXCEPT ![d] = @ + 1]
    /\ \/ /\ WindowFull(d)
          /\ reliable \/ backlog[d] < BE_BACKLOG
          /\ backlog' = [backlog EXCEPT ![d] = @ + 1]
          /\ UNCHANGED <<segs, unacked, air>>
       \/ /\ ~WindowFull(d)
          /\ LET new == Batches(d, accepted[d], 1, <<accepted[d] + 1>>) IN
                /\ segs' = [segs EXCEPT ![d] = @ \o new]
                /\ air' = air \union OnAir(d, 1, new)
          /\ unacked' = [unacked EXCEPT ![Rev(d)] = 0]
          /\ UNCHANGED backlog
    /\ UNCHANGED <<sessionVars, alive, una, expected, ooo, ack_pending, app, acks, faultVars>>

\* _rto of segment s: sent again while it is in flight.  At a dead router the timer
\* ends for good, also when the router comes back within the lease.
Rto(d, s) ==
    /\ s \in Inflight(d) /\ segs[d][s].timer
    /\ \/ /\ alive[Src(d)] /\ segs[d][s].tries < MaxTries /\ Spend("rto")
          /\ LET piggy == IF unacked[Rev(d)] > 0 THEN expected[Rev(d)] ELSE segs[d][s].piggy IN
                segs' = [segs EXCEPT ![d][s].tries = @ + 1, ![d][s].piggy = piggy]
          /\ air' = air \union {SegFrame(d, s, segs[d][s], segs[d][s].tries + 1)}
          /\ unacked' = [unacked EXCEPT ![Rev(d)] = 0]
       \/ /\ ~alive[Src(d)]
          /\ segs' = [segs EXCEPT ![d][s].timer = FALSE]
          /\ UNCHANGED <<air, unacked, budget>>
    /\ UNCHANGED <<sessionVars, alive, una, accepted, backlog, expected, ooo, ack_pending,
                   app, acks, hurt>>

\* Mutant: the window is looked at before the acked segments are removed.
RoomBefore(d, a) == IF CWND + una[d] > Len(segs[d]) + 1
                    THEN CWND + una[d] - (Len(segs[d]) + 1) ELSE 0

\* How many segments fit in the window once those below a are removed.
Room(d, a) == IF CWND + Later(una[d], a) > Len(segs[d]) + 1
              THEN CWND + Later(una[d], a) - (Len(segs[d]) + 1) ELSE 0

\* on_ack: batches of the backlog fill the room that the ack makes.
Releases(d, a, n, m) ==
    /\ \A i, j \in 1 .. n : i < j => m[i] < m[j]
    /\ n <= Room(d, a)
    /\ n < Room(d, a) => (IF n = 0 THEN FirstWaiting(d) ELSE m[n]) = accepted[d]

\* The sender of d reads the ack a: the primed variables of d, except air.
OnAck(d, a, n, m) ==
    /\ Releases(d, a, n, m)
    /\ segs' = [segs EXCEPT ![d] = @ \o Batches(d, FirstWaiting(d), n, m)]
    /\ una' = [una EXCEPT ![d] = Later(@, a)]
    /\ backlog' = [backlog EXCEPT ![d] = accepted[d] - (IF n = 0 THEN FirstWaiting(d) ELSE m[n])]
    /\ UNCHANGED accepted
Cuts(d, n) == [1 .. n -> FirstWaiting(d) + 1 .. accepted[d]]

ArriveAck(f) ==
    /\ f \in acks
    /\ acks' = acks \ {f}
    /\ \/ /\ f.epoch # epoch \/ ~alive[Src(f.dir)]
          /\ UNCHANGED <<senderVars, unacked, air>>
       \/ /\ f.epoch = epoch /\ alive[Src(f.dir)]
          /\ \E n \in 0 .. CWND : \E m \in Cuts(f.dir, n) :
                /\ OnAck(f.dir, f.ack, n, m)
                /\ air' = air \union OnAir(f.dir, n, Batches(f.dir, FirstWaiting(f.dir), n, m))
                /\ unacked' = IF n > 0 THEN [unacked EXCEPT ![Rev(f.dir)] = 0] ELSE unacked
    /\ UNCHANGED <<sessionVars, alive, expected, ooo, ack_pending, app, faultVars>>

----------------------------------------------------------------------------
(* The receiver *)

\* Mutant: what an ack names is the newest segment.
AcksNewest(f, e) == IF f.seq >= e THEN f.seq + 1 ELSE e

\* What an ack of d names once f is in: the next segment expected.
Acks(f, e) == e

\* Every second segment is acked at once.
Unacked(u) == IF u = 0 THEN 1 ELSE 0

\* Mutant: a segment ahead of its turn is delivered as it comes.
Ahead(f) == f.seq >= expected[f.dir]

Turn(f) == f.seq = expected[f.dir]

\* The next one: it and all that waited for it go to the application.
InOrder(f, last, u) ==
    LET d == f.dir IN
    /\ Turn(f)
    /\ last >= f.seq
    /\ \A k \in f.seq + 1 .. last : \E o \in ooo[d] : o.seq = k
    /\ ~ \E o \in ooo[d] : o.seq = last + 1
    /\ expected' = [expected EXCEPT ![d] = last + 1]
    /\ ooo' = [ooo EXCEPT ![d] = {o \in @ : o.seq > last}]
    /\ \E o \in ooo[d] \union {f} :
          /\ o.seq = last
          /\ app' = [app EXCEPT ![d] = @ \o Run(f.lo, o.hi)]
    /\ unacked' = [unacked EXCEPT ![d] = Unacked(u)]
    /\ ack_pending' = [ack_pending EXCEPT ![d] = @ \/ u = 0]
    /\ acks' = IF u = 0 THEN acks ELSE acks \union AcksOnAir(d, Acks(f, last + 1))

\* Ahead of its turn, or already delivered: acked at once.
OutOfOrder(f) ==
    LET d == f.dir IN
    /\ ~Turn(f)
    /\ ooo' = IF f.seq > expected[d]
              THEN [ooo EXCEPT ![d] = {o \in @ : o.seq # f.seq} \union {f}] ELSE ooo
    /\ unacked' = [unacked EXCEPT ![d] = 0]
    /\ acks' = acks \union AcksOnAir(d, Acks(f, expected[d]))
    /\ UNCHANGED <<expected, app, ack_pending>>

\* on_seg: a segment of an old session is ignored; the piggybacked ack comes first,
\* and the segments it lets go take the pending ack of d along.
OnSeg(f) ==
    LET d == f.dir
        r == Rev(f.dir)
        piggy == segs[f.dir][f.seq].piggy IN
    /\ f.epoch = epoch
    /\ \E n \in 0 .. CWND : \E m \in Cuts(r, n) :
          /\ OnAck(r, piggy, n, m)
          /\ air' = (air \ {f}) \union OnAir(r, n, Batches(r, FirstWaiting(r), n, m))
          /\ \/ \E last \in f.seq .. Limit(d) : InOrder(f, last, IF n > 0 THEN 0 ELSE unacked[d])
             \/ OutOfOrder(f)

ArriveSeg(f) ==
    /\ f \in air
    /\ \/ /\ f.epoch # epoch \/ ~alive[Dst(f.dir)]
          /\ air' = air \ {f}
          /\ UNCHANGED <<senderVars, receiverVars, acks>>
       \/ alive[Dst(f.dir)] /\ OnSeg(f)
    /\ UNCHANGED <<sessionVars, alive, faultVars>>

DelayedAck(d) ==
    /\ ack_pending[d]
    /\ ack_pending' = [ack_pending EXCEPT ![d] = FALSE]
    /\ unacked' = [unacked EXCEPT ![d] = 0]
    /\ acks' = IF unacked[d] > 0 THEN acks \union AcksOnAir(d, expected[d]) ELSE acks
    /\ UNCHANGED <<sessionVars, alive, senderVars, expected, ooo, app, air, faultVars>>

----------------------------------------------------------------------------
(* The session *)

\* _fresh, for both directions.
Fresh ==
    /\ segs' = [d \in Dir |-> <<>>] /\ una' = [d \in Dir |-> 1]
    /\ accepted' = [d \in Dir |-> 0] /\ backlog' = [d \in Dir |-> 0]
    /\ expected' = [d \in Dir |-> 1] /\ ooo' = [d \in Dir |-> {}]
    /\ unacked' = [d \in Dir |-> 0] /\ ack_pending' = [d \in Dir |-> FALSE]
    /\ app' = [d \in Dir |-> <<>>]

OnTheWay(d) == \E f \in air \union acks : f.dir = d /\ f.epoch = epoch

\* Mutant: the first version of the simulator, which never closed a session.
SilentNever(d) == FALSE

\* Mutant: nothing keeps an idle direction alive.
SilentIdle(d) == ~OnTheWay(d) /\ Inflight(d) = {}

\* Nothing of d will arrive within a lease: its router is dead; or no ack is under
\* way, every segment in flight waits too long for its next try, and the window (or a
\* bound) lets no keepalive through.
Silent(d) ==
    \/ ~alive[Src(d)] /\ ~ \E f \in air : f.dir = d /\ f.epoch = epoch
    \/ /\ ~OnTheWay(d) /\ ~OnTheWay(Rev(d)) /\ ~ack_pending[d]
       /\ WindowFull(d) \/ (Len(segs[d]) = Limit(d) /\ Inflight(d) # {})
       /\ \A s \in Inflight(d) :
             ~segs[d][s].timer \/ segs[d][s].tries = MaxTries \/ budget["rto"] = 0

Close ==
    /\ epoch' = epoch + 1 /\ down' = TRUE
    /\ Fresh
    /\ UNCHANGED <<alive, airVars>>

\* keepalive_tick: one direction has heard nothing for a lease, because nothing was
\* sent, or because the radio was that slow.
LeaseOver ==
    /\ ~down
    /\ \/ (\E d \in Dir : Silent(d)) /\ UNCHANGED faultVars
       \/ Fault("delay")
    /\ Close

Reopen ==
    /\ down /\ epoch < MaxEpoch
    /\ \A x \in Node : alive[x]
    /\ epoch' = epoch + 1 /\ down' = FALSE
    /\ Fresh
    /\ UNCHANGED <<alive, airVars, faultVars>>

Kill(x) ==
    /\ alive[x] /\ Fault("death")
    /\ alive' = [alive EXCEPT ![x] = FALSE]
    /\ UNCHANGED <<sessionVars, senderVars, receiverVars, airVars>>

Revive(x) ==
    /\ ~alive[x]
    /\ alive' = [alive EXCEPT ![x] = TRUE]
    /\ UNCHANGED <<sessionVars, senderVars, receiverVars, airVars, faultVars>>

\* link_ok fails, a queue overflows or there is no route.
Lose ==
    /\ Fault("loss")
    /\ \/ \E f \in air : air' = air \ {f} /\ UNCHANGED acks
       \/ \E f \in acks : acks' = acks \ {f} /\ UNCHANGED air
    /\ UNCHANGED <<sessionVars, alive, senderVars, receiverVars>>

Init ==
    /\ epoch = 0 /\ down = FALSE
    /\ alive = [x \in Node |-> TRUE]
    /\ segs = [d \in Dir |-> <<>>] /\ una = [d \in Dir |-> 1]
    /\ accepted = [d \in Dir |-> 0] /\ backlog = [d \in Dir |-> 0]
    /\ expected = [d \in Dir |-> 1] /\ ooo = [d \in Dir |-> {}]
    /\ unacked = [d \in Dir |-> 0] /\ ack_pending = [d \in Dir |-> FALSE]
    /\ app = [d \in Dir |-> <<>>]
    /\ air = {} /\ acks = {} /\ budget \in Budgets /\ hurt = FALSE

Next ==
    \/ \E d \in Dir, reliable \in BOOLEAN : Send(d, reliable)
    \/ \E d \in Dir : \E s \in Inflight(d) : Rto(d, s)
    \/ \E f \in acks : ArriveAck(f)
    \/ \E f \in air : ArriveSeg(f)
    \/ \E d \in Dir : DelayedAck(d)
    \/ LeaseOver \/ Reopen
    \/ \E x \in Node : Kill(x) \/ Revive(x)
    \/ Lose

\* Timers fire, keepalives are sent, and what is on the air arrives or was lost.
\* Nobody must revive a router or open a session again.
Fairness ==
    /\ \A d \in Dir : WF_vars(Send(d, FALSE)) /\ WF_vars(DelayedAck(d))
    /\ \A d \in Dir : WF_vars(\E s \in Inflight(d) : Rto(d, s))
    /\ WF_vars(\E f \in acks : ArriveAck(f))
    /\ WF_vars(\E f \in air : ArriveSeg(f))
    /\ WF_vars(LeaseOver /\ UNCHANGED faultVars)

Spec == Init /\ [][Next]_vars /\ Fairness

----------------------------------------------------------------------------
Frame == [dir : Dir, epoch : Nat, seq : Nat \ {0}, lo : Nat, hi : Nat, try : 1 .. MaxTries]

\* Type invariant of the session.
TypeOK ==
    /\ epoch \in Nat /\ down \in BOOLEAN /\ alive \in [Node -> BOOLEAN]
    /\ segs \in [Dir -> Seq([lo : Nat, hi : Nat, tries : 1 .. MaxTries, timer : BOOLEAN, piggy : Nat])]
    /\ una \in [Dir -> Nat \ {0}] /\ accepted \in [Dir -> Nat] /\ backlog \in [Dir -> Nat]
    /\ expected \in [Dir -> Nat \ {0}]
    /\ unacked \in [Dir -> 0 .. 1] /\ ack_pending \in [Dir -> BOOLEAN]
    /\ app \in [Dir -> Seq(Nat)]
    /\ air \subseteq Frame /\ ooo \in [Dir -> SUBSET Frame]
    /\ acks \subseteq [dir : Dir, epoch : Nat, ack : Nat \ {0}]
    /\ budget \in [RadioEvents -> Nat] /\ hurt \in BOOLEAN

\* The sender forgets a segment only when its messages are with the application:
\* whatever is lost, duplicated or late, an ack of this session never names more
\* than was delivered.
ForgottenIsDelivered ==
    \A d \in Dir :
        /\ una[d] <= expected[d]
        /\ \A f \in acks : f.dir = d /\ f.epoch = epoch => f.ack <= expected[d]
        /\ \A s \in 1 .. una[d] - 1 : segs[d][s].hi <= Len(app[d])

\* No room stays unused while messages wait for it: a wake-up lost here would be
\* for good, and the next message would overtake them.
BacklogWaits == \A d \in Dir : backlog[d] > 0 => WindowFull(d)

\* The session implements the channel: what waits for a segment that never comes is
\* not handed over, no copy is handed over twice, nothing crosses sessions.
ImplementsChannel == INSTANCE SessionChannel WITH session <- epoch, sent <- accepted, got <- app
Channel == ImplementsChannel!Channel

\* A session that loses nothing is never torn down: as long as no frame is lost and
\* no router dies, what is in flight is acked or on its way, on both directions.
UpWithoutFault == epoch > 0 => hurt

\* No receiver waits forever behind a lost sequence number (the docstring of Flow): it
\* catches up with what was accepted, or the session is torn down, which starts both
\* at zero.
CatchesUp == \A d \in Dir : accepted[d] > Len(app[d]) ~> accepted[d] = Len(app[d])
=============================================================================
