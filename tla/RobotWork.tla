----------------------------- MODULE RobotWork -----------------------------
(***************************************************************************)
(* One robot at work: fleet_tasks (nodes/fleet_tasks.py) beside the          *)
(* task_manager it dispatches to.  The two share no memory: commands go one  *)
(* way (dispatch_task, cancel_task), statuses the other (task_status), and   *)
(* fleet_tasks concludes from the statuses what it tells the fleet: commit,  *)
(* complete, release or withdraw.                                            *)
(*                                                                          *)
(* The auction, TaskAuction's subject, is the environment here: it makes the *)
(* robot win a task (event "claimed"), lose it ("task_yielded", "lease_lost")*)
(* or stop it because the gateway withdrew it.                               *)
(***************************************************************************)
EXTENDS TaskManager

VARIABLE core   \* what FleetTasks and its Allocator know of each task

vars == <<inbox, statusVars, managerVars, navVars, budget, core>>

\* own: "unknown" not in alloc.tasks, "free" not ours, "mine", "committed" with
\* the item on board, "over" DONE or CANCELLED.  The rest are FleetTasks' fields.
Core == [own : [Fleet -> {"unknown", "free", "mine", "committed", "over"}],
         retry : SUBSET Fleet,
         cancelling : SUBSET Fleet,
         synced : BOOLEAN]
NewCore == [own |-> [t \in Fleet |-> "unknown"], retry |-> {}, cancelling |-> {}, synced |-> FALSE]

Owned(c, t) == c.own[t] \in {"mine", "committed"}
OnBoard == {"NAV_TO_DROPOFF", "PLACING"}

\* Mutant: the retry is dispatched like a new task.
DispatchPlain(t, carrying) == [cmd |-> "dispatch", id |-> t, carrying |-> FALSE]

DispatchOf(t, carrying) == [cmd |-> "dispatch", id |-> t, carrying |-> carrying]
CancelOf(t) == [cmd |-> "cancel", id |-> t, carrying |-> FALSE]

----------------------------------------------------------------------------
(* on_task_status *)

\* Mutant: adoption looks at the current task only, not at the queue.
StrangersCurrent(s) ==
    IF s.st \in OnBoard \union Finals \union {"IDLE"} \/ s.id \notin Fleet THEN <<>> ELSE <<s.id>>

\* What the first status after a start shows task_manager to hold, without the load.
Strangers(s) ==
    LET ids == (IF s.st \in OnBoard \union Finals \union {"IDLE"} THEN <<>> ELSE <<s.id>>) \o s.queue
        ours == {i \in DOMAIN ids : ids[i] \in Fleet}
    IN  [i \in 1 .. Cardinality(ours) |-> ids[Nth(ours, i)]]

Adopt(c, s) ==
    [c EXCEPT !.synced = TRUE,
              !.own = [t \in Fleet |-> IF t = s.id /\ s.st \in OnBoard THEN "committed" ELSE @[t]],
              !.cancelling = @ \union ToSet(Strangers(s))]

\* What the status st of fleet task t makes of c.
Failed(c, t) == IF c.own[t] = "committed" THEN [c EXCEPT !.retry = @ \union {t}]
                ELSE [c EXCEPT !.own[t] = "free"]
Over(c, t) == [c EXCEPT !.own[t] = "over", !.retry = @ \ {t}]

\* Mutant: only the start of the dropoff leg commits.
ReportLegOnly(c, t, st) ==
    CASE st = "CANCELLED" /\ t \in c.cancelling -> [c EXCEPT !.cancelling = @ \ {t}]
      [] st = "CANCELLED" /\ t \notin c.cancelling /\ Owned(c, t) -> Over(c, t)
      [] st = "NAV_TO_DROPOFF" /\ Owned(c, t) -> [c EXCEPT !.own[t] = "committed"]
      [] st = "DONE" /\ Owned(c, t) -> Over(c, t)
      [] st = "FAILED" /\ Owned(c, t) -> Failed(c, t)
      [] OTHER -> c

Report(c, t, st) ==
    CASE st = "CANCELLED" /\ t \in c.cancelling -> [c EXCEPT !.cancelling = @ \ {t}]
      [] st = "CANCELLED" /\ t \notin c.cancelling /\ Owned(c, t) -> Over(c, t)
      [] st \in OnBoard /\ Owned(c, t) -> [c EXCEPT !.own[t] = "committed"]
      [] st = "DONE" /\ Owned(c, t) -> Over(c, t)
      [] st = "FAILED" /\ Owned(c, t) -> Failed(c, t)
      [] OTHER -> c

\* A refused dispatch counts as a failure, whatever state the status carries.
Reported(c, s) ==
    IF s.rej # None THEN Report(c, s.rej, "FAILED")
    ELSE IF s.id \in Fleet THEN Report(c, s.id, s.st) ELSE c

OnTaskStatus ==
    /\ status # <<>>
    /\ LET s == Head(status)
           first == ~core.synced
       IN  /\ core' = Reported(IF first THEN Adopt(core, s) ELSE core, s)
           /\ Send(IF first THEN [i \in DOMAIN Strangers(s) |-> CancelOf(Strangers(s)[i])] ELSE <<>>)
    /\ status' = Tail(status)
    /\ UNCHANGED <<latched, managerVars, navVars, budget>>

----------------------------------------------------------------------------
(* The clock, and a restart *)

\* tick: the retries that are due go out, loaded; cancellations of tasks the
\* allocator does not hold are forgotten.
FleetTick(due) ==
    /\ due \subseteq {t \in core.retry : core.own[t] = "committed"}
    /\ LET known == {t \in core.cancelling : core.own[t] # "unknown"}
       IN  /\ due # {} \/ known # core.cancelling
           /\ core' = [core EXCEPT !.retry = @ \ due, !.cancelling = known]
    /\ LET ts == SetToSeq(due)
       IN  Send([i \in DOMAIN ts |-> DispatchOf(ts[i], TRUE)])
    /\ UNCHANGED <<statusVars, managerVars, navVars, budget>>

\* The node dies and starts again, knowing nothing but the latched status.  It
\* takes longer to start than task_manager takes to read what was sent; a task
\* that is over fleet-wide is not offered again.
Restart ==
    /\ inbox = <<>>
    /\ Spend("restart")
    /\ core' = [NewCore EXCEPT !.own = [t \in Fleet |-> IF core.own[t] = "over" THEN "over" ELSE "unknown"]]
    /\ status' = latched
    /\ UNCHANGED <<inbox, latched, managerVars, navVars>>

----------------------------------------------------------------------------
(* The auction *)

About(t, s) == s.id = t \/ s.rej = t \/ t \in ToSet(s.queue)

\* A new round takes a bid window, longer than a command and its status need.
Settled(t) ==
    /\ HeldFor(t) = {}
    /\ \A i \in DOMAIN inbox : inbox[i].id # t
    /\ \A i \in DOMAIN status : ~About(t, status[i])

Win(t) ==
    /\ core.own[t] \in {"unknown", "free"}
    /\ Settled(t)
    /\ Spend("win")
    /\ core' = [core EXCEPT !.own[t] = "mine"]
    /\ Send(<<DispatchOf(t, FALSE)>>)
    /\ UNCHANGED <<statusVars, managerVars, navVars>>

CancelLocal(t) ==
    /\ core' = [core EXCEPT !.own[t] = "free", !.retry = @ \ {t}, !.cancelling = @ \union {t}]
    /\ Send(<<CancelOf(t)>>)

\* Out-bid, or the lease ran out while the robot was cut off.
Lose(t) ==
    /\ Owned(core, t)
    /\ Spend("lose")
    /\ CancelLocal(t)
    /\ UNCHANGED <<statusVars, managerVars, navVars>>

\* CANCEL of the gateway arrives.
Withdrawn(t) ==
    /\ core.own[t] \in {"free", "mine", "committed"}
    /\ Spend("withdraw")
    /\ IF Owned(core, t)
       THEN /\ core' = [core EXCEPT !.own[t] = "over", !.retry = @ \ {t}, !.cancelling = @ \union {t}]
            /\ Send(<<CancelOf(t)>>)
       ELSE core' = [core EXCEPT !.own[t] = "over"] /\ UNCHANGED inbox
    /\ UNCHANGED <<statusVars, managerVars, navVars>>

----------------------------------------------------------------------------
\* Both nodes have run for a while; or both have just booted: task_manager publishes
\* nothing before its first task, and fleet_tasks waits for its first status.
Init ==
    /\ ManagerInit
    /\ \/ latched = <<StatusOf(0, "IDLE", <<>>, {})>> /\ core = [NewCore EXCEPT !.synced = TRUE]
       \/ budget["boot"] > 0 /\ latched = <<>> /\ core = NewCore

AuctionStep == \E t \in Fleet : Win(t) \/ Lose(t) \/ Withdrawn(t)
FleetStep == OnTaskStatus \/ (\E due \in SUBSET Fleet : FleetTick(due)) \/ Restart
RobotStep == (ManagerStep \/ NavStep \/ PersonStep) /\ UNCHANGED core
Next == RobotStep \/ AuctionStep \/ FleetStep

\* Both nodes keep spinning, their timers fire, Nav2 answers and ends its goals.
\* A person, the auction and a restart owe nothing.
Fairness ==
    /\ WF_vars(ManagerStep /\ UNCHANGED core)
    /\ WF_vars(NavStep /\ UNCHANGED core)
    /\ WF_vars(OnTaskStatus)
    /\ WF_vars(\E due \in SUBSET Fleet : FleetTick(due))
Spec == Init /\ [][Next]_vars
FairSpec == Spec /\ Fairness

----------------------------------------------------------------------------
\* Type invariant of the robot.
TypeOK == ManagerTypeOK /\ core \in Core

Coming(t, cmd) == {i \in DOMAIN inbox : inbox[i].id = t /\ inbox[i].cmd = cmd}

\* The robot works no task of the fleet it does not own: what task_manager holds
\* without ownership has its cancel on the way behind every dispatch of it, or
\* fleet_tasks has just started and a status that will make it cancel or adopt the
\* task is unread (_on_event's cancels and _adopt).
WorkOnlyOwned ==
    \A t \in Fleet :
        (HeldFor(t) # {} \/ Coming(t, "dispatch") # {}) =>
            \/ Owned(core, t)
            \/ \E i \in Coming(t, "cancel") : \A j \in Coming(t, "dispatch") : j < i
            \/ ~core.synced /\ status # <<>> /\ About(t, Head(status))

\* A robot that told the fleet it carries the item never drives back to the
\* pickup: whatever it still holds of a committed task is on its dropoff leg or
\* will start with it, through failures, retries and restarts of fleet_tasks.
CarriedToDropoff ==
    \A t \in Fleet : core.own[t] = "committed" =>
        /\ \A k \in HeldFor(t) : job[k].carrying \/ (k = cur /\ state \in OnBoard)
        /\ \A i \in Coming(t, "dispatch") : inbox[i].carrying

\* The fleet is not wrong about the load: with every status read, a task the robot
\* owns and has on board is committed, though DDS keeps one sample for fleet_tasks and
\* the status that began the leg may have been replaced unread.  (A refused dispatch
\* that is the last status published hides the state it carries,
\* fleet_tasks.py:307-314.)
OnBoardIsCommitted ==
    \A t \in Fleet :
        (/\ status = <<>> /\ latched # <<>> /\ latched[1].rej = None
         /\ cur # 0 /\ job[cur].id = t /\ state \in OnBoard /\ Owned(core, t))
            => core.own[t] = "committed"

\* No task hangs on the robot: every task that task_manager holds leaves it again,
\* through rejected, preempted and failed goals, late answers and cancels, and the
\* dispatches of it again.
TaskLeaves == \A t \in Id : HeldFor(t) # {} ~> HeldFor(t) = {}
=============================================================================
