---------------------------- MODULE TaskManager ----------------------------
(***************************************************************************)
(* task_manager of one robot (nodes/task_manager.py) beside the Nav2 action  *)
(* server it drives with.  Tasks come from fleet_tasks through inbox and     *)
(* from a person; they wait in a queue, and the one that runs goes through   *)
(* the state machine IDLE -> NAV_TO_PICKUP -> PICKING -> NAV_TO_DROPOFF ->   *)
(* PLACING (a fleet task) or IDLE -> NAV_TO_GOAL (a "goto" of a person).     *)
(*                                                                          *)
(* A Task object is an index of job, so that "task is not self.current_task" *)
(* compares objects, as the code does, and not ids.  Nav2 answers a goal,    *)
(* finishes it and obeys a cancel at any later moment.  Tasks with a package *)
(* (the pick exchange) and the hand-off with the explorer are not modelled:  *)
(* fleet_tasks never dispatches a package, and the explorer is idle here.    *)
(***************************************************************************)
EXTENDS Integers, Sequences, FiniteSets, SequencesExt

CONSTANTS
    Fleet,        \* ids of the tasks the fleet auctions ("fleet-<n>")
    Hand,         \* ids of the goto tasks a person sends this robot
    None,         \* no id: json null
    StatusDepth,  \* how many unread statuses DDS keeps for fleet_tasks
    MaxUnread,    \* bound: a status is published only on fewer unread ones
    Budgets       \* how often each event of the environment may happen

NavStates == {"NAV_TO_PICKUP", "NAV_TO_DROPOFF", "NAV_TO_GOAL"}
FirstLegs == {"NAV_TO_PICKUP", "NAV_TO_GOAL"}
DwellStates == {"PICKING", "PLACING"}
Finals == {"DONE", "FAILED", "CANCELLED"}
WorkEvents == {"hand", "handcancel", "unknown", "gone", "reject", "navfail",
               "win", "lose", "withdraw", "restart", "boot"}

ASSUME IdAssumption ==
    IsFiniteSet(Fleet) /\ Fleet \intersect Hand = {} /\ None \notin Fleet \union Hand
ASSUME DepthAssumption ==
    StatusDepth \in Nat \ {0} /\ MaxUnread \in Nat \ {0}
ASSUME BudgetsAssumption == Budgets \subseteq [WorkEvents -> Nat]

VARIABLES
    inbox,     \* commands of fleet_tasks on their way to task_manager
    status,    \* task_status messages fleet_tasks has not read
    latched,   \* the last task_status published, as <<status>>, or <<>>
    job,       \* every Task made so far: its id and whether it starts loaded
    queue,     \* the tasks that wait; their numbers keep the order, as only a task that
               \* was popped goes back to the head
    cur,       \* current_task, 0 when there is none
    state,     \* the state of the machine
    handle,    \* _nav_goal_handle is set (to the goal of the current task)
    goal,      \* task -> answer and end of its last goal, as they come back
    requests,  \* goals on their way to Nav2
    driving,   \* the task whose goal Nav2 executes, 0 when none
    stopping,  \* tasks whose goal cancellation is on its way to Nav2
    budget     \* what is left of the chosen element of Budgets

managerVars == <<job, queue, cur, state, handle>>
navVars == <<goal, requests, driving, stopping>>
statusVars == <<status, latched>>

----------------------------------------------------------------------------
(* Data *)

JobId == 1 .. Len(job)
Id == Fleet \union Hand
Command == [cmd : {"dispatch", "cancel"}, id : Fleet, carrying : BOOLEAN]
\* ans: the goal response on its way, or "known" once the result is awaited.
Goal == [ans : {"none", "accepted", "rejected", "known"}, end : {"none", "ok", "bad"}]
NoGoal == [ans |-> "none", end |-> "none"]
Status == [id : Id \union {None},
           st : NavStates \union DwellStates \union Finals \union {"IDLE"},
           queue : Seq(Id),
           rej : Fleet \union {None}]

\* The i-th of a set of numbers, and the ids of the tasks in q, in order.
Nth(ks, i) == CHOOSE k \in ks : Cardinality({j \in ks : j < k}) = i - 1
Ids(jobs, q) == [i \in 1 .. Cardinality(q) |-> jobs[Nth(q, i)].id]
StatusOf(k, st, jobs, q) ==
    [id |-> IF k = 0 THEN None ELSE jobs[k].id, st |-> st, queue |-> Ids(jobs, q), rej |-> None]

\* KEEP_LAST: what is still unread after s, when at most the StatusDepth newest
\* are sure to survive.  A reader that keeps up loses none of the older ones.
Unread(s) == {s} \union {SubSeq(s, i, Len(s)) : i \in 1 .. Len(s) - StatusDepth + 1}
Publish(ss) ==
    /\ Len(status) < MaxUnread
    /\ status' \in Unread(status \o ss)
    /\ latched' = <<Last(ss)>>

Spend(e) == budget[e] > 0 /\ budget' = [budget EXCEPT ![e] = @ - 1]
Send(cmds) == inbox' = inbox \o cmds

\* The jobs that wait or run.
Held == queue \union ({cur} \ {0})
HeldFor(t) == {k \in Held : job[k].id = t}

----------------------------------------------------------------------------
(* Parts of the handlers *)

\* DONE, FAILED or CANCELLED with the id of task k, then IDLE without; q waits on.
EndTask(k, final, q) ==
    /\ Publish(<<StatusOf(k, final, job, q), StatusOf(0, "IDLE", job, q)>>)
    /\ cur' = 0
    /\ state' = "IDLE"
    /\ handle' = FALSE
    /\ queue' = q
    /\ UNCHANGED job

\* wait_for_server found the action server: the goal goes out.
NavStarted(k, leg, q) ==
    /\ Publish(<<StatusOf(k, leg, job, q)>>)
    /\ cur' = k
    /\ state' = leg
    /\ handle' = FALSE
    /\ queue' = q
    /\ goal' = [goal EXCEPT ![k] = NoGoal]
    /\ requests' = Append(requests, k)
    /\ UNCHANGED <<job, driving, stopping, budget>>

\* It did not: the task ends.
NavGone(k, q) == Spend("gone") /\ EndTask(k, "FAILED", q) /\ UNCHANGED navVars

StartNav(k, leg, q) == NavStarted(k, leg, q) \/ NavGone(k, q)

\* A dispatch whose waypoints resolve.
Enqueue(t, carrying) ==
    /\ job' = Append(job, [id |-> t, carrying |-> carrying])
    /\ goal' = Append(goal, NoGoal)
    /\ queue' = queue \union {Len(job) + 1}
    /\ Publish(<<StatusOf(cur, state, job', queue')>>)
    /\ UNCHANGED <<cur, state, handle, requests, driving, stopping>>

Targeted(k, ts) == job[k].id \in ts
StopsCurrent(ts) == cur # 0 /\ Targeted(cur, ts)
Kept(ts) == {k \in queue : ~Targeted(k, ts)}

\* cancel_task for one id, or for all.  A waiting task disappears without a
\* status of its own; the current one is stopped and ends as CANCELLED.
CancelTasks(ts) ==
    \/ /\ StopsCurrent(ts)
       /\ stopping' = IF handle THEN stopping \union {cur} ELSE stopping
       /\ EndTask(cur, "CANCELLED", Kept(ts))
       /\ UNCHANGED <<goal, requests, driving>>
    \/ /\ ~StopsCurrent(ts)
       /\ Kept(ts) # queue
       /\ queue' = Kept(ts)
       /\ Publish(<<StatusOf(cur, state, job, Kept(ts))>>)
       /\ UNCHANGED <<job, cur, state, handle, navVars>>
    \/ /\ ~StopsCurrent(ts)
       /\ Kept(ts) = queue
       /\ UNCHANGED <<managerVars, navVars, statusVars>>

----------------------------------------------------------------------------
(* The handlers of task_manager *)

OnDispatch ==
    /\ inbox # <<>> /\ Head(inbox).cmd = "dispatch"
    /\ inbox' = Tail(inbox)
    /\ \/ Enqueue(Head(inbox).id, Head(inbox).carrying) /\ UNCHANGED budget
       \/ /\ Spend("unknown")     \* a waypoint was renamed or deleted since
          /\ Publish(<<[StatusOf(cur, state, job, queue) EXCEPT !.rej = Head(inbox).id]>>)
          /\ UNCHANGED <<managerVars, navVars>>

OnCancel ==
    /\ inbox # <<>> /\ Head(inbox).cmd = "cancel"
    /\ inbox' = Tail(inbox)
    /\ CancelTasks({Head(inbox).id})
    /\ UNCHANGED budget

FirstLeg(k) == IF job[k].id \in Hand THEN "NAV_TO_GOAL"
               ELSE IF job[k].carrying THEN "NAV_TO_DROPOFF" ELSE "NAV_TO_PICKUP"

\* The tick that pops the queue; Nav2 not ready and _hold_until only delay it.
Pop ==
    /\ state = "IDLE"
    /\ \E k \in queue : /\ \A j \in queue : k <= j
                        /\ StartNav(k, FirstLeg(k), queue \ {k})
    /\ UNCHANGED inbox

\* The tick that finds the dwell at the pickup or the dropoff over.
DwellOver ==
    /\ \/ state = "PICKING" /\ StartNav(cur, "NAV_TO_DROPOFF", queue)
       \/ state = "PLACING" /\ EndTask(cur, "DONE", queue) /\ UNCHANGED <<navVars, budget>>
    /\ UNCHANGED inbox

\* Mutant: a late acceptance is ignored like a late result.
StaleResponseIgnored(k) ==
    /\ k # cur
    /\ goal' = [goal EXCEPT ![k] = NoGoal]
    /\ UNCHANGED <<managerVars, statusVars, requests, driving, stopping>>

\* The answer is for a task that is no longer current.
StaleResponse(k) ==
    /\ k # cur
    /\ stopping' = IF goal[k].ans = "accepted" THEN stopping \union {k} ELSE stopping
    /\ goal' = [goal EXCEPT ![k] = NoGoal]
    /\ UNCHANGED <<managerVars, statusVars, requests, driving>>

Accepted(k) ==
    /\ k = cur /\ goal[k].ans = "accepted"
    /\ handle' = TRUE
    /\ goal' = [goal EXCEPT ![k].ans = "known"]
    /\ UNCHANGED <<job, queue, cur, state, statusVars, requests, driving, stopping>>

\* Mutant: the state machine is not reset to IDLE.
RequeuedKeepsState(k) ==
    /\ k = cur /\ goal[k].ans = "rejected" /\ state \in FirstLegs
    /\ queue' = queue \union {k}
    /\ cur' = 0
    /\ Publish(<<StatusOf(0, state, job, queue')>>)
    /\ goal' = [goal EXCEPT ![k] = NoGoal]
    /\ UNCHANGED <<job, handle, state, requests, driving, stopping>>

\* Rejected within the start-up grace: back to the head of the queue.
Requeued(k) ==
    /\ k = cur /\ goal[k].ans = "rejected" /\ state \in FirstLegs
    /\ queue' = queue \union {k}
    /\ cur' = 0
    /\ state' = "IDLE"
    /\ Publish(<<StatusOf(0, "IDLE", job, queue')>>)
    /\ goal' = [goal EXCEPT ![k] = NoGoal]
    /\ UNCHANGED <<job, handle, requests, driving, stopping>>

\* Rejected on the second leg, or after the grace.
Refused(k) ==
    /\ k = cur /\ goal[k].ans = "rejected"
    /\ EndTask(k, "FAILED", queue)
    /\ goal' = [goal EXCEPT ![k] = NoGoal]
    /\ UNCHANGED <<requests, driving, stopping>>

OnGoalResponse(k) ==
    /\ goal[k].ans \in {"accepted", "rejected"}
    /\ StaleResponse(k) \/ Accepted(k) \/ Requeued(k) \/ Refused(k)
    /\ UNCHANGED <<inbox, budget>>

\* PICKING or PLACING begins: the dwell at the waypoint.
Arrived(k) ==
    /\ goal[k].end = "ok" /\ state \in {"NAV_TO_PICKUP", "NAV_TO_DROPOFF"}
    /\ state' = IF state = "NAV_TO_PICKUP" THEN "PICKING" ELSE "PLACING"
    /\ handle' = FALSE
    /\ Publish(<<StatusOf(k, state', job, queue)>>)
    /\ UNCHANGED <<job, queue, cur>>

OnNavResult(k) ==
    /\ goal[k].ans = "known" /\ goal[k].end # "none"
    /\ goal' = [goal EXCEPT ![k] = NoGoal]
    /\ \/ k # cur /\ UNCHANGED <<managerVars, statusVars>>
       \/ k = cur /\ Arrived(k)
       \/ k = cur /\ goal[k].end = "ok" /\ state = "NAV_TO_GOAL" /\ EndTask(k, "DONE", queue)
       \/ k = cur /\ goal[k].end = "bad" /\ EndTask(k, "FAILED", queue)
    /\ UNCHANGED <<inbox, requests, driving, stopping, budget>>

----------------------------------------------------------------------------
(* Nav2, from how task_manager uses it: one goal at a time, the newest wins *)

Ended(gs, k, end) == IF k = 0 THEN gs ELSE [gs EXCEPT ![k].end = IF @ = "none" THEN end ELSE @]

NavAccept ==
    /\ requests # <<>>
    /\ requests' = Tail(requests)
    /\ driving' = Head(requests)
    /\ goal' = [Ended(goal, driving, "bad") EXCEPT ![Head(requests)].ans = "accepted"]
    /\ UNCHANGED <<inbox, statusVars, managerVars, stopping, budget>>

NavReject ==
    /\ requests # <<>>
    /\ Spend("reject")
    /\ requests' = Tail(requests)
    /\ goal' = [goal EXCEPT ![Head(requests)].ans = "rejected"]
    /\ UNCHANGED <<inbox, statusVars, managerVars, driving, stopping>>

NavFinish ==
    /\ driving # 0
    /\ \/ goal' = Ended(goal, driving, "ok") /\ UNCHANGED budget
       \/ goal' = Ended(goal, driving, "bad") /\ Spend("navfail")
    /\ driving' = 0
    /\ UNCHANGED <<inbox, statusVars, managerVars, requests, stopping>>

NavStop(k) ==
    /\ k \in stopping
    /\ stopping' = stopping \ {k}
    /\ driving' = IF driving = k THEN 0 ELSE driving
    /\ goal' = IF driving = k THEN Ended(goal, k, "bad") ELSE goal
    /\ UNCHANGED <<inbox, statusVars, managerVars, requests, budget>>

----------------------------------------------------------------------------
(* A person at the console *)

HandDispatch(h) ==
    /\ Spend("hand")
    /\ Enqueue(h, FALSE)
    /\ UNCHANGED inbox

HandCancel(ts) ==
    /\ Spend("handcancel")
    /\ CancelTasks(ts)
    /\ UNCHANGED inbox

----------------------------------------------------------------------------
ManagerInit ==
    /\ inbox = <<>> /\ status = <<>>
    /\ job = <<>> /\ queue = {} /\ cur = 0
    /\ state = "IDLE" /\ handle = FALSE
    /\ goal = <<>> /\ requests = <<>> /\ driving = 0 /\ stopping = {}
    /\ budget \in Budgets

ManagerStep ==
    \/ OnDispatch \/ OnCancel \/ Pop \/ DwellOver
    \/ \E k \in JobId : OnGoalResponse(k) \/ OnNavResult(k)
NavStep == NavAccept \/ NavReject \/ NavFinish \/ \E k \in stopping : NavStop(k)
PersonStep == (\E h \in Hand : HandDispatch(h))
              \/ (\E ts \in {{t} : t \in Id} \union {Id} : HandCancel(ts))

----------------------------------------------------------------------------
\* Type invariant of task_manager, its topics and Nav2.
ManagerTypeOK ==
    /\ inbox \in Seq(Command)
    /\ status \in Seq(Status)
    /\ latched \in Seq(Status)
    /\ job \in Seq([id : Id, carrying : BOOLEAN])
    /\ queue \subseteq JobId
    /\ cur \in JobId \union {0}
    /\ state \in NavStates \union DwellStates \union {"IDLE"}
    /\ handle \in BOOLEAN
    /\ goal \in [JobId -> Goal]
    /\ requests \in Seq(JobId)
    /\ driving \in JobId \union {0}
    /\ stopping \subseteq JobId
    /\ budget \in [WorkEvents -> Nat]

\* The robot never drives for a task that is over: Nav2 executes a goal of the
\* current task, in one of its driving states, unless the goal's cancellation is
\* on its way or task_manager has yet to see that Nav2 accepted it (_on_cancel
\* can only cancel a goal it has the handle of, _on_goal_response must do the
\* rest).  The converse is part of it: a task that waits for its drive has a goal
\* that is pending, driven or answered, so the machine cannot hang in NAV_*.
NoOrphanDrive ==
    /\ driving # 0 =>
         \/ driving = cur /\ state \in NavStates
         \/ driving # cur /\ (driving \in stopping \/ goal[driving].ans = "accepted")
    /\ state \in NavStates =>
         \/ cur \in ToSet(requests)
         \/ goal[cur].ans \in {"accepted", "rejected"}
         \/ goal[cur].ans = "known" /\ (driving = cur \/ goal[cur].end # "none")
=============================================================================
