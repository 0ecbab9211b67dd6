---------------------------- MODULE PickExchange ----------------------------
(***************************************************************************)
(* Package tasks of task_manager (nodes/task_manager.py) beside the magnet   *)
(* pick controller.  A package task may drive to the pickup, picks, may      *)
(* drive to the dropoff, and places, or is over once the package is on the   *)
(* magnet.  PICKING and PLACING send a request, and only a deadline stands   *)
(* behind it: the answer carries no task.                                    *)
(*                                                                          *)
(* How Nav2 takes and ends a goal is TaskManager's subject; here a leg just  *)
(* ends.  Nothing dispatches a package task as "carrying", so that flag is   *)
(* left out, as is task_status.                                              *)
(***************************************************************************)
EXTENDS PickPlanner, FiniteSets

CONSTANTS
    Shapes,    \* the kinds of package task there are (see Shape)
    Budgets    \* how often each event of the environment may happen

\* Which legs are driven (a None leg is not), and whether the package is placed.
Shape == [pickup : BOOLEAN, dropoff : BOOLEAN, place : BOOLEAN]
PickEvents == {"cancel", "navfail", "restart", "die"}

ASSUME ExchangeAssumption ==
    Shapes \subseteq Shape /\ Budgets \subseteq [PickEvents -> Nat]

VARIABLES
    job,      \* the shape of every task made so far
    queue,    \* the tasks that wait; their numbers keep the order they came in
    cur,      \* current_task, 0 when there is none
    state,    \* the state of the machine
    waiting,  \* _pick_deadline is set
    left,     \* tasks that ended on a drive, in a restart, or as picked: nothing
              \* tells the magnet, and the package stays on it if it was there
    fooled,   \* tasks that took the answer to another task's request for their own
    budget    \* what is left of the chosen element of Budgets

taskVars == <<job, queue, cur, state, waiting, left, fooled, budget>>
simVars == <<planVars, armVars, cmds, magnetVars>>
vars == <<pickerVars, taskVars>>

NavStates == {"NAV_TO_PICKUP", "NAV_TO_DROPOFF"}
Spend(e) == budget[e] > 0 /\ budget' = [budget EXCEPT ![e] = @ - 1]

----------------------------------------------------------------------------
(* Parts of the handlers *)

\* A request published to a dead controller reaches nobody.
Publish(r) == requests' = IF up THEN Append(requests, r) ELSE requests
Ask(cmd, k) == Publish([cmd |-> cmd, task |-> k])

\* DONE, FAILED or CANCELLED, then IDLE.
EndTask == cur' = 0 /\ state' = "IDLE" /\ waiting' = FALSE

\* Mutant: a place waits for its answer without a deadline.
BeginWithoutDeadline(cmd, st, k) ==
    /\ cur' = k /\ state' = st /\ waiting' = (cmd = "attach")
    /\ Ask(cmd, k)

\* _begin_pick and _begin_place.
BeginExchange(cmd, st, k) ==
    /\ cur' = k /\ state' = st /\ waiting' = TRUE
    /\ Ask(cmd, k)
BeginPick(k) == BeginExchange("attach", "PICKING", k)
BeginPlace(k) == BeginExchange("detach", "PLACING", k)

Drive(st, k) == cur' = k /\ state' = st /\ waiting' = FALSE /\ UNCHANGED requests

----------------------------------------------------------------------------
(* The handlers of task_manager *)

OnDispatch(s) ==
    /\ Len(job) < MaxTasks
    /\ job' = Append(job, s)
    /\ queue' = queue \union {Len(job) + 1}
    /\ UNCHANGED <<pickerVars, cur, state, waiting, left, fooled, budget>>

\* The tick that pops the queue.
Pop(k) ==
    /\ state = "IDLE" /\ k \in queue /\ \A j \in queue : k <= j
    /\ queue' = queue \ {k}
    /\ IF job[k].pickup THEN Drive("NAV_TO_PICKUP", k) ELSE BeginPick(k)
    /\ UNCHANGED <<up, answers, simVars, job, left, fooled, budget>>

\* _on_nav_result: a drive that fails ends the task, whatever the magnet carries.
NavEnds ==
    /\ state \in NavStates
    /\ \/ /\ IF state = "NAV_TO_PICKUP" THEN BeginPick(cur) ELSE BeginPlace(cur)
          /\ UNCHANGED <<left, budget>>
       \/ /\ Spend("navfail")
          /\ EndTask
          /\ left' = left \union {cur}
          /\ UNCHANGED requests
    /\ UNCHANGED <<up, answers, simVars, job, queue, fooled>>

Failed == Head(answers).what = "failed" /\ EndTask /\ UNCHANGED <<requests, left>>

Picked ==
    /\ Head(answers).what = "picked" /\ state = "PICKING"
    /\ IF ~job[cur].place
       THEN EndTask /\ left' = left \union {cur} /\ UNCHANGED requests
       ELSE /\ IF job[cur].dropoff THEN Drive("NAV_TO_DROPOFF", cur) ELSE BeginPlace(cur)
            /\ UNCHANGED left

Placed ==
    /\ Head(answers).what = "placed" /\ state = "PLACING"
    /\ EndTask /\ UNCHANGED <<requests, left>>

\* The answer to the state the task is in; any other is dropped.
OutOfTurn ==
    \/ ~waiting
    \/ Head(answers).what = "picked" /\ state # "PICKING"
    \/ Head(answers).what = "placed" /\ state # "PLACING"

OnPickResult ==
    /\ answers # <<>>
    /\ answers' = Tail(answers)
    /\ \/ /\ waiting /\ (Failed \/ Picked \/ Placed)
          /\ fooled' = fooled \union ({cur} \ {Head(answers).of})
       \/ OutOfTurn /\ UNCHANGED <<requests, cur, state, waiting, left, fooled>>
    /\ UNCHANGED <<up, simVars, job, queue, budget>>

\* Mutant: the deadline ends the task and leaves the planner at work.
GiveUpSilent ==
    /\ waiting
    /\ EndTask
    /\ UNCHANGED <<up, requests, answers, simVars, job, queue, left, fooled, budget>>

\* PICK_TIMEOUT_SEC went by: "arm stops, magnet off".  It is as long as the
\* planner's own budget_s, so it may pass before, with or after the answer.
GiveUp ==
    /\ waiting
    /\ Ask("cancel", cur)
    /\ EndTask
    /\ UNCHANGED <<up, answers, simVars, job, queue, left, fooled, budget>>

\* Only an exchange under way is cancelled: on the drive between pick and place
\* nothing tells the magnet.
StopCurrent ==
    /\ EndTask
    /\ \/ waiting /\ Ask("cancel", cur) /\ UNCHANGED left
       \/ ~waiting /\ left' = left \union {cur} /\ UNCHANGED requests

\* cancel_task for the tasks of ks: one id, or all.
OnCancel(ks) ==
    /\ Spend("cancel")
    /\ queue' = queue \ ks
    /\ \/ cur \in ks /\ StopCurrent
       \/ cur \notin ks /\ UNCHANGED <<requests, cur, state, waiting, left>>
    /\ UNCHANGED <<up, answers, simVars, job, fooled>>

\* task_manager starts again: its tasks are forgotten, the controller goes on.
Restart ==
    /\ Spend("restart")
    /\ EndTask
    /\ queue' = {}
    /\ answers' = <<>>
    /\ left' = left \union ({cur} \ {0})
    /\ UNCHANGED <<up, requests, simVars, job, fooled>>

ControllerStep ==
    \/ up /\ (OnRequest \/ Tick) /\ UNCHANGED taskVars
    \/ up /\ Spend("die") /\ Dies /\ UNCHANGED <<job, queue, cur, state, waiting, left, fooled>>

Next ==
    \/ \E s \in Shapes : OnDispatch(s)
    \/ \E k \in Task : Pop(k)
    \/ NavEnds \/ OnPickResult \/ GiveUp \/ Restart
    \/ \E ks \in {{k} : k \in DOMAIN job} \union {DOMAIN job} : OnCancel(ks)
    \/ ControllerStep
    \/ SimStep /\ UNCHANGED taskVars

Init ==
    /\ PickerInit
    /\ job = <<>> /\ queue = {} /\ cur = 0 /\ state = "IDLE" /\ waiting = FALSE
    /\ left = {} /\ fooled = {} /\ budget \in Budgets

\* A thread takes its turn: task_manager's callbacks and timer, the controller's,
\* the simulator's step, and Nav2 ends every goal.  Nobody must dispatch, cancel,
\* die or restart.
Fairness ==
    /\ WF_vars(OnPickResult) /\ WF_vars(GiveUp) /\ WF_vars(NavEnds)
    /\ WF_vars(up /\ OnRequest /\ UNCHANGED taskVars)
    /\ WF_vars(up /\ Tick /\ UNCHANGED taskVars)
    /\ WF_vars(SimStep /\ UNCHANGED taskVars)

Spec == Init /\ [][Next]_vars /\ Fairness

----------------------------------------------------------------------------
\* Type invariant of the exchange.
TypeOK ==
    /\ PickerTypeOK
    /\ job \in Seq(Shape) /\ Len(job) <= MaxTasks
    /\ queue \subseteq Task
    /\ cur \in Task \union {0}
    /\ state \in NavStates \union {"IDLE", "PICKING", "PLACING"}
    /\ waiting \in BOOLEAN
    /\ left \subseteq Task /\ fooled \subseteq Task
    /\ budget \in [PickEvents -> Nat]

CancelAsked == \E i \in DOMAIN requests : requests[i].cmd = "cancel"
Answered(what, k) == \E i \in DOMAIN answers : answers[i] = [what |-> what, of |-> k]

\* The magnet is off, or the last command on its way switches it off.
MagnetOff ==
    \/ ~power /\ \A i \in DOMAIN cmds : cmds[i] = "detach"
    \/ cmds # <<>> /\ cmds[Len(cmds)] = "detach"

\* Or its controller is about to tell it, by a cancel it has yet to read.
ReleaseComing == MagnetOff \/ CancelAsked

\* Tasks that task_manager is through with, or goes on with, while the magnet does
\* something else, which nobody tells it.
Untold == left \union fooled

\* Whatever is cut off where, no package is forgotten on the magnet: it is that
\* of the current task, or a release is coming, or its task ended untold.  It
\* takes task_manager's cancels, the planner's failures and the magnet's power
\* together, also where the requests and answers of one task meet the next (a dead
\* controller is the exception: nothing else switches the magnet).
BoxAccountedFor ==
    (up /\ held # 0) => (held = cur \/ held \in Untold \/ ReleaseComing)

\* An answer is true: the planner reports with the arm folded, a pick with a
\* package on the magnet and a place with none; and that is still so when the
\* answer reaches its own task, with its own package or one left there before,
\* unless the task has taken the answer to another one's request meanwhile.
AnswersAreTrue ==
    /\ phase = "backout" => arm = "tucked" /\ (held # 0 <=> mode = "attach")
    /\ cur # 0 /\ cur \notin fooled =>
         /\ Answered("picked", cur) => held \in {cur} \union Untold
         /\ Answered("placed", cur) => held = 0

\* The i-th unread request has a cancel behind it.
Revoked(i) == \E j \in i .. Len(requests) : requests[j].cmd = "cancel"

\* Nothing fights over cmd_vel for long: while Nav2 drives, what the planner works
\* on or has yet to read is about to be cancelled, unless its task ended untold.
\* And a package is carried with the planner at rest and the arm folded
\* (pick_planner.py: "Driving and carrying happen tucked").
DrivesAlone ==
    /\ state \in NavStates =>
         /\ serving = 0 \/ serving \in Untold \/ CancelAsked
         /\ \A i \in DOMAIN requests : requests[i].task \in Untold \/ Revoked(i)
    /\ state = "NAV_TO_DROPOFF" /\ cur \notin fooled =>
         arm = "tucked" /\ serving = 0 /\ requests = <<>> /\ held \in {cur} \union Untold

\* A package task that has started ends, whatever dies on the way.
TaskEnds == \A k \in Task : cur = k ~> cur # k

\* A cancel that a living controller has yet to read ends with the magnet off and
\* empty.
CancelReleases ==
    (up /\ CancelAsked) ~> (~up \/ (~power /\ held = 0))

\* What the docstring of _on_pick_result says: a late "picked" of a cancelled
\* task must not advance the next one.
LatePickedIgnored ==
    [][ answers # <<>> /\ answers' = Tail(answers)
          /\ Head(answers).what = "picked" /\ Head(answers).of # cur
        => UNCHANGED <<cur, state>> ]_vars
=============================================================================
