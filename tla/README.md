# TLA+ models of the SortBots fleet

SortBots is a fleet of mobile robots in a warehouse. Robots explore, fuse their
maps, and carry packages between waypoints; a gateway takes an operator's
requests and announces them as tasks; the robots divide the tasks among
themselves by auction, with no coordinator; a console starts, stops and saves
sessions, and a worker trains splat models of the maps. This directory keeps TLA+
models of the parts in which order, failure and time decide correctness, the TLC
runs that check them on small instances, and theorems about them proved with TLAPS
for every instance.

| file | what it is |
|---|---|
| `TaskAuction.tla` | the auction, leases, quorum and ownership of one task (`commsim/core/protocol.py`) on the fleet of `commsim/core/loopback.py` |
| `MCTaskAuction.tla`, `auction.cfg work.cfg split.cfg recovery.cfg` | the budgets of its environment, and its runs |
| `TaskAuctionProofs.tla` | theorems about `TaskAuction` |
| `TaskManager.tla` | task_manager of one robot (`nodes/task_manager.py`) beside Nav2 |
| `RobotWork.tla` | fleet_tasks (`nodes/fleet_tasks.py`) beside that task_manager; EXTENDS it |
| `MCRobotWork.tla`, `robot.cfg` | its scenarios, and its run |
| `RobotWorkProofs.tla` | theorems about `RobotWork` |
| `NavServer.tla` | Nav2's action server as its clients use it (external) |
| `Explorer.tla` | the explorer's goals and commands (`nodes/explorer.py`); EXTENDS `NavServer` |
| `ExploreHandoff.tla`, `explore.cfg` | the hand-off of Nav2 between the explorer and task_manager (`nodes/explorer_handoff.py`); EXTENDS `Explorer` |
| `ExploreProofs.tla` | theorems about `ExploreHandoff` |
| `PickPlanner.tla` | the magnet controller (`nodes/pick_planner.py`, `magnet_pick.py`), the arm and the simulated magnet |
| `PickExchange.tla` | package tasks of task_manager against that controller; EXTENDS it |
| `MCPickExchange.tla`, `pick.cfg latepick.cfg` | shapes of tasks and scenarios; the run that passes and the one that refutes a docstring |
| `PickProofs.tla` | theorems about `PickExchange` |
| `RunDemo.tla` | the launcher `scripts/run_demo.sh` and the pipeline it leaves behind |
| `ConsoleSession.tla`, `console.cfg` | the console's SessionManager (`webui/session.py`); EXTENDS `RunDemo` |
| `ConsoleProofs.tla` | theorems about `ConsoleSession` |
| `JobLife.tla` | what the splat worker promises about a job (abstract) |
| `SplatQueue.tla`, `splat.cfg` | the worker (`splat/worker.py`), which implements `JobLife` |
| `SplatQueueProofs.tla` | theorems about `SplatQueue`, the refinement among them |
| `SessionChannel.tla` | what a router session promises the application (abstract) |
| `RouterSession.tla` | the session (`Flow` of `commsim/des/sim.py`), which implements `SessionChannel` |
| `MCRouterSession.tla`, `session.cfg`, `RouterSessionProofs.tla` | its bounds and run; theorems, the refinement among them |
| `MapLibrary.tla`, `maps.cfg` | an entry of the map library (`scripts/maps_lib.py`, `maps.sh`) and Save & finish |
| `MapLibraryProofs.tla` | theorems about `MapLibrary` |

Definitions introduced by a comment *Mutant:* are deliberately wrong variants of the
definition that follows them. No specification uses them. `PROJECT.json` names, for
every property of a run, one that makes TLC find it violated; `map` gives the source
lines of every definition.

## 1. The system

| component | state it keeps | operations | interacts with |
|---|---|---|---|
| **Allocator** `commsim/core/protocol.py` | a `TaskView` per task (state, owner, cost, bids, timers), when each peer was last heard, isolation, quorum | handlers for TaskAnnounce, Bid, Claim, TaskEvent, Status, LeaseBeacon; `tick`; `announce`, `commit`, `complete`, `release`, `cancel` | every other node's Allocator, by broadcast on one topic |
| **LoopbackNet** `commsim/core/loopback.py` | queue of messages, blocked links, dead nodes | `step`, `partition`, `isolate`, `heal`, `announce` | runs the Allocators in one process for the tests |
| **FleetTasks** `nodes/fleet_tasks.py` | an Allocator, retry times, failed tasks, cancels it issued, alarms | `on_wire`, `on_peer_status`, `on_task_status`, `tick`, `request`, `cancel`, `ack` | task_manager (dispatch, cancel, status), operator's board |
| **TaskManager** `nodes/task_manager.py` with `explorer_handoff.py` | queue, current task, FSM state, goal handle, deadlines | dispatch, cancel, goal answer, goal result, pick result, tick | Nav2's action server, the pick controller, the explorer |
| **Explorer** `nodes/explorer.py`, `fleet_radio.py`, `map_handoff.py` | goal, generation, frontiers and blacklist, peers' claims, map transfers | tick, steer, stop, goal callbacks | Nav2, peers' explorers, TaskManager |
| **Magnet pick** `nodes/magnet_pick.py`, `pick_planner.py` | phase of the exchange, mode, redocks, arm; the magnet's power and package | request (attach, detach, cancel), tick | TaskManager, the simulated magnet |
| **SessionManager** `webui/session.py` with `scripts/run_demo.sh` | one session record, the launcher's process, a watcher, finish | start, forced start, stop, finish, status, adopt | threads of the console's server, the pipeline |
| **Splat worker** `splat/worker.py` | queue, job records, running process | submit, cancel, run, recover | HTTP threads against one runner thread, train.py, Isaac on the same GPU |
| **Map library** `scripts/maps_lib.py`, `maps.sh`, `_map_db.sh` | a manifest, a grid and a database per robot, staged copies | save, add-grid, add-db, list, rm, verify | the running stack, git-lfs, Save & finish |
| **Radio simulator** `commsim/des/sim.py` | per session and direction: window, backlog, reassembly, acks, timers | send, on_seg, on_ack, _rto, keepalive_tick, kill, revive | the Allocators, over simulated radio |
| map fusion, perception, kinematics, simulators, scripts, pages | data | pure functions and I/O | |

Hard behaviour: messages between nodes are reordered across senders, lost with a
cut link and stale on arrival; every timer runs on a node's own clock; nodes
crash; a network splits and heals at any moment; operator, robot and peers end
the same task in different ways; late answers from action servers; a session or
job stopped while it starts; a copy that dies half-way. `PROJECT.json` lists each
hazard at its line.

What makes each component correct:

- **Allocator**: one robot works a task (up to the message that makes the other
  yield); a cut-off owner stops before anybody may reclaim; a lost owner's task
  is taken again; a finished task stays finished; a committed task stays where
  its item is; all views of the owner converge.
- **FleetTasks / TaskManager**: what the robot does is what the allocator thinks
  it owns; a cancel reaches the task it names, and only that one; a late answer
  never moves another task; a task with the item on board is never dropped
  silently.
- **Explorer**: it keeps hold of its own goal and of no other; it blames no
  frontier for its own cancel; a waiting task gets its turn.
- **Magnet pick**: no package is forgotten on an energized magnet; an answer is
  true; Nav2 and the planner never drive at once; every exchange ends.
- **SessionManager**: the record follows its own launcher; an ended session stays
  ended; a dead run and a stop are noticed.
- **Splat worker**: a cancelled job never runs on; every job ends in one
  terminal state and is that still after a restart.
- **Map library**: the manifest claims nothing that is not there; no save costs
  what the entry had; "done" means that the run is in it.
- **Router session**: what is forgotten was delivered; each message arrives once
  and in order; nobody waits forever.

In all runs deadlock checking is off: these systems may rest (no task, no session, an
empty queue), and once the environment's budget is spent nothing need happen. What must
not stop is said by the liveness properties.

Bounds have one pattern: two of whatever can be confused with one another (tasks,
goals, sessions, jobs, versions), and a budget of one or two for each event of the
environment, which may then happen at *any* point of a behaviour. A constant
named *bound* in its module exists only for TLC; the theorems hold for every value.

## 2. TaskAuction

One task, seen by every node. `view[n]` is `n`'s `TaskView` of it (`"none"` when
the `tasks` dict does not hold it).

| model | code |
|---|---|
| `view` | `TaskView` (protocol.py:115-131), and `avoid` = `FleetTasks.failed` |
| `heard`, `quiet` | `peer_heard`, `last_peer_heard`, as ages |
| `isolated`, `quorum` | `isolated`; `_had_quorum` and the age of `_quorum_since` |
| `chan`, `blocked`, `alive` | the queue, `blocked` and `alive` of LoopbackNet |
| `ticked` | which nodes have ticked in the current unit of time |
| `budget` | bounds of the model: how often each event of the environment may still happen |
| `OnAnnounce`, `OnBid`, `OnClaim`, `OnLeaseRenewal`, `OnTaskEvent` | the handler `deliver` picks |
| `Tick` and its disjuncts | `tick`: each disjunct is one branch of the task loop, with what precedes it (isolation, quorum, beacon) and follows it (pruning) |
| `NoWinner`, `Decline`, `TakeOwner` | the outcomes of `_close_window` |
| `Announce`, `Reannounce`, `Commit`, `Complete`, `Fail`, `Cancel` | the calls FleetTasks makes |
| `Withdraw` | a claim of another task withdraws the bid on this one |
| `Advance`, `Partition`, `CutPair`, `Heal`, `Crash` | time and the network |

**Time.** A unit is one tick, equal to one beacon and one heartbeat period, in
which every live node ticks once and after which all ages grow by one. The code
compares only `now - x` and `x - now` on one clock, so ages and countdowns carry
everything; they saturate one past the largest bound they are compared with
(`heard` two past the lease, so that the deadline and one tick more can be told
apart). A robot's clock offset is invisible by construction; clock *drift* is not
modelled. `MaxDelay` bounds a message's age in units: with 0 a message arrives
within the unit it was sent in, before or after the other nodes' ticks; with
`MaxDelay = BidWindow` it can arrive after the round it belongs to has closed.

**The other tasks** of a robot (capacity, open-bid cap, backlog, radius, battery,
lost pose) matter to this one only through whether a robot bids and how much: it
bids any cost of `Costs`, and with `MayPass` possibly nothing; `full` lets a winner be
at capacity when its window closes.

**Normalised.** Fields the code leaves stale and never reads again are cleared
(bids of a claimed or finished task, timers of a finished one). `round` and
`claimed_at` only feed radius and backlog; `robot_silent`, `hold_safe` and the
other events only feed logs and alarms. `owner_missing`, whose alarm the operator
acts on, is kept. The robots' Status heartbeats carry an empty owned list
(`fleet_tasks.py:272-285`), so they are heard in the tick that sends them instead
of travelling through `chan`.

### Runs

All runs use `RebidDelay = 2` (a node whose window closed without a bid draws 1 or 2 ticks,
so two nodes may reopen the bidding apart), `StatusTimeout = 2`, `TaskLease = 3`, `Margin = 2`, and
`BidWindow = 1`, the shipped window of one beacon period: the shipped order
(1 < 6 < 10, margin 2) with every gap kept, so that each timer can fire before, with
and after the next. Messages and budgets
differ per run: a budget of one lets an event happen at *any* point of the
execution.

| run | fleet | environment | checks | shows |
|---|---|---|---|---|
| `auction` | 2 robots + gateway, costs 1 and 2, delay up to 1 | a robot may be full | `TypeOK`, `LoserWillHear` | windows that close apart give two claimants, but from the tick of the favoured one on never without its claim or beacon on its way to the other |
| `work` | 2 robots + gateway | announce repeated, commit, complete, fail, cancel, withdraw, once each | `FinishedStops` | once nothing is under way, a task finished anywhere is worked by nobody and picked up by nobody |
| `split` | 3 robots + gateway | one split into any two sides once the owner is known, heals | `CutOffOwnerStops`, `OneSideWorks` | the owner stops in time; robots cut off from each other never both work |
| `recovery` | 2 robots + gateway, fair | one crash or one cut link, one commit | `NoAbandonedTask`, `EveryoneLearns` | the task is taken again, and the views of its owner converge |

Four nodes in `split` are the smallest fleet in which a split can leave *no* side
with a majority while nobody is isolated, where "half" and "majority" differ; its
nodes tick by id (`InOrder`), as `LoopbackNet.step` runs them, to keep the run
small. The other runs let nodes tick in any order. `Retention` is longer than a
behaviour's stale messages in `work` (8), and 1 in `auction`, so that pruning also
happens beside an open auction. Deadlock checking is off: once the environment's
budget is spent the system only lets time pass, and a model in which all nodes
have crashed stops.

`OneSideWorks` passes with splits only after the owner is known
(`SplitAnytime = FALSE`), and fails without that condition: see section 10.

**Fairness** (`recovery`): every node's tick is weakly fair (a ROS
timer that keeps running), so is its receipt of a message that stays deliverable,
time passes, the operator asks for the task, and a cut link comes back (`WF(Heal)`:
an assumption about the radio, at an arbitrary later moment). Nothing else is fair: commits,
failures and crashes may or may not happen. `NoAbandonedTask` counts only a robot that
can bid (`MayPass = FALSE`): a robot's bid radius is infinite after three rounds,
but nothing in the code forces a robot to have a pose or a battery.

## 3. TaskManager and RobotWork

One robot: `fleet_tasks` decides from the auction what the robot owns,
`task_manager` works it with Nav2, and the two know each other only through
topics. The auction is the environment here, as task execution is in `TaskAuction`.

| model | code |
|---|---|
| `core` | what FleetTasks knows: `own` (the allocator's state and owner of each task), `_retry`, `_cancelling`, `_synced` |
| `inbox` | `dispatch_task` and `cancel_task` on their way, as one FIFO |
| `status`, `latched` | unread `task_status` messages; the last one published |
| `job` | Task objects: an index stands for the object, so that callbacks compare objects, as `task is not self.current_task` does |
| `queue`, `cur`, `state`, `handle` | `queue`, `current_task`, `state`, `_nav_goal_handle`; the queue is a set, because its order is that of the tasks' numbers: tasks are appended as they are made, and only the task that was popped last goes back, to the head |
| `goal`, `requests`, `driving`, `stopping` | the futures of goals, and Nav2: goals sent, the one executed, cancels on their way |
| `OnDispatch`, `OnCancel`, `Pop`, `DwellOver`, `OnGoalResponse`, `OnNavResult` | the handlers of TaskManager (`Pop` and `DwellOver` are branches of `_tick`) |
| `OnTaskStatus`, `FleetTick`, `Restart` | `on_task_status` with `_adopt`, `tick`, a new FleetTasks |
| `Win`, `Lose`, `Withdrawn` | the allocator's events `claimed`; `task_yielded` and `stop_task`; a CANCEL of the gateway |
| `NavAccept`, `NavReject`, `NavFinish`, `NavStop` | Nav2 (external): one goal at a time, a new one preempts |
| `HandDispatch`, `HandCancel` | a person at the console (external): goto tasks, cancel of an id or of all |

Deadlines (dwell, retry backoff, retry hold and start-up grace of Nav2) are met at
any moment: an elapsed time is a step that may be taken, so no property depends on
their values. A rejected first leg may go either way, requeued or failed.

**What the model assumes.** Commands arrive in order (two topics in the code; a
cancel can overtake only while task_manager is blocked with several dispatches
waiting). A task is won again only when the commands and statuses of its last
round are through (`Settled`: a round takes at least a bid window of 1 s). `Restart`
takes longer than the delivery of what was sent. An adopted task's waypoint names
still exist. A task once over is not offered again. Package tasks are in
`PickExchange`, the hand-off with the explorer in `ExploreHandoff`. Not modelled: a
restart of task_manager with tasks in its queue (fleet_tasks goes on owning them and
nobody drives), and a peer's COMPLETE of a task this robot owns.

### Runs

`robot` checks seven scenarios (`RobotBudgets`), each with its own budget of events,
on two fleet tasks and one goto: loss, withdrawal and a rejected goal; a restart;
a restart with a loss and failures of the drive; failures, a refused waypoint,
Nav2 gone; a person's goto and cancels, of the task at work and of a waiting one,
among two fleet tasks, and among failures and rejections; and two tasks after both
nodes have just booted, when nothing is latched yet (`boot`). Two tasks let one wait
while the other runs; up to three unread statuses (`MaxUnread`) let fleet_tasks lag a
whole leg and an end behind. `StatusDepth = 1`, as both ends declare the topic
(task_manager.py:199-202, fleet_tasks.py:660-662): at each publication DDS may drop any
number of the oldest unread statuses, never the newest, so DONE may be replaced unread
by the IDLE that follows it, and the start of a leg by its end.

| property | says |
|---|---|
| `NoOrphanDrive` | Nav2 never executes a goal of an ended task unless its cancel is due; a task waiting for its drive has a goal that will be answered |
| `WorkOnlyOwned` | what task_manager holds is owned, or its cancel is on the way |
| `CarriedToDropoff` | a committed task is never driven to its pickup again |
| `OnBoardIsCommitted` | with every status read, a task that the robot owns and has on board is committed (a refusal that is the last status published hides the state it carries, fleet_tasks.py:307-314) |
| `TaskLeaves` | every task that task_manager holds leaves it again |

No property promises that an owned task is worked or its lease ends: with this topic it
may be neither (section 10).

**Fairness** (`robot`): both nodes keep running their callbacks and timers, Nav2
answers and ends its goals. A person, the auction and a restart owe nothing.
Failures are bounded by the budgets; a dropoff that always fails is retried for ever, on
purpose (fleet_tasks.py:346-347), but leaves task_manager each time, which is what
`TaskLeaves` asks.
Deadlock checking is off: a robot without further tasks rests.

## 4. ExploreHandoff

One robot's explorer and task_manager share Nav2, and agree about it through three
messages: task_manager orders `stop` and `start`, the explorer publishes its state,
and a person or an operator sends both explore commands and tasks.

| model | code |
|---|---|
| `at`, `answer`, `result`, `kill`, `navup` (`NavServer`) | each goal at Nav2, its answer and result on their way back, cancels on their way; external |
| `state`, `gen`, `target`, `handle`, `spin` (`Explorer`) | the fields of `ExplorerNode`: `state`, `_goal_generation`, `_goal_target`, `_goal_handle`, `_spin_state` |
| `SendGoal`, `Withdraw`, `Finish`, `Plan`, `Retarget` | `_send_goal`, `_cancel_active_goal`, `_finish`, `_plan_and_send`, the branches of `_tick` |
| `OnGoalResponse`, `OnNavResult`, `OnSpin`, `OnCmd`, `OnHint` | the callbacks with their generation guards |
| `OnStatus`, `MayStart`, `StartTask`, `Resume` | `ExplorerHandoff` and its callers in task_manager |
| `Person`, `Ask`, `Cancel` | what people send |

Which frontier a goal is for, and whether one is left, is a choice; that a goal is
consumed, stuck or timed out is a choice too. Nav2's cancel may hit the goal that
runs when it arrives (`NavCancels`): the explorer's own comments say that
bt_navigator does so.

`explore` (2 goals of the explorer, 1 task, 1 status under way, 1 thing a person
asks): two goals are what one needs for an answer, a result or a cancel to meet the
*other* goal; one task meets each of them.

| property | says |
|---|---|
| `HandleIsLatest` | the handle that the explorer watches, times out and cancels belongs to the goal it sent last |
| `NoLostGoal` | Nav2 never runs a goal of the explorer that the explorer has neither a handle of, nor an acceptance to read, nor a cancel or a newer goal on the way |
| `NoSelfBlame` | when a goal that the explorer gave up for a better one (or none) ends, its end is not scored against its frontier |
| `TaskStarts` | a task that waits for the explorer starts (or is cancelled), as long as the explorer's node lives |

**Fairness**: every callback that has something to read runs, the timers run, Nav2
comes up, answers and ends its goals, and the exploration's own time limit
(`RunOut`) passes. A frontier need never be found, a person owes nothing.

## 5. PickExchange

A package task asks the magnet controller to attach or detach and waits for
`picked`, `placed` or `failed`, which carry no task id; a deadline stands behind
the wait. The controller docks the base with `cmd_vel` of its own, unfolds the arm,
commands the magnet and believes a ground truth that comes ten times a second.

| model | code |
|---|---|
| `serving`, `phase`, `mode`, `redocks` | `PickPlanner`; one action per phase (`Tuck` ... `Backout`), `Tick` the dispatch of `tick` |
| `arm`, `plate` | the ramps of the arm and where the magnet's face is |
| `cmds`, `power`, `held`, `seen` | `pick_cmd` under way, the magnet, its package, and the last ground truth |
| `requests`, `answers` | `pick_request` and `pick_result` under way |
| `job`, `queue`, `cur`, `state`, `waiting` | task_manager's package tasks; `queue` is a set, popped by the smallest number, which is the order of the list; `waiting` is `_pick_deadline` |
| `left`, `fooled` | records of the model: tasks that ended in a way that tells the magnet nothing, and tasks that took the answer to another task's request for their own |

`pick` gives two package tasks of three shapes (pick and place with drives, place
without a drive, pick only), and in each scenario a cancel with one of: a failed drive,
a restart of task_manager, the death of the controller. The deadline
(`PICK_TIMEOUT_SEC`, as long as the planner's own budget) may pass at any moment of any
exchange, and the next task is popped at any tick without a current one
(task_manager.py:359-361), whatever the controller is still doing or has yet to read
or to say: two tasks let the request, the answer, the package or the cancel of one
meet the other. `latepick`, with one cancel, refutes the docstring of
`_on_pick_result` (task_manager.py:487-488): a late `picked` *does* advance the next
task. So the properties cannot promise anything about a task after that: `fooled` is
the set of such tasks, and `Untold == left \union fooled` the tasks of which the
magnet and task_manager have different ideas that nobody reconciles. What the
properties say is that there is no *other* way to lose a package, and that whatever
task_manager gives up is being given up by the planner too.

| property | says |
|---|---|
| `BoxAccountedFor` | a package on the magnet is the current task's, or a release is coming, or its task is one of `Untold` |
| `AnswersAreTrue` | an answer is sent with the arm folded and the magnet as it says; and it is still true when it reaches its own task, unless that task was fooled before |
| `DrivesAlone` | while Nav2 drives, whatever the planner works on or has yet to read has its cancel behind it (or is of `Untold`): the two drive together no longer than a cancel takes; and a package is carried with the planner at rest and the arm folded |
| `TaskEnds` | a package task that has started ends, whatever dies |
| `CancelReleases` | a cancel a living controller has yet to read ends with the magnet off and empty |

**Fairness**: callbacks and timers of both nodes run (the controller's only while it
lives), Nav2's legs end, the simulator steps. **Timing**: the ramps of the arm
(`arm_min_move_s` = 0.8 s) are longer than the command and the report of the magnet
(10 Hz), so a ramp ends with the magnet `Settled`.

## 6. ConsoleSession

The dashboard's buttons reach a SessionManager whose lock protects one record.
Stops and finishes are threads that let go of the lock while `run_demo.sh stop`
runs; a forced start keeps it; a watcher per launcher reads the launcher's log.

| model | code |
|---|---|
| `launcher`, `unread`, `isaac`, `ros`, `ready` (`RunDemo`) | `run_demo.sh` per run: reset, Isaac, bringup, banner, exit; `stop_pipeline` kills by name, whoever's processes they are |
| `session`, `disk` | `_session`, `current.json` |
| `proc`, `cache`, `watch` | `_proc`, `_alive_cache`, the watcher threads |
| `thread` | the stops, finishes and forced starts under way and where each is |
| `Start`, `ForceStart`, `ForcedStart`, `Stop`, `StopBegin`, `Sweep`, `StopEnd`, `Finish`, `Save`, `SavePoseGraph` | `start`, `stop`, `_stop_blocking`, `finish`, `_finish_blocking`, split where the lock is released or a process is waited for |
| `Poll`, `CacheAges`, `Consume`, `WatchEnd` | `status`, the 2 s cache, `_consume`, `_watch` with `_finish` |
| `ConsoleDies`, `Adopt` | serve.py going down and `_adopt` |

`console`: 2 sessions, so that the threads, the launcher and the watcher of one meet
the other; 2 threads at once; 2 events (stops, finishes, failed starts, time-outs,
restarts); 1 death of the pipeline.

| property | says |
|---|---|
| `FailedAfterExit` | a session reads "failed" only after its own launcher exited |
| `NeverRevived` | an ended session never reads as starting or running again |
| `DeadRunNoticed` | a run shown as running while nothing runs is noticed |
| `StopEnds` | no session stays "stopping" |

**Fairness**: the dashboard polls, the cache ages, threads of the console run, and
`run_demo.sh stop` ends (it has a timeout). Launchers, people and restarts owe nothing.

## 7. SplatQueue implements JobLife

`JobLife` is the abstract life of the jobs: accepted in order, one *running* at a
time and the oldest first, ended once, an ended job unchanged by a restart.
`SplatQueue` is the worker: HTTP threads under `Worker.cv`, the runner thread step by
step (check, write the record, work, poll the GPU, spawn, reap, clean up), train.py
as a process that outlives a stopped worker, and the records on disk. `lifeBar` is
the refinement mapping: a job is *running* while the runner holds it, *ended* once
its record says so, in *limbo* when nobody holds it and there is no such record.

`splat`: 2 jobs (one runs while the other waits), 2 maps (a duplicate or not), 1
failed write or uncaught exception, 1 stop, Isaac started once.

| property | says |
|---|---|
| `ImplementsJobLife` | the refinement |
| `NoDoubleBuild` | no map is built twice at once |
| `TrainerAccounted` | a train.py that runs belongs to the job in hand, or to one that reads failed |
| `DoneHasModel` | a job listed as done has a model, also after a restart |
| `CancelBeatsTraining` | a job cancelled before the runner's last check never gets to the GPU |
| `EveryJobEnds` | while nothing goes wrong with the disk, every submitted job ends |

**Fairness**: the runner's thread runs, train.py runs its steps, somebody closes
Isaac some time. Nobody promises to submit, cancel or restart.

## 8. RouterSession implements SessionChannel

`SessionChannel` promises each direction of a router session: the messages accepted
are handed over in order, each once; a teardown loses what has not arrived and
nothing of it is seen in a later session. `RouterSession` is `Flow`: a window of
segments, cumulative and piggybacked acks, retransmission, reassembly, the best-effort
backlog, and the lease that tears a silent session down, over a radio that loses,
delays, duplicates and reorders.

`session`: window 2, backlog 1, 2 transmissions per segment, 2 teardowns or
openings; 3 segments one way (one more than the window) and 1 keepalive back, fewer
in the later sessions; one retransmission with one of loss, delay beyond the lease,
death.

| property | says |
|---|---|
| `ForgottenIsDelivered` | what the sender forgets is with the application; no ack of this session runs ahead |
| `BacklogWaits` | no room in the window stays unused while messages wait |
| `Channel` | the refinement |
| `UpWithoutFault` | a session that loses nothing is never torn down |
| `CatchesUp` | no receiver waits forever: it catches up, or the session is torn down |

**Fairness**: the keepalive timer, the delayed ack and the retransmission timers
fire, frames on the air arrive (or are lost, which is a fault with a budget), a lease
that is over is noticed. Times are kept as order only: `MaxTries` transmissions are
as many as fit in a lease, as `_rto` doubles its wait.

## 9. MapLibrary

One entry for two robots: the manifest, the grid, a database per robot with its
staged copies, a save that may die between any two of its steps, the stack of nodes it
saves from, and Save & finish around it. A file is what it holds: a version, whole,
partly written, or a git-lfs pointer.

| model | code |
|---|---|
| `man`, `grid`, `file`, `staged`, `vac` | `map.json`, `grid.pgm`, `map*.db`, `.tmp`, `.tmp.vac` |
| `saver` and `InitEntry` ... `WriteEntry` | `maps.sh save`: init, add-grid, backup, `copy_db` (fill, vacuum, rename), add-db |
| `ReadManifest`, `LoadOrInit`, `Reconciled` | `read_manifest` with its reconciliation against the files |
| `fin`, `Finish`, `AfterGrid`, `StopRun`, `SaveGraph`, `AfterGraph` | `_finish_blocking` |
| `Start`, `Explore`, `Load`, `Down` | `prepare_map_db`, RTAB-Map, the dashboard's load, the end of the stack |

`maps`: 2 versions (old and new), 2 runs (a finish can meet the next run), 2 events
out of: a save by hand, a kill, a full disk, a file lost or replaced, a removal.

| property | says |
|---|---|
| `ClaimsHold` | what the manifest calls complete is never a part of a copy, and a new claim is on disk already |
| `NothingLost` | a database that can be loaded stays so until its file is taken away |
| `StopAfterGrid` | Save & finish stops a living run only once the manifest has a grid captured since the button was pressed |
| `FinishKeepsRun` | "done" means that the entry holds what the run ended with, unless the next run started, or another database was loaded |

All are action properties: every moment is a step of somebody. Safety only: nothing
promises that a save succeeds.

**Idealised**: one save, removal or git-lfs pull of an entry at a time (see the
divergences), a stop does not time out, no removal during a finish, one map name, a
localize run has this entry open, the grid's two files appear together.

## 10. Where code and documentation disagree, and what the models leave to the code

`latepick` is kept as a run: it refutes a docstring (section 5). The other
disagreements met while modelling are listed here; each can be reproduced by the
change of constants or of a module that its entry names, or follows from the lines.

**Auction** (constants of `split` and `recovery` changed)

| sentence | what the code does |
|---|---|
| "a split can no longer put two robots on one task" (protocol.py:30-31, docs/architecture.md:132) | quorum evidence is up to `status_timeout_s` old, so a round open at the split can be claimed on both sides; the duplicate ends after a lease (`SplitAnytime = TRUE`, `OneSideWorks` fails) |
| "Once a load is on board, the task never moves" (docs/architecture.md:130) | an owner that commits after it was cut off is not heard; the majority reclaims its task (`split` with a commit in the budget) |
| "Just healed: the owner's lease beacon may be a second away" (protocol.py:531) | the wait applies only if a tick found the lease expired *without* quorum; if both fall together it is skipped |
| "no abandoned tasks" (loopback.py:6) | `lease_lost` (protocol.py:512) leaves the view OPEN with no rebid time; with no other bidder, nobody reopens the task (`recovery` with one robot and a split) |

COMPLETE and CANCEL are published once (protocol.py:434, 452): a node cut off at that
moment keeps the task until its lease logic or retention drops it, and a COMPLETE that
crosses a CANCEL leaves nodes with different final states.

**Robot** (all but the last happen within `robot`)

| sentence | what the code does |
|---|---|
| "First task_status after OUR start: task_manager may have kept working through a restart of this node" (fleet_tasks.py:363-364) | task_manager publishes nothing before its first dispatch, so on a fresh start the first status is that of fleet_tasks' own dispatch, which `_adopt` cancels while the allocator keeps owning the task (the scenario `boot`) |
| "Left alone, we would keep renewing the lease on a task nothing is working, and the board would show it claimed forever" (fleet_tasks.py:322-324) | a cancel of a *waiting* task publishes no CANCELLED (task_manager.py:334-336): exactly that happens (a `handcancel` among two wins) |
| "DONE -> Complete (fleet-wide)" (fleet_tasks.py:16) | DONE and IDLE go out back to back on a depth-1 topic; DONE can be replaced unread |
| "the echo of our own cancel" (fleet_tasks.py:317) | cancelling a waiting task yields no echo, its id stays in `_cancelling`, and after the robot won the task again a person's CANCELLED is swallowed as that echo (two wins, a loss and a `handcancel`) |

In each of these an owned task is left that task_manager does not hold, that is not
dispatched nor due for a retry, and whose end is not unread: its lease is renewed with
nobody at work. `robot` therefore promises neither that an owned task is accounted for
nor that it ends, only what holds nevertheless. A status that carries a refused id is
read as that refusal alone (fleet_tasks.py:307-314): a state NAV_TO_DROPOFF in it is
not seen, and the load stays uncommitted until the next status.

**Explorer and hand-off**

- A status `exploring` that crosses the task's stop clears `paused_for_task`
  (explorer_handoff.py:30), and the exploration is never resumed (contra :12-14).
- A task dispatched before the first `exploring` status arrives sends no stop and
  waits for the whole exploration (`max_run_time_s`). An explorer that dies while it
  reports `exploring` blocks the queue for good: nothing restarts it or times the
  report out (`TaskStarts` excuses it).
- A stop while a goal waits for its acceptance leaves a handle with target None; a
  following start makes `_tick` raise on `*None` (explorer.py:989-996,
  `TickCrashes`).
- The stop path does not raise the generation, so the end of a goal stopped by an
  explore command is scored as the frontier's failure (explorer.py:1042-1051); a stop does not cancel a
  spin, so task_manager may drive while the robot turns (explorer.py:357-360, 379-382); a `start` in
  flight while a task starts preempts the task's goal.

**Pick**

- A task that ends on a drive, as pick-only, or in a restart of task_manager leaves
  its package on the energized magnet (`left`), and the next attach takes any held
  package for its own. A dead controller is not respawned.
- `_fail` answers before the arm is tucked and the base has backed out, so that a goto may
  drive then (contra "Driving and carrying happen tucked"); a late `failed` ends the
  next task while the planner works on (`fooled`), and nothing cancels the planner. For
  as long as a cancel takes to be read, Nav2 and the planner may both drive.

**Console**

- An old launcher's failing sweep kills the new session's Isaac by name; a forced
  start with invalid parameters has torn the old session down before it is refused;
  `Popen` failing leaves the state `starting` (session.py:1183).
- The stop of a Save & finish hits a session started meanwhile (session.py:1280); a
  console restart in a finish leaves `finish.step` at `saving`; `_adopt` while a launcher
  boots reads `exited` while the pipeline comes up.

**Splat worker**

- The worker stopped while train.py runs lets the next worker start a second training
  on the same GPU (worker.py:250-251, 495; splat.sh:66-68).
- A cancel between the runner's last look at the flag and `Popen` finds no process to
  signal (worker.py:313-327): the training runs to its end, and only then the job is
  recorded as cancelled.
- A cancel while train.py imports its libraries kills it before its handler is
  installed: the job ends as failed, not cancelled.

**Map library**

- Two saves of one entry at once (a save from the console beside a finish, or the
  orphan of a save that timed out beside a retry) share `.tmp`, `.tmp.vac` and
  `.map.json.tmp`: one can publish the other's partial copy, or lose the other robot's
  entry; so can a removal during a save.
- `load_or_init` writes the reconciled states back, so that `git lfs pull` never enables an
  entry again (maps_lib.py:188 says it recomputes).
- A live save whose backup failed exits 0 with the old database (maps.sh:199); the
  finish of a stack that died just before keeps an old grid; after a dashboard Load the
  stack works on `sortbots_<rid>_loaded.db` and a finish saves `sortbots_<rid>.db`.
- `sim_ctl.sh stop --save-map` stops even when the grid was not saved, contra "same
  sequence" (session.py:1233).

**Radio simulator**: `_rto` at a dead node ends its timer chain for good (sim.py:339);
messages acked to a node that dies before its application has read them are lost.

## 11. What is proved

Each `*Proofs` module proves its theorems for all values of the constants that
satisfy the named ASSUMEs of the module it extends, which TLC evaluates in every
run. All follow the same plan: an inductive invariant that is a conjunction of named
parts, `Init => IInv`, one lemma per action or group of actions for
`IInv /\ [Next]_vars => IInv'`, and the listed property as a consequence.

**`TaskAuctionProofs`**, for every finite fleet, every set of costs, every value of
the timers with `StatusTimeout <= TaskLease`, every budget, both schedules:

- `TypeCorrect`: `Spec => []TypeOK`. One lemma per operator (`OpenBiddingType`,
  `AssertOwnerType`, `PublishType`, ...), per frame and per group of actions.
- `CutOffOwnerStopsAlways`: `Spec => []CutOffOwnerStops`, the deadline of
  protocol.py:504-511. Not inductive: that a majority was heard at most
  `TaskLease + 1` ago survives a tick only if the state before the tick tells whether
  the node has looked at its evidence. `FreshEvidence` says that an uncommitted
  owner's evidence is at most `TaskLease` old when it has ticked in this unit, and
  `TaskLease + 1` when it has not. A tick that keeps the task checked the first bound
  (`MustStop`), a claim needs a quorum, no message makes a robot its own owner, and
  `Advance` needs every node to have ticked.
- `LoserWillHearAlways`: `Connected /\ Spec => []LoserWillHear`, for any delay of
  messages and any order of ticks. `Connected` excludes cuts and crashes, which lose a
  claim on its way (`CutOffOwnerStops` and `OneSideWorks` are about those), and asks for
  `BidWindow >= 1`, a window of at least one beacon period: both are 1 s as shipped
  (protocol.py:53, 484-490). With windows as short as that a third robot's round can
  open and close between two beacons of the owner, so that a claim it has not answered
  yet may stand until its next tick; the property therefore speaks of a claimant that
  has ticked in the present period. It speaks of
  two claimants only, so it says nothing of the robot about to become the second one.
  `NoSilentClaim` watches each robot `b` from the moment another one, `a`, is on the
  task and has ticked in the period: a claim or beacon with `a`'s present cost is on its
  way to `b`, or `b` is safe. Safe is an owner with the better claim, and a bidder
  without a bid, with a better bid, or whose window just opened and so outlasts `a`'s
  next tick, which sends a beacon. `Keeps` and `Heeds` say what a
  handler does to a view: none makes a claimant, and a claim or beacon that is heard
  leaves its receiver safe from the sender; `Claims` and `Commits` are the two steps
  that make or change a claim, each of which publishes it in the same step.
- `FinishedStopsAlways`: `Prompt /\ Spec => FinishedStops`, the action property. `Prompt`
  asks for a network without cuts and crashes (COMPLETE and CANCEL are published once),
  for a task that is announced once (any number of repeats of it), and for two relations
  of the timers: a message takes less than a bid window, and two messages less than the
  retention (1 s and 300 s, protocol.py:53, 75, against channels of one LAN). Within
  that, any fleet, any order of ticks and messages and any number of commits,
  failures, withdrawals, repeats, completions and cancels. The property is about a quiet
  moment, so the invariant is the life of the task up to it (`LifeOfTask`): `Unknown`;
  `Announced(k)`, where the nodes that do not know it have its announcement coming and
  the others' windows are all open, so nobody can own or end it but the gateway;
  `KnownToAll`; and `Ended(k)`, `k` units after the first COMPLETE or CANCEL, where each
  node has ended it (`Over`), has the end coming (`Told`, or `Late`: behind its
  announcement), or has forgotten it (`Gone`) after `Settling` guarantees that no claim,
  beacon or announcement that could revive it there is on its way. `ReceiveLife`,
  `TickLife` and `CallLife` say what the handlers, a tick and a call do to a view's
  part of that life, and `LifeReceive`, `LifeTick`, `LifeCall` and `LifeAdvance` preserve
  it.
- `OneSideWorksAlways`: `OneSplit /\ Spec => []OneSideWorks`, for any fleet, costs and
  order of ticks and messages, any number of repeats of the announcement and any
  partition into two sides. `OneSplit` asks for one split, once everybody knows the
  owner (`SplitAnytime` refutes the property, section 10), and for no commit, failure,
  cancel, withdrawal, full robot or crash; a message is heard in the unit it is sent in;
  and `Margin >= BidWindow + 1`: what a follower last heard of the owner may be a window
  older than the cut, and the owner stops at the tick after its lease (a margin of 2 s
  and a window of 1 s, protocol.py:53, 59). The `split` run is an instance of it. The invariant (`OneSide`) has two halves.
  `Together`, up to the split: everybody hears everybody in every unit (`Lately`), a
  robot with a bid or the task has a quorum, and the task is in one `Phase`: `Untold`,
  `Lull` (known, nobody has bid), `Round(m, w, c)` (the window of the best bidder `w`
  ends in `m` units, and every node is in step with it, or closed early on worse bids
  and waits), or `Decided(w, c)` (`w` is about to claim or has the task; every node
  follows it or has its claim coming). `AllBeaten` is what carries a round through: whatever any
  node holds or any message says is no better than `w`'s bid. At the split the phase can
  only be `Decided` with every node following `w`, at most a window behind (`SplitParts`).
  `Parted`, after it: `Apart(S, k)`, where no evidence and no message has crossed for `k`
  units and, up to a lease and a tick, the nodes outside `S` still follow the owner of
  the other side, since their lease on it ends a margin later. After that the evidence
  across the cut is older than a lease, an owner has a majority within its side
  (`CutOffOwnerStopsAlways`), and two sides cannot both hold one (`TwoMajorities`).
- `WinnerBeatsAll`, `HeardMonotone`: `Winner` is well defined on a finite fleet;
  evidence within an age is evidence within any larger one.

**`SplatQueueProofs`** (`IInv` = `TypeOK`, `JobsExist`, `QueueWaits`, `InHand`,
`LostHasNoRecord`, `PhaseInProgress`, `TrainerRecorded`, `NoDoubleBuild`,
`DoneHasModel`): `QueueInvariant`; the safety properties `BuiltOnce` (`NoDoubleBuild`),
`TrainersKnown` (`TrainerAccounted`) and `DoneIsServed` (`DoneHasModel`); and
`WorkerImplementsJobLife`, the refinement: each step of the worker is a step of
`JobLife` or a stutter under `lifeBar`. `QueueWaits` and `InHand` say what state a job
has in the queue and in the runner's hand at each of its program points;
`PhaseInProgress` is what makes `Record` of a chosen outcome a `Finish`.
`CancelledNeverTrains` is the action property `CancelBeatsTraining`: its invariant
`CancelInv` says that a job whose cancel came before the last check is `Doomed`, in
a phase of the runner from which no step leads to the training, and stays so through
the disk faults and restarts that follow.

**`ExploreProofs`** (`IInv` = `Typed`, `InOrder`, `LatestArrivesLast`,
`AnswersFollow`, `HandleTaken`, `ActiveNeedsNav`, `GivenUpIsOld`, `NoLostGoal`,
`NoSelfBlame`): `LatestHandle`, `NoGoalLost`, `NoOwnCancelBlamed`, for any number of goals,
tasks, statuses and commands. Goals reach Nav2 in the order they were sent, so the
latest is last to be accepted; hence an answer read for the latest generation is
that of the goal that runs.

**`PickProofs`** (`IInv` = `Types`, `Fields`, `Owners`, `PhaseKnows`, `Fresh`, and
`OwnExchange` unless the current task is fooled): `NoPackageForgotten`
(`BoxAccountedFor`), `AnswersTrue` (`AnswersAreTrue`) and `NavDrivesAlone`
(`DrivesAlone`), with no assumption but the types of the constants, for any number of
tasks, redocks, shapes and events. `PhaseKnows` says what the arm and the magnet are
at each phase; `Owners`, that what is asked for, worked on or on the magnet is of the
current task, of `Untold`, or has a cancel or release behind it. Several exchanges may
be under way, so the key is `OwnExchange`: that of the *current* task is the newest,
its request is the last one, it is worked on only with nothing left to read, and its
answer is the last answer, with the planner at rest. An answer of another task breaks
that only by making its reader fooled, which is why the invariant holds without a quiet
moment between tasks. `Fresh` says that nothing is under way for a task that waits.

**`RouterSessionProofs`** (`IInv` = `TypeOK`, `BacklogWaits`, `ChainInv`,
`WindowInv`, `AppInv`, `AirInv`, `OooInv`, `AckInv`, `PiggyInv`): `Forgotten`,
`NoLostWakeup` and `SessionRefines`, the refinement, for any window, backlog and number of
segments, sessions and faults. `ChainInv` says that segments carry consecutive
runs of messages, `AppInv` that the application has exactly the messages before
`expected`, and the others that every copy of a segment or ack on the air, in
`ooo` or in a piggyback is that of a segment sent in its session.
`UpUnlessHurt` (`UpWithoutFault`) needs a second invariant on top, `WholeInv`: as long as
nothing was lost, for each direction everything in flight has arrived or is on the air
(`Receives`), and an ack that covers what has arrived is due, on the air or rides on a
segment of the other direction that is (`AckComes`). A segment out of retransmissions
is then never unheard, so the lease cannot run out.

**`MapLibraryProofs`** (`LibInv` = `FileInv`, `StageInv`, `EntryInv`, `LocalInv`;
`FinInv` = `WaitInv`, `SinceInv`, `CaptureInv`, `GridInv`, `StoppedInv`, `GraphInv`,
`ResetInv`): `TypeCorrect`, `ClaimsAlwaysHold`, `NothingIsLost`, `StopsAfterGrid`,
`FinishKeepsTheRun`, for any robots, versions, runs and events. The first two rest on
what each file may be at each point of a save; the last two on what the finish
thread has seen: its save's exit code, the version that was current when it began,
and that a stack that is down stays with the database it had.

**`RobotWorkProofs`** (`DInv` = `Shapes`, `IdleOrBusy`, `NoGoalYet`, `AskedOnce`,
`DrivesKnown`, `AcceptedRuns`, `LegAsked`): `NeverDrivesForNobody`, that is
`Spec => []NoOrphanDrive`, for any tasks, budgets and depth of the status topic. The
property is not inductive: a rejected goal puts its task back in the queue, and the next
drive of it overwrites what is known of the last goal. `NoGoalYet` says that a task that
waits or dwells has no goal on its way, driven or answered, and `AskedOnce` that a goal
on its way was asked for once; so an answer is never that of an earlier leg. With
`DrivesKnown`, a task that ends either has the handle of the goal that is driven, and
cancels it, or has yet to read that it was accepted, and will cancel it then.

`CommittedIsCarried` is `Spec => []CarriedToDropoff`, for any finite set of task ids
(`IdAssumption`). `CInv` adds to `DInv` that the last status published is still true
(`Topics`) and that for each task one of two things holds. `AllLoaded`: everything the
robot holds of it, or has been sent of it, is on the dropoff leg or starts with it.
`OneEmpty`: at most one thing of it is there, held or coming, it is empty-handed, the
task is not committed, and no status anywhere tells of it on board. The property alone is not
inductive: a status read late commits a task, and what is then in the queue was put
there earlier. Only a win makes an empty-handed dispatch, and it finds nothing left of
the task; it is loaded only on arrival at its pickup, and a status that tells of it is
published after that.

`OwnedOrCancelled` is `Spec => []WorkOnlyOwned`. `WInv` = `Latest`, `InOnePlace`,
`Covered`. `InOnePlace`: a task is held, dispatched, ended by an unread status, or due for
a retry, once and in one of these places. `Latest`: the latched status, the first
that a restarted fleet_tasks reads, shows all that task_manager holds. `Covered`: what is
not owned has its cancel behind its dispatch or is shown by every unread status to a
fleet_tasks that has just started. Without `InOnePlace` it is not inductive: a task lost
and won again could leave an old status behind that frees it while its new dispatch is
on the way.

`LoadIsCommitted` is `Spec => []OnBoardIsCommitted`, for any depth of the topic, any
budgets and a boot. `TInv` says that the last status published shows the machine as it
is and is the newest that is unread (`Shown`, `LastUnread`; however many are dropped,
`NewestStays`), and that a task owned uncommitted with the item on board has a status
unread, or the last one published is a refusal (`LoadTold`). A status read last is thus
the machine's, and if it is on board `Report` or `_adopt` commits it; `CInv` tells that a
win finds nothing of its task on the robot, so a new ownership never begins loaded.

**`ConsoleProofs`** (`IInv` = `TypeOK`, `DownIsIdle`, `IdsMade`, `TailIsCurrent`,
`FailedByOwn`): `SessionsInvariant`, `FailsByItsOwn` (`FailedAfterExit`),
`EndedStaysEnded` (`NeverRevived`), for any number of sessions, threads, faults and
deaths. `TailIsCurrent` is the key: a launcher that is still watched and that `_proc`
names is the launcher of the session in force, which is starting or stopping; once its
watcher has told how it ended, `_proc` is gone. So a watcher that finds its own launcher
in `_proc` fails its own session, and one that does not changes nothing. `NeverRevived` is an action
property: each writer of the state either makes a new session or leaves an ended one.

**Only model-checked**: all liveness (it needs fairness and ENABLED, beyond the
prover). `LoserWillHear`, `FinishedStops` and `OneSideWorks` are proved under the
hypotheses above (`Connected`, `Prompt`, `OneSplit`); their runs are instances of them. No
induction over data is attempted (the provers cannot instantiate the induction
theorems) and no module declares a RECURSIVE operator.
`TypeOK` of `TaskAuction` is checked and proved; those of `SplatQueue`,
`RouterSession`, `MapLibrary`, `ExploreHandoff`, `PickExchange`, `ConsoleSession` are
parts of the proved invariants; that of `RobotWork` holds on the run's instances and
documents its variables (`Shapes` is the part of it that the proof needs).

## 12. Not modelled

- **Capacity of one robot**: several tasks at once (`max_owned_tasks`, declines and
  withdrawals among them, the backlog); `TaskAuction` has one task and takes them as
  choices. Two tasks square its state space, which is at its limit already.
- **Frontier claims between explorers** (`fleet_radio.py`: intents with a priority, a
  bounded yield and a TTL): the interplay is geometry (whether two frontiers are
  near) over a lossy cache that nothing relies on for safety. Reading it shows that the
  yield's budget restarts with each new goal of a peer, so a peer that retargets faster
  than 12 s can keep a lower-priority robot waiting.
- **Map transfers** (`map_handoff.py`, `map_merge`), perception, arm
  kinematics, frontier scoring: numeric code on images, clouds and grids, with no
  protocol in it; a model would be the code again.
- **The radio's physics** and MAC in `commsim/des`, the mesh emulation and firmware
  tools: random or external.
- **Splat pipeline stages** (extraction, training): sequential file conversion and GPU
  code; their outcomes are choices of `SplatQueue`.
- **Scene building** (`spawn_warehouse.py` and others), launch files, simulator tests:
  straight-line set-up. What they do to a protocol is modelled where it acts (the
  magnet's command and ground truth in `PickPlanner`, the sweep in `RunDemo`).
- **The memory guard** is one way for the pipeline to die (`RunDemo.Dies`).
- **Operator pages**: rendering.
