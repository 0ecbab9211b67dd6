--------------------------- MODULE ExploreHandoff ---------------------------
(* Who has Nav2: the explorer or task_manager (nodes/explorer_handoff.py).  *)
(* task_manager (nodes/task_manager.py) stops the explorer when a task is   *)
(* dispatched, waits until it reports that it stopped, and starts it again  *)
(* when the queue is empty.  A task here is one drive; TaskManager models   *)
(* the rest of its life.                                                    *)
EXTENDS Explorer

VARIABLES
  queue,        \* the tasks that wait, oldest first by number
  dispatched,   \* tasks dispatched so far
  current,      \* current_task (0: None, state IDLE)
  driving,      \* _nav_goal_handle is set
  active,       \* ExplorerHandoff.active
  pausedForTask

tmVars == <<queue, dispatched, current, driving, active, pausedForTask>>
vars == <<navVars, explorerVars, tmVars>>

TypeOK == /\ NavTypeOK /\ ExTypeOK
          /\ queue \subseteq Tasks /\ dispatched \in 0..MaxTasks
          /\ current \in {0} \union Tasks /\ driving \in BOOLEAN
          /\ active \in BOOLEAN /\ pausedForTask \in BOOLEAN

Init == /\ NavInit /\ ExInit
        /\ queue = {} /\ dispatched = 0 /\ current = 0 /\ driving = FALSE
        /\ active = FALSE /\ pausedForTask = FALSE

Order(c) == cmds' = Append(cmds, c)

\* _on_dispatch, and on_task_queued.
Dispatch == LET t == MaxGoals + dispatched + 1 IN
            /\ dispatched < MaxTasks /\ dispatched' = dispatched + 1
            /\ queue' = queue \union {t}
            /\ IF active THEN pausedForTask' = TRUE /\ Order("stop")
               ELSE UNCHANGED <<pausedForTask, cmds>>
            /\ UNCHANGED <<navVars, exVars, status, current, driving, active>>

\* _on_explore_status, and on_status.
OnStatus == /\ status # <<>> /\ status' = Tail(status)
            /\ active' = (Head(status) = "exploring")
            /\ pausedForTask' = (pausedForTask /\ ~active')
            /\ UNCHANGED <<navVars, exVars, cmds, queue, dispatched, current, driving>>

\* Mutant: a task waits until the explorer runs again.
MayStartLater == ~active /\ ~pausedForTask

\* may_start_task.
MayStart == ~active

\* _tick: the next task.
StartTask == /\ current = 0 /\ queue # {} /\ MayStart
             /\ \E t \in queue : /\ \A u \in queue : t <= u
                                 /\ current' = t /\ queue' = queue \ {t}
                                 /\ at' = [at EXCEPT ![t] = "sent"]
             /\ driving' = FALSE
             /\ UNCHANGED <<answer, result, kill, navup, explorerVars, dispatched, active,
                            pausedForTask>>

\* _tick: nothing left, and on_idle.
Resume == /\ current = 0 /\ queue = {} /\ pausedForTask /\ pausedForTask' = FALSE
          /\ Order("start")
          /\ UNCHANGED <<navVars, exVars, status, queue, dispatched, current, driving, active>>

\* _on_goal_response: a task that is no longer current is cancelled, a rejected
\* one waits for the next tick or, after the start-up grace, has failed.
TaskAnswer(t) ==
  /\ answer[t] # "none" /\ answer' = [answer EXCEPT ![t] = "none"]
  /\ \/ /\ answer[t] = "yes" /\ current = t /\ driving' = TRUE
        /\ UNCHANGED <<at, kill, queue, current>>
     \/ /\ answer[t] = "yes" /\ current # t /\ kill' = kill \union {t}
        /\ UNCHANGED <<at, driving, queue, current>>
     \/ /\ answer[t] = "no" /\ current = t /\ current' = 0
        /\ \/ queue' = queue \union {t} /\ at' = [at EXCEPT ![t] = "none"]
           \/ UNCHANGED <<queue, at>>
        /\ UNCHANGED <<kill, driving>>
     \/ answer[t] = "no" /\ current # t /\ UNCHANGED <<at, kill, driving, queue, current>>
  /\ UNCHANGED <<result, navup, explorerVars, dispatched, active, pausedForTask>>

\* _on_nav_result: the task is done or has failed.
TaskResult(t) == /\ result[t] # "none" /\ answer[t] = "none"
                 /\ result' = [result EXCEPT ![t] = "none"]
                 /\ IF current = t THEN current' = 0 /\ driving' = FALSE
                    ELSE UNCHANGED <<current, driving>>
                 /\ UNCHANGED <<at, answer, kill, navup, explorerVars, queue, dispatched, active,
                                pausedForTask>>

\* A person does something.
Person == /\ events < MaxEvents /\ events' = events + 1
          /\ UNCHANGED <<alive, state, gen, target, handle, given, blamed, spin, turning>>

\* _on_cancel for one task, waiting or running.
Cancel == /\ Person
          /\ \/ /\ \E t \in queue : queue' = queue \ {t}
                /\ UNCHANGED <<kill, current, driving>>
             \/ /\ current # 0 /\ current' = 0 /\ driving' = FALSE
                /\ kill' = IF driving THEN kill \union {current} ELSE kill
                /\ UNCHANGED queue
          /\ UNCHANGED <<at, answer, result, navup, cmds, status, dispatched, active, pausedForTask>>

\* The dashboard's Explore and Stop buttons, sim_ctl, a hint.
Ask == /\ Person /\ \E c \in Commands : Order(c)
       /\ UNCHANGED <<navVars, status, tmVars>>

Quiet == UNCHANGED tmVars

Next == \/ Dispatch \/ OnStatus \/ StartTask \/ Resume \/ Cancel \/ Ask
        \/ \E t \in Tasks : TaskAnswer(t) \/ TaskResult(t)
        \/ ExplorerStep /\ Quiet
        \/ NavComesUp /\ UNCHANGED explorerVars /\ Quiet
        \/ \E g \in Goals : Nav(g) /\ UNCHANGED explorerVars /\ Quiet

\* Messages arrive, timers fire, Nav2 answers and every drive ends, and an
\* exploration is over after max_run_time_s.  Nobody has to find a frontier.
Fairness ==
  /\ WF_vars(OnStatus) /\ WF_vars(StartTask) /\ WF_vars(Resume)
  /\ \A t \in Tasks : WF_vars(TaskAnswer(t)) /\ WF_vars(TaskResult(t))
  /\ WF_vars(OnCmd /\ Quiet) /\ WF_vars(OnHint /\ Quiet) /\ WF_vars(Heartbeat /\ Quiet)
  /\ WF_vars(RunOut /\ Quiet) /\ WF_vars(NavComesUp /\ UNCHANGED explorerVars /\ Quiet)
  /\ \A g \in Goals : /\ WF_vars(NavAccepts(g) /\ UNCHANGED explorerVars /\ Quiet)
                      /\ WF_vars(NavEnds(g) /\ UNCHANGED explorerVars /\ Quiet)

Spec == Init /\ [][Next]_vars /\ Fairness

-----------------------------------------------------------------------------

\* A task that waits for the explorer starts in the end (or is cancelled): stop
\* and status cross, the explorer is started again over the task, or runs until
\* its time is up - as long as its node lives (explorer_handoff.py, may_start_task).
TaskStarts == \A t \in Tasks : (t \in queue) ~> (t \notin queue \/ ~alive)
=============================================================================
