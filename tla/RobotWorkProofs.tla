-------------------------- MODULE RobotWorkProofs --------------------------
(***************************************************************************)
(* Four theorems about RobotWork, for any finite number of tasks, any budget *)
(* of losses, failures, rejections, cancels and restarts, and any depth of   *)
(* the status topic: the robot never drives for a task that is over          *)
(* (task_manager and Nav2); an item it carries goes to the dropoff, what it  *)
(* works it owns, and what it has on board the fleet is told (task_manager   *)
(* and fleet_tasks with the two topics between them).                        *)
(***************************************************************************)
EXTENDS RobotWork, FiniteSetTheorems, SequenceTheorems, TLAPS

\* The goals on their way to Nav2.
Asked == {requests[i] : i \in DOMAIN requests}

\* Of the types only what the argument needs; job is a sequence, of whatever.
Shapes ==
    /\ \E S : job \in Seq(S)
    /\ queue \subseteq JobId
    /\ cur \in JobId \union {0}
    /\ state \in NavStates \union DwellStates \union {"IDLE"}
    /\ goal \in [JobId -> Goal]
    /\ requests \in Seq(JobId)
    /\ driving \in JobId \union {0}
    /\ stopping \subseteq JobId

\* The machine is idle exactly while there is no current task, which does not wait.
IdleOrBusy == (state = "IDLE" <=> cur = 0) /\ cur \notin queue

\* k has no goal that Nav2 or a callback still knows of.
Free(k) == goal[k] = NoGoal /\ k \notin Asked /\ driving # k

\* A task that waits, and the current one while it dwells, has no goal anywhere.
NoGoalYet == (\A k \in queue : Free(k)) /\ (state \in DwellStates => Free(cur))

\* A goal on its way is on its way once, and has neither an answer nor an end.
AskedOnce ==
    /\ \A i, j \in DOMAIN requests : requests[i] = requests[j] => i = j
    /\ \A k \in Asked : goal[k] = NoGoal /\ driving # k

\* What Nav2 executes has not ended, and is the current task's or will be stopped; of
\* the current task's goal task_manager has the handle once it has read the answer.
DrivesKnown ==
    driving # 0 =>
        /\ goal[driving].end = "none" /\ goal[driving].ans # "rejected"
        /\ driving = cur => /\ state \in NavStates
                            /\ goal[cur].ans \in {"accepted", "known"}
                            /\ goal[cur].ans = "known" => handle
        /\ driving # cur => driving \in stopping \/ goal[driving].ans = "accepted"

\* An accepted goal is executed or has ended.
AcceptedRuns ==
    \A k \in JobId : goal[k].ans \in {"accepted", "known"} => driving = k \/ goal[k].end # "none"

\* A task that waits for its drive has asked for it, and may have the answer.
LegAsked == state \in NavStates => cur \in Asked \/ goal[cur].ans # "none"

DInv == /\ Shapes /\ IdleOrBusy /\ NoGoalYet /\ AskedOnce /\ DrivesKnown /\ AcceptedRuns
        /\ LegAsked

\* It says what the property says.
LEMMA InvImplies == DInv => NoOrphanDrive
<1> SUFFICES ASSUME DInv PROVE NoOrphanDrive
  OBVIOUS
<1> USE DEF DInv
<1>1. Asked = ToSet(requests)
  BY DEF Asked, ToSet
<1>2. driving # 0 => \/ driving = cur /\ state \in NavStates
                     \/ driving # cur /\ (driving \in stopping \/ goal[driving].ans = "accepted")
  BY DEF DrivesKnown
<1>3. ASSUME state \in NavStates
      PROVE  \/ cur \in ToSet(requests)
             \/ goal[cur].ans \in {"accepted", "rejected"}
             \/ goal[cur].ans = "known" /\ (driving = cur \/ goal[cur].end # "none")
  <2>1. cur \in JobId
    BY <1>3 DEF Shapes, IdleOrBusy, NavStates
  <2>2. goal[cur].ans \in {"none", "accepted", "rejected", "known"}
    BY <2>1 DEF Shapes, Goal
  <2> QED
    BY <1>1, <1>3, <2>1, <2>2 DEF LegAsked, AcceptedRuns
<1> QED
  BY <1>2, <1>3 DEF NoOrphanDrive

\* There is no task yet.
LEMMA InvStarts == Init => DInv
<1> SUFFICES ASSUME Init PROVE DInv
  OBVIOUS
<1>1. /\ job = <<>> /\ queue = {} /\ cur = 0 /\ state = "IDLE" /\ handle = FALSE
      /\ goal = <<>> /\ requests = <<>> /\ driving = 0 /\ stopping = {}
  BY DEF Init, ManagerInit
<1>2. Shapes
  <2>1. job \in Seq({})
    BY <1>1
  <2>2. Len(job) = 0 /\ JobId = {}
    BY <1>1 DEF JobId
  <2>3. goal \in [JobId -> Goal]
    BY <1>1, <2>2
  <2> QED
    BY <1>1, <2>1, <2>3 DEF Shapes
<1>3. Asked = {} /\ JobId = {}
  BY <1>1 DEF Asked, JobId
<1> QED
  BY <1>1, <1>2, <1>3 DEF DInv, IdleOrBusy, NoGoalYet, AskedOnce, DrivesKnown, AcceptedRuns,
                          LegAsked, NavStates, DwellStates

----------------------------------------------------------------------------
(* Lemmas about the data.                                                    *)

\* One more job: the others keep their numbers and their goals.
LEMMA OneMore ==
  ASSUME Shapes, NEW x, job' = Append(job, x), goal' = Append(goal, NoGoal)
  PROVE  /\ \E S : job' \in Seq(S)
         /\ Len(job) \in Nat /\ Len(job') = Len(job) + 1 /\ JobId \subseteq JobId'
         /\ Len(job) + 1 \in JobId' /\ Len(job) + 1 \notin JobId
         /\ goal' \in [JobId' -> Goal] /\ goal'[Len(job) + 1] = NoGoal
         /\ \A k \in JobId : goal'[k] = goal[k]
         /\ \A k \in JobId' : k \in JobId \/ k = Len(job) + 1
<1>1. PICK S : job \in Seq(S)
  BY DEF Shapes
<1>2. job \in Seq(S \union {x}) /\ Len(job) \in Nat
  BY <1>1
<1>3. job' \in Seq(S \union {x}) /\ Len(job') = Len(job) + 1
  BY <1>2
<1>4. /\ JobId' = 1 .. Len(job) + 1 /\ JobId = 1 .. Len(job)
      /\ \A k \in JobId' : k \in JobId \/ k = Len(job) + 1
  BY <1>2, <1>3 DEF JobId
<1>5. NoGoal \in Goal /\ goal \in [1 .. Len(job) -> Goal]
  BY <1>4 DEF Shapes, Goal, NoGoal
<1>6. goal \in Seq(Goal) /\ Len(goal) = Len(job)
  BY <1>2, <1>5, LenProperties, SeqDef
<1>7. /\ goal' \in Seq(Goal) /\ Len(goal') = Len(job) + 1 /\ goal'[Len(job) + 1] = NoGoal
      /\ \A k \in 1 .. Len(job) : goal'[k] = goal[k]
  BY <1>5, <1>6
<1>8. goal' \in [JobId' -> Goal]
  <2>1. goal' \in [1 .. Len(goal') -> Goal]
    BY <1>7, LenProperties, ElementOfSeq
  <2> QED
    BY <1>4, <1>7, <2>1
<1> QED
  BY <1>2, <1>3, <1>4, <1>7, <1>8

\* One more request, and the first one read.
LEMMA OneAsked ==
  ASSUME requests \in Seq(JobId), NEW k \in JobId, k \notin Asked,
         requests' = Append(requests, k), UNCHANGED job,
         \A i, j \in DOMAIN requests : requests[i] = requests[j] => i = j
  PROVE  /\ requests' \in Seq(JobId') /\ Asked' = Asked \union {k}
         /\ \A i, j \in DOMAIN requests' : requests'[i] = requests'[j] => i = j
<1>1. /\ requests' \in Seq(JobId) /\ DOMAIN requests = 1 .. Len(requests) /\ Len(requests) \in Nat
      /\ DOMAIN requests' = 1 .. Len(requests) + 1 /\ requests'[Len(requests) + 1] = k
      /\ \A i \in 1 .. Len(requests) : requests'[i] = requests[i]
  OBVIOUS
<1>2. JobId' = JobId
  BY DEF JobId
<1>3. Asked' = Asked \union {k}
  BY <1>1 DEF Asked
<1>4. ASSUME NEW i \in DOMAIN requests', NEW j \in DOMAIN requests', requests'[i] = requests'[j]
      PROVE  i = j
  BY <1>1, <1>4 DEF Asked
<1> QED
  BY <1>1, <1>2, <1>3, <1>4

LEMMA OneRead ==
  ASSUME requests \in Seq(JobId), requests # <<>>,
         requests' = Tail(requests), UNCHANGED job,
         \A i, j \in DOMAIN requests : requests[i] = requests[j] => i = j
  PROVE  /\ requests' \in Seq(JobId') /\ Head(requests) \in JobId /\ Head(requests) \in Asked
         /\ Asked' = Asked \ {Head(requests)}
         /\ \A i, j \in DOMAIN requests' : requests'[i] = requests'[j] => i = j
<1>1. /\ requests' \in Seq(JobId) /\ DOMAIN requests = 1 .. Len(requests)
      /\ Len(requests) \in Nat /\ Len(requests) > 0 /\ Head(requests) = requests[1]
      /\ DOMAIN requests' = 1 .. Len(requests) - 1
      /\ \A i \in 1 .. Len(requests) - 1 : requests'[i] = requests[i + 1]
  OBVIOUS
<1>2. JobId' = JobId
  BY DEF JobId
<1>3. Head(requests) \in JobId /\ Head(requests) \in Asked
  BY <1>1 DEF Asked
<1>4. ASSUME NEW i \in DOMAIN requests', NEW j \in DOMAIN requests', requests'[i] = requests'[j]
      PROVE  i = j
  <2>1. /\ i \in Int /\ j \in Int /\ i + 1 \in DOMAIN requests /\ j + 1 \in DOMAIN requests
        /\ requests[i + 1] = requests[j + 1]
    BY <1>1, <1>4
  <2>2. i + 1 = j + 1
    BY <2>1
  <2> QED
    BY <2>1, <2>2
<1>5. ASSUME NEW k \in Asked'
      PROVE  k \in Asked \ {Head(requests)}
  <2>1. PICK i \in DOMAIN requests' : k = requests'[i]
    BY <1>5 DEF Asked
  <2>2. i \in Int /\ i + 1 \in DOMAIN requests /\ 1 \in DOMAIN requests /\ k = requests[i + 1] /\ i + 1 # 1
    BY <1>1, <2>1
  <2> QED
    BY <1>1, <2>2 DEF Asked
<1>6. ASSUME NEW k \in Asked \ {Head(requests)}
      PROVE  k \in Asked'
  <2>1. PICK i \in DOMAIN requests : k = requests[i]
    BY <1>6 DEF Asked
  <2>2. i # 1 /\ i - 1 \in DOMAIN requests' /\ k = requests'[i - 1]
    BY <1>1, <1>6, <2>1
  <2> QED
    BY <2>2 DEF Asked
<1> QED
  BY <1>1, <1>2, <1>3, <1>4, <1>5, <1>6

\* The goal of one job changes.
LEMMA OneGoal ==
  ASSUME Shapes, NEW k \in JobId, NEW g \in Goal, goal' = [goal EXCEPT ![k] = g], UNCHANGED job
  PROVE  /\ JobId' = JobId /\ goal' \in [JobId' -> Goal] /\ goal'[k] = g
         /\ \A j \in JobId : j # k => goal'[j] = goal[j]
BY DEF Shapes, JobId

----------------------------------------------------------------------------
(* The steps.                                                                *)

\* Nothing of task_manager and Nav2 changes.
LEMMA Untouched == DInv /\ UNCHANGED <<managerVars, navVars>> => DInv'
BY DEF DInv, managerVars, navVars, Shapes, JobId, IdleOrBusy, NoGoalYet, Free, Asked, AskedOnce,
       DrivesKnown, AcceptedRuns, LegAsked

\* A task is queued: nobody has heard of its number.
LEMMA EnqueueSteps ==
  ASSUME DInv, NEW t, NEW c, Enqueue(t, c)
  PROVE  DInv'
<1> USE DEF DInv
<1>1. /\ job' = Append(job, [id |-> t, carrying |-> c]) /\ goal' = Append(goal, NoGoal)
      /\ queue' = queue \union {Len(job) + 1}
      /\ UNCHANGED <<cur, state, handle, requests, driving, stopping>>
  BY DEF Enqueue
<1> DEFINE n == Len(job) + 1
<1>2. /\ \E S : job' \in Seq(S)
      /\ Len(job) \in Nat /\ Len(job') = Len(job) + 1 /\ JobId \subseteq JobId'
      /\ n \in JobId' /\ n \notin JobId
      /\ goal' \in [JobId' -> Goal] /\ goal'[n] = NoGoal
      /\ \A k \in JobId : goal'[k] = goal[k]
      /\ \A k \in JobId' : k \in JobId \/ k = n
  BY <1>1, OneMore
<1>3. n # 0 /\ cur # n /\ driving # n
  BY <1>2 DEF Shapes
<1>4. Asked' = Asked /\ Asked \subseteq JobId
  BY <1>1 DEF Asked, Shapes
<1> HIDE DEF n
<1>5. Shapes'
  <2>1. requests \in Seq(JobId')
    BY <1>2 DEF Shapes
  <2>2. queue' \subseteq JobId' /\ n = Len(job) + 1
    BY <1>1, <1>2 DEF Shapes, n
  <2> QED
    BY <1>1, <1>2, <2>1, <2>2 DEF Shapes
<1>6. IdleOrBusy'
  BY <1>1, <1>3 DEF IdleOrBusy, n
<1>7. NoGoalYet'
  <2>1. ASSUME NEW k \in queue' PROVE Free(k)'
    BY <1>1, <1>2, <1>3, <1>4 DEF NoGoalYet, Free, Shapes, n
  <2>2. ASSUME state' \in DwellStates PROVE Free(cur)'
    <3>1. state \in DwellStates /\ cur \in JobId
      BY <1>1, <2>2 DEF IdleOrBusy, Shapes, DwellStates
    <3> QED
      BY <1>1, <1>2, <1>4, <3>1 DEF NoGoalYet, Free
  <2> QED
    BY <2>1, <2>2 DEF NoGoalYet
<1>8. AskedOnce'
  BY <1>1, <1>2, <1>4 DEF AskedOnce
<1>9. DrivesKnown'
  BY <1>1, <1>2 DEF DrivesKnown, Shapes
<1>10. AcceptedRuns'
  BY <1>1, <1>2 DEF AcceptedRuns, NoGoal
<1>11. LegAsked'
  <2> SUFFICES ASSUME state' \in NavStates PROVE (cur \in Asked \/ goal[cur].ans # "none")'
    BY DEF LegAsked
  <2>1. cur \in JobId /\ state \in NavStates
    BY <1>1 DEF Shapes, IdleOrBusy, NavStates
  <2> QED
    BY <1>1, <1>2, <1>4, <2>1 DEF LegAsked
<1> QED
  BY <1>5, <1>6, <1>7, <1>8, <1>9, <1>10, <1>11

\* The current task ends and the goals stay: one that is driven will be stopped.
LEMMA EndSteps ==
  ASSUME DInv, NEW final, NEW q, q \subseteq queue, EndTask(cur, final, q),
         UNCHANGED <<goal, requests, driving>>, stopping' \subseteq JobId, stopping \subseteq stopping',
         driving # 0 => driving # cur \/ goal[driving].ans = "accepted" \/ driving \in stopping'
  PROVE  DInv'
<1> USE DEF DInv
<1>1. /\ cur' = 0 /\ state' = "IDLE" /\ handle' = FALSE /\ queue' = q /\ UNCHANGED job
      /\ JobId' = JobId /\ Asked' = Asked
  BY DEF EndTask, JobId, Asked
<1>2. Shapes'
  BY <1>1 DEF Shapes
<1>3. IdleOrBusy'
  <2>1. 0 \notin JobId
    BY DEF JobId
  <2> QED
    BY <1>1, <2>1 DEF IdleOrBusy, Shapes
<1>4. NoGoalYet'
  BY <1>1 DEF NoGoalYet, Free, DwellStates
<1>5. AskedOnce'
  BY <1>1 DEF AskedOnce
<1>6. DrivesKnown'
  BY <1>1 DEF DrivesKnown
<1>7. AcceptedRuns' /\ LegAsked'
  BY <1>1 DEF AcceptedRuns, LegAsked, NavStates
<1> QED
  BY <1>2, <1>3, <1>4, <1>5, <1>6, <1>7

\* A drive starts, for a task without a goal anywhere while none is driven for the
\* machine; or Nav2 is gone and the task fails.
LEMMA StartSteps ==
  ASSUME DInv, NEW k \in JobId, Free(k), NEW leg \in NavStates, NEW q, q \subseteq queue, k \notin q,
         driving # 0 => driving # cur, StartNav(k, leg, q)
  PROVE  DInv'
<1> USE DEF DInv
<1>1. CASE NavStarted(k, leg, q)
  <2>1. /\ cur' = k /\ state' = leg /\ handle' = FALSE /\ queue' = q
        /\ goal' = [goal EXCEPT ![k] = NoGoal] /\ requests' = Append(requests, k)
        /\ UNCHANGED <<job, driving, stopping>>
    BY <1>1 DEF NavStarted
  <2>2. NoGoal \in Goal /\ JobId' = JobId
    BY <2>1 DEF NoGoal, Goal, JobId
  <2>3. goal' = goal
    BY <2>1 DEF Free, Shapes
  <2>4. /\ requests' \in Seq(JobId') /\ Asked' = Asked \union {k}
        /\ \A i, j \in DOMAIN requests' : requests'[i] = requests'[j] => i = j
    BY <2>1, OneAsked DEF Free, Shapes, AskedOnce
  <2>5. Shapes'
    BY <2>1, <2>2, <2>3, <2>4 DEF Shapes
  <2>6. IdleOrBusy'
    BY <2>1 DEF IdleOrBusy, NavStates, JobId
  <2>7. NoGoalYet'
    BY <2>1, <2>3, <2>4 DEF NoGoalYet, Free, NavStates, DwellStates
  <2>8. AskedOnce'
    BY <2>1, <2>3, <2>4 DEF AskedOnce, Free
  <2>9. DrivesKnown'
    BY <2>1, <2>3 DEF DrivesKnown, Free
  <2>10. AcceptedRuns' /\ LegAsked'
    BY <2>1, <2>2, <2>3, <2>4 DEF AcceptedRuns, LegAsked
  <2> QED
    BY <2>5, <2>6, <2>7, <2>8, <2>9, <2>10
<1>2. CASE NavGone(k, q)
  <2>1. EndTask(k, "FAILED", q) /\ UNCHANGED navVars
    BY <1>2 DEF NavGone
  <2>2. /\ cur' = 0 /\ state' = "IDLE" /\ handle' = FALSE /\ queue' = q /\ UNCHANGED job
        /\ UNCHANGED <<goal, requests, driving, stopping>>
        /\ JobId' = JobId /\ Asked' = Asked
    BY <2>1 DEF EndTask, navVars, JobId, Asked
  <2>3. Shapes' /\ IdleOrBusy'
    BY <2>2 DEF Shapes, IdleOrBusy, JobId
  <2>4. NoGoalYet' /\ AskedOnce'
    BY <2>2 DEF NoGoalYet, Free, DwellStates, AskedOnce
  <2>5. DrivesKnown' /\ AcceptedRuns' /\ LegAsked'
    BY <2>2 DEF DrivesKnown, AcceptedRuns, LegAsked, NavStates
  <2> QED
    BY <2>3, <2>4, <2>5
<1> QED
  BY <1>1, <1>2 DEF StartNav

\* Tasks are cancelled, the current one with its goal if the handle is there.
LEMMA CancelSteps ==
  ASSUME DInv, NEW ts, CancelTasks(ts)
  PROVE  DInv'
<1> USE DEF DInv
<1>1. Kept(ts) \subseteq queue
  BY DEF Kept
<1>2. CASE /\ StopsCurrent(ts) /\ EndTask(cur, "CANCELLED", Kept(ts))
           /\ stopping' = IF handle THEN stopping \union {cur} ELSE stopping
           /\ UNCHANGED <<goal, requests, driving>>
  <2>1. cur \in JobId
    BY <1>2 DEF StopsCurrent, Shapes
  <2>2. stopping' \subseteq JobId /\ stopping \subseteq stopping'
    BY <1>2, <2>1 DEF Shapes
  <2>3. driving # 0 => driving # cur \/ goal[driving].ans = "accepted" \/ driving \in stopping'
    BY <1>2 DEF DrivesKnown
  <2> QED
    BY <1>1, <1>2, <2>2, <2>3, EndSteps
<1>3. CASE queue' = Kept(ts) /\ UNCHANGED <<job, cur, state, handle, navVars>>
  <2>1. Shapes' /\ IdleOrBusy'
    BY <1>1, <1>3 DEF Shapes, IdleOrBusy, JobId, navVars
  <2>2. NoGoalYet' /\ AskedOnce'
    BY <1>1, <1>3 DEF NoGoalYet, Free, AskedOnce, Asked, navVars
  <2>3. DrivesKnown' /\ AcceptedRuns' /\ LegAsked'
    BY <1>3 DEF DrivesKnown, AcceptedRuns, LegAsked, Asked, JobId, navVars
  <2> QED
    BY <2>1, <2>2, <2>3
<1>4. CASE UNCHANGED <<managerVars, navVars>>
  BY <1>4, Untouched
<1> QED
  BY <1>2, <1>3, <1>4 DEF CancelTasks

\* The tick of an idle machine.
LEMMA PopSteps == DInv /\ Pop => DInv'
<1> SUFFICES ASSUME DInv, Pop PROVE DInv'
  OBVIOUS
<1> USE DEF DInv
<1>1. state = "IDLE"
  BY DEF Pop
<1>2. PICK k \in queue : StartNav(k, FirstLeg(k), queue \ {k})
  BY DEF Pop
<1>3. k \in JobId /\ Free(k)
  BY DEF Shapes, NoGoalYet
<1>4. FirstLeg(k) \in NavStates
  BY DEF FirstLeg, NavStates
<1>5. driving # 0 => driving # cur
  BY <1>1 DEF IdleOrBusy
<1> QED
  BY <1>2, <1>3, <1>4, <1>5, StartSteps

\* The tick that finds a dwell over.
LEMMA DwellSteps == DInv /\ DwellOver => DInv'
<1> SUFFICES ASSUME DInv, DwellOver PROVE DInv'
  OBVIOUS
<1> USE DEF DInv
<1>1. state \in DwellStates
  BY DEF DwellOver, DwellStates
<1>2. cur \in JobId /\ Free(cur) /\ cur \notin queue
  BY <1>1 DEF IdleOrBusy, DwellStates, NoGoalYet, Shapes
<1>3. CASE StartNav(cur, "NAV_TO_DROPOFF", queue)
  BY <1>2, <1>3, StartSteps DEF NavStates, Free
<1>4. CASE EndTask(cur, "DONE", queue) /\ UNCHANGED navVars
  <2>1. UNCHANGED <<goal, requests, driving, stopping>>
    BY <1>4 DEF navVars
  <2>2. driving # cur /\ stopping' \subseteq JobId
    BY <1>2, <2>1 DEF Free, Shapes
  <2> QED
    BY <1>4, <2>1, <2>2, EndSteps
<1> QED
  BY <1>3, <1>4 DEF DwellOver

\* Nav2's answer reaches task_manager.
LEMMA ResponseSteps ==
  ASSUME DInv, NEW k \in JobId, OnGoalResponse(k)
  PROVE  DInv'
<1> USE DEF DInv
<1>1. goal[k].ans \in {"accepted", "rejected"} /\ goal[k] # NoGoal
  BY DEF OnGoalResponse, NoGoal
<1>2. k \notin Asked /\ k \notin queue /\ (driving = k => goal[k].ans = "accepted")
  BY <1>1 DEF AskedOnce, NoGoalYet, Free, DrivesKnown, Shapes, JobId
<1>3. Asked' = Asked
  BY DEF OnGoalResponse, StaleResponse, Accepted, Requeued, Refused, Asked
<1>4. NoGoal \in Goal /\ NoGoal.ans = "none" /\ NoGoal.end = "none" /\ k # 0
  BY DEF NoGoal, Goal, JobId
<1>5. CASE StaleResponse(k)
  <2>1. /\ k # cur /\ goal' = [goal EXCEPT ![k] = NoGoal]
        /\ stopping' = IF goal[k].ans = "accepted" THEN stopping \union {k} ELSE stopping
        /\ UNCHANGED <<job, queue, cur, state, handle, requests, driving>>
    BY <1>5 DEF StaleResponse, managerVars
  <2>2. /\ JobId' = JobId /\ goal' \in [JobId' -> Goal] /\ goal'[k] = NoGoal
        /\ \A j \in JobId : j # k => goal'[j] = goal[j]
    BY <1>4, <2>1, OneGoal
  <2>3. Shapes' /\ IdleOrBusy'
    BY <2>1, <2>2 DEF Shapes, IdleOrBusy
  <2>4. NoGoalYet' /\ AskedOnce'
    BY <1>2, <1>3, <2>1, <2>2 DEF NoGoalYet, Free, AskedOnce, Shapes, IdleOrBusy, DwellStates, Asked
  <2>5. DrivesKnown'
    BY <1>2, <1>4, <2>1, <2>2 DEF DrivesKnown, Shapes
  <2>6. AcceptedRuns'
    BY <1>4, <2>1, <2>2 DEF AcceptedRuns
  <2>7. LegAsked'
    BY <1>3, <2>1, <2>2 DEF LegAsked, Shapes, IdleOrBusy, NavStates
  <2> QED
    BY <2>3, <2>4, <2>5, <2>6, <2>7
<1>6. CASE Accepted(k)
  <2> DEFINE g == [goal[k] EXCEPT !.ans = "known"]
  <2>1. /\ k = cur /\ goal[k].ans = "accepted" /\ handle' = TRUE
        /\ goal' = [goal EXCEPT ![k] = g]
        /\ UNCHANGED <<job, queue, cur, state, requests, driving, stopping>>
    BY <1>6 DEF Accepted
  <2>2. g \in Goal /\ g.ans = "known" /\ g.end = goal[k].end
    BY DEF Shapes, Goal
  <2> HIDE DEF g
  <2>3. /\ JobId' = JobId /\ goal' \in [JobId' -> Goal] /\ goal'[k] = g
        /\ \A j \in JobId : j # k => goal'[j] = goal[j]
    BY <2>1, <2>2, OneGoal
  <2>4. Shapes' /\ IdleOrBusy'
    BY <2>1, <2>3 DEF Shapes, IdleOrBusy
  <2>5. NoGoalYet'
    BY <1>1, <1>2, <1>3, <2>1, <2>3 DEF NoGoalYet, Free, Shapes
  <2>6. AskedOnce'
    BY <1>2, <1>3, <2>1, <2>3 DEF AskedOnce, Asked, Shapes
  <2>7. DrivesKnown'
    BY <1>1, <2>1, <2>2, <2>3 DEF DrivesKnown, Shapes
  <2>8. AcceptedRuns'
    BY <2>1, <2>2, <2>3 DEF AcceptedRuns
  <2>9. LegAsked'
    BY <1>3, <2>1, <2>2, <2>3 DEF LegAsked
  <2> QED
    BY <2>4, <2>5, <2>6, <2>7, <2>8, <2>9
<1>7. CASE Requeued(k) \/ Refused(k)
  <2>1. /\ k = cur /\ goal[k].ans = "rejected" /\ cur' = 0 /\ state' = "IDLE"
        /\ queue' \subseteq queue \union {k}
        /\ goal' = [goal EXCEPT ![k] = NoGoal]
        /\ UNCHANGED <<job, requests, driving, stopping>>
    BY <1>7 DEF Requeued, Refused, EndTask
  <2>2. /\ JobId' = JobId /\ goal' \in [JobId' -> Goal] /\ goal'[k] = NoGoal
        /\ \A j \in JobId : j # k => goal'[j] = goal[j]
    BY <1>4, <2>1, OneGoal
  <2>3. driving # k
    BY <1>2, <2>1
  <2>4. Shapes' /\ IdleOrBusy'
    BY <1>4, <2>1, <2>2 DEF Shapes, IdleOrBusy, JobId
  <2>5. NoGoalYet'
    BY <1>2, <1>3, <2>1, <2>2, <2>3 DEF NoGoalYet, Free, Shapes, DwellStates
  <2>6. AskedOnce'
    BY <1>2, <1>3, <2>1, <2>2 DEF AskedOnce, Asked, Shapes
  <2>7. DrivesKnown'
    BY <2>1, <2>2, <2>3 DEF DrivesKnown, Shapes
  <2>8. AcceptedRuns' /\ LegAsked'
    BY <1>3, <1>4, <2>1, <2>2 DEF AcceptedRuns, LegAsked, NavStates
  <2> QED
    BY <2>4, <2>5, <2>6, <2>7, <2>8
<1> QED
  BY <1>5, <1>6, <1>7 DEF OnGoalResponse

\* The end of a goal reaches task_manager.
LEMMA ResultSteps ==
  ASSUME DInv, NEW k \in JobId, OnNavResult(k)
  PROVE  DInv'
<1> USE DEF DInv
<1>1. /\ goal[k].ans = "known" /\ goal[k].end # "none" /\ goal[k] # NoGoal
      /\ goal' = [goal EXCEPT ![k] = NoGoal] /\ UNCHANGED <<requests, driving, stopping>>
  BY DEF OnNavResult, NoGoal
<1>2. k \notin Asked /\ k \notin queue /\ k # 0 /\ driving # k
  BY <1>1 DEF AskedOnce, NoGoalYet, Free, DrivesKnown, JobId
<1>3. NoGoal \in Goal /\ NoGoal.ans = "none" /\ NoGoal.end = "none"
  BY DEF NoGoal, Goal
<1>4. UNCHANGED <<job, queue>> /\ Asked' = Asked
  BY <1>1 DEF OnNavResult, managerVars, Arrived, EndTask, Asked
<1>5. /\ JobId' = JobId /\ goal' \in [JobId' -> Goal] /\ goal'[k] = NoGoal
      /\ \A j \in JobId : j # k => goal'[j] = goal[j]
  BY <1>1, <1>3, <1>4, OneGoal
<1>6. \/ k # cur /\ UNCHANGED <<cur, state, handle>>
      \/ k = cur /\ cur' = cur /\ state' \in DwellStates
      \/ k = cur /\ cur' = 0 /\ state' = "IDLE"
  BY DEF OnNavResult, managerVars, Arrived, EndTask, DwellStates
<1>7. Shapes' /\ IdleOrBusy'
  BY <1>1, <1>2, <1>4, <1>5, <1>6 DEF Shapes, IdleOrBusy, DwellStates, JobId
<1>8. NoGoalYet'
  <2>1. \A j \in queue : Free(j)'
    BY <1>1, <1>2, <1>4, <1>5 DEF NoGoalYet, Free, Shapes
  <2>2. Free(k)'
    BY <1>1, <1>2, <1>4, <1>5 DEF Free
  <2>3. state' \in DwellStates => Free(cur)'
    BY <1>1, <1>4, <1>5, <1>6, <2>2 DEF NoGoalYet, Free, DwellStates, Shapes, IdleOrBusy
  <2> QED
    BY <1>4, <2>1, <2>3 DEF NoGoalYet
<1>9. AskedOnce'
  BY <1>1, <1>2, <1>5 DEF AskedOnce, Asked, Shapes
<1>10. DrivesKnown'
  BY <1>1, <1>2, <1>5, <1>6 DEF DrivesKnown, Shapes
<1>11. AcceptedRuns'
  BY <1>1, <1>3, <1>5 DEF AcceptedRuns
<1>12. LegAsked'
  BY <1>1, <1>4, <1>5, <1>6 DEF LegAsked, Shapes, IdleOrBusy, NavStates, DwellStates
<1> QED
  BY <1>7, <1>8, <1>9, <1>10, <1>11, <1>12

\* Nav2 answers the oldest request: it drops what it executed, or refuses.
LEMMA AnswerSteps == DInv /\ (NavAccept \/ NavReject) => DInv'
<1> SUFFICES ASSUME DInv, NavAccept \/ NavReject PROVE DInv'
  OBVIOUS
<1> USE DEF DInv
<1> DEFINE h == Head(requests)
<1>1. /\ requests # <<>> /\ requests' = Tail(requests)
      /\ UNCHANGED <<job, queue, cur, state, handle, stopping>>
  BY DEF NavAccept, NavReject, managerVars
<1>2. /\ requests' \in Seq(JobId') /\ h \in JobId /\ h \in Asked /\ Asked' = Asked \ {h}
      /\ \A i, j \in DOMAIN requests' : requests'[i] = requests'[j] => i = j
  BY <1>1, OneRead DEF Shapes, AskedOnce
<1> HIDE DEF h
<1>3. /\ goal[h] = NoGoal /\ driving # h /\ 0 \notin JobId /\ h \notin queue /\ JobId' = JobId
      /\ (h = cur => state \notin DwellStates)
  BY <1>1, <1>2 DEF AskedOnce, NoGoalYet, Free, JobId
<1>4. Asked \subseteq JobId
  BY DEF Asked, Shapes
<1>5. CASE NavAccept
  <2> DEFINE mid == Ended(goal, driving, "bad")
  <2>1. /\ mid \in [JobId -> Goal] /\ mid[h] = NoGoal
        /\ \A j \in JobId : mid[j].ans = goal[j].ans /\ (j # driving => mid[j] = goal[j])
        /\ driving # 0 => mid[driving].end # "none"
    BY <1>2, <1>3 DEF Ended, Shapes, Goal
  <2>2. driving' = h /\ goal' = [mid EXCEPT ![h].ans = "accepted"]
    BY <1>5 DEF NavAccept, h
  <2> HIDE DEF mid
  <2>3. /\ goal' \in [JobId' -> Goal] /\ goal'[h].ans = "accepted" /\ goal'[h].end = "none"
        /\ \A j \in JobId : j # h => goal'[j] = mid[j]
    BY <1>2, <1>3, <2>1, <2>2 DEF Goal, NoGoal
  <2>4. Shapes' /\ IdleOrBusy'
    BY <1>1, <1>2, <1>3, <2>2, <2>3 DEF Shapes, IdleOrBusy
  <2>5. NoGoalYet'
    BY <1>1, <1>2, <1>3, <2>1, <2>2, <2>3 DEF NoGoalYet, Free, Shapes, IdleOrBusy, DwellStates
  <2>6. AskedOnce'
    BY <1>2, <1>4, <2>1, <2>2, <2>3 DEF AskedOnce
  <2>7. DrivesKnown'
    <3>1. h = cur => state \in NavStates
      BY <1>2, <1>3 DEF Shapes, IdleOrBusy
    <3> QED
      BY <1>1, <2>2, <2>3, <3>1 DEF DrivesKnown
  <2>8. AcceptedRuns'
    BY <1>3, <2>1, <2>2, <2>3 DEF AcceptedRuns
  <2>9. LegAsked'
    BY <1>1, <1>2, <2>1, <2>3 DEF LegAsked, Shapes, IdleOrBusy, NavStates
  <2> QED
    BY <2>4, <2>5, <2>6, <2>7, <2>8, <2>9
<1>6. CASE NavReject
  <2>1. driving' = driving /\ goal' = [goal EXCEPT ![h].ans = "rejected"]
    BY <1>6 DEF NavReject, h
  <2>2. /\ goal' \in [JobId' -> Goal] /\ goal'[h].ans = "rejected"
        /\ \A j \in JobId : j # h => goal'[j] = goal[j]
    BY <1>2, <1>3, <2>1 DEF Shapes, Goal
  <2>3. Shapes' /\ IdleOrBusy'
    BY <1>1, <1>2, <1>3, <2>1, <2>2 DEF Shapes, IdleOrBusy
  <2>4. NoGoalYet'
    BY <1>1, <1>2, <1>3, <2>1, <2>2 DEF NoGoalYet, Free, Shapes, IdleOrBusy, DwellStates
  <2>5. AskedOnce'
    BY <1>2, <1>4, <2>1, <2>2 DEF AskedOnce
  <2>6. DrivesKnown'
    BY <1>1, <1>3, <2>1, <2>2 DEF DrivesKnown, Shapes
  <2>7. AcceptedRuns'
    BY <1>3, <2>1, <2>2 DEF AcceptedRuns
  <2>8. LegAsked'
    BY <1>1, <1>2, <2>2 DEF LegAsked, Shapes, IdleOrBusy, NavStates
  <2> QED
    BY <2>3, <2>4, <2>5, <2>6, <2>7, <2>8
<1> QED
  BY <1>5, <1>6

\* Nav2 stops to execute a goal, which ends, or forgets a cancellation of another one.
LEMMA StopSteps == DInv /\ (NavFinish \/ \E k \in stopping : NavStop(k)) => DInv'
<1> SUFFICES ASSUME DInv, NavFinish \/ \E k \in stopping : NavStop(k) PROVE DInv'
  OBVIOUS
<1> USE DEF DInv
<1>1. /\ UNCHANGED <<job, queue, cur, state, handle, requests>> /\ JobId' = JobId
      /\ Asked' = Asked /\ 0 \notin JobId
  BY DEF NavFinish, NavStop, managerVars, JobId, Asked
<1>2. CASE UNCHANGED <<goal, driving>> /\ \E k \in stopping : k # driving /\ stopping' = stopping \ {k}
  <2>1. Shapes' /\ IdleOrBusy'
    BY <1>1, <1>2 DEF Shapes, IdleOrBusy
  <2>2. NoGoalYet' /\ AskedOnce'
    BY <1>1, <1>2 DEF NoGoalYet, Free, AskedOnce
  <2>3. DrivesKnown' /\ AcceptedRuns' /\ LegAsked'
    BY <1>1, <1>2 DEF DrivesKnown, AcceptedRuns, LegAsked
  <2> QED
    BY <2>1, <2>2, <2>3
<1>3. ASSUME NEW end \in {"ok", "bad"}, driving # 0, driving' = 0, stopping' \subseteq stopping,
             goal' = Ended(goal, driving, end)
      PROVE  DInv'
  <2>1. /\ driving \in JobId /\ driving \notin Asked /\ driving \notin queue
        /\ (driving = cur => state \notin DwellStates)
    BY <1>3 DEF Shapes, AskedOnce, NoGoalYet, Free
  <2>2. /\ goal' \in [JobId' -> Goal] /\ goal'[driving].end # "none"
        /\ \A j \in JobId : goal'[j].ans = goal[j].ans /\ (j # driving => goal'[j] = goal[j])
    BY <1>1, <1>3, <2>1 DEF Ended, Shapes, Goal
  <2>3. Shapes' /\ IdleOrBusy'
    BY <1>1, <1>3, <2>2 DEF Shapes, IdleOrBusy
  <2>4. NoGoalYet'
    BY <1>1, <1>3, <2>1, <2>2 DEF NoGoalYet, Free, Shapes, IdleOrBusy, DwellStates
  <2>5. AskedOnce'
    BY <1>1, <1>3, <2>1, <2>2 DEF AskedOnce, Asked, Shapes
  <2>6. DrivesKnown' /\ AcceptedRuns'
    BY <1>1, <1>3, <2>2 DEF DrivesKnown, AcceptedRuns
  <2>7. LegAsked'
    BY <1>1, <2>2 DEF LegAsked, Shapes, IdleOrBusy, NavStates
  <2> QED
    BY <2>3, <2>4, <2>5, <2>6, <2>7
<1>4. CASE NavFinish
  BY <1>3, <1>4 DEF NavFinish
<1>5. ASSUME NEW k \in stopping, NavStop(k) PROVE DInv'
  <2>1. k # 0 /\ stopping' = stopping \ {k}
    BY <1>1, <1>5 DEF Shapes, NavStop
  <2>2. CASE driving = k
    BY <1>3, <1>5, <2>1, <2>2 DEF NavStop
  <2>3. CASE driving # k
    BY <1>2, <1>5, <2>1, <2>3 DEF NavStop
  <2> QED
    BY <2>2, <2>3
<1> QED
  BY <1>4, <1>5

----------------------------------------------------------------------------
\* Every step of the robot, its fleet_tasks and its environment keeps the invariant.
LEMMA InvStep == DInv /\ [Next]_vars => DInv'
<1> SUFFICES ASSUME DInv, [Next]_vars PROVE DInv'
  OBVIOUS
<1>1. CASE UNCHANGED vars
  BY <1>1, Untouched DEF vars
<1>2. CASE OnDispatch
  BY <1>2, EnqueueSteps, Untouched DEF OnDispatch
<1>3. CASE OnCancel
  BY <1>3, CancelSteps DEF OnCancel
<1>4. CASE Pop \/ DwellOver
  BY <1>4, PopSteps, DwellSteps
<1>5. ASSUME NEW k \in JobId, OnGoalResponse(k) \/ OnNavResult(k) PROVE DInv'
  BY <1>5, ResponseSteps, ResultSteps
<1>6. CASE NavStep
  BY <1>6, AnswerSteps, StopSteps DEF NavStep
<1>7. CASE PersonStep
  <2>1. ASSUME NEW t, HandDispatch(t) PROVE DInv'
    BY <2>1, EnqueueSteps DEF HandDispatch
  <2>2. ASSUME NEW ts, HandCancel(ts) PROVE DInv'
    BY <2>2, CancelSteps DEF HandCancel
  <2> QED
    BY <1>7, <2>1, <2>2 DEF PersonStep
<1>8. CASE AuctionStep
  <2>1. UNCHANGED <<managerVars, navVars>>
    BY <1>8 DEF AuctionStep, Win, Lose, Withdrawn
  <2> QED
    BY <2>1, Untouched
<1>9. CASE FleetStep
  <2>1. UNCHANGED <<managerVars, navVars>>
    BY <1>9 DEF FleetStep, OnTaskStatus, FleetTick, Restart
  <2> QED
    BY <2>1, Untouched
<1> QED
  BY <1>1, <1>2, <1>3, <1>4, <1>5, <1>6, <1>7, <1>8, <1>9 DEF Next, RobotStep, ManagerStep

\* Nav2 never executes a goal of a task that is over without its cancellation or its
\* answer on the way, and a machine that waits for a drive has one to wait for, however
\* the auction, a person, Nav2 and restarts of fleet_tasks interleave (_on_cancel,
\* _on_goal_response, _on_nav_result and _start_nav of task_manager).
THEOREM NeverDrivesForNobody == Spec => []NoOrphanDrive
<1>1. Init => DInv
  BY InvStarts
<1>2. DInv /\ [Next]_vars => DInv'
  BY InvStep
<1>3. DInv => NoOrphanDrive
  BY InvImplies
<1> QED
  BY <1>1, <1>2, <1>3, PTL DEF Spec

----------------------------------------------------------------------------
(* What fleet_tasks is told, and what it orders.                             *)

\* The list in a status is a list.
Listed(s) == \E S : s.queue \in Seq(S)

\* s tells that the item of task t is on board; that is what the machine does.
Told(s, t) == s.id = t /\ s.st \in OnBoard
OnIt(t) == cur # 0 /\ job[cur].id = t /\ state \in OnBoard
Holds(s) == s.st \in OnBoard => OnIt(s.id)

\* The topics: the last status published is true still.
Topics ==
    /\ \E S : inbox \in Seq(S)
    /\ \E S : status \in Seq(S)
    /\ \E S : latched \in Seq(S)
    /\ \A i \in DOMAIN status : Listed(status[i])
    /\ \A i \in DOMAIN latched : Listed(latched[i]) /\ Holds(latched[i])

Owners == {"unknown", "free", "mine", "committed", "over"}
CoreShape == \E R, C, Y :
    core \in [own : [Fleet -> Owners], retry : R, cancelling : C, synced : Y]

\* Everything the robot has of task t or has been sent of it starts, or goes on, loaded.
AllLoaded(t) ==
    /\ \A k \in HeldFor(t) : job[k].carrying \/ (k = cur /\ state \in OnBoard)
    /\ \A i \in Coming(t, "dispatch") : inbox[i].carrying

\* At most one thing of task t is there, and nothing anywhere says that it is loaded.
OneEmpty(t) ==
    /\ \A j, k \in HeldFor(t) : j = k
    /\ \A i, j \in Coming(t, "dispatch") : i = j
    /\ HeldFor(t) = {} \/ Coming(t, "dispatch") = {}
    /\ \A k \in HeldFor(t) : ~job[k].carrying
    /\ \A i \in Coming(t, "dispatch") : ~inbox[i].carrying
    /\ ~OnIt(t)
    /\ core.own[t] # "committed"
    /\ \A i \in DOMAIN status : ~Told(status[i], t)

CInv == /\ DInv /\ Topics /\ CoreShape
        /\ \A t \in Fleet : AllLoaded(t) \/ OneEmpty(t)

LEMMA CInvImplies == CInv => CarriedToDropoff
BY DEF CInv, AllLoaded, OneEmpty, CarriedToDropoff

\* The waiting tasks are finitely many, and a status lists them.
LEMMA QueueListed ==
  ASSUME NEW n \in Nat, NEW jobs, NEW k, NEW st, NEW q, q \subseteq 1 .. n
  PROVE  Listed(StatusOf(k, st, jobs, q))
<1>1. IsFiniteSet(q)
  <2>1. IsFiniteSet(1 .. n)
    BY FS_Interval
  <2> QED
    BY <2>1, FS_Subset
<1>2. Cardinality(q) \in Nat
  BY <1>1, FS_CardinalityType
<1> DEFINE e == Ids(jobs, q)
           S == {e[i] : i \in 1 .. Cardinality(q)}
<1>3. e \in [1 .. Cardinality(q) -> S]
  BY DEF Ids
<1>4. e \in Seq(S)
  BY <1>2, <1>3, SeqDef
<1>5. StatusOf(k, st, jobs, q).queue = e
  BY DEF StatusOf
<1> QED
  BY <1>4, <1>5 DEF Listed

LEMMA StatusListed ==
  ASSUME Shapes, NEW jobs, NEW k, NEW st, NEW q, q \subseteq JobId
  PROVE  Listed(StatusOf(k, st, jobs, q))
<1>1. Len(job) \in Nat
  BY DEF Shapes
<1> QED
  BY <1>1, QueueListed DEF JobId

\* What is appended comes behind what was there.
Behind(old, new, n, cmds) ==
    /\ \E S : new \in Seq(S)
    /\ Len(old) \in Nat /\ Len(new) = Len(old) + n
    /\ DOMAIN old = 1 .. Len(old) /\ DOMAIN new = 1 .. Len(new)
    /\ \A i \in DOMAIN old : i \in DOMAIN new /\ new[i] = old[i]
    /\ \A i \in DOMAIN new : i \notin DOMAIN old => \E j \in 1 .. n : new[i] = cmds[j]

LEMMA Sent ==
  ASSUME \E S : inbox \in Seq(S), NEW n \in Nat, NEW cmds, cmds = [i \in 1 .. n |-> cmds[i]],
         Send(cmds)
  PROVE  Behind(inbox, inbox', n, cmds)
<1>1. PICK S : inbox \in Seq(S)
  OBVIOUS
<1> DEFINE T == {cmds[i] : i \in 1 .. n}
<1>2. cmds \in [1 .. n -> T]
  OBVIOUS
<1>3. cmds \in Seq(T) /\ Len(cmds) = n
  BY <1>2, SeqDef, LenProperties
<1> HIDE DEF T
<1>4. inbox \in Seq(S \union T) /\ cmds \in Seq(S \union T)
  BY <1>1, <1>3
<1>5. /\ inbox' \in Seq(S \union T) /\ Len(inbox') = Len(inbox) + n
      /\ \A i \in 1 .. Len(inbox) + n :
            inbox'[i] = IF i <= Len(inbox) THEN inbox[i] ELSE cmds[i - Len(inbox)]
  BY <1>3, <1>4, ConcatProperties DEF Send
<1>6. Len(inbox) \in Nat /\ DOMAIN inbox = 1 .. Len(inbox) /\ DOMAIN inbox' = 1 .. Len(inbox')
  BY <1>4, <1>5, LenProperties
<1>7. ASSUME NEW i \in DOMAIN inbox', i \notin DOMAIN inbox
      PROVE  \E j \in 1 .. n : inbox'[i] = cmds[j]
  <2>1. i \in Int /\ i > Len(inbox) /\ i - Len(inbox) \in 1 .. n
    BY <1>5, <1>6, <1>7
  <2>2. i \in 1 .. Len(inbox) + n /\ ~(i <= Len(inbox))
    BY <1>5, <1>6, <1>7, <2>1
  <2>3. inbox'[i] = cmds[i - Len(inbox)]
    BY <1>5, <2>2
  <2> QED
    BY <2>1, <2>3
<1>8. \A i \in DOMAIN inbox : i \in DOMAIN inbox' /\ inbox'[i] = inbox[i]
  <2> TAKE i \in DOMAIN inbox
  <2>1. i \in 1 .. Len(inbox) + n /\ i <= Len(inbox)
    BY <1>6
  <2>2. inbox'[i] = inbox[i]
    BY <1>5, <2>1
  <2> QED
    BY <1>5, <1>6, <2>1, <2>2
<1>9. /\ \E R : inbox' \in Seq(R)
      /\ Len(inbox') = Len(inbox) + n
  BY <1>5
<1> QED
  BY <1>6, <1>7, <1>8, <1>9 DEF Behind

\* The first command is read.
LEMMA CommandRead ==
  ASSUME \E S : inbox \in Seq(S), inbox # <<>>, inbox' = Tail(inbox)
  PROVE  /\ \E S : inbox' \in Seq(S)
         /\ 1 \in DOMAIN inbox /\ Head(inbox) = inbox[1]
         /\ \A i \in DOMAIN inbox' : /\ i \in Nat /\ i > 0 /\ i + 1 \in DOMAIN inbox
                                     /\ inbox'[i] = inbox[i + 1]
BY HeadTailProperties, LenProperties

\* A status published in this step, which holds after it; and what a reader finds then.
Fresh(s) ==
    /\ Listed(s)
    /\ s.st \in OnBoard => cur' # 0 /\ job'[cur'].id = s.id /\ state' \in OnBoard
NewsOrOld ==
    /\ \E S : status' \in Seq(S)
    /\ \E S : latched' \in Seq(S)
    /\ \A i \in DOMAIN status' :
          (\E j \in DOMAIN status : status'[i] = status[j]) \/ Fresh(status'[i])
    /\ \A i \in DOMAIN latched' : Fresh(latched'[i])

LEMMA Published ==
  ASSUME Topics, NEW T, NEW ss \in Seq(T), ss # <<>>, Publish(ss),
         \A j \in DOMAIN ss : Fresh(ss[j])
  PROVE  NewsOrOld
<1>1. PICK S : status \in Seq(S)
  BY DEF Topics
<1> DEFINE all == status \o ss
<1>2. status \in Seq(S \union T) /\ ss \in Seq(S \union T)
  BY <1>1
<1>3. /\ all \in Seq(S \union T) /\ Len(all) = Len(status) + Len(ss)
      /\ \A i \in 1 .. Len(status) + Len(ss) :
            all[i] = IF i <= Len(status) THEN status[i] ELSE ss[i - Len(status)]
  BY <1>2, ConcatProperties
<1>4. /\ Len(status) \in Nat /\ DOMAIN status = 1 .. Len(status)
      /\ Len(ss) \in Nat /\ DOMAIN ss = 1 .. Len(ss)
      /\ Len(all) \in Nat /\ DOMAIN all = 1 .. Len(all)
  BY <1>2, <1>3, LenProperties
<1>5. status' \in Unread(all) /\ latched' = <<Last(ss)>>
  BY DEF Publish
<1> HIDE DEF all
<1>6. \A i \in DOMAIN all : (\E j \in DOMAIN status : all[i] = status[j]) \/ Fresh(all[i])
  <2> TAKE i \in DOMAIN all
  <2>1. CASE i <= Len(status)
    BY <1>3, <1>4, <2>1
  <2>2. CASE i > Len(status)
    <3>1. i - Len(status) \in DOMAIN ss /\ all[i] = ss[i - Len(status)]
      BY <1>3, <1>4, <2>2
    <3> QED
      BY <3>1
  <2> QED
    BY <1>4, <2>1, <2>2
<1> DEFINE P == /\ status' \in Seq(S \union T)
                /\ \A i \in DOMAIN status' : \E j \in DOMAIN all : status'[i] = all[j]
<1>7. P
  <2>1. CASE status' = all
    BY <1>3, <2>1
  <2>2. ASSUME NEW m \in 1 .. Len(all) - StatusDepth + 1, status' = SubSeq(all, m, Len(all))
        PROVE  P
    <3>1. m \in Int /\ m >= 1 /\ StatusDepth \in Nat /\ StatusDepth >= 1
      BY <1>4, DepthAssumption
    <3>2. \A i \in m .. Len(all) : i \in DOMAIN all /\ all[i] \in S \union T
      BY <1>3, <1>4, <3>1
    <3>3. /\ status' \in Seq(S \union T)
          /\ Len(status') = IF m <= Len(all) THEN Len(all) - m + 1 ELSE 0
          /\ \A i \in 1 .. Len(all) - m + 1 : status'[i] = all[m + i - 1]
      BY <1>4, <2>2, <3>1, <3>2, SubSeqProperties
    <3>4. DOMAIN status' = 1 .. Len(status')
      BY <3>3, LenProperties
    <3>5. ASSUME NEW i \in DOMAIN status' PROVE \E j \in DOMAIN all : status'[i] = all[j]
      <4>1. i \in 1 .. Len(all) - m + 1 /\ m + i - 1 \in m .. Len(all)
        BY <1>4, <3>1, <3>3, <3>4
      <4> QED
        BY <3>2, <3>3, <4>1
    <3> QED
      BY <3>3, <3>5
  <2>3. status' = all \/ \E m \in 1 .. Len(all) - StatusDepth + 1 : status' = SubSeq(all, m, Len(all))
    BY <1>5 DEF Unread
  <2> HIDE DEF P
  <2> QED
    BY <2>1, <2>2, <2>3
<1>8. \A i \in DOMAIN status' : (\E j \in DOMAIN status : status'[i] = status[j]) \/ Fresh(status'[i])
  BY <1>6, <1>7
<1>9. Last(ss) = ss[Len(ss)] /\ Len(ss) \in DOMAIN ss
  BY <1>4 DEF Last
<1>10. latched' \in Seq({Last(ss)}) /\ \A i \in DOMAIN latched' : Fresh(latched'[i])
  BY <1>5, <1>9
<1> QED
  BY <1>7, <1>8, <1>10 DEF NewsOrOld

\* One status is published, that of the machine after the step or one that ends a drive.
LEMMA PublishedOne ==
  ASSUME Topics, NEW s, Publish(<<s>>), Fresh(s)
  PROVE  NewsOrOld
<1>1. <<s>> \in Seq({s}) /\ <<s>> # <<>> /\ \A j \in DOMAIN <<s>> : <<s>>[j] = s
  OBVIOUS
<1> QED
  BY <1>1, Published

\* A task ends: its final status, and IDLE.
LEMMA PublishedEnd ==
  ASSUME Topics, Shapes, NEW k, NEW final \in Finals, NEW q, q \subseteq JobId, EndTask(k, final, q)
  PROVE  NewsOrOld
<1> DEFINE s == StatusOf(k, final, job, q)
           e == StatusOf(0, "IDLE", job, q)
<1>1. Listed(s) /\ Listed(e)
  BY StatusListed
<1>2. s.st = final /\ e.st = "IDLE"
  BY DEF StatusOf
<1>3. Publish(<<s, e>>)
  BY DEF EndTask
<1> HIDE DEF s, e
<1>4. Fresh(s) /\ Fresh(e)
  BY <1>1, <1>2 DEF Fresh, Finals, OnBoard
<1>5. /\ <<s, e>> \in Seq({s, e}) /\ <<s, e>> # <<>>
      /\ \A j \in DOMAIN <<s, e>> : <<s, e>>[j] = s \/ <<s, e>>[j] = e
  OBVIOUS
<1>6. \A j \in DOMAIN <<s, e>> : Fresh(<<s, e>>[j])
  BY <1>4, <1>5
<1> HIDE DEF Fresh
<1> QED
  BY <1>3, <1>5, <1>6, Published

----------------------------------------------------------------------------
\* The tasks the robot holds become no more, and what is on board stays there while
\* it is held; nothing new is ordered.
LEMMA HeldKeeps ==
  ASSUME CInv, DInv', UNCHANGED <<job, core>>, Held' \subseteq Held,
         inbox' = inbox \/ (inbox # <<>> /\ inbox' = Tail(inbox)),
         UNCHANGED <<status, latched, cur, state>> \/ NewsOrOld,
         cur \in Held' /\ cur # 0 /\ state \in OnBoard => cur' = cur /\ state' \in OnBoard
  PROVE  CInv'
<1> USE DEF CInv
<1>1. /\ \E S : inbox' \in Seq(S)
      /\ \E d \in {0, 1} : \A i \in DOMAIN inbox' :
            i \in Nat /\ i + d \in DOMAIN inbox /\ inbox'[i] = inbox[i + d]
  <2>1. CASE inbox' = inbox
    <3>1. PICK S : inbox \in Seq(S)
      BY DEF Topics
    <3>2. \A i \in DOMAIN inbox' : i \in Nat /\ i + 0 \in DOMAIN inbox /\ inbox'[i] = inbox[i + 0]
      BY <2>1, <3>1, LenProperties
    <3> QED
      BY <2>1, <3>1, <3>2
  <2>2. CASE inbox # <<>> /\ inbox' = Tail(inbox)
    <3>1. /\ \E S : inbox' \in Seq(S)
          /\ \A i \in DOMAIN inbox' : i \in Nat /\ i + 1 \in DOMAIN inbox /\ inbox'[i] = inbox[i + 1]
      BY <2>2, CommandRead DEF Topics
    <3> QED
      BY <3>1
  <2> QED
    BY <2>1, <2>2
<1>2. PICK d \in {0, 1} : \A i \in DOMAIN inbox' :
            i \in Nat /\ i + d \in DOMAIN inbox /\ inbox'[i] = inbox[i + d]
  BY <1>1
<1>3. \A t : /\ HeldFor(t)' \subseteq HeldFor(t)
             /\ \A i \in Coming(t, "dispatch")' :
                   i \in Nat /\ i + d \in Coming(t, "dispatch") /\ inbox'[i] = inbox[i + d]
  BY <1>2 DEF HeldFor, Coming
<1>4. /\ \E S : status' \in Seq(S)
      /\ \E S : latched' \in Seq(S)
      /\ \A i \in DOMAIN status' :
            (\E j \in DOMAIN status : status'[i] = status[j]) \/ Fresh(status'[i])
      /\ \A i \in DOMAIN latched' : Listed(latched'[i]) /\ Holds(latched[i])'
  <2>1. CASE UNCHANGED <<status, latched, cur, state>>
    BY <2>1 DEF Topics, Holds, OnIt
  <2>2. CASE NewsOrOld
    BY <2>2 DEF NewsOrOld, Fresh, Holds, OnIt
  <2> QED
    BY <2>1, <2>2
<1>5. Topics'
  BY <1>1, <1>4 DEF Topics, Listed, Fresh
<1>6. CoreShape'
  BY DEF CoreShape
<1>7. ASSUME NEW t \in Fleet PROVE (AllLoaded(t) \/ OneEmpty(t))'
  <2>1. CASE AllLoaded(t)
    <3>1. ASSUME NEW k \in HeldFor(t)' PROVE job'[k].carrying \/ (k = cur' /\ state' \in OnBoard)
      <4>1. k \in HeldFor(t) /\ k \in Held'
        BY <1>3 DEF HeldFor
      <4>2. k \in Held /\ 0 \notin queue
        BY <4>1 DEF HeldFor, DInv, Shapes, JobId
      <4>3. k # 0
        BY <4>2 DEF Held
      <4> QED
        BY <2>1, <4>1, <4>3 DEF AllLoaded
    <3>2. \A i \in Coming(t, "dispatch")' : inbox'[i].carrying
      BY <1>3, <2>1 DEF AllLoaded
    <3> QED
      BY <3>1, <3>2 DEF AllLoaded
  <2>2. CASE OneEmpty(t) /\ OnIt(t)'
    <3>1. cur' \in HeldFor(t)'
      BY <2>2 DEF OnIt, HeldFor, Held
    <3>2. \A k \in HeldFor(t)' : k = cur'
      BY <1>3, <2>2, <3>1 DEF OneEmpty
    <3>3. Coming(t, "dispatch")' = {}
      BY <1>3, <2>2, <3>1 DEF OneEmpty
    <3> QED
      BY <2>2, <3>2, <3>3 DEF AllLoaded, OnIt
  <2>3. CASE OneEmpty(t) /\ ~OnIt(t)'
    <3>1. \A i \in DOMAIN status' : ~Told(status'[i], t)
      BY <1>4, <2>3 DEF OneEmpty, Told, Fresh, OnIt
    <3>2. /\ \A j, k \in HeldFor(t)' : j = k
          /\ HeldFor(t)' = {} \/ Coming(t, "dispatch")' = {}
          /\ \A k \in HeldFor(t)' : ~job'[k].carrying
          /\ \A i \in Coming(t, "dispatch")' : ~inbox'[i].carrying
      BY <1>3, <2>3 DEF OneEmpty
    <3>3. \A i, j \in Coming(t, "dispatch")' : i = j
      <4> TAKE i, j \in Coming(t, "dispatch")'
      <4>1. i + d = j + d /\ i \in Nat /\ j \in Nat /\ d \in Int
        BY <1>3, <2>3 DEF OneEmpty
      <4> QED
        BY <4>1
    <3>4. core'.own[t] # "committed"
      BY <2>3 DEF OneEmpty
    <3> QED
      BY <2>3, <3>1, <3>2, <3>3, <3>4 DEF OneEmpty
  <2> QED
    BY <2>1, <2>2, <2>3
<1> QED
  BY <1>5, <1>6, <1>7

\* The current task ends with a status.
LEMMA EndKeeps ==
  ASSUME CInv, DInv', NEW k, NEW final \in Finals, NEW q, q \subseteq queue, EndTask(k, final, q),
         UNCHANGED core, inbox' = inbox \/ (inbox # <<>> /\ inbox' = Tail(inbox))
  PROVE  CInv'
<1> USE DEF CInv
<1>1. q \subseteq JobId
  BY DEF DInv, Shapes
<1>2. NewsOrOld
  BY <1>1, PublishedEnd DEF DInv
<1>3. cur' = 0 /\ queue' = q /\ UNCHANGED job
  BY DEF EndTask
<1>4. Held' \subseteq Held /\ cur \notin Held' \ {0}
  BY <1>3 DEF Held, DInv, IdleOrBusy
<1> QED
  BY <1>2, <1>3, <1>4, HeldKeeps

\* A drive starts, for a task that waits or dwells.
LEMMA StartKeeps ==
  ASSUME CInv, DInv', NEW k \in Held, NEW leg \in NavStates, NEW q, q \subseteq queue,
         cur # 0 => cur = k /\ leg \in OnBoard,
         StartNav(k, leg, q), UNCHANGED <<core, inbox>>
  PROVE  CInv'
<1> USE DEF CInv
<1>1. CASE NavStarted(k, leg, q)
  <2>1. /\ Publish(<<StatusOf(k, leg, job, q)>>)
        /\ cur' = k /\ state' = leg /\ queue' = q /\ UNCHANGED job
    BY <1>1 DEF NavStarted
  <2>2. q \subseteq JobId
    BY DEF DInv, Shapes
  <2>3. Listed(StatusOf(k, leg, job, q))
    BY <2>2, StatusListed DEF DInv
  <2>4. k # 0
    <3>1. 0 \notin queue
      BY DEF DInv, Shapes, JobId
    <3> QED
      BY <3>1 DEF Held
  <2>5. StatusOf(k, leg, job, q).id = job[k].id /\ StatusOf(k, leg, job, q).st = leg
    BY <2>4 DEF StatusOf
  <2>6. NewsOrOld
    BY <2>1, <2>3, <2>4, <2>5, PublishedOne DEF Fresh
  <2>7. Held' \subseteq Held
    BY <2>1 DEF Held
  <2> QED
    BY <2>1, <2>6, <2>7, HeldKeeps
<1>2. CASE NavGone(k, q)
  <2>1. EndTask(k, "FAILED", q)
    BY <1>2 DEF NavGone
  <2> QED
    BY <2>1, EndKeeps DEF Finals
<1> QED
  BY <1>1, <1>2 DEF StartNav

\* Tasks are cancelled.
LEMMA CancelKeeps ==
  ASSUME CInv, DInv', NEW ts, CancelTasks(ts),
         UNCHANGED core, inbox' = inbox \/ (inbox # <<>> /\ inbox' = Tail(inbox))
  PROVE  CInv'
<1> USE DEF CInv
<1>1. Kept(ts) \subseteq queue
  BY DEF Kept
<1>2. CASE EndTask(cur, "CANCELLED", Kept(ts))
  BY <1>1, <1>2, EndKeeps DEF Finals
<1>3. CASE /\ queue' = Kept(ts) /\ Publish(<<StatusOf(cur, state, job, Kept(ts))>>)
           /\ UNCHANGED <<job, cur, state>>
  <2>1. Kept(ts) \subseteq JobId
    BY <1>1 DEF DInv, Shapes
  <2>2. Listed(StatusOf(cur, state, job, Kept(ts)))
    BY <2>1, StatusListed DEF DInv
  <2>3. Fresh(StatusOf(cur, state, job, Kept(ts)))
    <3>1. state \in OnBoard => cur # 0
      BY DEF DInv, IdleOrBusy, OnBoard
    <3> QED
      BY <1>3, <2>2, <3>1 DEF Fresh, StatusOf
  <2>4. NewsOrOld
    BY <1>3, <2>3, PublishedOne
  <2>5. Held' \subseteq Held
    BY <1>1, <1>3 DEF Held
  <2> QED
    BY <1>3, <2>4, <2>5, HeldKeeps
<1>4. CASE UNCHANGED <<managerVars, statusVars>>
  BY <1>4, HeldKeeps DEF managerVars, statusVars, Held
<1> QED
  BY <1>2, <1>3, <1>4 DEF CancelTasks, navVars

\* A task is queued: a person's, which is nobody's business here, or the one that the
\* first command dispatches.
LEMMA EnqueueKeeps ==
  ASSUME CInv, DInv', NEW t0, NEW c, Enqueue(t0, c), UNCHANGED core,
         \/ inbox' = inbox /\ t0 \in Hand
         \/ /\ inbox # <<>> /\ inbox' = Tail(inbox)
            /\ Head(inbox).cmd = "dispatch" /\ t0 = Head(inbox).id /\ c = Head(inbox).carrying
  PROVE  CInv'
<1> USE DEF CInv
<1> DEFINE n == Len(job) + 1
           x == [id |-> t0, carrying |-> c]
<1>1. /\ job' = Append(job, x) /\ goal' = Append(goal, NoGoal)
      /\ queue' = queue \union {n} /\ UNCHANGED <<cur, state>>
      /\ Publish(<<StatusOf(cur, state, job', queue')>>)
  BY DEF Enqueue
<1>2. /\ \E S : job' \in Seq(S)
      /\ n \in JobId' /\ n \notin JobId /\ Len(job') = n /\ Len(job) \in Nat
  BY <1>1, OneMore DEF DInv
<1>3. job'[n] = x /\ \A k \in JobId : job'[k] = job[k]
  <2>1. PICK S : job \in Seq(S)
    BY DEF DInv, Shapes
  <2>2. job \in Seq(S \union {x})
    BY <2>1
  <2> QED
    BY <1>1, <2>2, AppendProperties DEF JobId
<1>4. x.id = t0 /\ x.carrying = c
  OBVIOUS
<1> HIDE DEF x
<1>5. Held \subseteq JobId /\ Held' = Held \union {n} /\ n # 0 /\ cur # n
  BY <1>1, <1>2 DEF Held, DInv, Shapes
<1>6. NewsOrOld
  <2>1. n \in Nat /\ queue' \subseteq 1 .. n
    BY <1>2 DEF DInv, Shapes, JobId
  <2>2. Listed(StatusOf(cur, state, job', queue'))
    BY <2>1, QueueListed
  <2>3. state \in OnBoard => cur # 0
    BY DEF DInv, IdleOrBusy, OnBoard
  <2>4. Fresh(StatusOf(cur, state, job', queue'))
    BY <1>1, <2>2, <2>3 DEF Fresh, StatusOf
  <2> QED
    BY <1>1, <2>4, PublishedOne
<1> HIDE DEF n
<1>7. \A t : OnIt(t)' <=> OnIt(t)
  BY <1>1, <1>3 DEF OnIt, DInv, Shapes
<1>8. /\ \E S : inbox' \in Seq(S)
      /\ \A i \in DOMAIN inbox' : \E j \in DOMAIN inbox : inbox'[i] = inbox[j]
  BY CommandRead DEF Topics
<1>9. Topics' /\ CoreShape'
  <2>1. \A i \in DOMAIN latched' : Listed(latched'[i]) /\ Holds(latched[i])'
    BY <1>6 DEF NewsOrOld, Fresh, Holds, OnIt
  <2>2. Topics'
    BY <1>6, <1>8, <2>1 DEF Topics, NewsOrOld, Fresh, Listed
  <2> QED
    BY <2>2 DEF CoreShape
<1>10. ASSUME NEW t \in Fleet PROVE (AllLoaded(t) \/ OneEmpty(t))'
  <2>1. \A k \in HeldFor(t)' : \/ k \in HeldFor(t) /\ job'[k] = job[k]
                               \/ k = n /\ t = t0 /\ job'[k].carrying = c
    BY <1>3, <1>4, <1>5 DEF HeldFor
  <2>2. \A i \in DOMAIN status' : Told(status'[i], t) =>
           (\E j \in DOMAIN status : Told(status[j], t)) \/ OnIt(t)
    BY <1>6, <1>7 DEF NewsOrOld, Fresh, Told, OnIt
  <2>3. CASE inbox' = inbox /\ t0 \in Hand
    <3>1. t # t0
      BY <2>3, IdAssumption
    <3>2. HeldFor(t)' \subseteq HeldFor(t) /\ \A k \in HeldFor(t)' : job'[k] = job[k]
      BY <2>1, <3>1
    <3>3. Coming(t, "dispatch")' = Coming(t, "dispatch")
      BY <2>3 DEF Coming
    <3>4. AllLoaded(t) => AllLoaded(t)'
      BY <1>1, <2>3, <3>2, <3>3 DEF AllLoaded
    <3>5. OneEmpty(t) => OneEmpty(t)'
      BY <1>7, <2>2, <2>3, <3>2, <3>3 DEF OneEmpty
    <3> QED
      BY <3>4, <3>5
  <2>4. CASE /\ inbox # <<>> /\ inbox' = Tail(inbox)
             /\ Head(inbox).cmd = "dispatch" /\ t0 = Head(inbox).id /\ c = Head(inbox).carrying
    <3>1. /\ 1 \in DOMAIN inbox /\ Head(inbox) = inbox[1]
          /\ \A i \in DOMAIN inbox' : /\ i \in Nat /\ i > 0 /\ i + 1 \in DOMAIN inbox
                                      /\ inbox'[i] = inbox[i + 1]
      BY <2>4, CommandRead DEF Topics
    <3>2. \A i \in Coming(t, "dispatch")' : /\ i \in Nat /\ i > 0 /\ i + 1 \in Coming(t, "dispatch")
                                            /\ inbox'[i] = inbox[i + 1]
      BY <3>1 DEF Coming
    <3>3. t = t0 => 1 \in Coming(t, "dispatch") /\ inbox[1].carrying = c
      BY <2>4, <3>1 DEF Coming
    <3>4. ASSUME AllLoaded(t) PROVE AllLoaded(t)'
      BY <1>1, <2>1, <3>2, <3>3, <3>4 DEF AllLoaded
    <3>5. CASE OneEmpty(t) /\ t # t0
      <4>1. HeldFor(t)' \subseteq HeldFor(t) /\ \A k \in HeldFor(t)' : job'[k] = job[k]
        BY <2>1, <3>5
      <4>2. \A i, j \in Coming(t, "dispatch")' : i = j
        <5> TAKE i, j \in Coming(t, "dispatch")'
        <5>1. i + 1 = j + 1 /\ i \in Nat /\ j \in Nat
          BY <3>2, <3>5 DEF OneEmpty
        <5> QED
          BY <5>1
      <4> QED
        BY <1>7, <2>2, <3>2, <3>5, <4>1, <4>2 DEF OneEmpty
    <3>6. CASE OneEmpty(t) /\ t = t0
      <4>1. HeldFor(t) = {} /\ ~c
        BY <3>3, <3>6 DEF OneEmpty
      <4>2. \A k \in HeldFor(t)' : k = n /\ ~job'[k].carrying
        BY <2>1, <4>1
      <4>3. Coming(t, "dispatch")' = {}
        <5>1. ASSUME NEW i \in Coming(t, "dispatch")' PROVE FALSE
          <6>1. i + 1 = 1 /\ i \in Nat /\ i > 0
            BY <3>2, <3>3, <3>6 DEF OneEmpty
          <6> QED
            BY <6>1
        <5> QED
          BY <5>1
      <4> QED
        BY <1>7, <2>2, <3>6, <4>2, <4>3 DEF OneEmpty
    <3> QED
      BY <3>4, <3>5, <3>6
  <2> QED
    BY <2>3, <2>4
<1> QED
  BY <1>9, <1>10

\* The handlers of task_manager.
LEMMA DispatchKeeps ==
  ASSUME CInv, DInv', OnDispatch, UNCHANGED core
  PROVE  CInv'
<1> USE DEF CInv
<1>1. inbox # <<>> /\ Head(inbox).cmd = "dispatch" /\ inbox' = Tail(inbox)
  BY DEF OnDispatch
<1>2. CASE Enqueue(Head(inbox).id, Head(inbox).carrying)
  BY <1>1, <1>2, EnqueueKeeps
<1> DEFINE s == [StatusOf(cur, state, job, queue) EXCEPT !.rej = Head(inbox).id]
<1>3. CASE Publish(<<s>>) /\ UNCHANGED managerVars
  <2>1. queue \subseteq JobId /\ (state \in OnBoard => cur # 0)
    BY DEF DInv, Shapes, IdleOrBusy, OnBoard
  <2>2. /\ s.queue = StatusOf(cur, state, job, queue).queue
        /\ s.st = state /\ (cur # 0 => s.id = job[cur].id)
    BY DEF StatusOf
  <2>3. Listed(s)
    BY <2>1, <2>2, StatusListed DEF Listed, DInv
  <2> HIDE DEF s
  <2>4. UNCHANGED <<job, queue, cur, state>>
    BY <1>3 DEF managerVars
  <2>5. Fresh(s)
    BY <2>1, <2>2, <2>3, <2>4 DEF Fresh
  <2>6. NewsOrOld
    BY <1>3, <2>5, PublishedOne
  <2>7. Held' = Held
    BY <2>4 DEF Held
  <2> QED
    BY <1>1, <2>4, <2>6, <2>7, HeldKeeps
<1> QED
  BY <1>2, <1>3 DEF OnDispatch

LEMMA PopKeeps ==
  ASSUME CInv, DInv', Pop, UNCHANGED core
  PROVE  CInv'
<1> USE DEF CInv
<1>1. PICK k \in queue : StartNav(k, FirstLeg(k), queue \ {k})
  BY DEF Pop
<1>2. k \in Held /\ queue \ {k} \subseteq queue /\ inbox' = inbox
  BY DEF Held, Pop
<1>3. FirstLeg(k) \in NavStates
  BY DEF FirstLeg, NavStates
<1>4. cur = 0
  BY DEF Pop, DInv, IdleOrBusy
<1> QED
  BY <1>1, <1>2, <1>3, <1>4, StartKeeps

LEMMA DwellKeeps ==
  ASSUME CInv, DInv', DwellOver, UNCHANGED core
  PROVE  CInv'
<1> USE DEF CInv
<1>1. inbox' = inbox
  BY DEF DwellOver
<1>2. CASE state = "PICKING" /\ StartNav(cur, "NAV_TO_DROPOFF", queue)
  <2>1. cur \in Held
    BY <1>2 DEF DInv, IdleOrBusy, Held
  <2> QED
    BY <1>1, <1>2, <2>1, StartKeeps DEF NavStates, OnBoard
<1>3. CASE EndTask(cur, "DONE", queue)
  BY <1>1, <1>3, EndKeeps DEF Finals
<1> QED
  BY <1>2, <1>3 DEF DwellOver

LEMMA ResponseKeeps ==
  ASSUME CInv, DInv', NEW k \in JobId, OnGoalResponse(k), UNCHANGED core
  PROVE  CInv'
<1> USE DEF CInv
<1>1. inbox' = inbox
  BY DEF OnGoalResponse
<1>2. CASE StaleResponse(k) \/ Accepted(k)
  <2>1. UNCHANGED <<job, queue, cur, state, status, latched>>
    BY <1>2 DEF StaleResponse, Accepted, managerVars, statusVars
  <2>2. Held' = Held
    BY <2>1 DEF Held
  <2> QED
    BY <1>1, <2>1, <2>2, HeldKeeps
<1>3. CASE Requeued(k)
  <2>1. /\ k = cur /\ state \in FirstLegs /\ queue' = queue \union {k} /\ cur' = 0 /\ state' = "IDLE"
        /\ Publish(<<StatusOf(0, "IDLE", job, queue')>>) /\ UNCHANGED job
    BY <1>3 DEF Requeued
  <2>2. Held' = Held /\ queue' \subseteq JobId /\ state \notin OnBoard
    BY <2>1 DEF Held, DInv, Shapes, JobId, FirstLegs, OnBoard
  <2>3. Listed(StatusOf(0, "IDLE", job, queue'))
    BY <2>2, StatusListed DEF DInv
  <2>4. Fresh(StatusOf(0, "IDLE", job, queue'))
    BY <2>3 DEF Fresh, StatusOf, OnBoard
  <2>5. NewsOrOld
    BY <2>1, <2>4, PublishedOne
  <2> QED
    BY <1>1, <2>1, <2>2, <2>5, HeldKeeps
<1>4. CASE Refused(k)
  <2>1. EndTask(k, "FAILED", queue)
    BY <1>4 DEF Refused
  <2> QED
    BY <1>1, <2>1, EndKeeps DEF Finals
<1> QED
  BY <1>2, <1>3, <1>4 DEF OnGoalResponse

LEMMA ResultKeeps ==
  ASSUME CInv, DInv', NEW k \in JobId, OnNavResult(k), UNCHANGED core
  PROVE  CInv'
<1> USE DEF CInv
<1>1. inbox' = inbox
  BY DEF OnNavResult
<1>2. CASE UNCHANGED <<managerVars, statusVars>>
  <2>1. UNCHANGED <<job, queue, cur, state, status, latched>>
    BY <1>2 DEF managerVars, statusVars
  <2>2. Held' = Held
    BY <2>1 DEF Held
  <2> QED
    BY <1>1, <2>1, <2>2, HeldKeeps
<1>3. CASE k = cur /\ Arrived(k)
  <2>1. /\ state' = IF state = "NAV_TO_PICKUP" THEN "PICKING" ELSE "PLACING"
        /\ Publish(<<StatusOf(k, state', job, queue)>>)
        /\ UNCHANGED <<job, queue, cur>>
    BY <1>3 DEF Arrived
  <2>2. Held' = Held /\ queue \subseteq JobId /\ cur # 0
    BY <1>3, <2>1 DEF Held, DInv, Shapes, JobId
  <2>3. Listed(StatusOf(k, state', job, queue))
    BY <2>2, StatusListed DEF DInv
  <2>4. Fresh(StatusOf(k, state', job, queue))
    BY <1>3, <2>1, <2>2, <2>3 DEF Fresh, StatusOf
  <2>5. NewsOrOld
    BY <2>1, <2>4, PublishedOne
  <2>6. state \in OnBoard => state' \in OnBoard
    BY <2>1 DEF OnBoard
  <2> QED
    BY <1>1, <2>1, <2>2, <2>5, <2>6, HeldKeeps
<1>4. CASE EndTask(k, "DONE", queue)
  BY <1>1, <1>4, EndKeeps DEF Finals
<1>5. CASE EndTask(k, "FAILED", queue)
  BY <1>1, <1>5, EndKeeps DEF Finals
<1> QED
  BY <1>2, <1>3, <1>4, <1>5 DEF OnNavResult

\* task_manager, Nav2 and a person.
LEMMA RobotKeeps ==
  ASSUME CInv, DInv', RobotStep
  PROVE  CInv'
<1> USE DEF CInv
<1>1. UNCHANGED core
  BY DEF RobotStep
<1>2. CASE OnDispatch
  BY <1>1, <1>2, DispatchKeeps
<1>3. CASE OnCancel
  BY <1>1, <1>3, CancelKeeps DEF OnCancel
<1>4. CASE Pop \/ DwellOver
  BY <1>1, <1>4, PopKeeps, DwellKeeps
<1>5. ASSUME NEW k \in JobId, OnGoalResponse(k) \/ OnNavResult(k) PROVE CInv'
  BY <1>1, <1>5, ResponseKeeps, ResultKeeps
<1>6. CASE NavStep
  <2>1. UNCHANGED <<job, queue, cur, state, status, latched, inbox>>
    BY <1>6 DEF NavStep, NavAccept, NavReject, NavFinish, NavStop, managerVars, statusVars
  <2>2. Held' = Held
    BY <2>1 DEF Held
  <2> QED
    BY <1>1, <2>1, <2>2, HeldKeeps
<1>7. CASE PersonStep
  <2>1. ASSUME NEW h \in Hand, HandDispatch(h) PROVE CInv'
    BY <1>1, <2>1, EnqueueKeeps DEF HandDispatch
  <2>2. ASSUME NEW ts, HandCancel(ts) PROVE CInv'
    BY <1>1, <2>2, CancelKeeps DEF HandCancel
  <2> QED
    BY <1>7, <2>1, <2>2 DEF PersonStep
<1> QED
  BY <1>2, <1>3, <1>4, <1>5, <1>6, <1>7 DEF RobotStep, ManagerStep

----------------------------------------------------------------------------
(* fleet_tasks.                                                              *)

\* It orders nothing but cancels and loaded dispatches of what it has committed, and
\* commits nothing it was not told of.
LEMMA FleetKeeps ==
  ASSUME CInv, DInv', UNCHANGED managerVars, Topics', CoreShape',
         \A i \in DOMAIN inbox : i \in DOMAIN inbox' /\ inbox'[i] = inbox[i],
         \A i \in DOMAIN inbox' : i \notin DOMAIN inbox /\ inbox'[i].cmd = "dispatch" =>
             inbox'[i].carrying /\ core.own[inbox'[i].id] = "committed",
         \A t \in Fleet : core'.own[t] = "committed" =>
             \/ core.own[t] = "committed" \/ OnIt(t)
             \/ \E j \in DOMAIN status : Told(status[j], t),
         \A t \in Fleet : \A i \in DOMAIN status' : Told(status'[i], t) =>
             OnIt(t) \/ \E j \in DOMAIN status : Told(status[j], t)
  PROVE  CInv'
<1> USE DEF CInv
<1>1. UNCHANGED <<job, queue, cur, state>>
  BY DEF managerVars
<1>2. \A t : HeldFor(t)' = HeldFor(t) /\ (OnIt(t)' <=> OnIt(t))
  BY <1>1 DEF HeldFor, Held, OnIt
<1>3. \A t : \A i \in Coming(t, "dispatch")' :
         \/ i \in Coming(t, "dispatch") /\ inbox'[i] = inbox[i]
         \/ inbox'[i].carrying /\ core.own[t] = "committed"
  BY DEF Coming
<1>4. ASSUME NEW t \in Fleet PROVE (AllLoaded(t) \/ OneEmpty(t))'
  <2>1. CASE AllLoaded(t)
    BY <1>1, <1>2, <1>3, <2>1 DEF AllLoaded
  <2>2. CASE OneEmpty(t)
    <3>1. Coming(t, "dispatch")' \subseteq Coming(t, "dispatch")
      BY <1>3, <2>2 DEF OneEmpty
    <3>2. \A i \in Coming(t, "dispatch")' : inbox'[i] = inbox[i]
      BY <1>3, <2>2 DEF OneEmpty
    <3> QED
      BY <1>1, <1>2, <2>2, <3>1, <3>2 DEF OneEmpty
  <2> QED
    BY <2>1, <2>2
<1> QED
  BY <1>4

\* What a status makes of the owners.
LEMMA OwnersOf ==
  ASSUME NEW R, NEW C, NEW Y,
         NEW c \in [own : [Fleet -> Owners], retry : R, cancelling : C, synced : Y],
         NEW t, NEW st
  PROVE  /\ \E R2, C2, Y2 : Report(c, t, st) \in
                [own : [Fleet -> Owners], retry : R2, cancelling : C2, synced : Y2]
         /\ \A f \in Fleet : Report(c, t, st).own[f] = "committed" =>
                c.own[f] = "committed" \/ (f = t /\ st \in OnBoard)
<1> DEFINE K(R2, C2) == [own : [Fleet -> Owners], retry : R2, cancelling : C2, synced : Y]
           P(d) == /\ \E R2, C2, Y2 : d \in
                        [own : [Fleet -> Owners], retry : R2, cancelling : C2, synced : Y2]
                   /\ \A f \in Fleet : d.own[f] = "committed" =>
                        c.own[f] = "committed" \/ (f = t /\ st \in OnBoard)
<1>1. P(c)
  OBVIOUS
<1>2. P([c EXCEPT !.cancelling = @ \ {t}])
  <2> DEFINE d == [c EXCEPT !.cancelling = @ \ {t}]
  <2>1. d \in K(R, {c.cancelling \ {t}}) /\ d.own = c.own
    OBVIOUS
  <2> QED
    BY <2>1
<1>3. P(Over(c, t))
  <2> DEFINE d == [c EXCEPT !.own[t] = "over", !.retry = @ \ {t}]
  <2>1. d \in K({c.retry \ {t}}, C) /\ d.own = [c.own EXCEPT ![t] = "over"]
    BY DEF Owners
  <2>2. d = Over(c, t)
    BY DEF Over
  <2> QED
    BY <2>1, <2>2
<1>4. CASE st \in OnBoard
  <2> DEFINE d == [c EXCEPT !.own[t] = "committed"]
  <2>1. d \in K(R, C) /\ d.own = [c.own EXCEPT ![t] = "committed"]
    BY DEF Owners
  <2>2. P(d)
    BY <1>4, <2>1
  <2> QED
    BY <1>1, <1>2, <1>3, <1>4, <2>2 DEF Report, OnBoard
<1>5. CASE st \notin OnBoard
  <2>1. P(Failed(c, t))
    <3> DEFINE d == [c EXCEPT !.retry = @ \union {t}]
               e == [c EXCEPT !.own[t] = "free"]
    <3>1. d \in K({c.retry \union {t}}, C) /\ d.own = c.own
      OBVIOUS
    <3>2. e \in K(R, C) /\ e.own = [c.own EXCEPT ![t] = "free"]
      BY DEF Owners
    <3>3. P(d) /\ P(e)
      BY <3>1, <3>2
    <3>4. Failed(c, t) = d \/ Failed(c, t) = e
      BY DEF Failed
    <3> QED
      BY <3>3, <3>4
  <2> QED
    BY <1>1, <1>2, <1>3, <1>5, <2>1 DEF Report
<1> QED
  BY <1>4, <1>5

\* What adopting from the first status makes of the owners, and what it cancels.
LEMMA AdoptsTold ==
  ASSUME NEW R, NEW C, NEW Y,
         NEW c \in [own : [Fleet -> Owners], retry : R, cancelling : C, synced : Y], NEW s
  PROVE  /\ \E C2, Y2 : Adopt(c, s) \in
                [own : [Fleet -> Owners], retry : R, cancelling : C2, synced : Y2]
         /\ \A f \in Fleet : Adopt(c, s).own[f] = "committed" =>
                c.own[f] = "committed" \/ Told(s, f)
<1> DEFINE o == [t \in Fleet |-> IF t = s.id /\ s.st \in OnBoard THEN "committed" ELSE c.own[t]]
           z == c.cancelling \union ToSet(Strangers(s))
           d == [c EXCEPT !.synced = TRUE, !.own = o, !.cancelling = z]
<1>1. Adopt(c, s) = d
  BY DEF Adopt
<1>2. o \in [Fleet -> Owners]
  BY DEF Owners
<1> HIDE DEF z
<1>3. d \in [own : [Fleet -> Owners], retry : R, cancelling : {z}, synced : {TRUE}] /\ d.own = o
  BY <1>2
<1> HIDE DEF d
<1>4. \A f \in Fleet : o[f] = "committed" => c.own[f] = "committed" \/ Told(s, f)
  BY DEF Told
<1> QED
  BY <1>1, <1>3, <1>4

LEMMA StrangersAreMany ==
  ASSUME NEW s, Listed(s)
  PROVE  \E n \in Nat : DOMAIN Strangers(s) = 1 .. n
<1> DEFINE ids == (IF s.st \in OnBoard \union Finals \union {"IDLE"} THEN <<>> ELSE <<s.id>>) \o s.queue
           ours == {i \in DOMAIN ids : ids[i] \in Fleet}
<1>1. PICK S : s.queue \in Seq(S)
  BY DEF Listed
<1>2. ids \in Seq(S \union {s.id})
  <2>1. s.queue \in Seq(S \union {s.id}) /\ <<>> \in Seq(S \union {s.id}) /\ <<s.id>> \in Seq(S \union {s.id})
    BY <1>1
  <2> QED
    BY <2>1, ConcatProperties
<1> HIDE DEF ids
<1>3. Len(ids) \in Nat /\ DOMAIN ids = 1 .. Len(ids)
  BY <1>2, LenProperties
<1>4. IsFiniteSet(ours)
  <2>1. ours \subseteq 1 .. Len(ids) /\ IsFiniteSet(1 .. Len(ids))
    BY <1>3, FS_Interval
  <2> HIDE DEF ours
  <2> QED
    BY <2>1, FS_Subset
<1>5. Cardinality(ours) \in Nat
  BY <1>4, FS_CardinalityType
<1>6. DOMAIN Strangers(s) = 1 .. Cardinality(ours)
  BY DEF Strangers, ids
<1> QED
  BY <1>5, <1>6

LEMMA StatusKeeps ==
  ASSUME CInv, DInv', OnTaskStatus
  PROVE  CInv'
<1> USE DEF CInv
<1> DEFINE s == Head(status)
           first == ~core.synced
           base == IF first THEN Adopt(core, s) ELSE core
           cmds == IF first THEN [i \in DOMAIN Strangers(s) |-> CancelOf(Strangers(s)[i])] ELSE <<>>
<1>1. /\ status # <<>> /\ core' = Reported(base, s) /\ Send(cmds)
      /\ status' = Tail(status) /\ UNCHANGED <<latched, managerVars>>
  BY DEF OnTaskStatus
<1>2. /\ \E S : status' \in Seq(S)
      /\ 1 \in DOMAIN status /\ s = status[1]
      /\ \A i \in DOMAIN status' : \E j \in DOMAIN status : status'[i] = status[j]
  <2>1. PICK S : status \in Seq(S)
    BY DEF Topics
  <2> QED
    BY <1>1, <2>1, HeadTailProperties, LenProperties
<1>3. Listed(s)
  BY <1>2 DEF Topics
<1> HIDE DEF s
<1>4. \E n \in Nat : cmds = [i \in 1 .. n |-> cmds[i]] /\ \A j \in 1 .. n : cmds[j].cmd = "cancel"
  <2>1. CASE first
    <3>1. PICK n \in Nat : DOMAIN Strangers(s) = 1 .. n
      BY <1>3, StrangersAreMany
    <3>2. cmds = [i \in 1 .. n |-> CancelOf(Strangers(s)[i])]
      BY <2>1, <3>1
    <3>3. \A j \in 1 .. n : cmds[j].cmd = "cancel"
      BY <3>2 DEF CancelOf
    <3> QED
      BY <3>2, <3>3
  <2>2. CASE ~first
    <3>1. cmds = [i \in 1 .. 0 |-> cmds[i]]
      BY <2>2
    <3> QED
      BY <3>1
  <2> QED
    BY <2>1, <2>2
<1>5. PICK n \in Nat : cmds = [i \in 1 .. n |-> cmds[i]] /\ \A j \in 1 .. n : cmds[j].cmd = "cancel"
  BY <1>4
<1> HIDE DEF cmds
<1>6. /\ \E S : inbox' \in Seq(S)
      /\ \A i \in DOMAIN inbox : i \in DOMAIN inbox' /\ inbox'[i] = inbox[i]
      /\ \A i \in DOMAIN inbox' : i \notin DOMAIN inbox => inbox'[i].cmd = "cancel"
  <2>1. Behind(inbox, inbox', n, cmds)
    BY <1>1, <1>5, Sent DEF Topics
  <2> QED
    BY <1>5, <2>1 DEF Behind
<1>7. /\ \E R, C, Y : base \in [own : [Fleet -> Owners], retry : R, cancelling : C, synced : Y]
      /\ \A f \in Fleet : base.own[f] = "committed" => core.own[f] = "committed" \/ Told(s, f)
  <2>1. PICK R, C, Y : core \in [own : [Fleet -> Owners], retry : R, cancelling : C, synced : Y]
    BY DEF CoreShape
  <2>2. CASE first
    BY <2>1, <2>2, AdoptsTold
  <2>3. CASE ~first
    BY <2>1, <2>3
  <2> QED
    BY <2>2, <2>3
<1> HIDE DEF base
<1>8. /\ \E R, C, Y : Reported(base, s) \in
             [own : [Fleet -> Owners], retry : R, cancelling : C, synced : Y]
      /\ \A f \in Fleet : Reported(base, s).own[f] = "committed" =>
             base.own[f] = "committed" \/ Told(s, f)
  <2>1. PICK R, C, Y : base \in [own : [Fleet -> Owners], retry : R, cancelling : C, synced : Y]
    BY <1>7
  <2>2. CASE s.rej # None
    BY <2>1, <2>2, OwnersOf DEF Reported, OnBoard
  <2>3. CASE s.rej = None /\ s.id \in Fleet
    BY <2>1, <2>3, OwnersOf DEF Reported, Told
  <2>4. CASE s.rej = None /\ s.id \notin Fleet
    BY <2>1, <2>4 DEF Reported
  <2> QED
    BY <2>2, <2>3, <2>4
<1>9. CoreShape'
  BY <1>1, <1>8 DEF CoreShape
<1>10. \A f \in Fleet : core'.own[f] = "committed" =>
           core.own[f] = "committed" \/ \E j \in DOMAIN status : Told(status[j], f)
  BY <1>1, <1>2, <1>7, <1>8
<1>11. Topics'
  <2>1. \A i \in DOMAIN latched' : Listed(latched'[i]) /\ Holds(latched[i])'
    BY <1>1 DEF Topics, Holds, OnIt, managerVars
  <2>2. (\E S : latched' \in Seq(S)) /\ \A i \in DOMAIN status' : Listed(status'[i])
    BY <1>1, <1>2 DEF Topics
  <2> QED
    BY <1>2, <1>6, <2>1, <2>2 DEF Topics
<1>12. UNCHANGED managerVars
  BY <1>1
<1> QED
  BY <1>2, <1>6, <1>9, <1>10, <1>11, <1>12, FleetKeeps

\* The order in which a finite set is listed.
LEMMA SetListed ==
  ASSUME NEW S, IsFiniteSet(S)
  PROVE  Cardinality(S) \in Nat /\ SetToSeq(S) \in [1 .. Cardinality(S) -> S]
<1>1. Cardinality(S) \in Nat /\ ExistsBijection(1 .. Cardinality(S), S)
  BY FS_CardinalityType
<1>2. \E f \in [1 .. Cardinality(S) -> S] : IsInjective(f)
  BY <1>1 DEF ExistsBijection, Bijection, Injection, IsInjective
<1> QED
  BY <1>1, <1>2 DEF SetToSeq

LEMMA TickKeeps ==
  ASSUME CInv, DInv', NEW due \in SUBSET Fleet, FleetTick(due)
  PROVE  CInv'
<1> USE DEF CInv
<1> DEFINE ts == SetToSeq(due)
           n == Cardinality(due)
           cmds == [i \in DOMAIN ts |-> DispatchOf(ts[i], TRUE)]
<1>1. /\ due \subseteq {t \in core.retry : core.own[t] = "committed"}
      /\ UNCHANGED <<status, latched, managerVars>>
      /\ Send(cmds)
  BY DEF FleetTick, statusVars
<1>2. n \in Nat /\ ts \in [1 .. n -> due]
  BY IdAssumption, FS_Subset, SetListed
<1> HIDE DEF ts, n
<1>3. cmds = [i \in 1 .. n |-> cmds[i]] /\ \A j \in 1 .. n : cmds[j] = DispatchOf(ts[j], TRUE)
  BY <1>2
<1> HIDE DEF cmds
<1>4. \A j \in 1 .. n : cmds[j].carrying /\ core.own[cmds[j].id] = "committed"
  <2> TAKE j \in 1 .. n
  <2>1. ts[j] \in due
    BY <1>2
  <2> QED
    BY <1>1, <1>3, <2>1 DEF DispatchOf
<1>5. Behind(inbox, inbox', n, cmds)
  BY <1>1, <1>2, <1>3, Sent DEF Topics
<1>6. /\ \E S : inbox' \in Seq(S)
      /\ \A i \in DOMAIN inbox : i \in DOMAIN inbox' /\ inbox'[i] = inbox[i]
      /\ \A i \in DOMAIN inbox' : i \notin DOMAIN inbox =>
             inbox'[i].carrying /\ core.own[inbox'[i].id] = "committed"
  BY <1>4, <1>5 DEF Behind
<1>7. Topics'
  BY <1>1, <1>6 DEF Topics, Holds, OnIt, managerVars
<1>8. CoreShape' /\ core'.own = core.own
  <2> DEFINE r == core.retry \ due
             g == {t \in core.cancelling : core.own[t] # "unknown"}
  <2>1. core' = [core EXCEPT !.retry = r, !.cancelling = g]
    BY DEF FleetTick
  <2> HIDE DEF r, g
  <2>2. PICK R, C, Y : core \in [own : [Fleet -> Owners], retry : R, cancelling : C, synced : Y]
    BY DEF CoreShape
  <2>3. /\ core' \in [own : [Fleet -> Owners], retry : {r}, cancelling : {g}, synced : Y]
        /\ core'.own = core.own
    BY <2>1, <2>2
  <2> QED
    BY <2>3 DEF CoreShape
<1>9. UNCHANGED managerVars /\ UNCHANGED status
  BY <1>1
<1> QED
  BY <1>6, <1>7, <1>8, <1>9, FleetKeeps

LEMMA RestartKeeps ==
  ASSUME CInv, DInv', Restart
  PROVE  CInv'
<1> USE DEF CInv
<1> DEFINE o == [t \in Fleet |-> IF core.own[t] = "over" THEN "over" ELSE "unknown"]
<1>1. /\ core' = [NewCore EXCEPT !.own = o] /\ status' = latched
      /\ UNCHANGED <<inbox, latched, managerVars>>
  BY DEF Restart
<1>2. o \in [Fleet -> Owners] /\ \A t \in Fleet : o[t] # "committed"
  BY DEF Owners
<1> HIDE DEF o
<1>3. /\ core' \in [own : [Fleet -> Owners], retry : {{}}, cancelling : {{}}, synced : {FALSE}]
      /\ core'.own = o
  BY <1>1, <1>2 DEF NewCore
<1>4. CoreShape' /\ \A t \in Fleet : core'.own[t] # "committed"
  BY <1>2, <1>3 DEF CoreShape
<1>5. Topics'
  BY <1>1 DEF Topics, Holds, OnIt, managerVars
<1>6. \A t \in Fleet : \A i \in DOMAIN status' : Told(status'[i], t) => OnIt(t)
  BY <1>1 DEF Topics, Holds, Told
<1>7. UNCHANGED managerVars /\ UNCHANGED inbox
  BY <1>1
<1> QED
  BY <1>4, <1>5, <1>6, <1>7, FleetKeeps

----------------------------------------------------------------------------
(* The auction.                                                              *)

\* The robot wins a task of which nothing is left from its last round.
LEMMA WinKeeps ==
  ASSUME CInv, DInv', NEW t0 \in Fleet, Win(t0)
  PROVE  CInv'
<1> USE DEF CInv
<1> DEFINE cmds == <<DispatchOf(t0, FALSE)>>
<1>1. /\ core.own[t0] \in {"unknown", "free"} /\ Settled(t0)
      /\ core' = [core EXCEPT !.own[t0] = "mine"] /\ Send(cmds)
      /\ UNCHANGED <<status, latched, managerVars>>
  BY DEF Win, statusVars
<1>2. UNCHANGED <<job, queue, cur, state>>
  BY <1>1 DEF managerVars
<1>3. cmds = [i \in 1 .. 1 |-> cmds[i]] /\ cmds[1] = DispatchOf(t0, FALSE)
  OBVIOUS
<1> HIDE DEF cmds
<1>4. Behind(inbox, inbox', 1, cmds)
  BY <1>1, <1>3, Sent DEF Topics
<1>5. /\ \E S : inbox' \in Seq(S)
      /\ \A i \in DOMAIN inbox : i \in DOMAIN inbox' /\ inbox'[i] = inbox[i]
      /\ \A i \in DOMAIN inbox' : i \notin DOMAIN inbox =>
             i = Len(inbox) + 1 /\ inbox'[i].id = t0 /\ ~inbox'[i].carrying
  <2>1. \A i \in DOMAIN inbox' : i \notin DOMAIN inbox => i = Len(inbox) + 1 /\ inbox'[i] = cmds[1]
    BY <1>4 DEF Behind
  <2> QED
    BY <1>3, <1>4, <2>1 DEF Behind, DispatchOf
<1>6. Topics'
  BY <1>1, <1>2, <1>5 DEF Topics, Holds, OnIt
<1>7. CoreShape' /\ core'.own = [core.own EXCEPT ![t0] = "mine"] /\ \A t \in Fleet : t # t0 => core'.own[t] = core.own[t]
  <2>1. PICK R, C, Y : core \in [own : [Fleet -> Owners], retry : R, cancelling : C, synced : Y]
    BY DEF CoreShape
  <2>2. /\ core' \in [own : [Fleet -> Owners], retry : R, cancelling : C, synced : Y]
        /\ core'.own = [core.own EXCEPT ![t0] = "mine"]
    BY <1>1, <2>1 DEF Owners
  <2> QED
    BY <2>1, <2>2 DEF CoreShape
<1>8. core'.own[t0] # "committed"
  BY <1>7 DEF CoreShape
<1>9. \A t : HeldFor(t)' = HeldFor(t) /\ (OnIt(t)' <=> OnIt(t))
  BY <1>2 DEF HeldFor, Held, OnIt
<1>10. ASSUME NEW t \in Fleet, t # t0 PROVE (AllLoaded(t) \/ OneEmpty(t))'
  <2>1. Coming(t, "dispatch")' = Coming(t, "dispatch")
    BY <1>5, <1>10 DEF Coming
  <2>2. \A i \in Coming(t, "dispatch") : inbox'[i] = inbox[i]
    BY <1>5 DEF Coming
  <2> QED
    BY <1>1, <1>2, <1>7, <1>9, <1>10, <2>1, <2>2 DEF AllLoaded, OneEmpty
<1>11. OneEmpty(t0)'
  <2>1. HeldFor(t0) = {} /\ Coming(t0, "dispatch") = {} /\ \A i \in DOMAIN status : status[i].id # t0
    BY <1>1 DEF Settled, Coming, About
  <2>2. ~OnIt(t0)
    BY <2>1 DEF OnIt, HeldFor, Held
  <2>3. \A i \in Coming(t0, "dispatch")' : i = Len(inbox) + 1 /\ ~inbox'[i].carrying
    BY <1>5, <2>1 DEF Coming
  <2> QED
    BY <1>1, <1>8, <1>9, <2>1, <2>2, <2>3 DEF OneEmpty, Told
<1> QED
  BY <1>6, <1>7, <1>10, <1>11

\* It loses one, or the gateway withdraws it.
LEMMA LoseKeeps ==
  ASSUME CInv, DInv', NEW t0 \in Fleet, Lose(t0) \/ Withdrawn(t0)
  PROVE  CInv'
<1> USE DEF CInv
<1> DEFINE r == core.retry \ {t0}
           g == core.cancelling \union {t0}
<1>1. /\ \E o \in {"free", "over"} :
            \/ core' = [core EXCEPT !.own[t0] = o, !.retry = r, !.cancelling = g]
            \/ core' = [core EXCEPT !.own[t0] = o]
      /\ Send(<<CancelOf(t0)>>) \/ inbox' = inbox
      /\ UNCHANGED <<status, latched, managerVars>>
  BY DEF Lose, Withdrawn, CancelLocal, statusVars
<1> HIDE DEF r, g
<1>2. /\ \E S : inbox' \in Seq(S)
      /\ \A i \in DOMAIN inbox : i \in DOMAIN inbox' /\ inbox'[i] = inbox[i]
      /\ \A i \in DOMAIN inbox' : i \notin DOMAIN inbox => inbox'[i].cmd = "cancel"
  <2> DEFINE cmds == <<CancelOf(t0)>>
  <2>1. cmds = [i \in 1 .. 1 |-> cmds[i]] /\ \A j \in 1 .. 1 : cmds[j].cmd = "cancel"
    BY DEF CancelOf
  <2> HIDE DEF cmds
  <2>2. CASE Send(cmds)
    <3>1. Behind(inbox, inbox', 1, cmds)
      BY <2>1, <2>2, Sent DEF Topics
    <3> QED
      BY <2>1, <3>1 DEF Behind
  <2>3. CASE inbox' = inbox
    BY <2>3 DEF Topics
  <2> QED
    BY <1>1, <2>2, <2>3 DEF cmds
<1>3. CoreShape' /\ \A t \in Fleet : core'.own[t] = "committed" => core.own[t] = "committed"
  <2>1. PICK R, C, Y : core \in [own : [Fleet -> Owners], retry : R, cancelling : C, synced : Y]
    BY DEF CoreShape
  <2>2. PICK o \in {"free", "over"} :
            \/ core' = [core EXCEPT !.own[t0] = o, !.retry = r, !.cancelling = g]
            \/ core' = [core EXCEPT !.own[t0] = o]
    BY <1>1
  <2>3. core'.own = [core.own EXCEPT ![t0] = o]
    BY <2>1, <2>2
  <2> DEFINE own == [core.own EXCEPT ![t0] = o]
  <2>4. own \in [Fleet -> Owners]
    BY <2>1 DEF Owners
  <2>5. \/ core' = [core EXCEPT !.own = own, !.retry = r, !.cancelling = g]
        \/ core' = [core EXCEPT !.own = own]
    BY <2>1, <2>2
  <2> HIDE DEF own
  <2>6. core' \in [own : [Fleet -> Owners], retry : R \union {r}, cancelling : C \union {g}, synced : Y]
    BY <2>1, <2>4, <2>5
  <2> QED
    BY <2>1, <2>3, <2>6 DEF CoreShape
<1>4. Topics'
  BY <1>1, <1>2 DEF Topics, Holds, OnIt, managerVars
<1>5. UNCHANGED managerVars /\ UNCHANGED status
  BY <1>1
<1> QED
  BY <1>2, <1>3, <1>4, <1>5, FleetKeeps

----------------------------------------------------------------------------
\* Nothing is there at first.
LEMMA CInvStarts == Init => CInv
<1> SUFFICES ASSUME Init PROVE CInv
  OBVIOUS
<1>1. DInv
  BY InvStarts
<1>2. /\ inbox = <<>> /\ status = <<>> /\ job = <<>> /\ queue = {} /\ cur = 0 /\ state = "IDLE"
      /\ latched = <<>> \/ latched = <<StatusOf(0, "IDLE", <<>>, {})>>
      /\ core = NewCore \/ core = [NewCore EXCEPT !.synced = TRUE]
  BY DEF Init, ManagerInit
<1> DEFINE s == StatusOf(0, "IDLE", <<>>, {})
<1>3. Listed(s) /\ s.st = "IDLE"
  BY QueueListed DEF StatusOf
<1> HIDE DEF s
<1>4. Topics
  <2>1. latched \in Seq({s}) /\ \A i \in DOMAIN latched : latched[i] = s
    <3>1. latched = <<>> \/ latched = <<s>>
      BY <1>2 DEF s
    <3>2. CASE latched = <<>>
      BY <3>2
    <3>3. CASE latched = <<s>>
      <4>1. <<s>> \in Seq({s}) /\ \A i \in DOMAIN <<s>> : <<s>>[i] = s
        OBVIOUS
      <4> QED
        BY <3>3, <4>1
    <3> QED
      BY <3>1, <3>2, <3>3
  <2>2. Holds(s)
    BY <1>3 DEF Holds, OnBoard
  <2>3. inbox \in Seq({}) /\ status \in Seq({})
    BY <1>2
  <2> QED
    BY <1>2, <1>3, <2>1, <2>2, <2>3 DEF Topics
<1>5. /\ core \in [own : [Fleet -> Owners], retry : {{}}, cancelling : {{}}, synced : BOOLEAN]
      /\ \A t \in Fleet : core.own[t] = "unknown"
  <2>1. NewCore.own = [t \in Fleet |-> "unknown"] /\ "unknown" \in Owners
    BY DEF NewCore, Owners
  <2>2. NewCore \in [own : [Fleet -> Owners], retry : {{}}, cancelling : {{}}, synced : BOOLEAN]
    BY DEF NewCore, Owners
  <2>3. CASE core = NewCore
    BY <2>1, <2>2, <2>3
  <2>4. CASE core = [NewCore EXCEPT !.synced = TRUE]
    BY <2>1, <2>2, <2>4
  <2> QED
    BY <1>2, <2>3, <2>4
<1>6. \A t \in Fleet : AllLoaded(t)
  BY <1>2 DEF AllLoaded, HeldFor, Held, Coming
<1> QED
  BY <1>1, <1>4, <1>5, <1>6 DEF CInv, CoreShape

LEMMA CInvStep == CInv /\ [Next]_vars => CInv'
<1> SUFFICES ASSUME CInv, [Next]_vars PROVE CInv'
  OBVIOUS
<1>1. DInv'
  BY InvStep DEF CInv
<1>2. CASE UNCHANGED vars
  <2>1. UNCHANGED <<inbox, status, latched, job, queue, cur, state, core>>
    BY <1>2 DEF vars, statusVars, managerVars
  <2>2. Held' = Held
    BY <2>1 DEF Held
  <2> QED
    BY <1>1, <2>1, <2>2, HeldKeeps
<1>3. CASE RobotStep
  BY <1>1, <1>3, RobotKeeps
<1>4. CASE AuctionStep
  BY <1>1, <1>4, WinKeeps, LoseKeeps DEF AuctionStep
<1>5. CASE FleetStep
  BY <1>1, <1>5, StatusKeeps, TickKeeps, RestartKeeps DEF FleetStep
<1> QED
  BY <1>2, <1>3, <1>4, <1>5 DEF Next

\* A robot that told the fleet that it carries the item never starts or holds an
\* empty-handed drive of that task, through failures and retries of the dropoff, losses,
\* withdrawals and restarts of fleet_tasks (on_task_status, _adopt and the retry of tick).
THEOREM CommittedIsCarried == Spec => []CarriedToDropoff
<1>1. Init => CInv
  BY CInvStarts
<1>2. CInv /\ [Next]_vars => CInv'
  BY CInvStep
<1>3. CInv => CarriedToDropoff
  BY CInvImplies
<1> QED
  BY <1>1, <1>2, <1>3, PTL DEF Spec

----------------------------------------------------------------------------
(* Who owns the work.                                                        *)

Lone(S) == \A x, y \in S : x = y

\* Status s ends task t, or shows that task_manager holds it.
Ends(s, t) == s.rej = t \/ (s.id = t /\ s.st \in Finals)
Mentions(s, t) == t \in ToSet(s.queue) \/ (s.id = t /\ s.st \notin Finals \union {"IDLE"})
EndsOf(t) == {i \in DOMAIN status : Ends(status[i], t)}

\* A task is held, dispatched, ended by an unread status or due for a retry, once and
\* not two of these at a time.
InOnePlace(t) ==
    /\ Lone(HeldFor(t)) /\ Lone(Coming(t, "dispatch")) /\ Lone(EndsOf(t))
    /\ HeldFor(t) # {} => Coming(t, "dispatch") = {} /\ EndsOf(t) = {} /\ t \notin core.retry
    /\ Coming(t, "dispatch") # {} => EndsOf(t) = {} /\ t \notin core.retry
    /\ EndsOf(t) # {} => t \notin core.retry
    /\ t \in core.retry => core.own[t] = "committed"

\* The last status published is what a restarted fleet_tasks reads first: it shows
\* all that task_manager holds, and ends nothing of it.
Latest ==
    /\ \A i, j \in DOMAIN latched : i = j
    /\ \A i \in DOMAIN latched : \A t \in Fleet : HeldFor(t) # {} =>
          Mentions(latched[i], t) /\ ~Ends(latched[i], t)
    /\ latched = <<>> => \A t \in Fleet : HeldFor(t) = {}

CancelBehind(t) == \E i \in Coming(t, "cancel") : \A j \in Coming(t, "dispatch") : j < i

\* Work is owned, about to be cancelled, or shown by every unread status to a
\* fleet_tasks that has just started.
Covered(t) ==
    /\ Coming(t, "dispatch") # {} => Owned(core, t) \/ CancelBehind(t)
    /\ HeldFor(t) # {} => \/ Owned(core, t) \/ CancelBehind(t)
                          \/ /\ ~core.synced /\ status # <<>>
                             /\ \A i \in DOMAIN status : Mentions(status[i], t)

WInv == Latest /\ \A t \in Fleet : InOnePlace(t) /\ Covered(t)

LEMMA WInvImplies == CInv /\ WInv => WorkOnlyOwned
<1> SUFFICES ASSUME CInv, WInv, NEW t \in Fleet, HeldFor(t) # {} \/ Coming(t, "dispatch") # {}
             PROVE  \/ Owned(core, t)
                    \/ \E i \in Coming(t, "cancel") : \A j \in Coming(t, "dispatch") : j < i
                    \/ ~core.synced /\ status # <<>> /\ About(t, Head(status))
  BY DEF WorkOnlyOwned
<1>1. Covered(t)
  BY DEF WInv
<1>2. CASE Owned(core, t) \/ CancelBehind(t)
  BY <1>2 DEF CancelBehind
<1>3. CASE /\ ~core.synced /\ status # <<>>
           /\ \A i \in DOMAIN status : Mentions(status[i], t)
  <2>1. 1 \in DOMAIN status /\ Head(status) = status[1]
    BY <1>3, HeadTailProperties, LenProperties DEF CInv, Topics
  <2> QED
    BY <1>3, <2>1 DEF About, Mentions
<1> QED
  BY <1>1, <1>2, <1>3 DEF Covered

\* The number of a waiting task is one of those the list goes through.
LEMMA NthAll ==
  ASSUME NEW n \in Nat, NEW q, q \subseteq 1 .. n, NEW k \in q
  PROVE  Cardinality(q) \in Nat /\ \E i \in 1 .. Cardinality(q) : Nth(q, i) = k
<1> DEFINE B(j) == {x \in q : x < j}
<1>1. IsFiniteSet(q) /\ Cardinality(q) \in Nat /\ q \subseteq Nat
  <2>1. IsFiniteSet(1 .. n)
    BY FS_Interval
  <2>2. IsFiniteSet(q)
    BY <2>1, FS_Subset
  <2> QED
    BY <2>2, FS_CardinalityType
<1>2. ASSUME NEW j \in q
      PROVE  IsFiniteSet(B(j)) /\ Cardinality(B(j)) \in Nat
  <2>1. B(j) \subseteq q
    OBVIOUS
  <2> QED
    BY <1>1, <2>1, FS_Subset, FS_CardinalityType
<1>3. ASSUME NEW i \in q, NEW j \in q, i < j
      PROVE  Cardinality(B(i)) < Cardinality(B(j))
  <2>0. i \in Nat /\ j \in Nat /\ \A x \in q : x \in Nat
    BY <1>1
  <2>1. \A x \in q : x < i => x < j
    BY <1>3, <2>0
  <2>2. i < j /\ ~(i < i)
    BY <1>3, <2>0
  <2>3. B(i) \subseteq B(j) /\ i \in B(j) /\ i \notin B(i)
    BY <2>1, <2>2
  <2>4. B(i) # B(j)
    BY <2>3
  <2> HIDE DEF B
  <2>5. Cardinality(B(i)) <= Cardinality(B(j)) /\ (Cardinality(B(i)) = Cardinality(B(j)) => B(i) = B(j))
    BY <1>2, <2>3, FS_Subset
  <2> QED
    BY <1>2, <2>4, <2>5
<1>4. Cardinality(B(k)) < Cardinality(q)
  <2>1. B(k) \subseteq q /\ B(k) # q
    BY <1>1
  <2> HIDE DEF B
  <2>2. Cardinality(B(k)) <= Cardinality(q) /\ (Cardinality(B(k)) = Cardinality(q) => B(k) = q)
    BY <1>1, <2>1, FS_Subset
  <2> QED
    BY <1>1, <1>2, <2>1, <2>2
<1> DEFINE m == Cardinality(B(k)) + 1
<1>5. m \in 1 .. Cardinality(q) /\ m - 1 = Cardinality(B(k))
  BY <1>1, <1>2, <1>4
<1>6. \A j \in q : Cardinality(B(j)) = m - 1 => j = k
  <2> TAKE j \in q
  <2>1. j < k \/ j = k \/ k < j
    BY <1>1
  <2> HIDE DEF B
  <2> QED
    BY <1>2, <1>3, <1>5, <2>1
<1>7. Nth(q, m) = CHOOSE j \in q : Cardinality(B(j)) = m - 1
  BY DEF Nth
<1> HIDE DEF m, B
<1>8. Nth(q, m) = k
  BY <1>5, <1>6, <1>7
<1> QED
  BY <1>1, <1>5, <1>8

\* A status lists the id of every task that waits.
LEMMA QueueTold ==
  ASSUME NEW n \in Nat, NEW jobs, NEW q, q \subseteq 1 .. n, NEW k \in q
  PROVE  jobs[k].id \in ToSet(Ids(jobs, q))
<1>1. PICK i \in 1 .. Cardinality(q) : Nth(q, i) = k
  BY NthAll
<1>2. i \in DOMAIN Ids(jobs, q) /\ Ids(jobs, q)[i] = jobs[k].id
  BY <1>1 DEF Ids
<1> QED
  BY <1>2 DEF ToSet

\* What a restarted fleet_tasks cancels: everything of the fleet that the status shows,
\* but for the task that is on board.
LEMMA StrangersTold ==
  ASSUME NEW s, Listed(s), NEW t \in Fleet, Mentions(s, t), ~Told(s, t)
  PROVE  \E j \in DOMAIN Strangers(s) : Strangers(s)[j] = t
<1> DEFINE first == IF s.st \in OnBoard \union Finals \union {"IDLE"} THEN <<>> ELSE <<s.id>>
           ids == first \o s.queue
           ours == {i \in DOMAIN ids : ids[i] \in Fleet}
<1>1. PICK S : s.queue \in Seq(S)
  BY DEF Listed
<1>2. first \in Seq(S \union {s.id}) /\ s.queue \in Seq(S \union {s.id})
  <2>1. <<>> \in Seq(S \union {s.id}) /\ <<s.id>> \in Seq(S \union {s.id}) /\ s.queue \in Seq(S \union {s.id})
    BY <1>1
  <2> QED
    BY <2>1
<1> HIDE DEF first
<1>3. /\ ids \in Seq(S \union {s.id}) /\ Len(ids) = Len(first) + Len(s.queue)
      /\ \A i \in 1 .. Len(first) + Len(s.queue) :
            ids[i] = IF i <= Len(first) THEN first[i] ELSE s.queue[i - Len(first)]
  BY <1>2, ConcatProperties
<1>4. /\ Len(first) \in Nat /\ DOMAIN s.queue = 1 .. Len(s.queue) /\ Len(s.queue) \in Nat
      /\ Len(ids) \in Nat /\ DOMAIN ids = 1 .. Len(ids)
  BY <1>2, <1>3, LenProperties
<1>5. \E i \in DOMAIN ids : ids[i] = t
  <2>1. CASE t \in ToSet(s.queue)
    <3>1. PICK j \in DOMAIN s.queue : s.queue[j] = t
      BY <2>1 DEF ToSet
    <3> HIDE DEF ids, first
    <3>2. /\ j + Len(first) \in 1 .. Len(first) + Len(s.queue) /\ ~(j + Len(first) <= Len(first))
          /\ (j + Len(first)) - Len(first) = j
      BY <1>4, <3>1
    <3>3. ids[j + Len(first)] = s.queue[j]
      BY <1>3, <3>2
    <3> QED
      BY <1>3, <1>4, <3>1, <3>2, <3>3
  <2>2. CASE s.id = t /\ s.st \notin Finals \union {"IDLE"}
    <3>1. first = <<s.id>>
      BY <2>2 DEF Told, first
    <3>2. Len(first) = 1 /\ first[1] = t
      BY <2>2, <3>1
    <3> HIDE DEF ids, first
    <3>3. ids[1] = t /\ 1 \in DOMAIN ids
      BY <1>3, <1>4, <3>2
    <3> QED
      BY <3>3
  <2> QED
    BY <2>1, <2>2 DEF Mentions
<1> HIDE DEF ids
<1>6. PICK i \in ours : ids[i] = t
  BY <1>5
<1>7. ours \subseteq 1 .. Len(ids)
  BY <1>4
<1>8. Strangers(s) = [j \in 1 .. Cardinality(ours) |-> ids[Nth(ours, j)]]
  BY DEF Strangers, ids, first
<1> HIDE DEF ours
<1>9. PICK j \in 1 .. Cardinality(ours) : Nth(ours, j) = i
  BY <1>4, <1>6, <1>7, NthAll
<1> QED
  BY <1>6, <1>8, <1>9

\* The first command was read (e = 1), or none.
Reads(e) ==
    /\ \A i \in DOMAIN inbox' : /\ i \in Nat /\ i > 0 /\ i + e \in DOMAIN inbox
                                /\ inbox'[i] = inbox[i + e]
    /\ \A i \in DOMAIN inbox : /\ i \in Nat /\ i > 0
                               /\ i > e => i - e \in DOMAIN inbox' /\ inbox'[i - e] = inbox[i]
    /\ e = 1 => inbox # <<>> /\ Head(inbox) = inbox[1] /\ 1 \in DOMAIN inbox

LEMMA ReadsOne ==
  ASSUME \E S : inbox \in Seq(S), inbox # <<>>, inbox' = Tail(inbox)
  PROVE  Reads(1)
<1>1. PICK S : inbox \in Seq(S)
  OBVIOUS
<1>2. /\ Len(inbox) \in Nat /\ Len(inbox) > 0 /\ DOMAIN inbox = 1 .. Len(inbox)
      /\ Head(inbox) = inbox[1] /\ inbox' \in Seq(S) /\ Len(inbox') = Len(inbox) - 1
      /\ \A i \in 1 .. Len(inbox') : inbox'[i] = inbox[i + 1]
  BY <1>1, HeadTailProperties, LenProperties, EmptySeq
<1>3. DOMAIN inbox' = 1 .. Len(inbox) - 1
  BY <1>2, LenProperties
<1>4. \A i \in 1 .. Len(inbox) : i > 1 => i - 1 \in 1 .. Len(inbox) - 1 /\ (i - 1) + 1 = i
  BY <1>2
<1>5. \A i \in 1 .. Len(inbox) - 1 : i \in Nat /\ i > 0 /\ i + 1 \in 1 .. Len(inbox)
  BY <1>2
<1>6. \A i \in DOMAIN inbox' : inbox'[i] = inbox[i + 1]
  BY <1>2, <1>3
<1>7. \A i \in DOMAIN inbox : i > 1 => inbox'[i - 1] = inbox[i]
  BY <1>2, <1>3, <1>4, <1>6
<1> QED
  BY <1>2, <1>3, <1>4, <1>5, <1>6, <1>7 DEF Reads

LEMMA ReadsNone ==
  ASSUME \E S : inbox \in Seq(S), inbox' = inbox
  PROVE  Reads(0)
<1>1. \A i \in DOMAIN inbox : i \in Nat /\ i > 0 /\ i + 0 = i /\ i - 0 = i
  BY LenProperties
<1> QED
  BY <1>1 DEF Reads

\* What a step of task_manager may do to task t, where E are those of its statuses
\* that end t: keep or cancel it; end what it holds; refuse the command that is
\* read; or take it.
Reading(t, e, cmd) == e = 1 /\ inbox[1].id = t /\ inbox[1].cmd = cmd
Handles(t, e, E) ==
    \/ /\ HeldFor(t)' \subseteq HeldFor(t) /\ E = {}
       /\ e = 1 /\ inbox[1].id = t => inbox[1].cmd = "cancel" /\ HeldFor(t)' = {}
    \/ HeldFor(t) # {} /\ HeldFor(t)' = {} /\ Lone(E)
    \/ Reading(t, e, "dispatch") /\ HeldFor(t)' \subseteq HeldFor(t) /\ Lone(E)
    \/ Reading(t, e, "dispatch") /\ Lone(HeldFor(t)') /\ E = {}

\* Then the task is still in one place, and its work is covered.
LEMMA HandlesCovers ==
  ASSUME NEW t \in Fleet, InOnePlace(t), Covered(t), UNCHANGED core,
         NEW e \in {0, 1}, Reads(e), NEW d \in Nat, NEW n \in Nat, NEW ss,
         \A i \in DOMAIN status' : /\ i \in Nat
                                   /\ \/ i + d \in DOMAIN status /\ status'[i] = status[i + d]
                                      \/ i + d - n \in DOMAIN ss /\ status'[i] = ss[i + d - n],
         status # <<>> => status' # <<>>,
         \A j \in DOMAIN ss : HeldFor(t)' # {} => Mentions(ss[j], t),
         Handles(t, e, {j \in DOMAIN ss : Ends(ss[j], t)})
  PROVE  InOnePlace(t)' /\ Covered(t)'
<1> DEFINE E == {j \in DOMAIN ss : Ends(ss[j], t)}
           D == Coming(t, "dispatch")
<1>1. \A i \in D' : i \in Nat /\ i > 0 /\ i + e \in D
  BY DEF Reads, Coming
<1>2. \A i \in EndsOf(t)' : i \in Nat /\ (i + d \in EndsOf(t) \/ i + d - n \in E)
  BY DEF EndsOf
<1>3. Reading(t, e, "dispatch") => 1 \in D
  BY DEF Reading, Reads, Coming
<1>4. Lone(D)' /\ (D = {} => D' = {}) /\ (Reading(t, e, "dispatch") => D' = {})
  <2>1. Lone(D)
    BY DEF InOnePlace
  <2>2. ASSUME NEW i \in D', NEW j \in D' PROVE i = j
    <3>1. i + e = j + e /\ i \in Int /\ j \in Int /\ e \in Int
      BY <1>1, <2>1 DEF Lone
    <3> QED
      BY <3>1
  <2>3. ASSUME NEW i \in D', Reading(t, e, "dispatch") PROVE FALSE
    <3>1. i + 1 = 1 /\ i \in Nat /\ i > 0
      BY <1>1, <1>3, <2>1, <2>3 DEF Lone, Reading
    <3> QED
      BY <3>1
  <2>4. D = {} => D' = {}
    BY <1>1
  <2>5. Lone(D)'
    BY <2>2 DEF Lone
  <2>6. Reading(t, e, "dispatch") => D' = {}
    BY <2>3
  <2> QED
    BY <2>4, <2>5, <2>6
<1>5. E = {} \/ EndsOf(t) = {}
  BY <1>3 DEF Handles, InOnePlace
<1>6. /\ Lone(EndsOf(t)')
      /\ E = {} /\ EndsOf(t) = {} => EndsOf(t)' = {}
      /\ EndsOf(t)' # {} => E # {} \/ EndsOf(t) # {}
  <2>1. Lone(E) /\ Lone(EndsOf(t))
    BY DEF Handles, InOnePlace, Lone
  <2>2. ASSUME NEW i \in EndsOf(t)', NEW j \in EndsOf(t)' PROVE i = j
    <3>1. i \in Int /\ j \in Int /\ d \in Int /\ n \in Int
      BY <1>2
    <3>2. CASE E = {}
      <4>1. i + d = j + d
        BY <1>2, <2>1, <3>2 DEF Lone
      <4> QED
        BY <3>1, <4>1
    <3>3. CASE EndsOf(t) = {}
      <4>1. i + d - n = j + d - n
        BY <1>2, <2>1, <3>3 DEF Lone
      <4> QED
        BY <3>1, <4>1
    <3> QED
      BY <1>5, <3>2, <3>3
  <2>3. Lone(EndsOf(t)')
    BY <2>2 DEF Lone
  <2> QED
    BY <1>2, <2>3
<1>7. core' = core
  OBVIOUS
<1>8. Lone(HeldFor(t)')
  BY DEF Handles, InOnePlace, Lone
<1> HIDE DEF E
<1>9. InOnePlace(t)'
  BY <1>3, <1>4, <1>6, <1>7, <1>8 DEF InOnePlace, Handles, Lone, E
<1>10. (D' # {} => D # {}) /\ (HeldFor(t)' # {} => HeldFor(t) # {} \/ 1 \in D)
  BY <1>3, <1>4 DEF Handles
<1>11. Owned(core', t) <=> Owned(core, t)
  BY <1>7
<1>12. ASSUME CancelBehind(t), D' # {} \/ HeldFor(t)' # {}
       PROVE  CancelBehind(t)'
  <2>1. PICK i \in Coming(t, "cancel") : \A j \in D : j < i
    BY <1>12 DEF CancelBehind
  <2>2. i \in Nat /\ i > 0 /\ i \in DOMAIN inbox
    BY DEF Coming, Reads
  <2>3. i > e
    <3> SUFFICES ASSUME e = 1, i = 1 PROVE FALSE
      BY <2>2
    <3>1. inbox[1].id = t /\ inbox[1].cmd = "cancel"
      BY <2>1 DEF Coming
    <3>2. ~Reading(t, e, "dispatch")
      BY <3>1 DEF Reading
    <3>3. HeldFor(t)' = {}
      BY <3>1, <3>2 DEF Handles
    <3>4. ASSUME NEW j \in D PROVE FALSE
      <4>1. j \in Nat /\ j > 0 /\ j < 1
        BY <2>1 DEF Coming, Reads
      <4> QED
        BY <4>1
    <3>5. D = {}
      BY <3>4
    <3> QED
      BY <1>10, <1>12, <3>3, <3>5
  <2>4. i - e \in Coming(t, "cancel")'
    BY <2>1, <2>2, <2>3 DEF Coming, Reads
  <2>5. ASSUME NEW j \in D' PROVE j < i - e
    <3>1. j + e < i /\ j \in Nat /\ e \in Int
      BY <1>1, <2>1
    <3> QED
      BY <2>2, <3>1
  <2> QED
    BY <2>4, <2>5 DEF CancelBehind
<1>13. D' # {} => (Owned(core, t) \/ CancelBehind(t))'
  BY <1>10, <1>11, <1>12 DEF Covered
<1>14. ASSUME HeldFor(t)' # {}, ~core.synced /\ status # <<>>, \A i \in DOMAIN status : Mentions(status[i], t)
       PROVE  (~core.synced /\ status # <<>> /\ \A i \in DOMAIN status : Mentions(status[i], t))'
  <2>1. \A i \in DOMAIN status' : Mentions(status'[i], t)
    BY <1>14
  <2> QED
    BY <1>7, <1>14, <2>1
<1>15. ASSUME HeldFor(t)' # {}
       PROVE  \/ Owned(core, t)' \/ CancelBehind(t)'
              \/ (~core.synced /\ status # <<>> /\ \A i \in DOMAIN status : Mentions(status[i], t))'
  BY <1>10, <1>11, <1>12, <1>14, <1>15 DEF Covered
<1> QED
  BY <1>9, <1>13, <1>15 DEF Covered

\* What is unread after statuses were published: the end of what was, and they.
LEMMA NewsBehind ==
  ASSUME \E S : status \in Seq(S), NEW T, NEW ss \in Seq(T), ss # <<>>, Publish(ss)
  PROVE  /\ Len(status) \in Nat /\ status' # <<>> /\ latched' = <<Last(ss)>>
         /\ \E d \in Nat : \A i \in DOMAIN status' :
               /\ i \in Nat
               /\ \/ i + d \in DOMAIN status /\ status'[i] = status[i + d]
                  \/ i + d - Len(status) \in DOMAIN ss /\ status'[i] = ss[i + d - Len(status)]
<1>1. PICK S : status \in Seq(S)
  OBVIOUS
<1> DEFINE all == status \o ss
           n == Len(status)
<1>2. status \in Seq(S \union T) /\ ss \in Seq(S \union T)
  BY <1>1
<1>3. /\ all \in Seq(S \union T) /\ Len(all) = n + Len(ss)
      /\ \A i \in 1 .. n + Len(ss) : all[i] = IF i <= n THEN status[i] ELSE ss[i - n]
  BY <1>2, ConcatProperties
<1>4. /\ n \in Nat /\ DOMAIN status = 1 .. n
      /\ Len(ss) \in Nat /\ Len(ss) > 0 /\ DOMAIN ss = 1 .. Len(ss)
      /\ Len(all) \in Nat /\ DOMAIN all = 1 .. Len(all)
  BY <1>2, <1>3, LenProperties, EmptySeq
<1>5. status' \in Unread(all) /\ latched' = <<Last(ss)>>
  BY DEF Publish
<1> HIDE DEF all, n
<1>6. \A i \in 1 .. Len(all) : \/ i \in DOMAIN status /\ all[i] = status[i]
                               \/ i - n \in DOMAIN ss /\ all[i] = ss[i - n]
  <2> TAKE i \in 1 .. Len(all)
  <2>1. CASE i <= n
    BY <1>3, <1>4, <2>1
  <2>2. CASE ~(i <= n)
    BY <1>3, <1>4, <2>2
  <2> QED
    BY <2>1, <2>2
<1> DEFINE P == /\ status' # <<>>
                /\ \E d \in Nat : \A i \in DOMAIN status' :
                      i \in Nat /\ i + d \in 1 .. Len(all) /\ status'[i] = all[i + d]
<1>7. P
  <2>1. CASE status' = all
    <3>1. \A i \in DOMAIN status' : i \in Nat /\ i + 0 \in 1 .. Len(all) /\ status'[i] = all[i + 0]
      BY <1>4, <2>1
    <3>2. status' # <<>>
      <4>1. 1 \in DOMAIN status'
        BY <1>3, <1>4, <2>1
      <4> QED
        BY <4>1
    <3> QED
      BY <3>1, <3>2
  <2>2. ASSUME NEW m \in 1 .. Len(all) - StatusDepth + 1, status' = SubSeq(all, m, Len(all))
        PROVE  P
    <3>1. m \in Int /\ m >= 1 /\ m <= Len(all) /\ m - 1 \in Nat
      BY <1>4, DepthAssumption
    <3>2. \A i \in m .. Len(all) : i \in DOMAIN all /\ all[i] \in S \union T
      BY <1>3, <1>4, <3>1
    <3>3. /\ status' \in Seq(S \union T) /\ Len(status') = Len(all) - m + 1
          /\ \A i \in 1 .. Len(all) - m + 1 : status'[i] = all[m + i - 1]
      BY <1>4, <2>2, <3>1, <3>2, SubSeqProperties
    <3>4. DOMAIN status' = 1 .. Len(all) - m + 1
      BY <3>3, LenProperties
    <3>5. ASSUME NEW i \in DOMAIN status'
          PROVE  i \in Nat /\ i + (m - 1) \in 1 .. Len(all) /\ status'[i] = all[i + (m - 1)]
      <4>1. i \in Nat /\ i + (m - 1) = m + i - 1 /\ i + (m - 1) \in 1 .. Len(all)
        BY <1>4, <3>1, <3>4
      <4> QED
        BY <3>3, <3>4, <4>1
    <3>6. status' # <<>>
      <4>1. 1 \in DOMAIN status'
        BY <1>4, <3>1, <3>4
      <4> QED
        BY <4>1
    <3> QED
      BY <3>1, <3>5, <3>6
  <2>3. status' = all \/ \E m \in 1 .. Len(all) - StatusDepth + 1 : status' = SubSeq(all, m, Len(all))
    BY <1>5 DEF Unread
  <2> HIDE DEF P
  <2> QED
    BY <2>1, <2>2, <2>3
<1>8. PICK d \in Nat : \A i \in DOMAIN status' :
                      i \in Nat /\ i + d \in 1 .. Len(all) /\ status'[i] = all[i + d]
  BY <1>7
<1>9. \A i \in DOMAIN status' :
         /\ i \in Nat
         /\ \/ i + d \in DOMAIN status /\ status'[i] = status[i + d]
            \/ i + d - n \in DOMAIN ss /\ status'[i] = ss[i + d - n]
  <2> TAKE i \in DOMAIN status'
  <2>1. i \in Nat /\ i + d \in 1 .. Len(all) /\ status'[i] = all[i + d]
    BY <1>8
  <2> DEFINE x == i + d
  <2>2. \/ x \in DOMAIN status /\ all[x] = status[x]
        \/ x - n \in DOMAIN ss /\ all[x] = ss[x - n]
    BY <1>6, <2>1
  <2>3. x = i + d /\ status'[i] = all[x] /\ x - n = i + d - n
    BY <1>4, <2>1
  <2> HIDE DEF x
  <2>4. \/ i + d \in DOMAIN status /\ status'[i] = status[i + d]
        \/ i + d - n \in DOMAIN ss /\ status'[i] = ss[i + d - n]
    BY <2>2, <2>3
  <2> QED
    BY <2>1, <2>4
<1> HIDE DEF P
<1> QED
  BY <1>4, <1>5, <1>7, <1>9 DEF n, P

\* A step that publishes, and one that does not.
LEMMA PublishCovers ==
  ASSUME CInv, WInv, UNCHANGED core, NEW e \in {0, 1}, Reads(e),
         NEW T, NEW ss \in Seq(T), ss # <<>>, Publish(ss),
         \A j \in DOMAIN ss : \A t \in Fleet : HeldFor(t)' # {} => Mentions(ss[j], t),
         \A t \in Fleet : HeldFor(t)' # {} => ~Ends(Last(ss), t),
         \A t \in Fleet : Handles(t, e, {j \in DOMAIN ss : Ends(ss[j], t)})
  PROVE  WInv'
<1>1. \E S : status \in Seq(S)
  BY DEF CInv, Topics
<1>2. Len(status) \in Nat /\ status' # <<>> /\ latched' = <<Last(ss)>>
  BY <1>1, NewsBehind
<1>3. PICK d \in Nat : \A i \in DOMAIN status' :
         /\ i \in Nat
         /\ \/ i + d \in DOMAIN status /\ status'[i] = status[i + d]
            \/ i + d - Len(status) \in DOMAIN ss /\ status'[i] = ss[i + d - Len(status)]
  BY <1>1, NewsBehind
<1>4. ASSUME NEW t \in Fleet PROVE InOnePlace(t)' /\ Covered(t)'
  <2>1. InOnePlace(t) /\ Covered(t) /\ (status # <<>> => status' # <<>>)
    BY <1>2 DEF WInv
  <2>2. \A j \in DOMAIN ss : HeldFor(t)' # {} => Mentions(ss[j], t)
    OBVIOUS
  <2>3. Handles(t, e, {j \in DOMAIN ss : Ends(ss[j], t)})
    OBVIOUS
  <2> QED
    BY <1>2, <1>3, <2>1, <2>2, <2>3, HandlesCovers
<1>5. Latest'
  <2>1. Len(ss) \in DOMAIN ss /\ Last(ss) = ss[Len(ss)]
    <3>1. Len(ss) \in Nat /\ Len(ss) > 0 /\ DOMAIN ss = 1 .. Len(ss)
      BY LenProperties, EmptySeq
    <3> QED
      BY <3>1 DEF Last
  <2>2. DOMAIN latched' = {1} /\ latched'[1] = Last(ss) /\ latched' # <<>>
    BY <1>2
  <2> QED
    BY <2>1, <2>2 DEF Latest
<1> QED
  BY <1>4, <1>5 DEF WInv

LEMMA SilentCovers ==
  ASSUME CInv, WInv, UNCHANGED <<core, status, latched>>, NEW e \in {0, 1}, Reads(e),
         \A t \in Fleet : HeldFor(t)' \subseteq HeldFor(t),
         \A t \in Fleet : Handles(t, e, {})
  PROVE  WInv'
<1>1. /\ \A j \in DOMAIN <<>> : FALSE
      /\ 0 \in Nat /\ \A i \in DOMAIN status' : i \in Nat /\ i + 0 \in DOMAIN status /\ status'[i] = status[i + 0]
  <2>1. PICK S : status \in Seq(S)
    BY DEF CInv, Topics
  <2> QED
    BY <2>1, LenProperties
<1>2. ASSUME NEW t \in Fleet PROVE InOnePlace(t)' /\ Covered(t)'
  <2>1. {j \in DOMAIN <<>> : Ends(<<>>[j], t)} = {}
    BY <1>1
  <2>3. Handles(t, e, {j \in DOMAIN <<>> : Ends(<<>>[j], t)})
    BY <2>1
  <2>4. InOnePlace(t) /\ Covered(t)
    BY DEF WInv
  <2>5. /\ \A i \in DOMAIN status' :
              /\ i \in Nat
              /\ \/ i + 0 \in DOMAIN status /\ status'[i] = status[i + 0]
                 \/ i + 0 - 0 \in DOMAIN <<>> /\ status'[i] = <<>>[i + 0 - 0]
        /\ status # <<>> => status' # <<>>
        /\ \A j \in DOMAIN <<>> : HeldFor(t)' # {} => Mentions(<<>>[j], t)
    BY <1>1
  <2> QED
    BY <1>1, <2>3, <2>4, <2>5, HandlesCovers
<1>3. Latest'
  BY DEF WInv, Latest
<1> QED
  BY <1>2, <1>3 DEF WInv

\* What a status shows and ends.
LEMMA StatusMentions ==
  ASSUME NEW n \in Nat, NEW jobs, NEW q, q \subseteq 1 .. n, NEW k, NEW st, NEW t,
         \/ \E x \in q : jobs[x].id = t
         \/ k # 0 /\ jobs[k].id = t /\ st \notin Finals \union {"IDLE"}
  PROVE  Mentions(StatusOf(k, st, jobs, q), t)
<1>1. CASE \E x \in q : jobs[x].id = t
  BY <1>1, QueueTold DEF Mentions, StatusOf
<1>2. CASE k # 0 /\ jobs[k].id = t /\ st \notin Finals \union {"IDLE"}
  BY <1>2 DEF Mentions, StatusOf
<1> QED
  BY <1>1, <1>2

LEMMA StatusEnds ==
  ASSUME NEW jobs, NEW q, NEW k, NEW st, NEW t \in Fleet
  PROVE  Ends(StatusOf(k, st, jobs, q), t) => k # 0 /\ jobs[k].id = t /\ st \in Finals
BY IdAssumption DEF Ends, StatusOf

\* One status is published.
LEMMA OneCovers ==
  ASSUME CInv, WInv, UNCHANGED core, NEW e \in {0, 1}, Reads(e), NEW s, Publish(<<s>>),
         \A t \in Fleet : HeldFor(t)' # {} => Mentions(s, t) /\ ~Ends(s, t),
         \A t \in Fleet : \/ ~Ends(s, t) /\ Handles(t, e, {})
                          \/ Ends(s, t) /\ Handles(t, e, {1})
  PROVE  WInv'
<1>1. <<s>> \in Seq({s}) /\ <<s>> # <<>> /\ DOMAIN <<s>> = {1} /\ <<s>>[1] = s /\ Last(<<s>>) = s
  BY DEF Last
<1>2. ASSUME NEW t \in Fleet PROVE Handles(t, e, {j \in DOMAIN <<s>> : Ends(<<s>>[j], t)})
  <2>1. CASE Ends(s, t)
    <3>1. {j \in DOMAIN <<s>> : Ends(<<s>>[j], t)} = {1}
      BY <1>1, <2>1
    <3> QED
      BY <2>1, <3>1
  <2>2. CASE ~Ends(s, t)
    <3>1. {j \in DOMAIN <<s>> : Ends(<<s>>[j], t)} = {}
      BY <1>1, <2>2
    <3> QED
      BY <2>2, <3>1
  <2> QED
    BY <2>1, <2>2
<1>3. \A j \in DOMAIN <<s>> : \A t \in Fleet : HeldFor(t)' # {} => Mentions(<<s>>[j], t)
  BY <1>1
<1>4. \A t \in Fleet : HeldFor(t)' # {} => ~Ends(Last(<<s>>), t)
  BY <1>1
<1> QED
  BY <1>1, <1>2, <1>3, <1>4, PublishCovers

\* Of the task whose command is read, if one is, the command cancels all.
Cancels(e) == e = 1 => /\ inbox[1].cmd = "cancel"
                       /\ \A t \in Fleet : inbox[1].id = t => HeldFor(t)' = {}

\* task_manager tells what it holds, which has become no more.
LEMMA TellCovers ==
  ASSUME CInv, WInv, UNCHANGED core, NEW e \in {0, 1}, Reads(e), Cancels(e), UNCHANGED job,
         NEW k, NEW st, NEW q, q \subseteq JobId, Publish(<<StatusOf(k, st, job, q)>>),
         st \notin Finals, k # 0 => st # "IDLE",
         Held' = q \union ({k} \ {0}), Held' \subseteq Held
  PROVE  WInv'
<1> DEFINE s == StatusOf(k, st, job, q)
<1>1. Len(job) \in Nat /\ q \subseteq 1 .. Len(job)
  BY DEF CInv, DInv, Shapes, JobId
<1>2. ASSUME NEW t \in Fleet
      PROVE  ~Ends(s, t) /\ (HeldFor(t)' # {} => Mentions(s, t)) /\ Handles(t, e, {})
  <2>1. ~Ends(s, t)
    BY StatusEnds
  <2>2. HeldFor(t)' # {} => Mentions(s, t)
    <3>1. ASSUME NEW x \in HeldFor(t)' PROVE Mentions(s, t)
      <4>1. x \in Held' /\ job[x].id = t
        BY <3>1 DEF HeldFor
      <4> QED
        BY <1>1, <4>1, StatusMentions
    <3> QED
      BY <3>1
  <2>3. HeldFor(t)' \subseteq HeldFor(t)
    BY DEF HeldFor
  <2> QED
    BY <2>1, <2>2, <2>3 DEF Handles, Cancels
<1> HIDE DEF s
<1> QED
  BY <1>2, OneCovers DEF s

\* A task that is held ends with a status.
LEMMA EndCovers ==
  ASSUME CInv, WInv, UNCHANGED core, NEW e \in {0, 1}, Reads(e), Cancels(e),
         NEW k \in Held, NEW final \in Finals, NEW q, q \subseteq queue, k \notin q,
         EndTask(k, final, q)
  PROVE  WInv'
<1> DEFINE s == StatusOf(k, final, job, q)
           i == StatusOf(0, "IDLE", job, q)
<1>1. Publish(<<s, i>>) /\ cur' = 0 /\ queue' = q /\ UNCHANGED job
  BY DEF EndTask
<1>2. Held' = q /\ Held' \subseteq Held /\ Len(job) \in Nat /\ q \subseteq 1 .. Len(job) /\ k # 0
  BY <1>1 DEF Held, CInv, DInv, Shapes, JobId
<1>3. ASSUME NEW t \in Fleet
      PROVE  /\ ~Ends(i, t) /\ (Ends(s, t) => job[k].id = t)
             /\ HeldFor(t)' # {} => Mentions(s, t) /\ Mentions(i, t)
  <2>1. ~Ends(i, t) /\ (Ends(s, t) => job[k].id = t)
    BY StatusEnds
  <2>2. ASSUME NEW x \in HeldFor(t)' PROVE Mentions(s, t) /\ Mentions(i, t)
    <3>1. x \in q /\ job[x].id = t
      BY <1>1, <1>2, <2>2 DEF HeldFor
    <3> QED
      BY <1>2, <3>1, StatusMentions
  <2> QED
    BY <2>1, <2>2
<1> HIDE DEF s, i
<1>4. /\ <<s, i>> \in Seq({s, i}) /\ <<s, i>> # <<>> /\ DOMAIN <<s, i>> = {1, 2}
      /\ <<s, i>>[1] = s /\ <<s, i>>[2] = i /\ Last(<<s, i>>) = i
  BY DEF Last
<1>5. ASSUME NEW t \in Fleet PROVE Handles(t, e, {j \in DOMAIN <<s, i>> : Ends(<<s, i>>[j], t)})
  <2> DEFINE E == {j \in DOMAIN <<s, i>> : Ends(<<s, i>>[j], t)}
  <2>1. E \subseteq {1} /\ (1 \in E => job[k].id = t)
    BY <1>3, <1>4
  <2> HIDE DEF E
  <2>2. HeldFor(t)' \subseteq HeldFor(t)
    BY <1>1, <1>2 DEF HeldFor
  <2>3. ASSUME E = {} PROVE Handles(t, e, E)
    <3>1. e = 1 /\ inbox[1].id = t => inbox[1].cmd = "cancel" /\ HeldFor(t)' = {}
      BY DEF Cancels
    <3> QED
      BY <2>2, <2>3, <3>1 DEF Handles
  <2>4. ASSUME 1 \in E PROVE Handles(t, e, E)
    <3>1. k \in HeldFor(t)
      BY <2>1, <2>4 DEF HeldFor
    <3>2. \A x \in HeldFor(t)' : x \in HeldFor(t) /\ x # k
      BY <1>2, <2>2 DEF HeldFor
    <3>3. HeldFor(t)' = {}
      BY <3>1, <3>2 DEF WInv, InOnePlace, Lone
    <3>4. Lone(E)
      BY <2>1 DEF Lone
    <3> QED
      BY <3>1, <3>3, <3>4 DEF Handles
  <2> QED
    BY <2>1, <2>3, <2>4 DEF E
<1>6. \A j \in DOMAIN <<s, i>> : \A t \in Fleet : HeldFor(t)' # {} => Mentions(<<s, i>>[j], t)
  BY <1>3, <1>4
<1>7. \A t \in Fleet : HeldFor(t)' # {} => ~Ends(Last(<<s, i>>), t)
  BY <1>3, <1>4
<1> QED
  BY <1>1, <1>4, <1>5, <1>6, <1>7, PublishCovers

\* The handlers of task_manager.
LEMMA StartCovers ==
  ASSUME CInv, WInv, UNCHANGED <<core, inbox>>, NEW k \in Held, NEW leg \in NavStates, NEW q,
         q \subseteq queue, k \notin q, Held = q \union {k}, StartNav(k, leg, q)
  PROVE  WInv'
<1>1. Reads(0) /\ Cancels(0)
  BY ReadsNone DEF CInv, Topics, Cancels
<1>2. CASE NavStarted(k, leg, q)
  <2>1. /\ Publish(<<StatusOf(k, leg, job, q)>>)
        /\ cur' = k /\ state' = leg /\ queue' = q /\ UNCHANGED job
    BY <1>2 DEF NavStarted
  <2>2. q \subseteq JobId /\ k # 0 /\ 0 \notin q
    BY DEF CInv, DInv, Shapes, JobId, Held
  <2>3. Held' = q \union ({k} \ {0}) /\ Held' \subseteq Held
    BY <2>1, <2>2 DEF Held
  <2>4. leg \notin Finals /\ leg # "IDLE"
    BY DEF NavStates, Finals
  <2> QED
    BY <1>1, <2>1, <2>2, <2>3, <2>4, TellCovers
<1>3. CASE NavGone(k, q)
  BY <1>1, <1>3, EndCovers DEF NavGone, Finals
<1> QED
  BY <1>2, <1>3 DEF StartNav

LEMMA CancelCovers ==
  ASSUME CInv, WInv, UNCHANGED core, NEW e \in {0, 1}, Reads(e), NEW ts, CancelTasks(ts),
         e = 1 => inbox[1].cmd = "cancel" /\ inbox[1].id \in ts
  PROVE  WInv'
<1>1. Kept(ts) \subseteq queue /\ \A k \in Kept(ts) : job[k].id \notin ts
  BY DEF Kept, Targeted
<1>2. queue \subseteq JobId /\ 0 \notin queue
  BY DEF CInv, DInv, Shapes, JobId
<1>3. CASE StopsCurrent(ts) /\ EndTask(cur, "CANCELLED", Kept(ts))
  <2>1. cur' = 0 /\ queue' = Kept(ts) /\ UNCHANGED job
    BY <1>3 DEF EndTask
  <2>2. Cancels(e)
    BY <1>1, <1>2, <2>1 DEF Cancels, HeldFor, Held
  <2>3. cur \in Held /\ cur \notin Kept(ts)
    BY <1>1, <1>3 DEF StopsCurrent, Held, CInv, DInv, IdleOrBusy
  <2> QED
    BY <1>1, <1>3, <2>2, <2>3, EndCovers DEF Finals
<1>4. CASE /\ ~StopsCurrent(ts) /\ queue' = Kept(ts)
           /\ Publish(<<StatusOf(cur, state, job, Kept(ts))>>)
           /\ UNCHANGED <<job, cur, state>>
  <2>1. Held' = Kept(ts) \union ({cur} \ {0}) /\ Held' \subseteq Held
    BY <1>1, <1>4 DEF Held
  <2>2. \A k \in Held' : job'[k].id \notin ts
    BY <1>1, <1>4, <2>1 DEF StopsCurrent, Targeted
  <2>3. Cancels(e)
    BY <2>2 DEF Cancels, HeldFor
  <2>4. Kept(ts) \subseteq JobId /\ state \notin Finals /\ (cur # 0 => state # "IDLE")
    BY <1>1, <1>2 DEF CInv, DInv, Shapes, IdleOrBusy, NavStates, DwellStates, Finals
  <2> QED
    BY <1>4, <2>1, <2>3, <2>4, TellCovers
<1>5. CASE ~StopsCurrent(ts) /\ Kept(ts) = queue /\ UNCHANGED <<managerVars, statusVars>>
  <2>1. UNCHANGED <<job, queue, cur, state, status, latched>>
    BY <1>5 DEF managerVars, statusVars
  <2>2. Held' = Held /\ \A t : HeldFor(t)' = HeldFor(t)
    BY <2>1 DEF Held, HeldFor
  <2>3. \A k \in Held : job[k].id \notin ts
    BY <1>1, <1>5 DEF StopsCurrent, Targeted, Held
  <2>4. ASSUME NEW t \in Fleet PROVE Handles(t, e, {}) /\ HeldFor(t)' \subseteq HeldFor(t)
    <3>1. HeldFor(t)' \subseteq HeldFor(t)
      BY <2>2
    <3>2. e = 1 /\ inbox[1].id = t => inbox[1].cmd = "cancel" /\ HeldFor(t) = {}
      BY <2>3 DEF HeldFor
    <3>3. e = 1 /\ inbox[1].id = t => inbox[1].cmd = "cancel" /\ HeldFor(t)' = {}
      BY <2>2, <3>2
    <3> QED
      BY <3>1, <3>3 DEF Handles
  <2> QED
    BY <2>1, <2>4, SilentCovers
<1> QED
  BY <1>3, <1>4, <1>5 DEF CancelTasks

LEMMA EnqueueCovers ==
  ASSUME CInv, WInv, UNCHANGED core, NEW t0, NEW c, Enqueue(t0, c), NEW e \in {0, 1}, Reads(e),
         e = 0 => t0 \in Hand,
         e = 1 => inbox[1].cmd = "dispatch" /\ inbox[1].id = t0
  PROVE  WInv'
<1> DEFINE n == Len(job) + 1
           s == StatusOf(cur, state, job', queue')
           x == [id |-> t0, carrying |-> c]
<1>1. /\ job' = Append(job, x) /\ goal' = Append(goal, NoGoal)
      /\ queue' = queue \union {n} /\ UNCHANGED <<cur, state>> /\ Publish(<<s>>)
  BY DEF Enqueue
<1>2. /\ n \notin JobId /\ Len(job) \in Nat /\ n \in Nat
  BY <1>1, OneMore DEF CInv, DInv
<1>3. job'[n].id = t0 /\ \A k \in JobId : job'[k] = job[k]
  <2>1. PICK S : job \in Seq(S)
    BY DEF CInv, DInv, Shapes
  <2>2. job \in Seq(S \union {x})
    BY <2>1
  <2>3. job'[n] = x /\ \A k \in JobId : job'[k] = job[k]
    BY <1>1, <2>2, AppendProperties DEF JobId
  <2> QED
    BY <2>3
<1>4. Held \subseteq JobId /\ Held' = Held \union {n} /\ queue' \subseteq 1 .. n
  <2>1. queue \subseteq JobId /\ cur \in JobId \union {0}
    BY DEF CInv, DInv, Shapes
  <2>2. JobId \subseteq 1 .. n /\ n \in 1 .. n
    BY <1>2 DEF JobId
  <2> HIDE DEF n
  <2> QED
    BY <1>1, <2>1, <2>2 DEF Held
<1>5. state \notin Finals /\ (cur # 0 => state # "IDLE" /\ cur \in Held')
  BY <1>1 DEF CInv, DInv, Shapes, IdleOrBusy, NavStates, DwellStates, Finals, Held
<1>6. ASSUME NEW t \in Fleet
      PROVE  ~Ends(s, t) /\ (HeldFor(t)' # {} => Mentions(s, t)) /\ Handles(t, e, {})
  <2>1. ~Ends(s, t)
    BY <1>5, StatusEnds
  <2>2. HeldFor(t)' # {} => Mentions(s, t)
    <3>1. ASSUME NEW k \in HeldFor(t)' PROVE Mentions(s, t)
      <4>1. job'[k].id = t /\ (k \in queue' \/ (k = cur /\ cur # 0))
        BY <1>1, <3>1 DEF HeldFor, Held
      <4> QED
        BY <1>2, <1>4, <1>5, <4>1, StatusMentions
    <3> QED
      BY <3>1
  <2>3. CASE t # t0
    <3>1. HeldFor(t)' \subseteq HeldFor(t)
      BY <1>3, <1>4, <2>3 DEF HeldFor
    <3> QED
      BY <2>1, <2>2, <2>3, <3>1 DEF Handles
  <2>4. CASE t = t0
    <3>1. e = 1 /\ Reading(t, e, "dispatch")
      BY <2>4, IdAssumption DEF Reading
    <3>2. 1 \in Coming(t, "dispatch")
      BY <3>1 DEF Reading, Reads, Coming
    <3>3. HeldFor(t) = {}
      BY <3>2 DEF WInv, InOnePlace
    <3>4. \A k \in HeldFor(t)' : k = n
      BY <1>3, <1>4, <3>3 DEF HeldFor
    <3>5. Lone(HeldFor(t)')
      BY <3>4 DEF Lone
    <3> QED
      BY <2>1, <2>2, <3>1, <3>5 DEF Handles
  <2> QED
    BY <2>3, <2>4
<1> HIDE DEF s
<1> QED
  BY <1>1, <1>6, OneCovers

LEMMA DispatchCovers ==
  ASSUME CInv, WInv, OnDispatch, UNCHANGED core
  PROVE  WInv'
<1>1. /\ Reads(1) /\ Head(inbox) = inbox[1] /\ inbox[1].cmd = "dispatch"
  BY ReadsOne DEF OnDispatch, CInv, Topics, Reads
<1>2. CASE Enqueue(Head(inbox).id, Head(inbox).carrying)
  BY <1>1, <1>2, EnqueueCovers
<1> DEFINE t0 == inbox[1].id
           o == StatusOf(cur, state, job, queue)
           s == [o EXCEPT !.rej = t0]
<1>3. CASE Publish(<<s>>) /\ UNCHANGED managerVars
  <2>1. UNCHANGED <<job, queue, cur, state>>
    BY <1>3 DEF managerVars
  <2>2. \A t : HeldFor(t)' = HeldFor(t)
    BY <2>1 DEF HeldFor, Held
  <2>3. Len(job) \in Nat /\ queue \subseteq 1 .. Len(job)
    BY DEF CInv, DInv, Shapes, JobId
  <2>4. state \notin Finals /\ (cur # 0 => state # "IDLE")
    BY DEF CInv, DInv, Shapes, IdleOrBusy, NavStates, DwellStates, Finals
  <2>5. s.rej = t0 /\ s.id = o.id /\ s.st = o.st /\ s.queue = o.queue /\ o.st = state
    BY DEF StatusOf
  <2>6. ASSUME NEW t \in Fleet
        PROVE  /\ Ends(s, t) => t = t0
               /\ HeldFor(t)' # {} => Mentions(s, t) /\ ~Ends(s, t)
               /\ ~Ends(s, t) => t # t0
    <3>1. Ends(s, t) <=> t = t0
      BY <2>4, <2>5 DEF Ends
    <3>2. ASSUME NEW k \in HeldFor(t) PROVE Mentions(s, t) /\ t # t0
      <4>1. job[k].id = t /\ (k \in queue \/ (k = cur /\ cur # 0))
        BY <3>2 DEF HeldFor, Held
      <4>2. Mentions(o, t)
        BY <2>3, <2>4, <4>1, StatusMentions
      <4>3. t = t0 => 1 \in Coming(t, "dispatch")
        BY <1>1 DEF Reads, Coming
      <4>4. t # t0
        BY <3>2, <4>3 DEF WInv, InOnePlace
      <4> HIDE DEF o, s
      <4> QED
        BY <2>5, <4>2, <4>4 DEF Mentions
    <3> QED
      BY <2>2, <3>1, <3>2
  <2> HIDE DEF s
  <2>7. ASSUME NEW t \in Fleet
        PROVE  \/ ~Ends(s, t) /\ Handles(t, 1, {})
               \/ Ends(s, t) /\ Handles(t, 1, {1})
    <3>1. CASE Ends(s, t)
      <4>1. Reading(t, 1, "dispatch") /\ HeldFor(t)' \subseteq HeldFor(t) /\ Lone({1})
        BY <1>1, <2>2, <2>6, <3>1 DEF Reading, Lone
      <4> QED
        BY <3>1, <4>1 DEF Handles
    <3>2. CASE ~Ends(s, t)
      BY <2>2, <2>6, <3>2 DEF Handles
    <3> QED
      BY <3>1, <3>2
  <2> QED
    BY <1>1, <1>3, <2>6, <2>7, OneCovers
<1> QED
  BY <1>1, <1>2, <1>3 DEF OnDispatch

\* Neither what is held nor the topics change.
LEMMA StillCovers ==
  ASSUME CInv, WInv, UNCHANGED <<core, inbox, status, latched, job>>, Held' = Held
  PROVE  WInv'
<1>1. Reads(0)
  BY ReadsNone DEF CInv, Topics
<1>2. \A t : HeldFor(t)' = HeldFor(t)
  BY DEF HeldFor
<1>3. \A t \in Fleet : Handles(t, 0, {}) /\ HeldFor(t)' \subseteq HeldFor(t)
  BY <1>2 DEF Handles
<1> QED
  BY <1>1, <1>3, SilentCovers

LEMMA ResponseCovers ==
  ASSUME CInv, WInv, NEW k \in JobId, OnGoalResponse(k), UNCHANGED core
  PROVE  WInv'
<1>1. inbox' = inbox /\ Reads(0) /\ Cancels(0)
  BY ReadsNone DEF OnGoalResponse, CInv, Topics, Cancels
<1>2. CASE StaleResponse(k) \/ Accepted(k)
  <2>1. UNCHANGED <<job, queue, cur, state, status, latched>>
    BY <1>2 DEF StaleResponse, Accepted, managerVars, statusVars
  <2>2. Held' = Held
    BY <2>1 DEF Held
  <2> QED
    BY <1>1, <2>1, <2>2, StillCovers
<1>3. CASE Requeued(k)
  <2>1. /\ k = cur /\ queue' = queue \union {k} /\ cur' = 0
        /\ Publish(<<StatusOf(0, "IDLE", job, queue')>>) /\ UNCHANGED job
    BY <1>3 DEF Requeued
  <2>2. k # 0 /\ queue' \subseteq JobId
    BY <2>1 DEF CInv, DInv, Shapes, JobId
  <2>3. Held' = queue' \union ({0} \ {0}) /\ Held' \subseteq Held
    BY <2>1, <2>2 DEF Held
  <2> QED
    BY <1>1, <2>1, <2>2, <2>3, TellCovers DEF Finals
<1>4. CASE Refused(k)
  <2>1. k = cur /\ EndTask(k, "FAILED", queue)
    BY <1>4 DEF Refused
  <2>2. k \in Held /\ k \notin queue
    BY <2>1 DEF CInv, DInv, Shapes, IdleOrBusy, JobId, Held
  <2> QED
    BY <1>1, <2>1, <2>2, EndCovers DEF Finals
<1> QED
  BY <1>2, <1>3, <1>4 DEF OnGoalResponse

LEMMA ResultCovers ==
  ASSUME CInv, WInv, NEW k \in JobId, OnNavResult(k), UNCHANGED core
  PROVE  WInv'
<1>1. inbox' = inbox /\ Reads(0) /\ Cancels(0)
  BY ReadsNone DEF OnNavResult, CInv, Topics, Cancels
<1>2. CASE UNCHANGED <<managerVars, statusVars>>
  <2>1. UNCHANGED <<job, queue, cur, status, latched>>
    BY <1>2 DEF managerVars, statusVars
  <2>2. Held' = Held
    BY <2>1 DEF Held
  <2> QED
    BY <1>1, <2>1, <2>2, StillCovers
<1>3. k = cur => k \in Held /\ k \notin queue /\ k # 0
  BY DEF CInv, DInv, Shapes, IdleOrBusy, JobId, Held
<1>4. CASE k = cur /\ Arrived(k)
  <2>1. /\ state' \in DwellStates
        /\ Publish(<<StatusOf(k, state', job, queue)>>)
        /\ UNCHANGED <<job, queue, cur>>
    BY <1>4 DEF Arrived, DwellStates
  <2>2. Held' = queue \union ({k} \ {0}) /\ Held' \subseteq Held /\ queue \subseteq JobId
    BY <1>4, <2>1 DEF Held, CInv, DInv, Shapes
  <2>3. state' \notin Finals /\ state' # "IDLE"
    BY <2>1 DEF DwellStates, Finals
  <2> QED
    BY <1>1, <2>1, <2>2, <2>3, TellCovers
<1>5. CASE k = cur /\ EndTask(k, "DONE", queue)
  BY <1>1, <1>3, <1>5, EndCovers DEF Finals
<1>6. CASE k = cur /\ EndTask(k, "FAILED", queue)
  BY <1>1, <1>3, <1>6, EndCovers DEF Finals
<1> QED
  BY <1>2, <1>4, <1>5, <1>6 DEF OnNavResult

\* task_manager, Nav2 and a person.
LEMMA RobotCovers ==
  ASSUME CInv, WInv, RobotStep
  PROVE  WInv'
<1>1. UNCHANGED core
  BY DEF RobotStep
<1>2. CASE OnDispatch
  BY <1>1, <1>2, DispatchCovers
<1>3. CASE OnCancel
  <2>1. Reads(1) /\ Head(inbox) = inbox[1] /\ inbox[1].cmd = "cancel"
    BY <1>3, ReadsOne DEF OnCancel, CInv, Topics, Reads
  <2> QED
    BY <1>1, <1>3, <2>1, CancelCovers DEF OnCancel
<1>4. CASE Pop
  <2>1. PICK k \in queue : StartNav(k, FirstLeg(k), queue \ {k})
    BY <1>4 DEF Pop
  <2>2. k \in Held /\ Held = (queue \ {k}) \union {k} /\ FirstLeg(k) \in NavStates
    BY <1>4 DEF Pop, Held, FirstLeg, NavStates, CInv, DInv, IdleOrBusy
  <2> QED
    BY <1>1, <1>4, <2>1, <2>2, StartCovers DEF Pop
<1>5. CASE DwellOver
  <2>1. cur \in Held /\ cur \notin queue /\ Held = queue \union {cur}
    BY <1>5 DEF DwellOver, Held, CInv, DInv, IdleOrBusy
  <2>2. Reads(0) /\ Cancels(0) /\ UNCHANGED inbox
    BY <1>5, ReadsNone DEF DwellOver, CInv, Topics, Cancels
  <2> QED
    BY <1>1, <1>5, <2>1, <2>2, StartCovers, EndCovers DEF DwellOver, NavStates, Finals
<1>6. ASSUME NEW k \in JobId, OnGoalResponse(k) \/ OnNavResult(k) PROVE WInv'
  BY <1>1, <1>6, ResponseCovers, ResultCovers
<1>7. CASE NavStep
  <2>1. UNCHANGED <<job, queue, cur, state, status, latched, inbox>>
    BY <1>7 DEF NavStep, NavAccept, NavReject, NavFinish, NavStop, managerVars, statusVars
  <2>2. Held' = Held
    BY <2>1 DEF Held
  <2> QED
    BY <1>1, <2>1, <2>2, StillCovers
<1>8. CASE PersonStep
  <2>1. inbox' = inbox /\ Reads(0)
    BY <1>8, ReadsNone DEF PersonStep, HandDispatch, HandCancel, CInv, Topics
  <2>2. ASSUME NEW h \in Hand, HandDispatch(h) PROVE WInv'
    <3>1. Enqueue(h, FALSE)
      BY <2>2 DEF HandDispatch
    <3>2. 0 # 1 /\ 0 \in {0, 1}
      OBVIOUS
    <3> QED
      BY <1>1, <2>1, <2>2, <3>1, <3>2, EnqueueCovers, Zenon
  <2>3. ASSUME NEW ts, HandCancel(ts) PROVE WInv'
    BY <1>1, <2>1, <2>3, CancelCovers DEF HandCancel
  <2> QED
    BY <1>8, <2>2, <2>3 DEF PersonStep
<1> QED
  BY <1>2, <1>3, <1>4, <1>5, <1>6, <1>7, <1>8 DEF RobotStep, ManagerStep

\* What a status makes of what is owned and due for a retry.
RetryOwned(c) == \A f \in Fleet : f \in c.retry => c.own[f] = "committed"

LEMMA ReportOwns ==
  ASSUME NEW R, NEW C, NEW Y,
         NEW c \in [own : [Fleet -> Owners], retry : R, cancelling : C, synced : Y],
         RetryOwned(c), NEW t, NEW st
  PROVE  /\ RetryOwned(Report(c, t, st)) /\ Report(c, t, st).synced = c.synced
         /\ \A f \in Fleet : Owned(c, f) => Owned(Report(c, t, st), f) \/ (f = t /\ st \in Finals)
         /\ \A f \in Fleet : f \in Report(c, t, st).retry => f \in c.retry \/ (f = t /\ st \in Finals)
<1> DEFINE K(R2, C2) == [own : [Fleet -> Owners], retry : R2, cancelling : C2, synced : Y]
           P(d) == /\ RetryOwned(d) /\ d.synced = c.synced
                   /\ \A f \in Fleet : Owned(c, f) => Owned(d, f) \/ (f = t /\ st \in Finals)
                   /\ \A f \in Fleet : f \in d.retry => f \in c.retry \/ (f = t /\ st \in Finals)
<1>1. P(c)
  OBVIOUS
<1>2. P([c EXCEPT !.cancelling = @ \ {t}])
  <2> DEFINE d == [c EXCEPT !.cancelling = @ \ {t}]
  <2>1. d.own = c.own /\ d.retry = c.retry /\ d.synced = c.synced
    OBVIOUS
  <2> HIDE DEF d
  <2>2. P(d)
    BY <2>1 DEF RetryOwned, Owned
  <2> QED
    BY <2>2 DEF d
<1>3. ASSUME st \in Finals PROVE P(Over(c, t))
  <2> DEFINE d == [c EXCEPT !.own[t] = "over", !.retry = @ \ {t}]
  <2>1. d.own = [c.own EXCEPT ![t] = "over"] /\ d.retry = c.retry \ {t} /\ d.synced = c.synced
    OBVIOUS
  <2> HIDE DEF d
  <2>2. \A f \in Fleet : f # t => d.own[f] = c.own[f]
    BY <2>1
  <2>3. P(d)
    BY <1>3, <2>1, <2>2 DEF RetryOwned, Owned
  <2>4. d = Over(c, t)
    BY DEF Over, d
  <2> QED
    BY <2>3, <2>4
<1>4. P([c EXCEPT !.own[t] = "committed"])
  <2> DEFINE d == [c EXCEPT !.own[t] = "committed"]
  <2>1. d.own = [c.own EXCEPT ![t] = "committed"] /\ d.retry = c.retry /\ d.synced = c.synced
    OBVIOUS
  <2> HIDE DEF d
  <2>2. \A f \in Fleet : (f # t => d.own[f] = c.own[f]) /\ (f = t => d.own[f] = "committed")
    BY <2>1
  <2>3. P(d)
    BY <2>1, <2>2 DEF RetryOwned, Owned
  <2> QED
    BY <2>3 DEF d
<1>5. ASSUME st \in Finals PROVE P(Failed(c, t))
  <2> DEFINE d == [c EXCEPT !.retry = @ \union {t}]
             e == [c EXCEPT !.own[t] = "free"]
  <2>1. d.own = c.own /\ d.retry = c.retry \union {t} /\ d.synced = c.synced
    OBVIOUS
  <2>2. e.own = [c.own EXCEPT ![t] = "free"] /\ e.retry = c.retry /\ e.synced = c.synced
    OBVIOUS
  <2> HIDE DEF d, e
  <2>3. c.own[t] = "committed" => P(d)
    BY <1>5, <2>1 DEF RetryOwned, Owned
  <2>4. \A f \in Fleet : f # t => e.own[f] = c.own[f]
    BY <2>2
  <2>5. c.own[t] # "committed" => P(e)
    BY <1>5, <2>2, <2>4 DEF RetryOwned, Owned
  <2>6. Failed(c, t) = IF c.own[t] = "committed" THEN d ELSE e
    BY DEF Failed, d, e
  <2> QED
    BY <2>3, <2>5, <2>6
<1> HIDE DEF P
<1>6. P(Report(c, t, st))
  <2>1. CASE st = "CANCELLED"
    BY <1>1, <1>2, <1>3, <2>1 DEF Report, Finals, OnBoard
  <2>2. CASE st \in OnBoard
    <3>1. Report(c, t, st) = IF Owned(c, t) THEN [c EXCEPT !.own[t] = "committed"] ELSE c
      BY <2>2 DEF Report, OnBoard
    <3> QED
      BY <1>1, <1>4, <3>1
  <2>3. CASE st = "DONE"
    BY <1>1, <1>3, <2>3 DEF Report, Finals, OnBoard
  <2>4. CASE st = "FAILED"
    BY <1>1, <1>5, <2>4 DEF Report, Finals, OnBoard
  <2>5. CASE st \notin OnBoard \union {"CANCELLED", "DONE", "FAILED"}
    BY <1>1, <2>5 DEF Report
  <2> QED
    BY <2>1, <2>2, <2>3, <2>4, <2>5
<1> QED
  BY <1>6 DEF P

LEMMA ReportedOwns ==
  ASSUME NEW R, NEW C, NEW Y,
         NEW c \in [own : [Fleet -> Owners], retry : R, cancelling : C, synced : Y],
         RetryOwned(c), NEW s
  PROVE  /\ RetryOwned(Reported(c, s)) /\ Reported(c, s).synced = c.synced
         /\ \A f \in Fleet : Owned(c, f) => Owned(Reported(c, s), f) \/ Ends(s, f)
         /\ \A f \in Fleet : f \in Reported(c, s).retry => f \in c.retry \/ Ends(s, f)
<1>1. CASE s.rej # None
  <2>1. Reported(c, s) = Report(c, s.rej, "FAILED")
    BY <1>1 DEF Reported
  <2> QED
    BY <2>1, ReportOwns DEF Ends
<1>2. CASE s.rej = None /\ s.id \in Fleet
  <2>1. Reported(c, s) = Report(c, s.id, s.st)
    BY <1>2 DEF Reported
  <2> QED
    BY <2>1, ReportOwns DEF Ends
<1>3. CASE s.rej = None /\ s.id \notin Fleet
  <2>1. Reported(c, s) = c
    BY <1>3 DEF Reported
  <2> QED
    BY <2>1
<1> QED
  BY <1>1, <1>2, <1>3

LEMMA AdoptOwns ==
  ASSUME NEW R, NEW C, NEW Y,
         NEW c \in [own : [Fleet -> Owners], retry : R, cancelling : C, synced : Y],
         RetryOwned(c), NEW s
  PROVE  /\ RetryOwned(Adopt(c, s)) /\ Adopt(c, s).synced = TRUE
         /\ \A f \in Fleet : Owned(c, f) \/ Told(s, f) => Owned(Adopt(c, s), f)
<1> DEFINE o == [t \in Fleet |-> IF t = s.id /\ s.st \in OnBoard THEN "committed" ELSE c.own[t]]
           z == c.cancelling \union ToSet(Strangers(s))
           d == [c EXCEPT !.synced = TRUE, !.own = o, !.cancelling = z]
<1>1. Adopt(c, s) = d
  BY DEF Adopt
<1>2. o \in [Fleet -> Owners]
  BY DEF Owners
<1> HIDE DEF z
<1>3. d.own = o /\ d.retry = c.retry /\ d.synced = TRUE
  BY <1>2
<1> HIDE DEF d
<1> QED
  BY <1>1, <1>3 DEF RetryOwned, Owned, Told

\* The commands that are sent come behind those that wait, in their order.
LEMMA SentInOrder ==
  ASSUME \E S : inbox \in Seq(S), NEW n \in Nat, NEW cmds, cmds = [i \in 1 .. n |-> cmds[i]],
         Send(cmds)
  PROVE  /\ Len(inbox) \in Nat /\ \A i \in DOMAIN inbox : i <= Len(inbox) /\ i \in DOMAIN inbox' /\ inbox'[i] = inbox[i]
         /\ \A i \in DOMAIN inbox' : i \notin DOMAIN inbox =>
               i - Len(inbox) \in 1 .. n /\ inbox'[i] = cmds[i - Len(inbox)] /\ i \in Nat
         /\ \A j \in 1 .. n : Len(inbox) + j \in DOMAIN inbox' /\ inbox'[Len(inbox) + j] = cmds[j]
<1>1. PICK S : inbox \in Seq(S)
  OBVIOUS
<1> DEFINE T == {cmds[i] : i \in 1 .. n}
           m == Len(inbox)
<1>2. cmds \in [1 .. n -> T]
  OBVIOUS
<1>3. cmds \in Seq(T) /\ Len(cmds) = n
  BY <1>2, SeqDef, LenProperties
<1> HIDE DEF T
<1>4. inbox \in Seq(S \union T) /\ cmds \in Seq(S \union T)
  BY <1>1, <1>3
<1>5. /\ inbox' \in Seq(S \union T) /\ Len(inbox') = m + n
      /\ \A i \in 1 .. m + n : inbox'[i] = IF i <= m THEN inbox[i] ELSE cmds[i - m]
  BY <1>3, <1>4, ConcatProperties DEF Send
<1>6. m \in Nat /\ DOMAIN inbox = 1 .. m /\ DOMAIN inbox' = 1 .. m + n
  BY <1>4, <1>5, LenProperties
<1> HIDE DEF m
<1>7. \A i \in DOMAIN inbox : i <= m /\ i \in DOMAIN inbox' /\ inbox'[i] = inbox[i]
  <2> TAKE i \in DOMAIN inbox
  <2>1. i \in 1 .. m + n /\ i <= m
    BY <1>6
  <2>2. inbox'[i] = inbox[i]
    BY <1>5, <2>1
  <2> QED
    BY <1>6, <2>1, <2>2
<1>8. \A i \in DOMAIN inbox' : i \notin DOMAIN inbox =>
         i - m \in 1 .. n /\ inbox'[i] = cmds[i - m] /\ i \in Nat
  <2> TAKE i \in DOMAIN inbox'
  <2> HAVE i \notin DOMAIN inbox
  <2>1. i \in 1 .. m + n /\ ~(i <= m) /\ i - m \in 1 .. n /\ i \in Nat
    BY <1>6
  <2>2. inbox'[i] = cmds[i - m]
    BY <1>5, <2>1
  <2> QED
    BY <2>1, <2>2
<1>9. ASSUME NEW j \in 1 .. n PROVE m + j \in DOMAIN inbox' /\ inbox'[m + j] = cmds[j]
  <2>1. m + j \in 1 .. m + n /\ ~(m + j <= m) /\ (m + j) - m = j
    BY <1>6
  <2> QED
    BY <1>5, <1>6, <2>1
<1> QED
  BY <1>6, <1>7, <1>8, <1>9 DEF m

\* A cancel of task t was sent in this step, behind everything; statuses were read up to
\* d; a status that ends t was among them.
CancelSent(t) == \E i \in DOMAIN inbox' \ DOMAIN inbox : inbox'[i].id = t /\ inbox'[i].cmd = "cancel"
HeardEnd(t, d) == d = 1 /\ 1 \in EndsOf(t)
ShownAll(t) == ~core.synced /\ status # <<>> /\ \A i \in DOMAIN status : Mentions(status[i], t)

\* fleet_tasks orders at most cancels of task t, and loses it only to one or to its end.
LEMMA OrdersCovers ==
  ASSUME NEW t \in Fleet, InOnePlace(t), Covered(t), UNCHANGED <<job, queue, cur>>,
         NEW m \in Nat, \A i \in DOMAIN inbox : i <= m /\ i \in DOMAIN inbox' /\ inbox'[i] = inbox[i],
         \A i \in DOMAIN inbox' : i \notin DOMAIN inbox =>
             i > m /\ i \in Nat /\ (inbox'[i].id = t => inbox'[i].cmd = "cancel"),
         \A i \in DOMAIN inbox : i \in Nat,
         NEW d \in {0, 1}, \A i \in EndsOf(t)' : i \in Nat /\ i > 0 /\ i + d \in EndsOf(t),
         t \in core'.retry => core'.own[t] = "committed" /\ (t \in core.retry \/ HeardEnd(t, d)),
         Owned(core, t) => Owned(core', t) \/ HeardEnd(t, d) \/ CancelSent(t),
         HeldFor(t) # {} /\ ShownAll(t) =>
             ShownAll(t)' \/ Owned(core', t) \/ HeardEnd(t, d) \/ CancelSent(t)
  PROVE  InOnePlace(t)' /\ Covered(t)'
<1> DEFINE D == Coming(t, "dispatch")
<1>1. HeldFor(t)' = HeldFor(t)
  BY DEF HeldFor, Held
<1>2. D' = D
  BY DEF Coming
<1>3. HeardEnd(t, d) => EndsOf(t)' = {} /\ EndsOf(t) # {} /\ HeldFor(t) = {} /\ D = {}
  <2> SUFFICES ASSUME d = 1, 1 \in EndsOf(t)
               PROVE  EndsOf(t)' = {} /\ EndsOf(t) # {} /\ HeldFor(t) = {} /\ D = {}
    BY DEF HeardEnd
  <2>1. ASSUME NEW i \in EndsOf(t)' PROVE FALSE
    <3>1. i + 1 = 1 /\ i \in Nat /\ i > 0
      BY DEF InOnePlace, Lone
    <3> QED
      BY <3>1
  <2> QED
    BY <2>1 DEF InOnePlace
<1>4. Lone(EndsOf(t)') /\ (EndsOf(t)' # {} => EndsOf(t) # {})
  <2>1. ASSUME NEW i \in EndsOf(t)', NEW j \in EndsOf(t)' PROVE i = j
    <3>1. i + d = j + d /\ i \in Nat /\ j \in Nat /\ d \in Int
      BY DEF InOnePlace, Lone
    <3> QED
      BY <3>1
  <2> QED
    BY <2>1 DEF Lone
<1>5. InOnePlace(t)'
  BY <1>1, <1>2, <1>3, <1>4 DEF InOnePlace
<1>6. CancelSent(t) \/ CancelBehind(t) => CancelBehind(t)'
  <2>1. ASSUME CancelSent(t) PROVE CancelBehind(t)'
    <3>1. PICK i \in DOMAIN inbox' \ DOMAIN inbox : inbox'[i].id = t /\ inbox'[i].cmd = "cancel"
      BY <2>1 DEF CancelSent
    <3>2. \A j \in D : j <= m /\ j \in Nat
      BY DEF Coming
    <3>3. \A j \in D : j < i
      BY <3>1, <3>2
    <3> QED
      BY <1>2, <3>1, <3>3 DEF CancelBehind, Coming
  <2>2. ASSUME CancelBehind(t) PROVE CancelBehind(t)'
    <3>1. PICK i \in Coming(t, "cancel") : \A j \in D : j < i
      BY <2>2 DEF CancelBehind
    <3>2. i \in Coming(t, "cancel")'
      BY DEF Coming
    <3> QED
      BY <1>2, <3>1, <3>2 DEF CancelBehind
  <2> QED
    BY <2>1, <2>2
<1>7. D' # {} => (Owned(core, t) \/ CancelBehind(t))'
  BY <1>2, <1>3, <1>6 DEF Covered
<1>8. HeldFor(t)' # {} => (Owned(core, t) \/ CancelBehind(t) \/ ShownAll(t))'
  BY <1>1, <1>3, <1>6 DEF Covered, ShownAll
<1> QED
  BY <1>5, <1>7, <1>8 DEF Covered, ShownAll

\* The last status published goes on telling what is held.
LEMMA LatestStays == Latest /\ UNCHANGED <<latched, job, queue, cur>> => Latest'
BY DEF Latest, HeldFor, Held

LEMMA StatusCovers ==
  ASSUME CInv, WInv, OnTaskStatus
  PROVE  WInv'
<1> DEFINE s == Head(status)
           first == ~core.synced
           base == IF first THEN Adopt(core, s) ELSE core
           cmds == IF first THEN [i \in DOMAIN Strangers(s) |-> CancelOf(Strangers(s)[i])] ELSE <<>>
<1>1. /\ status # <<>> /\ core' = Reported(base, s) /\ Send(cmds)
      /\ status' = Tail(status) /\ UNCHANGED <<latched, job, queue, cur>>
  BY DEF OnTaskStatus, managerVars
<1>2. /\ 1 \in DOMAIN status /\ s = status[1]
      /\ \A i \in DOMAIN status' : i \in Nat /\ i > 0 /\ i + 1 \in DOMAIN status /\ status'[i] = status[i + 1]
  <2>1. PICK S : status \in Seq(S)
    BY DEF CInv, Topics
  <2>2. /\ Len(status) \in Nat /\ Len(status) > 0 /\ DOMAIN status = 1 .. Len(status)
        /\ s = status[1] /\ status' \in Seq(S) /\ Len(status') = Len(status) - 1
        /\ \A i \in 1 .. Len(status') : status'[i] = status[i + 1]
    BY <1>1, <2>1, HeadTailProperties, LenProperties, EmptySeq
  <2>3. DOMAIN status' = 1 .. Len(status) - 1
    BY <2>2, LenProperties
  <2> HIDE DEF s
  <2> QED
    BY <2>2, <2>3
<1>3. Listed(s)
  BY <1>2 DEF CInv, Topics
<1> HIDE DEF s
<1>4. PICK n \in Nat : /\ cmds = [i \in 1 .. n |-> cmds[i]]
                       /\ \A j \in 1 .. n : cmds[j].cmd = "cancel"
                       /\ first => DOMAIN Strangers(s) = 1 .. n
                                   /\ \A j \in 1 .. n : cmds[j].id = Strangers(s)[j]
  <2>1. CASE first
    <3>1. PICK n \in Nat : DOMAIN Strangers(s) = 1 .. n
      BY <1>3, StrangersAreMany
    <3>2. cmds = [i \in 1 .. n |-> CancelOf(Strangers(s)[i])]
      BY <2>1, <3>1
    <3>3. \A j \in 1 .. n : cmds[j].cmd = "cancel" /\ cmds[j].id = Strangers(s)[j]
      BY <3>2 DEF CancelOf
    <3> QED
      BY <3>1, <3>2, <3>3
  <2>2. CASE ~first
    <3>1. cmds = [i \in 1 .. 0 |-> cmds[i]]
      BY <2>2
    <3> QED
      BY <2>2, <3>1
  <2> QED
    BY <2>1, <2>2
<1> HIDE DEF cmds
<1> DEFINE m == Len(inbox)
<1>5. /\ m \in Nat /\ \A i \in DOMAIN inbox : i <= m /\ i \in DOMAIN inbox' /\ inbox'[i] = inbox[i]
      /\ \A i \in DOMAIN inbox' : i \notin DOMAIN inbox =>
             i - m \in 1 .. n /\ inbox'[i] = cmds[i - m] /\ i \in Nat
      /\ \A j \in 1 .. n : m + j \in DOMAIN inbox' /\ inbox'[m + j] = cmds[j]
  BY <1>1, <1>4, SentInOrder DEF CInv, Topics
<1>6. \A i \in DOMAIN inbox : i \in Nat
  BY LenProperties DEF CInv, Topics
<1> HIDE DEF m
<1>7. \A i \in DOMAIN inbox' : i \notin DOMAIN inbox => i > m /\ i \in Nat /\ inbox'[i].cmd = "cancel"
  <2> TAKE i \in DOMAIN inbox'
  <2> HAVE i \notin DOMAIN inbox
  <2>1. i - m \in 1 .. n /\ inbox'[i] = cmds[i - m] /\ i \in Nat
    BY <1>5
  <2> QED
    BY <1>4, <1>5, <2>1
<1>8. RetryOwned(core)
  BY DEF RetryOwned, WInv, InOnePlace
<1>9. PICK R, C, Y : core \in [own : [Fleet -> Owners], retry : R, cancelling : C, synced : Y]
  BY DEF CInv, CoreShape
<1>10. /\ \E R2, C2, Y2 : base \in [own : [Fleet -> Owners], retry : R2, cancelling : C2, synced : Y2]
       /\ RetryOwned(base) /\ base.synced = TRUE /\ base.retry = core.retry
       /\ \A f \in Fleet : Owned(core, f) \/ (first /\ Told(s, f)) => Owned(base, f)
  <2>1. CASE first
    <3>1. base = Adopt(core, s)
      BY <2>1
    <3> HIDE DEF base
    <3>2. \E R2, C2, Y2 : Adopt(core, s) \in
              [own : [Fleet -> Owners], retry : R2, cancelling : C2, synced : Y2]
      BY <1>9, AdoptsTold
    <3>3. \A f \in Fleet : Owned(core, f) \/ Told(s, f) => Owned(Adopt(core, s), f)
      BY <1>8, <1>9, AdoptOwns
    <3>4. RetryOwned(Adopt(core, s))
      BY <1>8, <1>9, AdoptOwns
    <3>5. Adopt(core, s).retry = core.retry
      <4> DEFINE o == [t \in Fleet |-> IF t = s.id /\ s.st \in OnBoard THEN "committed" ELSE core.own[t]]
                 z == core.cancelling \union ToSet(Strangers(s))
      <4>1. Adopt(core, s) = [core EXCEPT !.synced = TRUE, !.own = o, !.cancelling = z]
        BY DEF Adopt
      <4> HIDE DEF o, z
      <4> QED
        BY <1>9, <4>1
    <3>6. Adopt(core, s).synced = TRUE
      BY <1>8, <1>9, AdoptOwns
    <3> QED
      BY <3>1, <3>2, <3>3, <3>4, <3>5, <3>6
  <2>2. CASE ~first
    <3>1. base = core /\ core.synced
      BY <2>2
    <3>2. core.synced = TRUE
      BY <3>1, <1>9
    <3> QED
      BY <1>8, <1>9, <2>2, <3>1, <3>2
  <2> QED
    BY <2>1, <2>2
<1> HIDE DEF base
<1>11. /\ RetryOwned(core') /\ core'.synced = TRUE
       /\ \A f \in Fleet : Owned(base, f) => Owned(core', f) \/ Ends(s, f)
       /\ \A f \in Fleet : f \in core'.retry => f \in core.retry \/ Ends(s, f)
  BY <1>1, <1>10, ReportedOwns
<1>12. ASSUME NEW t \in Fleet PROVE InOnePlace(t)' /\ Covered(t)'
  <2>1. InOnePlace(t) /\ Covered(t)
    BY DEF WInv
  <2>2. \A i \in EndsOf(t)' : i \in Nat /\ i > 0 /\ i + 1 \in EndsOf(t)
    BY <1>2 DEF EndsOf
  <2>3. Ends(s, t) <=> HeardEnd(t, 1)
    BY <1>2 DEF HeardEnd, EndsOf
  <2>4. t \in core'.retry => core'.own[t] = "committed" /\ (t \in core.retry \/ HeardEnd(t, 1))
    BY <1>11, <2>3 DEF RetryOwned
  <2>5. Owned(core, t) => Owned(core', t) \/ HeardEnd(t, 1) \/ CancelSent(t)
    BY <1>10, <1>11, <2>3
  <2>6. ASSUME ShownAll(t) PROVE Owned(core', t) \/ HeardEnd(t, 1) \/ CancelSent(t)
    <3>1. first /\ Mentions(s, t)
      BY <1>2, <2>6 DEF ShownAll
    <3>2. CASE Told(s, t)
      BY <1>10, <1>11, <2>3, <3>1, <3>2
    <3>3. CASE ~Told(s, t)
      <4>1. PICK j \in DOMAIN Strangers(s) : Strangers(s)[j] = t
        BY <1>3, <3>1, <3>3, StrangersTold
      <4>2. j \in 1 .. n /\ cmds[j].id = t /\ cmds[j].cmd = "cancel"
        BY <1>4, <3>1, <4>1
      <4>3. m + j \in DOMAIN inbox' /\ inbox'[m + j] = cmds[j] /\ m + j > m
        BY <1>5, <4>2
      <4>4. m + j \notin DOMAIN inbox
        BY <1>5, <1>6, <4>2, <4>3
      <4> QED
        BY <4>2, <4>3, <4>4 DEF CancelSent
    <3> QED
      BY <3>2, <3>3
  <2>7. UNCHANGED <<job, queue, cur>> /\ 1 \in {0, 1} /\ m \in Nat
    BY <1>1, <1>5
  <2> QED
    BY <1>5, <1>6, <1>7, <2>1, <2>2, <2>4, <2>5, <2>6, <2>7, OrdersCovers
<1>13. Latest'
  BY <1>1, LatestStays DEF WInv
<1> QED
  BY <1>12, <1>13 DEF WInv

\* Nothing was left of the task, and it is ordered once.
LEMMA OrderedCovers ==
  ASSUME NEW t \in Fleet, UNCHANGED <<job, queue, cur, status>>, HeldFor(t) = {}, EndsOf(t) = {},
         Lone(Coming(t, "dispatch")'), t \notin core'.retry, Owned(core', t)
  PROVE  InOnePlace(t)' /\ Covered(t)'
<1>1. HeldFor(t)' = {} /\ EndsOf(t)' = {}
  BY DEF HeldFor, Held, EndsOf
<1>2. InOnePlace(t)'
  BY <1>1 DEF InOnePlace, Lone
<1>3. Covered(t)'
  BY <1>1 DEF Covered
<1> QED
  BY <1>2, <1>3

\* No task is listed twice.
LEMMA SetListedOnce ==
  ASSUME NEW S, IsFiniteSet(S)
  PROVE  \A i, j \in 1 .. Cardinality(S) : SetToSeq(S)[i] = SetToSeq(S)[j] => i = j
<1>1. Cardinality(S) \in Nat /\ ExistsBijection(1 .. Cardinality(S), S)
  BY FS_CardinalityType
<1>2. \E f \in [1 .. Cardinality(S) -> S] : IsInjective(f)
  BY <1>1 DEF ExistsBijection, Bijection, Injection, IsInjective
<1>3. SetToSeq(S) \in [1 .. Cardinality(S) -> S] /\ IsInjective(SetToSeq(S))
  BY <1>2 DEF SetToSeq
<1> QED
  BY <1>3 DEF IsInjective

\* What is not ordered, and does not change hands, is where it was.
LEMMA UntouchedCovers ==
  ASSUME CInv, NEW t \in Fleet, InOnePlace(t), Covered(t), UNCHANGED <<job, queue, cur, status>>,
         NEW m \in Nat, \A i \in DOMAIN inbox : i <= m /\ i \in DOMAIN inbox' /\ inbox'[i] = inbox[i],
         \A i \in DOMAIN inbox' : i \notin DOMAIN inbox =>
             i > m /\ i \in Nat /\ (inbox'[i].id = t => inbox'[i].cmd = "cancel"),
         core'.synced = core.synced,
         t \in core'.retry => t \in core.retry /\ core'.own[t] = core.own[t],
         Owned(core, t) => Owned(core', t) \/ CancelSent(t)
  PROVE  InOnePlace(t)' /\ Covered(t)'
<1>1. \A i \in DOMAIN inbox : i \in Nat
  BY LenProperties DEF CInv, Topics
<1>2. \A i \in EndsOf(t)' : i \in Nat /\ i > 0 /\ i + 0 \in EndsOf(t)
  <2>1. \A i \in DOMAIN status : i \in Nat /\ i > 0 /\ i + 0 = i
    BY LenProperties DEF CInv, Topics
  <2> QED
    BY <2>1 DEF EndsOf
<1>3. t \in core'.retry => core'.own[t] = "committed" /\ t \in core.retry
  BY DEF InOnePlace
<1>4. ShownAll(t) => ShownAll(t)'
  BY DEF ShownAll
<1>5. 0 \in {0, 1}
  OBVIOUS
<1> QED
  BY <1>1, <1>2, <1>3, <1>4, <1>5, OrdersCovers

LEMMA TickCovers ==
  ASSUME CInv, WInv, NEW due \in SUBSET Fleet, FleetTick(due)
  PROVE  WInv'
<1> DEFINE ts == SetToSeq(due)
           n == Cardinality(due)
           m == Len(inbox)
           cmds == [i \in DOMAIN ts |-> DispatchOf(ts[i], TRUE)]
<1>1. /\ due \subseteq {t \in core.retry : core.own[t] = "committed"}
      /\ UNCHANGED <<status, latched, job, queue, cur>>
      /\ Send(cmds)
  BY DEF FleetTick, statusVars, managerVars
<1>2. /\ n \in Nat /\ ts \in [1 .. n -> due]
      /\ \A i, j \in 1 .. n : ts[i] = ts[j] => i = j
  BY IdAssumption, FS_Subset, SetListed, SetListedOnce
<1> HIDE DEF ts, n
<1>3. cmds = [i \in 1 .. n |-> cmds[i]] /\ \A j \in 1 .. n : cmds[j] = DispatchOf(ts[j], TRUE)
  BY <1>2
<1> HIDE DEF cmds
<1>4. \A j \in 1 .. n : cmds[j].id = ts[j] /\ cmds[j].id \in due
  <2> TAKE j \in 1 .. n
  <2>1. ts[j] \in due
    BY <1>2
  <2> QED
    BY <1>3, <2>1 DEF DispatchOf
<1>5. /\ m \in Nat /\ \A i \in DOMAIN inbox : i <= m /\ i \in DOMAIN inbox' /\ inbox'[i] = inbox[i]
      /\ \A i \in DOMAIN inbox' : i \notin DOMAIN inbox =>
             i - m \in 1 .. n /\ inbox'[i] = cmds[i - m] /\ i \in Nat
  BY <1>1, <1>2, <1>3, SentInOrder DEF CInv, Topics
<1> HIDE DEF m
<1>6. core'.own = core.own /\ core'.retry = core.retry \ due /\ core'.synced = core.synced
  <2> DEFINE r == core.retry \ due
             g == {t \in core.cancelling : core.own[t] # "unknown"}
  <2>1. core' = [core EXCEPT !.retry = r, !.cancelling = g]
    BY DEF FleetTick
  <2> HIDE DEF r, g
  <2>2. PICK R, C, Y : core \in [own : [Fleet -> Owners], retry : R, cancelling : C, synced : Y]
    BY DEF CInv, CoreShape
  <2>3. core'.own = core.own /\ core'.retry = r /\ core'.synced = core.synced
    BY <2>1, <2>2
  <2> QED
    BY <2>3 DEF r
<1>7. ASSUME NEW t \in Fleet PROVE InOnePlace(t)' /\ Covered(t)'
  <2>1. InOnePlace(t) /\ Covered(t)
    BY DEF WInv
  <2>2. CASE t \in due
    <3>1. t \in core.retry /\ core.own[t] = "committed"
      BY <1>1, <2>2
    <3>2. HeldFor(t) = {} /\ EndsOf(t) = {} /\ Coming(t, "dispatch") = {}
      BY <2>1, <3>1 DEF InOnePlace
    <3>3. ASSUME NEW i \in Coming(t, "dispatch")'
          PROVE  i \in Nat /\ i - m \in 1 .. n /\ ts[i - m] = t
      <4>1. i \in DOMAIN inbox' /\ inbox'[i].id = t /\ inbox'[i].cmd = "dispatch"
        BY DEF Coming
      <4>2. i \notin DOMAIN inbox
        BY <1>5, <3>2, <4>1 DEF Coming
      <4> QED
        BY <1>4, <1>5, <4>1, <4>2
    <3>4. Lone(Coming(t, "dispatch")')
      <4>1. ASSUME NEW i \in Coming(t, "dispatch")', NEW j \in Coming(t, "dispatch")' PROVE i = j
        <5>1. i - m = j - m /\ i \in Nat /\ j \in Nat
          BY <1>2, <3>3
        <5> QED
          BY <1>5, <5>1
      <4> QED
        BY <4>1 DEF Lone
    <3>5. t \notin core'.retry /\ Owned(core', t)
      BY <1>6, <2>2, <3>1 DEF Owned
    <3> QED
      BY <1>1, <3>2, <3>4, <3>5, OrderedCovers
  <2>3. CASE t \notin due
    <3>1. \A i \in DOMAIN inbox' : i \notin DOMAIN inbox => i > m /\ i \in Nat /\ inbox'[i].id # t
      <4> TAKE i \in DOMAIN inbox'
      <4> HAVE i \notin DOMAIN inbox
      <4>1. i - m \in 1 .. n /\ inbox'[i] = cmds[i - m] /\ i \in Nat
        BY <1>5
      <4> QED
        BY <1>4, <1>5, <2>3, <4>1
    <3>2. /\ t \in core'.retry => t \in core.retry /\ core'.own[t] = core.own[t]
          /\ Owned(core, t) => Owned(core', t)
      BY <1>6 DEF Owned
    <3> QED
      BY <1>1, <1>5, <1>6, <2>1, <3>1, <3>2, UntouchedCovers
  <2> QED
    BY <2>2, <2>3
<1>8. Latest'
  BY <1>1, LatestStays DEF WInv
<1> QED
  BY <1>7, <1>8 DEF WInv

\* fleet_tasks starts again: the status it finds shows all that is held.
LEMMA RestartCovers ==
  ASSUME CInv, WInv, Restart
  PROVE  WInv'
<1> DEFINE o == [t \in Fleet |-> IF core.own[t] = "over" THEN "over" ELSE "unknown"]
<1>1. /\ core' = [NewCore EXCEPT !.own = o] /\ status' = latched /\ inbox = <<>>
      /\ UNCHANGED <<inbox, latched, job, queue, cur>>
  BY DEF Restart, managerVars
<1> HIDE DEF o
<1>2. core'.retry = {} /\ ~core'.synced
  BY <1>1 DEF NewCore
<1>3. Latest'
  BY <1>1, LatestStays DEF WInv
<1>4. Latest
  BY DEF WInv
<1>5. ASSUME NEW t \in Fleet PROVE InOnePlace(t)' /\ Covered(t)'
  <2>1. HeldFor(t)' = HeldFor(t) /\ Coming(t, "dispatch")' = {}
    BY <1>1 DEF HeldFor, Held, Coming
  <2>2. EndsOf(t)' = {i \in DOMAIN latched : Ends(latched[i], t)}
    BY <1>1 DEF EndsOf
  <2>3. Lone(EndsOf(t)') /\ (HeldFor(t)' # {} => EndsOf(t)' = {})
    BY <1>4, <2>1, <2>2 DEF Latest, Lone
  <2>4. Lone(HeldFor(t))
    BY DEF WInv, InOnePlace
  <2>5. HeldFor(t)' # {} => status' # <<>> /\ \A i \in DOMAIN status' : Mentions(status'[i], t)
    BY <1>1, <1>4, <2>1 DEF Latest
  <2>6. InOnePlace(t)'
    BY <1>2, <2>1, <2>3, <2>4 DEF InOnePlace, Lone
  <2>7. Covered(t)'
    BY <1>2, <2>1, <2>5 DEF Covered
  <2> QED
    BY <2>6, <2>7
<1> QED
  BY <1>3, <1>5 DEF WInv

LEMMA WinCovers ==
  ASSUME CInv, WInv, NEW t0 \in Fleet, Win(t0)
  PROVE  WInv'
<1> DEFINE cmds == <<DispatchOf(t0, FALSE)>>
           m == Len(inbox)
<1>1. /\ core.own[t0] \in {"unknown", "free"} /\ Settled(t0)
      /\ core' = [core EXCEPT !.own[t0] = "mine"] /\ Send(cmds)
      /\ UNCHANGED <<status, latched, job, queue, cur>>
  BY DEF Win, statusVars, managerVars
<1>2. cmds = [i \in 1 .. 1 |-> cmds[i]] /\ \A j \in 1 .. 1 : cmds[j].id = t0
  BY DEF DispatchOf
<1> HIDE DEF cmds
<1>3. /\ m \in Nat /\ \A i \in DOMAIN inbox : i <= m /\ i \in DOMAIN inbox' /\ inbox'[i] = inbox[i]
      /\ \A i \in DOMAIN inbox' : i \notin DOMAIN inbox =>
             i - m \in 1 .. 1 /\ inbox'[i] = cmds[i - m] /\ i \in Nat
  BY <1>1, <1>2, SentInOrder DEF CInv, Topics
<1> HIDE DEF m
<1>4. \A i \in DOMAIN inbox' : i \notin DOMAIN inbox => i = m + 1 /\ i > m /\ i \in Nat /\ inbox'[i].id = t0
  <2> TAKE i \in DOMAIN inbox'
  <2> HAVE i \notin DOMAIN inbox
  <2>1. i - m \in 1 .. 1 /\ inbox'[i] = cmds[i - m] /\ i \in Nat
    BY <1>3
  <2> QED
    BY <1>2, <1>3, <2>1
<1>5. /\ core'.own = [core.own EXCEPT ![t0] = "mine"] /\ core'.retry = core.retry
      /\ core'.synced = core.synced
  BY <1>1
<1>6. PICK R, C, Y : core \in [own : [Fleet -> Owners], retry : R, cancelling : C, synced : Y]
  BY DEF CInv, CoreShape
<1>7. ASSUME NEW t \in Fleet PROVE InOnePlace(t)' /\ Covered(t)'
  <2>1. InOnePlace(t) /\ Covered(t)
    BY DEF WInv
  <2>2. CASE t = t0
    <3>1. HeldFor(t) = {} /\ Coming(t, "dispatch") = {} /\ EndsOf(t) = {}
      BY <1>1, <2>2 DEF Settled, Coming, About, EndsOf, Ends
    <3>2. t \notin core'.retry
      BY <1>1, <1>5, <2>1, <2>2 DEF InOnePlace
    <3>3. Lone(Coming(t, "dispatch")')
      BY <1>3, <1>4, <3>1 DEF Lone, Coming
    <3>4. Owned(core', t)
      BY <1>5, <1>6, <2>2 DEF Owned
    <3> QED
      BY <1>1, <3>1, <3>2, <3>3, <3>4, OrderedCovers
  <2>3. CASE t # t0
    <3>1. core'.own[t] = core.own[t]
      BY <1>5, <1>6, <2>3
    <3>2. /\ t \in core'.retry => t \in core.retry /\ core'.own[t] = core.own[t]
          /\ Owned(core, t) => Owned(core', t)
      BY <1>5, <3>1 DEF Owned
    <3>3. \A i \in DOMAIN inbox' : i \notin DOMAIN inbox => i > m /\ i \in Nat /\ inbox'[i].id # t
      BY <1>4, <2>3
    <3> QED
      BY <1>1, <1>3, <1>5, <2>1, <3>2, <3>3, UntouchedCovers
  <2> QED
    BY <2>2, <2>3
<1>8. Latest'
  BY <1>1, LatestStays DEF WInv
<1> QED
  BY <1>7, <1>8 DEF WInv

LEMMA LoseCovers ==
  ASSUME CInv, WInv, NEW t0 \in Fleet, Lose(t0) \/ Withdrawn(t0)
  PROVE  WInv'
<1> DEFINE cmds == <<CancelOf(t0)>>
           m == Len(inbox)
           r == core.retry \ {t0}
           g == core.cancelling \union {t0}
<1>1. /\ \E o \in {"free", "over"} :
            \/ core' = [core EXCEPT !.own[t0] = o, !.retry = r, !.cancelling = g] /\ Send(cmds)
            \/ core' = [core EXCEPT !.own[t0] = o] /\ ~Owned(core, t0) /\ inbox' = inbox
      /\ UNCHANGED <<status, latched, job, queue, cur>>
  BY DEF Lose, Withdrawn, CancelLocal, statusVars, managerVars
<1>2. cmds = [i \in 1 .. 1 |-> cmds[i]] /\ \A j \in 1 .. 1 : cmds[j].id = t0 /\ cmds[j].cmd = "cancel"
  BY DEF CancelOf
<1> HIDE DEF cmds, r, g
<1>3. PICK o \in {"free", "over"} :
            \/ core' = [core EXCEPT !.own[t0] = o, !.retry = r, !.cancelling = g] /\ Send(cmds)
            \/ core' = [core EXCEPT !.own[t0] = o] /\ ~Owned(core, t0) /\ inbox' = inbox
  BY <1>1
<1>4. PICK R, C, Y : core \in [own : [Fleet -> Owners], retry : R, cancelling : C, synced : Y]
  BY DEF CInv, CoreShape
<1>5. core'.own = [core.own EXCEPT ![t0] = o] /\ core'.synced = core.synced
  <2>1. CASE core' = [core EXCEPT !.own[t0] = o, !.retry = r, !.cancelling = g]
    BY <1>4, <2>1
  <2>2. CASE core' = [core EXCEPT !.own[t0] = o]
    BY <1>4, <2>2
  <2> QED
    BY <1>3, <2>1, <2>2
<1>6. t0 \notin core'.retry /\ core'.retry \subseteq core.retry
  <2>1. CASE core' = [core EXCEPT !.own[t0] = o, !.retry = r, !.cancelling = g]
    <3>1. core'.retry = r
      BY <1>4, <2>1
    <3> QED
      BY <3>1 DEF r
  <2>2. CASE core' = [core EXCEPT !.own[t0] = o] /\ ~Owned(core, t0)
    <3>1. core'.retry = core.retry
      BY <2>2
    <3>2. t0 \notin core.retry
      BY <2>2 DEF WInv, InOnePlace, Owned
    <3> QED
      BY <3>1, <3>2
  <2> QED
    BY <1>3, <2>1, <2>2
<1>7. /\ m \in Nat /\ \A i \in DOMAIN inbox : i <= m /\ i \in Nat
      /\ \A i \in DOMAIN inbox : i \in DOMAIN inbox' /\ inbox'[i] = inbox[i]
      /\ \A i \in DOMAIN inbox' : i \notin DOMAIN inbox => i > m /\ i \in Nat /\ inbox'[i].cmd = "cancel"
      /\ Owned(core, t0) => CancelSent(t0)
  <2>1. m \in Nat /\ \A i \in DOMAIN inbox : i <= m /\ i \in Nat
    BY LenProperties DEF CInv, Topics
  <2>2. CASE Send(cmds)
    <3>1. /\ \A i \in DOMAIN inbox : i <= m /\ i \in DOMAIN inbox' /\ inbox'[i] = inbox[i]
          /\ \A i \in DOMAIN inbox' : i \notin DOMAIN inbox =>
                i - m \in 1 .. 1 /\ inbox'[i] = cmds[i - m] /\ i \in Nat
          /\ \A j \in 1 .. 1 : m + j \in DOMAIN inbox' /\ inbox'[m + j] = cmds[j]
      <4>1. (\E S : inbox \in Seq(S)) /\ 1 \in Nat
        BY DEF CInv, Topics
      <4> QED
        BY <1>2, <2>2, <4>1, SentInOrder
    <3> HIDE DEF m
    <3>2. \A i \in DOMAIN inbox' : i \notin DOMAIN inbox => i > m /\ i \in Nat /\ inbox'[i].cmd = "cancel"
      <4> TAKE i \in DOMAIN inbox'
      <4> HAVE i \notin DOMAIN inbox
      <4>1. i - m \in 1 .. 1 /\ inbox'[i] = cmds[i - m] /\ i \in Nat
        BY <3>1
      <4> QED
        BY <1>2, <2>1, <4>1
    <3>3. m + 1 \in DOMAIN inbox' /\ inbox'[m + 1].id = t0 /\ inbox'[m + 1].cmd = "cancel"
      BY <1>2, <3>1
    <3>4. m + 1 \notin DOMAIN inbox
      BY <2>1
    <3>5. CancelSent(t0)
      BY <3>3, <3>4 DEF CancelSent
    <3> QED
      BY <2>1, <3>1, <3>2, <3>5
  <2>3. CASE inbox' = inbox /\ ~Owned(core, t0)
    BY <2>1, <2>3
  <2> QED
    BY <1>3, <2>2, <2>3
<1> HIDE DEF m
<1>8. ASSUME NEW t \in Fleet PROVE InOnePlace(t)' /\ Covered(t)'
  <2>1. InOnePlace(t) /\ Covered(t)
    BY DEF WInv
  <2>2. t # t0 => core'.own[t] = core.own[t]
    BY <1>4, <1>5
  <2>3. /\ t \in core'.retry => t \in core.retry /\ core'.own[t] = core.own[t]
        /\ Owned(core, t) => Owned(core', t) \/ CancelSent(t)
    BY <1>6, <1>7, <2>2 DEF Owned
  <2> QED
    BY <1>1, <1>5, <1>7, <2>1, <2>3, UntouchedCovers
<1>9. Latest'
  BY <1>1, LatestStays DEF WInv
<1> QED
  BY <1>8, <1>9 DEF WInv

LEMMA WInvStarts == Init => WInv
<1> SUFFICES ASSUME Init PROVE WInv
  OBVIOUS
<1>1. /\ inbox = <<>> /\ status = <<>> /\ job = <<>> /\ queue = {} /\ cur = 0
      /\ latched = <<>> \/ latched = <<StatusOf(0, "IDLE", <<>>, {})>>
      /\ core = NewCore \/ core = [NewCore EXCEPT !.synced = TRUE]
  BY DEF Init, ManagerInit
<1>2. core.retry = {}
  BY <1>1 DEF NewCore
<1>3. \A t : HeldFor(t) = {} /\ Coming(t, "dispatch") = {} /\ EndsOf(t) = {}
  BY <1>1 DEF HeldFor, Held, Coming, EndsOf
<1>4. \A i, j \in DOMAIN latched : i = j
  <2> DEFINE s == StatusOf(0, "IDLE", <<>>, {})
  <2>1. latched = <<>> \/ latched = <<s>>
    BY <1>1
  <2> HIDE DEF s
  <2> QED
    BY <2>1
<1> QED
  BY <1>2, <1>3, <1>4 DEF WInv, Latest, InOnePlace, Lone, Covered

LEMMA WInvStep == CInv /\ WInv /\ [Next]_vars => WInv'
<1> SUFFICES ASSUME CInv, WInv, [Next]_vars PROVE WInv'
  OBVIOUS
<1>1. CASE UNCHANGED vars
  <2>1. UNCHANGED <<inbox, status, latched, job, queue, cur, core>>
    BY <1>1 DEF vars, statusVars, managerVars
  <2>2. Held' = Held
    BY <2>1 DEF Held
  <2> QED
    BY <2>1, <2>2, StillCovers
<1>2. CASE RobotStep
  BY <1>2, RobotCovers
<1>3. CASE AuctionStep
  BY <1>3, WinCovers, LoseCovers DEF AuctionStep
<1>4. CASE FleetStep
  BY <1>4, StatusCovers, TickCovers, RestartCovers DEF FleetStep
<1> QED
  BY <1>1, <1>2, <1>3, <1>4 DEF Next

\* Whatever task of the fleet the robot holds or is sent, it owns; or the cancel of it is
\* behind the dispatch; or a fleet_tasks that has just started has unread the status that
\* makes it adopt or cancel the task (_on_event, _cancel_local and _adopt of fleet_tasks).
THEOREM OwnedOrCancelled == Spec => []WorkOnlyOwned
<1>1. Init => CInv /\ WInv
  BY CInvStarts, WInvStarts
<1>2. CInv /\ WInv /\ [Next]_vars => (CInv /\ WInv)'
  BY CInvStep, WInvStep
<1>3. CInv /\ WInv => WorkOnlyOwned
  BY WInvImplies
<1> QED
  BY <1>1, <1>2, <1>3, PTL DEF Spec

----------------------------------------------------------------------------
(* What is on board is committed.                                            *)

\* The last status published is the machine's, and the last that is unread.
Shows(s) == s.id = (IF cur = 0 THEN None ELSE job[cur].id) /\ s.st = state
Shown ==
    /\ latched = <<>> \/ (latched = <<latched[1]>> /\ Shows(latched[1]))
    /\ latched = <<>> => cur = 0
LastUnread == status # <<>> => latched = <<status[Len(status)]>>

\* A task that the robot has on board, and owns without having told so, has a status
\* unread, or the last one tells of another task that was refused.
LoadTold(t) == core.own[t] = "mine" /\ OnIt(t) => status # <<>> \/ latched[1].rej # None

TInv == Shown /\ LastUnread /\ \A t \in Fleet : LoadTold(t)

LEMMA TInvImplies == TInv => OnBoardIsCommitted
BY DEF TInv, LoadTold, OnIt, Owned, OnBoardIsCommitted

\* What a step of the robot shows: nothing is published and nothing shown changes, or
\* the newest status is what the machine does after the step.
Silent == UNCHANGED <<status, latched, job, cur, state>>
Said == /\ status' # <<>>
        /\ latched' = <<latched'[1]>> /\ status'[Len(status')] = latched'[1]
        /\ Shows(latched[1])'

\* However many statuses DDS drops, the newest one stays.
LEMMA NewestStays ==
  ASSUME Topics, NEW T, NEW ss \in Seq(T), ss # <<>>, Publish(ss)
  PROVE  status' # <<>> /\ latched' = <<Last(ss)>> /\ status'[Len(status')] = Last(ss)
<1>1. PICK S : status \in Seq(S)
  BY DEF Topics
<1> DEFINE U == S \union T
           all == status \o ss
<1>2. status \in Seq(U) /\ ss \in Seq(U)
  BY <1>1
<1>3. /\ all \in Seq(U) /\ Len(all) = Len(status) + Len(ss)
      /\ \A i \in 1 .. Len(status) + Len(ss) :
            all[i] = IF i <= Len(status) THEN status[i] ELSE ss[i - Len(status)]
  BY <1>2, ConcatProperties
<1>4. Len(status) \in Nat /\ Len(ss) \in Nat /\ Len(ss) >= 1
  BY <1>2, LenProperties, EmptySeq
<1>5. status' \in Unread(all) /\ latched' = <<Last(ss)>>
  BY DEF Publish
<1> HIDE DEF all, U
<1>6. Len(all) \in Nat /\ Len(all) >= 1 /\ all[Len(all)] = Last(ss)
  BY <1>3, <1>4 DEF Last
<1>7. CASE status' = all
  BY <1>3, <1>5, <1>6, <1>7
<1>8. ASSUME NEW m \in 1 .. Len(all) - StatusDepth + 1, status' = SubSeq(all, m, Len(all))
      PROVE  status' # <<>> /\ status'[Len(status')] = Last(ss)
  <2>1. m \in Int /\ m >= 1 /\ m <= Len(all)
    BY <1>6, DepthAssumption
  <2>2. \A i \in m .. Len(all) : all[i] \in U
    BY <1>3, <1>6, <2>1, LenProperties
  <2>3. /\ status' \in Seq(U) /\ Len(status') = Len(all) - m + 1
        /\ \A i \in 1 .. Len(all) - m + 1 : status'[i] = all[m + i - 1]
    BY <1>6, <1>8, <2>1, <2>2, SubSeqProperties
  <2>4. Len(status') \in 1 .. Len(all) - m + 1 /\ m + Len(status') - 1 = Len(all)
    BY <1>6, <2>1, <2>3
  <2>5. status'[Len(status')] = all[m + Len(status') - 1]
    BY <2>3, <2>4
  <2> QED
    BY <1>6, <2>3, <2>4, <2>5
<1> QED
  BY <1>5, <1>7, <1>8 DEF Unread

\* One status of what the machine does then.
LEMMA OneSays ==
  ASSUME Topics, NEW s, Publish(<<s>>), Shows(s)'
  PROVE  Said
<1>1. <<s>> \in Seq({s}) /\ <<s>> # <<>> /\ Last(<<s>>) = s
  BY DEF Last
<1>2. status' # <<>> /\ latched' = <<s>> /\ status'[Len(status')] = s
  BY <1>1, NewestStays
<1>3. latched'[1] = s
  BY <1>2
<1> QED
  BY <1>2, <1>3 DEF Said, Shows

LEMMA EndSays ==
  ASSUME Topics, NEW k, NEW final, NEW q, EndTask(k, final, q)
  PROVE  Said
<1> DEFINE a == StatusOf(k, final, job, q)
           e == StatusOf(0, "IDLE", job, q)
<1>1. e.id = None /\ e.st = "IDLE"
  BY DEF StatusOf
<1>2. Publish(<<a, e>>) /\ cur' = 0 /\ state' = "IDLE"
  BY DEF EndTask
<1> HIDE DEF a, e
<1>3. <<a, e>> \in Seq({a, e}) /\ <<a, e>> # <<>> /\ Last(<<a, e>>) = e
  BY DEF Last
<1>4. status' # <<>> /\ latched' = <<e>> /\ status'[Len(status')] = e
  BY <1>2, <1>3, NewestStays
<1>5. latched'[1] = e
  BY <1>4
<1> QED
  BY <1>1, <1>2, <1>4, <1>5 DEF Said, Shows

\* A status of the machine as it is after the step, with a refusal in it or not.
LEMMA StatusShows ==
  ASSUME NEW k, NEW st, NEW jobs, NEW q, NEW t, k = cur', st = state', jobs = job'
  PROVE  /\ Shows(StatusOf(k, st, jobs, q))'
         /\ Shows([StatusOf(k, st, jobs, q) EXCEPT !.rej = t])'
BY DEF Shows, StatusOf

LEMMA StartSays ==
  ASSUME Topics, NEW k, NEW leg, NEW q, StartNav(k, leg, q)
  PROVE  Said
<1>1. CASE NavStarted(k, leg, q)
  <2>1. Publish(<<StatusOf(k, leg, job, q)>>) /\ k = cur' /\ leg = state' /\ job = job'
    BY <1>1 DEF NavStarted
  <2> QED
    BY <2>1, StatusShows, OneSays
<1>2. CASE NavGone(k, q)
  BY <1>2, EndSays DEF NavGone
<1> QED
  BY <1>1, <1>2 DEF StartNav

LEMMA EnqueueSays ==
  ASSUME Topics, NEW t, NEW carrying, Enqueue(t, carrying)
  PROVE  Said
<1>1. Publish(<<StatusOf(cur, state, job', queue')>>) /\ cur = cur' /\ state = state'
  BY DEF Enqueue
<1> QED
  BY <1>1, StatusShows, OneSays

LEMMA CancelSays ==
  ASSUME Topics, NEW ts, CancelTasks(ts)
  PROVE  Said \/ Silent
<1>1. CASE EndTask(cur, "CANCELLED", Kept(ts))
  BY <1>1, EndSays
<1>2. CASE Publish(<<StatusOf(cur, state, job, Kept(ts))>>) /\ UNCHANGED <<job, cur, state>>
  BY <1>2, StatusShows, OneSays
<1>3. CASE UNCHANGED <<managerVars, statusVars>>
  BY <1>3 DEF Silent, managerVars, statusVars
<1> QED
  BY <1>1, <1>2, <1>3 DEF CancelTasks

LEMMA RobotSays ==
  ASSUME Topics, IdleOrBusy, RobotStep
  PROVE  Said \/ Silent
<1>1. CASE OnDispatch
  <2>1. CASE Enqueue(Head(inbox).id, Head(inbox).carrying)
    BY <2>1, EnqueueSays
  <2>2. CASE /\ Publish(<<[StatusOf(cur, state, job, queue) EXCEPT !.rej = Head(inbox).id]>>)
             /\ UNCHANGED managerVars
    <3>1. cur = cur' /\ state = state' /\ job = job'
      BY <2>2 DEF managerVars
    <3> QED
      BY <2>2, <3>1, StatusShows, OneSays
  <2> QED
    BY <1>1, <2>1, <2>2 DEF OnDispatch
<1>2. CASE OnCancel
  BY <1>2, CancelSays DEF OnCancel
<1>3. CASE Pop
  BY <1>3, StartSays DEF Pop
<1>4. CASE DwellOver
  BY <1>4, StartSays, EndSays DEF DwellOver
<1>5. ASSUME NEW k \in JobId, OnGoalResponse(k) PROVE Said \/ Silent
  <2>1. CASE StaleResponse(k) \/ Accepted(k)
    BY <2>1 DEF StaleResponse, Accepted, Silent, managerVars, statusVars
  <2>2. CASE Requeued(k)
    <3>1. /\ Publish(<<StatusOf(0, "IDLE", job, queue')>>)
          /\ 0 = cur' /\ "IDLE" = state' /\ job = job'
      BY <2>2 DEF Requeued
    <3> QED
      BY <3>1, StatusShows, OneSays
  <2>3. CASE Refused(k)
    BY <2>3, EndSays DEF Refused
  <2> QED
    BY <1>5, <2>1, <2>2, <2>3 DEF OnGoalResponse
<1>6. ASSUME NEW k \in JobId, OnNavResult(k) PROVE Said \/ Silent
  <2>1. CASE k = cur /\ Arrived(k)
    <3>1. Publish(<<StatusOf(k, state', job, queue)>>) /\ k = cur' /\ job = job'
      BY <2>1 DEF Arrived
    <3> QED
      BY <3>1, StatusShows, OneSays
  <2>2. CASE EndTask(k, "DONE", queue) \/ EndTask(k, "FAILED", queue)
    BY <2>2, EndSays
  <2>3. CASE UNCHANGED <<managerVars, statusVars>>
    BY <2>3 DEF Silent, managerVars, statusVars
  <2> QED
    BY <1>6, <2>1, <2>2, <2>3 DEF OnNavResult
<1>7. CASE NavStep
  BY <1>7 DEF NavStep, NavAccept, NavReject, NavFinish, NavStop, Silent, managerVars, statusVars
<1>8. CASE PersonStep
  BY <1>8, EnqueueSays, CancelSays DEF PersonStep, HandDispatch, HandCancel
<1> QED
  BY <1>1, <1>2, <1>3, <1>4, <1>5, <1>6, <1>7, <1>8 DEF RobotStep, ManagerStep

\* Nothing the robot does makes a task owned.
LEMMA RobotTells == ASSUME CInv, TInv, RobotStep PROVE TInv'
<1>1. UNCHANGED core
  BY DEF RobotStep
<1>2. CASE Said
  BY <1>2 DEF Said, TInv, Shown, LastUnread, LoadTold
<1>3. CASE Silent
  BY <1>1, <1>3 DEF Silent, TInv, Shown, Shows, LastUnread, LoadTold, OnIt
<1> QED
  BY <1>2, <1>3, RobotSays DEF CInv, DInv

\* A status that tells of an owned task on board commits it.
LEMMA ReportCommits ==
  ASSUME NEW R, NEW C, NEW Y,
         NEW c \in [own : [Fleet -> Owners], retry : R, cancelling : C, synced : Y],
         NEW s, s.rej = None, s.id \in Fleet, s.st \in OnBoard
  PROVE  Reported(c, s).own[s.id] # "mine"
<1>1. Reported(c, s) = IF Owned(c, s.id) THEN [c EXCEPT !.own[s.id] = "committed"] ELSE c
  BY DEF Reported, Report, OnBoard
<1> QED
  BY <1>1 DEF Owned

LEMMA StatusTells == ASSUME CInv, TInv, OnTaskStatus PROVE TInv'
<1> DEFINE s == Head(status)
           base == IF ~core.synced THEN Adopt(core, s) ELSE core
<1>1. /\ status # <<>> /\ core' = Reported(base, s) /\ status' = Tail(status)
      /\ UNCHANGED <<latched, job, cur, state>>
  BY DEF OnTaskStatus, managerVars
<1>2. PICK S : status \in Seq(S)
  BY DEF CInv, Topics
<1>3. /\ s = status[1] /\ Len(status) \in Nat /\ status' \in Seq(S) /\ Len(status') = Len(status) - 1
      /\ \A i \in 1 .. Len(status) - 1 : status'[i] = status[i + 1]
  BY <1>1, <1>2, HeadTailProperties, LenProperties
<1>4. LastUnread'
  <2>1. ASSUME status' # <<>> PROVE status'[Len(status')] = status[Len(status)]
    <3>1. Len(status') \in 1 .. Len(status) - 1
      BY <1>3, <2>1, LenProperties, EmptySeq
    <3> QED
      BY <1>3, <3>1
  <2> QED
    BY <1>1, <2>1 DEF TInv, LastUnread
<1>5. \E R, C, Y : base \in [own : [Fleet -> Owners], retry : R, cancelling : C, synced : Y]
  <2>1. PICK R, C, Y : core \in [own : [Fleet -> Owners], retry : R, cancelling : C, synced : Y]
    BY DEF CInv, CoreShape
  <2> QED
    BY <2>1, AdoptsTold
<1> HIDE DEF base
<1>6. ASSUME NEW t \in Fleet, OnIt(t), status' = <<>>, latched[1].rej = None
      PROVE  core'.own[t] # "mine"
  <2>1. Len(status) = 1
    BY <1>3, <1>6
  <2>2. latched = <<s>> /\ latched[1] = s
    BY <1>1, <1>3, <2>1 DEF TInv, LastUnread
  <2>3. s.id = t /\ s.st \in OnBoard /\ s.rej = None
    BY <1>6, <2>2 DEF TInv, Shown, Shows, OnIt
  <2>4. PICK R, C, Y : base \in [own : [Fleet -> Owners], retry : R, cancelling : C, synced : Y]
    BY <1>5
  <2> QED
    BY <1>1, <2>3, <2>4, ReportCommits
<1>7. \A t \in Fleet : LoadTold(t)'
  BY <1>1, <1>6 DEF LoadTold, OnIt
<1>8. Shown'
  BY <1>1 DEF TInv, Shown, Shows
<1> QED
  BY <1>4, <1>7, <1>8 DEF TInv

LEMMA RestartTells == ASSUME CInv, TInv, Restart PROVE TInv'
<1>1. /\ status' = latched /\ UNCHANGED <<latched, job, cur, state>>
      /\ core' = [NewCore EXCEPT !.own = [t \in Fleet |-> IF core.own[t] = "over" THEN "over" ELSE "unknown"]]
  BY DEF Restart, managerVars
<1>2. \A t \in Fleet : core'.own[t] # "mine"
  BY <1>1 DEF NewCore
<1>3. LastUnread'
  <2>1. CASE latched = <<>>
    BY <1>1, <2>1 DEF LastUnread
  <2>2. ASSUME NEW x, latched = <<x>> PROVE LastUnread'
    BY <1>1, <2>2 DEF LastUnread
  <2> QED
    BY <2>1, <2>2 DEF TInv, Shown
<1> QED
  BY <1>1, <1>2, <1>3 DEF TInv, Shown, Shows, LoadTold

\* The auction and the clock: nothing is shown, and a task is won only with nothing of
\* it on the robot.
LEMMA AuctionTells ==
  ASSUME CInv, TInv, AuctionStep \/ \E due \in SUBSET Fleet : FleetTick(due)
  PROVE  TInv'
<1>1. UNCHANGED <<status, latched, job, cur, state>>
  BY DEF AuctionStep, Win, Lose, Withdrawn, FleetTick, statusVars, managerVars
<1>2. PICK R, C, Y : core \in [own : [Fleet -> Owners], retry : R, cancelling : C, synced : Y]
  BY DEF CInv, CoreShape
<1>3. \A t \in Fleet : core'.own[t] = "mine" => core.own[t] = "mine" \/ ~OnIt(t)
  <2>1. ASSUME NEW t \in Fleet, Win(t)
        PROVE  \A f \in Fleet : core'.own[f] = "mine" => core.own[f] = "mine" \/ ~OnIt(f)
    <3>1. ~OnIt(t)
      BY <2>1 DEF Win, Settled, HeldFor, Held, OnIt
    <3>2. \A f \in Fleet : f # t => core'.own[f] = core.own[f]
      BY <1>2, <2>1 DEF Win
    <3> QED
      BY <3>1, <3>2
  <2>2. ASSUME NEW t \in Fleet, Lose(t) \/ Withdrawn(t)
        PROVE  \A f \in Fleet : core'.own[f] = "mine" => core.own[f] = "mine"
    BY <1>2, <2>2 DEF Lose, CancelLocal, Withdrawn
  <2>3. ASSUME NEW due \in SUBSET Fleet, FleetTick(due)
        PROVE  core'.own = core.own
    BY <1>2, <2>3 DEF FleetTick
  <2> QED
    BY <2>1, <2>2, <2>3 DEF AuctionStep
<1> QED
  BY <1>1, <1>3 DEF TInv, Shown, Shows, LastUnread, LoadTold, OnIt

LEMMA TInvStarts == Init => TInv
<1> SUFFICES ASSUME Init PROVE TInv
  OBVIOUS
<1> DEFINE s == StatusOf(0, "IDLE", <<>>, {})
<1>1. /\ status = <<>> /\ cur = 0 /\ state = "IDLE"
      /\ latched = <<>> \/ latched = <<s>>
  BY DEF Init, ManagerInit
<1>2. s.id = None /\ s.st = "IDLE"
  BY DEF StatusOf
<1> HIDE DEF s
<1>3. Shown
  BY <1>1, <1>2 DEF Shown, Shows
<1> QED
  BY <1>1, <1>3 DEF TInv, LastUnread, LoadTold, OnIt

\* However many statuses are lost on the way to fleet_tasks: once it has read what there
\* is, every task it owns and the robot has on board is committed, so nobody else may
\* take it (on_task_status and commit; the last status published must not be a refusal).
THEOREM LoadIsCommitted == Spec => []OnBoardIsCommitted
<1>1. Init => CInv /\ TInv
  BY CInvStarts, TInvStarts
<1>2. ASSUME CInv, TInv, [Next]_vars PROVE (CInv /\ TInv)'
  <2>1. CInv'
    BY <1>2, CInvStep
  <2>2. CASE UNCHANGED vars
    BY <1>2, <2>1, <2>2 DEF vars, statusVars, managerVars, TInv, Shown, Shows, LastUnread, LoadTold, OnIt
  <2>3. CASE RobotStep \/ AuctionStep
    BY <1>2, <2>1, <2>3, RobotTells, AuctionTells
  <2>4. CASE FleetStep
    BY <1>2, <2>1, <2>4, StatusTells, RestartTells, AuctionTells DEF FleetStep
  <2> QED
    BY <1>2, <2>1, <2>2, <2>3, <2>4 DEF Next
<1>3. CInv /\ TInv => OnBoardIsCommitted
  BY TInvImplies
<1> QED
  BY <1>1, <1>2, <1>3, PTL DEF Spec
=============================================================================
