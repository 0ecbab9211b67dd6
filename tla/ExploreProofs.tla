--------------------------- MODULE ExploreProofs ---------------------------
(***************************************************************************)
(* Theorems of the explorer and its hand-off with task_manager, for any     *)
(* number of goals, tasks, commands and spins: whatever the delays of Nav2, *)
(* the handle is that of the latest goal, no goal is lost sight of, and     *)
(* none is blamed for the explorer's own cancel.                            *)
(***************************************************************************)
EXTENDS ExploreHandoff, TLAPS

\* The parts of TypeOK the argument needs.
Typed == /\ NavTypeOK /\ alive \in BOOLEAN
         /\ gen \in {0} \union Own /\ handle \in {0} \union Own
         /\ given \subseteq Own /\ blamed \in BOOLEAN
         /\ queue \subseteq Tasks /\ dispatched \in 0..MaxTasks /\ current \in {0} \union Tasks

\* Goals are sent in the order of their numbers.
InOrder == \A a, b \in Own : b < a /\ at[a] # "none" => at[b] # "none"

\* A goal that has not arrived was sent before the latest one or is the latest,
\* which has not arrived either.
LatestArrivesLast == \A g \in Own : at[g] = "sent" => g <= gen /\ at[gen] = "sent"

\* Answers follow arrivals, results follow ends.
AnswersFollow == \A g \in Own : /\ answer[g] # "none" => at[g] \in {"active", "over"}
                                /\ result[g] # "none" => at[g] = "over"

\* The handle is that of the latest goal, whose answer was taken.
HandleTaken == handle # 0 => /\ handle = gen /\ answer[handle] = "none"
                             /\ at[handle] \in {"active", "over"}

\* Nav2 executes a goal only when it is up: then it rejects none.
ActiveNeedsNav == Active # {} => navup

\* What was given up was sent, and is not the latest goal any more.
GivenUpIsOld == /\ \A g \in given : at[g] # "none"
                /\ gen \notin given
                /\ gen # 0 => at[gen] # "none"

IInv == /\ Typed /\ InOrder /\ LatestArrivesLast /\ AnswersFollow /\ HandleTaken
        /\ ActiveNeedsNav /\ GivenUpIsOld /\ NoLostGoal /\ NoSelfBlame

-----------------------------------------------------------------------------

\* How the goals are numbered.
LEMMA Numbers == /\ Own \subseteq Nat \ {0} /\ Tasks \subseteq Nat \ {0}
                 /\ Own \subseteq Goals /\ Tasks \subseteq Goals /\ Own \cap Tasks = {}
                 /\ 0 \notin Goals
  BY NavAssumption, SMTT(30) DEF Own, Tasks, Goals

LEMMA InvStarts == Init => IInv
<1> SUFFICES ASSUME Init PROVE IInv
  OBVIOUS
<1>1. /\ at = [g \in Goals |-> "none"] /\ answer = [g \in Goals |-> "none"]
      /\ result = [g \in Goals |-> "none"] /\ kill = {} /\ navup = FALSE
      /\ alive = TRUE /\ gen = 0 /\ handle = 0 /\ given = {} /\ blamed = FALSE
      /\ queue = {} /\ dispatched = 0 /\ current = 0
  BY Zenon DEF Init, NavInit, ExInit
<1>2. Typed
  <2>1. 0 \in 0..MaxTasks
    BY NavAssumption
  <2>2. NavTypeOK
    BY <1>1, Zenon DEF NavTypeOK
  <2> QED
    BY <1>1, <2>1, <2>2, Zenon DEF Typed
<1>3. /\ InOrder /\ LatestArrivesLast /\ AnswersFollow /\ HandleTaken /\ ActiveNeedsNav
      /\ GivenUpIsOld /\ NoLostGoal
  BY <1>1, Numbers, SMTT(30) DEF InOrder, LatestArrivesLast, AnswersFollow, HandleTaken,
     ActiveNeedsNav, GivenUpIsOld, NoLostGoal, Active
<1>4. NoSelfBlame
  BY <1>1, Zenon DEF NoSelfBlame
<1> QED
  BY <1>2, <1>3, <1>4 DEF IInv

\* What the invariant is about, all but the life of the node.
goalVars == <<navVars, gen, handle, given, blamed, queue, dispatched, current>>

\* A step that leaves all of it alone, or ends the node, keeps the invariant.
LEMMA SameGoals == ASSUME IInv, UNCHANGED goalVars, alive' \in {FALSE, alive} PROVE IInv'
<1> USE DEF IInv, Typed, NavTypeOK, InOrder, LatestArrivesLast, AnswersFollow,
      HandleTaken, ActiveNeedsNav, GivenUpIsOld, NoLostGoal, NoSelfBlame, Active, goalVars, navVars
<1>1. CASE alive' = alive
  BY <1>1
<1>2. CASE alive' = FALSE
  BY <1>2
<1> QED
  BY <1>1, <1>2

\* Nav2's steps.
LEMMA NavKeeps ==
  ASSUME IInv, UNCHANGED explorerVars, UNCHANGED tmVars,
         NavComesUp \/ \E g \in Goals : Nav(g)
  PROVE  IInv'
<1> USE Numbers DEF IInv, Typed, NavTypeOK, InOrder, LatestArrivesLast, AnswersFollow,
      HandleTaken, ActiveNeedsNav, GivenUpIsOld, NoLostGoal, NoSelfBlame, Active,
      explorerVars, exVars, tmVars
<1>1. CASE NavComesUp
  BY <1>1, SMTT(60) DEF NavComesUp
<1>2. ASSUME NEW g \in Goals, NavAccepts(g) PROVE IInv'
  BY <1>2, SMTT(60) DEF NavAccepts, Arrives
<1>3. ASSUME NEW g \in Goals, NavRejects(g) PROVE IInv'
  BY <1>3, SMTT(60) DEF NavRejects, Arrives
<1>4. ASSUME NEW g \in Goals, NavEnds(g) PROVE IInv'
  BY <1>4, SMTT(60) DEF NavEnds
<1>5. ASSUME NEW g \in Goals, NavCancels(g) PROVE IInv'
  <2>1. /\ kill' = kill \ {g} /\ UNCHANGED <<answer, navup>>
        /\ \/ g \in Active /\ Ended({g})
           \/ g \notin Active /\ (Ended(Active) \/ UNCHANGED <<at, result>>)
    BY <1>5 DEF NavCancels
  <2>2. CASE g \in Active /\ Ended({g})
    BY <2>1, <2>2, SMTT(60) DEF Ended
  <2>3. CASE g \notin Active /\ Ended(Active)
    BY <2>1, <2>3, SMTT(60) DEF Ended
  <2>4. CASE g \notin Active /\ UNCHANGED <<at, result>>
    BY <2>1, <2>4, SMTT(60)
  <2> QED
    BY <2>1, <2>2, <2>3, <2>4
<1> QED
  BY <1>1, <1>2, <1>3, <1>4, <1>5, Zenon DEF Nav

\* The explorer's callbacks that send no goal.
LEMMA CallbackKeeps ==
  ASSUME IInv, UNCHANGED tmVars,
         \/ Heartbeat \/ RunOut \/ TickCrashes \/ BeginSpin \/ SpinLate \/ OnCmd \/ OnSpin
         \/ \E g \in Own : OnGoalResponse(g) \/ OnNavResult(g)
  PROVE  IInv'
<1> USE Numbers DEF IInv, Typed, NavTypeOK, InOrder, LatestArrivesLast, AnswersFollow,
      HandleTaken, ActiveNeedsNav, GivenUpIsOld, NoLostGoal, NoSelfBlame, Active,
      navVars, exVars, tmVars
<1>1. CASE Heartbeat \/ TickCrashes \/ BeginSpin \/ SpinLate \/ OnSpin
  <2>1. UNCHANGED goalVars /\ alive' \in {FALSE, alive}
    BY <1>1, Zenon DEF Heartbeat, TickCrashes, BeginSpin, SpinLate, OnSpin, goalVars
  <2> QED
    BY <2>1, SameGoals
<1>2. CASE RunOut
  BY <1>2, SMTT(60) DEF RunOut, NoGoal
<1>3. CASE OnCmd
  <2>1. /\ UNCHANGED <<at, answer, result, navup, alive, gen, given, blamed>>
        /\ \/ UNCHANGED <<kill, handle>>
           \/ handle' = 0 /\ kill' = IF handle = 0 THEN kill ELSE kill \union {handle}
    BY <1>3, Zenon DEF OnCmd, NoGoal
  <2>2. CASE UNCHANGED <<kill, handle>>
    BY <2>1, <2>2, SameGoals DEF goalVars
  <2>3. CASE handle = 0 /\ handle' = 0 /\ kill' = kill
    BY <2>1, <2>3, SameGoals DEF goalVars
  <2>4. CASE handle # 0 /\ handle' = 0 /\ kill' = kill \union {handle}
    BY <2>1, <2>4, SMTT(60)
  <2> QED
    BY <2>1, <2>2, <2>3, <2>4
<1>4. ASSUME NEW g \in Own, OnGoalResponse(g) PROVE IInv'
  <2>1. /\ answer[g] # "none" /\ answer' = [answer EXCEPT ![g] = "none"]
        /\ UNCHANGED <<at, result, kill, navup, alive, gen, given, blamed>>
    BY <1>4 DEF OnGoalResponse
  <2>2. CASE g # gen /\ UNCHANGED handle
    BY <2>1, <2>2, SMTT(60)
  <2>3. CASE g = gen /\ answer[g] = "yes" /\ handle' = g
    BY <2>1, <2>3, SMTT(60)
  <2>4. CASE g = gen /\ answer[g] = "no" /\ handle' = 0
    BY <2>1, <2>4, SMTT(60)
  <2> QED
    BY <1>4, <2>2, <2>3, <2>4 DEF OnGoalResponse, NoGoal
<1>5. ASSUME NEW g \in Own, OnNavResult(g) PROVE IInv'
  BY <1>5, SMTT(60) DEF OnNavResult, NoGoal
<1> QED
  BY <1>1, <1>2, <1>3, <1>4, <1>5, Zenon

\* Planning, after the goal in hand was given up (a fault, a frontier that is
\* gone, a hint) or with none in hand.
LEMMA PlanKeeps ==
  ASSUME IInv, UNCHANGED tmVars, Retarget \/ Tick \/ OnHint
  PROVE  IInv'
<1> USE Numbers DEF IInv, Typed, NavTypeOK, InOrder, LatestArrivesLast, AnswersFollow,
      HandleTaken, ActiveNeedsNav, GivenUpIsOld, NoLostGoal, NoSelfBlame, Active,
      tmVars
<1>1. /\ Plan(handle)
      /\ given' \in {given, given \union {handle}}
      /\ handle = 0 => given' = given
      /\ UNCHANGED <<answer, result, navup, alive, blamed>>
  BY Zenon DEF Retarget, Tick, OnHint, GoalFault, FrontierConsumed
<1>2. CASE SendGoal
  BY <1>1, <1>2, SMTT(60) DEF SendGoal, Unsent
<1>3. CASE PlanNothing(handle)
  <2>1. UNCHANGED at /\ Withdraw(handle)
    BY <1>3 DEF PlanNothing
  <2> QED
    <3>1. CASE handle = 0
      BY <1>1, <2>1, <3>1, SameGoals DEF Withdraw, goalVars
    <3>2. CASE handle # 0
      <4>1. kill' = kill \union {handle} /\ gen' = 0 /\ handle' = 0
        BY <2>1, <3>2 DEF Withdraw, NoGoal
      <4> QED
        BY <1>1, <2>1, <3>2, <4>1, SMTT(60)
    <3> QED
      BY <3>1, <3>2
<1> QED
  BY <1>1, <1>2, <1>3 DEF Plan

\* A step that leaves the explorer's goals alone, and cancels no fewer.
LEMMA OwnGoalsSame ==
  ASSUME IInv, Typed', UNCHANGED <<navup, alive, gen, handle, given, blamed>>,
         kill \subseteq kill',
         \A g \in Own : at'[g] = at[g] /\ answer'[g] = answer[g] /\ result'[g] = result[g],
         \A g \in Goals : at'[g] = "active" => at[g] = "active"
  PROVE  IInv'
<1> USE Numbers DEF IInv, Typed, NavTypeOK
<1>1. (InOrder /\ LatestArrivesLast /\ AnswersFollow /\ HandleTaken)'
  BY SMTT(30) DEF InOrder, LatestArrivesLast, AnswersFollow, HandleTaken
<1>2. (ActiveNeedsNav /\ GivenUpIsOld)'
  <2>1. Active' \subseteq Active
    BY DEF Active
  <2>2. ActiveNeedsNav'
    BY <2>1 DEF ActiveNeedsNav
  <2>3. GivenUpIsOld'
    BY DEF GivenUpIsOld
  <2> QED
    BY <2>2, <2>3
<1>3. NoLostGoal'
  BY SMTT(30) DEF NoLostGoal, Active
<1>4. NoSelfBlame'
  BY DEF NoSelfBlame
<1> QED
  BY <1>1, <1>2, <1>3, <1>4

\* task_manager's and a person's steps touch only the goals of tasks.
LEMMA TaskKeeps ==
  ASSUME IInv,
         \/ Dispatch \/ OnStatus \/ StartTask \/ Resume \/ Cancel \/ Ask
         \/ \E t \in Tasks : TaskAnswer(t) \/ TaskResult(t)
  PROVE  IInv'
<1> USE Numbers DEF IInv, Typed, NavTypeOK, navVars, exVars, tmVars, explorerVars
<1>1. CASE OnStatus \/ Resume \/ Ask
  BY <1>1, SameGoals, Zenon DEF OnStatus, Resume, Ask, Person, goalVars
<1>2. CASE Dispatch
  <2>1. MaxGoals + dispatched + 1 \in Tasks /\ dispatched + 1 \in 0..MaxTasks
    BY <1>2, NavAssumption DEF Dispatch, Tasks
  <2>2. UNCHANGED <<navVars, exVars, current>>
    BY <1>2 DEF Dispatch
  <2>3. Typed'
    BY <1>2, <2>1, <2>2 DEF Dispatch
  <2> QED
    BY <2>2, <2>3, OwnGoalsSame
<1>3. CASE StartTask
  BY <1>3, OwnGoalsSame, SMTT(30) DEF StartTask
<1>4. CASE Cancel
  <2>1. /\ UNCHANGED <<at, answer, result, navup, alive, gen, handle, given, blamed, dispatched>>
        /\ queue' \subseteq queue /\ current' \in {0, current}
        /\ kill' = kill \/ (current # 0 /\ kill' = kill \union {current})
    BY <1>4 DEF Cancel, Person
  <2>2. Typed'
    BY <2>1
  <2> QED
    BY <2>1, <2>2, OwnGoalsSame
<1>5. ASSUME NEW t \in Tasks, TaskAnswer(t) PROVE IInv'
  <2>1. /\ UNCHANGED <<result, navup, alive, gen, handle, given, blamed, dispatched>>
        /\ answer' = [answer EXCEPT ![t] = "none"]
        /\ at' \in {at, [at EXCEPT ![t] = "none"]} /\ kill' \in {kill, kill \union {t}}
        /\ queue' \in {queue, queue \union {t}} /\ current' \in {0, current}
    BY <1>5, SMTT(30) DEF TaskAnswer
  <2>2. Typed'
    BY <2>1
  <2>3. /\ \A g \in Own : at'[g] = at[g] /\ answer'[g] = answer[g] /\ result'[g] = result[g]
        /\ \A g \in Goals : at'[g] = "active" => at[g] = "active"
    BY <2>1
  <2> QED
    BY <2>1, <2>2, <2>3, OwnGoalsSame
<1>6. ASSUME NEW t \in Tasks, TaskResult(t) PROVE IInv'
  BY <1>6, OwnGoalsSame, SMTT(30) DEF TaskResult
<1> QED
  BY <1>1, <1>2, <1>3, <1>4, <1>5, <1>6, Zenon

\* The inductive invariant of the explorer's goals.
THEOREM ExploreInvariant == Spec => []IInv
<1>1. IInv /\ [Next]_vars => IInv'
  <2> SUFFICES ASSUME IInv, [Next]_vars PROVE IInv'
    OBVIOUS
  <2>1. CASE UNCHANGED vars
    BY <2>1 DEF vars, navVars, explorerVars, exVars, tmVars, IInv, Typed, NavTypeOK, InOrder,
       LatestArrivesLast, AnswersFollow, HandleTaken, ActiveNeedsNav, GivenUpIsOld, NoLostGoal,
       NoSelfBlame, Active
  <2>2. CASE Next
    BY <2>2, NavKeeps, CallbackKeeps, PlanKeeps, TaskKeeps, Zenon DEF Next, Quiet, ExplorerStep
  <2> QED
    BY <2>1, <2>2
<1> QED
  BY <1>1, InvStarts, PTL DEF Spec

\* The handle the explorer watches and would cancel is that of its latest goal.
THEOREM LatestHandle == Spec => []HandleIsLatest
<1>1. IInv => HandleIsLatest
  BY DEF IInv, HandleTaken, HandleIsLatest
<1> QED
  BY <1>1, ExploreInvariant, PTL

\* Nav2 never drives to a goal of the explorer that nothing will end or take up.
THEOREM NoGoalLost == Spec => []NoLostGoal
<1>1. IInv => NoLostGoal
  BY DEF IInv
<1> QED
  BY <1>1, ExploreInvariant, PTL

\* A goal that was given up for a better one is never blacklisted for its end.
THEOREM NoOwnCancelBlamed == Spec => []NoSelfBlame
<1>1. IInv => NoSelfBlame
  BY DEF IInv
<1> QED
  BY <1>1, ExploreInvariant, PTL

=============================================================================
