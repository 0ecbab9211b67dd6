------------------------------ MODULE Explorer ------------------------------
(* The goals of one exploring robot (src/nodes/explorer.py): one node, one  *)
(* thread of callbacks, a timer, and Nav2 answering each goal some time     *)
(* later.  Which frontier a goal is for, the scores and the blacklist's     *)
(* radii are left out: a goal stands for its target, and planning either    *)
(* sends one or, for one of the reasons the code has, does not.             *)
EXTENDS NavServer, Sequences

CONSTANTS
  MaxStatus,   \* bound: statuses nobody has read yet (the topic keeps 10)
  MaxEvents    \* bound: spins asked for, and commands a person gives, together

ASSUME ExplorerAssumption == MaxStatus \in Nat \ {0} /\ MaxEvents \in Nat

VARIABLES
  alive,    \* the node runs
  state,    \* ExplorerNode.state
  gen,      \* the goal _goal_generation belongs to (0: none that was sent)
  target,   \* the goal _goal_target is the target of (0: None)
  handle,   \* _goal_handle (0: None)
  given,    \* the goals given up for a better one while Nav2 still had them
  blamed,   \* one of these was blacklisted when Nav2 ended it
  spin,     \* _spin_state
  turning,  \* the behavior server has a Spin goal it has not answered for
  events,   \* spins and commands so far
  cmds,     \* explore_cmd and explore_hint, on their way
  status    \* explore_status, on its way

exVars == <<alive, state, gen, target, handle, given, blamed, spin, turning, events>>
explorerVars == <<exVars, cmds, status>>

ExStates == {"exploring", "stopped", "paused", "done"}
Commands == {"start", "stop", "pause", "hint"}

ExTypeOK == /\ alive \in BOOLEAN /\ state \in ExStates
            /\ gen \in {0} \union Own /\ target \in {0} \union Own /\ handle \in {0} \union Own
            /\ given \subseteq Own /\ blamed \in BOOLEAN
            /\ spin \in {"pending", "running", "done"}
            /\ turning \in BOOLEAN /\ events \in 0..MaxEvents
            /\ cmds \in Seq(Commands) /\ status \in Seq(ExStates)

ExInit == /\ alive = TRUE
          /\ \/ state = "exploring" /\ spin \in {"pending", "done"}    \* --autostart
             \/ state = "stopped" /\ spin = "done"
          /\ gen = 0 /\ target = 0 /\ handle = 0 /\ given = {} /\ blamed = FALSE
          /\ turning = FALSE /\ events = 0 /\ cmds = <<>> /\ status = <<>>

Publish(s) == status' = IF Len(status) < MaxStatus THEN Append(status, s)
                        ELSE Append(Tail(status), s)

\* _cancel_active_goal's bookkeeping, and what the two goal callbacks reset.
NoGoal == target' = 0 /\ handle' = 0

Unsent == {g \in Own : at[g] = "none"}

-----------------------------------------------------------------------------
(* Planning.                                                                *)

\* _send_goal: the lowest number not used yet.
SendGoal == \E g \in Unsent : /\ \A h \in Unsent : g <= h
                              /\ at' = [at EXCEPT ![g] = "sent"]
                              /\ gen' = g /\ target' = g /\ handle' = 0
                              /\ Publish(state)
                              /\ UNCHANGED <<kill, state, spin, turning, events>>

\* Mutant: the goal that no replacement preempts is not cancelled.
LeaveRunning(old) == /\ IF old = 0 THEN UNCHANGED <<gen, target, handle>> ELSE NoGoal /\ gen' = 0
                     /\ UNCHANGED kill

\* Mutant: it is cancelled, but the generation stays.
CancelAsOurs(old) == IF old = 0 THEN UNCHANGED <<kill, gen, target, handle>>
                     ELSE kill' = kill \union {old} /\ NoGoal /\ UNCHANGED gen

\* No replacement goes out: disown the goal, then cancel it for real.
Withdraw(old) == IF old = 0 THEN UNCHANGED <<kill, gen, target, handle>>
                 ELSE kill' = kill \union {old} /\ gen' = 0 /\ NoGoal

\* _finish.
Finish == state' = "done" /\ Publish("done")

\* A Spin goal is sent.
SendSpin == /\ ~turning /\ events < MaxEvents
            /\ spin' = "running" /\ turning' = TRUE /\ events' = events + 1

\* _maybe_hard_escape_spin.
HardEscapeSpin == spin = "done" /\ SendSpin

\* No map, no transform, no server, nothing but empty cycles (until the last one),
\* a yield, or a spin to get free: _plan_and_send returns False.
PlanNothing(old) ==
  /\ Withdraw(old)
  /\ UNCHANGED at
  /\ \/ UNCHANGED <<state, spin, turning, events>>
     \/ Finish /\ UNCHANGED <<spin, turning, events>>
     \/ HardEscapeSpin /\ UNCHANGED state

Plan(old) == SendGoal \/ PlanNothing(old)

\* What a plan of the timer tells: a goal and the end are published, and so are an
\* empty cycle and a yield; no map, no transform, no server or a spin is not.
PlanTells == UNCHANGED status \/ Publish(state')

-----------------------------------------------------------------------------
(* The timer.                                                               *)

Exploring == alive /\ state = "exploring"

\* Not exploring: a status every third tick.  A healthy goal: one per tick.
Heartbeat == /\ alive /\ status = <<>>
             /\ state # "exploring" \/ spin # "done" \/ (handle # 0 /\ target # 0)
             /\ Publish(state)
             /\ UNCHANGED <<navVars, exVars, cmds>>

\* max_run_time_s.
RunOut == /\ Exploring
          /\ kill' = IF handle = 0 THEN kill ELSE kill \union {handle}
          /\ NoGoal /\ Finish
          /\ UNCHANGED <<at, answer, result, navup, alive, gen, given, blamed, spin, turning, events, cmds>>

\* _goal_fault: stuck, or out of time.  Its target goes on the blacklist.
GoalFault == UNCHANGED given

\* _frontier_consumed: nothing is left there to see.
FrontierConsumed == given' = given \union {handle}

Retarget == /\ Exploring /\ spin = "done" /\ handle # 0 /\ target # 0
            /\ GoalFault \/ FrontierConsumed
            /\ Plan(handle) /\ PlanTells
            /\ UNCHANGED <<answer, result, navup, alive, blamed, cmds>>

\* No handle: plan, also when the last goal has not been answered yet.
Tick == /\ Exploring /\ spin = "done" /\ handle = 0
        /\ Plan(0) /\ PlanTells
        /\ UNCHANGED <<answer, result, navup, alive, given, blamed, cmds>>

\* The tick publishes the target of a goal that has none: TypeError, and the
\* node is gone.
TickCrashes == /\ Exploring /\ spin = "done" /\ handle # 0 /\ target = 0
               /\ alive' = FALSE
               /\ UNCHANGED <<navVars, state, gen, target, handle, given, blamed, spin, turning, events,
                              cmds, status>>

\* _begin_startup_spin: asked for, or given up at the deadline.
BeginSpin == /\ Exploring /\ spin = "pending"
             /\ \/ SendSpin
                \/ spin' = "done" /\ UNCHANGED <<turning, events>>
             /\ Publish(state)
             /\ UNCHANGED <<navVars, alive, state, gen, target, handle, given, blamed, cmds>>

\* _check_startup_spin.
SpinLate == /\ Exploring /\ spin = "running" /\ spin' = "done"
            /\ Publish(state)
            /\ UNCHANGED <<navVars, alive, state, gen, target, handle, given, blamed, turning, events,
                           cmds>>

-----------------------------------------------------------------------------
(* Commands.                                                                *)

\* "start": spin again only if no goal was ever sent.
Starts == IF state = "exploring" THEN UNCHANGED <<state, spin, status>>
          ELSE /\ state' = "exploring" /\ Publish("exploring")
               /\ spin' = IF at[1] = "none" THEN "pending" ELSE spin

\* _on_cmd.  "stop" cancels the goal there is a handle for.
OnCmd == /\ alive /\ cmds # <<>> /\ cmds' = Tail(cmds)
         /\ \/ Head(cmds) = "start" /\ Starts /\ UNCHANGED <<kill, target, handle>>
            \/ /\ Head(cmds) = "stop"
               /\ kill' = IF handle = 0 THEN kill ELSE kill \union {handle}
               /\ NoGoal /\ state' = "stopped" /\ Publish("stopped") /\ UNCHANGED spin
            \/ /\ Head(cmds) = "pause" /\ state' = "paused" /\ Publish("paused")
               /\ UNCHANGED <<spin, kill, target, handle>>
         /\ UNCHANGED <<at, answer, result, navup, alive, gen, given, blamed, turning, events>>

\* _on_hint without append: plan now, whatever the state is, and tell it.
OnHint == /\ alive /\ cmds # <<>> /\ Head(cmds) = "hint" /\ cmds' = Tail(cmds)
          /\ given' = IF handle = 0 THEN given ELSE given \union {handle}
          /\ Plan(handle) /\ Publish(state')
          /\ UNCHANGED <<answer, result, navup, alive, blamed>>

-----------------------------------------------------------------------------
(* What Nav2 and the behavior server answer.                                *)

\* Mutant: any answer counts.
AnswerOfAny(g) == /\ alive /\ answer[g] # "none"
                  /\ answer' = [answer EXCEPT ![g] = "none"]
                  /\ IF answer[g] = "yes" THEN handle' = g /\ UNCHANGED target ELSE NoGoal
                  /\ UNCHANGED <<at, result, kill, navup, alive, state, gen, given, blamed, spin, turning,
                                 events, cmds, status>>

\* _on_goal_response: an answer to a goal that was superseded changes nothing.
OnGoalResponse(g) == /\ alive /\ answer[g] # "none"
                     /\ answer' = [answer EXCEPT ![g] = "none"]
                     /\ \/ g # gen /\ UNCHANGED <<target, handle>>
                        \/ g = gen /\ answer[g] = "yes" /\ handle' = g /\ UNCHANGED target
                        \/ g = gen /\ answer[g] = "no" /\ NoGoal
                     /\ UNCHANGED <<at, result, kill, navup, alive, state, gen, given, blamed, spin,
                                    turning, events, cmds, status>>

\* _on_nav_result, for a goal whose answer was taken; a late one changes nothing.
OnNavResult(g) == /\ alive /\ result[g] # "none" /\ answer[g] = "none"
                  /\ result' = [result EXCEPT ![g] = "none"] /\ given' = given \ {g}
                  /\ IF g # gen THEN UNCHANGED <<target, handle, blamed, status>>
                     ELSE /\ NoGoal /\ Publish(state)
                          /\ blamed' = (blamed \/ (result[g] = "bad" /\ g \in given))
                  /\ UNCHANGED <<at, answer, kill, navup, alive, state, gen, spin, turning, events, cmds>>

\* _on_spin_response and _on_spin_result: refused (at start-up: try again), or
\* over; nothing the explorer does cancels a spin.
OnSpin == /\ alive /\ turning /\ turning' = FALSE
          /\ spin' \in {"pending", "done"}
          /\ UNCHANGED <<navVars, alive, state, gen, target, handle, given, blamed, events, cmds, status>>

ExplorerStep == \/ Heartbeat \/ RunOut \/ Retarget \/ Tick \/ TickCrashes \/ BeginSpin \/ SpinLate
                \/ OnCmd \/ OnHint \/ OnSpin
                \/ \E g \in Own : OnGoalResponse(g) \/ OnNavResult(g)

-----------------------------------------------------------------------------
(* Properties.                                                              *)

\* The handle the explorer would cancel and watch is that of its latest goal,
\* however late and in whatever order Nav2 answers (_goal_generation).
HandleIsLatest == handle # 0 => handle = gen

\* Nav2 never drives to a goal the explorer has lost sight of: the goal is the
\* one it has or is about to have the handle of, or its cancel is under way, or
\* a newer goal is about to preempt it (_tick, "Nav2 would keep driving to a
\* goal this node no longer tracks").
NoLostGoal == \A g \in Active \cap Own : alive =>
                \/ g = handle
                \/ g = gen /\ answer[g] = "yes"
                \/ g \in kill
                \/ \E h \in Own : h > g /\ at[h] = "sent"

\* The explorer does not take its own housekeeping for a navigation failure: a
\* goal it gave up for a better one is not blacklisted, whatever becomes of it
\* in Nav2 (_tick, "our own housekeeping").
NoSelfBlame == ~blamed
=============================================================================
