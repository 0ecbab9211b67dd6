---------------------------- MODULE PickPlanner ----------------------------
(***************************************************************************)
(* The magnet pick controller (nodes/magnet_pick.py around PickPlanner of    *)
(* nodes/pick_planner.py) and the magnet as Isaac simulates it               *)
(* (scripts/_magnet_runtime.py around MagnetSim of simtest/magnet.py).       *)
(*                                                                          *)
(* A request walks through the phases                                        *)
(*   attach: tuck acquire dock confirm pre approach energize lift carry      *)
(*   detach: tuck dock pre approach release retreat stow                     *)
(* and then backs out and is answered.  Where the base goes, what the arm    *)
(* solves and what the camera sees decide only whether a phase advances or   *)
(* fails, and are left open; the order of the phases, what each one waits    *)
(* for and what it tells the magnet are the code's.                          *)
(*                                                                          *)
(* Timing: the simulator acts on a magnet command and reports ground truth   *)
(* ten times a second (spawn_warehouse.py), and every ramp of the arm lasts  *)
(* arm_min_move_s = 0.8 s or more, so that a ramp ends Settled.              *)
(***************************************************************************)
EXTENDS Naturals, Sequences, SequencesExt

CONSTANTS
    MaxTasks,     \* bound: package tasks, each with a package of its own
    MaxRedocks    \* confirm.max_redocks

ASSUME PickAssumption == MaxTasks \in Nat /\ MaxRedocks \in Nat

VARIABLES
    up,        \* magnet_pick runs
    requests,  \* pick_request messages it has not read
    answers,   \* pick_result messages task_manager has not read
    serving,   \* the task whose request the planner works on, 0 when idle
    phase,     \* the planner's phase
    mode,      \* what the request asks: "attach" or "detach"
    redocks,   \* how often confirm sent the base back to the dock
    arm,       \* where the arm's ramp is: "tucked", "tucking" or "out"
    plate,     \* the package whose plate the magnet's face is at, 0 when none
    cmds,      \* pick_cmd messages Isaac has not read
    power,     \* the magnet is energized (the last pick_cmd was "attach")
    held,      \* the package on the magnet, 0 when none
    seen       \* what the last ground truth said of the magnet

reqVars == <<requests, answers>>
planVars == <<serving, phase, mode, redocks>>
armVars == <<arm, plate>>
magnetVars == <<power, held, seen>>
pickerVars == <<up, reqVars, planVars, armVars, cmds, magnetVars>>

Task == 1 .. MaxTasks
Phases == {"idle", "tuck", "acquire", "dock", "confirm", "pre", "approach", "energize",
           "lift", "carry", "release", "retreat", "stow", "backout"}
Modes == {"attach", "detach"}
Request == [cmd : Modes \union {"cancel"}, task : Task]
\* of: whose request it answers.  The message does not say; the code never reads it.
Answer == [what : {"picked", "placed", "failed"}, of : Task]

Truth == IF held = 0 THEN "free" ELSE "held"
\* The magnet did as told, and ground truth has said so.
Settled == cmds = <<>> /\ (power \/ held = 0) /\ seen = Truth

----------------------------------------------------------------------------
(* The controller *)

Tell(c) == cmds' = Append(cmds, c)
Reply(what, k) == answers' = Append(answers, [what |-> what, of |-> k])
Enter(p) == phase' = p /\ UNCHANGED <<up, requests, serving, mode>>
Idle == serving' = 0 /\ phase' = "idle" /\ UNCHANGED <<up, mode, redocks>>

\* Mutant: cancel stops the arm and leaves the magnet as it is.
CancelKeepsMagnet ==
    /\ Idle
    /\ arm' = IF serving # 0 THEN "tucking" ELSE arm
    /\ UNCHANGED <<answers, plate, cmds, magnetVars>>

\* cancel: the magnet is switched off even when nothing runs.
Cancel ==
    /\ Idle
    /\ Tell("detach")
    /\ arm' = IF serving # 0 THEN "tucking" ELSE arm
    /\ UNCHANGED <<answers, plate, magnetVars>>

\* A request while busy replaces the one that runs.
Begin(r) ==
    /\ seen # "nothing"
    /\ serving' = r.task
    /\ mode' = r.cmd
    /\ phase' = "tuck"
    /\ redocks' = 0
    /\ arm' = "tucking"
    /\ UNCHANGED <<up, answers, plate, cmds, magnetVars>>

\* No ground truth yet: no clock, so no request.
Refuse(r) ==
    /\ seen = "nothing"
    /\ Reply("failed", r.task)
    /\ UNCHANGED <<up, planVars, armVars, cmds, magnetVars>>

OnRequest ==
    /\ requests # <<>>
    /\ requests' = Tail(requests)
    /\ \/ Head(requests).cmd = "cancel" /\ Cancel
       \/ Head(requests).cmd \in Modes /\ (Begin(Head(requests)) \/ Refuse(Head(requests)))

\* Mutant: a failure is reported with the magnet still on.
FailKeepsMagnet ==
    /\ serving # 0
    /\ Idle
    /\ Reply("failed", serving)
    /\ arm' = "tucking"
    /\ UNCHANGED <<requests, plate, cmds, magnetVars>>

\* Any phase can fail: budget_s runs out in all of them, most have a timeout or
\* a reason of their own.  The answer goes out while the arm still tucks.
Fail ==
    /\ serving # 0
    /\ Idle
    /\ Tell("detach")
    /\ Reply("failed", serving)
    /\ arm' = "tucking"
    /\ UNCHANGED <<requests, plate, magnetVars>>

RampOver == arm = "tucked" /\ Settled

\* A place with nothing on the magnet only fails.
Tuck ==
    /\ phase = "tuck" /\ RampOver
    /\ \/ mode = "attach" /\ Enter("acquire")
       \/ mode = "detach" /\ seen = "held" /\ Enter("dock")
    /\ UNCHANGED <<answers, redocks, armVars, cmds, magnetVars>>

\* The plate is locked and an arm solution exists at the dock.
Acquire ==
    /\ phase = "acquire"
    /\ Enter("dock")
    /\ UNCHANGED <<answers, redocks, armVars, cmds, magnetVars>>

\* _reach: the arm goes out to the pre-approach pose.
Reach == Enter("pre") /\ arm' = "out" /\ UNCHANGED plate

Dock ==
    /\ phase = "dock"
    /\ \/ mode = "attach" /\ Enter("confirm") /\ UNCHANGED armVars
       \/ mode = "detach" /\ Reach
    /\ UNCHANGED <<answers, redocks, cmds, magnetVars>>

Confirm ==
    /\ phase = "confirm"
    /\ \/ redocks < MaxRedocks /\ redocks' = redocks + 1 /\ Enter("dock") /\ UNCHANGED armVars
       \/ Reach /\ UNCHANGED redocks
    /\ UNCHANGED <<answers, cmds, magnetVars>>

Pre ==
    /\ phase = "pre"
    /\ Enter("approach")
    /\ plate' = IF mode = "attach" THEN serving ELSE plate
    /\ UNCHANGED <<answers, redocks, arm, cmds, magnetVars>>

Approach ==
    /\ phase = "approach"
    /\ Tell(mode)
    /\ Enter(IF mode = "attach" THEN "energize" ELSE "release")
    /\ UNCHANGED <<answers, redocks, armVars, magnetVars>>

\* Mutant: the arm lifts without waiting for the package.
EnergizeBlind ==
    /\ phase = "energize"
    /\ Enter("lift")
    /\ UNCHANGED <<answers, redocks, armVars, cmds, magnetVars>>

\* Something is on the magnet: which package, ground truth is not asked.
Energize ==
    /\ phase = "energize" /\ seen = "held"
    /\ Enter("lift")
    /\ UNCHANGED <<answers, redocks, armVars, cmds, magnetVars>>

Release ==
    /\ phase = "release" /\ seen # "held"
    /\ Enter("retreat")
    /\ UNCHANGED <<answers, redocks, armVars, cmds, magnetVars>>

\* The arm is back at the pre-approach pose and folds up.
Withdraw ==
    /\ phase \in {"lift", "retreat"}
    /\ Enter(IF phase = "lift" THEN "carry" ELSE "stow")
    /\ arm' = "tucking"
    /\ UNCHANGED <<answers, redocks, plate, cmds, magnetVars>>

Folded ==
    /\ phase \in {"carry", "stow"} /\ RampOver
    /\ Enter("backout")
    /\ UNCHANGED <<answers, redocks, armVars, cmds, magnetVars>>

\* _ph_backout and _finish: done, whether or not the base got back in time.
Backout ==
    /\ phase = "backout"
    /\ Idle
    /\ Reply(IF mode = "attach" THEN "picked" ELSE "placed", serving)
    /\ UNCHANGED <<requests, armVars, cmds, magnetVars>>

Tick ==
    \/ Fail \/ Tuck \/ Acquire \/ Dock \/ Confirm \/ Pre \/ Approach
    \/ Energize \/ Release \/ Withdraw \/ Folded \/ Backout

\* The process dies; nothing starts it again, and what it has not read is lost.
Dies ==
    /\ up' = FALSE
    /\ requests' = <<>>
    /\ serving' = 0 /\ phase' = "idle"
    /\ UNCHANGED <<answers, mode, redocks, armVars, cmds, magnetVars>>

----------------------------------------------------------------------------
(* The arm and the magnet in Isaac *)

ArmFolds ==
    /\ arm = "tucking"
    /\ arm' = "tucked" /\ plate' = 0
    /\ UNCHANGED <<up, reqVars, planVars, cmds, magnetVars>>

OnPickCmd ==
    /\ cmds # <<>>
    /\ power' = (Head(cmds) = "attach")
    /\ cmds' = Tail(cmds)
    /\ UNCHANGED <<up, reqVars, planVars, armVars, held, seen>>

\* MagnetSim.step: without power the package drops; with power, and nothing on
\* it yet, the magnet takes the package whose plate it is at.
MagnetStep ==
    /\ \/ ~power /\ held # 0 /\ held' = 0
       \/ power /\ held = 0 /\ plate # 0 /\ held' = plate
    /\ UNCHANGED <<up, reqVars, planVars, armVars, cmds, power, seen>>

GroundTruth ==
    /\ seen # Truth
    /\ seen' = Truth
    /\ UNCHANGED <<up, reqVars, planVars, armVars, cmds, power, held>>

SimStep == ArmFolds \/ OnPickCmd \/ MagnetStep \/ GroundTruth

PickerInit ==
    /\ up = TRUE /\ requests = <<>> /\ answers = <<>>
    /\ serving = 0 /\ phase = "idle" /\ mode = "attach" /\ redocks = 0
    /\ arm = "out"       \* the simulator boots with the arm straight out
    /\ plate = 0 /\ cmds = <<>> /\ power = FALSE /\ held = 0 /\ seen = "nothing"

PickerTypeOK ==
    /\ up \in BOOLEAN
    /\ requests \in Seq(Request) /\ answers \in Seq(Answer)
    /\ serving \in Task \union {0} /\ phase \in Phases /\ mode \in Modes
    /\ redocks \in 0 .. MaxRedocks
    /\ arm \in {"tucked", "tucking", "out"} /\ plate \in Task \union {0}
    /\ cmds \in Seq(Modes) /\ power \in BOOLEAN /\ held \in Task \union {0}
    /\ seen \in {"nothing", "free", "held"}
=============================================================================
