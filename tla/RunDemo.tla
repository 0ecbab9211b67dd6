------------------------------ MODULE RunDemo ------------------------------
(* scripts/run_demo.sh, the launcher of a simulator session: a process that *)
(* sweeps away whatever runs, boots Isaac Sim, brings up the ROS 2 stack    *)
(* and exits, leaving both behind.  Every sweep (stop_pipeline) kills by    *)
(* the name of the process, so it hits the Isaac Sim and the bringup of all *)
(* launchers, and no launcher.  Progress goes to the log the console reads. *)
EXTENDS Naturals, Sequences

CONSTANTS
  MaxRuns,    \* bound: sessions ever started
  MaxDeaths   \* bound: times something outside kills a part of the pipeline

ASSUME RunAssumption == MaxRuns \in Nat \ {0} /\ MaxDeaths \in Nat

VARIABLES
  launcher,  \* where the run_demo.sh of each run is
  unread,    \* the lines of its log the console has not read: the phase each stands for
  isaac,     \* the runs whose Isaac Sim is up
  ros,       \* the runs whose ROS 2 bringup is up
  ready,     \* SIM_RESULT, one file for all runs, says that the simulation plays
  deaths

pipeVars == <<isaac, ros, ready, deaths>>
runVars == <<launcher, unread, isaac, ros, ready, deaths>>

Runs == 1..MaxRuns
Exited == {"ok", "bad"}
Stages == Exited \union {"none", "reset", "loading", "settle"}
Phases == {"idle", "sim", "ros", "running", "failed"}

RunTypeOK == /\ launcher \in [Runs -> Stages]
             /\ unread \in [Runs -> Seq(Phases)]
             /\ isaac \subseteq Runs /\ ros \subseteq Runs
             /\ ready \in BOOLEAN /\ deaths \in 0..MaxDeaths

RunInit == /\ launcher = [r \in Runs |-> "none"] /\ unread = [r \in Runs |-> <<>>]
           /\ isaac = {} /\ ros = {} /\ ready = FALSE /\ deaths = 0

\* session.pipeline_alive: pgrep for spawn_warehouse.py and for the bringup.
PipelineAlive == isaac # {} \/ ros # {}

\* stop_pipeline: SIGINT, then pkill -9 on the patterns.
StopPipeline == isaac' = {} /\ ros' = {}

Goes(r, from, to) == launcher[r] = from /\ launcher' = [launcher EXCEPT ![r] = to]
Says(r, lines) == unread' = [unread EXCEPT ![r] = @ \o lines]

-----------------------------------------------------------------------------
(* The launcher, from top to bottom.                                        *)

\* "Always reset first so re-running is a clean restart", then Isaac Sim.
Boot(r) == /\ Goes(r, "reset", "loading")
           /\ isaac' = {r} /\ ros' = {} /\ ready' = FALSE
           /\ Says(r, <<"sim">>)
           /\ UNCHANGED deaths

\* The loop looks at SIM_RESULT first and at its own Isaac second; after six
\* minutes it goes on without the result.  Then the bringup starts.
Bringup(r) == /\ ready \/ r \in isaac
              /\ Goes(r, "loading", "settle")
              /\ ros' = ros \union {r}
              /\ Says(r, <<"ros">>)
              /\ UNCHANGED <<isaac, ready, deaths>>

\* A launcher that fails sweeps before it exits.
GivesUp(r, from) == /\ Goes(r, from, "bad")
                    /\ StopPipeline
                    /\ Says(r, <<"failed">>)
                    /\ UNCHANGED <<ready, deaths>>

SimDied(r) == ~ready /\ r \notin isaac /\ GivesUp(r, "loading")

\* After twelve seconds: is the bringup still there?
Settled(r) == /\ r \in ros
              /\ Goes(r, "settle", "ok")
              /\ Says(r, <<"running">>)
              /\ UNCHANGED pipeVars

BringupDied(r) == r \notin ros /\ GivesUp(r, "settle")

LauncherStep(r) == Bringup(r) \/ SimDied(r) \/ Settled(r) \/ BringupDied(r)

-----------------------------------------------------------------------------
(* The processes it leaves behind.                                          *)

SimPlays == /\ isaac # {} /\ ~ready
            /\ ready' = TRUE
            /\ UNCHANGED <<launcher, unread, isaac, ros, deaths>>

\* Isaac or the bringup crashes, or mem_guard.py or someone in a terminal runs
\* `run_demo.sh stop`.
Dies == /\ deaths < MaxDeaths /\ deaths' = deaths + 1
        /\ \/ \E r \in isaac : isaac' = isaac \ {r} /\ UNCHANGED ros
           \/ \E r \in ros : ros' = ros \ {r} /\ UNCHANGED isaac
           \/ PipelineAlive /\ StopPipeline
        /\ UNCHANGED <<launcher, unread, ready>>
=============================================================================
