--------------------------- MODULE ConsoleSession ---------------------------
(* The console's SessionManager (src/webui/session.py): one session record  *)
(* under one lock, the handlers of the dashboard's buttons, the threads     *)
(* they leave behind (a stop, a "Save & finish", a watcher per launcher),   *)
(* and the console itself going down and coming back.  A step below is what *)
(* a thread does while it holds the lock, or one thing it waits for without *)
(* it: a stop lets go of the lock while `run_demo.sh stop` runs.  A forced  *)
(* start keeps it (the lock is re-entrant).                                 *)
EXTENDS RunDemo, FiniteSets

CONSTANTS
  MaxThreads,  \* bound: stops and finishes under way at once
  MaxEvents    \* bound: presses of Stop and of Save & finish, launchers that cannot be
               \* started, stops that time out, and times the console goes down

ASSUME ConsoleAssumption == MaxThreads \in Nat \ {0} /\ MaxEvents \in Nat

VARIABLES
  session,   \* SessionManager._session (id 0: None)
  disk,      \* sessions/current.json
  proc,      \* the run whose launcher is _proc (0: None)
  cache,     \* _alive_cache: "old" once its 2 s are over
  watch,     \* the watcher thread of each launcher
  thread,    \* the stops and finishes under way
  up,        \* serve.py runs
  made,      \* sessions started so far
  events

conVars == <<session, disk, proc, cache, watch, thread, up, made,
             events>>
vars == <<runVars, conVars>>

Threads == 1..MaxThreads
Busy == {"starting", "running", "stopping"}
Ended == {"stopped", "exited", "failed"}
FinishSteps == {"none", "saving", "stopping", "pose graph", "done", "failed"}
Sessions == [id : 0..MaxRuns, state : {"idle"} \union Busy \union Ended, phase : Phases,
             finish : FinishSteps]
Idle == [id |-> 0, state |-> "idle", phase |-> "idle", finish |-> "none"]
NoThread == [job |-> "none", at |-> "none"]

TypeOK == /\ RunTypeOK
          /\ session \in Sessions /\ disk \in Sessions
          /\ proc \in 0..MaxRuns
          /\ cache \in {"old", "alive", "dead"}
          /\ watch \in [Runs -> {"none", "tail", "gone"}]
          /\ thread \in [Threads ->
               [job : {"none", "stop", "finish", "waypoints", "start", "orphan"},
                at : {"none", "saving", "begin", "sweep", "end", "pose graph"}]]
          /\ up \in BOOLEAN /\ made \in 0..MaxRuns
          /\ events \in 0..MaxEvents

Init == /\ RunInit
        /\ session = Idle /\ disk = Idle
        /\ proc = 0 /\ cache = "old"
        /\ watch = [r \in Runs |-> "none"] /\ thread = [t \in Threads |-> NoThread]
        /\ up = TRUE /\ made = 0
        /\ events = 0

\* Nobody is in the middle of a forced start.
LockFree == up /\ \A t \in Threads : thread[t].job # "start"

IsBusy == session.state \in Busy

\* _persist after every change.
Becomes(s) == session' = s /\ disk' = s

At(t, a) == thread[t].at = a /\ thread[t].job # "orphan"
Moves(t, a) == thread' = [thread EXCEPT ![t].at = a]
Gone(t) == thread' = [thread EXCEPT ![t] = NoThread]

\* threading.Thread(...).start(): into the first free slot.
Spawned(t, job, at) == /\ thread[t] = NoThread
                       /\ \A u \in Threads : u < t => thread[u] # NoThread
                       /\ thread' = [thread EXCEPT ![t] = [job |-> job, at |-> at]]
Event == events < MaxEvents /\ events' = events + 1

-----------------------------------------------------------------------------
(* Start.                                                                   *)

\* The session record is new before the launcher is: a Popen that fails leaves a
\* session that is "starting", is not on disk and has the previous _proc.
Launch(from) ==
  LET r == made + 1
      new == [id |-> r, state |-> "starting", phase |-> "idle", finish |-> "none"] IN
  /\ made < MaxRuns /\ made' = r
  /\ \/ /\ Becomes(new) /\ proc' = r
        /\ launcher' = [launcher EXCEPT ![r] = "reset"]
        /\ watch' = [watch EXCEPT ![r] = "tail"]
        /\ UNCHANGED events
     \/ /\ Event /\ session' = new /\ disk' = from.disk /\ proc' = from.proc
        /\ UNCHANGED <<launcher, watch>>

\* start() with no session in the way.
Start == /\ LockFree /\ ~IsBusy
         /\ Launch([disk |-> disk, proc |-> proc])
         /\ UNCHANGED <<unread, pipeVars, cache, thread, up>>

\* start(force=True) over a busy session: _stop_blocking up to the launcher's stop.
ForceStart(t) ==
  /\ LockFree /\ IsBusy /\ made < MaxRuns
  /\ Spawned(t, "start", "sweep")
  /\ Becomes([session EXCEPT !.state = "stopping"])
  /\ UNCHANGED <<runVars, proc, cache, watch, up, made, events>>

\* The stop is over: the old session ends, and either the request is valid and
\* the new one begins, or it is refused only now (ScenarioError).
ForcedStart(t) ==
  LET old == [session EXCEPT !.state = "stopped"] IN
  /\ up /\ thread[t] = [job |-> "start", at |-> "end"]
  /\ cache' = "old" /\ Gone(t)
  /\ \/ Launch([disk |-> old, proc |-> 0])
     \/ Becomes(old) /\ proc' = 0 /\ UNCHANGED <<launcher, watch, made, events>>
  /\ UNCHANGED <<unread, pipeVars, up>>

-----------------------------------------------------------------------------
(* Stop.                                                                    *)

\* Mutant: a stop under way makes the click do nothing but set the state.
StopQuietly == /\ LockFree /\ session.id # 0 /\ Event
               /\ Becomes([session EXCEPT !.state = "stopping"])
               /\ \/ \E t \in Threads : Spawned(t, "stop", "begin")
                  \/ (\E t \in Threads : thread[t] # NoThread) /\ UNCHANGED thread
               /\ UNCHANGED <<runVars, proc, cache, watch, up, made>>

\* The Stop button, whatever state the session is in.
Stop == /\ LockFree /\ session.id # 0 /\ Event
        /\ Becomes([session EXCEPT !.state = "stopping"])
        /\ \E t \in Threads : Spawned(t, "stop", "begin")
        /\ UNCHANGED <<runVars, proc, cache, watch, up, made>>

\* _stop_blocking, first time under the lock.
StopBegin(t) == /\ LockFree /\ At(t, "begin")
                /\ Becomes([session EXCEPT !.state = "stopping"])
                /\ Moves(t, "sweep")
                /\ UNCHANGED <<runVars, proc, cache, watch, up, made, events>>

\* `run_demo.sh stop --keep-console`, or 120 s without an answer.  It runs on
\* when the console goes down.
Sweep(t) == /\ thread[t].at = "sweep"
            /\ IF thread[t].job = "orphan" THEN Gone(t) ELSE Moves(t, "end")
            /\ \/ StopPipeline /\ UNCHANGED events
               \/ Event /\ UNCHANGED <<isaac, ros>>
            /\ UNCHANGED <<launcher, unread, ready, deaths, session, disk, proc,
                           cache, watch, up, made>>

\* Mutant: _proc is kept, so the launcher's exit is still reported.
StopKeepsProc(t) ==
  /\ LockFree /\ At(t, "end")
  /\ Becomes([session EXCEPT !.state = "stopped"])
  /\ cache' = "old"
  /\ IF thread[t].job = "finish" THEN Moves(t, "pose graph") ELSE Gone(t)
  /\ UNCHANGED <<runVars, proc, watch, up, made, events>>

\* _finish_step writes to whichever session is there, if it has a finish.
FinishStep(s, step) == IF s.finish = "none" THEN s ELSE [s EXCEPT !.finish = step]

\* _stop_blocking, second time: whichever session is there now has stopped.
StopEnd(t) ==
  LET s == [session EXCEPT !.state = "stopped"] IN
  /\ LockFree /\ At(t, "end")
  /\ Becomes(CASE thread[t].job = "finish" -> FinishStep(s, "pose graph")
               [] thread[t].job = "waypoints" -> FinishStep(s, "done")
               [] OTHER -> s)
  /\ proc' = 0 /\ cache' = "old"
  /\ IF thread[t].job = "finish" THEN Moves(t, "pose graph") ELSE Gone(t)
  /\ UNCHANGED <<runVars, watch, up, made, events>>

-----------------------------------------------------------------------------
(* Save & finish.                                                           *)

Finish(t, job) == /\ LockFree /\ session.state = "running" /\ Event
                  /\ session.finish \in {"none", "done", "failed"}
                  /\ Becomes([session EXCEPT !.finish = "saving"])
                  /\ Spawned(t, job, "saving")
                  /\ UNCHANGED <<runVars, proc, cache, watch, up, made>>

\* maps.sh save needs a /map somebody publishes; the waypoints are a file.
Save(t) == /\ LockFree /\ At(t, "saving")
           /\ \/ /\ ros # {} \/ thread[t].job = "waypoints"
                 /\ Becomes(FinishStep(session, "stopping")) /\ Moves(t, "begin")
              \/ Becomes(FinishStep(session, "failed")) /\ Gone(t)
           /\ UNCHANGED <<runVars, proc, cache, watch, up, made, events>>

\* With the stack down, the pose graph: complete, or still pending.
SavePoseGraph(t) == /\ LockFree /\ At(t, "pose graph")
                    /\ \E step \in {"done", "failed"} : Becomes(FinishStep(session, step))
                    /\ Gone(t)
                    /\ UNCHANGED <<runVars, proc, cache, watch, up, made, events>>

-----------------------------------------------------------------------------
(* The watcher of a launcher's log, and the dashboard's poll.               *)

PhaseOrder == <<"idle", "sim", "ros", "running">>
Rank(phase) == CHOOSE i \in DOMAIN PhaseOrder : PhaseOrder[i] = phase

\* _advance: forward only, and failed is the end.
Advanced(from, to) ==
  IF from = "failed" \/ (to # "failed" /\ Rank(to) <= Rank(from)) THEN from ELSE to

\* One line of the log.  Nothing compares the launcher with _proc here.
Consume(r) ==
  LET phase == Advanced(session.phase, Head(unread[r])) IN
  /\ LockFree /\ watch[r] = "tail" /\ unread[r] # <<>>
  /\ unread' = [unread EXCEPT ![r] = Tail(@)]
  /\ IF proc = 0 \/ phase = session.phase
     THEN UNCHANGED <<session, disk>>
     ELSE Becomes([session EXCEPT !.phase = phase])
  /\ UNCHANGED <<launcher, pipeVars, proc, cache, watch, thread, up, made, events>>

\* _finish: what the launcher's exit makes of the session.
Outcome(s, r) ==
  CASE s.state = "stopping" -> s
    [] s.state # "stopping" /\ launcher[r] = "ok" /\ s.phase = "running" ->
         [s EXCEPT !.state = "running"]
    [] OTHER -> [s EXCEPT !.state = "failed", !.phase = "failed"]

\* Mutant: the exit of any launcher counts.
ExitOfAny(r) ==
  /\ LockFree /\ watch[r] = "tail" /\ unread[r] = <<>> /\ launcher[r] \in Exited
  /\ watch' = [watch EXCEPT ![r] = "gone"]
  /\ IF proc # 0 THEN Becomes(Outcome(session, r)) ELSE UNCHANGED <<session, disk>>
  /\ UNCHANGED <<runVars, proc, cache, thread, up, made, events>>

\* The log is read to its end and the launcher has exited.
WatchEnd(r) ==
  /\ LockFree /\ watch[r] = "tail" /\ unread[r] = <<>> /\ launcher[r] \in Exited
  /\ watch' = [watch EXCEPT ![r] = "gone"]
  /\ IF proc = r THEN Becomes(Outcome(session, r)) ELSE UNCHANGED <<session, disk>>
  /\ UNCHANGED <<runVars, proc, cache, thread, up, made, events>>

\* status(): a run whose pipeline is gone has exited.
Poll ==
  /\ LockFree /\ session.state = "running"
  /\ LET alive == IF cache = "old" THEN PipelineAlive ELSE cache = "alive" IN
     /\ cache' = IF alive THEN "alive" ELSE "dead"
     /\ IF alive THEN UNCHANGED <<session, disk>> ELSE Becomes([session EXCEPT !.state = "exited"])
  /\ UNCHANGED <<runVars, proc, watch, thread, up, made, events>>

\* Mutant: an answer "alive" is kept for ever.
NeverOld == LockFree /\ cache = "dead" /\ cache' = "old"
            /\ UNCHANGED <<runVars, session, disk, proc, watch, thread, up, made,
                           events>>

\* Two seconds pass.
CacheAges == /\ LockFree /\ cache # "old" /\ cache' = "old"
             /\ UNCHANGED <<runVars, session, disk, proc, watch, thread, up, made,
                            events>>

\* The launcher's first sweep sleeps for three.
BootAges(r) == /\ Boot(r) /\ cache' = "old"
               /\ UNCHANGED <<session, disk, proc, watch, thread, up, made, events>>

-----------------------------------------------------------------------------
(* The console goes down; its launchers, recorders and the stop it waits    *)
(* for are processes of their own and go on.                                *)

ConsoleDies ==
  /\ up /\ Event
  /\ up' = FALSE /\ session' = Idle /\ proc' = 0 /\ cache' = "old"
  /\ watch' = [r \in Runs |-> IF watch[r] = "tail" THEN "gone" ELSE watch[r]]
  /\ thread' = [t \in Threads |-> IF thread[t].at = "sweep"
                                  THEN [thread[t] EXCEPT !.job = "orphan"] ELSE NoThread]
  /\ UNCHANGED <<runVars, disk, made>>

\* Mutant: the record is taken as it was.
AdoptAsWas == /\ ~up /\ up' = TRUE /\ Becomes(disk)
              /\ UNCHANGED <<runVars, proc, cache, watch, thread, made, events>>

\* _adopt, when the console starts.
Adopt == /\ ~up /\ up' = TRUE
         /\ Becomes(IF disk.state \notin Busy THEN disk
                    ELSE [disk EXCEPT !.state = IF PipelineAlive THEN "running" ELSE "exited"])
         /\ UNCHANGED <<runVars, proc, cache, watch, thread, made, events>>

-----------------------------------------------------------------------------

Watcher(r) == Consume(r) \/ WatchEnd(r)
Thread(t) == StopBegin(t) \/ Sweep(t) \/ StopEnd(t) \/ Save(t) \/ SavePoseGraph(t) \/ ForcedStart(t)

Next == \/ Start \/ Stop \/ Poll \/ CacheAges \/ ConsoleDies \/ Adopt
        \/ \E t \in Threads : \/ ForceStart(t) \/ Thread(t)
                              \/ \E job \in {"finish", "waypoints"} : Finish(t, job)
        \/ \E r \in Runs : Watcher(r) \/ BootAges(r) \/ (LauncherStep(r) /\ UNCHANGED conVars)
        \/ (SimPlays \/ Dies) /\ UNCHANGED conVars

\* Threads and watchers run, the dashboard polls once a second, time passes.
\* Nobody has to press a button or to start the console again.
Fairness == /\ WF_vars(Poll) /\ WF_vars(CacheAges)
            /\ \A t \in Threads : WF_vars(Thread(t))
            /\ \A r \in Runs : WF_vars(Watcher(r))

Spec == Init /\ [][Next]_vars /\ Fairness

-----------------------------------------------------------------------------
(* Properties.                                                              *)

\* A session reads "failed" only after its own launcher has exited: the exit of
\* the launcher of an earlier session is not counted against it (_finish).
FailedAfterExit == session.state = "failed" => launcher[session.id] \in Exited

\* A session that has ended never reads as starting or running again, whatever
\* its launcher, an earlier stop, a poll or a restart of the console do.
NeverRevived == [][(session.state \in Ended /\ session'.id = session.id)
                     => session'.state \notin {"starting", "running"}]_vars

\* A run that is shown as running while nothing runs is noticed, also when the
\* pipeline was stopped behind the console's back (status).
DeadRunNoticed == (up /\ session.state = "running" /\ ~PipelineAlive)
                    ~> (~up \/ session.state # "running" \/ PipelineAlive)

\* A session does not stay "stopping": every stop, finish and forced start comes
\* to its end, in whatever order several of them do.
StopEnds == (up /\ session.state = "stopping") ~> (~up \/ session.state # "stopping")
=============================================================================
