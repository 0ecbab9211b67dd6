--------------------------- MODULE ConsoleProofs ---------------------------
(* Theorems of the console's sessions, for any number of sessions, threads, *)
(* presses of a button, restarts and deaths of the pipeline: a session      *)
(* fails only by its own launcher, and an ended session stays ended.        *)
EXTENDS ConsoleSession, TLAPS

\* A console that is down has forgotten everything but what is on disk.
DownIsIdle == ~up => session = Idle /\ proc = 0

\* Sessions are numbered as they are made.
IdsMade == session.id <= made /\ disk.id <= made

\* Who has a watcher has a launcher that was started.  The launcher that _proc
\* names is watched only while its own session is the record, and starts or stops:
\* once the watcher has told the outcome it is gone.
TailIsCurrent == /\ proc <= made
                 /\ \A r \in Runs : watch[r] = "tail" =>
                      /\ r <= made
                      /\ proc = r => session.id = r /\ session.state \in {"starting", "stopping"}

\* What failed failed by its own launcher, in memory and on disk.
Failed(s) == s.state = "failed" => s.id \in Runs /\ launcher[s.id] \in Exited
FailedByOwn == Failed(session) /\ Failed(disk)

\* What TypeOK says of a thread.
Slots == [job : {"none", "stop", "finish", "waypoints", "start", "orphan"},
          at : {"none", "saving", "begin", "sweep", "end", "pose graph"}]

IInv == TypeOK /\ DownIsIdle /\ IdsMade /\ TailIsCurrent /\ FailedByOwn

-----------------------------------------------------------------------------
(* The launcher and the pipeline.                                           *)

\* Nothing runs, and no session was made.
LEMMA InvStarts == Init => IInv
<1> SUFFICES ASSUME Init PROVE IInv
  OBVIOUS
<1>1. TypeOK
  <2>1. RunTypeOK
    <3>1. launcher \in [Runs -> Stages]
      BY DEF Init, RunInit, Stages
    <3>2. unread \in [Runs -> Seq(Phases)]
      BY DEF Init, RunInit
    <3>3. isaac = {} /\ ros = {} /\ ready = FALSE /\ deaths \in 0..MaxDeaths
      BY RunAssumption DEF Init, RunInit
    <3> QED
      BY <3>1, <3>2, <3>3 DEF RunTypeOK
  <2>2. Idle \in Sessions
    BY RunAssumption DEF Idle, Sessions, Busy, Ended, Phases, FinishSteps
  <2>3. /\ watch \in [Runs -> {"none", "tail", "gone"}] /\ cache \in {"old", "alive", "dead"}
        /\ proc \in 0..MaxRuns /\ made \in 0..MaxRuns /\ events \in 0..MaxEvents
    BY ConsoleAssumption, RunAssumption DEF Init
  <2>4. NoThread \in Slots
    BY DEF NoThread, Slots
  <2>5. thread \in [Threads -> Slots]
    BY <2>4 DEF Init
  <2> QED
    BY <2>1, <2>2, <2>3, <2>5 DEF Init, TypeOK, Slots
<1>2. DownIsIdle /\ IdsMade /\ FailedByOwn
  BY RunAssumption DEF Init, DownIsIdle, IdsMade, FailedByOwn, Failed, Idle
<1>3. TailIsCurrent
  BY RunAssumption DEF Init, TailIsCurrent
<1> QED
  BY <1>1, <1>2, <1>3 DEF IInv

\* What the launchers and the pipeline do leaves the console alone, is typed, and
\* takes no exit back.
RunKept == /\ RunTypeOK'
           /\ \A r \in Runs : launcher[r] \in Exited => launcher'[r] \in Exited

\* A launcher that goes somewhere was not at its end, and what it says is lines.
LEMMA RunMoves ==
  ASSUME RunTypeOK, NEW r \in Runs, NEW from \in Stages \ Exited, NEW to \in Stages,
         NEW line \in Phases, Goes(r, from, to), Says(r, <<line>>)
  PROVE  /\ launcher' \in [Runs -> Stages] /\ unread' \in [Runs -> Seq(Phases)]
         /\ \A q \in Runs : launcher[q] \in Exited => launcher'[q] \in Exited
<1>1. launcher' \in [Runs -> Stages]
  BY DEF RunTypeOK, Goes
<1>2. unread' \in [Runs -> Seq(Phases)]
  <2>1. unread[r] \o <<line>> \in Seq(Phases)
    BY DEF RunTypeOK
  <2> QED
    BY <2>1 DEF RunTypeOK, Says
<1>3. ASSUME NEW q \in Runs, launcher[q] \in Exited
      PROVE  launcher'[q] \in Exited
  BY <1>3 DEF RunTypeOK, Goes
<1> QED
  BY <1>1, <1>2, <1>3

\* The launcher's first sweep and Isaac's boot.
LEMMA RunBoot ==
  ASSUME RunTypeOK, NEW r \in Runs, Boot(r)
  PROVE  RunKept
<1>1. /\ "reset" \in Stages \ Exited /\ "loading" \in Stages /\ "sim" \in Phases
  BY DEF Stages, Exited, Phases
<1>2. /\ launcher' \in [Runs -> Stages] /\ unread' \in [Runs -> Seq(Phases)]
      /\ \A q \in Runs : launcher[q] \in Exited => launcher'[q] \in Exited
  BY <1>1, RunMoves DEF Boot
<1> QED
  BY <1>2 DEF RunKept, RunTypeOK, Boot

\* The launcher after that.
LEMMA RunLauncher ==
  ASSUME RunTypeOK, NEW r \in Runs, LauncherStep(r)
  PROVE  RunKept
<1>1. /\ {"loading", "settle"} \subseteq Stages \ Exited
      /\ {"settle", "ok", "bad"} \subseteq Stages /\ {"ros", "failed", "running"} \subseteq Phases
  BY DEF Stages, Exited, Phases
<1>2. CASE Bringup(r)
  <2>1. /\ launcher' \in [Runs -> Stages] /\ unread' \in [Runs -> Seq(Phases)]
        /\ \A q \in Runs : launcher[q] \in Exited => launcher'[q] \in Exited
    BY <1>1, <1>2, RunMoves DEF Bringup
  <2> QED
    BY <1>2, <2>1 DEF RunKept, RunTypeOK, Bringup
<1>3. ASSUME NEW from \in {"loading", "settle"}, GivesUp(r, from)
      PROVE  RunKept
  <2>1. /\ launcher' \in [Runs -> Stages] /\ unread' \in [Runs -> Seq(Phases)]
        /\ \A q \in Runs : launcher[q] \in Exited => launcher'[q] \in Exited
    BY <1>1, <1>3, RunMoves DEF GivesUp
  <2> QED
    BY <1>3, <2>1 DEF RunKept, RunTypeOK, GivesUp, StopPipeline
<1>4. CASE Settled(r)
  <2>1. /\ launcher' \in [Runs -> Stages] /\ unread' \in [Runs -> Seq(Phases)]
        /\ \A q \in Runs : launcher[q] \in Exited => launcher'[q] \in Exited
    BY <1>1, <1>4, RunMoves DEF Settled
  <2> QED
    BY <1>4, <2>1 DEF RunKept, RunTypeOK, Settled, pipeVars
<1> QED
  BY <1>2, <1>3, <1>4 DEF LauncherStep, SimDied, BringupDied

\* The simulation plays; a part of the pipeline dies.
LEMMA RunPipeline ==
  ASSUME RunTypeOK, SimPlays \/ Dies
  PROVE  RunKept
<1>1. CASE SimPlays
  BY <1>1 DEF RunKept, RunTypeOK, SimPlays
<1>2. CASE Dies
  <2>1. deaths' \in 0..MaxDeaths
    BY <1>2, RunAssumption DEF RunTypeOK, Dies
  <2> QED
    BY <1>2, <2>1 DEF RunKept, RunTypeOK, Dies, StopPipeline
<1> QED
  BY <1>1, <1>2

\* The console is where it was while the launchers and the pipeline move.
LEMMA PipelineMoves ==
  ASSUME IInv, RunKept, UNCHANGED <<session, disk, proc, watch, thread, up, made, events>>,
         cache' \in {cache, "old"}
  PROVE  IInv'
<1>1. TypeOK'
  BY DEF IInv, TypeOK, RunKept
<1>2. DownIsIdle' /\ IdsMade' /\ TailIsCurrent'
  BY DEF IInv, DownIsIdle, IdsMade, TailIsCurrent
<1>3. FailedByOwn'
  BY DEF IInv, FailedByOwn, Failed, RunKept
<1> QED
  BY <1>1, <1>2, <1>3 DEF IInv

-----------------------------------------------------------------------------
(* The console.                                                             *)

\* A thread is spawned, moves on or ends, and thread keeps its type.
LEMMA ThreadMoves ==
  ASSUME TypeOK, NEW t \in Threads
  PROVE  /\ \A a \in {"end", "sweep", "begin", "pose graph"} : Moves(t, a) => thread' \in [Threads -> Slots]
         /\ Gone(t) => thread' \in [Threads -> Slots]
         /\ \A job \in {"stop", "finish", "waypoints", "start"}, at \in {"saving", "begin", "sweep"} :
               Spawned(t, job, at) => thread' \in [Threads -> Slots]
<1>1. thread \in [Threads -> Slots]
  BY DEF TypeOK, Slots
<1>2. ASSUME NEW a \in {"end", "sweep", "begin", "pose graph"}, Moves(t, a)
      PROVE  thread' \in [Threads -> Slots]
  <2>1. [thread[t] EXCEPT !.at = a] \in Slots
    BY <1>1 DEF Slots
  <2> QED
    BY <1>1, <1>2, <2>1 DEF Moves
<1>3. ASSUME Gone(t)
      PROVE  thread' \in [Threads -> Slots]
  <2>1. NoThread \in Slots
    BY DEF NoThread, Slots
  <2> QED
    BY <1>1, <1>3, <2>1 DEF Gone
<1>4. ASSUME NEW job \in {"stop", "finish", "waypoints", "start"},
             NEW at \in {"saving", "begin", "sweep"}, Spawned(t, job, at)
      PROVE  thread' \in [Threads -> Slots]
  <2>1. [job |-> job, at |-> at] \in Slots
    BY DEF Slots
  <2> QED
    BY <1>1, <1>4, <2>1 DEF Spawned
<1> QED
  BY <1>2, <1>3, <1>4

\* One more event stays within the bound.
LEMMA EventCounted ==
  ASSUME TypeOK, Event
  PROVE  events' \in 0..MaxEvents
<1>1. events \in 0..MaxEvents /\ MaxEvents \in Nat
  BY ConsoleAssumption DEF TypeOK
<1> QED
  BY <1>1 DEF Event

\* A session record whose state changes is one still, of the same session.
LEMMA StateMoves ==
  ASSUME NEW s \in Sessions, NEW state \in {"running", "stopping", "stopped", "exited"}
  PROVE  /\ [s EXCEPT !.state = state] \in Sessions
         /\ [s EXCEPT !.state = state].id = s.id /\ [s EXCEPT !.state = state].state = state
  BY DEF Sessions, Busy, Ended

\* So is one whose phase changes, or that fails.
LEMMA PhaseMoves ==
  ASSUME NEW s \in Sessions, NEW phase \in Phases
  PROVE  /\ [s EXCEPT !.phase = phase] \in Sessions
         /\ [s EXCEPT !.phase = phase].id = s.id /\ [s EXCEPT !.phase = phase].state = s.state
         /\ [s EXCEPT !.state = "failed", !.phase = "failed"] \in Sessions
         /\ [s EXCEPT !.state = "failed", !.phase = "failed"].id = s.id
         /\ [s EXCEPT !.state = "failed", !.phase = "failed"].state = "failed"
<1>1. "failed" \in Phases /\ "failed" \in Ended
  BY DEF Phases, Ended
<1> QED
  BY <1>1 DEF Sessions

\* And one whose finish gets further.
LEMMA FinishMoves ==
  ASSUME NEW s \in Sessions, NEW step \in FinishSteps
  PROVE  /\ [s EXCEPT !.finish = step] \in Sessions
         /\ [s EXCEPT !.finish = step].id = s.id /\ [s EXCEPT !.finish = step].state = s.state
         /\ FinishStep(s, step) \in Sessions
         /\ FinishStep(s, step).id = s.id /\ FinishStep(s, step).state = s.state
  BY DEF Sessions, FinishStep

\* A change of the record that leaves the launchers and their watchers alone and keeps
\* or forgets _proc, and neither fails the session nor ends what is watched.
LEMMA RecordMoves ==
  ASSUME IInv, TypeOK', UNCHANGED <<launcher, watch, up, made>>,
         up \/ UNCHANGED <<session, proc>>,
         proc' \in {0, proc}, disk' \in {disk, session'}, session'.id = session.id,
         session'.state = "failed" => session.state = "failed",
         proc' # 0 /\ session.state \in {"starting", "stopping"}
            => session'.state \in {"starting", "stopping"}
  PROVE  IInv'
<1>1. DownIsIdle' /\ IdsMade'
  BY DEF IInv, DownIsIdle, IdsMade
<1>2. TailIsCurrent'
  <2>1. proc' <= made'
    <3>1. made' = made /\ made \in 0..MaxRuns /\ proc <= made
      BY DEF IInv, TypeOK, TailIsCurrent
    <3> QED
      BY <3>1, RunAssumption
  <2>2. ASSUME NEW r \in Runs, watch'[r] = "tail"
        PROVE  r <= made'
    BY <2>2 DEF IInv, TailIsCurrent
  <2>3. ASSUME NEW r \in Runs, watch'[r] = "tail", proc' = r
        PROVE  session'.id = r /\ session'.state \in {"starting", "stopping"}
    <3>1. proc' # 0
      BY <2>3, RunAssumption DEF Runs
    <3>2. proc = r /\ watch[r] = "tail"
      BY <2>3, <3>1
    <3> QED
      BY <2>3, <3>1, <3>2 DEF IInv, TailIsCurrent
  <2> QED
    BY <2>1, <2>2, <2>3 DEF TailIsCurrent
<1>3. FailedByOwn'
  BY DEF IInv, FailedByOwn, Failed
<1> QED
  BY <1>1, <1>2, <1>3 DEF IInv

\* Stop, the parts of a stop, and Save & finish.
LEMMA InvStops ==
  ASSUME IInv, NEW t \in Threads,
         \/ ForceStart(t) \/ StopBegin(t) \/ StopEnd(t) \/ Save(t) \/ SavePoseGraph(t) \/ Sweep(t)
         \/ \E job \in {"finish", "waypoints"} : Finish(t, job)
  PROVE  IInv'
<1>0. TypeOK /\ session \in Sessions
  BY DEF IInv, TypeOK
<1>1. CASE ForceStart(t) \/ StopBegin(t)
  <2>1. /\ session' = [session EXCEPT !.state = "stopping"] /\ disk' = session' /\ up
        /\ UNCHANGED <<runVars, proc, cache, watch, up, made, events>>
    BY <1>1 DEF ForceStart, StopBegin, Becomes, LockFree
  <2>2. session' \in Sessions /\ session'.id = session.id /\ session'.state = "stopping"
    BY <1>0, <2>1, StateMoves
  <2>3. thread' \in [Threads -> Slots]
    BY <1>0, <1>1, ThreadMoves DEF ForceStart, StopBegin
  <2>4. TypeOK'
    BY <1>0, <2>1, <2>2, <2>3 DEF TypeOK, RunTypeOK, runVars, Slots
  <2> QED
    BY <2>1, <2>2, <2>4, RecordMoves DEF runVars
<1>2. CASE StopEnd(t)
  <2> DEFINE s == [session EXCEPT !.state = "stopped"]
  <2>1. s \in Sessions /\ s.id = session.id /\ s.state = "stopped"
    BY <1>0, StateMoves
  <2> HIDE DEF s
  <2>2. ASSUME NEW step \in {"pose graph", "done"}
        PROVE  /\ FinishStep(s, step) \in Sessions
               /\ FinishStep(s, step).id = s.id /\ FinishStep(s, step).state = s.state
    <3>1. step \in FinishSteps
      BY DEF FinishSteps
    <3> QED
      BY <2>1, <3>1, FinishMoves
  <2>3. session' \in {s, FinishStep(s, "pose graph"), FinishStep(s, "done")} /\ disk' = session'
    BY <1>2 DEF StopEnd, Becomes, s
  <2>4. session' \in Sessions /\ session'.id = session.id /\ session'.state = "stopped"
    BY <2>1, <2>2, <2>3
  <2>5. /\ proc' = 0 /\ cache' = "old" /\ up
        /\ UNCHANGED <<runVars, watch, up, made, events>>
    BY <1>2 DEF StopEnd, LockFree
  <2>6. thread' \in [Threads -> Slots]
    BY <1>0, <1>2, ThreadMoves DEF StopEnd
  <2>7. TypeOK'
    <3>1. RunTypeOK'
      BY <1>0, <2>5 DEF TypeOK, RunTypeOK, runVars, pipeVars
    <3>2. proc' \in 0..MaxRuns
      BY <2>5, RunAssumption
    <3> QED
      BY <1>0, <2>3, <2>4, <2>5, <2>6, <3>1, <3>2 DEF TypeOK, Slots
  <2>8. proc' \in {0, proc} /\ disk' \in {disk, session'} /\ session'.state # "failed"
    BY <2>3, <2>4, <2>5
  <2> QED
    BY <2>4, <2>5, <2>7, <2>8, RecordMoves DEF runVars
<1>3. CASE Save(t) \/ SavePoseGraph(t)
  <2>1. /\ \E step \in {"stopping", "failed", "done"} : session' = FinishStep(session, step)
        /\ disk' = session' /\ up
        /\ UNCHANGED <<runVars, proc, cache, watch, up, made, events>>
    BY <1>3 DEF Save, SavePoseGraph, Becomes, LockFree
  <2>2. session' \in Sessions /\ session'.id = session.id /\ session'.state = session.state
    <3>1. PICK step \in {"stopping", "failed", "done"} : session' = FinishStep(session, step)
      BY <2>1
    <3>2. step \in FinishSteps
      BY DEF FinishSteps
    <3> QED
      BY <1>0, <3>1, <3>2, FinishMoves
  <2>3. thread' \in [Threads -> Slots]
    BY <1>0, <1>3, ThreadMoves DEF Save, SavePoseGraph
  <2>4. TypeOK'
    BY <1>0, <2>1, <2>2, <2>3 DEF TypeOK, RunTypeOK, runVars, Slots
  <2> QED
    BY <2>1, <2>2, <2>4, RecordMoves DEF runVars
<1>4. ASSUME NEW job \in {"finish", "waypoints"}, Finish(t, job)
      PROVE  IInv'
  <2>1. /\ session' = [session EXCEPT !.finish = "saving"] /\ disk' = session' /\ up
        /\ UNCHANGED <<runVars, proc, cache, watch, up, made>>
    BY <1>4 DEF Finish, Becomes, LockFree
  <2>2. session' \in Sessions /\ session'.id = session.id /\ session'.state = session.state
    <3>1. "saving" \in FinishSteps
      BY DEF FinishSteps
    <3> QED
      BY <1>0, <2>1, <3>1, FinishMoves
  <2>3. thread' \in [Threads -> Slots]
    BY <1>0, <1>4, ThreadMoves DEF Finish
  <2>4. events' \in 0..MaxEvents
    BY <1>0, <1>4, EventCounted DEF Finish
  <2>5. TypeOK'
    BY <1>0, <2>1, <2>2, <2>3, <2>4 DEF TypeOK, RunTypeOK, runVars, Slots
  <2> QED
    BY <2>1, <2>2, <2>5, RecordMoves DEF runVars
<1>5. CASE Sweep(t)
  <2>1. thread' \in [Threads -> Slots]
    BY <1>0, <1>5, ThreadMoves DEF Sweep
  <2>2. /\ events' \in 0..MaxEvents /\ isaac' \subseteq Runs /\ ros' \subseteq Runs
    <3>1. CASE StopPipeline /\ UNCHANGED events
      BY <1>0, <3>1 DEF TypeOK, StopPipeline
    <3>2. CASE Event /\ UNCHANGED <<isaac, ros>>
      BY <1>0, <3>2, EventCounted DEF TypeOK, RunTypeOK
    <3> QED
      BY <1>5, <3>1, <3>2 DEF Sweep
  <2>3. UNCHANGED <<launcher, unread, ready, deaths, session, disk, proc, cache, watch, up, made>>
    BY <1>5 DEF Sweep
  <2>4. TypeOK'
    BY <1>0, <2>1, <2>2, <2>3 DEF TypeOK, RunTypeOK, Slots
  <2> QED
    BY <2>3, <2>4, RecordMoves
<1> QED
  BY <1>1, <1>2, <1>3, <1>4, <1>5

\* The Stop button.
LEMMA InvStop ==
  ASSUME IInv, Stop
  PROVE  IInv'
<1>0. TypeOK /\ session \in Sessions
  BY DEF IInv, TypeOK
<1>1. /\ session' = [session EXCEPT !.state = "stopping"] /\ disk' = session' /\ up
      /\ UNCHANGED <<runVars, proc, cache, watch, up, made>>
  BY DEF Stop, Becomes, LockFree
<1>2. session' \in Sessions /\ session'.id = session.id /\ session'.state = "stopping"
  BY <1>0, <1>1, StateMoves
<1>3. thread' \in [Threads -> Slots]
  BY <1>0, ThreadMoves DEF Stop
<1>4. events' \in 0..MaxEvents
  BY <1>0, EventCounted DEF Stop
<1>5. TypeOK'
  BY <1>0, <1>1, <1>2, <1>3, <1>4 DEF TypeOK, RunTypeOK, runVars, Slots
<1> QED
  BY <1>1, <1>2, <1>5, RecordMoves DEF runVars

\* The dashboard's poll and its cache, and a line of a launcher's log.
LEMMA InvPolls ==
  ASSUME IInv, \/ Poll \/ CacheAges \/ \E r \in Runs : Consume(r)
  PROVE  IInv'
<1>0. TypeOK /\ session \in Sessions /\ disk \in Sessions
  BY DEF IInv, TypeOK
<1>1. CASE Poll
  <2>1. /\ session' \in {session, [session EXCEPT !.state = "exited"]} /\ disk' \in {disk, session'}
        /\ up /\ session.state = "running" /\ cache' \in {"alive", "dead"}
        /\ UNCHANGED <<runVars, proc, watch, thread, up, made, events>>
    BY <1>1 DEF Poll, Becomes, LockFree
  <2>2. /\ session' \in Sessions /\ disk' \in Sessions /\ session'.id = session.id
        /\ session'.state \in {"running", "exited"}
    <3> DEFINE gone == [session EXCEPT !.state = "exited"]
    <3>1. gone \in Sessions /\ gone.id = session.id /\ gone.state = "exited"
      BY <1>0, StateMoves
    <3>2. session' \in {session, gone}
      BY <2>1
    <3> HIDE DEF gone
    <3> QED
      BY <1>0, <2>1, <3>1, <3>2
  <2>3. TypeOK'
    BY <1>0, <2>1, <2>2 DEF TypeOK, RunTypeOK, runVars
  <2> QED
    BY <2>1, <2>2, <2>3, RecordMoves DEF runVars
<1>2. CASE CacheAges
  <2>1. TypeOK' /\ UNCHANGED <<launcher, watch, up, made, session, disk, proc>>
    BY <1>0, <1>2 DEF TypeOK, RunTypeOK, CacheAges, runVars
  <2> QED
    BY <2>1, RecordMoves
<1>3. ASSUME NEW r \in Runs, Consume(r)
      PROVE  IInv'
  <2>1. /\ up /\ unread[r] # <<>> /\ unread' = [unread EXCEPT ![r] = Tail(@)]
        /\ UNCHANGED <<launcher, pipeVars, proc, cache, watch, thread, up, made, events>>
    BY <1>3 DEF Consume, LockFree
  <2>2. Head(unread[r]) \in Phases /\ Tail(unread[r]) \in Seq(Phases)
    <3>1. unread[r] \in Seq(Phases)
      BY <1>0 DEF TypeOK, RunTypeOK
    <3> QED
      BY <2>1, <3>1
  <2>3. Advanced(session.phase, Head(unread[r])) \in Phases
    BY <1>0, <2>2 DEF Advanced, Sessions
  <2>4. /\ session' \in {session, [session EXCEPT !.phase = Advanced(session.phase, Head(unread[r]))]}
        /\ disk' \in {disk, session'}
    BY <1>3 DEF Consume, Becomes
  <2>5. /\ session' \in Sessions /\ disk' \in Sessions
        /\ session'.id = session.id /\ session'.state = session.state
    <3> DEFINE next == [session EXCEPT !.phase = Advanced(session.phase, Head(unread[r]))]
    <3>1. next \in Sessions /\ next.id = session.id /\ next.state = session.state
      BY <1>0, <2>3, PhaseMoves
    <3>2. session' \in {session, next}
      BY <2>4
    <3> HIDE DEF next
    <3> QED
      BY <1>0, <2>4, <3>1, <3>2
  <2>6. unread' \in [Runs -> Seq(Phases)]
    BY <1>0, <2>1, <2>2 DEF TypeOK, RunTypeOK
  <2>7. TypeOK'
    BY <1>0, <2>1, <2>5, <2>6 DEF TypeOK, RunTypeOK, pipeVars
  <2> QED
    BY <2>1, <2>4, <2>5, <2>7, RecordMoves
<1> QED
  BY <1>1, <1>2, <1>3

\* A launcher that exits with the record its own makes it running or failed.
LEMMA InvWatchEnd ==
  ASSUME IInv, NEW r \in Runs, WatchEnd(r)
  PROVE  IInv'
<1>0. TypeOK /\ session \in Sessions /\ disk \in Sessions
  BY DEF IInv, TypeOK
<1>1. /\ up /\ watch[r] = "tail" /\ launcher[r] \in Exited
      /\ watch' = [watch EXCEPT ![r] = "gone"]
      /\ UNCHANGED <<runVars, proc, cache, thread, up, made, events>>
  BY DEF WatchEnd, LockFree
<1>2. /\ watch' \in [Runs -> {"none", "tail", "gone"}]
      /\ \A q \in Runs : watch'[q] = "tail" => watch[q] = "tail" /\ q # r
  BY <1>0, <1>1 DEF TypeOK
<1>3. CASE proc = r
  <2>1. session' = Outcome(session, r) /\ disk' = session'
    BY <1>3 DEF WatchEnd, Becomes
  <2>2. session.id = r /\ session.state \in {"starting", "stopping"}
    BY <1>1, <1>3 DEF IInv, TailIsCurrent
  <2>3. /\ session' \in Sessions /\ session'.id = r
    <3> DEFINE runs == [session EXCEPT !.state = "running"]
               failed == [session EXCEPT !.state = "failed", !.phase = "failed"]
    <3>1. runs \in Sessions /\ runs.id = session.id
      BY <1>0, StateMoves
    <3>2. failed \in Sessions /\ failed.id = session.id
      <4>1. session.phase \in Phases
        BY <1>0 DEF Sessions
      <4> QED
        BY <1>0, <4>1, PhaseMoves
    <3>3. session' \in {session, runs, failed}
      BY <2>1 DEF Outcome
    <3> HIDE DEF runs, failed
    <3> QED
      BY <1>0, <2>2, <3>1, <3>2, <3>3
  <2>4. TypeOK'
    BY <1>0, <1>1, <1>2, <2>1, <2>3 DEF TypeOK, RunTypeOK, runVars
  <2>5. DownIsIdle' /\ IdsMade'
    BY <1>1, <2>1, <2>2, <2>3 DEF IInv, DownIsIdle, IdsMade
  <2>6. TailIsCurrent'
    BY <1>1, <1>2, <1>3 DEF IInv, TailIsCurrent
  <2>7. FailedByOwn'
    BY <1>1, <2>1, <2>3 DEF FailedByOwn, Failed, runVars
  <2> QED
    BY <2>4, <2>5, <2>6, <2>7 DEF IInv
<1>4. CASE proc # r
  <2>1. UNCHANGED <<session, disk>>
    BY <1>4 DEF WatchEnd
  <2>2. TypeOK'
    BY <1>0, <1>1, <1>2, <2>1 DEF TypeOK, RunTypeOK, runVars
  <2>3. DownIsIdle' /\ IdsMade' /\ TailIsCurrent'
    BY <1>1, <1>2, <2>1 DEF IInv, DownIsIdle, IdsMade, TailIsCurrent
  <2>4. FailedByOwn'
    BY <1>1, <2>1 DEF IInv, FailedByOwn, Failed, runVars
  <2> QED
    BY <2>2, <2>3, <2>4 DEF IInv
<1> QED
  BY <1>3, <1>4

\* A new session: whoever started it, nothing that is watched is _proc any more, or
\* it is the launcher of the new session.
LEMMA InvLaunch ==
  ASSUME IInv, up, UNCHANGED <<unread, pipeVars, up>>,
         cache' \in {"old", "alive", "dead"}, thread' \in [Threads -> Slots],
         NEW from, Launch(from),
         from.disk \in Sessions, from.disk.id <= made, Failed(from.disk),
         from.proc \in {0, proc}, from.proc # 0 => session.state \notin {"starting", "stopping"}
  PROVE  IInv' /\ session'.id # session.id
<1> DEFINE r == made + 1
           new == [id |-> r, state |-> "starting", phase |-> "idle", finish |-> "none"]
<1>0. /\ TypeOK /\ made \in 0..MaxRuns /\ events \in 0..MaxEvents /\ proc \in 0..MaxRuns
      /\ MaxRuns \in Nat /\ MaxEvents \in Nat /\ session.id <= made /\ proc <= made
      /\ session \in Sessions
  BY RunAssumption, ConsoleAssumption DEF IInv, TypeOK, IdsMade, TailIsCurrent
<1>1. made < MaxRuns /\ made' = r /\ session' = new
  BY DEF Launch, Becomes
<1>2. r \in Runs /\ r \in 0..MaxRuns /\ r # 0
  BY <1>0, <1>1 DEF Runs
<1>3. new \in Sessions /\ new.id = r /\ new.state = "starting"
  BY <1>2 DEF Sessions, Busy, Ended, Phases, FinishSteps
<1>4. session.id # r
  BY <1>0 DEF Sessions
<1> HIDE DEF new
<1>5. CASE /\ Becomes(new) /\ proc' = r
           /\ launcher' = [launcher EXCEPT ![r] = "reset"]
           /\ watch' = [watch EXCEPT ![r] = "tail"]
           /\ UNCHANGED events
  <2>1. launcher' \in [Runs -> Stages] /\ watch' \in [Runs -> {"none", "tail", "gone"}]
    BY <1>0, <1>5 DEF TypeOK, RunTypeOK, Stages
  <2>2. TypeOK'
    BY <1>0, <1>1, <1>2, <1>3, <1>5, <2>1 DEF TypeOK, RunTypeOK, pipeVars, Becomes, Slots
  <2>3. DownIsIdle' /\ IdsMade'
    BY <1>0, <1>1, <1>2, <1>3, <1>5 DEF DownIsIdle, IdsMade, Becomes
  <2>4. TailIsCurrent'
    <3>1. ASSUME NEW q \in Runs, watch'[q] = "tail"
          PROVE  q <= made'
      <4>1. CASE q = r
        BY <1>0, <1>1, <4>1
      <4>2. CASE q # r
        <5>1. q <= made
          BY <1>0, <1>5, <3>1, <4>2 DEF IInv, TypeOK, TailIsCurrent
        <5> QED
          BY <1>0, <1>1, <5>1 DEF Runs
      <4> QED
        BY <4>1, <4>2
    <3> QED
      BY <1>0, <1>1, <1>3, <1>5, <3>1 DEF TailIsCurrent, Becomes
  <2>5. FailedByOwn'
    BY <1>3, <1>5 DEF FailedByOwn, Failed, Becomes
  <2> QED
    BY <1>1, <1>3, <1>4, <2>2, <2>3, <2>4, <2>5 DEF IInv
<1>6. CASE /\ Event /\ session' = new /\ disk' = from.disk /\ proc' = from.proc
           /\ UNCHANGED <<launcher, watch>>
  <2>1. events' \in 0..MaxEvents
    BY <1>0, <1>6, EventCounted
  <2>2. TypeOK'
    <3>1. RunTypeOK'
      BY <1>0, <1>6 DEF TypeOK, RunTypeOK, pipeVars
    <3>2. proc' \in 0..MaxRuns
      BY <1>0, <1>6
    <3> QED
      BY <1>0, <1>1, <1>2, <1>3, <1>6, <2>1, <3>1, <3>2 DEF TypeOK, Slots
  <2>3. DownIsIdle' /\ IdsMade'
    <3>1. from.disk.id \in 0..MaxRuns
      BY DEF Sessions
    <3> QED
      BY <1>0, <1>1, <1>3, <1>6, <3>1 DEF DownIsIdle, IdsMade
  <2>4. TailIsCurrent'
    <3>1. proc' <= made'
      BY <1>0, <1>1, <1>6
    <3>2. ASSUME NEW q \in Runs, watch'[q] = "tail"
          PROVE  q <= made' /\ proc' # q
      <4>1. q <= made
        BY <1>6, <3>2 DEF IInv, TailIsCurrent
      <4>2. q # 0 /\ q <= made'
        BY <1>0, <1>1, <4>1 DEF Runs
      <4>3. proc = q => session.state \in {"starting", "stopping"}
        BY <1>6, <3>2 DEF IInv, TailIsCurrent
      <4> QED
        BY <1>6, <4>2, <4>3
    <3> QED
      BY <3>1, <3>2 DEF TailIsCurrent
  <2>5. FailedByOwn'
    BY <1>3, <1>6 DEF FailedByOwn, Failed
  <2> QED
    BY <1>1, <1>3, <1>4, <2>2, <2>3, <2>4, <2>5 DEF IInv
<1> QED
  BY <1>5, <1>6 DEF Launch, new

\* Start, and a forced start when the old session has stopped.
LEMMA InvStarting ==
  ASSUME IInv, Start \/ \E t \in Threads : ForcedStart(t)
  PROVE  IInv'
<1>0. TypeOK /\ session \in Sessions /\ disk \in Sessions /\ IdsMade /\ FailedByOwn
  BY DEF IInv, TypeOK
<1>1. CASE Start
  <2> DEFINE from == [disk |-> disk, proc |-> proc]
  <2>1. /\ Launch(from) /\ up /\ UNCHANGED <<unread, pipeVars, cache, thread, up>>
        /\ session.state \notin {"starting", "stopping"}
    BY <1>1 DEF Start, LockFree, IsBusy, Busy
  <2>2. /\ cache' \in {"old", "alive", "dead"} /\ thread' \in [Threads -> Slots]
    BY <1>0, <2>1 DEF TypeOK, Slots
  <2>3. /\ from.disk \in Sessions /\ from.disk.id <= made /\ Failed(from.disk)
        /\ from.proc \in {0, proc}
    BY <1>0 DEF IdsMade, FailedByOwn
  <2> HIDE DEF from
  <2> QED
    BY <2>1, <2>2, <2>3, InvLaunch
<1>2. ASSUME NEW t \in Threads, ForcedStart(t)
      PROVE  IInv'
  <2> DEFINE old == [session EXCEPT !.state = "stopped"]
             from == [disk |-> old, proc |-> 0]
  <2>1. old \in Sessions /\ old.id = session.id /\ old.state = "stopped"
    BY <1>0, StateMoves
  <2>2. /\ Launch(from) \/ (Becomes(old) /\ proc' = 0 /\ UNCHANGED <<launcher, watch, made, events>>)
        /\ up /\ cache' = "old" /\ UNCHANGED <<unread, pipeVars, up>>
    BY <1>2 DEF ForcedStart
  <2>3. thread' \in [Threads -> Slots]
    BY <1>0, <1>2, ThreadMoves DEF ForcedStart
  <2> HIDE DEF old
  <2>4. CASE Launch(from)
    <3>1. from.disk = old /\ from.proc = 0
      OBVIOUS
    <3>2. from.disk \in Sessions /\ from.disk.id <= made /\ Failed(from.disk)
      BY <1>0, <2>1, <3>1 DEF IdsMade, Failed
    <3> HIDE DEF from
    <3> QED
      BY <2>2, <2>3, <2>4, <3>1, <3>2, InvLaunch
  <2>5. CASE Becomes(old) /\ proc' = 0 /\ UNCHANGED <<launcher, watch, made, events>>
    <3>1. session' = old /\ disk' = old
      BY <2>5 DEF Becomes
    <3>2. TypeOK'
      <4>1. RunTypeOK'
        BY <1>0, <2>2, <2>5 DEF TypeOK, RunTypeOK, pipeVars
      <4>2. proc' \in 0..MaxRuns
        BY <2>5, RunAssumption
      <4> QED
        BY <1>0, <2>1, <2>2, <2>3, <2>5, <3>1, <4>1, <4>2 DEF TypeOK, Slots
    <3> QED
      BY <2>1, <2>2, <2>5, <3>1, <3>2, RecordMoves
  <2> QED
    BY <2>2, <2>4, <2>5
<1> QED
  BY <1>1, <1>2

\* The console goes down and comes back.
LEMMA InvRestart ==
  ASSUME IInv, ConsoleDies \/ Adopt
  PROVE  IInv'
<1>0. TypeOK /\ disk \in Sessions
  BY DEF IInv, TypeOK
<1>1. CASE ConsoleDies
  <2>1. /\ up' = FALSE /\ session' = Idle /\ proc' = 0 /\ cache' = "old"
        /\ UNCHANGED <<runVars, disk, made>>
    BY <1>1 DEF ConsoleDies
  <2>2. Idle \in Sessions /\ Idle.id = 0 /\ Idle.state = "idle"
    BY RunAssumption DEF Idle, Sessions, Phases, FinishSteps
  <2>3. /\ watch' \in [Runs -> {"none", "tail", "gone"}]
        /\ \A r \in Runs : watch'[r] # "tail"
    BY <1>0, <1>1 DEF ConsoleDies, TypeOK
  <2>4. thread' \in [Threads -> Slots]
    <3>1. \A t \in Threads : [thread[t] EXCEPT !.job = "orphan"] \in Slots /\ NoThread \in Slots
      BY <1>0 DEF TypeOK, Slots, NoThread
    <3> QED
      BY <1>1, <3>1 DEF ConsoleDies
  <2>5. events' \in 0..MaxEvents
    BY <1>0, <1>1, EventCounted DEF ConsoleDies
  <2>6. TypeOK'
    <3>1. RunTypeOK'
      BY <1>0, <2>1 DEF TypeOK, RunTypeOK, runVars
    <3>2. proc' \in 0..MaxRuns
      BY <2>1, RunAssumption
    <3> QED
      BY <1>0, <2>1, <2>2, <2>3, <2>4, <2>5, <3>1, <3>2 DEF TypeOK, Slots
  <2>7. DownIsIdle' /\ IdsMade' /\ TailIsCurrent'
    <3>1. made \in 0..MaxRuns /\ MaxRuns \in Nat
      BY <1>0, RunAssumption DEF TypeOK
    <3> QED
      BY <2>1, <2>2, <2>3, <3>1 DEF IInv, DownIsIdle, IdsMade, TailIsCurrent
  <2>8. FailedByOwn'
    BY <2>1, <2>2 DEF IInv, FailedByOwn, Failed, runVars
  <2> QED
    BY <2>6, <2>7, <2>8 DEF IInv
<1>2. CASE Adopt
  <2>1. /\ up' = TRUE /\ disk' = session' /\ UNCHANGED <<runVars, proc, cache, watch, thread, made, events>>
    BY <1>2 DEF Adopt, Becomes
  <2>2. /\ session' \in Sessions /\ session'.id = disk.id
        /\ session'.state = "failed" => disk.state = "failed"
    <3> DEFINE runs == [disk EXCEPT !.state = "running"]
               exited == [disk EXCEPT !.state = "exited"]
    <3>1. runs \in Sessions /\ runs.id = disk.id /\ runs.state = "running"
      BY <1>0, StateMoves
    <3>2. exited \in Sessions /\ exited.id = disk.id /\ exited.state = "exited"
      BY <1>0, StateMoves
    <3>3. session' \in {disk, runs, exited}
      BY <1>2 DEF Adopt, Becomes
    <3> HIDE DEF runs, exited
    <3> QED
      BY <1>0, <3>1, <3>2, <3>3
  <2>3. TypeOK'
    BY <1>0, <2>1, <2>2 DEF TypeOK, RunTypeOK, runVars
  <2>4. proc = 0
    BY <1>2 DEF IInv, DownIsIdle, Adopt
  <2>5. DownIsIdle' /\ IdsMade'
    BY <2>1, <2>2 DEF IInv, DownIsIdle, IdsMade
  <2>6. TailIsCurrent'
    <3>1. \A r \in Runs : r # 0
      BY DEF Runs
    <3> QED
      BY <2>1, <2>4, <3>1 DEF IInv, TailIsCurrent
  <2>7. FailedByOwn'
    BY <2>1, <2>2 DEF IInv, FailedByOwn, Failed, runVars
  <2> QED
    BY <2>3, <2>5, <2>6, <2>7 DEF IInv
<1> QED
  BY <1>1, <1>2

\* A launcher boots or goes on, the simulation plays, something dies.
LEMMA InvPipeline ==
  ASSUME IInv, \/ \E r \in Runs : BootAges(r) \/ (LauncherStep(r) /\ UNCHANGED conVars)
               \/ (SimPlays \/ Dies) /\ UNCHANGED conVars
  PROVE  IInv'
<1>0. RunTypeOK
  BY DEF IInv, TypeOK
<1>1. RunKept
  BY <1>0, RunBoot, RunLauncher, RunPipeline DEF BootAges
<1>2. UNCHANGED <<session, disk, proc, watch, thread, up, made, events>> /\ cache' \in {cache, "old"}
  BY DEF BootAges, conVars
<1> QED
  BY <1>1, <1>2, PipelineMoves

\* Every step keeps the invariant.
LEMMA InvStep ==
  ASSUME IInv, [Next]_vars
  PROVE  IInv'
<1>1. CASE UNCHANGED vars
  BY <1>1 DEF IInv, vars, conVars, runVars, TypeOK, RunTypeOK, DownIsIdle, IdsMade, TailIsCurrent,
              FailedByOwn, Failed
<1>2. CASE Next
  BY <1>2, InvStarting, InvStop, InvStops, InvPolls, InvWatchEnd, InvRestart, InvPipeline
     DEF Next, Thread, Watcher
<1> QED
  BY <1>1, <1>2

-----------------------------------------------------------------------------
(* The theorems.                                                            *)

\* The inductive invariant holds throughout.
THEOREM SessionsInvariant == Spec => []IInv
<1>1. Init => IInv
  BY InvStarts
<1>2. IInv /\ [Next]_vars => IInv'
  BY InvStep
<1> QED
  BY <1>1, <1>2, PTL DEF Spec

\* A session reads "failed" only after its own launcher has exited.
THEOREM FailsByItsOwn == Spec => []FailedAfterExit
<1>1. IInv => FailedAfterExit
  BY DEF IInv, FailedByOwn, Failed, FailedAfterExit
<1> QED
  BY <1>1, SessionsInvariant, PTL

\* A session that has ended never reads as starting or running again.
THEOREM EndedStaysEnded == Spec => NeverRevived
<1> DEFINE Step == (session.state \in Ended /\ session'.id = session.id)
                     => session'.state \notin {"starting", "running"}
<1>1. ASSUME IInv, [Next]_vars
      PROVE  [Step]_vars
  <2> SUFFICES ASSUME Next, session.state \in Ended, session'.id = session.id
               PROVE  session'.state \notin {"starting", "running"}
    BY <1>1
  <2>0. session \in Sessions /\ IdsMade /\ made \in 0..MaxRuns /\ MaxRuns \in Nat
        /\ session.state \notin {"starting", "running", "stopping", "idle"}
    BY <1>1, RunAssumption DEF IInv, TypeOK, Ended
  <2>1. up
    BY <1>1, <2>0 DEF IInv, DownIsIdle, Idle
  <2>2. ASSUME NEW from, Launch(from)
        PROVE  FALSE
    <3>1. session'.id = made + 1
      BY <2>2 DEF Launch, Becomes
    <3> QED
      BY <2>0, <3>1 DEF IdsMade, Sessions
  <2>3. CASE Start
    BY <2>2, <2>3 DEF Start
  <2>4. ASSUME NEW t \in Threads, ForceStart(t) \/ ForcedStart(t) \/ StopBegin(t) \/ StopEnd(t)
        PROVE  session'.state \notin {"starting", "running"}
    <3> DEFINE s == [session EXCEPT !.state = "stopped"]
    <3>1. s \in Sessions /\ s.state = "stopped"
      BY <2>0, StateMoves
    <3>2. [session EXCEPT !.state = "stopping"].state = "stopping"
      BY <2>0, StateMoves
    <3> HIDE DEF s
    <3>3. ASSUME NEW step \in {"pose graph", "done"}
          PROVE  FinishStep(s, step).state = "stopped"
      <4>1. step \in FinishSteps
        BY DEF FinishSteps
      <4> QED
        BY <3>1, <4>1, FinishMoves
    <3>4. session' \in {[session EXCEPT !.state = "stopping"], s, FinishStep(s, "pose graph"),
                        FinishStep(s, "done")}
      BY <2>2, <2>4 DEF ForceStart, ForcedStart, StopBegin, StopEnd, Becomes, s
    <3> QED
      BY <3>1, <3>2, <3>3, <3>4
  <2>5. ASSUME NEW t \in Threads,
               \/ Save(t) \/ SavePoseGraph(t) \/ Sweep(t)
               \/ \E job \in {"finish", "waypoints"} : Finish(t, job)
        PROVE  session'.state \notin {"starting", "running"}
    <3>1. CASE Save(t) \/ SavePoseGraph(t)
      <4>1. PICK step \in {"stopping", "failed", "done"} : session' = FinishStep(session, step)
        BY <3>1 DEF Save, SavePoseGraph, Becomes
      <4>2. step \in FinishSteps
        BY DEF FinishSteps
      <4> QED
        BY <2>0, <4>1, <4>2, FinishMoves
    <3>2. CASE Sweep(t)
      BY <2>0, <3>2 DEF Sweep
    <3>3. CASE \E job \in {"finish", "waypoints"} : Finish(t, job)
      BY <2>0, <3>3 DEF Finish
    <3> QED
      BY <2>5, <3>1, <3>2, <3>3
  <2>6. CASE Stop
    <3>1. [session EXCEPT !.state = "stopping"].state = "stopping"
      BY <2>0, StateMoves
    <3> QED
      BY <2>6, <3>1 DEF Stop, Becomes
  <2>7. ASSUME NEW r \in Runs, Consume(r)
        PROVE  session'.state \notin {"starting", "running"}
    <3>1. \A phase : [session EXCEPT !.phase = phase].state = session.state
      BY <2>0 DEF Sessions
    <3> QED
      BY <2>0, <2>7, <3>1 DEF Consume, Becomes
  <2>8. ASSUME NEW r \in Runs, WatchEnd(r)
        PROVE  session'.state \notin {"starting", "running"}
    <3>1. proc # r
      BY <1>1, <2>0, <2>8 DEF WatchEnd, IInv, TailIsCurrent
    <3> QED
      BY <2>0, <2>8, <3>1 DEF WatchEnd
  <2>9. CASE Poll \/ CacheAges \/ ConsoleDies \/ Adopt
    <3>1. ~Poll /\ ~Adopt
      BY <2>0, <2>1 DEF Poll, Adopt
    <3>2. CASE ConsoleDies
      BY <3>2 DEF ConsoleDies, Idle
    <3>3. CASE CacheAges
      BY <2>0, <3>3 DEF CacheAges
    <3> QED
      BY <2>9, <3>1, <3>2, <3>3
  <2>10. CASE \/ \E r \in Runs : BootAges(r) \/ (LauncherStep(r) /\ UNCHANGED conVars)
              \/ (SimPlays \/ Dies) /\ UNCHANGED conVars
    BY <2>0, <2>10 DEF BootAges, conVars
  <2> QED
    BY <2>3, <2>4, <2>5, <2>6, <2>7, <2>8, <2>9, <2>10 DEF Next, Thread, Watcher
<1> QED
  BY <1>1, SessionsInvariant, PTL DEF Spec, NeverRevived
=============================================================================
