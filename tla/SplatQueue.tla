----------------------------- MODULE SplatQueue -----------------------------
(* The job queue of the splat worker (src/splat/worker.py).  HTTP handler   *)
(* threads submit and cancel jobs under Worker.cv; one runner thread takes  *)
(* them first in first out and works on a job without the lock; train.py is *)
(* a process of its own, and outlives a worker that is stopped.             *)
(*                                                                          *)
(* Jobs are numbered in the order of submission, so Worker.queue, a list    *)
(* that is appended to and popped from the front, is the set of the jobs in *)
(* it and its head is the smallest.  An OSError while a record or a log     *)
(* line is written (the disk is full) and an exception run_job does not     *)
(* catch are outcomes of the steps that can meet them.                      *)
EXTENDS Naturals, FiniteSets

CONSTANTS
  MaxJobs,    \* bound: jobs ever submitted
  Keys,       \* the (map, source) pairs jobs are for
  MaxFaults,  \* bound: failed writes and uncaught exceptions
  MaxStops,   \* bound: times the worker process is stopped
  MaxIsaac    \* bound: times Isaac Sim is started

ASSUME SplatAssumption == /\ MaxJobs \in Nat \ {0} /\ Keys # {}
                          /\ MaxFaults \in Nat /\ MaxStops \in Nat /\ MaxIsaac \in Nat

VARIABLES
  made,      \* jobs submitted so far
  key,       \* Job.map and Job.source
  force,     \* Job.force
  state,     \* Job.state in memory ("none": not submitted, "lost": not in the history read back)
  disk,      \* the state in the job's job.json
  asked,     \* Job.cancel_requested
  queue,     \* Worker.queue
  current,   \* Worker.current (0: None)
  pc,        \* where the runner thread is
  phase,     \* the state the runner is about to set, or the outcome it chose
  handle,    \* the job whose Job.proc is set (0: none)
  train,     \* the train.py process of each job
  model,     \* the job's model.splat exists
  isaac,     \* Isaac Sim is running on the GPU
  faults, stops, isaacs

vars == <<made, key, force, state, disk, asked, queue, current, pc, phase, handle,
          train, model, isaac, faults, stops, isaacs>>
jobVars == <<made, key, force>>
runVars == <<current, pc, phase>>
procVars == <<handle, train, model>>
envVars == <<isaac, isaacs>>

Jobs == 1..MaxJobs
TERMINAL == {"done", "failed", "cancelled"}
Live == {"queued", "fetching", "extracting", "building", "waiting_for_gpu", "training"}
States == TERMINAL \union Live \union {"none", "lost"}
Alive == {"booting", "running", "stopping"}          \* train.py still runs
Dead == {"none", "ok", "bad"}

\* The runner: blocked in cv.wait, between jobs, somewhere in run_job, or gone.
Between == {"check", "waiting", "dead", "down"}
Busy == {"open", "set", "write", "work", "gpu", "spawn", "train", "decided", "logging",
         "cancelling", "failing", "cleanup", "dying"}

TypeOK == /\ made \in 0..MaxJobs
          /\ key \in [Jobs -> Keys] /\ force \in [Jobs -> BOOLEAN]
          /\ state \in [Jobs -> States] /\ disk \in [Jobs -> States \ {"lost"}]
          /\ asked \in [Jobs -> BOOLEAN]
          /\ queue \in SUBSET Jobs /\ current \in 0..MaxJobs
          /\ pc \in Between \union Busy /\ phase \in States
          /\ handle \in 0..MaxJobs
          /\ train \in [Jobs -> Alive \union Dead] /\ model \in [Jobs -> BOOLEAN]
          /\ isaac \in BOOLEAN
          /\ faults \in 0..MaxFaults /\ stops \in 0..MaxStops /\ isaacs \in 0..MaxIsaac

Init == /\ made = 0
        /\ key = [j \in Jobs |-> CHOOSE k \in Keys : TRUE]
        /\ force = [j \in Jobs |-> FALSE]
        /\ state = [j \in Jobs |-> "none"] /\ disk = [j \in Jobs |-> "none"]
        /\ asked = [j \in Jobs |-> FALSE]
        /\ queue = {} /\ current = 0 /\ pc = "check" /\ phase = "none"
        /\ handle = 0
        /\ train = [j \in Jobs |-> "none"] /\ model = [j \in Jobs |-> FALSE]
        /\ isaac = FALSE
        /\ faults = 0 /\ stops = 0 /\ isaacs = 0

up == pc # "down"

-----------------------------------------------------------------------------
(* Job records.                                                             *)

\* A write to the disk fails, or an exception nobody expected is raised.
Fault == faults < MaxFaults /\ faults' = faults + 1

\* Job.persist: tmp file, then os.replace - all of the record or none of it.
Persisted(j, s) == disk' = [disk EXCEPT ![j] = s] /\ UNCHANGED faults
PersistFails == Fault /\ UNCHANGED disk

\* Worker._finish and _set write the attribute first and persist second, so a
\* write that fails leaves the new state in memory.
Record(j, s, next, error) ==
  /\ state' = [state EXCEPT ![j] = s]
  /\ \/ Persisted(j, s) /\ pc' = next
     \/ PersistFails /\ pc' = error

\* Mutant: notify_all is forgotten.
NotifyNobody == UNCHANGED pc

\* cv.notify_all: only the idle runner waits without a timeout.
Notify == pc' = IF pc = "waiting" THEN "check" ELSE pc

-----------------------------------------------------------------------------
(* The HTTP handlers, each under Worker.cv.                                 *)

\* Mutant: submit looks at the queue only.
PendingInQueue == queue

Pending == queue \union ({current} \ {0})

\* Worker.submit.  A write that fails leaves the job in the queue and skips the
\* notify; the client gets an error.
Submit(k, f) ==
  LET j == made + 1 IN
  /\ up /\ made < MaxJobs
  /\ \A i \in Pending : key[i] # k
  /\ made' = j
  /\ key' = [key EXCEPT ![j] = k] /\ force' = [force EXCEPT ![j] = f]
  /\ state' = [state EXCEPT ![j] = "queued"]
  /\ queue' = queue \union {j}
  /\ \/ Persisted(j, "queued") /\ Notify
     \/ PersistFails /\ UNCHANGED pc
  /\ UNCHANGED <<asked, current, phase, handle, train, model, isaac, isaacs, stops>>

\* Worker.cancel of a job that still waits in the queue.
CancelQueued(j) ==
  /\ up /\ j \in queue /\ state[j] \notin TERMINAL
  /\ asked' = [asked EXCEPT ![j] = TRUE]
  /\ queue' = queue \ {j}
  /\ state' = [state EXCEPT ![j] = "cancelled"]
  /\ \/ Persisted(j, "cancelled") /\ Notify
     \/ PersistFails /\ UNCHANGED pc
  /\ UNCHANGED <<jobVars, current, phase, procVars, envVars, stops>>

\* SIGTERM: train.py stops at its next step and exports, once it has installed
\* its handler; before that the signal kills it.
Signalled(t) == CASE t = "booting" -> "bad" [] t = "running" -> "stopping" [] OTHER -> t

\* Worker.cancel of a job the runner has (or has left behind): the flag, and a
\* signal if Job.proc is set.
CancelTaken(j) ==
  /\ up /\ j \in 1..made /\ j \notin queue /\ state[j] \in Live
  /\ asked' = [asked EXCEPT ![j] = TRUE]
  /\ train' = IF handle = j THEN [train EXCEPT ![j] = Signalled(train[j])] ELSE train
  /\ Notify
  /\ UNCHANGED <<jobVars, state, disk, queue, current, phase, handle, model, envVars, faults, stops>>

-----------------------------------------------------------------------------
(* The runner thread: run_forever, run_job and _run_phases.                 *)

\* Mutant: the newest job is popped.
PopNewest ==
  /\ pc = "check"
  /\ \/ /\ queue = {}
        /\ pc' = "waiting"
        /\ UNCHANGED <<queue, current>>
     \/ \E j \in queue : /\ \A i \in queue : j >= i
                         /\ queue' = queue \ {j} /\ current' = j
                         /\ pc' = "open"
  /\ UNCHANGED <<jobVars, state, disk, asked, phase, procVars, envVars, faults, stops>>

\* run_forever: pop the oldest job or wait, both under the lock.
Pop ==
  /\ pc = "check"
  /\ \/ /\ queue = {}
        /\ pc' = "waiting"
        /\ UNCHANGED <<queue, current>>
     \/ \E j \in queue : /\ \A i \in queue : j <= i
                         /\ queue' = queue \ {j} /\ current' = j
                         /\ pc' = "open"
  /\ UNCHANGED <<jobVars, state, disk, asked, phase, procVars, envVars, faults, stops>>

\* run_job: the job's directory and log are opened before the try.
OpenLog ==
  /\ pc = "open"
  /\ phase' = "fetching"
  /\ \/ pc' = "set" /\ UNCHANGED faults
     \/ pc' = "dying" /\ Fault
  /\ UNCHANGED <<jobVars, state, disk, asked, queue, current, procVars, envVars, stops>>

\* Mutant: _set does not look at the flag.
SetBlindly ==
  /\ pc = "set"
  /\ pc' = "write"
  /\ UNCHANGED <<jobVars, state, disk, asked, queue, current, phase, procVars, envVars, faults, stops>>

\* _set reads the flag ...
SetCheck ==
  /\ pc = "set"
  /\ pc' = IF asked[current] THEN "cancelling" ELSE "write"
  /\ UNCHANGED <<jobVars, state, disk, asked, queue, current, phase, procVars, envVars, faults, stops>>

\* ... and then writes the state: a cancel in between is seen at the next one.
SetWrite ==
  /\ pc = "write"
  /\ Record(current, phase,
            CASE phase = "waiting_for_gpu" -> "gpu" [] phase = "training" -> "spawn" [] OTHER -> "work",
            "failing")
  /\ UNCHANGED <<jobVars, asked, queue, current, phase, procVars, envVars, stops>>

\* wait_for_isaac holds and the job is not forced (_run_phases:483).
WaitsForGpu(j) == ~force[j]

\* The work of a phase: it succeeds, is interrupted (only a download looks at
\* the flag), fails with an error run_job catches, or with one it does not.
Work ==
  /\ pc = "work"
  /\ \/ /\ phase = "fetching" /\ phase' = "extracting" /\ pc' = "set" /\ UNCHANGED faults
     \/ /\ phase = "extracting" /\ phase' = "building" /\ pc' = "set" /\ UNCHANGED faults
     \/ /\ phase = "building" /\ WaitsForGpu(current)
        /\ pc' = "gpu" /\ UNCHANGED <<phase, faults>>
     \/ /\ phase = "building" /\ ~WaitsForGpu(current)
        /\ phase' = "training" /\ pc' = "set" /\ UNCHANGED faults
     \/ /\ phase = "fetching" /\ asked[current]
        /\ pc' = "cancelling" /\ UNCHANGED <<phase, faults>>
     \/ pc' = "failing" /\ UNCHANGED <<phase, faults>>
     \/ pc' = "dying" /\ Fault /\ UNCHANGED phase
  /\ UNCHANGED <<jobVars, state, disk, asked, queue, current, procVars, envVars, stops>>

\* The wait for the GPU: Isaac is looked at every GPU_POLL_S seconds.
PollGpu ==
  /\ pc = "gpu"
  /\ \/ /\ ~isaac /\ phase' = "training" /\ pc' = "set"
     \/ /\ isaac /\ state[current] # "waiting_for_gpu"
        /\ phase' = "waiting_for_gpu" /\ pc' = "set"
     \/ /\ isaac /\ state[current] = "waiting_for_gpu" /\ asked[current]
        /\ pc' = "cancelling" /\ UNCHANGED phase
  /\ UNCHANGED <<jobVars, state, disk, asked, queue, current, procVars, envVars, faults, stops>>

\* subprocess.Popen and the assignment of Job.proc.
Spawn ==
  /\ pc = "spawn"
  /\ \/ /\ train' = [train EXCEPT ![current] = "booting"]
        /\ handle' = current /\ pc' = "train" /\ UNCHANGED faults
     \/ /\ Fault /\ pc' = "failing" /\ UNCHANGED <<train, handle>>
  /\ UNCHANGED <<jobVars, state, disk, asked, queue, current, phase, model, envVars, stops>>

\* Mutant: train.py is trusted to have written its model.
TrainTrusted(j) == FALSE

\* The verdict on a finished train.py: its exit code counts unless the job was
\* cancelled, a missing model.splat always does.
TrainFailed(j) == (train[j] = "bad" /\ ~asked[j]) \/ ~model[j]

\* Job.proc.wait returns.
Reap ==
  /\ pc = "train" /\ train[current] \in Dead
  /\ handle' = 0
  /\ \/ /\ TrainFailed(current)
        /\ pc' = "failing" /\ UNCHANGED phase
     \/ /\ ~TrainFailed(current)
        /\ phase' = IF asked[current] THEN "cancelled" ELSE "done"
        /\ pc' = "decided"
  /\ UNCHANGED <<jobVars, state, disk, asked, queue, current, train, model, envVars, faults, stops>>

\* _finish with the outcome chosen above, and the log line after it: both are
\* inside the try, so a full disk turns a finished job into a failed one.
FinishDecided ==
  /\ pc = "decided"
  /\ Record(current, phase, "logging", "failing")
  /\ UNCHANGED <<jobVars, asked, queue, current, phase, procVars, envVars, stops>>

LogOutcome ==
  /\ pc = "logging"
  /\ \/ pc' = "cleanup" /\ UNCHANGED faults
     \/ pc' = "failing" /\ Fault
  /\ UNCHANGED <<jobVars, state, disk, asked, queue, current, phase, procVars, envVars, stops>>

\* The except clauses: an error inside them leaves run_job.
Excuse(at, outcome) ==
  /\ pc = at
  /\ \/ Record(current, outcome, "cleanup", "dying")
     \/ Fault /\ pc' = "dying" /\ UNCHANGED <<state, disk>>
  /\ UNCHANGED <<jobVars, asked, queue, current, phase, procVars, envVars, stops>>

FinishCancelled == Excuse("cancelling", "cancelled")
FinishFailed == Excuse("failing", "failed")

\* The finally of run_forever; an exception that got this far ends the thread.
Release ==
  /\ pc \in {"cleanup", "dying"}
  /\ current' = 0
  /\ pc' = IF pc = "cleanup" THEN "check" ELSE "dead"
  /\ UNCHANGED <<jobVars, state, disk, asked, queue, phase, procVars, envVars, faults, stops>>

-----------------------------------------------------------------------------
(* train.py, Isaac Sim and the worker process itself.                       *)

\* train.py installs its handler, writes a snapshot, ends well or badly.
TrainStep(j) ==
  /\ \/ /\ train[j] = "booting"
        /\ train' = [train EXCEPT ![j] = "running"] /\ UNCHANGED model
     \/ /\ train[j] = "running" /\ ~model[j]
        /\ model' = [model EXCEPT ![j] = TRUE] /\ UNCHANGED train
     \/ /\ train[j] \in {"running", "stopping"}
        /\ train' = [train EXCEPT ![j] = "ok"] /\ model' = [model EXCEPT ![j] = TRUE]
     \/ /\ train[j] \in Alive
        /\ train' = [train EXCEPT ![j] = "bad"] /\ UNCHANGED model
  /\ UNCHANGED <<jobVars, state, disk, asked, queue, runVars, handle, envVars, faults, stops>>

IsaacUp == /\ ~isaac /\ isaacs < MaxIsaac
           /\ isaac' = TRUE /\ isaacs' = isaacs + 1
           /\ UNCHANGED <<jobVars, state, disk, asked, queue, runVars, procVars, faults, stops>>
IsaacDown == /\ isaac /\ isaac' = FALSE
             /\ UNCHANGED <<jobVars, state, disk, asked, queue, runVars, procVars, isaacs, faults, stops>>

\* scripts/splat.sh stop, or a crash: memory is gone, train.py goes on.
Stop ==
  /\ up /\ stops < MaxStops
  /\ stops' = stops + 1
  /\ pc' = "down" /\ current' = 0 /\ queue' = {} /\ handle' = 0 /\ phase' = "none"
  /\ asked' = [j \in Jobs |-> FALSE]
  /\ UNCHANGED <<jobVars, state, disk, train, model, envVars, faults>>

\* Mutant: an unfinished job is recalled in the state it was in.
RecalledAsWas(j) == IF disk[j] = "none" /\ state[j] # "none" THEN "lost" ELSE disk[j]

\* _load_history: what the record on disk says of a job after a restart.
Recalled(j) == CASE disk[j] = "none" /\ state[j] = "none" -> "none"
                 [] disk[j] = "none" /\ state[j] # "none" -> "lost"
                 [] disk[j] \in TERMINAL                  -> disk[j]
                 [] OTHER                                 -> "failed"

Serve ==
  /\ ~up
  /\ state' = [j \in Jobs |-> Recalled(j)]
  /\ pc' = "check"
  /\ UNCHANGED <<jobVars, disk, asked, queue, current, phase, procVars, envVars, faults, stops>>

-----------------------------------------------------------------------------
Handlers == \/ \E k \in Keys, f \in BOOLEAN : Submit(k, f)
            \/ \E j \in Jobs : CancelQueued(j) \/ CancelTaken(j)
Runner == \/ Pop \/ OpenLog \/ SetCheck \/ SetWrite \/ Work \/ PollGpu \/ Spawn \/ Reap
          \/ FinishDecided \/ LogOutcome \/ FinishCancelled \/ FinishFailed \/ Release
Next == \/ Handlers \/ Runner
        \/ \E j \in Jobs : TrainStep(j)
        \/ IsaacUp \/ IsaacDown \/ Stop \/ Serve

\* The runner is a thread, train.py runs for a given number of steps, and Isaac
\* is closed some time; nobody promises to submit, to cancel or to restart.
Spec == /\ Init /\ [][Next]_vars
        /\ WF_vars(Runner)
        /\ WF_vars(IsaacDown)
        /\ \A j \in Jobs : WF_vars(TrainStep(j))

-----------------------------------------------------------------------------
(* Properties.                                                              *)

\* The detailed worker implements JobLife: a job is running while the runner
\* holds it, has ended once its record says so, and is in limbo when nobody
\* holds it and there is no such record.
lifeBar == [j \in Jobs |-> IF j = current THEN "running"
                          ELSE IF j \in queue THEN "queued"
                          ELSE IF state[j] = "none" THEN "new"
                          ELSE IF state[j] = "lost" THEN "lost"
                          ELSE IF state[j] \in TERMINAL /\ disk[j] = state[j] THEN state[j]
                          ELSE "limbo"]
Life == INSTANCE JobLife WITH phase <- lifeBar

\* Jobs run one at a time, oldest first, end once, and a finished job is still
\* what it was after a restart (worker.py:249-251, 268-288).
ImplementsJobLife == Life!JSpec

\* No map is built twice at once: the check in submit looks at the queue and at
\* the job in hand, and the runner moves a job from one to the other and drops
\* it only after its clean-up (worker.py:300-302, 370-379).
NoDoubleBuild == \A i, j \in (queue \union {current}) \ {0} : key[i] = key[j] => i = j

\* A train.py that runs belongs to the job in hand, or to a job of an earlier
\* worker that this one reports as failed (worker.py:285-287, 495-498).
TrainerAccounted == \A j \in Jobs : train[j] \in Alive =>
                      \/ current = j /\ handle = j /\ pc = "train"
                      \/ ~up
                      \/ state[j] = "failed"

\* A job listed as done has a model to serve, also after a restart and whatever
\* was cancelled or failed in between (worker.py:334-338, 507).
DoneHasModel == \A j \in Jobs : "done" \in {state[j], disk[j]} => model[j]

\* A job cancelled before the runner has passed its last check never gets to
\* the GPU (worker.py:385-388, 488-492).
CancelBeatsTraining ==
  \A j \in Jobs : [](asked[j] /\ state[j] \in Live \ {"training"}
                     /\ ~(current = j /\ phase = "training" /\ pc = "write")
                       => [](train[j] = "none"))

\* While nothing goes wrong with the disk, every submitted job ends: no wake-up
\* is lost between submit and the idle runner (worker.py:310, 371-372).
EveryJobEnds ==
  <>(faults > 0) \/ \A j \in Jobs : (state[j] = "queued") ~> (state[j] \in TERMINAL \/ ~up)
=============================================================================
