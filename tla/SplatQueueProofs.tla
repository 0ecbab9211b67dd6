-------------------------- MODULE SplatQueueProofs --------------------------
(***************************************************************************)
(* Theorems of the splat worker's queue, for any number of jobs, maps,      *)
(* disk faults and restarts: it implements JobLife, builds no map twice at  *)
(* once, accounts for every train.py and every model, and never trains a    *)
(* job that was cancelled in time.                                          *)
(***************************************************************************)
EXTENDS SplatQueue, TLAPS

\* Jobs beyond the last one submitted do not exist, the others do.
JobsExist == \A j \in Jobs : IF j <= made THEN state[j] # "none"
                             ELSE state[j] = "none" /\ disk[j] = "none" /\ train[j] = "none"

\* What waits is queued and not in hand; nothing waits in a worker that is down.
QueueWaits == /\ \A j \in queue : /\ j <= made /\ j # current /\ state[j] = "queued"
                                  /\ train[j] = "none" /\ disk[j] # "done"
              /\ ~up => queue = {}

\* The runner has a job exactly while it is in run_job.
InHand == /\ current = 0 <=> pc \in Between
          /\ current # 0 => current <= made /\ state[current] # "lost"

\* Only a job that left no record can be lost.
LostHasNoRecord == \A j \in Jobs : state[j] = "lost" => disk[j] = "none"

\* Before train.py starts the job in hand is in a phase before it; the state
\* about to be set is one of a job in progress, or the verdict.
PhaseInProgress ==
  /\ pc \in {"set", "write", "work"} => phase \in Live \ {"queued"}
  /\ pc = "decided" => phase \in {"done", "cancelled"} /\ (phase = "done" => model[current])
  /\ pc \in {"open", "set", "write", "work", "gpu", "spawn"} => train[current] = "none"
  /\ pc \in {"spawn", "train"} => state[current] = "training" /\ disk[current] = "training"
  /\ pc # "train" => handle = 0
  /\ pc = "train" => handle = current
  /\ current # 0 /\ pc # "train" => train[current] \in Dead

\* A train.py that runs was recorded as training, and its job is in hand, or
\* its worker is gone and the job is, or will be, reported as failed.
TrainerRecorded ==
  \A j \in Jobs : train[j] \in Alive =>
    /\ disk[j] = "training"
    /\ \/ current = j /\ pc = "train"
       \/ ~up
       \/ state[j] = "failed" /\ j # current

IInv == /\ TypeOK /\ JobsExist /\ QueueWaits /\ InHand /\ LostHasNoRecord
        /\ PhaseInProgress /\ TrainerRecorded /\ NoDoubleBuild /\ DoneHasModel

-----------------------------------------------------------------------------
(* The invariant is inductive: one step per action of the worker.           *)

\* Nothing has been submitted yet.
LEMMA InvStarts == Init => IInv
<1> SUFFICES ASSUME Init PROVE IInv
  OBVIOUS
<1> DEFINE first == CHOOSE k \in Keys : TRUE
<1>1. first \in Keys
  BY SplatAssumption
<1>2. key = [j \in Jobs |-> first]
  BY DEF Init
<1> HIDE DEF first
<1>3. key \in [Jobs -> Keys]
  BY <1>1, <1>2
<1>4. /\ made = 0 /\ force \in [Jobs -> BOOLEAN] /\ asked \in [Jobs -> BOOLEAN]
      /\ state = [j \in Jobs |-> "none"] /\ disk = [j \in Jobs |-> "none"]
      /\ queue = {} /\ current = 0 /\ pc = "check" /\ phase = "none" /\ handle = 0
      /\ train = [j \in Jobs |-> "none"] /\ model = [j \in Jobs |-> FALSE]
      /\ isaac = FALSE /\ faults = 0 /\ stops = 0 /\ isaacs = 0
  <2>1. (/\ force = [j \in Jobs |-> FALSE] /\ asked = [j \in Jobs |-> FALSE])
        => force \in [Jobs -> BOOLEAN] /\ asked \in [Jobs -> BOOLEAN]
    OBVIOUS
  <2> QED
    BY <2>1, Zenon DEF Init
<1>5. TypeOK
  <2>1. state \in [Jobs -> States] /\ disk \in [Jobs -> States \ {"lost"}]
        /\ train \in [Jobs -> Alive \union Dead] /\ model \in [Jobs -> BOOLEAN]
    BY <1>4 DEF States, Dead
  <2>2. pc \in Between \union Busy /\ phase \in States /\ queue \in SUBSET Jobs
    BY <1>4 DEF States, Between
  <2>3. made \in 0..MaxJobs /\ current \in 0..MaxJobs /\ handle \in 0..MaxJobs
    BY <1>4, SplatAssumption
  <2>4. faults \in 0..MaxFaults /\ stops \in 0..MaxStops /\ isaacs \in 0..MaxIsaac
    BY <1>4, SplatAssumption
  <2> QED
    BY <1>3, <1>4, <2>1, <2>2, <2>3, <2>4, Zenon DEF TypeOK
<1>6. JobsExist /\ QueueWaits /\ LostHasNoRecord /\ TrainerRecorded /\ DoneHasModel
  BY <1>4 DEF JobsExist, QueueWaits, LostHasNoRecord, TrainerRecorded, DoneHasModel, Jobs, up, Alive
<1>7. InHand /\ PhaseInProgress
  BY <1>4 DEF InHand, PhaseInProgress, Between
<1>8. (queue \union {current}) \ {0} = {}
  BY <1>4
<1>9. NoDoubleBuild
  BY <1>8 DEF NoDoubleBuild
<1> QED
  BY <1>5, <1>6, <1>7, <1>9 DEF IInv

\* The runner takes the oldest job from the queue, or goes to sleep.
LEMMA PopKeeps == ASSUME IInv, Pop PROVE IInv'
<1> USE DEF IInv, TypeOK, JobsExist, QueueWaits, InHand, LostHasNoRecord, PhaseInProgress,
            TrainerRecorded, DoneHasModel, Jobs, up, Alive, Dead, Between, Busy, Pop, jobVars,
            procVars, envVars
<1>1. CASE pc' = "waiting" /\ UNCHANGED <<queue, current>>
  BY <1>1, SMTT(60) DEF NoDoubleBuild
<1>2. CASE \E j \in queue : queue' = queue \ {j} /\ current' = j /\ pc' = "open"
  <2>1. PICK j \in queue : queue' = queue \ {j} /\ current' = j /\ pc' = "open"
    BY <1>2
  <2>2. ((queue \union {current}) \ {0})' = (queue \union {current}) \ {0}
    BY <2>1
  <2>3. NoDoubleBuild'
    BY <2>2 DEF NoDoubleBuild
  <2>4. (TypeOK /\ JobsExist /\ QueueWaits /\ InHand)'
    BY <2>1
  <2>5. (LostHasNoRecord /\ PhaseInProgress)'
    BY <2>1, SMTT(60)
  <2>6. (TrainerRecorded /\ DoneHasModel)'
    BY <2>1, SMTT(60)
  <2> QED
    BY <2>3, <2>4, <2>5, <2>6
<1> QED
  BY <1>1, <1>2

\* train.py moves by itself, whoever its job belongs to.
LEMMA TrainStepKeeps == ASSUME IInv, NEW j \in Jobs, TrainStep(j) PROVE IInv'
<1> USE DEF IInv, TrainStep, jobVars, runVars, envVars
<1>1. train[j] \in Alive /\ train' \in [Jobs -> Alive \union Dead] /\ model' \in [Jobs -> BOOLEAN]
  BY DEF TypeOK, Alive, Dead
<1>2. \A i \in Jobs : (model[i] => model'[i]) /\ (i # j => train'[i] = train[i])
  BY DEF TypeOK
<1>3. (TypeOK /\ JobsExist /\ QueueWaits /\ InHand /\ LostHasNoRecord)'
  BY <1>1, <1>2 DEF TypeOK, JobsExist, QueueWaits, InHand, LostHasNoRecord, Alive, Dead, up
<1>4. (NoDoubleBuild /\ DoneHasModel)'
  BY <1>2 DEF NoDoubleBuild, DoneHasModel
<1>5. current = j => pc = "train"
  BY <1>1, SMTT(30) DEF TypeOK, PhaseInProgress, Alive, Dead, Jobs
<1>6. PhaseInProgress'
  BY <1>1, <1>2, <1>5, SMTT(60) DEF TypeOK, InHand, PhaseInProgress, Between, Jobs
<1>7. TrainerRecorded'
  BY <1>1, <1>2 DEF TrainerRecorded, up
<1> QED
  BY <1>3, <1>4, <1>6, <1>7

\* Isaac Sim comes and goes: only the runner's next look at it changes anything.
LEMMA IsaacKeeps == ASSUME IInv, IsaacUp \/ IsaacDown PROVE IInv'
<1> USE DEF IInv, IsaacUp, IsaacDown, jobVars, runVars, procVars
<1>1. TypeOK'
  <2>1. CASE IsaacUp
    BY <2>1, SplatAssumption DEF TypeOK
  <2>2. CASE IsaacDown
    BY <2>2, SplatAssumption DEF TypeOK
  <2> QED
    BY <2>1, <2>2
<1>2. (JobsExist /\ QueueWaits /\ InHand /\ LostHasNoRecord)'
  BY DEF JobsExist, QueueWaits, InHand, LostHasNoRecord, up
<1>3. (PhaseInProgress /\ TrainerRecorded /\ NoDoubleBuild /\ DoneHasModel)'
  BY DEF PhaseInProgress, TrainerRecorded, NoDoubleBuild, DoneHasModel, up
<1> QED
  BY <1>1, <1>2, <1>3

\* Every step of the worker, its clients and its environment keeps the invariant.
LEMMA InvKept == ASSUME IInv, [Next]_vars PROVE IInv'
<1> USE SplatAssumption
    DEF IInv, TypeOK, JobsExist, QueueWaits, InHand, LostHasNoRecord, PhaseInProgress,
        TrainerRecorded, NoDoubleBuild, DoneHasModel, Pending, up, Jobs, Live, TERMINAL,
        States, Alive, Dead, Between, Busy, jobVars, runVars, procVars, envVars
<1>1. ASSUME NEW k \in Keys, NEW f \in BOOLEAN, Submit(k, f) PROVE IInv'
  BY <1>1, SMTT(60) DEF Submit, Persisted, PersistFails, Fault, Notify
<1>2. ASSUME NEW j \in Jobs, CancelQueued(j) PROVE IInv'
  BY <1>2, SMTT(60) DEF CancelQueued, Persisted, PersistFails, Fault, Notify
<1>3. ASSUME NEW j \in Jobs, CancelTaken(j) PROVE IInv'
  BY <1>3, SMTT(60) DEF CancelTaken, Signalled, Notify
<1>4. CASE OpenLog
  BY <1>4, SMTT(60) DEF OpenLog, Fault
<1>5. CASE SetCheck
  BY <1>5, SMTT(60) DEF SetCheck
<1>6. CASE SetWrite
  BY <1>6, SMTT(60) DEF SetWrite, Record, Persisted, PersistFails, Fault
<1>7. CASE Work
  BY <1>7, SMTT(60) DEF Work, WaitsForGpu, Fault
<1>8. CASE PollGpu
  BY <1>8, SMTT(60) DEF PollGpu
<1>9. CASE Spawn
  BY <1>9, SMTT(60) DEF Spawn, Fault
<1>10. CASE Reap
  BY <1>10, SMTT(60) DEF Reap, TrainFailed
<1>11. CASE FinishDecided
  <2>1. CASE Persisted(current, phase) /\ pc' = "logging"
    BY <1>11, <2>1, SMTT(60) DEF FinishDecided, Record, Persisted
  <2>2. CASE PersistFails /\ pc' = "failing"
    BY <1>11, <2>2, SMTT(60) DEF FinishDecided, Record, PersistFails, Fault
  <2> QED
    BY <1>11, <2>1, <2>2 DEF FinishDecided, Record
<1>12. CASE LogOutcome
  BY <1>12, SMTT(60) DEF LogOutcome, Fault
<1>13. CASE FinishCancelled
  BY <1>13, SMTT(60) DEF FinishCancelled, Excuse, Record, Persisted, PersistFails, Fault
<1>14. CASE FinishFailed
  BY <1>14, SMTT(60) DEF FinishFailed, Excuse, Record, Persisted, PersistFails, Fault
<1>15. CASE Release
  BY <1>15, SMTT(60) DEF Release
<1>16. CASE Stop
  BY <1>16, SMTT(60) DEF Stop
<1>17. CASE Serve
  BY <1>17, SMTT(60) DEF Serve, Recalled
<1>18. CASE UNCHANGED vars
  BY <1>18, SMTT(60) DEF vars
<1> QED
  BY <1>1, <1>2, <1>3, <1>4, <1>5, <1>6, <1>7, <1>8, <1>9, <1>10, <1>11, <1>12, <1>13,
     <1>14, <1>15, <1>16, <1>17, <1>18, PopKeeps, TrainStepKeeps, IsaacKeeps, Zenon
  DEF Next, Handlers, Runner

\* The invariant holds throughout.
THEOREM QueueInvariant == Spec => []IInv
<1>1. Init => IInv
  BY InvStarts
<1>2. IInv /\ [Next]_vars => IInv'
  BY InvKept
<1> QED
  BY <1>1, <1>2, PTL DEF Spec

\* No map is built twice at once, whatever is submitted while the runner works: the
\* check in submit sees every job that waits and the one in hand.
THEOREM BuiltOnce == Spec => []NoDoubleBuild
<1>1. IInv => NoDoubleBuild
  BY DEF IInv
<1> QED
  BY <1>1, QueueInvariant, PTL

\* A train.py that runs belongs to the job in hand, or its worker is gone and the job
\* is, or will be, reported as failed.
THEOREM TrainersKnown == Spec => []TrainerAccounted
<1>1. IInv => TrainerAccounted
  BY DEF IInv, TrainerAccounted, TrainerRecorded, PhaseInProgress
<1> QED
  BY <1>1, QueueInvariant, PTL

\* Every job listed as done, in memory or on disk, has its model.splat.
THEOREM DoneIsServed == Spec => []DoneHasModel
<1>1. IInv => DoneHasModel
  BY DEF IInv
<1> QED
  BY <1>1, QueueInvariant, PTL

-----------------------------------------------------------------------------
(* A cancel before the last check of the flag.                              *)

\* Nothing will start train.py for j: it waits no longer, and if it is in hand the
\* runner will look at the flag before it can get as far.
Doomed(j) ==
  /\ train[j] = "none" /\ j <= made /\ j \notin queue
  /\ current = j => /\ asked[j] /\ pc # "spawn"
                    /\ ~(phase = "training" /\ pc = "write")

\* What waits in the queue has not been cancelled.
AskedIsTaken == \A j \in Jobs : asked[j] => j <= made /\ j \notin queue

\* A job whose train.py was started is in no phase before it, not even in another worker.
TrainIsLast == \A j \in Jobs : train[j] # "none" => state[j] \notin Live \ {"training"}

CancelInv == IInv /\ AskedIsTaken /\ TrainIsLast

LEMMA CancelInvKept == ASSUME CancelInv, [Next]_vars PROVE (AskedIsTaken /\ TrainIsLast)'
<1> USE DEF CancelInv, IInv, TypeOK, JobsExist, QueueWaits, InHand, PhaseInProgress,
        TrainerRecorded, AskedIsTaken, TrainIsLast, up, Jobs, Live, TERMINAL, States, Alive, Dead,
        Between, Busy, jobVars, runVars, procVars, envVars
<1>1. ASSUME NEW k \in Keys, NEW f \in BOOLEAN, Submit(k, f) PROVE (AskedIsTaken /\ TrainIsLast)'
  BY <1>1, SMTT(60) DEF Submit
<1>2. ASSUME NEW j \in Jobs, CancelQueued(j) PROVE (AskedIsTaken /\ TrainIsLast)'
  BY <1>2, SMTT(60) DEF CancelQueued
<1>3. ASSUME NEW j \in Jobs, CancelTaken(j) PROVE (AskedIsTaken /\ TrainIsLast)'
  BY <1>3, SMTT(60) DEF CancelTaken, Signalled
<1>4. CASE Pop
  BY <1>4, SMTT(60) DEF Pop
<1>5. CASE OpenLog \/ SetCheck \/ Work \/ PollGpu \/ Reap \/ LogOutcome \/ Release
  BY <1>5 DEF OpenLog, SetCheck, Work, PollGpu, Reap, LogOutcome, Release
<1>6. CASE SetWrite
  BY <1>6, SMTT(60) DEF SetWrite, Record
<1>7. CASE Spawn
  <2>1. state[current] = "training" /\ UNCHANGED <<asked, made, queue, state>>
    BY <1>7 DEF Spawn
  <2>2. \A i \in Jobs : i # current => train'[i] = train[i]
    BY <1>7 DEF Spawn
  <2> QED
    BY <2>1, <2>2
<1>8. CASE FinishDecided
  BY <1>8, SMTT(60) DEF FinishDecided, Record
<1>9. CASE FinishCancelled \/ FinishFailed
  <2>1. /\ UNCHANGED <<asked, made, queue, train>>
        /\ \E r \in TERMINAL : state' = [state EXCEPT ![current] = r] \/ state' = state
    BY <1>9 DEF FinishCancelled, FinishFailed, Excuse, Record
  <2> QED
    BY <2>1
<1>10. ASSUME NEW j \in Jobs, TrainStep(j) PROVE (AskedIsTaken /\ TrainIsLast)'
  <2>1. /\ train[j] # "none" /\ UNCHANGED <<asked, made, queue, state>>
        /\ \A i \in Jobs : i # j => train'[i] = train[i]
    BY <1>10 DEF TrainStep
  <2> QED
    BY <2>1
<1>11. CASE IsaacUp \/ IsaacDown \/ UNCHANGED vars
  BY <1>11 DEF IsaacUp, IsaacDown, vars
<1>12. CASE Stop
  BY <1>12, SMTT(60) DEF Stop
<1>13. CASE Serve
  BY <1>13, SMTT(60) DEF Serve, Recalled
<1> QED
  BY <1>1, <1>2, <1>3, <1>4, <1>5, <1>6, <1>7, <1>8, <1>9, <1>10, <1>11, <1>12, <1>13, Zenon
  DEF Next, Handlers, Runner

LEMMA DoomedStays ==
  ASSUME CancelInv, [Next]_vars, NEW j \in Jobs, Doomed(j)
  PROVE  Doomed(j)'
<1> USE DEF CancelInv, IInv, TypeOK, QueueWaits, InHand, Doomed, up, Jobs,
        jobVars, runVars, procVars, envVars
<1>1. ASSUME NEW k \in Keys, NEW f \in BOOLEAN, Submit(k, f) PROVE Doomed(j)'
  BY <1>1 DEF Submit, Notify
<1>2. ASSUME NEW i \in Jobs, CancelQueued(i) PROVE Doomed(j)'
  BY <1>2 DEF CancelQueued, Notify
<1>3. ASSUME NEW i \in Jobs, CancelTaken(i) PROVE Doomed(j)'
  BY <1>3 DEF CancelTaken, Notify, Signalled
<1>4. CASE Pop
  BY <1>4 DEF Pop
<1>5. CASE OpenLog \/ SetCheck \/ Work \/ PollGpu \/ Reap \/ LogOutcome \/ Release
  <2>1. UNCHANGED <<train, made, queue, asked>> /\ (current' = current \/ current' = 0)
    BY <1>5 DEF OpenLog, SetCheck, Work, PollGpu, Reap, LogOutcome, Release
  <2>2. current = j => pc' \notin {"write", "spawn"}
    BY <1>5 DEF OpenLog, SetCheck, Work, PollGpu, Reap, LogOutcome, Release
  <2> QED
    BY <2>1, <2>2
<1>6. CASE SetWrite
  BY <1>6 DEF SetWrite, Record
<1>7. CASE Spawn
  BY <1>7 DEF Spawn
<1>8. CASE FinishDecided
  BY <1>8 DEF FinishDecided, Record
<1>9. CASE FinishCancelled \/ FinishFailed
  BY <1>9 DEF FinishCancelled, FinishFailed, Excuse, Record
<1>10. ASSUME NEW i \in Jobs, TrainStep(i) PROVE Doomed(j)'
  BY <1>10 DEF TrainStep, Alive
<1>11. CASE IsaacUp \/ IsaacDown \/ UNCHANGED vars
  BY <1>11 DEF IsaacUp, IsaacDown, vars
<1>12. CASE Stop \/ Serve
  <2>1. train' = train /\ made' = made /\ queue' \subseteq queue /\ current' = 0
    BY <1>12 DEF Stop, Serve, Between
  <2> QED
    BY <2>1
<1> QED
  BY <1>1, <1>2, <1>3, <1>4, <1>5, <1>6, <1>7, <1>8, <1>9, <1>10, <1>11, <1>12, Zenon
  DEF Next, Handlers, Runner

\* A job cancelled before the runner has passed its last check of the flag never gets
\* to the GPU: not through the wait for Isaac, a full disk or a restart of the worker.
THEOREM CancelledNeverTrains == Spec => CancelBeatsTraining
<1> SUFFICES ASSUME NEW j \in Jobs
             PROVE  Spec => [](asked[j] /\ state[j] \in Live \ {"training"}
                                  /\ ~(current = j /\ phase = "training" /\ pc = "write")
                                    => [](train[j] = "none"))
  BY DEF CancelBeatsTraining
<1>1. Init => AskedIsTaken /\ TrainIsLast
  BY DEF Init, AskedIsTaken, TrainIsLast
<1>2. CancelInv /\ [Next]_vars => (AskedIsTaken /\ TrainIsLast)'
  BY CancelInvKept
<1>3. Spec => []CancelInv
  BY <1>1, <1>2, QueueInvariant, PTL DEF Spec, CancelInv
<1>4. CancelInv /\ asked[j] /\ state[j] \in Live \ {"training"}
      /\ ~(current = j /\ phase = "training" /\ pc = "write") => Doomed(j)
  BY DEF CancelInv, IInv, TypeOK, PhaseInProgress, AskedIsTaken, TrainIsLast, Doomed, Jobs
<1>5. CancelInv /\ Doomed(j) /\ [Next]_vars => Doomed(j)'
  BY DoomedStays
<1>6. Doomed(j) => train[j] = "none"
  BY DEF Doomed
<1> QED
  BY <1>3, <1>4, <1>5, <1>6, PTL DEF Spec

-----------------------------------------------------------------------------
(* The refinement: what each step of the worker does to the life of jobs.   *)

\* Whatever a step does, the life of the jobs stays one JobLife knows.
LEMMA LifeType == lifeBar' \in [Life!Jobs -> Life!Phases]
  BY DEF lifeBar, Life!Phases, Life!Ended, TERMINAL, Life!Jobs, Jobs

\* A step that keeps the queue, the job in hand and the records of the jobs
\* that are not in hand is invisible.
LEMMA Invisible ==
    ASSUME queue' = queue, current' = current,
           \A j \in Jobs : j # current => state'[j] = state[j] /\ disk'[j] = disk[j]
    PROVE  lifeBar' = lifeBar
<1>1. \A j \in Jobs : lifeBar'[j] = lifeBar[j]
  BY DEF lifeBar
<1> QED
  BY <1>1 DEF lifeBar

\* Submit appends a job after all those that exist.
LEMMA SubmitAccepts ==
    ASSUME IInv, IInv', NEW k \in Keys, NEW f \in BOOLEAN, Submit(k, f)
    PROVE  \E j \in Life!Jobs : Life!Accept(j)
<1> DEFINE j == made + 1
<1>1. j \in Jobs /\ queue' = queue \union {j} /\ j \notin queue /\ j # current
      /\ state[j] = "none" /\ current' = current
  BY SplatAssumption DEF Submit, IInv, TypeOK, Jobs, JobsExist, QueueWaits, InHand
<1>2. \A i \in Jobs \ {j} : state'[i] = state[i] /\ disk'[i] = disk[i]
  BY <1>1 DEF Submit, Persisted, PersistFails, IInv, TypeOK
<1>3. \A i \in Jobs : i < j => state[i] # "none"
  BY DEF IInv, TypeOK, JobsExist, Jobs
<1>4. lifeBar' = [lifeBar EXCEPT ![j] = "queued"] /\ lifeBar[j] = "new"
  BY <1>1, <1>2 DEF lifeBar
<1>5. \A i \in Jobs : i < j => lifeBar[i] # "new"
  BY <1>3 DEF lifeBar, TERMINAL
<1> QED
  BY <1>1, <1>4, <1>5 DEF Life!Accept, Life!Move, Life!Jobs, Jobs

\* A cancelled job leaves the queue; only its record may be missing.
LEMMA CancelWithdraws ==
    ASSUME IInv, IInv', NEW j \in Jobs, CancelQueued(j)
    PROVE  Life!Withdraw(j) \/ Life!GiveUp(j)
<1>1. j # current /\ lifeBar[j] = "queued"
  BY DEF CancelQueued, IInv, QueueWaits, lifeBar
<1>2. \A i \in Jobs \ {j} : lifeBar'[i] = lifeBar[i]
  BY DEF CancelQueued, Persisted, PersistFails, IInv, TypeOK, lifeBar
<1>3. lifeBar'[j] \in {"cancelled", "limbo"}
  BY <1>1 DEF CancelQueued, IInv, TypeOK, TERMINAL, lifeBar
<1>4. lifeBar' = [lifeBar EXCEPT ![j] = lifeBar'[j]]
  BY <1>2 DEF lifeBar
<1> QED
  BY <1>1, <1>3, <1>4 DEF Life!Withdraw, Life!GiveUp, Life!Move

\* The runner takes the oldest waiting job while none is in hand.
LEMMA PopBegins ==
    ASSUME IInv, Pop PROVE lifeBar' = lifeBar \/ \E j \in Life!Jobs : Life!Begin(j)
<1>1. CASE UNCHANGED <<queue, current>>
  BY <1>1, Invisible DEF Pop
<1>2. ASSUME NEW j \in queue, \A i \in queue : j <= i, queue' = queue \ {j}, current' = j
      PROVE  Life!Begin(j)
  <2>1. current = 0 /\ 0 \notin Jobs /\ j \in Jobs
    BY DEF Pop, IInv, InHand, Between, TypeOK, Jobs
  <2>2. \A i \in Jobs : lifeBar[i] # "running"
    BY <2>1 DEF lifeBar, TERMINAL
  <2>3. \A i \in Jobs : lifeBar[i] = "queued" => i \in queue
    BY <2>1 DEF lifeBar, TERMINAL
  <2>4. lifeBar[j] = "queued"
    BY <2>1 DEF lifeBar
  <2>5. lifeBar' = [lifeBar EXCEPT ![j] = "running"]
    BY <1>2, <2>1 DEF Pop, lifeBar
  <2> QED
    BY <1>2, <2>2, <2>3, <2>4, <2>5 DEF Life!Begin, Life!Move, Life!Jobs, Jobs
<1> QED
  BY <1>1, <1>2 DEF Pop, IInv, TypeOK, Life!Jobs, Jobs

\* The runner lets go of a job that has its outcome, or of one that has none.
LEMMA ReleaseEnds ==
    ASSUME IInv, Release PROVE \E j \in Life!Jobs : Life!Finish(j) \/ Life!GiveUp(j)
<1> DEFINE j == current
<1>1. j \in Jobs /\ j \notin queue /\ state[j] \notin {"none", "lost"}
  BY DEF Release, IInv, TypeOK, InHand, QueueWaits, JobsExist, Between, Jobs
<1>2. lifeBar[j] = "running" /\ current' = 0 /\ 0 \notin Jobs
  BY <1>1 DEF lifeBar, Release, Jobs
<1>3. lifeBar'[j] \in TERMINAL \union {"limbo"}
  BY <1>1, <1>2 DEF Release, lifeBar
<1>4. lifeBar' = [lifeBar EXCEPT ![j] = lifeBar'[j]]
  BY <1>1, <1>2 DEF Release, lifeBar
<1> QED
  BY <1>1, <1>2, <1>3, <1>4 DEF Life!Finish, Life!GiveUp, Life!Move, Life!Ended, TERMINAL, Life!Jobs, Jobs

\* Stopping the worker leaves in limbo what waited, and what was in hand unless
\* its outcome was on record.
LEMMA StopHalts == ASSUME IInv, IInv', Stop PROVE Life!Halt
<1>1. lifeBar' \in [Life!Jobs -> Life!Phases]
  BY LifeType
<1>2. 0 \notin Jobs
  BY DEF Jobs
<1>3. ASSUME NEW j \in Jobs
      PROVE  \/ lifeBar'[j] = lifeBar[j]
             \/ lifeBar[j] = "queued" /\ lifeBar'[j] = "limbo"
             \/ lifeBar[j] = "running" /\ lifeBar'[j] \in TERMINAL \union {"limbo"}
  <2>1. CASE j = current
    BY <1>2, <2>1 DEF Stop, IInv, InHand, JobsExist, lifeBar
  <2>2. CASE j # current /\ j \in queue
    BY <1>2, <2>2 DEF Stop, IInv, QueueWaits, TERMINAL, lifeBar
  <2>3. CASE j # current /\ j \notin queue
    BY <1>2, <2>3 DEF Stop, lifeBar
  <2> QED
    BY <2>1, <2>2, <2>3
<1> QED
  BY <1>1, <1>3 DEF Life!Halt, Life!Stay, Life!Jump, Life!Ended, TERMINAL, Life!Jobs, Jobs

\* Reading the history back changes only what was in limbo.
LEMMA ServeRecalls == ASSUME IInv, IInv', Serve PROVE Life!Recall
<1>1. lifeBar' \in [Life!Jobs -> Life!Phases]
  BY LifeType
<1>2. current = 0 /\ queue = {} /\ 0 \notin Jobs
  BY DEF Serve, IInv, InHand, QueueWaits, Between, up, Jobs
<1>3. ASSUME NEW j \in Jobs
      PROVE  \/ lifeBar'[j] = lifeBar[j]
             \/ lifeBar[j] = "limbo" /\ lifeBar'[j] \in TERMINAL \union {"lost", "limbo"}
  <2>1. state'[j] = Recalled(j) /\ UNCHANGED <<disk, queue, current>>
    BY DEF Serve
  <2>2. CASE state[j] = "none"
    BY <1>2, <2>1, <2>2 DEF Recalled, IInv, JobsExist, lifeBar, TERMINAL
  <2>3. CASE state[j] = "lost"
    BY <1>2, <2>1, <2>3 DEF Recalled, IInv, LostHasNoRecord, lifeBar, TERMINAL
  <2>4. CASE state[j] \in TERMINAL /\ disk[j] = state[j]
    BY <1>2, <2>1, <2>4 DEF Recalled, lifeBar, TERMINAL
  <2>5. CASE state[j] \notin {"none", "lost"} /\ ~(state[j] \in TERMINAL /\ disk[j] = state[j])
    BY <1>2, <2>1, <2>5 DEF Recalled, lifeBar, TERMINAL
  <2> QED
    BY <2>2, <2>3, <2>4, <2>5
<1> QED
  BY <1>1, <1>3 DEF Life!Recall, Life!Stay, Life!Jump, Life!Ended, TERMINAL, Life!Jobs, Jobs

\* Every step of the worker is a step of JobLife or invisible to it.
LEMMA StepRefines == ASSUME IInv, IInv', [Next]_vars PROVE [Life!JNext]_lifeBar
<1> USE DEF jobVars, runVars, procVars, envVars
<1>1. ASSUME NEW j \in Jobs, CancelTaken(j) PROVE lifeBar' = lifeBar
  BY <1>1, Invisible DEF CancelTaken
<1>2. CASE OpenLog \/ SetCheck \/ Work \/ PollGpu \/ Spawn \/ Reap \/ LogOutcome
  BY <1>2, Invisible DEF OpenLog, SetCheck, Work, PollGpu, Spawn, Reap, LogOutcome
<1>3. CASE SetWrite \/ FinishDecided \/ FinishCancelled \/ FinishFailed
  <2>1. queue' = queue /\ current' = current
    BY <1>3 DEF SetWrite, FinishDecided, FinishCancelled, FinishFailed, Excuse
  <2>2. \A j \in Jobs : j # current => state'[j] = state[j] /\ disk'[j] = disk[j]
    BY <1>3, SMTT(60) DEF SetWrite, FinishDecided, FinishCancelled, FinishFailed, Excuse,
       Record, Persisted, PersistFails, IInv, TypeOK
  <2> QED
    BY <2>1, <2>2, Invisible
<1>4. ASSUME NEW j \in Jobs, TrainStep(j) PROVE lifeBar' = lifeBar
  BY <1>4, Invisible DEF TrainStep
<1>5. CASE IsaacUp \/ IsaacDown
  BY <1>5, Invisible DEF IsaacUp, IsaacDown
<1>6. CASE UNCHANGED vars
  BY <1>6, Invisible DEF vars
<1>7. ASSUME NEW k \in Keys, NEW f \in BOOLEAN, Submit(k, f) PROVE Life!JNext
  BY <1>7, SubmitAccepts DEF Life!JNext
<1>8. ASSUME NEW j \in Jobs, CancelQueued(j) PROVE Life!JNext
  BY <1>8, CancelWithdraws DEF Life!JNext, Life!Jobs, Jobs
<1>9. CASE Pop
  BY <1>9, PopBegins DEF Life!JNext
<1>10. CASE Release
  BY <1>10, ReleaseEnds DEF Life!JNext
<1>11. CASE Stop
  BY <1>11, StopHalts DEF Life!JNext
<1>12. CASE Serve
  BY <1>12, ServeRecalls DEF Life!JNext
<1> QED
  BY <1>1, <1>2, <1>3, <1>4, <1>5, <1>6, <1>7, <1>8, <1>9, <1>10, <1>11, <1>12, Zenon
  DEF Next, Handlers, Runner

\* The worker implements JobLife: jobs run one at a time and oldest first, each
\* ends once, and no restart changes an outcome that is on record.
THEOREM WorkerImplementsJobLife == Spec => ImplementsJobLife
<1>1. Init => Life!JInit
  <2> SUFFICES ASSUME Init PROVE lifeBar = [j \in Life!Jobs |-> "new"]
    BY DEF Life!JInit
  <2>1. /\ current = 0 /\ queue = {} /\ state = [j \in Jobs |-> "none"]
    BY Zenon DEF Init
  <2>2. 0 \notin Jobs
    BY DEF Jobs
  <2> QED
    BY <2>1, <2>2 DEF lifeBar, Life!Jobs, Jobs
<1>2. IInv /\ IInv' /\ [Next]_vars => [Life!JNext]_lifeBar
  BY StepRefines
<1> QED
  BY <1>1, <1>2, QueueInvariant, PTL DEF Spec, ImplementsJobLife, Life!JSpec

=============================================================================
