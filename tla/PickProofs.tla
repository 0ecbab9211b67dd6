----------------------------- MODULE PickProofs -----------------------------
(***************************************************************************)
(* Proofs about PickExchange, for any number of package tasks of any shape   *)
(* and any faults: no package is forgotten on the magnet, the answers are    *)
(* true, and Nav2 never drives against the planner, except for the tasks of  *)
(* Untold.                                                                  *)
(***************************************************************************)
EXTENDS PickExchange, TLAPS

----------------------------------------------------------------------------
(* The inductive invariant *)

Types ==
    /\ requests \in Seq(Request) /\ answers \in Seq(Answer)
    /\ serving \in Task \union {0} /\ phase \in Phases /\ mode \in Modes
    /\ arm \in {"tucked", "tucking", "out"} /\ plate \in Task \union {0}
    /\ cmds \in Seq(Modes) /\ power \in BOOLEAN /\ held \in Task \union {0}
    /\ seen \in {"nothing", "free", "held"}
    /\ cur \in Task \union {0}
    /\ state \in NavStates \union {"IDLE", "PICKING", "PLACING"}
    /\ job \in Seq(Shape)

Exchanging == {"PICKING", "PLACING"}

\* task_manager's fields agree, and so do the planner's.
Fields ==
    /\ waiting <=> state \in Exchanging
    /\ cur = 0 <=> state = "IDLE"
    /\ serving = 0 <=> phase = "idle"
    /\ phase \in {"acquire", "confirm", "energize", "lift", "carry"} => mode = "attach"
    /\ phase \in {"release", "retreat", "stow"} => mode = "detach"
    /\ ~up => requests = <<>> /\ serving = 0

\* x belongs to the current task or to one that ended untold.
Known(x) == x = cur \/ x \in Untold

\* Whatever else is asked for, worked on or on the magnet is being given up.
Owners ==
    /\ serving # 0 => Known(serving) \/ CancelAsked
    /\ \A i \in DOMAIN requests : Known(requests[i].task) \/ Revoked(i)
    /\ up /\ held # 0 => Known(held) \/ ReleaseComing
    /\ up /\ plate # 0 => Known(plate) \/ ReleaseComing

Early == {"acquire", "dock", "confirm", "pre", "approach"}
Late == {"lift", "carry"}
NoDetach == \A i \in DOMAIN cmds : cmds[i] = "attach"
Holding == held # 0 /\ power /\ NoDetach
Empty == held = 0 /\ ~power /\ \A i \in DOMAIN cmds : cmds[i] = "detach"

\* What each phase knows of the arm and the magnet.
PhaseKnows ==
    /\ arm = "tucked" => plate = 0
    /\ phase \in Early => cmds = <<>> /\ (held # 0 => power) /\ (seen = "held" => held # 0)
    /\ phase \in Early \ {"approach"} => plate = 0
    /\ phase \in {"pre", "approach"} => arm = "out"
    /\ phase = "approach" => plate \in {0, serving}
    /\ phase = "energize" => NoDetach /\ (held # 0 => power) /\ (seen = "held" => held # 0)
    /\ phase \in Late => Holding
    /\ phase \in {"release", "retreat", "stow"} => MagnetOff
    /\ phase = "backout" => arm = "tucked" /\ (IF mode = "attach" THEN Holding ELSE Empty)
    /\ seen = "nothing" => serving = 0 /\ held = 0 /\ plate = 0 /\ MagnetOff

\* Nothing of task k is asked for, worked on or answered.
NoAsk(k) == \A i \in DOMAIN requests : requests[i].cmd \in Modes => requests[i].task # k
NoAnswer(k) == \A i \in DOMAIN answers : answers[i].of # k
Silent(k) == NoAsk(k) /\ serving # k /\ NoAnswer(k)

\* A task that has not begun is nobody's business yet.
Fresh ==
    /\ queue \subseteq DOMAIN job
    /\ cur \in DOMAIN job \union {0} /\ cur \notin queue
    /\ \A k \in Task : k \in queue \/ k > Len(job) => Silent(k)

Resting == requests = <<>> /\ serving = 0
Carrying == Holding /\ arm = "tucked" /\ Known(held)
Says(what) ==
    /\ what = "failed" => MagnetOff
    /\ what = "placed" => Empty
    /\ what = "picked" => Carrying

\* What the current task asked for is the last thing asked for, or is worked on
\* with nothing left to read, or is answered by the last answer there is, with the
\* planner at rest and the magnet as the answer says.
OwnExchange ==
    /\ ~waiting => Silent(cur)
    /\ \A i \in DOMAIN requests : requests[i].cmd \in Modes /\ requests[i].task = cur =>
         i = Len(requests) /\ serving # cur /\ NoAnswer(cur)
    /\ serving = cur => requests = <<>> /\ NoAnswer(cur)
    /\ \A i \in DOMAIN answers : answers[i].of = cur =>
         i = Len(answers) /\ Resting /\ Says(answers[i].what)
    /\ state = "NAV_TO_DROPOFF" => Resting /\ Carrying

IInv == /\ Types /\ Fields /\ Owners /\ PhaseKnows /\ Fresh
        /\ cur # 0 /\ cur \notin fooled => OwnExchange

LEMMA Numbers == 0 \notin Task /\ Task \subseteq Nat
  BY PickAssumption DEF Task

\* The small sets of constants are expanded everywhere.
USE Numbers DEF Phases, Modes, NavStates, Exchanging, Early, Late

\* The first of a sequence and the rest of it; a sequence with one more element.
LEMMA Taken ==
  ASSUME NEW S, NEW s \in Seq(S), s # <<>>
  PROVE  /\ 1 \in DOMAIN s /\ s[1] \in S /\ Head(s) = s[1] /\ Len(s) \in Nat /\ Len(s) >= 1
         /\ Tail(s) \in Seq(S) /\ Len(Tail(s)) = Len(s) - 1
         /\ \A i \in DOMAIN Tail(s) : i \in Nat /\ i + 1 \in DOMAIN s /\ Tail(s)[i] = s[i + 1]
         /\ \A i \in DOMAIN s : i = 1 \/ (i - 1 \in DOMAIN Tail(s) /\ Tail(s)[i - 1] = s[i])
  OBVIOUS

LEMMA Added ==
  ASSUME NEW S, NEW s \in Seq(S), NEW e \in S, NEW t, t = Append(s, e)
  PROVE  /\ t \in Seq(S) /\ Len(t) = Len(s) + 1 /\ Len(s) \in Nat /\ t # <<>>
         /\ \A i \in DOMAIN s : i \in DOMAIN t /\ t[i] = s[i]
         /\ \A i \in DOMAIN t : i \in Nat /\ (i = Len(s) + 1 \/ i \in DOMAIN s)
         /\ Len(s) + 1 \in DOMAIN t /\ t[Len(s) + 1] = e
  OBVIOUS

LEMMA RequestAt ==
  ASSUME Types, NEW i \in DOMAIN requests
  PROVE  /\ requests[i].task \in Task /\ requests[i].task # 0
         /\ requests[i].cmd \in Modes \union {"cancel"}
<1>1. requests[i] \in Request
  BY DEF Types
<1>2. \A r \in Request : r.task \in Task /\ r.cmd \in Modes \union {"cancel"}
  BY DEF Request
<1> QED
  BY <1>1, <1>2

\* Once a request is read, what was given up still is, unless the cancel was read.
LEMMA ReadRevokes ==
  ASSUME requests \in Seq(Request), requests # <<>>, requests' = Tail(requests)
  PROVE  /\ requests[1].cmd # "cancel" /\ CancelAsked => CancelAsked'
         /\ \A i \in DOMAIN requests' : Revoked(i + 1) => Revoked(i)'
         /\ requests[1].cmd # "cancel" /\ Revoked(1) => CancelAsked'
<1>1. /\ Len(requests') = Len(requests) - 1 /\ Len(requests) \in Nat
      /\ \A i \in DOMAIN requests :
           i = 1 \/ (i - 1 \in DOMAIN requests' /\ requests'[i - 1] = requests[i])
      /\ \A i \in DOMAIN requests' : i \in Nat
      /\ DOMAIN requests = 1 .. Len(requests)
  BY Taken
<1>2. \A i \in DOMAIN requests' : Revoked(i + 1) => Revoked(i)'
  <2> TAKE i \in DOMAIN requests'
  <2> HAVE Revoked(i + 1)
  <2>1. PICK j \in i + 1 .. Len(requests) : requests[j].cmd = "cancel"
    BY DEF Revoked
  <2>2. j - 1 \in i .. Len(requests') /\ requests'[j - 1].cmd = "cancel"
    BY <1>1, <2>1
  <2> QED
    BY <2>2 DEF Revoked
<1>3. ASSUME requests[1].cmd # "cancel", NEW j \in DOMAIN requests, requests[j].cmd = "cancel"
      PROVE  CancelAsked'
  BY <1>1, <1>3 DEF CancelAsked
<1>4. requests[1].cmd # "cancel" /\ CancelAsked => CancelAsked'
  BY <1>3 DEF CancelAsked
<1>5. requests[1].cmd # "cancel" /\ Revoked(1) => CancelAsked'
  BY <1>1, <1>3 DEF Revoked
<1> QED
  BY <1>2, <1>4, <1>5

\* A request that is sent to a living controller leaves the others as they are; a
\* cancel revokes them all.
LEMMA SentRevokes ==
  ASSUME requests \in Seq(Request), NEW r \in Request, requests' = Append(requests, r)
  PROVE  /\ CancelAsked => CancelAsked'
         /\ \A i \in DOMAIN requests : Revoked(i) => Revoked(i)'
         /\ r.cmd = "cancel" => CancelAsked' /\ \A i \in DOMAIN requests' : Revoked(i)'
<1>1. /\ Len(requests') = Len(requests) + 1 /\ Len(requests) \in Nat
      /\ \A i \in DOMAIN requests : i \in DOMAIN requests' /\ requests'[i] = requests[i]
      /\ \A i \in DOMAIN requests' : i \in Nat
      /\ Len(requests) + 1 \in DOMAIN requests' /\ requests'[Len(requests) + 1] = r
      /\ DOMAIN requests = 1 .. Len(requests) /\ DOMAIN requests' = 1 .. Len(requests')
  BY Added
<1>2. CancelAsked => CancelAsked'
  BY <1>1 DEF CancelAsked
<1>3. \A i \in DOMAIN requests : Revoked(i) => Revoked(i)'
  <2> TAKE i \in DOMAIN requests
  <2> HAVE Revoked(i)
  <2>1. PICK j \in i .. Len(requests) : requests[j].cmd = "cancel"
    BY DEF Revoked
  <2>2. j \in i .. Len(requests') /\ requests'[j].cmd = "cancel"
    BY <1>1, <2>1
  <2> QED
    BY <2>2 DEF Revoked
<1>4. r.cmd = "cancel" => CancelAsked' /\ \A i \in DOMAIN requests' : Revoked(i)'
  BY <1>1 DEF CancelAsked, Revoked
<1> QED
  BY <1>2, <1>3, <1>4

\* What Isaac reads from pick_cmd takes nothing back of what is behind it.
LEMMA CommandRead ==
  ASSUME Types, cmds # <<>>, power' = (Head(cmds) = "attach"), cmds' = Tail(cmds)
  PROVE  /\ MagnetOff => MagnetOff'
         /\ NoDetach => NoDetach' /\ power'
         /\ ~power /\ (\A i \in DOMAIN cmds : cmds[i] = "detach")
              => ~power' /\ (\A i \in DOMAIN cmds' : cmds'[i] = "detach")
<1>1. /\ 1 \in DOMAIN cmds /\ Head(cmds) = cmds[1]
      /\ Len(cmds') = Len(cmds) - 1 /\ cmds' \in Seq(Modes)
      /\ \A i \in DOMAIN cmds' : i + 1 \in DOMAIN cmds /\ cmds'[i] = cmds[i + 1]
  BY DEF Types
<1>2. NoDetach => NoDetach' /\ power'
  BY <1>1 DEF NoDetach
<1>3. (\A i \in DOMAIN cmds : cmds[i] = "detach")
        => ~power' /\ (\A i \in DOMAIN cmds' : cmds'[i] = "detach")
  BY <1>1
<1>4. cmds[Len(cmds)] = "detach" => MagnetOff'
  <2> HAVE cmds[Len(cmds)] = "detach"
  <2>1. CASE Len(cmds) = 1
    <3>1. ~power'
      BY <1>1, <2>1
    <3>2. DOMAIN cmds' = {}
      BY <1>1, <2>1
    <3> QED
      BY <3>1, <3>2 DEF MagnetOff
  <2>2. CASE Len(cmds) # 1
    <3>1. Len(cmds') \in DOMAIN cmds' /\ Len(cmds') + 1 = Len(cmds)
      BY <1>1, <2>2, cmds \in Seq(Modes) DEF Types
    <3>2. cmds'[Len(cmds')] = "detach"
      BY <1>1, <3>1
    <3>3. cmds' # <<>>
      BY <1>1, <3>1
    <3> QED
      BY <3>2, <3>3 DEF MagnetOff
  <2> QED
    BY <2>1, <2>2
<1> QED
  BY <1>2, <1>3, <1>4 DEF MagnetOff

----------------------------------------------------------------------------
(* The planner at work *)

\* A phase that moves on touches no message and no task: what is left to show is
\* what the next phase knows, and who owns the plate and the package.
LEMMA Advance ==
  ASSUME IInv, serving # 0, UNCHANGED <<up, reqVars, serving, held, taskVars>>,
         Types', Fields', PhaseKnows',
         up /\ held # 0 => (Known(held) \/ ReleaseComing)',
         up /\ plate' # 0 => (Known(plate) \/ ReleaseComing)'
  PROVE  IInv'
<1> USE DEF IInv, reqVars, taskVars
<1>1. Owners'
  BY DEF Owners, Known, Untold, CancelAsked, Revoked
<1>2. Fresh'
  BY DEF Fresh, Silent, NoAsk, NoAnswer
<1>3. OwnExchange => OwnExchange'
  <2> HAVE OwnExchange
  <2>1. ~Resting /\ ~Resting'
    BY DEF Resting
  <2> QED
    BY <2>1 DEF OwnExchange, Silent, NoAsk, NoAnswer
<1> QED
  BY <1>1, <1>2, <1>3

\* The same without a word to the magnet and with the plate where it was.
LEMMA Quietly ==
  ASSUME IInv, NEW p \in Phases \ {"idle"}, serving # 0, phase' = p, PhaseKnows',
         p \in {"acquire", "confirm", "energize", "lift", "carry"} => mode = "attach",
         p \in {"release", "retreat", "stow"} => mode = "detach",
         arm' \in {"tucked", "tucking", "out"},
         UNCHANGED <<up, reqVars, serving, mode, plate, cmds, magnetVars, taskVars>>
  PROVE  IInv'
<1> USE DEF IInv, reqVars, magnetVars, taskVars
<1>1. Types' /\ Fields'
  BY DEF Types, Fields
<1>2. /\ up /\ held # 0 => (Known(held) \/ ReleaseComing)'
      /\ up /\ plate' # 0 => (Known(plate) \/ ReleaseComing)'
  BY DEF Owners, Known, Untold, ReleaseComing, CancelAsked, MagnetOff
<1> QED
  BY <1>1, <1>2, Advance

LEMMA TuckStep == ASSUME IInv, up, Tuck, UNCHANGED taskVars PROVE IInv'
<1> USE DEF IInv, Tuck, RampOver, Settled, Truth, Enter, reqVars, armVars, magnetVars, taskVars
<1>1. PhaseKnows'
  BY DEF Types, Fields, PhaseKnows, Holding, Empty, NoDetach, MagnetOff
<1> QED
  BY <1>1, Quietly DEF Types, Fields

LEMMA AcquireStep == ASSUME IInv, up, Acquire, UNCHANGED taskVars PROVE IInv'
<1> USE DEF IInv, Acquire, Enter, reqVars, armVars, magnetVars, taskVars
<1>1. PhaseKnows'
  BY DEF Types, Fields, PhaseKnows, Holding, Empty, NoDetach, MagnetOff
<1> QED
  BY <1>1, Quietly DEF Types, Fields

LEMMA DockStep == ASSUME IInv, up, Dock, UNCHANGED taskVars PROVE IInv'
<1> USE DEF IInv, Dock, Reach, Enter, reqVars, armVars, magnetVars, taskVars
<1>1. PhaseKnows'
  BY DEF Types, Fields, PhaseKnows, Holding, Empty, NoDetach, MagnetOff
<1> QED
  BY <1>1, Quietly DEF Types, Fields

LEMMA ConfirmStep == ASSUME IInv, up, Confirm, UNCHANGED taskVars PROVE IInv'
<1> USE DEF IInv, Confirm, Reach, Enter, reqVars, armVars, magnetVars, taskVars
<1>1. PhaseKnows'
  BY DEF Types, Fields, PhaseKnows, Holding, Empty, NoDetach, MagnetOff
<1> QED
  BY <1>1, Quietly DEF Types, Fields

LEMMA EnergizeStep == ASSUME IInv, up, Energize, UNCHANGED taskVars PROVE IInv'
<1> USE DEF IInv, Energize, Enter, reqVars, armVars, magnetVars, taskVars
<1>1. PhaseKnows'
  BY DEF Types, Fields, PhaseKnows, Holding, Empty, NoDetach, MagnetOff
<1> QED
  BY <1>1, Quietly DEF Types, Fields

LEMMA ReleaseStep == ASSUME IInv, up, Release, UNCHANGED taskVars PROVE IInv'
<1> USE DEF IInv, Release, Enter, reqVars, armVars, magnetVars, taskVars
<1>1. PhaseKnows'
  BY DEF Types, Fields, PhaseKnows, Holding, Empty, NoDetach, MagnetOff
<1> QED
  BY <1>1, Quietly DEF Types, Fields

LEMMA WithdrawStep == ASSUME IInv, up, Withdraw, UNCHANGED taskVars PROVE IInv'
<1> USE DEF IInv, Withdraw, Enter, reqVars, armVars, magnetVars, taskVars
<1>1. PhaseKnows'
  BY DEF Types, Fields, PhaseKnows, Holding, Empty, NoDetach, MagnetOff
<1> QED
  BY <1>1, Quietly DEF Types, Fields

LEMMA FoldedStep == ASSUME IInv, up, Folded, UNCHANGED taskVars PROVE IInv'
<1> USE DEF IInv, Folded, RampOver, Settled, Truth, Enter, reqVars, armVars, magnetVars, taskVars
<1>1. PhaseKnows'
  BY DEF Types, Fields, PhaseKnows, Holding, Empty, NoDetach, MagnetOff
<1> QED
  BY <1>1, Quietly DEF Types, Fields

LEMMA PreStep == ASSUME IInv, up, Pre, UNCHANGED taskVars PROVE IInv'
<1> USE DEF IInv, Pre, Enter, reqVars, magnetVars, taskVars
<1>1. Types' /\ Fields' /\ serving # 0
  BY DEF Types, Fields
<1>2. PhaseKnows'
  <2>1. plate = 0 /\ plate' \in {0, serving'} /\ arm' = "out"
    BY DEF PhaseKnows
  <2>2. cmds' = <<>> /\ (held' # 0 => power') /\ (seen' = "held" => held' # 0)
    BY DEF PhaseKnows
  <2> QED
    BY <1>1, <2>1, <2>2 DEF PhaseKnows
<1>3. /\ held # 0 => (Known(held) \/ ReleaseComing)'
      /\ plate' # 0 => (Known(plate) \/ ReleaseComing)'
  <2>1. plate' \in {0, serving}
    BY DEF PhaseKnows
  <2> QED
    BY <1>1, <2>1 DEF Owners, Known, Untold, ReleaseComing, CancelAsked, MagnetOff
<1> QED
  BY <1>1, <1>2, <1>3, Advance

LEMMA ApproachStep == ASSUME IInv, up, Approach, UNCHANGED taskVars PROVE IInv'
<1> USE DEF IInv, Approach, Tell, Enter, reqVars, armVars, magnetVars, taskVars
<1>1. serving # 0 /\ cmds = <<>> /\ (held # 0 => power)
  BY DEF Fields, PhaseKnows
<1>2. cmds' = <<mode>> /\ mode \in Modes
  BY <1>1 DEF Types
<1>3. Types' /\ Fields'
  BY <1>1, <1>2 DEF Types, Fields
<1>4. PhaseKnows'
  BY <1>1, <1>2 DEF Types, Fields, PhaseKnows, NoDetach, MagnetOff
<1>5. /\ held # 0 => (Known(held) \/ ReleaseComing)'
      /\ plate' # 0 => (Known(plate) \/ ReleaseComing)'
  <2>1. held # 0 => ~MagnetOff
    BY <1>1 DEF MagnetOff
  <2>2. plate \in {0, serving}
    BY DEF PhaseKnows
  <2> QED
    BY <1>1, <2>1, <2>2 DEF Owners, Known, Untold, ReleaseComing, CancelAsked
<1> QED
  BY <1>1, <1>3, <1>4, <1>5, Advance

----------------------------------------------------------------------------
(* The arm and the magnet *)

\* The simulator touches neither messages nor tasks.
LEMMA Simulated ==
  ASSUME IInv, UNCHANGED <<up, reqVars, planVars, taskVars>>, Types', PhaseKnows',
         up /\ held' # 0 => (Known(held) \/ ReleaseComing)',
         up /\ plate' # 0 => (Known(plate) \/ ReleaseComing)',
         MagnetOff => MagnetOff', Empty => Empty', Carrying => Carrying'
  PROVE  IInv'
<1> USE DEF IInv, reqVars, planVars, taskVars
<1>1. Owners'
  BY DEF Owners, Known, Untold, CancelAsked, Revoked
<1>2. Fresh' /\ Fields'
  BY DEF Fresh, Silent, NoAsk, NoAnswer, Fields
<1>3. OwnExchange => OwnExchange'
  BY DEF OwnExchange, Silent, NoAsk, NoAnswer, Resting, Says
<1> QED
  BY <1>1, <1>2, <1>3

LEMMA ArmFoldsStep == ASSUME IInv, ArmFolds, UNCHANGED taskVars PROVE IInv'
<1> USE DEF IInv, ArmFolds, reqVars, planVars, magnetVars, taskVars
<1>1. Types' /\ PhaseKnows'
  BY DEF Types, PhaseKnows, Holding, Empty, NoDetach, MagnetOff
<1>2. up /\ held' # 0 => (Known(held) \/ ReleaseComing)'
  BY DEF Owners, Known, Untold, ReleaseComing, CancelAsked, MagnetOff
<1>3. (MagnetOff => MagnetOff') /\ (Empty => Empty') /\ (Carrying => Carrying')
  BY DEF MagnetOff, Empty, Carrying
<1> QED
  BY <1>1, <1>2, <1>3, Simulated

LEMMA MagnetStepStep == ASSUME IInv, MagnetStep, UNCHANGED taskVars PROVE IInv'
<1> USE DEF IInv, MagnetStep, reqVars, planVars, armVars, taskVars
<1>1. Types' /\ PhaseKnows'
  BY DEF Types, Fields, PhaseKnows, Holding, Empty, NoDetach, MagnetOff
<1>2. /\ up /\ held' # 0 => (Known(held) \/ ReleaseComing)'
      /\ up /\ plate' # 0 => (Known(plate) \/ ReleaseComing)'
  BY DEF Owners, Known, Untold, ReleaseComing, CancelAsked, MagnetOff
<1>3. (MagnetOff => MagnetOff') /\ (Empty => Empty') /\ (Carrying => Carrying')
  BY DEF MagnetOff, Empty, Carrying, Holding
<1> QED
  BY <1>1, <1>2, <1>3, Simulated

LEMMA GroundTruthStep == ASSUME IInv, GroundTruth, UNCHANGED taskVars PROVE IInv'
<1> USE DEF IInv, GroundTruth, Truth, reqVars, planVars, armVars, taskVars
<1>1. Types' /\ PhaseKnows'
  BY DEF Types, Fields, PhaseKnows, Holding, Empty, NoDetach, MagnetOff
<1>2. /\ up /\ held' # 0 => (Known(held) \/ ReleaseComing)'
      /\ up /\ plate' # 0 => (Known(plate) \/ ReleaseComing)'
  BY DEF Owners, Known, Untold, ReleaseComing, CancelAsked, MagnetOff
<1>3. (MagnetOff => MagnetOff') /\ (Empty => Empty') /\ (Carrying => Carrying')
  BY DEF MagnetOff, Empty, Carrying, Holding, NoDetach, Known, Untold
<1> QED
  BY <1>1, <1>2, <1>3, Simulated

LEMMA OnPickCmdStep == ASSUME IInv, OnPickCmd, UNCHANGED taskVars PROVE IInv'
<1> USE DEF IInv, OnPickCmd, reqVars, planVars, armVars, taskVars
<1>1. Types'
  BY DEF Types
<1>2. PhaseKnows'
  BY CommandRead DEF PhaseKnows, Holding, Empty
<1>3. (MagnetOff => MagnetOff') /\ (Empty => Empty') /\ (Carrying => Carrying')
  BY CommandRead DEF Empty, Carrying, Holding, Known, Untold
<1>4. /\ up /\ held' # 0 => (Known(held) \/ ReleaseComing)'
      /\ up /\ plate' # 0 => (Known(plate) \/ ReleaseComing)'
  BY <1>3 DEF Owners, Known, Untold, ReleaseComing, CancelAsked
<1> QED
  BY <1>1, <1>2, <1>3, <1>4, Simulated

LEMMA SimInv == ASSUME IInv, SimStep, UNCHANGED taskVars PROVE IInv'
  BY ArmFoldsStep, OnPickCmdStep, MagnetStepStep, GroundTruthStep DEF SimStep

----------------------------------------------------------------------------
(* The planner reads and answers *)

\* What task k was answered last, with the planner at rest.
LEMMA Replied ==
  ASSUME IInv, serving # 0, NEW what \in {"picked", "placed", "failed"}, Reply(what, serving),
         serving' = 0, UNCHANGED <<requests, taskVars>>,
         requests = <<>> => Says(what)'
  PROVE  /\ answers' \in Seq(Answer)
         /\ Fresh'
         /\ cur # 0 /\ cur \notin fooled => OwnExchange'
<1> USE DEF IInv, taskVars
<1> DEFINE a == [what |-> what, of |-> serving]
<1>1. a \in Answer /\ a.of = serving /\ a.what = what
  BY DEF Answer, Types
<1>2. /\ answers' \in Seq(Answer) /\ Len(answers') = Len(answers) + 1 /\ Len(answers) \in Nat
      /\ \A i \in DOMAIN answers' : i = Len(answers) + 1 \/ i \in DOMAIN answers
      /\ \A i \in DOMAIN answers : answers'[i] = answers[i]
      /\ answers'[Len(answers) + 1] = a
  BY <1>1, Added DEF Reply, Types
<1>3. \A k : NoAnswer(k) /\ serving # k => NoAnswer(k)'
  BY <1>1, <1>2 DEF NoAnswer
<1>4. Fresh'
  BY <1>3, 0 \notin Task DEF Fresh, Silent, NoAsk
<1>5. ASSUME cur # 0, cur \notin fooled
      PROVE  OwnExchange'
  <2>1. OwnExchange
    BY <1>5
  <2>2. ~Resting
    BY DEF Resting
  <2>3. \A i \in DOMAIN answers : answers[i].of # cur
    BY <2>1, <2>2 DEF OwnExchange
  <2>4. ~waiting => Silent(cur)'
    BY <1>3, <1>5, <2>1 DEF OwnExchange, Silent, NoAsk
  <2>5. \A i \in DOMAIN requests : requests[i].cmd \in Modes /\ requests[i].task = cur =>
          i = Len(requests) /\ serving' # cur /\ NoAnswer(cur)'
    BY <1>3, <1>5, <2>1 DEF OwnExchange
  <2>6. CASE serving # cur
    <3>1. NoAnswer(cur)'
      BY <1>3, <2>3, <2>6 DEF NoAnswer
    <3> QED
      BY <1>5, <2>1, <2>2, <2>4, <2>5, <3>1 DEF OwnExchange, NoAnswer
  <2>7. CASE serving = cur
    <3>1. Resting' /\ Says(what)'
      BY <2>1, <2>7 DEF OwnExchange, Resting
    <3> QED
      BY <1>1, <1>2, <1>5, <2>1, <2>2, <2>3, <2>4, <2>5, <2>7, <3>1 DEF OwnExchange
  <2> QED
    BY <2>6, <2>7
<1> QED
  BY <1>2, <1>4, <1>5

LEMMA FailStep == ASSUME IInv, up, Fail, UNCHANGED taskVars PROVE IInv'
<1> USE DEF IInv, Fail, Idle, Tell, reqVars, magnetVars, taskVars
<1>1. cmds' \in Seq(Modes) /\ MagnetOff'
  BY Added, "detach" \in Modes DEF Types, MagnetOff
<1>2. answers' \in Seq(Answer) /\ Fresh' /\ (cur # 0 /\ cur \notin fooled => OwnExchange')
  BY <1>1, Replied DEF Says, Idle
<1>3. Types' /\ Fields'
  BY <1>1, <1>2 DEF Types, Fields
<1>4. Owners'
  BY <1>1 DEF Owners, Known, Untold, ReleaseComing, CancelAsked, Revoked
<1>5. PhaseKnows'
  BY <1>1 DEF Types, PhaseKnows
<1> QED
  BY <1>2, <1>3, <1>4, <1>5

LEMMA BackoutStep == ASSUME IInv, up, Backout, UNCHANGED taskVars PROVE IInv'
<1> USE DEF IInv, Backout, Idle, armVars, magnetVars, taskVars
<1>1. serving # 0 /\ arm = "tucked" /\ (IF mode = "attach" THEN Holding ELSE Empty)
  BY DEF Fields, PhaseKnows
<1>2. requests = <<>> /\ mode = "attach" => Says("picked")'
  <2> HAVE requests = <<>> /\ mode = "attach"
  <2>1. ~MagnetOff
    BY <1>1 DEF Holding, NoDetach, MagnetOff, Types
  <2>2. Known(held)
    BY <1>1, <2>1 DEF Owners, ReleaseComing, CancelAsked, Holding
  <2> QED
    BY <1>1, <2>2 DEF Says, Carrying, Holding, NoDetach, Known, Untold
<1>3. mode # "attach" => Says("placed")'
  BY <1>1 DEF Says, Empty
<1>4. answers' \in Seq(Answer) /\ Fresh' /\ (cur # 0 /\ cur \notin fooled => OwnExchange')
  <2>1. CASE mode = "attach"
    BY <1>1, <1>2, <2>1, Replied
  <2>2. CASE mode # "attach"
    BY <1>1, <1>3, <2>2, Replied
  <2> QED
    BY <2>1, <2>2
<1>5. Types' /\ Fields'
  BY <1>4 DEF Types, Fields
<1>6. Owners'
  BY DEF Owners, Known, Untold, ReleaseComing, CancelAsked, Revoked, MagnetOff
<1>7. PhaseKnows'
  BY DEF PhaseKnows, MagnetOff
<1> QED
  BY <1>4, <1>5, <1>6, <1>7

\* A request is read: what waits behind it is still given up, or asked for, as before.
LEMMA Read ==
  ASSUME IInv, requests # <<>>, requests' = Tail(requests), UNCHANGED taskVars
  PROVE  /\ requests' \in Seq(Request) /\ requests[1] \in Request /\ Head(requests) = requests[1]
         /\ \A i \in DOMAIN requests' : (Known(requests[i].task) \/ Revoked(i))'
         /\ \A k : NoAsk(k) => NoAsk(k)'
         /\ \A k : requests[1].cmd \in Modes /\ NoAsk(k) => requests[1].task # k
<1> USE DEF IInv, taskVars
<1>1. requests \in Seq(Request)
  BY DEF Types
<1>2. /\ 1 \in DOMAIN requests /\ requests[1] \in Request /\ Head(requests) = requests[1]
      /\ requests' \in Seq(Request)
      /\ \A i \in DOMAIN requests' : i + 1 \in DOMAIN requests /\ requests'[i] = requests[i + 1]
  BY <1>1, Taken
<1>3. \A i \in DOMAIN requests' : (Known(requests[i].task) \/ Revoked(i))'
  <2> TAKE i \in DOMAIN requests'
  <2>1. Known(requests[i + 1].task) \/ Revoked(i + 1)
    BY <1>2 DEF Owners
  <2>2. Revoked(i + 1) => Revoked(i)'
    BY <1>1, ReadRevokes
  <2> QED
    BY <1>2, <2>1, <2>2 DEF Known, Untold
<1>4. \A k : NoAsk(k) => NoAsk(k)'
  BY <1>2 DEF NoAsk
<1> QED
  BY <1>2, <1>3, <1>4 DEF NoAsk

\* While a request is unread, what the current task asked for is the last request,
\* and nothing is answered or carried yet.
LEMMA Asking ==
  ASSUME IInv, requests # <<>>, requests' = Tail(requests), OwnExchange,
         UNCHANGED <<taskVars, answers>>
  PROVE  /\ serving # cur /\ NoAnswer(cur) /\ state # "NAV_TO_DROPOFF"
         /\ \A i \in DOMAIN requests' : requests'[i].cmd \in Modes /\ requests'[i].task = cur =>
              i = Len(requests')
         /\ requests[1].cmd \in Modes /\ requests[1].task = cur => requests' = <<>> /\ waiting
<1> USE DEF IInv, taskVars
<1>1. /\ 1 \in DOMAIN requests /\ Len(requests) \in Nat /\ Len(requests') = Len(requests) - 1
      /\ requests' \in Seq(Request)
      /\ \A i \in DOMAIN requests' :
           i \in Nat /\ i + 1 \in DOMAIN requests /\ requests'[i] = requests[i + 1]
  BY Taken DEF Types
<1>2. serving # cur /\ NoAnswer(cur) /\ state # "NAV_TO_DROPOFF"
  BY DEF OwnExchange, Resting, NoAnswer
<1>3. \A i \in DOMAIN requests' : requests'[i].cmd \in Modes /\ requests'[i].task = cur =>
        i = Len(requests')
  BY <1>1 DEF OwnExchange
<1>4. requests[1].cmd \in Modes /\ requests[1].task = cur => requests' = <<>> /\ waiting
  BY <1>1 DEF OwnExchange, Silent, NoAsk
<1> QED
  BY <1>2, <1>3, <1>4

LEMMA CancelStep ==
  ASSUME IInv, up, requests # <<>>, requests' = Tail(requests), Cancel, UNCHANGED taskVars
  PROVE  IInv'
<1> USE DEF IInv, Cancel, Tell, Idle, magnetVars, taskVars
<1>1. cmds' \in Seq(Modes) /\ MagnetOff'
  BY Added, "detach" \in Modes DEF Types, MagnetOff
<1>2. requests' \in Seq(Request)
  BY Read
<1>3. Types' /\ Fields'
  BY <1>1, <1>2 DEF Types, Fields
<1>4. Owners'
  BY <1>1, Read DEF Owners, ReleaseComing
<1>5. PhaseKnows'
  BY <1>1 DEF Types, PhaseKnows
<1>6. Fresh'
  BY Read, 0 \notin Task DEF Fresh, Silent, NoAnswer
<1>7. ASSUME cur # 0, cur \notin fooled PROVE OwnExchange'
  <2>1. OwnExchange
    BY <1>7
  <2>2. /\ serving' # cur /\ NoAnswer(cur)' /\ state # "NAV_TO_DROPOFF"
        /\ \A i \in DOMAIN requests' : requests'[i].cmd \in Modes /\ requests'[i].task = cur =>
             i = Len(requests')
    BY <1>7, <2>1, Asking DEF NoAnswer
  <2>3. ~waiting => Silent(cur)'
    BY <2>1, <2>2, Read DEF OwnExchange, Silent
  <2> QED
    BY <2>2, <2>3 DEF OwnExchange, NoAnswer
<1> QED
  BY <1>3, <1>4, <1>5, <1>6, <1>7

LEMMA BeginStep ==
  ASSUME IInv, up, requests # <<>>, requests' = Tail(requests), Head(requests).cmd \in Modes,
         Begin(Head(requests)), UNCHANGED taskVars
  PROVE  IInv'
<1> USE DEF IInv, Begin, magnetVars, taskVars
<1> DEFINE r == requests[1]
<1>1. /\ Head(requests) = r /\ r \in Request /\ r.task \in Task /\ r.cmd \in Modes
      /\ requests' \in Seq(Request)
  BY Read DEF Request
<1>2. serving' = r.task /\ mode' = r.cmd
  BY <1>1
<1>3. Types' /\ Fields'
  BY <1>1, <1>2 DEF Types, Fields
<1>4. CancelAsked => CancelAsked'
  BY <1>1, ReadRevokes DEF Types
<1>5. Known(r.task) \/ CancelAsked'
  <2>1. 1 \in DOMAIN requests
    BY Taken DEF Types
  <2>2. Known(r.task) \/ Revoked(1)
    BY <2>1 DEF Owners
  <2> QED
    BY <1>1, <2>2, ReadRevokes DEF Types
<1>6. Owners'
  <2>1. MagnetOff' <=> MagnetOff
    BY DEF MagnetOff
  <2>2. \A x : Known(x) <=> Known(x)'
    BY DEF Known, Untold
  <2> QED
    BY <1>2, <1>4, <1>5, <2>1, <2>2, Read DEF Owners, ReleaseComing
<1>7. PhaseKnows'
  BY <1>2 DEF Types, PhaseKnows
<1>8. Fresh'
  BY <1>1, <1>2, Read DEF Fresh, Silent, NoAnswer
<1>9. ASSUME cur # 0, cur \notin fooled PROVE OwnExchange'
  <2>1. OwnExchange
    BY <1>9
  <2>2. /\ NoAnswer(cur)' /\ state # "NAV_TO_DROPOFF"
        /\ \A i \in DOMAIN requests' : requests'[i].cmd \in Modes /\ requests'[i].task = cur =>
             i = Len(requests')
        /\ r.task = cur => requests' = <<>> /\ waiting
    BY <1>1, <1>9, <2>1, Asking DEF NoAnswer
  <2>3. \A i \in DOMAIN requests' : requests' # <<>>
    OBVIOUS
  <2>4. ~waiting => Silent(cur)'
    BY <1>1, <1>2, <2>1, <2>2, Read DEF OwnExchange, Silent
  <2> QED
    BY <1>2, <2>2, <2>3, <2>4 DEF OwnExchange, NoAnswer
<1> QED
  BY <1>3, <1>6, <1>7, <1>8, <1>9

LEMMA RefuseStep ==
  ASSUME IInv, up, requests # <<>>, requests' = Tail(requests), Head(requests).cmd \in Modes,
         Refuse(Head(requests)), UNCHANGED taskVars
  PROVE  IInv'
<1> USE DEF IInv, Refuse, Reply, planVars, armVars, magnetVars, taskVars
<1> DEFINE r == requests[1]
           a == [what |-> "failed", of |-> r.task]
<1>1. /\ Head(requests) = r /\ r \in Request /\ r.task \in Task /\ r.cmd \in Modes
      /\ requests' \in Seq(Request)
  BY Read DEF Request
<1>2. a \in Answer /\ answers' = Append(answers, a) /\ a.of = r.task /\ a.what = "failed"
  BY <1>1 DEF Answer
<1>3. /\ answers' \in Seq(Answer) /\ Len(answers') = Len(answers) + 1 /\ Len(answers) \in Nat
      /\ \A i \in DOMAIN answers' : i = Len(answers) + 1 \/ i \in DOMAIN answers
      /\ \A i \in DOMAIN answers : answers'[i] = answers[i]
      /\ answers'[Len(answers) + 1] = a
  BY <1>2, Added DEF Types
<1> HIDE DEF a
<1>4. \A k : NoAnswer(k) /\ r.task # k => NoAnswer(k)'
  BY <1>2, <1>3 DEF NoAnswer
<1>5. serving = 0 /\ held = 0 /\ plate = 0 /\ MagnetOff'
  BY DEF PhaseKnows, MagnetOff
<1>6. Types' /\ Fields'
  BY <1>1, <1>3 DEF Types, Fields
<1>7. Owners'
  BY <1>5, Read DEF Owners
<1>8. PhaseKnows'
  BY <1>5 DEF PhaseKnows, Fields
<1>9. Fresh'
  BY <1>1, <1>4, Read DEF Fresh, Silent
<1>10. ASSUME cur # 0, cur \notin fooled PROVE OwnExchange'
  <2>1. OwnExchange
    BY <1>10
  <2>2. /\ NoAnswer(cur) /\ state # "NAV_TO_DROPOFF" /\ serving' # cur
        /\ \A i \in DOMAIN requests' : requests'[i].cmd \in Modes /\ requests'[i].task = cur =>
             i = Len(requests')
        /\ r.task = cur => requests' = <<>> /\ waiting
    <3>1. NoAnswer(cur) /\ state # "NAV_TO_DROPOFF" /\ serving' # cur
      BY <1>5, <1>10, <2>1 DEF OwnExchange, Resting, NoAnswer
    <3>2. /\ 1 \in DOMAIN requests /\ Len(requests) \in Nat /\ Len(requests') = Len(requests) - 1
          /\ \A i \in DOMAIN requests' :
               i \in Nat /\ i + 1 \in DOMAIN requests /\ requests'[i] = requests[i + 1]
      BY Taken DEF Types
    <3>3. \A i \in DOMAIN requests' : requests'[i].cmd \in Modes /\ requests'[i].task = cur =>
            i = Len(requests')
      BY <2>1, <3>2 DEF OwnExchange
    <3>4. r.task = cur => requests' = <<>> /\ waiting
      BY <1>1, <2>1, <3>2 DEF OwnExchange, Silent, NoAsk
    <3> QED
      BY <3>1, <3>3, <3>4
  <2>3. ~waiting => Silent(cur)'
    BY <1>1, <1>4, <2>1, <2>2, Read DEF OwnExchange, Silent
  <2>4. \A i \in DOMAIN answers' : answers'[i].of = cur =>
          i = Len(answers') /\ answers'[i].what = "failed" /\ r.task = cur
    BY <1>2, <1>3, <2>2 DEF NoAnswer
  <2>5. \A i \in DOMAIN answers' : answers'[i].of = cur =>
          i = Len(answers') /\ Resting' /\ Says(answers[i].what)'
    BY <1>5, <2>2, <2>4 DEF Resting, Says
  <2>6. \A i \in DOMAIN requests' : requests'[i].cmd \in Modes /\ requests'[i].task = cur =>
          NoAnswer(cur)'
    BY <1>4, <2>2
  <2> QED
    BY <2>2, <2>3, <2>5, <2>6 DEF OwnExchange
<1> QED
  BY <1>6, <1>7, <1>8, <1>9, <1>10

LEMMA DiesStep ==
  ASSUME IInv, Dies, UNCHANGED <<job, queue, cur, state, waiting, left, fooled>>
  PROVE  IInv'
<1> USE DEF IInv, Dies, armVars, magnetVars
<1>1. DOMAIN requests' = {} /\ requests' \in Seq(Request)
  OBVIOUS
<1>2. Types' /\ Fields' /\ Owners'
  BY <1>1 DEF Types, Fields, Owners
<1>3. PhaseKnows'
  BY DEF PhaseKnows, MagnetOff
<1>4. Fresh'
  BY <1>1, 0 \notin Task DEF Fresh, Silent, NoAsk, NoAnswer
<1>5. cur # 0 /\ cur \notin fooled => OwnExchange'
  BY <1>1 DEF OwnExchange, Silent, NoAsk, NoAnswer, Resting, Says, Carrying, Holding, NoDetach,
    Empty, MagnetOff, Known, Untold
<1> QED
  BY <1>2, <1>3, <1>4, <1>5

LEMMA RequestInv == ASSUME IInv, up, OnRequest, UNCHANGED taskVars PROVE IInv'
<1>1. CASE Head(requests).cmd = "cancel" /\ Cancel
  BY <1>1, CancelStep DEF OnRequest
<1>2. CASE Head(requests).cmd \in Modes /\ Begin(Head(requests))
  BY <1>2, BeginStep DEF OnRequest
<1>3. CASE Head(requests).cmd \in Modes /\ Refuse(Head(requests))
  BY <1>3, RefuseStep DEF OnRequest
<1> QED
  BY <1>1, <1>2, <1>3 DEF OnRequest

LEMMA TickInv == ASSUME IInv, up, Tick, UNCHANGED taskVars PROVE IInv'
<1>1. CASE Fail \/ Tuck \/ Acquire \/ Dock \/ Confirm \/ Pre
  BY <1>1, FailStep, TuckStep, AcquireStep, DockStep, ConfirmStep, PreStep
<1>2. CASE Approach \/ Energize \/ Release \/ Withdraw \/ Folded \/ Backout
  BY <1>2, ApproachStep, EnergizeStep, ReleaseStep, WithdrawStep, FoldedStep, BackoutStep
<1> QED
  BY <1>1, <1>2 DEF Tick

----------------------------------------------------------------------------
(* task_manager *)

\* The planner and the magnet are left alone: what they know of each other stays.
LEMMA Alone ==
  ASSUME IInv, UNCHANGED simVars
  PROVE  /\ PhaseKnows' /\ (MagnetOff' <=> MagnetOff) /\ (Empty' <=> Empty)
         /\ (Holding' <=> Holding)
  BY DEF IInv, simVars, planVars, armVars, magnetVars, PhaseKnows, Holding, Empty, NoDetach,
    MagnetOff

\* Task k begins an exchange: nothing of it is under way before.
LEMMA Begins ==
  ASSUME IInv, NEW k \in Task, NEW cmd \in Modes, NEW st \in Exchanging,
         BeginExchange(cmd, st, k), UNCHANGED <<up, simVars, left, job>>,
         answers' \in Seq(Answer), fooled \subseteq fooled', cur \in {0, k},
         \A j : NoAnswer(j) => NoAnswer(j)',
         k \in fooled' \/ (NoAsk(k) /\ serving # k /\ NoAnswer(k)'),
         queue' \subseteq queue, k \notin queue', k \in DOMAIN job
  PROVE  IInv'
<1> USE DEF IInv, BeginExchange, simVars, planVars, armVars, magnetVars
<1> DEFINE r == [cmd |-> cmd, task |-> k]
<1>1. r \in Request /\ r.cmd = cmd /\ r.task = k /\ cmd # "cancel"
  BY DEF Request
<1>2. requests' = IF up THEN Append(requests, r) ELSE requests
  BY DEF Ask, Publish
<1> HIDE DEF r
<1>3. /\ requests' \in Seq(Request)
      /\ \A i \in DOMAIN requests : i \in DOMAIN requests' /\ requests'[i] = requests[i]
      /\ \A i \in DOMAIN requests' : i \in DOMAIN requests \/ (i = Len(requests') /\ requests'[i] = r)
  BY <1>1, <1>2, Added DEF Types
<1>4. /\ CancelAsked => CancelAsked'
      /\ \A i \in DOMAIN requests : Revoked(i) => Revoked(i)'
  BY <1>1, <1>2, SentRevokes DEF Types, CancelAsked, Revoked
<1>5. Types'
  BY <1>3 DEF Types
<1>6. Fields'
  BY <1>2 DEF Fields
<1>7. \A x : x # 0 /\ Known(x) => Known(x)'
  BY DEF Known, Untold
<1>8. Known(k)'
  BY DEF Known
<1>9. Owners'
  <2>1. ASSUME NEW i \in DOMAIN requests'
        PROVE  (Known(requests[i].task) \/ Revoked(i))'
    <3>1. CASE i \in DOMAIN requests
      <4>1. requests[i].task \in Task
        BY <3>1, RequestAt
      <4> QED
        BY <1>3, <1>4, <1>7, <3>1, <4>1 DEF Owners
    <3>2. CASE requests'[i] = r
      BY <1>1, <1>8, <3>2
    <3> QED
      BY <1>3, <3>1, <3>2
  <2> QED
    BY <1>4, <1>7, <2>1, Alone DEF Owners, ReleaseComing
<1>10. \A j : NoAsk(j) /\ j # k => NoAsk(j)'
  BY <1>1, <1>3 DEF NoAsk
<1>11. Fresh'
  BY <1>10 DEF Fresh, Silent, Types
<1>12. ASSUME k \notin fooled'
       PROVE  OwnExchange'
  <2>1. NoAsk(k) /\ serving # k /\ NoAnswer(k)'
    BY <1>12
  <2>2. \A i \in DOMAIN requests' : requests'[i].cmd \in Modes /\ requests'[i].task = k =>
          i = Len(requests')
    BY <1>3, <2>1 DEF NoAsk
  <2> QED
    BY <2>1, <2>2 DEF OwnExchange, NoAnswer
<1> QED
  BY <1>5, <1>6, <1>9, <1>11, <1>12, Alone

\* Task k starts to drive: nothing of it is under way, and on the way to the dropoff
\* its package is.
LEMMA Drives ==
  ASSUME IInv, NEW k \in Task, NEW st \in NavStates, Drive(st, k),
         UNCHANGED <<up, simVars, left, job>>,
         answers' \in Seq(Answer), fooled \subseteq fooled', cur \in {0, k},
         \A j : NoAnswer(j) => NoAnswer(j)',
         k \in fooled' \/ (NoAsk(k) /\ serving # k /\ NoAnswer(k)'),
         k \in fooled' \/ st = "NAV_TO_PICKUP" \/ (Resting /\ Carrying),
         queue' \subseteq queue, k \notin queue', k \in DOMAIN job
  PROVE  IInv'
<1> USE DEF IInv, Drive, simVars, planVars, armVars, magnetVars
<1>1. Types' /\ Fields'
  BY DEF Types, Fields
<1>2. \A x : x # 0 /\ Known(x) => Known(x)'
  BY DEF Known, Untold
<1>3. Owners'
  <2>1. \A i \in DOMAIN requests : requests[i].task # 0
    BY RequestAt
  <2> QED
    BY <1>2, <2>1, Alone DEF Owners, ReleaseComing, CancelAsked, Revoked
<1>4. Fresh'
  BY DEF Fresh, Silent, NoAsk, Types
<1>5. ASSUME k \notin fooled'
      PROVE  OwnExchange'
  <2>1. NoAsk(k) /\ serving # k /\ NoAnswer(k)'
    BY <1>5
  <2>2. st = "NAV_TO_DROPOFF" => Resting' /\ Carrying'
    BY <1>2, <1>5, Alone DEF Resting, Carrying, Holding
  <2> QED
    BY <2>1, <2>2 DEF OwnExchange, NoAnswer, Silent, NoAsk
<1> QED
  BY <1>1, <1>3, <1>4, <1>5, Alone

\* The current task ends without a word to the controller: it ended untold, or the
\* controller has nothing of it.
LEMMA Ends ==
  ASSUME IInv, EndTask, UNCHANGED <<up, requests, simVars, job>>,
         answers' \in Seq(Answer), \A j : NoAnswer(j) => NoAnswer(j)',
         left \subseteq left', fooled \subseteq fooled', queue' \subseteq queue,
         cur \in left' \union fooled' \/ cur = 0 \/ (Resting /\ MagnetOff)
  PROVE  IInv'
<1> USE DEF IInv, EndTask, simVars, planVars, armVars, magnetVars
<1>1. Types' /\ Fields'
  BY DEF Types, Fields
<1>2. Owners'
  <2>1. CASE cur \in left' \union fooled' \/ cur = 0
    <3>1. \A x : x # 0 /\ Known(x) => Known(x)'
      BY <2>1 DEF Known, Untold
    <3>2. \A i \in DOMAIN requests : requests[i].task # 0
      BY RequestAt
    <3> QED
      BY <3>1, <3>2, Alone DEF Owners, ReleaseComing, CancelAsked, Revoked
  <2>2. CASE Resting /\ MagnetOff
    BY <2>2, Alone DEF Owners, ReleaseComing, Resting
  <2> QED
    BY <2>1, <2>2
<1>3. Fresh'
  <2>1. 0 \notin queue
    BY DEF Fresh, Types
  <2>2. \A k \in Task : k \in queue' \/ k > Len(job') => Silent(k)'
    BY DEF Fresh, Silent, NoAsk
  <2> QED
    BY <2>1, <2>2 DEF Fresh
<1> QED
  BY <1>1, <1>2, <1>3, Alone

\* The current task ends with a cancel to the controller, if there is one.
LEMMA Cancelled ==
  ASSUME IInv, cur # 0, Ask("cancel", cur), EndTask,
         UNCHANGED <<up, answers, simVars, job, left, fooled>>, queue' \subseteq queue
  PROVE  IInv'
<1> USE DEF IInv, EndTask, simVars, planVars, armVars, magnetVars
<1> DEFINE r == [cmd |-> "cancel", task |-> cur]
<1>1. r \in Request /\ r.cmd = "cancel"
  BY DEF Request, Types
<1>2. requests' = IF up THEN Append(requests, r) ELSE requests
  BY DEF Ask, Publish
<1> HIDE DEF r
<1>3. /\ requests' \in Seq(Request)
      /\ \A i \in DOMAIN requests' :
           (i \in DOMAIN requests /\ requests'[i] = requests[i]) \/ requests'[i] = r
  BY <1>1, <1>2, Added DEF Types
<1>4. Types' /\ Fields'
  BY <1>2, <1>3 DEF Types, Fields
<1>5. Owners'
  <2>1. CASE up
    BY <1>1, <1>2, <2>1, SentRevokes DEF Owners, ReleaseComing, Types
  <2>2. CASE ~up
    BY <1>2, <2>2 DEF Owners, Fields
  <2> QED
    BY <2>1, <2>2
<1>6. Fresh'
  <2>1. \A j : NoAsk(j) => NoAsk(j)'
    BY <1>1, <1>3 DEF NoAsk
  <2> QED
    BY <2>1 DEF Fresh, Silent, NoAnswer
<1> QED
  BY <1>4, <1>5, <1>6, Alone

\* Nothing changes but what waits, and tasks that have not begun.
LEMMA Waits ==
  ASSUME IInv, UNCHANGED <<pickerVars, cur, state, waiting, left, fooled>>,
         job' \in Seq(Shape), Len(job) <= Len(job'),
         queue' \subseteq DOMAIN job',
         \A k \in queue' : k \in queue \/ k > Len(job)
  PROVE  IInv'
<1> USE DEF IInv, pickerVars, reqVars, planVars, armVars, magnetVars
<1>1. Types' /\ Fields'
  BY DEF Types, Fields
<1>2. Owners' /\ PhaseKnows'
  BY DEF Owners, Known, Untold, ReleaseComing, CancelAsked, Revoked, PhaseKnows, Holding, Empty,
    NoDetach, MagnetOff
<1>3. Fresh'
  <2>1. /\ Len(job) \in Nat /\ Len(job') \in Nat /\ DOMAIN job = 1 .. Len(job)
        /\ DOMAIN job' = 1 .. Len(job')
    BY DEF Types
  <2>2. \A k \in Task : k \in queue' \/ k > Len(job') => Silent(k)'
    BY <2>1 DEF Fresh, Silent, NoAsk, NoAnswer
  <2>3. cur \in DOMAIN job' \union {0} /\ cur \notin queue'
    BY <2>1 DEF Fresh
  <2> QED
    BY <2>2, <2>3 DEF Fresh
<1>4. OwnExchange => OwnExchange'
  BY DEF OwnExchange, Silent, NoAsk, NoAnswer, Resting, Says, Carrying, Holding, NoDetach, Empty,
    MagnetOff, Known, Untold
<1> QED
  BY <1>1, <1>2, <1>3, <1>4

LEMMA DispatchInv == ASSUME IInv, NEW s \in Shapes, OnDispatch(s) PROVE IInv'
<1> USE DEF OnDispatch
<1>1. job \in Seq(Shape) /\ s \in Shape
  BY ExchangeAssumption DEF IInv, Types
<1>2. /\ job' \in Seq(Shape) /\ Len(job') = Len(job) + 1 /\ Len(job) \in Nat
      /\ \A i \in DOMAIN job : i \in DOMAIN job'
      /\ Len(job) + 1 \in DOMAIN job'
  BY <1>1, Added
<1>3. queue \subseteq DOMAIN job
  BY DEF IInv, Fresh
<1> QED
  BY <1>2, <1>3, Waits

LEMMA PopInv == ASSUME IInv, NEW k \in Task, Pop(k) PROVE IInv'
<1> USE DEF Pop
<1>1. cur = 0 /\ Silent(k) /\ k \in DOMAIN job
  BY DEF IInv, Fields, Fresh
<1>2. answers' \in Seq(Answer) /\ \A j : NoAnswer(j) => NoAnswer(j)'
  BY DEF IInv, Types, NoAnswer
<1>3. CASE Drive("NAV_TO_PICKUP", k)
  BY <1>1, <1>2, <1>3, Drives DEF Silent
<1>4. CASE BeginPick(k)
  BY <1>1, <1>2, <1>4, Begins DEF Silent, BeginPick
<1> QED
  BY <1>3, <1>4

LEMMA NavInv == ASSUME IInv, NavEnds PROVE IInv'
<1> USE DEF NavEnds
<1>1. cur \in Task /\ ~waiting /\ cur \in DOMAIN job /\ cur \notin queue
  BY DEF IInv, Types, Fields, Fresh
<1>2. cur \in fooled \/ Silent(cur)
  BY <1>1 DEF IInv, OwnExchange
<1>3. answers' \in Seq(Answer) /\ \A j : NoAnswer(j) => NoAnswer(j)'
  BY DEF IInv, Types, NoAnswer
<1>4. CASE BeginPick(cur) /\ UNCHANGED left
  BY <1>1, <1>2, <1>3, <1>4, Begins DEF Silent, BeginPick
<1>5. CASE BeginPlace(cur) /\ UNCHANGED left
  BY <1>1, <1>2, <1>3, <1>5, Begins DEF Silent, BeginPlace
<1>6. CASE EndTask /\ left' = left \union {cur} /\ UNCHANGED requests
  BY <1>3, <1>6, Ends
<1> QED
  BY <1>4, <1>5, <1>6

\* An answer is read.
LEMMA Heard ==
  ASSUME IInv, answers # <<>>, answers' = Tail(answers)
  PROVE  /\ answers' \in Seq(Answer) /\ answers[1] \in Answer /\ Head(answers) = answers[1]
         /\ \A j : NoAnswer(j) => NoAnswer(j)'
         /\ OwnExchange /\ answers[1].of = cur =>
              Resting /\ Says(answers[1].what) /\ answers' = <<>>
<1>1. /\ answers \in Seq(Answer) /\ 1 \in DOMAIN answers /\ Len(answers) \in Nat
      /\ answers[1] \in Answer /\ Head(answers) = answers[1]
      /\ answers' \in Seq(Answer) /\ Len(answers') = Len(answers) - 1
      /\ \A i \in DOMAIN answers' : i + 1 \in DOMAIN answers /\ answers'[i] = answers[i + 1]
  BY Taken DEF IInv, Types
<1>2. \A j : NoAnswer(j) => NoAnswer(j)'
  BY <1>1 DEF NoAnswer
<1>3. OwnExchange /\ answers[1].of = cur => Resting /\ Says(answers[1].what) /\ answers' = <<>>
  BY <1>1 DEF OwnExchange
<1> QED
  BY <1>1, <1>2, <1>3

\* The answer that the waiting task takes is its own, or it is fooled.
LEMMA Takes ==
  ASSUME IInv, answers # <<>>, answers' = Tail(answers), waiting,
         fooled' = fooled \union ({cur} \ {Head(answers).of})
  PROVE  /\ cur \in Task /\ cur \in DOMAIN job /\ cur \notin queue
         /\ \/ cur \in fooled'
            \/ /\ Resting /\ Says(Head(answers).what)
               /\ NoAsk(cur) /\ serving # cur /\ NoAnswer(cur)'
<1>1. cur \in Task /\ cur \in DOMAIN job /\ cur \notin queue
  BY DEF IInv, Types, Fields, Fresh
<1>2. ASSUME cur \notin fooled'
      PROVE  Resting /\ Says(Head(answers).what) /\ answers' = <<>>
  BY <1>1, <1>2, Heard DEF IInv
<1>3. ASSUME cur \notin fooled'
      PROVE  NoAsk(cur) /\ serving # cur /\ NoAnswer(cur)'
  BY <1>1, <1>2, <1>3 DEF Resting, NoAsk, NoAnswer
<1> QED
  BY <1>1, <1>2, <1>3

LEMMA ResultInv == ASSUME IInv, OnPickResult PROVE IInv'
<1> USE DEF OnPickResult
<1>1. answers' \in Seq(Answer) /\ \A j : NoAnswer(j) => NoAnswer(j)'
  BY Heard
<1>2. ASSUME waiting, Failed \/ Picked \/ Placed,
             fooled' = fooled \union ({cur} \ {Head(answers).of})
      PROVE  IInv'
  <2>1. /\ cur \in Task /\ cur \in DOMAIN job /\ cur \notin queue
        /\ \/ cur \in fooled'
           \/ /\ Resting /\ Says(Head(answers).what)
              /\ NoAsk(cur) /\ serving # cur /\ NoAnswer(cur)'
    BY <1>2, Takes
  <2>2. fooled \subseteq fooled'
    BY <1>2
  <2>3. Empty => MagnetOff
    BY DEF Empty, MagnetOff
  <2>4. CASE Failed
    BY <1>1, <2>1, <2>2, <2>4, Ends DEF Failed, Says
  <2>5. CASE Placed
    BY <1>1, <2>1, <2>2, <2>3, <2>5, Ends DEF Placed, Says
  <2>6. CASE Head(answers).what = "picked" /\ EndTask /\ left' = left \union {cur}
             /\ UNCHANGED requests
    BY <1>1, <2>2, <2>6, Ends
  <2>7. CASE Head(answers).what = "picked" /\ Drive("NAV_TO_DROPOFF", cur) /\ UNCHANGED left
    <3>1. PICK k \in Task : k = cur
      BY <2>1
    <3>2. /\ k \in DOMAIN job /\ k \notin queue' /\ cur' = cur /\ Drive("NAV_TO_DROPOFF", k)
          /\ "NAV_TO_DROPOFF" \in NavStates /\ UNCHANGED <<up, simVars, left, job>>
      BY <2>1, <2>7, <3>1 DEF Drive
    <3>3. k \in fooled' \/ (NoAsk(k) /\ serving # k /\ NoAnswer(k)' /\ Resting /\ Carrying)
      BY <2>1, <2>7, <3>1, <3>2 DEF Says, NoAnswer
    <3> QED
      BY <1>1, <2>2, <3>1, <3>2, <3>3, Drives
  <2>8. CASE BeginPlace(cur) /\ UNCHANGED left
    <3>1. PICK k \in Task : k = cur
      BY <2>1
    <3>2. /\ k \in DOMAIN job /\ k \notin queue' /\ cur' = cur
          /\ BeginExchange("detach", "PLACING", k)
          /\ "detach" \in Modes /\ "PLACING" \in Exchanging /\ UNCHANGED <<up, simVars, left, job>>
      BY <2>1, <2>8, <3>1 DEF BeginPlace, BeginExchange
    <3>3. k \in fooled' \/ (NoAsk(k) /\ serving # k /\ NoAnswer(k)')
      BY <2>1, <2>8, <3>1, <3>2 DEF NoAnswer
    <3> QED
      BY <1>1, <2>2, <3>1, <3>2, <3>3, Begins
  <2> QED
    BY <1>2, <2>4, <2>5, <2>6, <2>7, <2>8 DEF Picked
<1>3. ASSUME UNCHANGED <<requests, cur, state, waiting, left, fooled>>
      PROVE  IInv'
  <2> USE <1>3 DEF IInv, simVars, planVars, armVars, magnetVars
  <2>1. Types' /\ Fields' /\ Fresh'
    BY <1>1 DEF Types, Fields, Fresh, Silent, NoAsk
  <2>2. Owners'
    BY Alone DEF Owners, Known, Untold, ReleaseComing, CancelAsked, Revoked
  <2>3. ASSUME cur # 0, cur \notin fooled PROVE OwnExchange'
    <3>1. OwnExchange
      BY <2>3
    <3>2. /\ Len(answers') = Len(answers) - 1 /\ Len(answers) \in Nat
          /\ \A i \in DOMAIN answers' :
               i \in Nat /\ i + 1 \in DOMAIN answers /\ answers'[i] = answers[i + 1]
      BY Taken DEF Types
    <3>3. \A i \in DOMAIN answers' : answers'[i].of = cur =>
            i = Len(answers') /\ Resting' /\ Says(answers[i].what)'
      BY <3>1, <3>2, Alone DEF OwnExchange, Resting, Says, Carrying, Known, Untold
    <3>4. state = "NAV_TO_DROPOFF" => Resting' /\ Carrying'
      BY <3>1, Alone DEF OwnExchange, Resting, Carrying, Known, Untold
    <3> QED
      BY <1>1, <3>1, <3>3, <3>4 DEF OwnExchange, Silent, NoAsk
  <2> QED
    BY <2>1, <2>2, <2>3, Alone
<1> QED
  BY <1>2, <1>3

LEMMA CancelInv == ASSUME IInv, NEW ks \in SUBSET DOMAIN job, OnCancel(ks) PROVE IInv'
<1> USE DEF OnCancel
<1>1. cur \in ks => cur # 0
  BY DEF IInv, Types
<1>2. CASE cur \in ks /\ StopCurrent /\ waiting
  BY <1>1, <1>2, Cancelled DEF StopCurrent
<1>3. CASE cur \in ks /\ StopCurrent /\ ~waiting
  <2>1. answers' \in Seq(Answer) /\ \A j : NoAnswer(j) => NoAnswer(j)'
    BY DEF IInv, Types, NoAnswer
  <2> QED
    BY <1>3, <2>1, Ends DEF StopCurrent
<1>4. CASE UNCHANGED <<requests, cur, state, waiting, left, fooled>>
  BY <1>4, Waits DEF simVars, pickerVars, reqVars, IInv, Types, Fresh
<1> QED
  BY <1>2, <1>3, <1>4

LEMMA RestartInv == ASSUME IInv, Restart PROVE IInv'
<1>1. answers' \in Seq(Answer) /\ \A j : NoAnswer(j)'
  BY DEF Restart, NoAnswer
<1> QED
  BY <1>1, Ends DEF Restart

----------------------------------------------------------------------------
LEMMA InitInv == Init => IInv
<1> SUFFICES ASSUME Init PROVE IInv
  OBVIOUS
<1> USE DEF Init, PickerInit
<1>1. DOMAIN requests = {} /\ DOMAIN cmds = {} /\ DOMAIN answers = {} /\ DOMAIN job = {}
  OBVIOUS
<1>2. Types
  <2>1. power \in BOOLEAN
    OBVIOUS
  <2>2. /\ requests \in Seq(Request) /\ answers \in Seq(Answer) /\ cmds \in Seq(Modes)
        /\ job \in Seq(Shape)
    OBVIOUS
  <2> QED
    BY <2>1, <2>2 DEF Types
<1>3. Fields /\ Owners
  BY <1>1 DEF Fields, Owners
<1>4. PhaseKnows
  BY <1>1 DEF PhaseKnows, MagnetOff
<1>5. Fresh
  BY <1>1 DEF Fresh, Silent, NoAsk, NoAnswer
<1> QED
  BY <1>2, <1>3, <1>4, <1>5 DEF IInv

LEMMA NextInv == ASSUME IInv, [Next]_vars PROVE IInv'
<1>1. CASE \E s \in Shapes : OnDispatch(s)
  BY <1>1, DispatchInv
<1>2. CASE \E k \in Task : Pop(k)
  BY <1>2, PopInv
<1>3. CASE NavEnds \/ OnPickResult \/ Restart
  BY <1>3, NavInv, ResultInv, RestartInv
<1>4. CASE GiveUp
  <2>1. cur # 0
    BY <1>4 DEF GiveUp, IInv, Fields
  <2> QED
    BY <1>4, <2>1, Cancelled DEF GiveUp
<1>5. CASE \E ks \in {{k} : k \in DOMAIN job} \union {DOMAIN job} : OnCancel(ks)
  BY <1>5, CancelInv
<1>6. CASE up /\ (OnRequest \/ Tick) /\ UNCHANGED taskVars
  BY <1>6, RequestInv, TickInv
<1>7. CASE Dies /\ UNCHANGED <<job, queue, cur, state, waiting, left, fooled>>
  BY <1>7, DiesStep
<1>8. CASE SimStep /\ UNCHANGED taskVars
  BY <1>8, SimInv
<1>9. CASE UNCHANGED vars
  BY <1>9, Waits DEF vars, taskVars, IInv, Types, Fresh
<1> QED
  BY <1>1, <1>2, <1>3, <1>4, <1>5, <1>6, <1>7, <1>8, <1>9 DEF Next, ControllerStep

\* The inductive invariant holds throughout, for any constants.
THEOREM PickInvariant == Spec => []IInv
<1>1. IInv /\ [Next]_vars => IInv'
  BY NextInv
<1> QED
  BY InitInv, <1>1, PTL DEF Spec

\* No package is forgotten on the magnet by a cancel, a deadline, a failure, a
\* restart of task_manager or a dead Nav2 goal.
THEOREM NoPackageForgotten == Spec => []BoxAccountedFor
<1>1. IInv => BoxAccountedFor
  BY DEF IInv, Owners, Known, BoxAccountedFor
<1> QED
  BY <1>1, PickInvariant, PTL

LEMMA AnswersTold == ASSUME IInv PROVE AnswersAreTrue
<1> USE DEF IInv
<1>1. phase = "backout" => arm = "tucked" /\ (held # 0 <=> mode = "attach")
  BY DEF PhaseKnows, Holding, Empty
<1>2. ASSUME cur # 0, cur \notin fooled, NEW what, Answered(what, cur)
      PROVE  Says(what)
  <2>1. PICK i \in DOMAIN answers : answers[i] = [what |-> what, of |-> cur]
    BY <1>2 DEF Answered
  <2> QED
    BY <1>2, <2>1 DEF OwnExchange
<1>3. ASSUME cur # 0, cur \notin fooled
      PROVE  /\ Answered("picked", cur) => held \in {cur} \union Untold
             /\ Answered("placed", cur) => held = 0
  BY <1>2, <1>3 DEF Says, Carrying, Known, Empty
<1> QED
  BY <1>1, <1>3 DEF AnswersAreTrue

\* "picked" and "placed" are true when they are sent, and when they reach their task.
THEOREM AnswersTrue == Spec => []AnswersAreTrue
<1>1. IInv => AnswersAreTrue
  BY AnswersTold
<1> QED
  BY <1>1, PickInvariant, PTL

LEMMA DrivingKnown == ASSUME IInv PROVE DrivesAlone
<1> USE DEF IInv
<1>1. ASSUME state \in NavStates
      PROVE  /\ serving = 0 \/ serving \in Untold \/ CancelAsked
             /\ \A i \in DOMAIN requests : requests[i].task \in Untold \/ Revoked(i)
  <2>1. cur # 0 /\ ~waiting
    BY <1>1 DEF Fields
  <2>2. cur \in Untold \/ (NoAsk(cur) /\ serving # cur)
    BY <2>1 DEF OwnExchange, Silent, Untold
  <2>3. serving = 0 \/ serving \in Untold \/ CancelAsked
    BY <2>2 DEF Owners, Known
  <2>4. ASSUME NEW i \in DOMAIN requests
        PROVE  requests[i].task \in Untold \/ Revoked(i)
    <3>1. requests[i].cmd = "cancel" => Revoked(i)
      BY <2>4 DEF Revoked, Types
    <3>2. requests[i].cmd \in Modes \union {"cancel"}
      BY <2>4, RequestAt
    <3> QED
      BY <2>2, <2>4, <3>1, <3>2 DEF Owners, Known, NoAsk
  <2> QED
    BY <2>3, <2>4
<1>2. ASSUME state = "NAV_TO_DROPOFF", cur \notin fooled
      PROVE  /\ arm = "tucked" /\ serving = 0 /\ requests = <<>>
             /\ held \in {cur} \union Untold
  BY <1>2 DEF Fields, OwnExchange, Resting, Carrying, Known
<1> QED
  BY <1>1, <1>2 DEF DrivesAlone

\* Nav2 and the planner never drive against each other for longer than a cancel
\* takes, and a package is carried with the arm tucked.
THEOREM NavDrivesAlone == Spec => []DrivesAlone
<1>1. IInv => DrivesAlone
  BY DrivingKnown
<1> QED
  BY <1>1, PickInvariant, PTL
=============================================================================
