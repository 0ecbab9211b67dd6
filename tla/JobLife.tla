------------------------------ MODULE JobLife ------------------------------
(* What the splat worker promises about the jobs it is given                *)
(* (src/splat/worker.py:3-31, 249-251): one at a time, first in first out,  *)
(* every job ends once, and a restart keeps what had finished.  SplatQueue  *)
(* implements it.  Jobs are numbered in the order they were submitted.      *)
EXTENDS Naturals

CONSTANT MaxJobs   \* the jobs are 1..MaxJobs

VARIABLE phase

Jobs == 1..MaxJobs
Ended == {"done", "failed", "cancelled"}
Phases == Ended \union {"new", "queued", "running", "limbo", "lost"}

JInit == phase = [j \in Jobs |-> "new"]

Move(j, from, to) == /\ phase[j] = from
                     /\ phase' = [phase EXCEPT ![j] = to]

\* Jobs arrive one by one and keep their order.
Accept(j) == /\ \A i \in Jobs : i < j => phase[i] # "new"
             /\ Move(j, "new", "queued")

\* One job at a time, the oldest of those waiting.
Begin(j) == /\ \A i \in Jobs : phase[i] # "running"
            /\ \A i \in Jobs : phase[i] = "queued" => j <= i
            /\ Move(j, "queued", "running")

\* A waiting job can be withdrawn; a running one ends with one outcome.
Withdraw(j) == Move(j, "queued", "cancelled")
Finish(j) == \E r \in Ended : Move(j, "running", r)

\* Nobody works on a job any more and its outcome is not on record.
GiveUp(j) == \E from \in {"queued", "running"} : Move(j, from, "limbo")

\* Several jobs move at once.
Jump(p, q, j) == phase[j] \in p /\ phase'[j] \in q
Stay(j) == phase'[j] = phase[j]

\* The worker process is stopped; a job in hand may have its outcome already.
Halt == /\ phase' \in [Jobs -> Phases]
        /\ \A j \in Jobs : Stay(j) \/ Jump({"queued", "running"}, {"limbo"}, j)
                                   \/ Jump({"running"}, Ended, j)

\* The worker is started again: what was in limbo has some outcome, or left no
\* record at all.  What had ended is as it was.
Recall == /\ phase' \in [Jobs -> Phases]
          /\ \A j \in Jobs : Stay(j) \/ Jump({"limbo"}, Ended \union {"lost"}, j)

JNext == \/ \E j \in Jobs : Accept(j) \/ Begin(j) \/ Withdraw(j) \/ Finish(j) \/ GiveUp(j)
         \/ Halt
         \/ Recall

JSpec == JInit /\ [][JNext]_phase
=============================================================================
