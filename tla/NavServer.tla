----------------------------- MODULE NavServer -----------------------------
(* Nav2's navigate_to_pose action server as its two clients use it, the     *)
(* explorer and task_manager: a new goal preempts the one that runs, and    *)
(* the answer, the result and a cancel are messages of their own.  External *)
(* code: what it may do is taken from what the clients' code and comments   *)
(* expect of it (nodes/explorer.py, nodes/task_manager.py).                 *)
EXTENDS Naturals, FiniteSets

CONSTANTS
  MaxGoals,   \* bound: goals the explorer ever sends
  MaxTasks    \* bound: tasks ever dispatched; the goal of a task has its number

ASSUME NavAssumption == MaxGoals \in Nat \ {0} /\ MaxTasks \in Nat

VARIABLES
  at,      \* where each goal is
  answer,  \* accepted or rejected, not yet read by the client
  result,  \* how the goal ended, not yet read
  kill,    \* the goals whose cancel is on the way
  navup    \* bt_navigator is active

navVars == <<at, answer, result, kill, navup>>

Own == 1..MaxGoals                                 \* the explorer's goals
Tasks == (MaxGoals + 1)..(MaxGoals + MaxTasks)
Goals == Own \union Tasks

NavTypeOK == /\ at \in [Goals -> {"none", "sent", "active", "over"}]
             /\ answer \in [Goals -> {"none", "yes", "no"}]
             /\ result \in [Goals -> {"none", "good", "bad"}]
             /\ kill \subseteq Goals /\ navup \in BOOLEAN

NavInit == /\ at = [g \in Goals |-> "none"]
           /\ answer = [g \in Goals |-> "none"] /\ result = [g \in Goals |-> "none"]
           /\ kill = {} /\ navup = FALSE

Active == {g \in Goals : at[g] = "active"}

\* The active goals in s end, badly.
Ended(s) == /\ at' = [g \in Goals |-> IF g \in s THEN "over" ELSE at[g]]
            /\ result' = [g \in Goals |-> IF g \in s THEN "bad" ELSE result[g]]

\* One client's requests arrive in the order they were sent.
Arrives(g) == at[g] = "sent" /\ \A h \in Own : h < g /\ g \in Own => at[h] # "sent"

\* "the action server exists before the BT is ready".
NavComesUp == ~navup /\ navup' = TRUE /\ UNCHANGED <<at, answer, result, kill>>

NavAccepts(g) == /\ Arrives(g) /\ navup
                 /\ at' = [h \in Goals |-> IF h = g THEN "active"
                                           ELSE IF h \in Active THEN "over" ELSE at[h]]
                 /\ result' = [h \in Goals |-> IF h \in Active THEN "bad" ELSE result[h]]
                 /\ answer' = [answer EXCEPT ![g] = "yes"]
                 /\ UNCHANGED <<kill, navup>>

NavRejects(g) == /\ Arrives(g) /\ ~navup
                 /\ at' = [at EXCEPT ![g] = "over"]
                 /\ answer' = [answer EXCEPT ![g] = "no"]
                 /\ UNCHANGED <<result, kill, navup>>

NavEnds(g) == /\ g \in Active
              /\ at' = [at EXCEPT ![g] = "over"]
              /\ \E r \in {"good", "bad"} : result' = [result EXCEPT ![g] = r]
              /\ UNCHANGED <<answer, kill, navup>>

\* A cancel that comes late may hit the goal that runs by then: bt_navigator
\* "doesn't appear to verify the goal_id still matches".
NavCancels(g) == /\ g \in kill /\ kill' = kill \ {g}
                 /\ \/ g \in Active /\ Ended({g})
                    \/ g \notin Active /\ Ended(Active)
                    \/ g \notin Active /\ UNCHANGED <<at, result>>
                 /\ UNCHANGED <<answer, navup>>

Nav(g) == NavAccepts(g) \/ NavRejects(g) \/ NavEnds(g) \/ NavCancels(g)
=============================================================================
