--------------------------- MODULE MCTaskAuction ---------------------------
(* Constants of the model-checking runs of TaskAuction. *)
EXTENDS TaskAuction

\* The environment of each run: what it may do, and how often.
Nothing == [e \in Events |-> 0]
AuctionBudget == [Nothing EXCEPT !["announce"] = 1, !["full"] = 1]
WorkBudget == [Nothing EXCEPT !["announce"] = 1, !["reannounce"] = 1, !["withdraw"] = 1,
                              !["commit"] = 1, !["complete"] = 1, !["fail"] = 1, !["cancel"] = 1]
SplitBudget == [Nothing EXCEPT !["announce"] = 1, !["split"] = 1]
RecoveryBudget == [Nothing EXCEPT !["announce"] = 1, !["commit"] = 1, !["fault"] = 1]
=============================================================================
