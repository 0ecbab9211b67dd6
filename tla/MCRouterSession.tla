-------------------------- MODULE MCRouterSession --------------------------
(***************************************************************************)
(* Constants of RouterSession for TLC.                                       *)
(***************************************************************************)
EXTENDS RouterSession

\* Three segments one way and a keepalive the other; one in the next session.
MCSeq == [there |-> [e \in 0 .. 2 |-> IF e = 0 THEN 3 ELSE 1],
          back |-> [e \in 0 .. 2 |-> IF e = 0 THEN 1 ELSE 0]]

\* One segment is sent again, and at most one fault happens.
MCBudgets == {[k \in RadioEvents |-> IF k \in {"rto", fault} THEN 1 ELSE 0] :
                 fault \in {"loss", "delay", "death"}}
=============================================================================
