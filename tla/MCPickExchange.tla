--------------------------- MODULE MCPickExchange ---------------------------
(***************************************************************************)
(* Constants of PickExchange for TLC.                                        *)
(***************************************************************************)
EXTENDS PickExchange

\* Picked and placed on the spot; driven between pick and place; driven to the
\* pickup and over once the package is on the magnet.
Stay == [pickup |-> FALSE, dropoff |-> FALSE, place |-> TRUE]
MCShapes == {Stay, [Stay EXCEPT !.dropoff = TRUE], [Stay EXCEPT !.pickup = TRUE, !.place = FALSE]}
StayShapes == {Stay}

Nothing == [e \in PickEvents |-> 0]
MCBudgets == {[Nothing EXCEPT !.cancel = 1, ![e] = 1] : e \in {"navfail", "restart", "die"}}
CancelBudgets == {[Nothing EXCEPT !.cancel = 1]}
=============================================================================
