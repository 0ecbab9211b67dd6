--------------------------- MODULE SessionChannel ---------------------------
(***************************************************************************)
(* What a router-to-router session promises the application                  *)
(* (commsim/des/sim.py, Flow): per direction, the messages it accepted reach *)
(* the other side in order, each once, without a gap; when the session is    *)
(* torn down, what has not arrived is lost, and nothing of it is seen in a    *)
(* later session.  Messages are numbered per session and direction.          *)
(***************************************************************************)
EXTENDS Naturals, Sequences

CONSTANT Dir

VARIABLES
    session,   \* how often the session was torn down or opened
    sent,      \* per direction, how many messages it accepted
    got        \* per direction, the messages handed to the application

chanVars == <<session, sent, got>>

\* Messages a + 1 .. b, in order.
Run(a, b) == [i \in 1 .. b - a |-> a + i]

ChanInit ==
    /\ session = 0
    /\ sent = [d \in Dir |-> 0]
    /\ got = [d \in Dir |-> <<>>]

Accept(d) ==
    /\ sent' = [sent EXCEPT ![d] = @ + 1]
    /\ UNCHANGED <<session, got>>

HandOver(d) ==
    /\ \E n \in Len(got[d]) + 1 .. sent[d] :
          got' = [got EXCEPT ![d] = @ \o Run(Len(@), n)]
    /\ UNCHANGED <<session, sent>>

NextSession ==
    /\ session' = session + 1
    /\ sent' = [d \in Dir |-> 0]
    /\ got' = [d \in Dir |-> <<>>]

ChanNext == NextSession \/ \E d \in Dir : Accept(d) \/ HandOver(d)

Channel == ChanInit /\ [][ChanNext]_chanVars
=============================================================================
