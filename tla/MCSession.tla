----------------------------- MODULE MCSession ------------------------------
(* Two requests for one session and a third for either, which is every way  *)
(* to direct three requests at two sessions up to the names of both.        *)
EXTENDS Session

Third == CHOOSE q \in Requests : TRUE
First == CHOOSE s \in Sessions : TRUE

MCSessionInit ==
    SessionInit /\ \A q \in Requests \ {Third} : target[q] = First

MCSessionSpec ==
    MCSessionInit /\ [][SessionNext]_sessionVars /\ SessionFairness
=============================================================================
