--------------------------- MODULE MCEventFanout ----------------------------
(* Two runs at a time, one of them with an event between the first and the  *)
(* last, and two clients: one has subscribed to run "a" before the runs     *)
(* begin, the other comes, replays and goes as it likes.                    *)
EXTENDS EventFanout

CONSTANT Listener   \* the client that is there before the runs

MCFinal == [r \in Runs |-> IF r = "a" THEN 3 ELSE 2]

MCScopes == {Runs, {"a"}}

\* One event of each run.
MCRefused == {<<"a", 2>>, <<"b", 1>>}

\* The state after Subscribe(Listener, {"a"}).
MCFanoutInit ==
    /\ RunsInit /\ ClientsInit
    /\ subscriptions = {[conn |-> Listener, scope |-> {"a"}, since |-> published]}

MCFanoutSpec == MCFanoutInit /\ [][FanoutNext]_fanoutVars /\ FanoutFairness
=============================================================================
