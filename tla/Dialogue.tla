------------------------------ MODULE Dialogue ------------------------------
(***************************************************************************)
(* What a session promises its clients: one exchange (a user's message and *)
(* the run that answers it) at a time, no exchange once it is closed, and  *)
(* nothing that was said ever forgotten, not even when the daemon dies.    *)
(***************************************************************************)
CONSTANTS Sessions, Requests

VARIABLES phase,   \* "absent", "open" or "closed": the session as clients see it
          turn,    \* the requests whose exchange is going on
          said     \* what was said: <<request, "user">> and <<request, "run">>

dialogueVars == <<phase, turn, said>>

DialogueInit ==
    /\ phase = [s \in Sessions |-> "absent"]
    /\ turn = [s \in Sessions |-> {}]
    /\ said = [s \in Sessions |-> {}]

Open(s) ==
    /\ phase[s] = "absent" /\ said[s] = {}
    /\ phase' = [phase EXCEPT ![s] = "open"]
    /\ UNCHANGED <<turn, said>>

Say(s, q) ==
    /\ phase[s] = "open" /\ turn[s] = {}
    /\ <<q, "user">> \notin said[s]
    /\ turn' = [turn EXCEPT ![s] = {q}]
    /\ said' = [said EXCEPT ![s] = @ \cup {<<q, "user">>}]
    /\ UNCHANGED phase

\* The reply of the run; that of a one-shot session also closes it.
Reply(s, q) ==
    /\ turn[s] = {q}
    /\ turn' = [turn EXCEPT ![s] = {}]
    /\ said' = [said EXCEPT ![s] = @ \cup {<<q, "run">>}]
    /\ \/ UNCHANGED phase
       \/ phase[s] = "open" /\ phase' = [phase EXCEPT ![s] = "closed"]

GiveUp(s) ==
    /\ turn' = [turn EXCEPT ![s] = {}]
    /\ UNCHANGED <<phase, said>>

Close(s) ==
    /\ phase[s] # "absent" /\ turn[s] = {}
    /\ phase' = [phase EXCEPT ![s] = "closed"]
    /\ UNCHANGED <<turn, said>>

\* The daemon dies: no session survives in memory.
Vanish ==
    /\ phase' = [s \in Sessions |-> "absent"]
    /\ turn' = [s \in Sessions |-> {}]
    /\ UNCHANGED said

DialogueNext ==
    \/ \E s \in Sessions :
          \/ Open(s) \/ GiveUp(s) \/ Close(s)
          \/ \E q \in Requests : Say(s, q) \/ Reply(s, q)
    \/ Vanish

DialogueSpec == DialogueInit /\ [][DialogueNext]_dialogueVars
=============================================================================
