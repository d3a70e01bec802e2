--------------------------------- MODULE Cli ---------------------------------
(***************************************************************************)
(* kama chat (cli/commands/chat.py), which reads a line, does what it says *)
(* and waits for the reply before it reads the next one, and kama run      *)
(* (cli/commands/run.py), which starts a run and waits for run.finished.   *)
(***************************************************************************)
EXTENDS Service

VARIABLES
    stage,    \* the await the command stopped at
    shown,    \* pending_permission_id of kama chat
    finished  \* kama run has seen run.finished

cliVars == <<stage, shown, finished>>

CliTypeOK ==
    /\ stage \in {"off", "subscribing", "creating", "reading", "sending",
                  "responding", "closing", "starting", "waiting", "over"}
    /\ shown \in Asks \cup {"none"}
    /\ finished \in BOOLEAN

CliInit == stage = "off" /\ shown = "none" /\ finished = FALSE

-----------------------------------------------------------------------------

\* The command each stage waits for.
Awaits(c) ==
    \/ stage = "subscribing" /\ c = "subscribe"
    \/ stage = "creating"    /\ c = "create"
    \/ stage = "sending"     /\ c \in Sends
    \/ stage = "responding"  /\ c = "respond"
    \/ stage = "closing"     /\ c = "close"
    \/ stage = "starting"    /\ c = "run"

CliStart ==
    /\ stage = "off"
    /\ Open("subscribe")
    /\ stage' = "subscribing"
    /\ UNCHANGED <<serviceVars, shown, finished>>

\* One reply is in, the next command goes out.
SendNext(c, next) ==
    /\ \E o \in Outcomes :
          future' = [future EXCEPT !["subscribe"] = "none", ![c] = o]
    /\ sent' = IF conn = "up" THEN Append(sent, [name |-> c, about |-> "none"])
               ELSE sent
    /\ stage' = next
    /\ UNCHANGED <<conn, connections, reader, wire, serviceVars, shown, finished>>

ChatSubscribed ==
    /\ stage = "subscribing" /\ future["subscribe"] = "ok"
    /\ SendNext("create", "creating")

RunSubscribed ==
    /\ stage = "subscribing" /\ future["subscribe"] = "ok"
    /\ SendNext("run", "starting")

\* The reply to a command the chat sent: back to the prompt.
ChatReplied(c) ==
    /\ stage \in {"creating", "sending", "responding"} /\ Awaits(c)
    /\ future[c] = "ok"
    /\ Taken(c)
    /\ stage' = "reading"
    /\ UNCHANGED <<serviceVars, shown, finished>>

RunStarted ==
    /\ stage = "starting" /\ future["run"] = "ok"
    /\ Taken("run")
    /\ stage' = "waiting"
    /\ UNCHANGED <<serviceVars, shown, finished>>

Over ==
    /\ Exit
    /\ stage' = "over"
    /\ UNCHANGED <<serviceVars, shown, finished>>

\* The session is closed, the run is over, or an error or a cancelled future
\* ends the command.
CliEnds ==
    \/ \E c \in Commands :
          Awaits(c) /\ future[c] \in {"error", "cancelled", "raised"} /\ Over
    \/ stage = "closing" /\ future["close"] = "ok" /\ Over
    \/ stage = "waiting" /\ finished /\ Over

\* A line is read: a decision if an approval is shown, or else a message.
Type(c, about, next) ==
    /\ stage = "reading"
    /\ Send(c, about)
    /\ stage' = next
    /\ UNCHANGED <<serviceVars, finished>>

ChatDecides ==
    /\ shown # "none"
    /\ Type("respond", shown, "responding")
    /\ shown' = "none"

ChatSends(c) ==
    /\ shown = "none"
    /\ Type(c, "none", "sending")
    /\ UNCHANGED shown

ChatEnds == Type("close", "none", "closing") /\ UNCHANGED shown

\* ChatPrinter and on_event()
CliEvent(t) ==
    /\ DispatchEvent(t)
    /\ shown' = CASE t = "requested"             -> Head(wire).about
                  [] t = "waiting"               -> "none"
                  [] t \notin {"requested", "waiting"} -> shown
    /\ finished' = (finished \/ t = "finished")
    /\ UNCHANGED <<serviceVars, stage>>

\* The task of run_event_loop()
CliReads ==
    \/ \E t \in {"requested", "denied", "waiting", "closed", "finished"} : CliEvent(t)
    \/ (DispatchReply \/ LoopEnds) /\ UNCHANGED <<serviceVars, cliVars>>

ChatStep == ChatSubscribed \/ CliEnds \/ \E c \in Commands : ChatReplied(c)

RunStep == RunSubscribed \/ RunStarted \/ CliEnds

ChatUser == CliStart \/ ChatDecides \/ ChatEnds \/ \E c \in Sends : ChatSends(c)
=============================================================================
