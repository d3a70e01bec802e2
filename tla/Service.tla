------------------------------ MODULE Service -------------------------------
(***************************************************************************)
(* The daemon as one terminal client meets it over its connection: the     *)
(* handlers of its commands (core/app.py), its session                     *)
(* (core/session/manager.py) and the approvals its runs ask for            *)
(* (core/permissions/manager.py).  Every request is read in order and      *)
(* served in a task of its own (core/transport/socket_server.py).          *)
(*                                                                         *)
(* Modules Session, Permission and EventFanout hold the detail; here is    *)
(* the order in which replies and events reach a client that has           *)
(* subscribed to everything, other sessions' events among them.            *)
(***************************************************************************)
EXTENDS SocketClient

CONSTANTS Sends,      \* session.send_message, as often as it is outstanding
          OwnAsks,    \* approvals the client's runs ask for
          OtherAsks,  \* approvals of other sessions
          MaxOthers,  \* bound: other events of other sessions
          MaxLines    \* bound: lines the client is behind

Asks == OwnAsks \cup OtherAsks

\* The other methods, of which a client has one request each outstanding.
OtherMethods == {"subscribe", "create", "compact", "respond", "close", "run"}

ASSUME ServiceAssumption ==
    /\ Sends \subseteq Commands /\ OtherMethods \subseteq Commands
    /\ Sends \cap (OtherMethods \cup {"none"}) = {}
    /\ OwnAsks \cap OtherAsks = {} /\ "none" \notin Asks
    /\ MaxOthers \in Nat /\ MaxLines \in Nat

VARIABLES
    session,     \* the client's session, and what holds its lock
    serving,     \* the send_message whose run is going on
    subscribed,  \* the connection is in the broadcaster's table
    ask,         \* what became of each approval
    others       \* events of other sessions so far

serviceVars == <<session, serving, subscribed, ask, others>>

ServiceTypeOK ==
    /\ session \in {"none", "open", "running", "ending", "compacting", "closed"}
    /\ serving \in Sends \cup {"run", "none"}
    /\ subscribed \in BOOLEAN
    /\ ask \in [Asks -> {"none", "asked", "left", "answered", "elsewhere", "timeout"}]
    /\ others \in 0 .. MaxOthers

ServiceInit ==
    /\ session = "none" /\ serving = "none" /\ subscribed = FALSE
    /\ ask = [p \in Asks |-> "none"]
    /\ others = 0

-----------------------------------------------------------------------------

\* Events reach who has subscribed, replies who is there.  Writing waits for a
\* client that is too far behind.
Push(events, replies) ==
    /\ Len(wire) + Len(events) + Len(replies) <= MaxLines
    /\ wire' = IF conn # "up" THEN wire
               ELSE wire \o (IF subscribed THEN events ELSE <<>>) \o replies
    /\ UNCHANGED <<conn, connections, reader, future>>

Requested(c) == conn = "up" /\ sent # <<>> /\ Head(sent).name = c

\* The request is read and answered in one step.
Serve(c, events, outcome) ==
    /\ sent' = Tail(sent)
    /\ Push(events, <<Reply(c, outcome)>>)

ServeSubscribe ==
    /\ Requested("subscribe")
    /\ subscribed' = TRUE
    /\ Serve("subscribe", <<>>, "ok")
    /\ UNCHANGED <<session, serving, ask, others>>

ServeCreate ==
    /\ Requested("create")
    /\ session' = "open"
    /\ Serve("create", <<>>, "ok")
    /\ UNCHANGED <<serving, subscribed, ask, others>>

\* agent.run: a session of its own, whose run is not waited for.
ServeRun ==
    /\ Requested("run")
    /\ session' = "running" /\ serving' = "run"
    /\ Serve("run", <<>>, "ok")
    /\ UNCHANGED <<subscribed, ask, others>>

\* session.send_message begins a run, unless the session is busy or closed or
\* there is none.
ServeSend ==
    \E c \in Sends :
        /\ Requested(c)
        /\ IF session = "open"
           THEN /\ session' = "running" /\ serving' = c
                /\ sent' = Tail(sent)
                /\ UNCHANGED <<conn, connections, reader, future, wire>>
           ELSE Serve(c, <<>>, "error") /\ UNCHANGED <<session, serving>>
        /\ UNCHANGED <<subscribed, ask, others>>

ServeCompact ==
    /\ Requested("compact")
    /\ IF session = "open"
       THEN /\ session' = "compacting"
            /\ sent' = Tail(sent)
            /\ UNCHANGED <<conn, connections, reader, future, wire>>
       ELSE Serve("compact", <<>>, "error") /\ UNCHANGED session
    /\ UNCHANGED <<serving, subscribed, ask, others>>

Compacted ==
    /\ session = "compacting"
    /\ session' = "open"
    /\ \E o \in {"ok", "error"} : Push(<<>>, <<Reply("compact", o)>>)
    /\ UNCHANGED <<sent, serving, subscribed, ask, others>>

\* "left": asked by a run of a session the client has lost.
Pending(p) == ask[p] \in {"asked", "left"}

\* permission.respond: a second answer is ignored.  The run it lets go on may
\* publish permission.denied.
ServeRespond ==
    /\ Requested("respond")
    /\ LET p == Head(sent).about
       IN  /\ ask' = [ask EXCEPT ![p] = IF Pending(p) THEN "answered" ELSE @]
           /\ \/ Serve("respond", <<>>, "ok")
              \/ /\ Pending(p)
                 /\ Serve("respond", <<Event("denied", p)>>, "ok")
    /\ UNCHANGED <<session, serving, subscribed, others>>

ServeClose ==
    /\ Requested("close")
    /\ IF session \in {"open", "closed"}
       THEN session' = "closed" /\ Serve("close", <<Event("closed", "own")>>, "ok")
       ELSE Serve("close", <<>>, "error") /\ UNCHANGED session
    /\ UNCHANGED <<serving, subscribed, ask, others>>

-----------------------------------------------------------------------------
(* Runs                                                                    *)

\* A run of the client's waits for one approval at a time.
Waiting == \E p \in OwnAsks : ask[p] = "asked"

Asked(p) ==
    /\ ask[p] = "none"
    /\ p \in OwnAsks => session = "running" /\ ~Waiting
    /\ ask' = [ask EXCEPT ![p] = "asked"]
    /\ Push(<<Event("requested", p)>>, <<>>)
    /\ UNCHANGED <<sent, session, serving, subscribed, others>>

\* The time limit denies.
AskTimesOut(p) ==
    /\ Pending(p)
    /\ ask' = [ask EXCEPT ![p] = "timeout"]
    /\ Push(<<Event("denied", p)>>, <<>>)
    /\ UNCHANGED <<sent, session, serving, subscribed, others>>

\* Another client answers.  No client handles permission.granted.
AnsweredElsewhere(p) ==
    /\ Pending(p)
    /\ ask' = [ask EXCEPT ![p] = "elsewhere"]
    /\ \E events \in {<<>>, <<Event("denied", p)>>} : Push(events, <<>>)
    /\ UNCHANGED <<sent, session, serving, subscribed, others>>

\* The run is over: run.finished, and then the session's own event, under the
\* lock still.
RunOver ==
    /\ session = "running" /\ ~Waiting
    /\ session' = "ending"
    /\ Push(<<Event("finished", "own"),
              Event(IF serving = "run" THEN "closed" ELSE "waiting", "own")>>, <<>>)
    /\ UNCHANGED <<sent, serving, subscribed, ask, others>>

\* Slips the properties must notice: a handler that fails is not answered; the
\* result is sent by the handler and once more by who called it.
AnswersSuccess(outcome) ==
    IF serving = "run" \/ outcome = "error" THEN <<>> ELSE <<Reply(serving, outcome)>>

AnswersTwice(outcome) ==
    IF serving = "run" THEN <<>> ELSE <<Reply(serving, outcome), Reply(serving, outcome)>>

\* The reply, if somebody waits for one, comes when the lock is released.
Answer(outcome) == IF serving = "run" THEN <<>> ELSE <<Reply(serving, outcome)>>

Unlocked ==
    /\ session = "ending"
    /\ session' = IF serving = "run" THEN "closed" ELSE "open"
    /\ serving' = "none"
    /\ Push(<<>>, Answer("ok"))
    /\ UNCHANGED <<sent, subscribed, ask, others>>

\* The run raises: there is an error, and no event.
RunRaises ==
    /\ session = "running" /\ ~Waiting
    /\ session' = "open" /\ serving' = "none"
    /\ Push(<<>>, Answer("error"))
    /\ UNCHANGED <<sent, subscribed, ask, others>>

\* Sessions of other clients, and those this client left behind.
OtherEvent(t) ==
    /\ subscribed /\ others < MaxOthers
    /\ others' = others + 1
    /\ Push(<<Event(t, "other")>>, <<>>)
    /\ UNCHANGED <<sent, session, serving, subscribed, ask>>

\* The daemon sees the connection end.  Its session goes on without it.
Lost ==
    /\ Break
    /\ session' = "none" /\ serving' = "none" /\ subscribed' = FALSE
    /\ ask' = [p \in Asks |-> IF p \in OwnAsks /\ ask[p] = "asked" THEN "left" ELSE ask[p]]
    /\ UNCHANGED others

\* What the daemon does by itself: requests are served, a run that waits for
\* nothing ends, approvals have a time limit.
ServiceStep ==
    \/ ServeSubscribe \/ ServeCreate \/ ServeRun \/ ServeSend
    \/ ServeCompact \/ Compacted \/ ServeRespond \/ ServeClose
    \/ RunOver \/ Unlocked
    \/ \E p \in Asks : AskTimesOut(p)

ServiceElse ==
    \/ RunRaises \/ Lost
    \/ \E p \in Asks : Asked(p) \/ AnsweredElsewhere(p)
    \/ \E t \in {"finished", "waiting", "closed"} : OtherEvent(t)
=============================================================================
