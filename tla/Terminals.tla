------------------------------ MODULE Terminals ------------------------------
(***************************************************************************)
(* One terminal client - the TUI, kama chat or kama run - and the daemon   *)
(* at the other end of its connection.  Composes Tui, Cli and Service over *)
(* SocketClient.                                                           *)
(***************************************************************************)
EXTENDS Tui, Cli

CONSTANT Kinds   \* the clients to consider

ASSUME KindsAssumption == Kinds \subseteq {"tui", "chat", "run"}

VARIABLE kind    \* the client

terminalVars == <<linkVars, serviceVars, tuiVars, cliVars, kind>>

\* Whoever awaits a reply has a future for it.
TerminalsTypeOK ==
    /\ conn \in {"none", "up", "lost", "closed"}
    /\ connections \in 0 .. MaxConnections
    /\ reader \in {"off", "running", "over"}
    /\ future \in [Commands -> Futures]
    /\ ServiceTypeOK /\ TuiTypeOK /\ CliTypeOK
    /\ kind \in Kinds
    /\ \A c \in Commands : Awaits(c) /\ c \notin Sends => future[c] # "none"
    /\ stage = "sending" => \E c \in Sends : future[c] # "none"
    /\ app # "over" =>
          /\ worker = "subscribing" => future["subscribe"] # "none"
          /\ worker = "creating" => future["create"] # "none"
          /\ app = "responding" => future["respond"] # "none"

TerminalsInit ==
    /\ LinkInit /\ ServiceInit /\ TuiInit /\ CliInit
    /\ kind \in Kinds

-----------------------------------------------------------------------------

\* What the client does once the user has started it.
ClientStep ==
    \/ kind = "tui" /\ TuiStep /\ UNCHANGED <<cliVars, kind>>
    \/ kind = "chat" /\ ChatStep /\ UNCHANGED <<tuiVars, kind>>
    \/ kind = "run" /\ RunStep /\ UNCHANGED <<tuiVars, kind>>

\* What its reader does.
Reads ==
    \/ kind = "tui" /\ TuiReads /\ UNCHANGED <<cliVars, kind>>
    \/ kind # "tui" /\ CliReads /\ UNCHANGED <<tuiVars, kind>>

User ==
    \/ kind = "tui" /\ TuiUser /\ UNCHANGED <<cliVars, kind>>
    \/ kind = "chat" /\ ChatUser /\ UNCHANGED <<tuiVars, kind>>
    \/ kind = "run" /\ CliStart /\ UNCHANGED <<tuiVars, kind>>

\* The daemon is followed as long as there is a client.
Gone == app = "over" \/ stage = "over"

Daemon == ~Gone /\ ServiceStep /\ UNCHANGED <<tuiVars, cliVars, kind>>

DaemonElse == ~Gone /\ ServiceElse /\ UNCHANGED <<tuiVars, cliVars, kind>>

TerminalsNext == ClientStep \/ Reads \/ User \/ Daemon \/ DaemonElse

\* Both event loops run what can run, runs end and approvals time out.  Nothing
\* is assumed of the user or of the connection.
TerminalsSpec ==
    /\ TerminalsInit /\ [][TerminalsNext]_terminalVars
    /\ WF_terminalVars(ClientStep)
    /\ WF_terminalVars(Reads)
    /\ WF_terminalVars(Daemon)

-----------------------------------------------------------------------------
(* Properties                                                               *)

\* What was registered while run_event_loop() ran is settled or cancelled when
\* it is over, however the loop ended and on whichever connection.
NobodyForgotten ==
    reader # "running" => \A c \in Commands : future[c] # "waiting"

\* Where the answer to command c is: asked for, being worked out, or given.
InSent(c) == \E i \in DOMAIN sent : sent[i].name = c

Served(c) ==
    \/ c \in Sends /\ serving = c /\ session \in {"running", "ending"}
    \/ c = "compact" /\ session = "compacting"

InWire(c) == \E i \in DOMAIN wire : wire[i].kind = "reply" /\ wire[i].name = c

\* On a connection that is up a future that waits is going to be settled: the
\* request is on its way to the daemon, the daemon is at it, or the reply is on
\* its way back, whatever became of the run, the session or the connection
\* before.
ReplyOnItsWay ==
    conn = "up" =>
        \A c \in Commands : future[c] = "waiting" => InSent(c) \/ Served(c) \/ InWire(c)

\* A future waits for one answer and gets one: as long as there is a connection
\* a request is in one place only - asked for, being worked out or answered -
\* and somebody waits for it, across sessions, losses and new connections.
AnsweredOnce ==
    conn \in {"up", "lost"} =>
        /\ \A i, j \in DOMAIN sent : sent[i].name = sent[j].name => i = j
        /\ \A i, j \in DOMAIN wire :
              wire[i].kind = "reply" /\ wire[j].kind = "reply"
              /\ wire[i].name = wire[j].name => i = j
        /\ \A c \in Commands :
              /\ InSent(c) \/ Served(c) \/ InWire(c) => future[c] = "waiting"
              /\ InSent(c) => ~Served(c) /\ ~InWire(c)
              /\ Served(c) => ~InWire(c)

\* Every command that is sent is answered, once, or cancelled.
EachAnswered == NobodyForgotten /\ ReplyOnItsWay /\ AnsweredOnce

\* No client waits for a reply that cannot come: when the connection is lost,
\* whatever was sent before the reader noticed is settled or cancelled.
LossReleases == conn = "lost" ~> \A c \in Commands : future[c] # "waiting"

\* From the send to the daemon's event of the end of the run; for kama run from
\* the reply to agent.run on.
InTurn ==
    \/ kind = "tui" /\ \E c \in Sends :
          /\ future[c] = "waiting"
          /\ busy \/ (serving = c /\ session = "running")
    \/ kind = "chat" /\ stage = "sending"
    \/ kind = "run" /\ stage = "waiting"

BackToUser ==
    \/ kind = "tui" /\ ~busy /\ enabled
    \/ kind = "chat" /\ stage # "sending"
    \/ kind = "run" /\ stage = "over"

\* The task of agent.run has raised.  No event tells of it, so that kama run
\* waits on for a run.finished that does not come.
RaisedUnheard == kind = "run" /\ session = "open"

\* A client hears of the end of the turn it waits for, in whatever order replies
\* and events of its own and of other sessions come, and of the end of its
\* connection: the TUI's prompt takes input again and kama chat is back at its
\* own, be the run successful, refused or failed; kama run exits, unless the
\* task of its run has raised.
TurnEnds ==
    /\ InTurn /\ conn = "up" ~> BackToUser \/ RaisedUnheard \/ conn # "up"
    /\ LossReleases

\* "When a permission request is pending, the user's input is interpreted as
\* the decision, not as a chat message" (_chat_async): while an approval that is
\* shown is pending the prompt is reached, so that the user can decide it.
ShownIsPrompted ==
    \A p \in Asks :
        kind = "chat" /\ shown = p /\ ask[p] = "asked" ~>
            \/ stage = "reading" /\ shown = p /\ ask[p] = "asked"
            \/ ask[p] \in {"answered", "elsewhere"}
            \/ conn # "up"
=============================================================================
