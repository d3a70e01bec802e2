------------------------------- MODULE Daemon --------------------------------
(***************************************************************************)
(* The life of the daemon: CoreApp.run() (core/app.py) starts the trace    *)
(* and the MCP server, serves, and shuts down in a fixed order, while runs *)
(* ask the LLM through TracingProvider (core/trace/provider.py) and call   *)
(* MCP tools.  Composes Mcp and Trace.                                     *)
(*                                                                         *)
(* The shutdown cancels and awaits the runs of agent.run only.  Those of   *)
(* session.send_message go on, and new runs of both kinds may start, until *)
(* the server is stopped; asyncio.run() cancels what is left at the end.   *)
(* Every run asks the LLM once and then calls at most one tool, a bound.   *)
(***************************************************************************)
EXTENDS Mcp, Trace, SequencesExt

CONSTANT OneShot      \* the runs of agent.run among Callers

ASSUME DaemonAssumption == OneShot \subseteq Callers /\ IsFiniteSet(Callers)

VARIABLES
    phase,    \* the await CoreApp.run() stopped at
    run,      \* the await a run stopped at
    awaited   \* _running_runs when gather() was called

coreVars == <<phase, run, awaited>>
daemonVars == <<mcpVars, traceVars, coreVars>>

InTry == {"opening", "asking", "working"}   \* of run_and_capture()
InProgress == InTry \cup {"beginning", "finishing"}
\* Of a run's records, the first of an LLM call and that of run.finished.
Records == Callers \X {"call", "finished"}

DaemonTypeOK ==
    /\ McpTypeOK /\ OneReader
    /\ pending \in Seq(Records) /\ saved \subseteq Records
    /\ drain \in {"running", "dead", "stopped"}
    /\ phase \in {"starting", "serving", "gathering", "closing mcp",
                  "closing server", "closing trace", "closed", "leaving",
                  "stopped"}
    /\ run \in [Callers -> {"off", "over"} \cup InProgress]
    /\ awaited \subseteq OneShot

DaemonInit ==
    /\ McpInit /\ TraceInit
    /\ phase = "starting"
    /\ run = [r \in Callers |-> "off"]
    /\ awaited = {}

-----------------------------------------------------------------------------
(* Slips in this code that the properties must notice.                      *)

\* nobody is cancelled before the runs are awaited
AwaitOnly(S) == {}

\* a CancelledError is not caught
NoneFinishes(r) == FALSE

-----------------------------------------------------------------------------
(* Start                                                                    *)

\* Start-up waits for the handshake without a time limit of its own.
McpStarts ==
    /\ phase = "starting" /\ StartUp
    /\ UNCHANGED <<traceVars, coreVars>>

Serve ==
    /\ phase = "starting" /\ stage[Boot] = "over"
    /\ phase' = "serving"
    /\ UNCHANGED <<mcpVars, traceVars, run, awaited>>

-----------------------------------------------------------------------------
(* Runs                                                                     *)

\* The server takes requests until it is stopped.
Accepting == phase \in {"serving", "gathering", "closing mcp", "closing server"}

\* A task is made for the run.  Until run.started is published it awaits its
\* first turn and the broadcasts of three events.
StartRun(r) ==
    /\ Accepting /\ run[r] = "off"
    /\ run' = [run EXCEPT ![r] = "beginning"]
    /\ UNCHANGED <<mcpVars, traceVars, phase, awaited>>

Begin(r) ==
    /\ run[r] = "beginning"
    /\ run' = [run EXCEPT ![r] = "opening"]
    /\ UNCHANGED <<mcpVars, traceVars, phase, awaited>>

\* The session is busy or closed, or a file cannot be written.
BeginRaises(r) ==
    /\ run[r] = "beginning"
    /\ run' = [run EXCEPT ![r] = "over"]
    /\ UNCHANGED <<mcpVars, traceVars, phase, awaited>>

AskLlm(r) ==
    /\ run[r] = "opening"
    /\ run' = [run EXCEPT ![r] = "asking"]
    /\ Emit(<<<<r, "call">>>>)
    /\ UNCHANGED <<mcpVars, phase, awaited>>

LlmAnswers(r) ==
    /\ run[r] = "asking"
    /\ run' = [run EXCEPT ![r] = "working"]
    /\ UNCHANGED <<mcpVars, traceVars, phase, awaited>>

\* The loop is over, by itself or because the LLM raised: run.finished is
\* published, to the trace first and then to the clients.
Finish(r) ==
    /\ \/ run[r] = "working" /\ stage[r] \in {"idle", "over"}
       \/ run[r] \in {"opening", "asking"}
    /\ run' = [run EXCEPT ![r] = "finishing"]
    /\ Emit(<<<<r, "finished">>>>)
    /\ UNCHANGED <<mcpVars, phase, awaited>>

\* The broadcast ends when every client has taken it, however long that takes.
Published(r) ==
    /\ run[r] = "finishing"
    /\ run' = [run EXCEPT ![r] = "over"]
    /\ UNCHANGED <<mcpVars, traceVars, phase, awaited>>

UseTool(r) ==
    /\ \/ run[r] = "working" /\ CallTool(r)
       \/ CallAgain(r)
    /\ UNCHANGED <<traceVars, coreVars>>

InTool(t) ==
    /\ CallStep(t)
    /\ UNCHANGED <<traceVars, coreVars>>

\* The MCP server, external.
Environment ==
    /\ \/ \E m \in inbox : ServerAnswers(m)
       \/ \E n \in OwnLines : ServerSpeaks(n)
    /\ UNCHANGED <<traceVars, coreVars>>

Tracing ==
    /\ Write \/ WriteFails
    /\ UNCHANGED <<mcpVars, coreVars>>

-----------------------------------------------------------------------------
(* Shutdown                                                                 *)

Live(S) == {r \in S : run[r] \in InProgress}

\* Who is cancelled of the runs S.
ToCancel(S) == Live(S)

\* A run in the try publishes run.finished and ends; one that has not got there,
\* or is publishing it, ends at once.
Finishes(r) == run[r] \in InTry

CancelRuns(S) ==
    LET cut     == ToCancel(S)
        working == {r \in cut : Finishes(r)}
        calling == {r \in working : stage[r] \in InCall \cup {"backoff"}}
    IN  /\ run' = [r \in Callers |->
                    CASE r \in working       -> "finishing"
                      [] r \in cut \ working -> "over"
                      [] OTHER               -> run[r]]
        /\ Leave(calling, [t \in calling |-> "over"])
        /\ Emit([i \in 1 .. Cardinality(working) |->
                        <<SetToSeq(working)[i], "finished">>])

\* SIGINT or SIGTERM.
Shutdown ==
    /\ phase = "serving"
    /\ phase' = "gathering"
    /\ CancelRuns(OneShot)
    /\ awaited' = Live(OneShot)
    /\ UNCHANGED <<lastId, proc, outbox, managed, offered>>

Gathered ==
    /\ phase = "gathering" /\ \A r \in awaited : run[r] = "over"
    /\ phase' = "closing mcp"
    /\ UNCHANGED <<mcpVars, traceVars, run, awaited>>

\* A process is killed if it does not end in 5 s.  A tcp connection is closed
\* when what was written to it has been read, however long that takes.
CloseMcp ==
    /\ phase = "closing mcp" /\ Closed
    /\ phase' = "closing server"
    /\ UNCHANGED <<stage, attempt, asked, lastId, line, connection, offered,
                   traceVars, run, awaited>>

\* A client that does not read keeps its drain blocked: close() wants to flush.
CloseServer ==
    /\ phase = "closing server"
    /\ phase' = "closing trace"
    /\ UNCHANGED <<mcpVars, traceVars, run, awaited>>

\* CoreApp.run() returns: asyncio.run() cancels every task that is left.
CloseTrace ==
    /\ phase = "closing trace" /\ StopTracing
    /\ phase' = "closed"
    /\ UNCHANGED <<mcpVars, run, awaited>>

CancelRest ==
    /\ phase = "closed"
    /\ phase' = "leaving"
    /\ CancelRuns(Callers)
    /\ UNCHANGED <<lastId, proc, outbox, managed, offered, awaited>>

Stop ==
    /\ phase = "leaving" /\ Live(Callers) = {}
    /\ phase' = "stopped"
    /\ UNCHANGED <<mcpVars, traceVars, run, awaited>>

-----------------------------------------------------------------------------

RunStep(r) ==
    \/ StartRun(r) \/ Begin(r) \/ BeginRaises(r) \/ AskLlm(r) \/ LlmAnswers(r)
    \/ Finish(r) \/ Published(r) \/ UseTool(r)

ShutdownStep ==
    \/ Gathered \/ CloseMcp \/ CloseServer \/ CloseTrace \/ CancelRest \/ Stop

\* Nothing is promised of close() while there is a connection to close.
Closing == phase = "closing mcp" /\ managed

DaemonNext ==
    \/ McpStarts \/ Serve
    \/ \E r \in Callers : RunStep(r)
    \/ \E t \in Tasks : InTool(t)
    \/ Environment \/ Tracing
    \/ Shutdown \/ ShutdownStep

\* The event loop runs what can run: the shutdown goes on and the trace is
\* written.  Nothing is assumed of the LLM, of the MCP server, not even that it
\* lets itself be closed, of the clients that events are written to, or of the
\* time limits.
DaemonSpec ==
    /\ DaemonInit /\ [][DaemonNext]_daemonVars
    /\ WF_daemonVars(~Closing /\ ShutdownStep)
    /\ WF_daemonVars(Tracing)

-----------------------------------------------------------------------------
(* Properties                                                               *)

\* The trace of a run that the shutdown waited for is whole: nothing of it is
\* left in the queue, and if it has asked the LLM the file goes on to its
\* run.finished, unless a write to the file failed.  (A run that is cancelled
\* before the try of run_and_capture never publishes run.finished.)
TraceWhole ==
    phase \in {"closed", "leaving", "stopped"} /\ drain = "stopped" =>
        \A r \in awaited :
            /\ \A i \in DOMAIN pending : pending[i][1] # r
            /\ <<r, "call">> \in saved => <<r, "finished">> \in saved

\* A shutdown comes to its end, whatever the LLM and the MCP server are doing,
\* unless the trace cannot be written, or for ever the connection to the MCP
\* server is being closed or run.finished is being broadcast.
DaemonStops ==
    phase = "gathering" ~>
        phase = "stopped" \/ drain = "dead"
            \/ [](Closing \/ \E r \in Callers : run[r] = "finishing")
=============================================================================
