--------------------------------- MODULE Mcp ---------------------------------
(***************************************************************************)
(* One MCP server and the daemon's client of it: McpClient, its use by     *)
(* McpServerManager at start-up and by McpTool in tool calls               *)
(* (core/mcp/client.py, server.py, tool.py), under the time limit and the  *)
(* retries of invoke_tool.                                                 *)
(*                                                                         *)
(* All requests go over one connection under one asyncio lock: whoever     *)
(* holds it writes its request and reads lines until one has its id.  A    *)
(* call that gives up leaves its answer behind for the next reader.  The   *)
(* server is another program: it answers late, in any order or never,      *)
(* sends requests of its own and lines that are no message, and may exit.  *)
(***************************************************************************)
EXTENDS Naturals, Sequences, FiniteSets

CONSTANTS Callers,     \* runs that use the server's tools
          Boot,        \* start_all(), which makes the handshake
          NoCaller,
          MaxRetries,  \* _MAX_RETRIES of invoke_tool
          MaxId,       \* bound: requests
          OwnLines,    \* bound: ids of what the server sends of its own accord
          MaxUnread    \* bound: unread lines when it does

Tasks == Callers \cup {Boot}

ASSUME McpAssumption ==
    /\ Boot \notin Callers /\ NoCaller \notin Tasks
    /\ MaxRetries \in Nat /\ MaxId \in Nat
    /\ OwnLines \subseteq 0 .. MaxId

VARIABLES
    stage,    \* the await a task's call stopped at
    attempt,  \* executions of a call; requests of the handshake
    asked,    \* id of a task's latest request
    lastId,   \* _id
    line,     \* the lock: its holder and those who wait for it, in order
    proc,     \* the server process
    inbox,    \* requests the server has not answered
    outbox,   \* lines of the server that nobody has read
    managed,  \* the client is in _clients
    offered   \* the server's tools are in _tools

connection == <<inbox, outbox>>
mcpVars == <<stage, attempt, asked, lastId, line, proc, connection,
             managed, offered>>

Request == [id : 1 .. MaxId, by : Tasks]

\* A line is an answer, named by its request; or a request of the server, whose
\* ids are its own; or JSON that is no object, which has the id 0 here.
Line == Request \cup [id : OwnLines, by : {NoCaller}]

InCall == {"queued", "writing", "reading"}   \* inside _call()

McpTypeOK ==
    /\ stage \in [Tasks -> {"idle", "backoff", "over"} \cup InCall]
    /\ attempt \in [Tasks -> 0 .. MaxRetries + 2]
    /\ asked \in [Tasks -> 0 .. MaxId] /\ lastId \in 0 .. MaxId
    /\ line \in Seq(Tasks)
    /\ proc \in {"off", "started", "terminated"}
    /\ inbox \subseteq Request
    /\ outbox \in Seq(Line)
    /\ managed \in BOOLEAN /\ offered \in BOOLEAN

McpInit ==
    /\ stage = [t \in Tasks |-> "idle"]
    /\ attempt = [t \in Tasks |-> 0]
    /\ asked = [t \in Tasks |-> 0]
    /\ lastId = 0
    /\ line = <<>>
    /\ proc = "off"
    /\ inbox = {} /\ outbox = <<>>
    /\ managed = FALSE /\ offered = FALSE

-----------------------------------------------------------------------------
(* Slips in this code that the properties must notice.                      *)

\* any answer will do
HasAnyId(t, m) == m.id # 0

\* who gives up goes on holding the lock
KeepsLock(S) == line

-----------------------------------------------------------------------------
(* The lock                                                                 *)

\* The line without those who leave it, each in the place that the number of
\* those before it gives; asyncio wakes the next waiter, which nobody can
\* overtake.
LineWithout(S) ==
    LET stay     == {i \in DOMAIN line : line[i] \notin S}
        place(i) == Cardinality({j \in stay : j <= i})
    IN  [k \in 1 .. Cardinality(stay) |->
            line[CHOOSE i \in stay : place(i) = k]]

\* Tasks S leave _call(), each for its next stage; the task that is first now
\* holds the lock and writes its request.
Leave(S, next) ==
    /\ line' = LineWithout(S)
    /\ LET first == IF line' = <<>> THEN NoCaller ELSE Head(line')
           woken == {t \in Tasks \ S : t = first /\ stage[t] = "queued"}
       IN  /\ stage' = [t \in Tasks |->
                            CASE t \in S     -> next[t]
                              [] t \in woken -> "writing"
                              [] OTHER       -> stage[t]]
           /\ asked' = [t \in Tasks |->
                            IF t \in S /\ next[t] = "over" THEN 0 ELSE asked[t]]
           /\ attempt' = [t \in Tasks |->
                            IF t \in S /\ next[t] = "over" THEN 0 ELSE attempt[t]]
           /\ inbox' = inbox \cup {[id |-> asked[t], by |-> t] : t \in woken}

LeaveAlone(t, next) == Leave({t}, [u \in {t} |-> next])

\* _call() up to its first await: the id is taken before the lock.
Ask(t, n) ==
    /\ lastId < MaxId
    /\ lastId' = lastId + 1
    /\ asked' = [asked EXCEPT ![t] = lastId']
    /\ attempt' = [attempt EXCEPT ![t] = n]
    /\ line' = Append(line, t)
    /\ IF line = <<>>
       THEN /\ stage' = [stage EXCEPT ![t] = "writing"]
            /\ inbox' = inbox \cup {[id |-> lastId', by |-> t]}
       ELSE /\ stage' = [stage EXCEPT ![t] = "queued"]
            /\ UNCHANGED inbox

-----------------------------------------------------------------------------
(* Tool calls: McpTool.invoke() under invoke_tool()                         *)

\* A call by a run, which found the tool in its registry.
CallTool(t) ==
    /\ t \in Callers /\ stage[t] = "idle" /\ offered
    /\ Ask(t, 1)
    /\ UNCHANGED <<proc, outbox, managed, offered>>

CallAgain(t) ==
    /\ t \in Callers /\ stage[t] = "backoff"
    /\ Ask(t, attempt[t] + 1)
    /\ UNCHANGED <<proc, outbox, managed, offered>>

\* Every error is a runtime_error, which is tried again.  A server whose
\* handshake fails is skipped: neither offered nor managed, nor closed.
AfterFailure(t) ==
    CASE t = Boot -> "over"
      [] t \in Callers /\ attempt[t] <= MaxRetries -> "backoff"
      [] t \in Callers /\ attempt[t] > MaxRetries -> "over"

Fail(t) ==
    /\ LeaveAlone(t, AfterFailure(t))
    /\ UNCHANGED <<lastId, proc, managed, offered>>

\* The request is drained into the pipe, which a server that has exited breaks.
Drained(t) ==
    /\ stage[t] = "writing"
    /\ stage' = [stage EXCEPT ![t] = "reading"]
    /\ UNCHANGED <<attempt, asked, lastId, line, proc, connection,
                   managed, offered>>

WriteRaises(t) ==
    /\ stage[t] = "writing"
    /\ Fail(t) /\ UNCHANGED outbox

\* 30 s without a line, or the end of the stream.
ReadFails(t) ==
    /\ stage[t] = "reading" /\ outbox = <<>>
    /\ Fail(t) /\ UNCHANGED outbox

\* Is it the answer to t's request?  Only the id is looked at: a request of the
\* server that has it is taken for an answer without a result.
Answers(t, m) == m.id = asked[t]

\* What is left over from calls that gave up, and what the server asks.
Skip(t) ==
    /\ stage[t] = "reading" /\ outbox # <<>>
    /\ Head(outbox).id # 0 /\ ~Answers(t, Head(outbox))
    /\ outbox' = Tail(outbox)
    /\ UNCHANGED <<stage, attempt, asked, lastId, line, proc, inbox,
                   managed, offered>>

Answered(t) ==
    /\ t \in Callers /\ stage[t] = "reading" /\ outbox # <<>>
    /\ Answers(t, Head(outbox))
    /\ outbox' = Tail(outbox)
    /\ LeaveAlone(t, "over")
    /\ UNCHANGED <<lastId, proc, managed, offered>>

\* The answer is an error: McpToolError.
Refused(t) ==
    /\ stage[t] = "reading" /\ outbox # <<>>
    /\ Answers(t, Head(outbox)) /\ Head(outbox).by # NoCaller
    /\ outbox' = Tail(outbox)
    /\ Fail(t)

\* A line that is no object has no get(): AttributeError.
Malformed(t) ==
    /\ stage[t] = "reading" /\ outbox # <<>>
    /\ Head(outbox).id = 0
    /\ outbox' = Tail(outbox)
    /\ Fail(t)

\* invoke_tool's 120 s are over: no retry.
TimeLimit(t) ==
    /\ t \in Callers /\ stage[t] \in InCall
    /\ LeaveAlone(t, "over")
    /\ UNCHANGED <<lastId, proc, outbox, managed, offered>>

-----------------------------------------------------------------------------
(* The life of the server                                                   *)

\* start_all(): the process is started and sent initialize; it may not start.
Connect ==
    /\ stage[Boot] = "idle" /\ proc = "off"
    /\ proc' = "started" /\ Ask(Boot, 1)
    /\ UNCHANGED <<outbox, managed, offered>>

NoConnection ==
    /\ stage[Boot] = "idle" /\ proc = "off"
    /\ stage' = [stage EXCEPT ![Boot] = "over"]
    /\ UNCHANGED <<attempt, asked, lastId, line, proc, connection,
                   managed, offered>>

\* initialize is answered: notify, and ask for the tools.
ListTools ==
    /\ stage[Boot] = "reading" /\ attempt[Boot] = 1 /\ outbox # <<>>
    /\ Answers(Boot, Head(outbox))
    /\ lastId < MaxId
    /\ lastId' = lastId + 1
    /\ asked' = [asked EXCEPT ![Boot] = lastId']
    /\ attempt' = [attempt EXCEPT ![Boot] = 2]
    /\ stage' = [stage EXCEPT ![Boot] = "writing"]
    /\ inbox' = inbox \cup {[id |-> lastId', by |-> Boot]}
    /\ outbox' = Tail(outbox)
    /\ UNCHANGED <<line, proc, managed, offered>>

\* A request of the server has no tools in it.
ToolsListed ==
    /\ stage[Boot] = "reading" /\ attempt[Boot] = 2 /\ outbox # <<>>
    /\ Answers(Boot, Head(outbox))
    /\ managed' = TRUE /\ offered' = (Head(outbox).by = Boot)
    /\ outbox' = Tail(outbox)
    /\ LeaveAlone(Boot, "over")
    /\ UNCHANGED <<lastId, proc>>

\* stop_all(): only the clients in _clients are closed; the tools stay.
Closed ==
    /\ proc' = IF managed THEN "terminated" ELSE proc
    /\ managed' = FALSE

\* The server, external.  Its notifications, which the reader skips, and lines
\* that are no JSON change nothing but the time of the next ReadFails; that it
\* exits by itself, only that no answer comes any more.
ServerAnswers(m) ==
    /\ proc = "started" /\ m \in inbox
    /\ inbox' = inbox \ {m}
    /\ outbox' = Append(outbox, m)
    /\ UNCHANGED <<stage, attempt, asked, lastId, line, proc, managed, offered>>

\* ping, roots/list, sampling, or garbage.
ServerSpeaks(n) ==
    /\ proc = "started" /\ Len(outbox) < MaxUnread
    /\ outbox' = Append(outbox, [id |-> n, by |-> NoCaller])
    /\ UNCHANGED <<stage, attempt, asked, lastId, line, proc, inbox,
                   managed, offered>>

StartUp ==
    \/ Connect \/ NoConnection \/ ListTools \/ ToolsListed

CallStep(t) ==
    \/ Drained(t) \/ WriteRaises(t) \/ ReadFails(t)
    \/ Skip(t) \/ Answered(t) \/ Refused(t) \/ Malformed(t) \/ TimeLimit(t)

-----------------------------------------------------------------------------
(* Properties                                                               *)

\* Part of the type invariant: one task at a time uses the connection, the one
\* that holds the lock, and whoever is in a call has its place in the line.
OneReader ==
    /\ \A t \in Tasks : stage[t] \in InCall <=> \E i \in DOMAIN line : line[i] = t
    /\ \A i \in DOMAIN line : stage[line[i]] = "queued" <=> i > 1
    /\ \A i, j \in DOMAIN line : line[i] = line[j] => i = j

\* Of the server's answers only the one to a call's own request ends it,
\* whatever was asked before on the connection and timed out, was cancelled or
\* is answered late.  (What the server sends of its own accord may end it too:
\* a request that happens to have its id, or a line that is no object.)
AnsweredByOwn ==
    \A t \in Tasks :
        stage[t] = "reading" /\ outbox # <<>> /\ outbox' = Tail(outbox)
            /\ Head(outbox).by # NoCaller
            /\ (stage'[t] # "reading" \/ asked'[t] # asked[t]) =>
                Head(outbox) = [id |-> asked[t], by |-> t]

AnswersOwn == [][AnsweredByOwn]_mcpVars
=============================================================================
