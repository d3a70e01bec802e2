# KamaClaude in TLA+

KamaClaude is a small coding agent: a daemon (`kama-core`) that owns sessions,
runs an LLM loop with tools and asks for permissions, and terminal clients that
talk to it over newline-delimited JSON-RPC.  The daemon is one asyncio event
loop; its difficulty is in what happens *between* awaits.  This directory holds
TLA+ models of its parts, the instances TLC checks and theorems that TLAPS
checks.  Paths below are relative to `src/src/kama_claude/`.

## 1. The system

| component | state it keeps | operations | what makes it correct |
|---|---|---|---|
| permission gate `core/permissions/` | `_pending` futures, session and persistent "always" caches, `policy.toml` | `check_and_wait`, `respond`, `cancel_session`, timeout, cancellation, load and save | a call runs only if policy, a standing answer or its own answer in time allows it; no waiting call loses its way to an answer; verdicts are never invented |
| tool invocation `core/tools/invocation.py` | attempt counter, events of the call | announce, look up, check, execute with retries, close | tools run only for permitted calls; the event timeline is closed; every call ends |
| sessions `core/session/` | `_sessions`, one lock each, `meta.json`, `thread.jsonl`, backups | `create`, `send_message`, `close`, `compact`, `get_history` | one exchange at a time; nothing said is lost; a session never stays busy |
| agent loop `core/loop.py`, `context.py`, `runner.py`, `compact/` | messages, step, status of a run | LLM call, tool results, compaction, prefill from and append to the thread | requests are valid, the outcome is truthful, the loop ends |
| event fan-out `core/events/`, `core/transport/ipc_broadcaster.py` | subscribers of the bus, subscriptions, event files | `publish`, `subscribe`, replay, drop dead connections | order, completeness, no client keeps a run from ending |
| daemon `core/app.py`, socket server `core/transport/socket_server.py` | connections, tasks of runs | route a line to a handler, one task per line; shutdown | handlers interleave only at awaits; shutdown ends |
| sub-agents `core/subagent/` | background tasks and results | `spawn_agent`, `agent_result` | results are those of the child asked about, and arrive |
| task board `core/task/` | one JSON file per task | create, update, clear dependencies | a task is blocked only by tasks that are not completed |
| MCP `core/mcp/` | request id, one lock per server | handshake, `tools/call`, time limit | a response belongs to its request |
| clients `core/transport/socket_client.py`, `cli/`, `tui/app.py` | pending requests, prompts, busy flag | send, receive, answer prompts | a prompt is answered, a client never waits for itself |
| trace `core/trace/` | queue and drain task | emit, stop | stop ends and loses nothing |
| LLM provider, skills, memory, configuration, built-in tools | none that changes | | inputs of the models |

Interaction: a line on a connection becomes a task (`socket_server.py:158`) that
runs a handler of `CoreApp`.  `session.send_message` takes the session's lock and
awaits a whole run; the run publishes events on the one `EventBus`; the bus awaits
`IpcEventBroadcaster.handle` (which awaits every connection's `drain`) and then
the `EventWriter`s; tools are invoked through `invoke_tool`, which may park the
task in `check_and_wait` until another connection's task calls `respond`.

What is hard: several tasks inside one manager between two awaits; timers and
cancellations that race with answers; connections that end during a broadcast; a
run interrupted anywhere while its messages are on their way to disk; crashes
between two writes; lists that are replaced while an index into them is kept.
`PROJECT.json` lists each of these hazards at its line.

## 2. How the code is read

* An action is what a task does between two awaits.  A task that awaits is
  woken in one step and resumes in a later one, so that everything else may run
  in between.  `asyncio.Lock`: the test `lock.locked()` and the acquisition that
  follows it without an await are one action; leaving `async with` in any way
  releases the lock.
* A cancellation or the timer of `asyncio.wait_for` cancels the future a task
  awaits, or, if that has just been set, makes the task resume with the
  exception nevertheless (`Interrupted` in `Permission`).
* Ids of sessions, runs and tool calls are unique (UUIDs, ids of the LLM's API).
* Regular expressions, texts, token counts, timestamps and paths are abstracted
  to what decides control: three booleans of a bash command, the role and the
  `tool_use`/`tool_result` ids of a message, the number of an event.

## 3. Modules

| module | models | remarks |
|---|---|---|
| `PermissionPolicy` | `permissions/policy.py`, decisions | constants and static verdict |
| `Approval` | what the gate promises | abstract specification |
| `Permission` | `permissions/manager.py`, `storage.py` | `pc[r]` is the await of `check_and_wait(r)`; `interrupt[r]` what was thrown at it; implements `Approval` |
| `ToolCall` | `tools/invocation.py` | EXTENDS `Permission` and joins its actions with those of `invoke_tool` and of connections |
| `Dialogue` | what a session promises | abstract specification |
| `Session` | `session/manager.py`, `store.py` | `pc[q]` is the await of a handler, a run is one await; implements `Dialogue` |
| `Conversation` | `loop.py`, `context.py`, `runner.py`, `compactor.py`, trimming in `store.py` | opens the await `running` of `Session`: one run at a time near a thread |
| `EventFanout` | `events/`, `ipc_broadcaster.py`, subscription and replay in `app.py` | broadcasts of several runs overlap |
| `Subagent` | `subagent/tool.py`, `registry.py`, under `invoke_tool` | the tree of agents; a foreground child unwinds with the call of its parent |
| `TaskBoard` | `task/manager.py` and its four tools | one sequence of tasks; every operation is synchronous |
| `Mcp` | `mcp/client.py`, `server.py`, `tool.py`, under `invoke_tool` | one server, one connection, one lock; the server is another program |
| `Trace` | `trace/writer.py` | queue, draining task, stop |
| `Daemon` | `CoreApp.run()`, `trace/provider.py`, `SocketServer.stop()` | EXTENDS `Mcp` and `Trace`: runs at work while the daemon starts and shuts down |
| `SocketClient` | `transport/socket_client.py` | one connection at a time, futures of commands, the reader |
| `Service` | the handlers of `app.py`, the session and the approvals as one client meets them, `socket_server.py` | EXTENDS `SocketClient`; coarse: the detail is in `Session`, `Permission`, `EventFanout` |
| `Tui` | `tui/app.py` | EXTENDS `Service`: worker, prompt, approvals on the screen, senders |
| `Cli` | `cli/commands/chat.py`, `run.py` | EXTENDS `Service`: a command is one await after the other |
| `Terminals` | | EXTENDS `Tui` and `Cli`: one client of any kind and the daemon |
| `PermissionProofs`, `ToolCallProofs` | theorems about `Permission`, with its refinement of `Approval`, and `ToolCall` | |
| `SessionProofs` | theorems about `Session` | with its refinement of `Dialogue` |
| `ConversationProofs`, `EventFanoutProofs` | theorems about `Conversation` and `EventFanout` | |
| `SubagentProofs` | theorems about `Subagent` and `TaskBoard` | what one agent gives to others to do |
| `DaemonProofs` | theorems about `Daemon`, and `Mcp` and `Trace` inside it | |
| `TerminalsProofs` | theorems about `Terminals` | `SocketClient`, `Service`, `Tui` and `Cli` together |
| `MC*` | instances for TLC | constants; `MCSession` and `MCEventFanout` also choose among the initial states |

The modules contain operators introduced as *slips*: faulty variants of an
operation (a missing guard, a swapped order, a missing reset).  No specification
uses them.  Each property is known to be violated when the operation is replaced
by one of its slips, which shows that the property says something about the code
(`mutants` in `PROJECT.json`).

### Correspondence in short

* `Permission`: `Decide` and `Ask` are `check_and_wait` up to its first await;
  `EmitDone` the return of `event_emitter`; `ResumeAnswered`, `ResumeTimeout`,
  `AbortCancelled`, `EmitFails` the ways out; `Remember` is `_apply_response`
  with a save that may fail before or after truncating the file; `Crash` and
  `CrashInSave` end the daemon and start it on the file.
* `ToolCall`: one action per await of `invoke_tool`; `log[r]` is the sequence of
  events of the call; `Fail` decides retry or end as lines 200-221 do.
* `Session`: `SendMessage`, `Resumed`, `Book`, `Invoked`, `RunEnds`, `Settle` are
  `send_message` cut at its awaits; `Abandon` an await that raises or is
  cancelled; `RunCancelled` a cancelled run, which still stores its messages;
  `MoveAway` is `write_compacted`.  `Saves`, `SaveFails` and `CrashInSave` are
  `write_meta`, which truncates the file and then writes it: it may raise before or
  after that (`Torn`), and the daemon may die in between.  `Close` has set the
  status by then, as the code does.
* `Conversation`: `Begin` stores the user's message, reads and trims the thread
  and prefills the context; `Respond` is an answer of the LLM; `ToolReturns` one
  tool result; `Conclude` the end of a step; `Persist` the append of
  `messages[prefill_len:]`.
* `EventFanout`: `Publish` begins a broadcast, `Drained` is the return of a
  `drain`, `Write` what happens after the last one, where a file may refuse the line
  (`Lines`); `Cancel` is the cancellation of a run, which leaves a broadcast where it
  stands and, between `run.started` and `run.finished`, has the run publish the
  latter yet; `Replay`, `Replayed` are a subscription with `replay_from_run`.
* `Subagent`: `SpawnAgent` is the call up to the publication of
  `subagent.started`, `Started` the return of that publication, after which a
  foreground child runs inside the call and a background one as a task;
  `SpawnRaises`, `TimeLimit`, `Raises` are an exception of the tool, the 120 s
  limit of the call and a failure of the child; `Respawn` is the next attempt of
  `invoke_tool`; `Announced`, `Concluded` the return of the last publication;
  `Teardown` the end of the event loop; `AgentResult` the tool of that name.
* `TaskBoard`: one action per method of `TaskManager`; `Cleared` is
  `_clear_dependency`, and `TaskUpdate` writes what it read *before* it.
* `Mcp`: `Ask` writes a request under the lock or queues for the lock,
  `Answered`, `Skip`, `Refused` and `Malformed` read a line, `Leave` ends a call in
  any way and hands the lock over; `Connect`, `ListTools` and `ToolsListed` are the
  handshake; `ServerAnswers` and `ServerSpeaks` (requests of its own, with ids of its
  own choice, and JSON that is no object) are the other program.
* `Daemon`: `Shutdown`, `Gathered`, `CloseMcp`, `CloseServer`, `CloseTrace` are the
  end of `CoreApp.run()` (`app.py:337-350`) in its order, `CancelRest` and `Stop` what
  `asyncio.run()` does after it; `StartRun`, `Begin`, `AskLlm`, `LlmAnswers`,
  `UseTool`, `Finish`, `Published` are a run, `BeginRaises` one that fails before the
  `try` of `run_and_capture()`; `CancelRuns` cancels runs at whichever await they
  stand: inside the `try` they publish `run.finished`, elsewhere they just end.
* `SocketClient`: `Send` registers a future and writes, `DispatchReply` and
  `DispatchEvent` are lines read by `run_event_loop()`, `LoopEnds` its `finally`.
* `Service`: one action per command of the protocol (`ServeSend`,
  `ServeRespond`, ...), `RunOver`, `Unlocked`, `RunRaises` the end of what was
  sent, `Asked`, `AskTimesOut`, `AnsweredElsewhere` an approval of a run.
* `Tui`: the worker `_socket_loop()` from `TuiConnect` to `TuiDisconnected`; what
  the user does (`Submit`, `SubmitCompact`, `Decide`, `Quit`) and the continuations
  of each; one action per event the app handles.  `Cli`: `stage` is the await at
  which `_chat_async` or `_run_async` stands.

## 4. Runs

| run | instance | shows |
|---|---|---|
| `permission` | 3 calls, 2 sessions, "always" answers, a verdict left in the file | a waiting call keeps its way to an answer (`WaiterReachable`), caches and file hold only verdicts users gave (`StoresBacked`), no grant without a right to it (`GrantJustified`), a session's refusal stands (`SessionDenyHolds`); the refinement of `Approval` |
| `toolcall` | 2 calls, 4 kinds of answer, `_MAX_RETRIES` = 2 | `RunsOnlyApproved`, `TimelineClosed`; with a time limit on approvals every call ends (`CallEnds`) |
| `session` | 3 requests, 2 sessions; two of the requests for the same session, the third for either | exchanges stay whole in the thread (`ExchangesWhole`), through saves that raise or are torn `meta.json` lists every run that left messages, if it can be read, and closes no session that is open (`MetaKeepsUp`), a compaction stores no outdated summary (`SummaryIsCurrent`), the session does not stay busy (`BusyEnds`); the refinement of `Dialogue` |
| `conversation` | 3 messages, 2 steps, 2 parallel calls, with and without automatic compaction | without it every request is valid (`PlainRequestValid`); in both, requests end with the latest message (`AsksLatest`), `OutcomeHonest`, `SaidInOrder`, `RunEnds` |
| `events` | 2 runs, of 3 and 2 events, one of each the files may refuse; 2 connections, one subscribed from the start, one that comes and goes | `StreamInOrder`; subscribers miss no event but those whose broadcast was cancelled (`SubscriberComplete`), files also those they refused (`FileComplete`); a run ends or stands for ever in the drain of an open connection (`RunsEnd`) |
| `agents` | 1 run, 3 children, 1 retry | no child outlives the call that waits for it (`ForegroundNested`), only failures are repeated (`RetriesFailuresOnly`), `agent_result` takes nothing back (`AnswersStayFinal`), a run waits only for what ends (`RunNotHeldUp`) |
| `board` | every board of 3 tasks, cycles included | completing a task frees the others of it (`CompletionsFree`) |
| `daemon` | one run of each kind, one MCP server, 4 requests, 1 retry; lines of the server's own with the id of a request (2 or 3) or none (0), sent when nothing is unread | of the server's answers only its own ends a call (`AnswersOwn`), an awaited run that asked the LLM has its `run.finished` in the trace (`TraceWhole`), the shutdown ends unless it closes the MCP connection, or `run.finished` is broadcast, for ever (`DaemonStops`); `DaemonTypeOK` includes that one task at a time reads the connection |
| `clients` | TUI, chat and run; 2 sends, 1 approval, 1 event of another session, 1 connection, 2 lines behind | every command is answered once or cancelled (`EachAnswered`: nobody waits when the reader is over, and on a connection that is up every future has its request, its run or its reply, one of them only); every turn comes back to the user - the TUI's prompt is enabled and not busy - unless the task of a `kama run` has raised, and a lost connection releases every command (`TurnEnds`) |
| `v_disconnect` | 1 call, no time limit | the approval of a client that left hangs for ever (finding 1) |
| `v_slice` | automatic compaction | the wrong slice after a compaction (finding 2) |
| `v_chat` | `kama chat`, 1 approval | the prompt that should take the decision is not there (finding 3) |

**Why the bounds are enough.** Three permission calls let two sessions settle a tool
differently and a third call meet the caches; a call is used once, so more calls
only repeat the roles. Two invocations interact through the caches only. Three
requests are a run, one that competes with it and one that comes after both; two
sessions show that locks are not shared. Of three requests two are for the same
session, so that fixing those two leaves out nothing but names. Three messages are a
run that is interrupted, a run that trims what it left and one that comes after; two
steps and two parallel calls are the smallest with an interruption inside a response
and a result in a step other than the last. In the event model two runs overtake
each other and a second connection is slow while the first dies; two events per run
are the first, which opens the file, and the last, which closes it, and one run has
an event between, where a cancellation still lets it finish. The connection that is
there from the start is subscribed to that run; the other subscribes to it or to
both, with or without a replay. A connection sends one subscribe request, which is a
bound. Three sub-agents are a child, its own child and a second child of the run, or
a child and its repetition with a background one beside it. Three tasks are one that
is completed, one that waits for it and one that waits for either. Of the daemon's
two callers one is cancelled and awaited at shutdown (`agent.run`) and the other is
not (`session.send_message`); four requests are two of the handshake and two calls,
or a call that times out and its repetition, whose answers cross. What the server
says of its own accord has the id of the second request of the handshake, of the
first call or of none; it says it when nothing is unread, in front of an answer or
instead of one. The client sends twice, because the second message meets the lock of
the first; one connection that is lost shows what becomes of the commands, and the
TUI then finds no daemon to go back to; two lines behind are an event and the reply
it races with. That `EachAnswered` holds on later connections too is a theorem.

**Deadlock** is not checked: every instance ends when its requests are used up.

**Fairness.** `CallSpec`, `SessionSpec`, `ConversationSpec`, `FanoutSpec`,
`AgentsSpec`, `DaemonSpec` and `TerminalsSpec` assume weak fairness of what a task
does by itself: events get delivered, the LLM answers, a tool is ended by its 120 s
limit if by nothing else, a timer that is armed fires, a task that can resume does.
The event loop is first-in first-out, which justifies the last; that events are
delivered and the LLM answers is assumed where delivery is not the subject.
`FanoutSpec` assumes nothing of connections that are open: `drain()` has no limit,
so a client that does not read holds up every run with an event for it, and
`RunsEnd` names that case. Fair are only the next event of a run and the exception
that `drain()` raises on a lost connection. `AgentsSpec` asks it of runs and of the
time limit of their calls only, not of the sub-agents, so that `RunNotHeldUp` says
that no sub-agent can hold a run up; `DaemonSpec` asks it of the shutdown, except
while it closes a connection to the MCP server (`wait_closed()` of a tcp connection
has no limit), and of the trace, but not of broadcasts, the LLM or the MCP server;
`TerminalsSpec` of the client's own steps, of its reader and of the daemon's
handlers, time limits of approvals among them. Nothing is assumed of people and
failures: no answer, no cancellation, no connection, no crash is fair.

## 5. Proofs

The theorems hold for every value of the constants that satisfies the
assumptions stated next to them: types and distinctness, the boundaries of
numbers, and in `PolicyAssumption` that only bash calls carry pattern flags
(`manager.py:73`).  Requests, sessions and children may be infinitely many; the callers
of the MCP server are finitely many (`DaemonAssumption`), as the tasks of an event loop
are: the steps of a shutdown put any number of them into an order.

**Permission** (`PermissionProofs`).  `TypeOK` is inductive by itself.  `Shape` is the
strengthening the others need: it says what `future`, `interrupt` and `reply` can
be at each `pc` (an entry in `pending` belongs to a call that was asked about, an
idle call has no future, a future that is still unset and awaited has not been
interrupted, ...).  `WaiterReachable` is inductive relative to both.
`StoresBacked`: a settled call keeps its reply (`SettledStable`), so a verdict that
was given stays given (`GivenStable`); a save stores only the verdict of the call
that settles with it, a restart only what the file held or nothing.
`GrantJustified` rests on `StoresBacked` for automatic grants.
`PersistentCoversSession` (a theorem without a run) and the action property
`SessionDenyHolds` follow step by step.  `RefinesApproval`: with
`ReplyQuotes` (a settled call's reply quotes its own answer) every step maps to a
step of `Approval` or to none.

**Tool calls** (`ToolCallProofs`).  A step of `ToolCall` is a step of `Permission` or
leaves its state alone, so everything above holds here too.  `AskedOrAutomatic` ties a
settled call's reply to its future; `LogFits` determines the log at every await:
it is `History(prompt, failures)`, a function of whether the call was asked about
and of how often it has failed.  From the two follow `ToolCallTypeOK`,
`RunsOnlyApproved` and `TimelineClosed`.

**Sessions** (`SessionProofs`). `LockHeld`: whoever is at an await inside `async
with` holds the lock of its session, and nobody else does. Only the holder writes
the thread, hence `Spoken`, `Whole`, `Current` and `Fresh`: what a handler knew of
the thread before an await still holds after it. `MetaInv` (`Attended`, `InStep`,
`OpenTurn`, `Listed`, `Recorded`) relates the memory and `meta.json`, which a save
that raises or is torn lets fall behind: the disk is never *ahead* of the memory
(`InStep`), a run that has begun is listed in both unless the file is torn
(`Listed`), and stays so (`Recorded`), because nothing ever takes a run off either
list. From them follow `SessionTypeOK`, `ExchangesWhole`, `MetaKeepsUp` and
`SummaryIsCurrent`, and in `RefinesDialogue` that every step is a step of `Dialogue`
or none.

**Conversations** (`ConversationProofs`).  `ConvInv`.  `Counted`: the ids given out are
an initial segment of the numbers, bounded by the steps made, so that the next ones are
new.  `Filed`: a result stands right behind its call and no call occurs twice;
then a prefix whose calls all have results (`Balanced`, what trimming looks for) is
acceptable as it is (`BalancedAcceptable`).  `Continues`: a run's messages are a
part of the thread followed by its own, whose ids the thread does not have; this is
why appending them to the *whole* thread, orphans included, files them again
(`PlainPersist`).  From it follow `PlainRequestValid`, from `Paced` and `Said` the rest.
That trimming finds the longest balanced prefix needs a least number, which is
taken from the well-foundedness of the naturals (`LeastNatural`).

**Events** (`EventFanoutProofs`). `FanInv`: whoever waits in a broadcast has not
been sent its event yet, nor has any file; a connection that is open is subscribed
once, or not yet and replaying; a run's file is open from its first event to its
last, whichever that becomes when the run is cancelled (`Pace`); what a subscriber
lacks is what it still waits for or what was cut off, what a file lacks is that or
what it refused. So a connection may leave or another one join in the middle of a
broadcast, or the broadcast be cancelled, and `StreamInOrder`, `SubscriberComplete`
and `FileComplete` still follow.

**Sub-agents** (`SubagentProofs`).  `AgentsInv`: the tree has two levels (`Family`), a
call knows its child (`Charged`), parent and child are at awaits that fit
(`Stages`), an earlier attempt's child has failed (`Superseded`), what is over stays
over (`Over`).  `Family` is what makes a single unwinding step, which reaches two
levels down, enough for `ForegroundNested`.

**Task board** (also in `SubagentProofs`).  `UpdateEffect` says what the file of every
task holds after an update that writes back what it had read; `CompletionsFree` is a
consequence for boards of any size.

**Daemon** (`DaemonProofs`). Ids are given out once (`OwnIds`), so a request or an
answer on its way (`Travelling`) that has the id of an open call was caused by that
call: `AnswersOwn`, wherever the daemon is in its life and whatever answers were
left behind. The server's own lines are none of these: they may carry any id, and
the theorem says nothing of a call one of them ends. For `DaemonTypeOK`, that one
task reads at a time, the line of the lock has to be known: whoever is in it waits
or is its head, and when any number of tasks leave at once - a shutdown cancels them
together - the others keep their order (`LineKeepsOrder`, by counting who stays), so
that one waiter at most is woken. `Tries` bounds the attempts, the end of a call is
the end of its run. `TraceWhole`: `Accounted` says that a run that has put an LLM
call in the trace has put its `run.finished` there before it is over, in the queue
or the file, unless the task that drains the queue has died (`Recorded`), and that
the runs the shutdown waited for are over before anything is closed; the order of
the shutdown, the runs before the trace, makes it inductive.

**Clients** (`TerminalsProofs`).  The three parts of `EachAnswered` are inductive only
together, in `LinkInv`.  It adds what requests and lines look like, that a connection
that is up has its reader, that the client's session is asked for once and before there
is one (`BegunOnce`: the reply of a second `session.create` would be nobody's), and that
the daemon has forgotten a connection that is lost (`QuietWhenLost`).  There are few
ways to use a connection - take a reply, send, read a line, open, end, break, and the
daemon's `PushLink` and `StepLink` - and each has one lemma; an action of a client or of
a handler is one of them with the facts the lemma asks for.  These come from the
clients: `TuiInv` ties each command to the await that owns it (a worker that is not
creating a session has no future for `session.create`, a queued message has none yet),
and `CliInv` says that `kama chat` and `kama run` have one future at a time.  So a
command is never given twice at once, on which `AnsweredOnce` rests.  `TerminalsTypeOK`,
that who stands at an await has the future for it, follows from the same two.

Every invariant and every action property of the passing runs, and both
refinements, are thus proved.  Model-checked only: all liveness (`CallEnds`,
`BusyEnds`, `RunEnds`, `RunsEnd`, `RunNotHeldUp`, `DaemonStops`, `TurnEnds`), because
the prover handles neither fairness nor ENABLED; and the runs that expect a violation.

## 6. Findings

1. **`cancel_session` has no caller.**  Its comment promises that pending
   approvals are refused when the client disconnects; with `timeout_s = 0`
   nothing else frees the call (`v_disconnect`).
2. **The slice after automatic compaction** (`runner.py:278`) counts in a list
   that compaction has replaced; later requests of the session can be invalid
   (`v_slice`).
3. **`kama chat` cannot take a decision when one is asked for**: it waits for the
   reply of `session.send_message`, and so for the end of the run, before it
   prompts (`chat.py:111`).  The approval ends by the daemon's time limit, or
   with `timeout_s = 0` never (`v_chat`).

Behaviour met on the way that contradicts no statement of the code, or that no
run decides:

* A run that is cancelled before the `try` of `run_and_capture()` publishes no
  `run.finished` (`runner.py:207`), and the trace of the shutdown has none of it,
  though `runner.py:44` says that the two events close `events.jsonl`.
* A broadcast that is cancelled - at shutdown, or in a foreground sub-agent whose
  call is over its 120 s - is lost to the connections later in the list and to all
  event files (`ipc_broadcaster.py:95`, `events/bus.py:25`), of other runs too.
* `drain()` has no limit (`ipc_broadcaster.py:80`): a client that is connected and
  does not read keeps the runs it is subscribed to from their end.
* The id alone makes a line of an MCP server the answer (`mcp/client.py:169`): a
  request of the server, which counts its own ids, ends the call with the same id, and
  the call's result is empty.  A JSON line that is no object fails the call.
* `close` and `send_message` set a status before they save it (`manager.py:135`,
  `156`): after a save that raised `meta.json` calls a closed session open, or is torn.
* `kama run` waits for an event: if the task of its run raises there is none, and it
  never exits (`run.py:121`), nor does it when the connection is lost.
* `session.closed` of another session disables the TUI's prompt (`tui/app.py:895`)
  until some session waits for input.
* A command sent after `run_event_loop()` has ended waits on a future that nobody
  settles (`socket_client.py:70`; the outcome `stranded` of the model), though the
  loop's `finally` means to leave no caller waiting.  The first write on a
  connection the daemon has closed succeeds: `kama chat`, at its prompt when the
  daemon goes away, takes one more line and never comes back.
* Trimming drops everything from the first orphaned `tool_use` on
  (`store.py:111`), later messages included, in every later request: `AsksLatest`
  is stated for threads without such an orphan only.
* `events.jsonl` of a run holds events of other runs, before its own
  `run.started` even: each `EventWriter` listens to the whole bus
  (`runner.py:206`); handlers are never taken off it (`events/bus.py:19`).
* The registry of background sub-agents belongs to a runner, which is made anew for
  each message, though `runner.py:86` calls it shared across runs.
* An MCP server whose handshake fails is never terminated (`mcp/server.py:33`).
* A send of the TUI that a lost connection cancels leaves `_busy` set
  (`tui/app.py:687`): after the reconnect the prompt is open and refuses what is
  typed, until some session waits for input.
* `permission.denied` removes the first prompt on the screen, whichever was
  denied (`tui/app.py:1068`).

## 7. Abstractions to keep in mind

* Publishing inside `invoke_tool` does not raise, except for the permission
  prompt; whether an event is delivered is the subject of `EventFanout`.
* The broadcaster serves its subscriptions one after the other in any order; the
  code takes that of its list.
* A row of a thread parses when it is read (a message with U+2028 would not:
  rows are split with `splitlines()`), and is appended as a whole; a torn `meta.json`
  is never read, since nothing calls `read_meta`.
* A line of an event file that Python keeps in its buffer and writes later counts as
  written.  A connection subscribes once: the code would send it every event twice.
* Of the trace the records of LLM answers are left out, and those of events but
  `run.finished`.
* Two compactions of a session do not fall into the same second (the name of the
  backup would be the same).  What a summary says is taken to cover the messages
  it was made from.  In `Session` a thread has no orphans; what trimming
  does to a summary is the subject of `Conversation`.
* The provider for manual compaction is always there, as the daemon makes it.
* `max_tokens` without calls stands for every other stop reason too: the loop
  treats them alike.
* Sub-agents are their outcome: what they ask the LLM and the tools they use are
  the subject of `Conversation` and `ToolCall`.  In `Daemon` a run asks the LLM once and
  calls at most one tool, of the one MCP server there is.
* `Service` has one client, one session of its own and the events of others;
  the client is subscribed to everything, as all three are.
* `CancelledError` is no `Exception`: in the clients it passes the `except`
  clauses, and what waited for a cancelled future is over.

Not modelled, and why: the LLM provider (an external API, and the translation of its
responses), built-in tools (input and output on files and processes; they are
outcomes here), configuration, skills and memory files (read into prompts and
settings, nothing changes), which text is a valid request and error codes, and
everything that is drawn on a screen.

## 8. What is left

* Liveness stays with TLC.  What can still be proved of it are safety facts it
  rests on, such as that a turn whose run is over has its event on the way.
* Hazards without a property, each with its reason in `PROJECT.json`: a handler
  of the bus that raises (`invocation.py:172`), a second client on a fresh
  one-shot session (`app.py:140`), the registry of earlier runs (`runner.py:87`),
  the process of a failed handshake (`mcp/server.py:33`), stranded futures
  (`socket_client.py:70`), the wrong prompt removed (`tui/app.py:1068`).
