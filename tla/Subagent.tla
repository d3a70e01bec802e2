------------------------------ MODULE Subagent ------------------------------
(***************************************************************************)
(* The runs of one session and the sub-agents they start: SpawnAgentTool   *)
(* and AgentResultTool (core/subagent/tool.py), BackgroundTaskRegistry     *)
(* (core/subagent/registry.py), under the time limit and the retries of    *)
(* invoke_tool (core/tools/invocation.py).                                 *)
(*                                                                         *)
(* A foreground child runs inside the tool call of its parent, in the same *)
(* asyncio task: what interrupts the call unwinds, in one step, all the    *)
(* children below it.  A background child is a task of its own, which only *)
(* the end of the event loop interrupts.  What an agent says to the LLM is *)
(* the subject of Conversation; here it only ends its loop or calls one of *)
(* these tools.                                                            *)
(***************************************************************************)
EXTENDS Integers, FiniteSets

CONSTANTS Runs,        \* runs of the session, one after the other
          Children,    \* sub-agents that may be started, a bound
          NoAgent,
          MaxRetries   \* _MAX_RETRIES

Agents == Runs \cup Children

ASSUME SubagentAssumption ==
    /\ Runs \cap Children = {} /\ NoAgent \notin Agents
    /\ MaxRetries \in Nat

VARIABLES
    pc,         \* the await an agent stopped at
    status,     \* context.status
    parent,     \* who spawned a child
    background, \* run_in_background
    delegates,  \* the child's registry has spawn_agent and agent_result
    prior,      \* the child whose failure this one retries
    charge,     \* the child an agent's spawn_agent call is about
    attempt,    \* executions of that call
    registry,   \* task_registry of a run
    finished,   \* children whose subagent.finished is published
    told,       \* what agent_result last said of a child
    up          \* the event loop runs

family    == <<parent, background, delegates, prior>>
call      == <<charge, attempt>>
agentVars == <<pc, status, family, call, registry, finished, told, up>>

Waiting == {"spawning", "delegating", "announcing"}   \* inside wait_for
Active  == {"asking", "backoff", "concluding"} \cup Waiting
Ended   == {"done", "raised", "cancelled"}

Statuses == {"running", "success", "failed"}
Answers  == {"unknown", "running", "result", "error"}

AgentsTypeOK ==
    /\ pc \in [Agents -> {"off"} \cup Active \cup Ended]
    /\ status \in [Agents -> Statuses]
    /\ parent \in [Children -> Agents \cup {NoAgent}]
    /\ background \in [Children -> BOOLEAN]
    /\ delegates \in [Children -> BOOLEAN]
    /\ prior \in [Children -> Children \cup {NoAgent}]
    /\ charge \in [Agents -> Children \cup {NoAgent}]
    /\ attempt \in [Agents -> 0 .. MaxRetries + 1]
    /\ registry \in [Runs -> SUBSET Children]
    /\ finished \subseteq Children
    /\ told \in [Children -> Answers \cup {"nothing"}]
    /\ up \in BOOLEAN

AgentsInit ==
    /\ pc = [a \in Agents |-> "off"]
    /\ status = [a \in Agents |-> "running"]
    /\ parent = [c \in Children |-> NoAgent]
    /\ background = [c \in Children |-> FALSE]
    /\ delegates = [c \in Children |-> FALSE]
    /\ prior = [c \in Children |-> NoAgent]
    /\ charge = [a \in Agents |-> NoAgent]
    /\ attempt = [a \in Agents |-> 0]
    /\ registry = [r \in Runs |-> {}]
    /\ finished = {}
    /\ told = [c \in Children |-> "nothing"]
    /\ up = TRUE

-----------------------------------------------------------------------------
(* The tree of agents                                                       *)

Unborn   == {c \in Children : parent[c] = NoAgent}
NewChild == CHOOSE c \in Unborn : TRUE

Below(a) == {c \in Children : parent[c] = a}

\* The run at the top: children are at most two levels below it.
Root(a) ==
    CASE a \in Runs                         -> a
      [] a \in Children /\ parent[a] \in Runs -> parent[a]
      [] OTHER                              -> parent[parent[a]]

\* A grandchild's registry has no spawn_agent: it is built at depth 1.
MayDelegate(a) == a \in Runs \cup {c \in Children : delegates[c]}

\* A slip the properties must notice: the child is left at work.
UnwoundNone(a) == {}

\* Who is unwound with a's call: the foreground children in progress below a.
Unwound(a) ==
    LET below(b) == {c \in Below(b) : ~background[c] /\ pc[c] \in Active}
    IN  below(a) \cup UNION {below(c) : c \in below(a)}

\* The call returns to the loop, whatever it says to the LLM.
Return(a) ==
    /\ charge' = [charge EXCEPT ![a] = NoAgent]
    /\ attempt' = [attempt EXCEPT ![a] = 0]

-----------------------------------------------------------------------------
(* Slips in this code that the properties below must notice; AgentsNext     *)
(* uses none of them.                                                       *)

\* one retry more
MayRetryLate(a) == attempt[a] <= MaxRetries + 1

\* no time limit on the foreground child
TimeLimitOnEvents(a) ==
    /\ up /\ pc[a] \in {"spawning", "announcing"}
    /\ pc' = [pc EXCEPT ![a] = "asking"]
    /\ Return(a)
    /\ UNCHANGED <<status, family, registry, finished, told, up>>

\* a child that was interrupted is tried again
TimeLimitRetries(a) ==
    /\ up /\ pc[a] \in Waiting
    /\ LET unwound == Unwound(a)
       IN  pc' = [b \in Agents |->
                    CASE b = a -> IF attempt[a] <= MaxRetries
                                  THEN "backoff" ELSE "asking"
                      [] b \in unwound -> "cancelled"
                      [] OTHER -> pc[b]]
    /\ IF attempt[a] <= MaxRetries THEN UNCHANGED call ELSE Return(a)
    /\ UNCHANGED <<status, family, registry, finished, told, up>>

AnswerByStatus(a, c) ==
    CASE c \notin registry[Root(a)] -> "unknown"
      [] c \in registry[Root(a)] /\ status[c] = "running" -> "running"
      [] c \in registry[Root(a)] /\ status[c] # "running" -> "result"

-----------------------------------------------------------------------------
(* Runs                                                                     *)

NextRun == CHOOSE r \in Runs \cup {NoAgent} :
               IF \E s \in Runs : pc[s] = "off"
               THEN r \in Runs /\ pc[r] = "off" ELSE r = NoAgent

\* Each message gets an AgentRunner, and with it a registry, of its own.
StartRun(r) ==
    /\ up /\ r = NextRun
    /\ \A s \in Runs : pc[s] \notin Active
    /\ pc' = [pc EXCEPT ![r] = "asking"]
    /\ UNCHANGED <<status, family, call, registry, finished, told, up>>

-----------------------------------------------------------------------------
(* spawn_agent                                                              *)

\* One execution of the call: subagent.started is on its way.
Spawn(a, c, bg, may) ==
    /\ parent' = [parent EXCEPT ![c] = a]
    /\ background' = [background EXCEPT ![c] = bg]
    /\ delegates' = [delegates EXCEPT ![c] = may]
    /\ charge' = [charge EXCEPT ![a] = c]
    /\ pc' = [pc EXCEPT ![a] = "spawning"]
    /\ UNCHANGED <<status, registry, finished, told, up>>

\* A profile may withhold the tools from the child.
SpawnAgent(a, bg, may) ==
    /\ up /\ pc[a] = "asking" /\ MayDelegate(a) /\ Unborn # {}
    /\ may => a \in Runs
    /\ Spawn(a, NewChild, bg, may)
    /\ attempt' = [attempt EXCEPT ![a] = 1]
    /\ UNCHANGED prior

\* subagent.started is out: the child begins.
Started(a) ==
    LET c == charge[a]
    IN  /\ up /\ pc[a] = "spawning"
        /\ IF background[c]
           THEN /\ pc' = [pc EXCEPT ![a] = "asking", ![c] = "asking"]
                /\ registry' = [registry EXCEPT ![Root(a)] = @ \cup {c}]
                /\ Return(a)
           ELSE /\ pc' = [pc EXCEPT ![a] = "delegating", ![c] = "asking"]
                /\ UNCHANGED <<call, registry>>
        /\ UNCHANGED <<status, family, finished, told, up>>

MayRetry(a) == attempt[a] <= MaxRetries

\* The call fails with a runtime_error: wait and try again, or tell the LLM.
Failed(a) == IF MayRetry(a) THEN "backoff" ELSE "asking"
GiveUpOrRetry(a) == IF MayRetry(a) THEN UNCHANGED call ELSE Return(a)

\* The child's directory cannot be made.
SpawnRaises(a) ==
    /\ up /\ pc[a] = "spawning"
    /\ pc' = [pc EXCEPT ![a] = Failed(a)]
    /\ GiveUpOrRetry(a)
    /\ UNCHANGED <<status, family, registry, finished, told, up>>

\* The next attempt starts a child anew, with the same parameters.
Respawn(a) ==
    /\ up /\ pc[a] = "backoff" /\ Unborn # {}
    /\ Spawn(a, NewChild, background[charge[a]], delegates[charge[a]])
    /\ attempt' = [attempt EXCEPT ![a] = @ + 1]
    /\ prior' = [prior EXCEPT ![NewChild] = charge[a]]

\* wait_for's 120 s are over: no retry.  The innermost child may have been
\* asking the LLM, which marks it failed, or in a tool of its own.
TimeLimit(a) ==
    /\ up /\ pc[a] \in Waiting
    /\ LET unwound == Unwound(a)
       IN  /\ pc' = [b \in Agents |->
                        CASE b = a -> "asking"
                          [] b \in unwound -> "cancelled"
                          [] OTHER -> pc[b]]
           /\ \E s \in {"running", "failed"} :
                status' = [b \in Agents |->
                            IF b \in unwound /\ pc[b] = "asking" THEN s
                            ELSE status[b]]
    /\ Return(a)
    /\ UNCHANGED <<family, registry, finished, told, up>>

-----------------------------------------------------------------------------
(* The end of an agent                                                      *)

\* AgentLoop.run() returns: the LLM ended its turn, failed, or ran out of steps.
LoopEnds(a, s) ==
    /\ up /\ pc[a] = "asking" /\ s # "running"
    /\ status' = [status EXCEPT ![a] = s]
    /\ pc' = CASE a \in Runs -> [pc EXCEPT ![a] = "done"]
               [] a \in Children /\ background[a] ->
                    [pc EXCEPT ![a] = "concluding"]
               [] a \in Children /\ ~background[a] ->
                    [pc EXCEPT ![a] = "done", ![parent[a]] = "announcing"]
    /\ UNCHANGED <<family, call, registry, finished, told, up>>

\* An exception leaves a child's loop: a foreground one fails the call of its
\* parent, a background one ends its task.
Raises(c) ==
    /\ up /\ c \in Children /\ pc[c] = "asking"
    /\ IF background[c]
       THEN pc' = [pc EXCEPT ![c] = "raised"] /\ UNCHANGED call
       ELSE /\ pc' = [pc EXCEPT ![c] = "raised", ![parent[c]] = Failed(parent[c])]
            /\ GiveUpOrRetry(parent[c])
    /\ UNCHANGED <<status, family, registry, finished, told, up>>

\* subagent.finished of a foreground child is out; its result is the call's.
Announced(a) ==
    LET c == charge[a]
    IN  /\ up /\ pc[a] = "announcing"
        /\ finished' = finished \cup {c}
        /\ IF status[c] = "success"
           THEN pc' = [pc EXCEPT ![a] = "asking"] /\ Return(a)
           ELSE pc' = [pc EXCEPT ![a] = Failed(a)] /\ GiveUpOrRetry(a)
        /\ UNCHANGED <<status, family, registry, told, up>>

\* A background child has published its own end.
Concluded(c) ==
    /\ up /\ c \in Children /\ pc[c] = "concluding"
    /\ pc' = [pc EXCEPT ![c] = "done"]
    /\ finished' = finished \cup {c}
    /\ UNCHANGED <<status, family, call, registry, told, up>>

\* asyncio.run() cancels what is left when the daemon ends.
Teardown ==
    /\ up
    /\ up' = FALSE
    /\ pc' = [a \in Agents |-> IF pc[a] \in Active THEN "cancelled" ELSE pc[a]]
    /\ UNCHANGED <<status, family, call, registry, finished, told>>

-----------------------------------------------------------------------------
(* agent_result                                                             *)

\* A task that is done has a result, however its agent fared.
Answer(a, c) ==
    CASE c \notin registry[Root(a)] -> "unknown"
      [] c \in registry[Root(a)] /\ pc[c] \in Active -> "running"
      [] c \in registry[Root(a)] /\ pc[c] = "done" -> "result"
      [] c \in registry[Root(a)] /\ pc[c] \in {"raised", "cancelled"} -> "error"

AgentResult(a, c) ==
    /\ up /\ pc[a] = "asking" /\ MayDelegate(a)
    /\ background[c] /\ pc[c] # "off"
    /\ told' = [told EXCEPT ![c] = Answer(a, c)]
    /\ UNCHANGED <<pc, status, family, call, registry, finished, up>>

-----------------------------------------------------------------------------

AgentsNext ==
    \/ \E r \in Runs : StartRun(r)
    \/ \E a \in Agents :
          \/ \E bg, may \in BOOLEAN : SpawnAgent(a, bg, may)
          \/ Started(a) \/ SpawnRaises(a) \/ Respawn(a) \/ TimeLimit(a)
          \/ \E s \in Statuses : LoopEnds(a, s)
          \/ Raises(a) \/ Announced(a) \/ Concluded(a)
          \/ \E c \in Children : AgentResult(a, c)
    \/ Teardown

\* What a run does by itself: its loop ends after max_steps at the latest,
\* back-offs end, events get out, timers fire.  Nothing is assumed of children.
AgentsSpec ==
    /\ AgentsInit /\ [][AgentsNext]_agentVars
    /\ \A r \in Runs :
          /\ WF_agentVars(\E s \in Statuses : LoopEnds(r, s))
          /\ WF_agentVars(Respawn(r))
          /\ WF_agentVars(TimeLimit(r))

-----------------------------------------------------------------------------
(* Properties                                                               *)

\* Sub-agents in the foreground never outlive the call that waits for them:
\* one that is active is the one its parent waits for, and a parent waits for
\* one that is active, whichever levels time out, fail or are retried.
ForegroundNested ==
    /\ \A c \in Children : pc[c] \in Active /\ ~background[c] =>
          pc[parent[c]] = "delegating" /\ charge[parent[c]] = c
    /\ \A a \in Agents : pc[a] = "delegating" =>
          pc[charge[a]] \in Active /\ ~background[charge[a]]

\* A sub-task is given to a second sub-agent only when the first has failed by
\* itself: not when it succeeded, is still at work or was interrupted.
RetriesFailuresOnly ==
    \A c \in Children : prior[c] # NoAgent =>
        /\ pc[prior[c]] \in {"off", "done", "raised"}
        /\ status[prior[c]] # "success"

\* agent_result gives out a result only when subagent.finished is published,
\* and its answer about a sub-agent that is over does not change within a run.
AnswersFinal ==
    /\ \A c \in Children : told'[c] # told[c] /\ told'[c] = "result" =>
          c \in finished'
    /\ \A c \in Children : told[c] \in {"result", "error"} =>
          told'[c] \in {told[c], "unknown"}

AnswersStayFinal == [][AnswersFinal]_agentVars

\* A run is not held up by its sub-agents: it ends, or the daemon does, even if
\* no sub-agent ever does anything.  (A retry beyond the bound on Children is no
\* step of the model.)
RunNotHeldUp ==
    \A r \in Runs : pc[r] # "off" ~>
        pc[r] \in Ended \/ (pc[r] = "backoff" /\ Unborn = {})
=============================================================================
