---------------------------- MODULE Conversation ----------------------------
(***************************************************************************)
(* One session's thread and the runs that read and extend it: AgentLoop    *)
(* (core/loop.py) on an ExecutionContext (core/context.py), AgentRunner    *)
(* that prefills it from the thread and appends what is new               *)
(* (core/runner.py), SessionStore that reads, trims and rewrites the thread *)
(* (core/session/store.py) and Compactor (core/compact/compactor.py).      *)
(*                                                                         *)
(* The lock of module Session lets one run or compaction at a time near    *)
(* the thread, so there is one run here.  A message keeps what decides     *)
(* whether the LLM's API accepts it: its role and the ids of its tool_use  *)
(* and tool_result blocks; and which message of the user it is, if any.    *)
(***************************************************************************)
EXTENDS Integers, Sequences, SequencesExt, FiniteSets, FiniteSetsExt

CONSTANTS MaxSteps,      \* agent.max_steps
          AutoModes,     \* what compaction.auto_threshold > 0 may be
          MaxMessages,   \* bound: messages the user sends
          MaxCalls       \* bound: tool calls in one response

ASSUME ConversationAssumption ==
    /\ MaxSteps \in Nat \ {0}
    /\ AutoModes \subseteq BOOLEAN
    /\ MaxMessages \in Nat /\ MaxCalls \in Nat

VARIABLES
    auto,      \* compaction.auto_threshold > 0, fixed while the daemon runs
    thread,    \* the rows of thread.jsonl
    sent,      \* messages the user has sent
    phase,     \* the await the run stopped at
    messages,  \* context.messages
    prefill,   \* prefill_len
    step,      \* context.step
    status,    \* context.status
    stop,      \* stop_reason of this step's response
    calls,     \* tool calls of it still to execute
    used       \* tool_use ids the LLM has given out

context == <<messages, prefill, step, status>>
response == <<stop, calls, used>>
conversationVars == <<auto, thread, sent, phase, context, response>>

Phases == {"idle", "asking", "acting", "compacting", "stepping", "finishing"}
StopReasons == {"tool_use", "end_turn", "max_tokens"}

\* Bound on the ids that follows from the others.
Ids == 1 .. MaxMessages * MaxSteps * MaxCalls

Message == [role : {"user", "assistant"}, said : 0 .. MaxMessages,
            uses : SUBSET Ids, results : SUBSET Ids]

UserSays(n)      == [role |-> "user", said |-> n, uses |-> {}, results |-> {}]
ToolResults(ids) == [UserSays(0) EXCEPT !.results = ids]
Summary          == UserSays(0)
Response(ids)    == [role |-> "assistant", said |-> 0, uses |-> ids, results |-> {}]
Ack              == Response({})

ConversationTypeOK ==
    /\ auto \in AutoModes
    /\ thread \in Seq(Message) /\ messages \in Seq(Message)
    /\ sent \in 0 .. MaxMessages
    /\ phase \in Phases
    /\ prefill \in Nat
    /\ step \in 0 .. MaxSteps
    /\ status \in {"running", "success", "failed"}
    /\ stop \in StopReasons \cup {"none"}
    /\ calls \subseteq Ids
    /\ used \subseteq Ids
    /\ phase # "acting" => calls = {}

ConversationInit ==
    /\ auto \in AutoModes
    /\ thread = <<>> /\ sent = 0
    /\ phase = "idle"
    /\ messages = <<>> /\ prefill = 0 /\ step = 0 /\ status = "success"
    /\ stop = "none" /\ calls = {} /\ used = {}

-----------------------------------------------------------------------------
(* Reading the thread                                                      *)

Used(ms)     == UNION {ms[i].uses : i \in DOMAIN ms}
Answered(ms) == UNION {ms[i].results : i \in DOMAIN ms}
Balanced(ms) == Used(ms) \subseteq Answered(ms)
Prefix(ms, n) == SubSeq(ms, 1, n)

NextStep ==
    /\ step' = step + 1
    /\ phase' = "asking"
    /\ stop' = "none"

-----------------------------------------------------------------------------
(* Slips in this code that the properties below must notice;                *)
(* ConversationNext uses none of them.                                      *)

TrimNothing(ms) == ms

TrimToLastAnswer(ms) ==
    Prefix(ms, Max({n \in 0 .. Len(ms) : n = 0 \/ ms[n].role = "assistant"}))

ConcludeStepsFirst(reason) ==
    /\ status' = CASE step >= MaxSteps -> "failed"
                   [] step < MaxSteps /\ reason = "end_turn" -> "success"
                   [] step < MaxSteps /\ reason # "end_turn" -> status
    /\ phase' = "stepping"

PersistAll ==
    /\ phase = "finishing"
    /\ thread' = thread \o messages
    /\ phase' = "idle"
    /\ UNCHANGED <<auto, sent, context, response>>

ConcludeOneLate(reason) ==
    /\ status' = CASE reason = "end_turn" -> "success"
                   [] reason # "end_turn" /\ step > MaxSteps -> "failed"
                   [] reason # "end_turn" /\ step <= MaxSteps -> status
    /\ phase' = "stepping"

ToolReturnsRequeued ==
    /\ phase = "acting"
    /\ messages' = [messages EXCEPT ![Len(messages)].results = @ \cup {Min(calls)}]
    /\ UNCHANGED <<auto, thread, sent, phase, prefill, step, status, response>>

-----------------------------------------------------------------------------
(* The history of a run                                                     *)

\* _trim_orphan_tool_use(): ids are never reused, so those pending after a
\* prefix are those it uses and does not answer.
Trim(ms) ==
    IF Balanced(ms) THEN ms
    ELSE Prefix(ms, Max({n \in 0 .. Len(ms) : Balanced(Prefix(ms, n))}))

-----------------------------------------------------------------------------
(* A run begins                                                            *)

\* send_message() stores the message and run_and_capture() reads the thread;
\* ExecutionContext starts from the goal if there is nothing to read.
Begin ==
    /\ phase = "idle" /\ sent < MaxMessages
    /\ sent' = sent + 1
    /\ thread' = Append(thread, UserSays(sent'))
    /\ LET history == Trim(thread')
       IN  /\ prefill' = Len(history)
           /\ messages' = IF history = <<>> THEN <<UserSays(sent')>> ELSE history
    /\ status' = "running"
    /\ step' = 1 /\ phase' = "asking" /\ stop' = "none"
    /\ UNCHANGED <<auto, calls, used>>

-----------------------------------------------------------------------------
(* A step of AgentLoop                                                     *)

\* add_tool_result(): results of one response share one message.
AddResults(ms, ids) ==
    IF ms # <<>> /\ Last(ms).results # {}
    THEN [ms EXCEPT ![Len(ms)].results = @ \cup ids]
    ELSE Append(ms, ToolResults(ids))

\* The end of a step: end_turn wins over max_steps.
Conclude(reason) ==
    /\ status' = CASE reason = "end_turn" -> "success"
                   [] reason # "end_turn" /\ step >= MaxSteps -> "failed"
                   [] reason # "end_turn" /\ step < MaxSteps -> status
    /\ \/ phase' = "stepping"
       \/ /\ auto /\ reason = "tool_use" /\ status' = "running"
          /\ phase' = "compacting"

\* The LLM answers.  Calls cut off by the token limit are answered at once.
Respond(reason, n) ==
    LET new == {Cardinality(used) + k : k \in 1 .. n}
    IN  /\ phase = "asking"
        /\ stop' = reason
        /\ used' = used \cup new
        /\ \/ /\ reason = "tool_use" /\ n > 0
              /\ messages' = Append(messages, Response(new))
              /\ calls' = new
              /\ phase' = "acting"
              /\ UNCHANGED status
           \/ /\ reason = "max_tokens"
              /\ messages' = LET ms == Append(messages, Response(new))
                             IN  IF n = 0 THEN ms ELSE AddResults(ms, new)
              /\ Conclude(reason)
              /\ UNCHANGED calls
           \/ /\ reason = "end_turn" /\ n = 0
              /\ messages' = Append(messages, Response({}))
              /\ Conclude(reason)
              /\ UNCHANGED calls
        /\ UNCHANGED <<auto, thread, sent, prefill, step>>

\* invoke_tool() returns a result, be it an error.  Ids grow, so the least of
\* those left is the next.
ToolReturns ==
    /\ phase = "acting"
    /\ messages' = AddResults(messages, {Min(calls)})
    /\ calls' = calls \ {Min(calls)}
    /\ IF calls' = {} THEN Conclude(stop) ELSE UNCHANGED <<phase, status>>
    /\ UNCHANGED <<auto, thread, sent, prefill, step, stop, used>>

\* Compactor.compact(): the whole context becomes a summary, or stays when
\* the LLM fails or has nothing to say.
CompactContext ==
    /\ phase = "compacting"
    /\ \/ messages' = <<Summary, Ack>>
       \/ UNCHANGED messages
    /\ phase' = "stepping"
    /\ UNCHANGED <<auto, thread, sent, prefill, step, status, response>>

\* step.finished has been published: once more round the loop, or out of it.
StepFinished ==
    /\ phase = "stepping"
    /\ IF status = "running"
       THEN NextStep /\ UNCHANGED <<calls, used>>
       ELSE phase' = "finishing" /\ UNCHANGED <<step, response>>
    /\ UNCHANGED <<auto, thread, sent, messages, prefill, status>>

\* The LLM fails, the run is cancelled, or publishing an event raises.
Abort ==
    /\ phase \in {"asking", "acting", "compacting", "stepping"}
    /\ phase' = "finishing"
    /\ status' = IF status = "running" THEN "failed" ELSE status
    /\ calls' = {}
    /\ UNCHANGED <<auto, thread, sent, messages, prefill, step, stop, used>>

-----------------------------------------------------------------------------
(* A run ends                                                              *)

\* run.finished has been published.
Persist ==
    /\ phase = "finishing"
    /\ thread' = thread \o SubSeq(messages, prefill + 1, Len(messages))
    /\ phase' = "idle"
    /\ UNCHANGED <<auto, sent, context, response>>

\* Publishing run.finished raises or is cancelled: nothing is appended.
Discard ==
    /\ phase = "finishing"
    /\ phase' = "idle"
    /\ UNCHANGED <<auto, thread, sent, context, response>>

\* session.compact between two runs: read_messages(), then write_compacted().
CompactThread ==
    /\ phase = "idle"
    /\ thread' = <<Summary, Ack>>
    /\ UNCHANGED <<auto, sent, phase, context, response>>

-----------------------------------------------------------------------------

Work ==
    \/ \E reason \in StopReasons, n \in 0 .. MaxCalls : Respond(reason, n)
    \/ ToolReturns \/ CompactContext \/ StepFinished \/ Persist

ConversationNext == Begin \/ Work \/ Abort \/ Discard \/ CompactThread

\* The LLM answers, tools return within their time limits, events are
\* delivered; a run needs no failure to come to its end.
ConversationSpec ==
    /\ ConversationInit /\ [][ConversationNext]_conversationVars
    /\ WF_conversationVars(Work)

-----------------------------------------------------------------------------
(* Properties                                                              *)

\* What the API demands of a request: it opens with the user, every tool_use
\* is answered by the message behind it, and nothing else is answered.
Acceptable(ms) ==
    /\ ms # <<>> /\ ms[1].role = "user" /\ ms[1].results = {}
    /\ \A i \in DOMAIN ms :
          /\ ms[i].uses # {} => i < Len(ms) /\ ms[i + 1].results = ms[i].uses
          /\ ms[i].results # {} => i > 1 /\ ms[i - 1].uses = ms[i].results

\* Every request of a run is one the API accepts, in whatever step earlier runs
\* of the session were interrupted ("read the complete thread and return
\* messages that can be passed to Anthropic directly", read_messages).
RequestValid == phase = "asking" => Acceptable(messages)

\* With automatic compaction, that is not so.
PlainRequestValid == ~auto => RequestValid

\* A run is asked what the user asked: the first request of a run ends with the
\* message that started it, unless the thread holds calls left unanswered.
AsksLatest ==
    phase = "asking" /\ step = 1 /\ Balanced(thread) =>
        Last(messages) = UserSays(sent)

\* A run is reported successful exactly if the LLM ended its turn: not when it
\* is out of steps or was interrupted, and also when it ends its turn in the
\* last step or is interrupted right after.
OutcomeHonest == phase = "finishing" => (status = "success" <=> stop = "end_turn")

\* No message of the user is repeated or reordered in the thread by the runs
\* that copy it into their context and append to it.
SaidInOrder ==
    \A i, j \in DOMAIN thread :
        i < j /\ thread[i].said > 0 /\ thread[j].said > 0 =>
            thread[i].said < thread[j].said

\* A run always ends: whatever the LLM answers, its loop is bounded, and every
\* call it makes is worked off.
RunEnds == phase # "idle" ~> phase = "idle"
=============================================================================
