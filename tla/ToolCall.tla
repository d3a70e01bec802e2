------------------------------ MODULE ToolCall ------------------------------
(***************************************************************************)
(* invoke_tool (core/tools/invocation.py) around the permission manager,   *)
(* as the daemon composes them: a call is announced, looked up, checked,   *)
(* executed with retries, and closed with one terminal event.  Clients     *)
(* come and go; the daemon answers a lost connection by dropping its       *)
(* subscriptions only (core/transport/socket_server.py).                   *)
(***************************************************************************)
EXTENDS Permission, Naturals, Sequences

CONSTANT MaxRetries    \* _MAX_RETRIES

ASSUME RetryAssumption == MaxRetries \in Nat

VARIABLES
    stage,      \* where invoke_tool(r) is
    attempt,    \* executions of the tool so far
    log,        \* types of the events published for the call, in order
    attached    \* a client that can answer is connected

invocationVars == <<stage, attempt, log>>
callVars == <<vars, invocationVars, attached>>

Ended == {"ended", "aborted"}

Publish(r, events) == log' = [log EXCEPT ![r] = @ \o events]
Stage(r, s) == stage' = [stage EXCEPT ![r] = s]

ToolCallTypeOK ==
    /\ stage \in [Requests -> {"new", "announcing", "checking", "executing",
                               "backoff"} \cup Ended]
    /\ attempt \in [Requests -> 0 .. MaxRetries + 1]
    /\ \A r \in Requests : Len(log[r]) <= MaxRetries + 4
    /\ attached \in BOOLEAN
    /\ TypeOK

CallInit ==
    /\ Init
    /\ stage = [r \in Requests |-> "new"]
    /\ attempt = [r \in Requests |-> 0]
    /\ log = [r \in Requests |-> <<>>]
    /\ attached = TRUE

-----------------------------------------------------------------------------
(* Slips in this code that the properties below must notice; CallNext uses  *)
(* none of them.                                                            *)

ProceedOnDecision(r) ==
    /\ stage[r] = "checking" /\ pc[r] = "done"
    /\ reply[r].decision \notin {"deny_once", "always_deny", "auto_deny"}
    /\ Stage(r, "executing")
    /\ attempt' = [attempt EXCEPT ![r] = 1]
    /\ Publish(r, IF reply[r].decision = "auto_allow" THEN <<>> ELSE <<"granted">>)
    /\ UNCHANGED <<vars, attached>>

RefuseInOneEvent(r) ==
    /\ stage[r] = "checking" /\ pc[r] = "done"
    /\ ~reply[r].allowed
    /\ Stage(r, "ended")
    /\ Publish(r, <<"failed">>)
    /\ UNCHANGED <<vars, attempt, attached>>

FailOnceMore(r, class) ==
    /\ stage[r] = "executing"
    /\ Stage(r, IF class \in {"runtime_error", "rate_limited"}
                   /\ attempt[r] <= MaxRetries + 1
                THEN "backoff" ELSE "ended")
    /\ Publish(r, <<"failed">>)
    /\ UNCHANGED <<vars, attempt, attached>>

-----------------------------------------------------------------------------
(* Before the tool runs                                                    *)

Start(r) ==
    /\ stage[r] = "new"
    /\ Stage(r, "announcing")
    /\ Publish(r, <<"started">>)
    /\ UNCHANGED <<vars, attempt, attached>>

\* unknown tool, or parameters its model refuses
Reject(r) ==
    /\ stage[r] = "announcing"
    /\ Stage(r, "ended")
    /\ Publish(r, <<"failed">>)
    /\ UNCHANGED <<vars, attempt, attached>>

Check(r, c) ==
    /\ stage[r] = "announcing"
    /\ Stage(r, "checking")
    /\ \/ Decide(r, c) /\ UNCHANGED log
       \/ Ask(r, c) /\ Publish(r, <<"requested">>)
    /\ UNCHANGED <<attempt, attached>>

Proceed(r) ==
    /\ stage[r] = "checking" /\ pc[r] = "done"
    /\ reply[r].allowed
    /\ Stage(r, "executing")
    /\ attempt' = [attempt EXCEPT ![r] = 1]
    /\ Publish(r, IF reply[r].decision = "auto_allow" THEN <<>> ELSE <<"granted">>)
    /\ UNCHANGED <<vars, attached>>

Refuse(r) ==
    /\ stage[r] = "checking" /\ pc[r] = "done"
    /\ ~reply[r].allowed
    /\ Stage(r, "ended")
    /\ Publish(r, IF reply[r].decision = "auto_deny" THEN <<"failed">>
                                                     ELSE <<"denied", "failed">>)
    /\ UNCHANGED <<vars, attempt, attached>>

-----------------------------------------------------------------------------
(* The execution loop                                                      *)

Retryable == {"runtime_error", "rate_limited"}
ErrorClasses == Retryable \cup {"timeout", "other"}

Succeed(r) ==
    /\ stage[r] = "executing"
    /\ Stage(r, "ended")
    /\ Publish(r, <<"finished">>)
    /\ UNCHANGED <<vars, attempt, attached>>

\* An error the tool returns, an exception, or the 120 s limit.
Fail(r, class) ==
    /\ stage[r] = "executing"
    /\ Stage(r, IF class \in Retryable /\ attempt[r] <= MaxRetries
                THEN "backoff" ELSE "ended")
    /\ Publish(r, <<"failed">>)
    /\ UNCHANGED <<vars, attempt, attached>>

Retry(r) ==
    /\ stage[r] = "backoff"
    /\ Stage(r, "executing")
    /\ attempt' = [attempt EXCEPT ![r] = @ + 1]
    /\ UNCHANGED <<vars, log, attached>>

\* CancelledError strikes outside the permission check.
CancelCall(r) ==
    /\ stage[r] \in {"announcing", "executing", "backoff"}
    /\ Stage(r, "aborted")
    /\ UNCHANGED <<vars, attempt, log, attached>>

-----------------------------------------------------------------------------
(* Steps of the permission manager while the call is being checked         *)

Deliver(r, d) == attached /\ Respond(r, d)

Unwinding(r) == (AbortCancelled(r) \/ EmitFails(r)) /\ Stage(r, "aborted")

Checking(r) ==
    \/ /\ Timer(r) \/ CancelTask(r) \/ EmitDone(r)
          \/ ResumeAnswered(r) \/ ResumeTimeout(r) \/ \E d \in Answers : Deliver(r, d)
       /\ UNCHANGED stage
    \/ Unwinding(r)

\* A daemon that dies takes the connections with it.
Die ==
    /\ Crash \/ \E r \in Requests : CrashInSave(r)
    /\ stage' = [r \in Requests |->
                   IF stage[r] = "new" THEN "new"
                   ELSE IF stage[r] \in Ended THEN stage[r] ELSE "aborted"]
    /\ attached' = FALSE
    /\ UNCHANGED <<attempt, log>>

\* _handle_connection's finally clause; PermissionManager is not told.
Disconnect ==
    /\ attached
    /\ attached' = FALSE
    /\ UNCHANGED <<vars, invocationVars>>

Connect ==
    /\ ~attached
    /\ attached' = TRUE
    /\ UNCHANGED <<vars, invocationVars>>

-----------------------------------------------------------------------------

CallNext ==
    \/ \E r \in Requests :
          \/ Start(r) \/ Reject(r) \/ Proceed(r) \/ Refuse(r)
          \/ \E c \in Calls : Check(r, c)
          \/ Succeed(r) \/ Retry(r) \/ CancelCall(r)
          \/ \E class \in ErrorClasses : Fail(r, class)
          \/ Checking(r) /\ UNCHANGED <<attempt, log, attached>>
    \/ Die
    \/ Disconnect \/ Connect

\* What the task of the call does by itself.  Events are assumed to be
\* delivered (a client that stops reading stalls the whole bus), and a tool is
\* ended by its time limit if by nothing else.
Advance(r) ==
    \/ Reject(r) \/ Proceed(r) \/ Refuse(r) \/ Succeed(r) \/ Retry(r)
    \/ \E c \in Calls : Check(r, c)
    \/ \E class \in ErrorClasses : Fail(r, class)
    \/ /\ Timer(r) \/ EmitDone(r) \/ ResumeAnswered(r) \/ ResumeTimeout(r)
       /\ UNCHANGED <<stage, attempt, log, attached>>
    \/ /\ AbortCancelled(r) /\ Stage(r, "aborted")
       /\ UNCHANGED <<attempt, log, attached>>

CallSpec ==
    /\ CallInit /\ [][CallNext]_callVars
    /\ \A r \in Requests : WF_callVars(Advance(r))

-----------------------------------------------------------------------------
(* Properties                                                              *)

\* A tool has only ever been executed for a call that was entitled to it:
\* a denied command never, a call the clients were asked about only on an
\* allowing answer that reached the call before its timer or a cancellation.
RunsOnlyApproved ==
    \A r \in Requests : attempt[r] > 0 =>
        /\ ~call[r].deny
        /\ "requested" \in {log[r][i] : i \in DOMAIN log[r]} =>
              future[r] \in Allowing /\ interrupt[r] = None

\* The event timeline of a call that ran to its end is closed: it starts with
\* started, every prompt shown to the clients is taken back by exactly one
\* granted or denied, a refused call shows no execution, every execution is
\* one failed or finished, and nothing follows the terminal event.
Failures(n) == [i \in 1 .. n |-> "failed"]

Timelines ==
    {<<"started", "failed">>, <<"started", "requested", "denied", "failed">>} \cup
    {<<"started">> \o prompt \o Failures(n) \o <<last>> :
        prompt \in {<<>>, <<"requested", "granted">>},
        n \in 0 .. MaxRetries, last \in {"failed", "finished"}}

TimelineClosed == \A r \in Requests : stage[r] = "ended" => log[r] \in Timelines

\* With a time limit on approvals, a call that was announced comes to an end
\* without anybody's help: no answer, no client and no restart is needed.
CallEnds ==
    \A r \in Requests : stage[r] = "announcing" ~> stage[r] \in Ended

\* "When the client disconnects, refuse all pending approvals of the session,
\* so that no Future hangs forever" (comment on cancel_session): a call that
\* waits for an answer while nobody is connected stops waiting.
DisconnectReleases ==
    \A r \in Requests : pc[r] = "waiting" /\ ~attached ~> pc[r] # "waiting"
=============================================================================
