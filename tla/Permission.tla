----------------------------- MODULE Permission -----------------------------
(***************************************************************************)
(* PermissionManager (core/permissions/manager.py): decides each tool call *)
(* from patterns, caches and defaults, or parks the calling task on a      *)
(* future until a client answers, a timer fires or the task is cancelled.  *)
(*                                                                         *)
(* Everything between two awaits is one step of the asyncio event loop,    *)
(* hence one action.  A task that is parked becomes runnable in one step   *)
(* (its future is set or cancelled, or the task is cancelled) and resumes  *)
(* in a later one, so that other handlers run in between.                  *)
(***************************************************************************)
EXTENDS PermissionPolicy, FiniteSets

CONSTANTS Requests,     \* tool_use ids; an id is used by one call only
          InitialFile,  \* policy.toml when the daemon first starts
          Timed         \* timeout_s > 0

ASSUME PermissionAssumption ==
    /\ InitialFile \in [Tools -> Cached]
    /\ Timed \in BOOLEAN

VARIABLES
    pc,               \* where check_and_wait(r) is
    call,             \* its arguments
    future,           \* the state of its future; keeps the answer once set
    interrupt,        \* what has been thrown at the waiting task
    reply,            \* what check_and_wait returned
    pending,          \* keys of _pending
    sessionAlways,    \* _session_always
    persistentAlways, \* _persistent_always
    policyFile        \* the [always] section of policy.toml

taskVars  == <<pc, call, future, interrupt, reply>>
cacheVars == <<sessionAlways, persistentAlways, policyFile>>
vars      == <<taskVars, pending, cacheVars>>

NoCall  == [tool |-> None]
NoReply == [allowed |-> FALSE, decision |-> None]

Replies == [allowed : BOOLEAN,
            decision : Decisions \cup {None, "auto_allow", "auto_deny", "timeout"}]

Live(r) == pc[r] \in {"emitting", "waiting"}

TypeOK ==
    /\ pc \in [Requests -> {"idle", "emitting", "waiting", "done", "aborted"}]
    /\ call \in [Requests -> CallType \cup {NoCall}]
    /\ \A r \in Requests : pc[r] # "idle" => call[r] \in Calls
    /\ future \in [Requests -> Decisions \cup {None, "pending", "cancelled"}]
    /\ interrupt \in [Requests -> {None, "timer", "cancel"}]
    /\ reply \in [Requests -> Replies]
    /\ pending \subseteq Requests
    /\ sessionAlways \in [Sessions \X Tools -> Cached]
    /\ persistentAlways \in [Tools -> Cached]
    /\ policyFile \in [Tools -> Cached]

Init ==
    /\ pc = [r \in Requests |-> "idle"]
    /\ call = [r \in Requests |-> NoCall]
    /\ future = [r \in Requests |-> None]
    /\ interrupt = [r \in Requests |-> None]
    /\ reply = [r \in Requests |-> NoReply]
    /\ pending = {}
    /\ sessionAlways = [st \in Sessions \X Tools |-> None]
    /\ persistentAlways = InitialFile
    /\ policyFile = InitialFile

-----------------------------------------------------------------------------
(* Slips in this code that the properties below must notice; Next uses none *)
(* of them.                                                                 *)

CacheEntryPersistentFirst(c) ==
    IF persistentAlways[c.tool] # None
    THEN persistentAlways[c.tool]
    ELSE sessionAlways[<<c.session, c.tool>>]

AutomaticVerdict(v) == [allowed |-> v = "allow", decision |-> v]

CancelSessionClearsTable(s) ==
    LET cancelled == {r \in pending : call[r].session = s}
    IN  /\ cancelled # {}
        /\ pending' = {}
        /\ future' = [r \in Requests |->
                        IF r \in cancelled /\ future[r] = "pending"
                        THEN "deny_once" ELSE future[r]]
        /\ UNCHANGED <<pc, call, interrupt, reply, cacheVars>>

RememberRefusals(r) ==
    IF future[r] # "allow_once"
    THEN /\ sessionAlways' = [sessionAlways EXCEPT
                ![<<call[r].session, call[r].tool>>] = CachedAs(future[r])]
         /\ persistentAlways' =
                [persistentAlways EXCEPT ![call[r].tool] = CachedAs(future[r])]
         /\ policyFile' = persistentAlways'
    ELSE UNCHANGED cacheVars

ResumeTimeoutIfListed(r) ==
    /\ pc[r] = "waiting"
    /\ interrupt[r] = "timer"
    /\ r \in pending
    /\ pc' = [pc EXCEPT ![r] = "done"]
    /\ reply' = [reply EXCEPT ![r] = [allowed |-> FALSE, decision |-> "timeout"]]
    /\ pending' = pending \ {r}
    /\ UNCHANGED <<call, future, interrupt, cacheVars>>

-----------------------------------------------------------------------------
(* check_and_wait up to its first await                                    *)

CacheEntry(c) ==
    IF sessionAlways[<<c.session, c.tool>>] # None
    THEN sessionAlways[<<c.session, c.tool>>]
    ELSE persistentAlways[c.tool]

\* Two slips in the order of the tiers.
TiersCacheFirst(c) ==
    CASE c.deny -> "deny"
      [] ~c.deny /\ CacheEntry(c) # None -> CacheEntry(c)
      [] ~c.deny /\ CacheEntry(c) = None ->
            IF c.outside THEN "ask" ELSE StaticVerdict(c)

TiersPermitFirst(c) ==
    CASE c.permit -> "allow"
      [] ~c.permit /\ c.deny -> "deny"
      [] ~c.permit /\ ~c.deny /\ c.outside -> "ask"
      [] ~c.permit /\ ~c.deny /\ ~c.outside ->
            IF CacheEntry(c) # None THEN CacheEntry(c) ELSE Default[c.tool]

\* The tiers in the order of the code
Tiers(c) ==
    CASE c.deny -> "deny"
      [] ~c.deny /\ c.outside -> "ask"
      [] ~c.deny /\ ~c.outside ->
            IF CacheEntry(c) # None THEN CacheEntry(c) ELSE StaticVerdict(c)

Automatic(v) == [allowed |-> v = "allow",
            decision |-> IF v = "allow" THEN "auto_allow" ELSE "auto_deny"]

Decide(r, c) ==
    /\ pc[r] = "idle"
    /\ Tiers(c) # "ask"
    /\ pc' = [pc EXCEPT ![r] = "done"]
    /\ call' = [call EXCEPT ![r] = c]
    /\ reply' = [reply EXCEPT ![r] = Automatic(Tiers(c))]
    /\ UNCHANGED <<future, interrupt, pending, cacheVars>>

\* The future is registered before the request is announced, so that an
\* answer may come while the announcement is still being delivered.
Ask(r, c) ==
    /\ pc[r] = "idle"
    /\ Tiers(c) = "ask"
    /\ pc' = [pc EXCEPT ![r] = "emitting"]
    /\ call' = [call EXCEPT ![r] = c]
    /\ future' = [future EXCEPT ![r] = "pending"]
    /\ pending' = pending \cup {r}
    /\ UNCHANGED <<interrupt, reply, cacheVars>>

-----------------------------------------------------------------------------
(* The waiting task is woken                                               *)

\* respond(); an id that is not pending is ignored.
Respond(r, d) ==
    /\ r \in pending
    /\ pending' = pending \ {r}
    /\ future' = [future EXCEPT ![r] = IF @ = "pending" THEN d ELSE @]
    /\ UNCHANGED <<pc, call, interrupt, reply, cacheVars>>

\* cancel_session()
CancelSession(s) ==
    LET cancelled == {r \in pending : call[r].session = s}
    IN  /\ cancelled # {}
        /\ pending' = pending \ cancelled
        /\ future' = [r \in Requests |->
                        IF r \in cancelled /\ future[r] = "pending"
                        THEN "deny_once" ELSE future[r]]
        /\ UNCHANGED <<pc, call, interrupt, reply, cacheVars>>

\* A future the task awaits is cancelled with it; one already set is not,
\* and the task then resumes with the interrupt instead of the answer.
Interrupted(r, cause) ==
    /\ interrupt' = [interrupt EXCEPT ![r] = cause]
    /\ future' = [future EXCEPT ![r] =
                    IF pc[r] = "waiting" /\ @ = "pending" THEN "cancelled" ELSE @]
    /\ UNCHANGED <<pc, call, reply, pending, cacheVars>>

\* asyncio.wait_for's timer, armed only once the request has been announced
Timer(r) ==
    /\ Timed
    /\ pc[r] = "waiting"
    /\ interrupt[r] = None
    /\ Interrupted(r, "timer")

\* The task running the call is cancelled: the daemon shuts down, or the
\* time limit of a foreground sub-agent the call belongs to has passed.
CancelTask(r) ==
    /\ Live(r)
    /\ interrupt[r] # "cancel"
    /\ Interrupted(r, "cancel")

-----------------------------------------------------------------------------
(* The task resumes                                                        *)

\* _apply_response(); a save that fails is only logged, whether or not it
\* had truncated the file already.
Remember(r) ==
    IF future[r] \in Always
    THEN /\ sessionAlways' = [sessionAlways EXCEPT
                ![<<call[r].session, call[r].tool>>] = CachedAs(future[r])]
         /\ persistentAlways' =
                [persistentAlways EXCEPT ![call[r].tool] = CachedAs(future[r])]
         /\ policyFile' \in {persistentAlways', policyFile, [t \in Tools |-> None]}
    ELSE UNCHANGED cacheVars

Apply(r) ==
    /\ Remember(r)
    /\ reply' = [reply EXCEPT ![r] =
                   [allowed |-> future[r] \in Allowing, decision |-> future[r]]]
    /\ pc' = [pc EXCEPT ![r] = "done"]
    /\ UNCHANGED <<call, future, interrupt, pending>>

\* event_emitter has returned: wait_for parks the task, unless it finds the
\* answer already there and goes straight on.
EmitDone(r) ==
    /\ pc[r] = "emitting"
    /\ interrupt[r] = None
    /\ IF future[r] \in Decisions
       THEN Apply(r)
       ELSE /\ pc' = [pc EXCEPT ![r] = "waiting"]
            /\ UNCHANGED <<call, future, interrupt, reply, pending, cacheVars>>

ResumeAnswered(r) ==
    /\ pc[r] = "waiting"
    /\ interrupt[r] = None
    /\ future[r] \in Decisions
    /\ Apply(r)

ResumeTimeout(r) ==
    /\ pc[r] = "waiting"
    /\ interrupt[r] = "timer"
    /\ pc' = [pc EXCEPT ![r] = "done"]
    /\ reply' = [reply EXCEPT ![r] = [allowed |-> FALSE, decision |-> "timeout"]]
    /\ pending' = pending \ {r}
    /\ UNCHANGED <<call, future, interrupt, cacheVars>>

\* CancelledError and an exception of the event emitter both leave through
\* check_and_wait without touching the _pending table.
Unwind(r) ==
    /\ pc' = [pc EXCEPT ![r] = "aborted"]
    /\ UNCHANGED <<call, future, interrupt, reply, pending, cacheVars>>

AbortCancelled(r) == Live(r) /\ interrupt[r] = "cancel" /\ Unwind(r)

EmitFails(r) == pc[r] = "emitting" /\ interrupt[r] = None /\ Unwind(r)

-----------------------------------------------------------------------------
(* The daemon dies and is started again: memory is gone, the file is read. *)

Restart(file) ==
    /\ pc' = [r \in Requests |-> IF Live(r) THEN "aborted" ELSE pc[r]]
    /\ pending' = {}
    /\ sessionAlways' = [st \in Sessions \X Tools |-> None]
    /\ persistentAlways' = file
    /\ policyFile' = file
    /\ UNCHANGED <<call, future, interrupt, reply>>

Crash == Restart(policyFile)

\* write_text() truncates the file before it writes the new text.
CrashInSave(r) ==
    /\ Live(r) /\ interrupt[r] = None
    /\ future[r] \in Always
    /\ Restart([t \in Tools |-> None])

-----------------------------------------------------------------------------

Resume(r) == ResumeAnswered(r) \/ ResumeTimeout(r) \/ AbortCancelled(r)

Next ==
    \/ \E r \in Requests :
          \/ \E c \in Calls : Decide(r, c) \/ Ask(r, c)
          \/ \E d \in Answers : Respond(r, d)
          \/ Timer(r) \/ CancelTask(r)
          \/ EmitDone(r) \/ EmitFails(r) \/ Resume(r)
          \/ CrashInSave(r)
    \/ \E s \in Sessions : CancelSession(s)
    \/ Crash

Spec == Init /\ [][Next]_vars

-----------------------------------------------------------------------------
(* Properties                                                              *)

\* A task that waits for an answer can be given one: its request stays in
\* the _pending table for as long as its future is unset, whatever other
\* answers, timeouts, cancellations and restarts do to the table.  Otherwise
\* permission.respond would log "unknown tool_use_id" and the run would hang.
WaiterReachable ==
    \A r \in Requests :
        Live(r) /\ future[r] = "pending" /\ interrupt[r] = None => r \in pending

\* t was given the "always" decision d by a call that settled with it.
Given(t, d) ==
    \/ InitialFile[t] = CachedAs(d)
    \/ \E q \in Requests :
          pc[q] = "done" /\ call[q].tool = t /\ reply[q].decision = d

Backed(t, v) == \A d \in Always : v = CachedAs(d) => Given(t, d)

\* No verdict is ever found in the session cache, the persistent cache or
\* policy.toml unless a user gave it for that tool (in that session, for the
\* session cache): failed or interrupted saves and restarts may forget a
\* decision but can neither invent nor invert one.
StoresBacked ==
    /\ \A t \in Tools : Backed(t, persistentAlways[t]) /\ Backed(t, policyFile[t])
    /\ \A s \in Sessions, t \in Tools, d \in Always :
          sessionAlways[<<s, t>>] = CachedAs(d) =>
              \E q \in Requests :
                 /\ pc[q] = "done" /\ reply[q].decision = d
                 /\ call[q].session = s /\ call[q].tool = t

\* A call check_and_wait lets through was let through by its own answer, or
\* needed none.  No cache, however filled, lets a denied command or a command
\* outside the working directory through, and neither does an answer that
\* came after the timer or a cancellation had struck.
GrantJustified ==
    \A r \in Requests : reply[r].allowed =>
        /\ ~call[r].deny
        /\ \/ future[r] \in Allowing /\ interrupt[r] = None
           \/ /\ ~call[r].outside
              /\ \/ StaticVerdict(call[r]) = "allow"
                 \/ Given(call[r].tool, "always_allow")

\* An "always" answer holds for sessions still to come: what one session
\* remembers the daemon remembers too, so a tool settled in one session is
\* settled in a new one.
PersistentCoversSession ==
    \A s \in Sessions, t \in Tools :
        sessionAlways[<<s, t>>] # None => persistentAlways[t] # None

\* A session that answered always_deny keeps refusing the tool without
\* asking, also after another session has answered always_allow and
\* overwritten the verdict all sessions share.
SessionDenyHolds ==
    [][\A r \in Requests :
          /\ pc[r] = "idle" /\ pc'[r] = "done" /\ reply'[r].allowed
          => sessionAlways[<<call'[r].session, call'[r].tool>>] # "deny"]_vars

\* The manager implements the promise of Approval.
VerdictOf(r) ==
    CASE pc[r] = "idle"    -> "new"
      [] Live(r)           -> "asked"
      [] pc[r] = "aborted" -> "dropped"
      [] pc[r] = "done"    -> IF reply[r].allowed THEN "granted" ELSE "refused"

Gate == INSTANCE Approval WITH
          answer  <- [r \in Requests |->
                        IF future[r] \in Decisions THEN future[r] ELSE None],
          verdict <- [r \in Requests |-> VerdictOf(r)]

ImplementsApproval == Gate!ApprovalSpec
=============================================================================
