--------------------------- MODULE ToolCallProofs ---------------------------
(***************************************************************************)
(* Proofs about invoke_tool around the permission manager, for any number  *)
(* of calls and any limit on retries, on top of the proofs about the       *)
(* manager.                                                                *)
(***************************************************************************)
EXTENDS ToolCall, PermissionProofs, SequenceTheorems

-----------------------------------------------------------------------------
(* What a settled call's reply says of its future                          *)

\* A call nobody was asked about has no future and an automatic reply; one
\* that was asked about has a future, and is let through by it only.
AskedOrAutomatic ==
    \A r \in Requests :
        /\ Live(r) => future[r] # None
        /\ pc[r] = "done" /\ future[r] = None =>
              reply[r].decision =
                  IF reply[r].allowed THEN "auto_allow" ELSE "auto_deny"
        /\ pc[r] = "done" /\ future[r] # None =>
              /\ reply[r].decision \notin {"auto_allow", "auto_deny"}
              /\ reply[r].allowed => future[r] \in Allowing /\ interrupt[r] = None

\* Whether a call has a future is settled when check_and_wait begins.
LEMMA FutureStays ==
  ASSUME TypeOK, Shape, [Next]_vars, NEW q \in Requests, pc[q] # "idle"
  PROVE  pc'[q] # "idle" /\ (future'[q] = None <=> future[q] = None)
<1>1. ASSUME NEW r \in Requests, NEW c \in Calls, Decide(r, c) \/ Ask(r, c)
      PROVE  pc'[q] # "idle" /\ (future'[q] = None <=> future[q] = None)
  BY <1>1 DEF TypeOK, Decide, Ask
<1>2. ASSUME NEW r \in Requests, NEW d \in Answers, Respond(r, d)
      PROVE  pc'[q] # "idle" /\ (future'[q] = None <=> future[q] = None)
  BY <1>2, PolicyAssumption DEF TypeOK, Respond, Decisions, None
<1>3. ASSUME NEW r \in Requests, Timer(r) \/ CancelTask(r)
      PROVE  pc'[q] # "idle" /\ (future'[q] = None <=> future[q] = None)
  BY <1>3 DEF TypeOK, Timer, CancelTask, Interrupted, None
<1>4. ASSUME NEW r \in Requests, EmitDone(r) \/ EmitFails(r) \/ Resume(r)
      PROVE  pc'[q] # "idle" /\ (future'[q] = None <=> future[q] = None)
  BY <1>4 DEF TypeOK, EmitDone, EmitFails, Resume, ResumeAnswered, ResumeTimeout,
              AbortCancelled, Apply, Remember, Unwind, Live
<1>5. ASSUME NEW s \in Sessions, CancelSession(s)
      PROVE  pc'[q] # "idle" /\ (future'[q] = None <=> future[q] = None)
  BY <1>5 DEF TypeOK, CancelSession, None
<1>6. ASSUME NEW file, Restart(file)
      PROVE  pc'[q] # "idle" /\ (future'[q] = None <=> future[q] = None)
  BY <1>6 DEF TypeOK, Restart, Live
<1>7. CASE UNCHANGED vars
  BY <1>7 DEF vars, taskVars
<1> QED
  BY <1>1, <1>2, <1>3, <1>4, <1>5, <1>6, <1>7 DEF Next, Crash, CrashInSave

LEMMA AskedStep ==
  TypeOK /\ Shape /\ AskedOrAutomatic /\ [Next]_vars => AskedOrAutomatic'
<1> DEFINE Good(q) ==
        /\ Live(q) => future[q] # None
        /\ pc[q] = "done" /\ future[q] = None =>
              reply[q].decision =
                  IF reply[q].allowed THEN "auto_allow" ELSE "auto_deny"
        /\ pc[q] = "done" /\ future[q] # None =>
              /\ reply[q].decision \notin {"auto_allow", "auto_deny"}
              /\ reply[q].allowed => future[q] \in Allowing /\ interrupt[q] = None
<1> SUFFICES ASSUME TypeOK, Shape, AskedOrAutomatic, [Next]_vars, NEW q \in Requests
             PROVE  Good(q)'
  BY DEF AskedOrAutomatic
<1>1. CASE pc[q] = "done"
  BY <1>1, SettledStable, FutureStays, AnswerStable DEF AskedOrAutomatic, Live
<1>2. CASE pc[q] # "done" /\ pc'[q] # "done"
  <2>1. CASE pc[q] = "idle"
    <3>1. ASSUME NEW r \in Requests, NEW c \in Calls, Decide(r, c) \/ Ask(r, c)
          PROVE  Good(q)'
      BY <1>2, <2>1, <3>1 DEF TypeOK, Decide, Ask, Live, None
    <3>2. CASE pc'[q] = "idle"
      BY <3>2 DEF Live
    <3>3. \/ \E r \in Requests, c \in Calls : Decide(r, c) \/ Ask(r, c)
          \/ pc'[q] = "idle" \/ pc'[q] = "done"
      <4>1. ASSUME NEW r \in Requests, EmitDone(r) \/ EmitFails(r) \/ Resume(r)
            PROVE  pc'[q] = "idle" \/ pc'[q] = "done"
        <5>1. pc[r] # "idle"
          BY <4>1, Zenon DEF EmitDone, EmitFails, Resume, ResumeAnswered, ResumeTimeout,
             AbortCancelled, Live
        <5>2. \E v : pc' = [pc EXCEPT ![r] = v]
          BY <4>1, Zenon DEF EmitDone, EmitFails, Resume, ResumeAnswered, ResumeTimeout,
             Apply, AbortCancelled, Unwind
        <5>3. q # r /\ q \in DOMAIN pc
          BY <2>1, <5>1 DEF TypeOK
        <5> QED BY <2>1, <5>2, <5>3
      <4>2. ASSUME NEW r \in Requests, CrashInSave(r) \/ Crash
            PROVE  pc'[q] = "idle" \/ pc'[q] = "done"
        <5>1. pc' = [p \in Requests |-> IF Live(p) THEN "aborted" ELSE pc[p]]
          BY <4>2, Zenon DEF Crash, CrashInSave, Restart
        <5> QED BY <2>1, <5>1 DEF Live
      <4>3. ASSUME \/ UNCHANGED vars
                   \/ \E s \in Sessions : CancelSession(s)
                   \/ \E r \in Requests : \/ \E d \in Answers : Respond(r, d)
                                          \/ Timer(r) \/ CancelTask(r)
            PROVE  pc'[q] = "idle"
        <5>1. pc' = pc
          BY <4>3, Zenon DEF CancelSession, Respond, Timer, CancelTask, Interrupted,
             vars, taskVars
        <5> QED BY <2>1, <5>1
      <4> QED BY <4>1, <4>2, <4>3, Zenon DEF Next
    <3> QED BY <1>2, <3>1, <3>2, <3>3
  <2>2. CASE pc[q] # "idle"
    <3>1. Live(q)' => Live(q)
      BY <2>2
      DEF TypeOK, Live, Next, Decide, Ask, Respond, Timer, CancelTask, Interrupted,
          EmitDone, EmitFails, Resume, ResumeAnswered, ResumeTimeout, Apply, Remember,
          AbortCancelled, Unwind, Crash, CrashInSave, Restart, CancelSession, vars, taskVars
    <3> QED
      BY <1>2, <2>2, <3>1, FutureStays DEF AskedOrAutomatic
  <2> QED
    BY <2>1, <2>2
<1>3. CASE pc[q] # "done" /\ pc'[q] = "done"
  <2>1. ASSUME NEW r \in Requests, NEW c \in Calls, Decide(r, c)
        PROVE  Good(q)'
    <3>1. r = q /\ reply'[q] = Automatic(Tiers(c)) /\ future'[q] = None /\ pc'[q] = "done"
      BY <1>3, <2>1 DEF Decide, TypeOK, Shape
    <3> DEFINE v == Tiers(c)
    <3>2. /\ reply'[q].allowed = (v = "allow")
          /\ reply'[q].decision = IF v = "allow" THEN "auto_allow" ELSE "auto_deny"
      <4> HIDE DEF v
      <4>1. reply'[q] = Automatic(v)
        BY <3>1 DEF v
      <4> QED
        BY <4>1 DEF Automatic
    <3> HIDE DEF v
    <3>3. CASE v = "allow"
      BY <3>1, <3>2, <3>3 DEF Live
    <3>4. CASE v # "allow"
      BY <3>1, <3>2, <3>4 DEF Live
    <3> QED
      BY <3>3, <3>4
  <2>2. ASSUME NEW r \in Requests, Live(r), interrupt[r] = None, future[r] \in Decisions,
               Apply(r)
        PROVE  Good(q)'
    <3>1. /\ r = q /\ future' = future /\ interrupt' = interrupt
          /\ reply'[q].decision = future[q] /\ reply'[q].allowed = (future[q] \in Allowing)
      BY <1>3, <2>2 DEF Apply, Remember, TypeOK
    <3> QED
      BY <1>3, <2>2, <3>1 DEF Live, Decisions, None
  <2>3. ASSUME NEW r \in Requests, ResumeTimeout(r)
        PROVE  Good(q)'
    BY <1>3, <2>3 DEF ResumeTimeout, TypeOK, Live, AskedOrAutomatic
  <2>4. ASSUME NEW r \in Requests, EmitDone(r) \/ ResumeAnswered(r)
        PROVE  Good(q)'
    <3>1. CASE future[r] \in Decisions
      BY <2>2, <2>4, <3>1 DEF EmitDone, ResumeAnswered, Live
    <3>2. CASE future[r] \notin Decisions
      BY <1>3, <2>4, <3>2 DEF EmitDone, ResumeAnswered, TypeOK
    <3> QED
      BY <3>1, <3>2
  <2>5. CASE pc' = pc
    BY <1>3, <2>5
  <2>6. CASE \E r \in Requests, c \in Calls : Ask(r, c)
    BY <1>3, <2>6 DEF Ask, TypeOK
  <2>7. CASE \E r \in Requests : Unwind(r)
    BY <1>3, <2>7 DEF Unwind, TypeOK
  <2>8. ASSUME NEW file, Restart(file) PROVE FALSE
    BY <1>3, <2>8 DEF Restart, TypeOK
  <2>9. ASSUME NEW r \in Requests, NEW d \in Answers, Respond(r, d) PROVE FALSE
    BY <1>3, <2>9 DEF Respond
  <2>10. ASSUME NEW r \in Requests, Timer(r) \/ CancelTask(r) PROVE FALSE
    BY <1>3, <2>10 DEF Timer, CancelTask, Interrupted
  <2>11. ASSUME NEW s \in Sessions, CancelSession(s) PROVE FALSE
    BY <1>3, <2>11 DEF CancelSession
  <2>12. CASE UNCHANGED vars
    BY <2>5, <2>12 DEF vars, taskVars
  <2>13. CASE \E r \in Requests : EmitFails(r) \/ AbortCancelled(r)
    BY <2>7, <2>13 DEF EmitFails, AbortCancelled
  <2>14. CASE Crash \/ \E r \in Requests : CrashInSave(r)
    BY <2>8, <2>14 DEF Crash, CrashInSave
  <2> QED
    BY <2>1, <2>3, <2>4, <2>6, <2>9, <2>10, <2>11, <2>12, <2>13, <2>14 DEF Next, Resume
<1> QED
  BY <1>1, <1>2, <1>3

-----------------------------------------------------------------------------
(* The events of a call                                                    *)

Events == {"started", "failed", "requested", "granted", "denied", "finished"}

\* A call that has failed n times, with the events p of its prompt.
History(p, n) == <<"started">> \o p \o Failures(n)

\* The events of a prompt that is still open, and of one that was granted.
Shown(r)   == IF future[r] = None THEN <<>> ELSE <<"requested">>
Granted(r) == IF future[r] = None THEN <<>> ELSE <<"requested", "granted">>

LEMMA FailuresType ==
  ASSUME NEW n \in Nat
  PROVE  Failures(n) \in Seq(Events) /\ Len(Failures(n)) = n
  BY DEF Failures, Events

LEMMA Joined ==
  ASSUME NEW s \in Seq(Events), NEW t \in Seq(Events)
  PROVE  s \o t \in Seq(Events) /\ Len(s \o t) = Len(s) + Len(t)
  BY ConcatProperties

LEMMA JoinedSingles ==
  ASSUME NEW a \in Events, NEW b \in Events
  PROVE  <<a>> \o <<b>> = <<a, b>>
<1> DEFINE s == <<a>> \o <<b>>
<1> DEFINE t == <<a, b>>
<1>1. s \in Seq(Events) /\ Len(s) = 2 /\ s[1] = a /\ s[2] = b
  BY ConcatProperties
<1>2. t \in Seq(Events) /\ Len(t) = 2 /\ t[1] = a /\ t[2] = b
  OBVIOUS
<1>3. s = t
  <2> HIDE DEF s, t
  <2>1. Len(s) = Len(t) /\ \A i \in 1 .. Len(s) : s[i] = t[i]
    BY <1>1, <1>2
  <2> QED
    BY <1>1, <1>2, <2>1, SeqEqual, Zenon
<1> QED
  BY <1>3

LEMMA JoinedPairs ==
  ASSUME NEW a \in Events, NEW b \in Events, NEW c \in Events, NEW d \in Events
  PROVE  <<a, b>> \o <<c, d>> = <<a, b, c, d>>
<1> DEFINE s == <<a, b>> \o <<c, d>>
<1> DEFINE t == <<a, b, c, d>>
<1>1. s \in Seq(Events) /\ Len(s) = 4 /\ s[1] = a /\ s[2] = b /\ s[3] = c /\ s[4] = d
  BY ConcatProperties
<1>2. t \in Seq(Events) /\ Len(t) = 4 /\ t[1] = a /\ t[2] = b /\ t[3] = c /\ t[4] = d
  OBVIOUS
<1>3. s = t
  <2> HIDE DEF s, t
  <2>1. Len(s) = Len(t) /\ \A i \in 1 .. Len(s) : s[i] = t[i]
    BY <1>1, <1>2
  <2> QED
    BY <1>1, <1>2, <2>1, SeqEqual, Zenon
<1> QED
  BY <1>3

LEMMA Opened ==
  ASSUME NEW p \in Seq(Events)
  PROVE  /\ <<"started">> \o p \in Seq(Events)
         /\ Len(<<"started">> \o p) = 1 + Len(p)
<1>1. <<"started">> \in Seq(Events) /\ Len(<<"started">>) = 1
  BY DEF Events
<1> QED
  BY <1>1, Joined

LEMMA HistoryType ==
  ASSUME NEW p \in Seq(Events), NEW n \in Nat
  PROVE  /\ History(p, n) \in Seq(Events)
         /\ Len(History(p, n)) = 1 + Len(p) + n
<1> DEFINE s == <<"started">> \o p
<1> DEFINE t == Failures(n)
<1>1. /\ s \in Seq(Events) /\ Len(s) = 1 + Len(p)
      /\ t \in Seq(Events) /\ Len(t) = n
      /\ History(p, n) = s \o t
  BY Opened, FailuresType DEF History
<1> HIDE DEF s, t
<1>2. s \o t \in Seq(Events) /\ Len(s \o t) = Len(s) + Len(t)
  BY <1>1, Joined
<1> QED
  BY <1>1, <1>2

LEMMA HistoryFails ==
  ASSUME NEW p \in Seq(Events), NEW n \in Nat
  PROVE  History(p, n) \o <<"failed">> = History(p, n + 1)
<1>1. Failures(n) \o <<"failed">> = Failures(n + 1)
  BY DEF Failures
<1> DEFINE s == <<"started">> \o p
<1> DEFINE t == Failures(n)
<1> DEFINE u == <<"failed">>
<1>2. s \in Seq(Events) /\ t \in Seq(Events)
  BY Opened, FailuresType
<1>3. u \in Seq(Events)
  BY DEF Events
<1>4. History(p, n) = s \o t /\ History(p, n + 1) = s \o (t \o u)
  BY <1>1, Zenon DEF History
<1> HIDE DEF s, t
<1>5. (s \o t) \o u = s \o (t \o u)
  <2> HIDE DEF u
  <2> QED
    BY <1>2, <1>3, ConcatAssociative
<1> QED
  BY <1>4, <1>5

LEMMA HistoryBegins ==
  ASSUME NEW p \in Seq(Events)
  PROVE  History(p, 0) = <<"started">> \o p
<1>1. Failures(0) = <<>>
  BY DEF Failures
<1>2. <<"started">> \o p \in Seq(Events)
  BY Opened
<1> QED
  BY <1>1, <1>2, ConcatEmptySeq DEF History

Prompts == {<<>>, <<"requested", "granted">>}

LEMMA PromptsType ==
  ASSUME NEW p \in Prompts
  PROVE  p \in Seq(Events) /\ Len(p) <= 2
<1>1. CASE p = <<>>
  BY <1>1
<1>2. CASE p = <<"requested", "granted">>
  BY <1>2 DEF Events
<1> QED
  BY <1>1, <1>2 DEF Prompts

\* The timelines of calls that were executed, all but the last time in vain.
Executed ==
    {History(p, n) \o <<last>> :
        p \in Prompts, n \in 0 .. MaxRetries, last \in {"failed", "finished"}}

LEMMA TimelinesSplit ==
  Timelines = {<<"started", "failed">>, <<"started", "requested", "denied", "failed">>}
              \cup Executed
  BY DEF Timelines, Executed, Prompts, History

\* A call that ends in an execution, or before one, has a closed timeline.
LEMMA Closes ==
  ASSUME NEW p \in Prompts, NEW n \in 0 .. MaxRetries, NEW last \in {"failed", "finished"}
  PROVE  History(p, n) \o <<last>> \in Timelines
<1>1. History(p, n) \o <<last>> \in Executed
  BY DEF Executed
<1> QED
  BY <1>1, TimelinesSplit, Zenon

LEMMA TimelineLength ==
  ASSUME NEW t \in Timelines
  PROVE  Len(t) <= MaxRetries + 4
<1>1. CASE t = <<"started", "failed">>
  <2>1. Len(t) = 2
    BY <1>1
  <2> QED BY <2>1, RetryAssumption
<1>2. CASE t = <<"started", "requested", "denied", "failed">>
  <2>1. Len(t) = 4
    BY <1>2
  <2> QED BY <2>1, RetryAssumption
<1>3. ASSUME NEW p \in Prompts, NEW n \in 0 .. MaxRetries,
             NEW last \in {"failed", "finished"}, t = History(p, n) \o <<last>>
      PROVE  Len(t) <= MaxRetries + 4
  <2>1. n \in Nat /\ n <= MaxRetries
    BY RetryAssumption
  <2>2. History(p, n) \in Seq(Events) /\ Len(History(p, n)) <= 3 + n
    BY <2>1, PromptsType, HistoryType
  <2>3. <<last>> \in Seq(Events) /\ Len(<<last>>) = 1
    BY DEF Events
  <2>4. Len(t) = Len(History(p, n)) + 1
    BY <1>3, <2>2, <2>3, Joined
  <2> QED
    BY <2>1, <2>2, <2>4, RetryAssumption
<1>4. \/ t \in {<<"started", "failed">>, <<"started", "requested", "denied", "failed">>}
      \/ \E p \in Prompts, n \in 0 .. MaxRetries, last \in {"failed", "finished"} :
            t = History(p, n) \o <<last>>
  <2>1. t \in Executed =>
            \E p \in Prompts, n \in 0 .. MaxRetries, last \in {"failed", "finished"} :
                t = History(p, n) \o <<last>>
    BY DEF Executed
  <2>2. t \in Executed
        \/ t \in {<<"started", "failed">>, <<"started", "requested", "denied", "failed">>}
    BY TimelinesSplit, Zenon
  <2> QED BY <2>1, <2>2, Zenon
<1>5. ASSUME \E p \in Prompts, n \in 0 .. MaxRetries, last \in {"failed", "finished"} :
                t = History(p, n) \o <<last>>
      PROVE  Len(t) <= MaxRetries + 4
  BY <1>3, <1>5, Zenon
<1> QED
  BY <1>1, <1>2, <1>4, <1>5, Zenon

-----------------------------------------------------------------------------
(* Where a call is and what has been published of it                       *)

InvocationTyped ==
    /\ stage \in [Requests -> {"new", "announcing", "checking", "executing",
                               "backoff"} \cup Ended]
    /\ attempt \in [Requests -> 0 .. MaxRetries + 1]
    /\ log \in [Requests -> Seq(Events)]
    /\ attached \in BOOLEAN

\* The invocation follows the check: it begins before it, waits for it, and
\* executes only what it has let through.
Follows(r) ==
    /\ stage[r] \in {"new", "announcing"} => pc[r] = "idle"
    /\ stage[r] \in {"new", "announcing", "checking"} => attempt[r] = 0
    /\ Live(r) => stage[r] = "checking"
    /\ stage[r] = "checking" => pc[r] # "idle"
    /\ stage[r] \in {"executing", "backoff"} => attempt[r] > 0
    /\ stage[r] = "backoff" => attempt[r] <= MaxRetries
    /\ attempt[r] > 0 => pc[r] = "done" /\ reply[r].allowed

\* The log of a call is what its stage and its attempts say.
Logged(r) ==
    /\ stage[r] = "new" => log[r] = <<>>
    /\ stage[r] = "announcing" => log[r] = <<"started">>
    /\ stage[r] = "checking" => log[r] = <<"started">> \o Shown(r)
    /\ stage[r] = "executing" => log[r] = History(Granted(r), attempt[r] - 1)
    /\ stage[r] = "backoff" => log[r] = History(Granted(r), attempt[r])
    /\ stage[r] = "ended" => log[r] \in Timelines
    /\ stage[r] = "aborted" => Len(log[r]) <= MaxRetries + 4

\* A prompt was shown only for a call that has a future.
PromptHasFuture(r) ==
    future[r] = None => \A i \in DOMAIN log[r] : log[r][i] # "requested"

Fits(r) == Follows(r) /\ Logged(r) /\ PromptHasFuture(r)

LogFits == InvocationTyped /\ \A r \in Requests : Fits(r)

LEMMA CallInit_LogFits == CallInit => LogFits
<1> SUFFICES ASSUME CallInit PROVE LogFits
  OBVIOUS
<1>1. InvocationTyped
  BY RetryAssumption DEF CallInit, InvocationTyped
<1>2. ASSUME NEW r \in Requests PROVE Fits(r)
  BY DEF CallInit, Init, Fits, Follows, Logged, PromptHasFuture, Live
<1> QED
  BY <1>1, <1>2 DEF LogFits

\* What invoke_tool does of the manager is a step of the manager or none.
LEMMA CallStepsManager == [CallNext]_callVars => [Next]_vars
<1> SUFFICES ASSUME [CallNext]_callVars PROVE [Next]_vars
  OBVIOUS
<1>1. ASSUME NEW r \in Requests, NEW c \in Calls, Check(r, c) PROVE Next
  BY <1>1 DEF Check, Next
<1>2. ASSUME NEW r \in Requests, Checking(r) PROVE Next
  BY <1>2 DEF Checking, Unwinding, Deliver, Next, Resume
<1>3. CASE Die
  BY <1>3 DEF Die, Next
<1>4. CASE UNCHANGED vars
  BY <1>4
<1> QED
  BY <1>1, <1>2, <1>3, <1>4
  DEF CallNext, callVars, Start, Reject, Proceed, Refuse, Succeed, Retry, CancelCall,
      Fail, Disconnect, Connect

-----------------------------------------------------------------------------
(* Steps that leave the log of a call alone                                *)

LEMMA FitsKept ==
  ASSUME TypeOK, Shape, AskedOrAutomatic, [Next]_vars, InvocationTyped,
         NEW q \in Requests, Fits(q),
         stage'[q] = stage[q], attempt'[q] = attempt[q], log'[q] = log[q],
         pc[q] = "idle" => pc'[q] = "idle" /\ future'[q] = future[q]
  PROVE  Fits(q)'
<1>1. pc[q] = "done" => pc'[q] = "done" /\ reply'[q] = reply[q]
  BY SettledStable
<1>2. pc[q] # "idle" => pc'[q] # "idle" /\ (future'[q] = None <=> future[q] = None)
  BY FutureStays
<1>3. Live(q)' => Live(q)
  <2>1. CASE pc[q] = "idle"
    BY <2>1 DEF Live
  <2>2. CASE pc[q] = "aborted"
    BY <2>2
    DEF TypeOK, Live, Next, Decide, Ask, Respond, Timer, CancelTask, Interrupted,
        EmitDone, EmitFails, Resume, ResumeAnswered, ResumeTimeout, Apply, Remember,
        AbortCancelled, Unwind, Crash, CrashInSave, Restart, CancelSession, vars, taskVars
  <2> QED
    BY <1>1, <2>1, <2>2 DEF Live, TypeOK
<1>4. Follows(q)'
  BY <1>1, <1>2, <1>3 DEF Fits, Follows
<1>5. (future'[q] = None <=> future[q] = None)
  BY <1>2
<1>6. Shown(q)' = Shown(q) /\ Granted(q)' = Granted(q)
  BY <1>5 DEF Shown, Granted
<1>7. Logged(q)'
  BY <1>6 DEF Fits, Logged
<1> QED
  BY <1>4, <1>5, <1>7 DEF Fits, PromptHasFuture

\* The log of a call that is still going on is short.
LEMMA LogShort ==
  ASSUME InvocationTyped, NEW q \in Requests, Fits(q)
  PROVE  Len(log[q]) <= MaxRetries + 4
<1>1. Shown(q) \in Seq(Events) /\ Len(Shown(q)) \in Nat /\ Len(Shown(q)) <= 1
  <2>1. CASE future[q] = None
    BY <2>1 DEF Shown
  <2>2. CASE future[q] # None
    BY <2>2 DEF Shown, Events
  <2> QED
    BY <2>1, <2>2
<1>2. Granted(q) \in Prompts
  BY DEF Granted, Prompts
<1>3. Granted(q) \in Seq(Events) /\ Len(Granted(q)) <= 2 /\ Len(Granted(q)) \in Nat
  BY <1>2, PromptsType
<1>4. attempt[q] \in 0 .. MaxRetries + 1
  BY DEF InvocationTyped
<1>5. CASE stage[q] = "new"
  BY <1>5, RetryAssumption DEF Fits, Logged
<1>6. CASE stage[q] = "announcing"
  <2>1. log[q] = <<"started">>
    BY <1>6 DEF Fits, Logged
  <2>2. Len(<<"started">>) = 1
    OBVIOUS
  <2> QED
    BY <2>1, <2>2, RetryAssumption
<1>7. CASE stage[q] = "checking"
  BY <1>1, <1>7, Opened, RetryAssumption DEF Fits, Logged
<1>8. CASE stage[q] = "executing"
  <2>1. attempt[q] - 1 \in Nat /\ attempt[q] - 1 <= MaxRetries
    BY <1>4, <1>8, RetryAssumption DEF Fits, Follows
  <2>2. Len(log[q]) = 1 + Len(Granted(q)) + (attempt[q] - 1)
    BY <1>3, <1>8, <2>1, HistoryType DEF Fits, Logged
  <2> QED
    BY <1>3, <2>1, <2>2, RetryAssumption
<1>9. CASE stage[q] = "backoff"
  <2>1. attempt[q] \in Nat /\ attempt[q] <= MaxRetries
    BY <1>4, <1>9, RetryAssumption DEF Fits, Follows
  <2>2. Len(log[q]) = 1 + Len(Granted(q)) + attempt[q]
    BY <1>3, <1>9, <2>1, HistoryType DEF Fits, Logged
  <2> QED
    BY <1>3, <2>1, <2>2, RetryAssumption
<1>10. CASE stage[q] = "ended"
  BY <1>10, TimelineLength DEF Fits, Logged
<1>11. CASE stage[q] = "aborted"
  BY <1>11 DEF Fits, Logged
<1> QED
  BY <1>5, <1>6, <1>7, <1>8, <1>9, <1>10, <1>11 DEF InvocationTyped, Ended

\* A call that is aborted keeps what was published of it.
LEMMA FitsAborted ==
  ASSUME TypeOK, Shape, [Next]_vars, InvocationTyped,
         NEW q \in Requests, Fits(q), stage[q] # "new",
         stage'[q] = "aborted", attempt'[q] = attempt[q], log'[q] = log[q], ~Live(q)',
         pc[q] = "idle" => future'[q] = future[q]
  PROVE  Fits(q)'
<1>1. pc[q] = "done" => pc'[q] = "done" /\ reply'[q] = reply[q]
  BY SettledStable
<1>2. future'[q] = None <=> future[q] = None
  BY FutureStays
<1> QED
  BY <1>1, <1>2, LogShort DEF Fits, Follows, Logged, PromptHasFuture

-----------------------------------------------------------------------------
(* Steps that publish                                                      *)

Quiet(e) == \A i \in DOMAIN e : e[i] # "requested"

LEMMA QuietJoined ==
  ASSUME NEW s \in Seq(Events), NEW t \in Seq(Events), Quiet(s), Quiet(t)
  PROVE  Quiet(s \o t)
<1>1. /\ s \o t \in Seq(Events) /\ Len(s \o t) = Len(s) + Len(t)
      /\ \A i \in 1 .. Len(s) + Len(t) :
            (s \o t)[i] = IF i <= Len(s) THEN s[i] ELSE t[i - Len(s)]
  BY ConcatProperties
<1> SUFFICES ASSUME NEW i \in DOMAIN (s \o t) PROVE (s \o t)[i] # "requested"
  BY DEF Quiet
<1>2. i \in 1 .. Len(s) + Len(t) /\ Len(s) \in Nat /\ Len(t) \in Nat
  BY <1>1
<1>3. CASE i <= Len(s)
  BY <1>1, <1>2, <1>3 DEF Quiet
<1>4. CASE i > Len(s)
  <2>1. i - Len(s) \in DOMAIN t
    BY <1>2, <1>4
  <2> QED
    BY <1>1, <1>2, <1>4, <2>1 DEF Quiet
<1> QED
  BY <1>2, <1>3, <1>4

LEMMA Published ==
  ASSUME InvocationTyped, NEW r \in Requests, NEW e \in Seq(Events), Publish(r, e)
  PROVE  /\ log' \in [Requests -> Seq(Events)]
         /\ log'[r] = log[r] \o e
         /\ \A q \in Requests \ {r} : log'[q] = log[q]
         /\ PromptHasFuture(r) /\ Quiet(e) /\ (future'[r] = None <=> future[r] = None)
               => PromptHasFuture(r)'
<1>1. log[r] \o e \in Seq(Events)
  BY Joined DEF InvocationTyped
<1>2. log'[r] = log[r] \o e
  BY DEF Publish, InvocationTyped
<1>3. ASSUME PromptHasFuture(r), Quiet(e), future'[r] = None <=> future[r] = None
      PROVE  PromptHasFuture(r)'
  <2> SUFFICES ASSUME future[r] = None PROVE Quiet(log[r] \o e)
    BY <1>2, <1>3 DEF PromptHasFuture, Quiet
  <2> QED
    BY <1>3, QuietJoined DEF PromptHasFuture, Quiet, InvocationTyped
<1> QED
  BY <1>1, <1>2, <1>3 DEF Publish, InvocationTyped

\* The prompt of a call that was let through, or refused, is taken back.
LEMMA PromptTaken ==
  ASSUME NEW r \in Requests, AskedOrAutomatic, pc[r] = "done",
         stage[r] = "checking", Logged(r)
  PROVE  /\ reply[r].allowed =>
              log[r] \o (IF reply[r].decision = "auto_allow" THEN <<>> ELSE <<"granted">>)
                 = History(Granted(r), 0)
         /\ ~reply[r].allowed =>
              log[r] \o (IF reply[r].decision = "auto_deny"
                         THEN <<"failed">> ELSE <<"denied", "failed">>) \in Timelines
<1>1. log[r] = <<"started">> \o Shown(r)
  BY DEF Logged
<1>2. Granted(r) \in Prompts
  BY DEF Granted, Prompts
<1>3. History(Granted(r), 0) = <<"started">> \o Granted(r)
  BY <1>2, PromptsType, HistoryBegins
<1>4. CASE future[r] = None
  <2>1. log[r] = <<"started">> \o <<>> /\ Granted(r) = <<>>
    BY <1>1, <1>4 DEF Shown, Granted
  <2>2. <<"started">> \o <<>> = <<"started">>
    OBVIOUS
  <2>3. CASE reply[r].allowed
    BY <1>3, <1>4, <2>1, <2>2, <2>3 DEF AskedOrAutomatic
  <2>4. CASE ~reply[r].allowed
    <3>1. reply[r].decision = "auto_deny"
      BY <1>4, <2>4 DEF AskedOrAutomatic
    <3>2. <<"started">> \o <<"failed">> = <<"started", "failed">>
      BY JoinedSingles DEF Events
    <3> QED
      BY <2>1, <2>2, <2>4, <3>1, <3>2, TimelinesSplit
  <2> QED
    BY <2>3, <2>4
<1>5. CASE future[r] # None
  <2>1. log[r] = <<"started">> \o <<"requested">> /\ Granted(r) = <<"requested", "granted">>
    BY <1>1, <1>5 DEF Shown, Granted
  <2>2. log[r] = <<"started", "requested">>
    BY <2>1, JoinedSingles DEF Events
  <2>3. reply[r].decision \notin {"auto_allow", "auto_deny"}
    BY <1>5 DEF AskedOrAutomatic
  <2>4. CASE reply[r].allowed
    <3>1. <<"started", "requested">> \o <<"granted">>
            = <<"started">> \o <<"requested", "granted">>
      OBVIOUS
    <3> QED
      BY <1>3, <2>1, <2>2, <2>3, <2>4, <3>1
  <2>5. CASE ~reply[r].allowed
    <3>1. <<"started", "requested">> \o <<"denied", "failed">>
            = <<"started", "requested", "denied", "failed">>
      BY JoinedPairs DEF Events
    <3> QED
      BY <2>2, <2>3, <2>5, <3>1, TimelinesSplit
  <2> QED
    BY <2>4, <2>5
<1> QED
  BY <1>4, <1>5

-----------------------------------------------------------------------------
(* The steps of invoke_tool                                                *)

\* A step that concerns another call only.
LEMMA FitsOthers ==
  ASSUME TypeOK, Shape, AskedOrAutomatic, [Next]_vars, LogFits, NEW r \in Requests,
         \A q \in Requests \ {r} :
            /\ stage'[q] = stage[q] /\ attempt'[q] = attempt[q] /\ log'[q] = log[q]
            /\ pc[q] = "idle" => pc'[q] = "idle" /\ future'[q] = future[q],
         InvocationTyped', Fits(r)'
  PROVE  LogFits'
<1>1. ASSUME NEW q \in Requests \ {r} PROVE Fits(q)'
  BY <1>1, FitsKept DEF LogFits
<1> QED
  BY <1>1 DEF LogFits

LEMMA StageTyped ==
  ASSUME InvocationTyped, NEW r \in Requests, NEW s, Stage(r, s),
         s \in {"new", "announcing", "checking", "executing", "backoff"} \cup Ended
  PROVE  /\ stage' \in [Requests -> {"new", "announcing", "checking", "executing",
                                     "backoff"} \cup Ended]
         /\ stage'[r] = s
         /\ \A q \in Requests \ {r} : stage'[q] = stage[q]
  BY DEF InvocationTyped, Stage

LEMMA StartFits ==
  ASSUME TypeOK, Shape, AskedOrAutomatic, LogFits, NEW r \in Requests, Start(r)
  PROVE  LogFits'
<1>1. stage[r] = "new" /\ Stage(r, "announcing") /\ UNCHANGED <<vars, attempt, attached>>
  BY DEF Start
<1>2. InvocationTyped /\ Fits(r) /\ <<"started">> \in Seq(Events) /\ Quiet(<<"started">>)
  BY DEF LogFits, Events, Quiet
<1>3. Publish(r, <<"started">>)
  BY DEF Start
<1>4. UNCHANGED <<pc, reply, future, interrupt>>
  BY <1>1 DEF vars, taskVars
<1>5. log'[r] = <<"started">>
  <2>1. log[r] = <<>> /\ log'[r] = log[r] \o <<"started">>
    BY <1>1, <1>2, <1>3, Published DEF Fits, Logged
  <2>2. <<>> \o <<"started">> = <<"started">>
    BY <1>2, ConcatEmptySeq
  <2> QED
    BY <2>1, <2>2
<1>6. InvocationTyped'
  BY <1>1, <1>2, <1>3, StageTyped, Published DEF InvocationTyped
<1>7. PromptHasFuture(r)'
  BY <1>2, <1>3, <1>4, Published DEF Fits
<1>8. stage'[r] = "announcing" /\ attempt'[r] = attempt[r]
  BY <1>1, <1>2, StageTyped
<1>9. Fits(r)'
  BY <1>1, <1>2, <1>4, <1>5, <1>7, <1>8 DEF Fits, Follows, Logged, Live
<1> QED
  BY <1>1, <1>2, <1>3, <1>4, <1>6, <1>9, FitsOthers, StageTyped, Published

\* A step that ends a call with the events e.
LEMMA EndFits ==
  ASSUME TypeOK, Shape, AskedOrAutomatic, LogFits, NEW r \in Requests,
         NEW e \in Seq(Events), Quiet(e), Publish(r, e), Stage(r, "ended"),
         ~Live(r), UNCHANGED <<vars, attempt, attached>>, log[r] \o e \in Timelines
  PROVE  LogFits'
<1>1. InvocationTyped /\ Fits(r)
  BY DEF LogFits
<1>2. UNCHANGED <<pc, reply, future, interrupt>>
  BY DEF vars, taskVars
<1>3. InvocationTyped'
  BY <1>1, StageTyped, Published DEF InvocationTyped, Ended
<1>4. stage'[r] = "ended" /\ attempt'[r] = attempt[r] /\ log'[r] \in Timelines
  BY <1>1, StageTyped, Published DEF Ended
<1>5. PromptHasFuture(r)'
  BY <1>1, <1>2, Published DEF Fits
<1>6. Timelines' = Timelines
  OBVIOUS
<1>7. Fits(r)'
  BY <1>1, <1>2, <1>4, <1>5, <1>6 DEF Fits, Follows, Logged, Live
<1> QED
  BY <1>1, <1>2, <1>3, <1>7, FitsOthers, StageTyped, Published DEF Ended

LEMMA RejectFits ==
  ASSUME TypeOK, Shape, AskedOrAutomatic, LogFits, NEW r \in Requests, Reject(r)
  PROVE  LogFits'
<1>1. log[r] = <<"started">> /\ ~Live(r)
  BY DEF Reject, LogFits, Fits, Follows, Logged, Live
<1>2. <<"started">> \o <<"failed">> = <<"started", "failed">>
  BY JoinedSingles DEF Events
<1>3. log[r] \o <<"failed">> \in Timelines
  BY <1>1, <1>2, TimelinesSplit
<1>4. <<"failed">> \in Seq(Events) /\ Quiet(<<"failed">>)
  BY DEF Events, Quiet
<1> QED
  BY <1>1, <1>3, <1>4, EndFits DEF Reject

LEMMA RefuseFits ==
  ASSUME TypeOK, Shape, AskedOrAutomatic, LogFits, NEW r \in Requests, Refuse(r)
  PROVE  LogFits'
<1> DEFINE e == IF reply[r].decision = "auto_deny" THEN <<"failed">>
                                                   ELSE <<"denied", "failed">>
<1>1. log[r] \o e \in Timelines
  BY PromptTaken DEF Refuse, LogFits, Fits
<1>2. e \in Seq(Events) /\ Quiet(e)
  <2>1. CASE reply[r].decision = "auto_deny"
    BY <2>1 DEF Events, Quiet
  <2>2. CASE reply[r].decision # "auto_deny"
    <3>1. <<"denied", "failed">> \in Seq(Events) /\ Quiet(<<"denied", "failed">>)
      BY DEF Events, Quiet
    <3> QED
      BY <2>2, <3>1
  <2> QED
    BY <2>1, <2>2
<1>3. Publish(r, e) /\ Stage(r, "ended") /\ ~Live(r) /\ UNCHANGED <<vars, attempt, attached>>
  BY DEF Refuse, Live
<1> HIDE DEF e
<1> QED
  BY <1>1, <1>2, <1>3, EndFits

\* What an execution leaves behind it.
LEMMA ExecutingLog ==
  ASSUME LogFits, NEW r \in Requests, stage[r] = "executing"
  PROVE  /\ Granted(r) \in Prompts /\ attempt[r] - 1 \in 0 .. MaxRetries
         /\ log[r] = History(Granted(r), attempt[r] - 1)
         /\ ~Live(r)
  BY RetryAssumption
  DEF LogFits, InvocationTyped, Fits, Follows, Logged, Granted, Prompts, Live

LEMMA SucceedFits ==
  ASSUME TypeOK, Shape, AskedOrAutomatic, LogFits, NEW r \in Requests, Succeed(r)
  PROVE  LogFits'
<1>1. log[r] \o <<"finished">> \in Timelines /\ ~Live(r)
  BY ExecutingLog, Closes DEF Succeed
<1>2. <<"finished">> \in Seq(Events) /\ Quiet(<<"finished">>)
  BY DEF Events, Quiet
<1> QED
  BY <1>1, <1>2, EndFits DEF Succeed

LEMMA FailFits ==
  ASSUME TypeOK, Shape, AskedOrAutomatic, LogFits, NEW r \in Requests,
         NEW class \in ErrorClasses, Fail(r, class)
  PROVE  LogFits'
<1>1. InvocationTyped /\ Fits(r) /\ stage[r] = "executing"
  BY DEF LogFits, Fail
<1>2. /\ Granted(r) \in Prompts /\ attempt[r] - 1 \in 0 .. MaxRetries /\ ~Live(r)
      /\ log[r] = History(Granted(r), attempt[r] - 1)
  BY <1>1, ExecutingLog
<1>3. <<"failed">> \in Seq(Events) /\ Quiet(<<"failed">>)
  BY DEF Events, Quiet
<1>4. Publish(r, <<"failed">>) /\ UNCHANGED <<vars, attempt, attached>>
  BY DEF Fail
<1>5. CASE Stage(r, "ended")
  BY <1>2, <1>3, <1>4, <1>5, Closes, EndFits
<1>6. CASE Stage(r, "backoff") /\ attempt[r] <= MaxRetries
  <2>1. UNCHANGED <<pc, reply, future, interrupt>>
    BY <1>4 DEF vars, taskVars
  <2>2. stage'[r] = "backoff" /\ attempt'[r] = attempt[r]
    BY <1>1, <1>4, <1>6, StageTyped
  <2>3. attempt[r] - 1 \in Nat /\ (attempt[r] - 1) + 1 = attempt[r]
    BY <1>1, <1>2, RetryAssumption DEF InvocationTyped
  <2>4. log'[r] = History(Granted(r), attempt[r])
    BY <1>1, <1>2, <1>3, <1>4, <2>3, PromptsType, HistoryFails, Published
  <2>5. Granted(r)' = Granted(r)
    BY <2>1 DEF Granted
  <2>6. History(Granted(r), attempt[r])' = History(Granted(r), attempt[r])
    BY <1>4, <2>5
  <2>7. PromptHasFuture(r)'
    BY <1>1, <1>3, <1>4, <2>1, Published DEF Fits
  <2>8. Follows(r)'
    BY <1>1, <1>6, <2>1, <2>2 DEF Fits, Follows, Live
  <2>9. Logged(r)'
    BY <2>2, <2>4, <2>6 DEF Logged
  <2>10. InvocationTyped'
    BY <1>1, <1>3, <1>4, <1>6, StageTyped, Published DEF InvocationTyped
  <2> QED
    BY <1>1, <1>3, <1>4, <1>6, <2>1, <2>7, <2>8, <2>9, <2>10, FitsOthers, StageTyped,
       Published DEF Fits
<1> QED
  BY <1>5, <1>6 DEF Fail

LEMMA RetryFits ==
  ASSUME TypeOK, Shape, AskedOrAutomatic, LogFits, NEW r \in Requests, Retry(r)
  PROVE  LogFits'
<1>1. InvocationTyped /\ Fits(r) /\ stage[r] = "backoff" /\ Stage(r, "executing")
  BY DEF LogFits, Retry
<1>2. UNCHANGED <<pc, reply, future, interrupt>> /\ log' = log /\ UNCHANGED vars
  BY DEF Retry, vars, taskVars
<1>3. /\ stage'[r] = "executing" /\ attempt[r] \in 1 .. MaxRetries
      /\ attempt' = [attempt EXCEPT ![r] = attempt[r] + 1]
  BY <1>1, StageTyped, RetryAssumption DEF Retry, Fits, Follows, InvocationTyped
<1>4. attempt'[r] = attempt[r] + 1 /\ attempt' \in [Requests -> 0 .. MaxRetries + 1]
  BY <1>1, <1>3, RetryAssumption DEF InvocationTyped
<1>5. InvocationTyped'
  BY <1>1, <1>2, <1>4, StageTyped DEF Retry, InvocationTyped
<1>6. log[r] = History(Granted(r), attempt'[r] - 1)
  BY <1>1, <1>3, <1>4 DEF Fits, Logged
<1>7. Granted(r)' = Granted(r)
  BY <1>2 DEF Granted
<1>8. Logged(r)'
  BY <1>2, <1>3, <1>6, <1>7 DEF Logged
<1>9. Follows(r)' /\ PromptHasFuture(r)'
  BY <1>1, <1>2, <1>3, <1>4, RetryAssumption DEF Fits, Follows, PromptHasFuture, Live
<1> QED
  BY <1>1, <1>2, <1>3, <1>5, <1>8, <1>9, FitsOthers, StageTyped DEF Fits, InvocationTyped

LEMMA ProceedFits ==
  ASSUME TypeOK, Shape, AskedOrAutomatic, LogFits, NEW r \in Requests, Proceed(r)
  PROVE  LogFits'
<1> DEFINE e == IF reply[r].decision = "auto_allow" THEN <<>> ELSE <<"granted">>
<1>1. /\ InvocationTyped /\ Fits(r) /\ stage[r] = "checking" /\ Stage(r, "executing")
      /\ pc[r] = "done" /\ reply[r].allowed /\ Publish(r, e)
      /\ attempt' = [attempt EXCEPT ![r] = 1]
  BY DEF LogFits, Proceed
<1>2. UNCHANGED <<pc, reply, future, interrupt>> /\ UNCHANGED vars
  BY DEF Proceed, vars, taskVars
<1>3. log[r] \o e = History(Granted(r), 0)
  BY <1>1, PromptTaken DEF Fits
<1>4. e \in Seq(Events) /\ Quiet(e)
  <2>1. CASE reply[r].decision = "auto_allow"
    BY <2>1 DEF Quiet
  <2>2. CASE reply[r].decision # "auto_allow"
    BY <2>2 DEF Events, Quiet
  <2> QED
    BY <2>1, <2>2
<1> HIDE DEF e
<1>5. stage'[r] = "executing" /\ attempt'[r] = 1 /\ attempt' \in [Requests -> 0 .. MaxRetries + 1]
  BY <1>1, StageTyped, RetryAssumption DEF InvocationTyped
<1>6. InvocationTyped'
  BY <1>1, <1>4, <1>5, StageTyped, Published DEF Proceed, InvocationTyped
<1>7. log'[r] = History(Granted(r), 0) /\ PromptHasFuture(r)'
  BY <1>1, <1>2, <1>3, <1>4, Published DEF Fits
<1>8. Granted(r)' = Granted(r) /\ attempt'[r] - 1 = 0
  BY <1>2, <1>5 DEF Granted
<1>9. Logged(r)'
  BY <1>5, <1>7, <1>8 DEF Logged
<1>10. Follows(r)'
  BY <1>1, <1>2, <1>5 DEF Follows, Live
<1> QED
  BY <1>1, <1>2, <1>4, <1>6, <1>7, <1>9, <1>10, FitsOthers, StageTyped, Published
  DEF Fits, InvocationTyped

LEMMA CancelFits ==
  ASSUME TypeOK, Shape, AskedOrAutomatic, LogFits, NEW r \in Requests, CancelCall(r)
  PROVE  LogFits'
<1>1. /\ InvocationTyped /\ Fits(r) /\ stage[r] # "new" /\ stage[r] # "checking"
      /\ Stage(r, "aborted") /\ UNCHANGED <<attempt, log, attached>> /\ UNCHANGED vars
  BY DEF LogFits, CancelCall
<1>2. UNCHANGED <<pc, reply, future, interrupt>>
  BY <1>1 DEF vars, taskVars
<1>3. stage'[r] = "aborted" /\ InvocationTyped'
  BY <1>1, StageTyped DEF InvocationTyped, Ended
<1>4. Fits(r)'
  BY <1>1, <1>2, <1>3, FitsAborted DEF Fits, Follows, Live
<1> QED
  BY <1>1, <1>2, <1>3, <1>4, FitsOthers, StageTyped DEF Ended

-----------------------------------------------------------------------------
(* The steps of the manager while a call is checked                        *)

LEMMA CheckFits ==
  ASSUME TypeOK, Shape, AskedOrAutomatic, LogFits, [Next]_vars,
         NEW r \in Requests, NEW c \in Calls, Check(r, c)
  PROVE  LogFits'
<1>1. /\ InvocationTyped /\ Fits(r) /\ stage[r] = "announcing" /\ Stage(r, "checking")
      /\ UNCHANGED <<attempt, attached>> /\ log[r] = <<"started">>
      /\ pc[r] = "idle" /\ attempt[r] = 0 /\ future[r] = None
  BY DEF LogFits, Check, Fits, Follows, Logged, Shape
<1>2. stage'[r] = "checking" /\ attempt'[r] = 0
  BY <1>1, StageTyped
<1>3. CASE Decide(r, c) /\ UNCHANGED log
  <2>1. future' = future /\ pc'[r] = "done" /\ \A q \in Requests \ {r} : pc'[q] = pc[q]
    BY <1>3 DEF Decide, TypeOK
  <2>2. <<"started">> \o <<>> = <<"started">>
    OBVIOUS
  <2>3. Shown(r)' = <<>> /\ log'[r] = <<"started">>
    BY <1>1, <1>3, <2>1 DEF Shown
  <2>4. Logged(r)'
    BY <1>2, <2>2, <2>3 DEF Logged
  <2>5. Follows(r)' /\ PromptHasFuture(r)'
    BY <1>1, <1>2, <1>3, <2>1 DEF Fits, Follows, PromptHasFuture, Live
  <2>6. InvocationTyped'
    BY <1>1, <1>3, StageTyped DEF InvocationTyped
  <2> QED
    BY <1>1, <1>3, <2>1, <2>4, <2>5, <2>6, FitsOthers, StageTyped DEF Fits
<1>4. CASE Ask(r, c) /\ Publish(r, <<"requested">>)
  <2>1. /\ future'[r] = "pending" /\ pc'[r] = "emitting"
        /\ \A q \in Requests \ {r} : pc'[q] = pc[q] /\ future'[q] = future[q]
    BY <1>4 DEF Ask, TypeOK
  <2>2. <<"requested">> \in Seq(Events)
    BY DEF Events
  <2>3. Shown(r)' = <<"requested">> /\ log'[r] = <<"started">> \o <<"requested">>
    BY <1>1, <1>4, <2>1, <2>2, Published DEF Shown, None
  <2>4. Logged(r)'
    BY <1>2, <2>3 DEF Logged
  <2>5. Follows(r)' /\ PromptHasFuture(r)'
    BY <1>1, <1>2, <2>1 DEF Follows, PromptHasFuture, Live, None
  <2>6. InvocationTyped'
    BY <1>1, <1>4, <2>2, StageTyped, Published DEF InvocationTyped
  <2> QED
    BY <1>1, <1>4, <2>1, <2>2, <2>4, <2>5, <2>6, FitsOthers, StageTyped, Published DEF Fits
<1> QED
  BY <1>3, <1>4 DEF Check

LEMMA CheckingFits ==
  ASSUME TypeOK, Shape, AskedOrAutomatic, LogFits, [Next]_vars,
         NEW r \in Requests, Checking(r), UNCHANGED <<attempt, log, attached>>
  PROVE  LogFits'
<1>1. InvocationTyped /\ Fits(r)
  BY DEF LogFits
<1>2. CASE UNCHANGED stage
  <2>1. ASSUME NEW q \in Requests, pc[q] = "idle"
        PROVE  pc'[q] = "idle" /\ future'[q] = future[q]
    <3>1. CASE Timer(r) \/ CancelTask(r)
      BY <2>1, <3>1 DEF TypeOK, Timer, CancelTask, Interrupted, Live
    <3>2. CASE EmitDone(r) \/ ResumeAnswered(r) \/ ResumeTimeout(r)
      BY <2>1, <3>2 DEF TypeOK, EmitDone, ResumeAnswered, ResumeTimeout, Apply, Remember
    <3>3. CASE \E d \in Answers : Deliver(r, d)
      BY <2>1, <3>3 DEF TypeOK, Shape, Deliver, Respond
    <3>4. CASE AbortCancelled(r) \/ EmitFails(r)
      BY <2>1, <3>4 DEF TypeOK, AbortCancelled, EmitFails, Unwind, Live
    <3> QED
      BY <3>1, <3>2, <3>3, <3>4 DEF Checking, Unwinding
  <2>2. InvocationTyped'
    BY <1>1, <1>2 DEF InvocationTyped
  <2>3. \A q \in Requests : Fits(q)'
    BY <1>1, <1>2, <2>1, FitsKept DEF LogFits
  <2> QED
    BY <2>2, <2>3 DEF LogFits
<1>3. CASE Unwinding(r)
  <2>1. Stage(r, "aborted") /\ Live(r) /\ Unwind(r)
    BY <1>3 DEF Unwinding, AbortCancelled, EmitFails, Live
  <2>2. stage[r] = "checking" /\ stage'[r] = "aborted"
    BY <1>1, <2>1, StageTyped DEF Fits, Follows, Ended
  <2>3. /\ pc'[r] = "aborted" /\ future' = future
        /\ \A q \in Requests \ {r} : pc'[q] = pc[q]
    BY <2>1 DEF Unwind, TypeOK
  <2>4. Fits(r)'
    BY <1>1, <2>1, <2>2, <2>3, FitsAborted DEF Live
  <2>5. InvocationTyped'
    BY <1>1, <2>1, StageTyped DEF InvocationTyped, Ended
  <2> QED
    BY <1>1, <2>1, <2>3, <2>4, <2>5, FitsOthers, StageTyped DEF Ended
<1> QED
  BY <1>2, <1>3 DEF Checking

LEMMA DieFits ==
  ASSUME TypeOK, Shape, AskedOrAutomatic, LogFits, [Next]_vars, Die
  PROVE  LogFits'
<1>1. PICK file : Restart(file)
  BY DEF Die, Crash, CrashInSave
<1>2. /\ InvocationTyped /\ attempt' = attempt /\ log' = log /\ future' = future
      /\ \A q \in Requests : ~Live(q)' /\ (pc[q] = "idle" => pc'[q] = "idle")
  BY <1>1 DEF LogFits, Die, Restart, TypeOK, Live
<1>3. InvocationTyped'
  BY <1>2 DEF Die, InvocationTyped, Ended
<1>4. ASSUME NEW q \in Requests PROVE Fits(q)'
  <2>1. Fits(q)
    BY DEF LogFits
  <2>2. CASE stage'[q] = stage[q]
    BY <1>2, <2>1, <2>2, FitsKept
  <2>3. CASE stage'[q] = "aborted" /\ stage[q] # "new"
    BY <1>2, <2>1, <2>3, FitsAborted
  <2> QED
    BY <2>2, <2>3 DEF Die
<1> QED
  BY <1>3, <1>4 DEF LogFits

LEMMA IdleFits ==
  ASSUME TypeOK, Shape, AskedOrAutomatic, LogFits,
         UNCHANGED <<vars, stage, attempt, log>>, attached' \in BOOLEAN
  PROVE  LogFits'
<1>1. InvocationTyped /\ InvocationTyped'
  BY DEF LogFits, InvocationTyped
<1>2. \A q \in Requests : pc'[q] = pc[q] /\ future'[q] = future[q]
  BY DEF vars, taskVars
<1>3. ASSUME NEW q \in Requests PROVE Fits(q)'
  BY <1>1, <1>2, FitsKept DEF LogFits
<1> QED
  BY <1>1, <1>3 DEF LogFits

LEMMA FitsStep == TypeOK /\ Shape /\ AskedOrAutomatic /\ LogFits /\ [CallNext]_callVars => LogFits'
<1> SUFFICES ASSUME TypeOK, Shape, AskedOrAutomatic, LogFits, [CallNext]_callVars
             PROVE  LogFits'
  OBVIOUS
<1>1. [Next]_vars
  BY CallStepsManager
<1>2. ASSUME NEW r \in Requests,
             \/ Start(r) \/ Reject(r) \/ Proceed(r) \/ Refuse(r)
             \/ \E c \in Calls : Check(r, c)
             \/ Succeed(r) \/ Retry(r) \/ CancelCall(r)
             \/ \E class \in ErrorClasses : Fail(r, class)
             \/ Checking(r) /\ UNCHANGED <<attempt, log, attached>>
      PROVE  LogFits'
  BY <1>1, <1>2, StartFits, RejectFits, ProceedFits, RefuseFits, CheckFits, SucceedFits,
     RetryFits, CancelFits, FailFits, CheckingFits
<1>3. CASE Die
  BY <1>1, <1>3, DieFits
<1>4. CASE Disconnect \/ Connect
  BY <1>4, IdleFits DEF Disconnect, Connect, invocationVars
<1>5. CASE UNCHANGED callVars
  BY <1>5, IdleFits DEF callVars, invocationVars, LogFits, InvocationTyped
<1> QED
  BY <1>2, <1>3, <1>4, <1>5 DEF CallNext

-----------------------------------------------------------------------------
(* The theorems                                                            *)

CallInv == TypeOK /\ Shape /\ StoresBacked /\ GrantJustified /\ AskedOrAutomatic /\ LogFits

\* The invariant the theorems about invoke_tool rest on.
THEOREM CallInvCorrect == CallSpec => []CallInv
<1>1. CallInit => CallInv
  <2>1. CallInit => Init
    BY DEF CallInit
  <2>2. Init => GrantJustified /\ AskedOrAutomatic
    BY DEF Init, GrantJustified, NoReply, AskedOrAutomatic, Live
  <2> QED
    BY <2>1, <2>2, TypeInit, ShapeInit, StoresInit, CallInit_LogFits DEF CallInv
<1>2. CallInv /\ [CallNext]_callVars => CallInv'
  BY CallStepsManager, TypeStep, ShapeStep, StoresStep, GrantStep, AskedStep, FitsStep
  DEF CallInv
<1> QED
  BY <1>1, <1>2, PTL DEF CallSpec

\* An execution is followed by retries up to the limit and no further, and no
\* call ever publishes more than its announcement, its prompt and its attempts.
THEOREM ToolCallTypeCorrect == CallSpec => []ToolCallTypeOK
<1>1. CallInv => ToolCallTypeOK
  BY LogShort DEF CallInv, LogFits, InvocationTyped, ToolCallTypeOK
<1> QED
  BY <1>1, CallInvCorrect, PTL

\* A tool is executed only for a call the gate has let through: a denied command
\* never, one the clients were asked about only on an answer in time.
THEOREM RunsOnlyApprovedCorrect == CallSpec => []RunsOnlyApproved
<1>1. CallInv => RunsOnlyApproved
  <2> SUFFICES ASSUME CallInv, NEW r \in Requests, attempt[r] > 0
               PROVE  /\ ~call[r].deny
                      /\ "requested" \in {log[r][i] : i \in DOMAIN log[r]} =>
                            future[r] \in Allowing /\ interrupt[r] = None
    BY DEF RunsOnlyApproved
  <2>1. pc[r] = "done" /\ reply[r].allowed
    BY DEF CallInv, LogFits, Fits, Follows
  <2>2. ~call[r].deny
    BY <2>1 DEF CallInv, GrantJustified
  <2>3. ASSUME "requested" \in {log[r][i] : i \in DOMAIN log[r]}
        PROVE  future[r] \in Allowing /\ interrupt[r] = None
    <3>1. future[r] # None
      BY <2>3 DEF CallInv, LogFits, Fits, PromptHasFuture
    <3> QED
      BY <2>1, <3>1 DEF CallInv, AskedOrAutomatic
  <2> QED
    BY <2>2, <2>3
<1> QED
  BY <1>1, CallInvCorrect, PTL

\* The timeline of every call that ran to its end is closed, for any limit on
\* retries: each prompt is taken back, each execution has one end.
THEOREM TimelineClosedCorrect == CallSpec => []TimelineClosed
<1>1. CallInv => TimelineClosed
  BY DEF CallInv, LogFits, Fits, Logged, TimelineClosed
<1> QED
  BY <1>1, CallInvCorrect, PTL
=============================================================================
