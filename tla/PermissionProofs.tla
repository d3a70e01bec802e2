-------------------------- MODULE PermissionProofs --------------------------
(***************************************************************************)
(* Proofs about the permission manager, for any sessions, tools, policies  *)
(* and calls, and any number of requests.                                  *)
(***************************************************************************)
EXTENDS Permission, TLAPS

-----------------------------------------------------------------------------
(* Type correctness                                                        *)

LEMMA TypeInit == Init => TypeOK
  BY PermissionAssumption
  DEF Init, TypeOK, NoReply, Replies, Cached, None

\* A value looked up in the caches is one the caches hold.
LEMMA RestartType ==
  ASSUME TypeOK, NEW file \in [Tools -> Cached], Restart(file)
  PROVE  TypeOK'
  BY DEF TypeOK, Restart, Cached, Live

LEMMA ApplyType ==
  ASSUME TypeOK, NEW r \in Requests, pc[r] # "idle", future[r] \in Decisions, Apply(r)
  PROVE  TypeOK'
<1> DEFINE d == future[r]
<1> DEFINE key == <<call[r].session, call[r].tool>>
<1>1. /\ call[r].session \in Sessions
      /\ call[r].tool \in Tools
  BY PolicyAssumption DEF TypeOK, CallType
<1>2. CachedAs(d) \in Cached
  BY DEF CachedAs, Cached
<1>3. /\ sessionAlways' \in [Sessions \X Tools -> Cached]
      /\ persistentAlways' \in [Tools -> Cached]
      /\ policyFile' \in [Tools -> Cached]
  <2>1. CASE d \in Always
    <3>1. /\ sessionAlways' = [sessionAlways EXCEPT ![key] = CachedAs(d)]
          /\ persistentAlways' = [persistentAlways EXCEPT ![call[r].tool] = CachedAs(d)]
          /\ policyFile' \in {persistentAlways', policyFile, [t \in Tools |-> None]}
      BY <2>1 DEF Apply, Remember
    <3>2. persistentAlways' \in [Tools -> Cached]
      BY <1>1, <1>2, <3>1 DEF TypeOK
    <3>3. [t \in Tools |-> None] \in [Tools -> Cached]
      BY DEF Cached
    <3>4. key \in Sessions \X Tools
      BY <1>1
    <3> QED
      BY <1>2, <3>1, <3>2, <3>3, <3>4 DEF TypeOK
  <2>2. CASE d \notin Always
    BY <2>2 DEF Apply, Remember, TypeOK, cacheVars
  <2> QED
    BY <2>1, <2>2
<1>4. reply' \in [Requests -> Replies]
  BY DEF Apply, Remember, TypeOK, Replies
<1>5. /\ pc' = [pc EXCEPT ![r] = "done"]
      /\ UNCHANGED <<call, future, interrupt, pending>>
  BY DEF Apply, Remember
<1> QED
  BY <1>3, <1>4, <1>5 DEF TypeOK

LEMMA TypeStep == TypeOK /\ [Next]_vars => TypeOK'
<1> SUFFICES ASSUME TypeOK, [Next]_vars PROVE TypeOK'
  OBVIOUS
<1>1. ASSUME NEW r \in Requests, NEW c \in Calls, Decide(r, c)
      PROVE  TypeOK'
  <2>1. Automatic(Tiers(c)) \in Replies
    <3> DEFINE v == Tiers(c)
    <3>1. (v = "allow") \in BOOLEAN
      OBVIOUS
    <3> HIDE DEF v
    <3> QED
      BY <3>1 DEF Automatic, Replies
  <2> QED
    BY <1>1, <2>1, PolicyAssumption DEF TypeOK, Decide, cacheVars
<1>2. ASSUME NEW r \in Requests, NEW c \in Calls, Ask(r, c)
      PROVE  TypeOK'
  BY <1>2, PolicyAssumption DEF TypeOK, Ask, cacheVars
<1>3. ASSUME NEW r \in Requests, NEW d \in Answers, Respond(r, d)
      PROVE  TypeOK'
  BY <1>3, PolicyAssumption DEF TypeOK, Respond, cacheVars
<1>4. ASSUME NEW r \in Requests, Timer(r) \/ CancelTask(r)
      PROVE  TypeOK'
  BY <1>4 DEF TypeOK, Timer, CancelTask, Interrupted, cacheVars
<1>5. ASSUME NEW r \in Requests, EmitDone(r)
      PROVE  TypeOK'
  <2>1. CASE future[r] \in Decisions
    BY <1>5, <2>1, ApplyType DEF EmitDone
  <2>2. CASE future[r] \notin Decisions
    BY <1>5, <2>2 DEF TypeOK, EmitDone, cacheVars
  <2> QED
    BY <2>1, <2>2
<1>6. ASSUME NEW r \in Requests, ResumeAnswered(r)
      PROVE  TypeOK'
  BY <1>6, ApplyType DEF ResumeAnswered
<1>7. ASSUME NEW r \in Requests, ResumeTimeout(r)
      PROVE  TypeOK'
  BY <1>7 DEF TypeOK, ResumeTimeout, cacheVars, Replies
<1>8. ASSUME NEW r \in Requests, AbortCancelled(r) \/ EmitFails(r)
      PROVE  TypeOK'
  BY <1>8 DEF TypeOK, AbortCancelled, EmitFails, Unwind, Live, cacheVars
<1>9. ASSUME NEW r \in Requests, CrashInSave(r)
      PROVE  TypeOK'
  <2>1. [t \in Tools |-> None] \in [Tools -> Cached]
    BY DEF Cached
  <2> QED
    BY <1>9, <2>1, RestartType DEF CrashInSave
<1>10. ASSUME NEW s \in Sessions, CancelSession(s)
       PROVE  TypeOK'
  BY <1>10 DEF TypeOK, CancelSession, cacheVars, Decisions
<1>11. CASE Crash
  BY <1>11, RestartType DEF Crash, TypeOK
<1>12. CASE UNCHANGED vars
  BY <1>12 DEF TypeOK, vars, taskVars, cacheVars
<1> QED
  BY <1>1, <1>2, <1>3, <1>4, <1>5, <1>6, <1>7, <1>8, <1>9, <1>10, <1>11, <1>12
  DEF Next, Resume

\* The state of the manager keeps its type.
THEOREM TypeCorrect == Spec => []TypeOK
  BY TypeInit, TypeStep, PTL DEF Spec

-----------------------------------------------------------------------------
(* What the program counter says of the rest of a request                  *)

\* Only a request that has been answered has a decision for its own, and it
\* keeps the answer; only a request that waits can have been timed out.
Shape ==
    \A r \in Requests :
        /\ pc[r] = "idle" => future[r] = None /\ interrupt[r] = None
        /\ pc[r] \in {"idle", "done"} => r \notin pending
        /\ pc[r] # "done" => reply[r] = NoReply
        /\ pc[r] = "emitting" => future[r] \in Decisions \cup {"pending"}
        /\ pc[r] = "waiting" /\ interrupt[r] = None =>
              future[r] \in Decisions \cup {"pending"}
        /\ r \in pending => future[r] \in {"pending", "cancelled"}
        /\ pc[r] \in {"emitting", "waiting"} => ~call[r].deny

LEMMA ShapeInit == Init => Shape
  BY DEF Init, Shape, NoReply

\* A denied command is never asked about.
LEMMA DeniedNotAsked ==
  ASSUME NEW c \in Calls, Tiers(c) = "ask"
  PROVE  ~c.deny
  BY PolicyAssumption DEF Tiers, CallType

\* Setting futures of pending requests and taking them out of the table.
LEMMA ShapeRespond ==
  ASSUME TypeOK, Shape, NEW r \in Requests, NEW d \in Answers, Respond(r, d)
  PROVE  Shape'
  BY PolicyAssumption DEF TypeOK, Shape, Respond, Decisions, None

LEMMA ShapeStep == TypeOK /\ Shape /\ [Next]_vars => Shape'
<1> SUFFICES ASSUME TypeOK, Shape, [Next]_vars PROVE Shape'
  OBVIOUS
<1>1. ASSUME NEW r \in Requests, NEW c \in Calls, Decide(r, c)
      PROVE  Shape'
  BY <1>1 DEF TypeOK, Shape, Decide, cacheVars
<1>2. ASSUME NEW r \in Requests, NEW c \in Calls, Ask(r, c)
      PROVE  Shape'
  BY <1>2, DeniedNotAsked DEF TypeOK, Shape, Ask, cacheVars
<1>3. ASSUME NEW r \in Requests, NEW d \in Answers, Respond(r, d)
      PROVE  Shape'
  BY <1>3, ShapeRespond
<1>4. ASSUME NEW r \in Requests, Timer(r) \/ CancelTask(r)
      PROVE  Shape'
  BY <1>4 DEF TypeOK, Shape, Timer, CancelTask, Interrupted, Live, cacheVars, None
<1>5. ASSUME NEW r \in Requests, EmitDone(r) \/ ResumeAnswered(r)
      PROVE  Shape'
  <2>1. CASE Apply(r)
    BY <1>5, <2>1 DEF TypeOK, Shape, EmitDone, ResumeAnswered, Apply, Remember, Decisions
  <2>2. CASE ~Apply(r)
    BY <1>5, <2>2 DEF TypeOK, Shape, EmitDone, ResumeAnswered
  <2> QED
    BY <2>1, <2>2
<1>6. ASSUME NEW r \in Requests, ResumeTimeout(r)
      PROVE  Shape'
  BY <1>6 DEF TypeOK, Shape, ResumeTimeout, cacheVars
<1>7. ASSUME NEW r \in Requests, AbortCancelled(r) \/ EmitFails(r)
      PROVE  Shape'
  BY <1>7 DEF TypeOK, Shape, AbortCancelled, EmitFails, Unwind, Live, cacheVars
<1>8. ASSUME NEW s \in Sessions, CancelSession(s)
      PROVE  Shape'
  BY <1>8 DEF TypeOK, Shape, CancelSession, cacheVars, Decisions, None
<1>9. ASSUME NEW file, Restart(file)
      PROVE  Shape'
  BY <1>9 DEF TypeOK, Shape, Restart, Live
<1>10. CASE UNCHANGED vars
  BY <1>10 DEF Shape, vars, taskVars
<1> QED
  BY <1>1, <1>2, <1>3, <1>4, <1>5, <1>6, <1>7, <1>8, <1>9, <1>10
  DEF Next, Resume, Crash, CrashInSave

-----------------------------------------------------------------------------
(* An answer always finds the task that waits for it                       *)

LEMMA ReachableStep ==
  TypeOK /\ Shape /\ WaiterReachable /\ [Next]_vars => WaiterReachable'
<1> SUFFICES ASSUME TypeOK, Shape, WaiterReachable, [Next]_vars
             PROVE  WaiterReachable'
  OBVIOUS
<1> USE DEF WaiterReachable, Live
<1>1. ASSUME NEW r \in Requests, NEW c \in Calls, Decide(r, c)
      PROVE  WaiterReachable'
  BY <1>1 DEF TypeOK, Decide, cacheVars
<1>2. ASSUME NEW r \in Requests, NEW c \in Calls, Ask(r, c)
      PROVE  WaiterReachable'
  BY <1>2 DEF TypeOK, Ask, cacheVars
<1>3. ASSUME NEW r \in Requests, NEW d \in Answers, Respond(r, d)
      PROVE  WaiterReachable'
  BY <1>3, PolicyAssumption DEF TypeOK, Shape, Respond, Decisions, cacheVars
<1>4. ASSUME NEW r \in Requests, Timer(r) \/ CancelTask(r)
      PROVE  WaiterReachable'
  BY <1>4 DEF TypeOK, Timer, CancelTask, Interrupted, cacheVars, None
<1>5. ASSUME NEW r \in Requests, EmitDone(r) \/ ResumeAnswered(r)
      PROVE  WaiterReachable'
  BY <1>5 DEF TypeOK, EmitDone, ResumeAnswered, Apply, Remember, cacheVars
<1>6. ASSUME NEW r \in Requests, ResumeTimeout(r)
      PROVE  WaiterReachable'
  BY <1>6 DEF TypeOK, ResumeTimeout, cacheVars
<1>7. ASSUME NEW r \in Requests, AbortCancelled(r) \/ EmitFails(r)
      PROVE  WaiterReachable'
  BY <1>7 DEF TypeOK, AbortCancelled, EmitFails, Unwind, cacheVars
<1>8. ASSUME NEW s \in Sessions, CancelSession(s)
      PROVE  WaiterReachable'
  BY <1>8 DEF TypeOK, CancelSession, cacheVars, Decisions
<1>9. ASSUME NEW file, Restart(file)
      PROVE  WaiterReachable'
  BY <1>9 DEF TypeOK, Restart
<1>10. CASE UNCHANGED vars
  BY <1>10 DEF vars, taskVars
<1> QED
  BY <1>1, <1>2, <1>3, <1>4, <1>5, <1>6, <1>7, <1>8, <1>9, <1>10
  DEF Next, Resume, Crash, CrashInSave

\* A waiting task can always be answered: respond() finds its request.
THEOREM WaiterReachableCorrect == Spec => []WaiterReachable
<1>1. Init => WaiterReachable
  BY DEF Init, WaiterReachable, Live
<1> QED
  BY <1>1, TypeInit, TypeStep, ShapeInit, ShapeStep, ReachableStep, PTL DEF Spec

-----------------------------------------------------------------------------
(* Decisions of users are kept, never invented                             *)

\* What a settled request says stays said.
LEMMA SettledStable ==
  ASSUME TypeOK, Shape, [Next]_vars, NEW q \in Requests, pc[q] = "done"
  PROVE  pc'[q] = "done" /\ call'[q] = call[q] /\ reply'[q] = reply[q]
<1>1. ASSUME NEW r \in Requests, NEW c \in Calls, Decide(r, c) \/ Ask(r, c)
      PROVE  pc'[q] = "done" /\ call'[q] = call[q] /\ reply'[q] = reply[q]
  BY <1>1 DEF TypeOK, Decide, Ask
<1>2. ASSUME NEW r \in Requests, NEW d \in Answers, Respond(r, d)
      PROVE  pc'[q] = "done" /\ call'[q] = call[q] /\ reply'[q] = reply[q]
  BY <1>2 DEF Respond
<1>3. ASSUME NEW r \in Requests, Timer(r) \/ CancelTask(r)
      PROVE  pc'[q] = "done" /\ call'[q] = call[q] /\ reply'[q] = reply[q]
  BY <1>3 DEF Timer, CancelTask, Interrupted
<1>4. ASSUME NEW r \in Requests, EmitDone(r) \/ EmitFails(r) \/ Resume(r)
      PROVE  pc'[q] = "done" /\ call'[q] = call[q] /\ reply'[q] = reply[q]
  BY <1>4 DEF TypeOK, EmitDone, EmitFails, Resume, ResumeAnswered, ResumeTimeout,
              AbortCancelled, Apply, Remember, Unwind, Live
<1>5. ASSUME NEW s \in Sessions, CancelSession(s)
      PROVE  pc'[q] = "done" /\ call'[q] = call[q] /\ reply'[q] = reply[q]
  BY <1>5 DEF CancelSession
<1>6. ASSUME NEW file, Restart(file)
      PROVE  pc'[q] = "done" /\ call'[q] = call[q] /\ reply'[q] = reply[q]
  BY <1>6 DEF TypeOK, Restart, Live
<1>7. CASE UNCHANGED vars
  BY <1>7 DEF vars, taskVars
<1> QED
  BY <1>1, <1>2, <1>3, <1>4, <1>5, <1>6, <1>7 DEF Next, Crash, CrashInSave

LEMMA GivenStable ==
  ASSUME TypeOK, Shape, [Next]_vars, NEW t, NEW d, Given(t, d)
  PROVE  Given(t, d)'
  BY SettledStable DEF Given

\* t was given the decision d in session s.
GivenIn(s, t, d) ==
    \E q \in Requests : /\ pc[q] = "done" /\ reply[q].decision = d
                        /\ call[q].session = s /\ call[q].tool = t

LEMMA GivenInStable ==
  ASSUME TypeOK, Shape, [Next]_vars, NEW s, NEW t, NEW d, GivenIn(s, t, d)
  PROVE  GivenIn(s, t, d)'
  BY SettledStable DEF GivenIn

LEMMA CachedAsInjective ==
  ASSUME NEW d \in Always, NEW e \in Always, CachedAs(d) = CachedAs(e)
  PROVE  d = e
  BY DEF Always, CachedAs

\* A step that leaves the three stores alone keeps them backed.
LEMMA StoresUnchanged ==
  ASSUME TypeOK, Shape, StoresBacked, [Next]_vars, UNCHANGED cacheVars
  PROVE  StoresBacked'
<1>1. /\ sessionAlways' = sessionAlways
      /\ persistentAlways' = persistentAlways
      /\ policyFile' = policyFile
  BY DEF cacheVars
<1>2. ASSUME NEW t \in Tools
      PROVE  Backed(t, persistentAlways[t])' /\ Backed(t, policyFile[t])'
  BY <1>1, GivenStable DEF StoresBacked, Backed
<1>3. ASSUME NEW s \in Sessions, NEW t \in Tools, NEW d \in Always,
             sessionAlways'[<<s, t>>] = CachedAs(d)
      PROVE  GivenIn(s, t, d)'
  <2>1. GivenIn(s, t, d)
    BY <1>1, <1>3 DEF StoresBacked, GivenIn
  <2> QED
    BY <2>1, GivenInStable
<1> QED
  BY <1>2, <1>3 DEF StoresBacked, GivenIn

\* Applying an answer backs the verdict it writes.
LEMMA StoresApply ==
  ASSUME TypeOK, Shape, StoresBacked, [Next]_vars,
         NEW r \in Requests, Live(r), future[r] \in Decisions, Apply(r)
  PROVE  StoresBacked'
<1>1. PICK d \in Decisions, u \in Tools, w \in Sessions :
         d = future[r] /\ u = call[r].tool /\ w = call[r].session
  BY PolicyAssumption DEF TypeOK, CallType, Live
<1>2. CASE d \notin Always
  BY <1>1, <1>2, StoresUnchanged DEF Apply, Remember
<1>3. CASE d \in Always
  <2>1. /\ sessionAlways' = [sessionAlways EXCEPT ![<<w, u>>] = CachedAs(d)]
        /\ persistentAlways' = [persistentAlways EXCEPT ![u] = CachedAs(d)]
        /\ policyFile' \in {persistentAlways', policyFile, [t \in Tools |-> None]}
    BY <1>1, <1>3 DEF Apply, Remember
  <2>2. /\ pc'[r] = "done" /\ call'[r].tool = u /\ call'[r].session = w
        /\ reply'[r].decision = d
    BY <1>1 DEF Apply, Remember, TypeOK
  <2>3. Given(u, d)' /\ GivenIn(w, u, d)'
    BY <2>2 DEF Given, GivenIn
  <2>4. ASSUME NEW t \in Tools
        PROVE  Backed(t, persistentAlways[t])'
    <3>1. CASE t = u
      <4>1. persistentAlways'[t] = CachedAs(d)
        BY <2>1, <3>1 DEF TypeOK
      <4> QED
        BY <1>3, <2>3, <3>1, <4>1, CachedAsInjective DEF Backed
    <3>2. CASE t # u
      BY <2>1, <3>2, GivenStable DEF Backed, TypeOK, StoresBacked
    <3> QED
      BY <3>1, <3>2
  <2>5. ASSUME NEW t \in Tools
        PROVE  Backed(t, policyFile[t])'
    <3>1. CASE policyFile' = persistentAlways'
      BY <2>4, <3>1 DEF Backed
    <3>2. CASE policyFile' = policyFile
      BY <3>2, GivenStable DEF Backed, StoresBacked
    <3>3. CASE policyFile' = [x \in Tools |-> None]
      BY <3>3 DEF Backed, CachedAs, None
    <3> QED
      BY <2>1, <3>1, <3>2, <3>3
  <2>6. ASSUME NEW s \in Sessions, NEW t \in Tools, NEW e \in Always,
               sessionAlways'[<<s, t>>] = CachedAs(e)
        PROVE  GivenIn(s, t, e)'
    <3>1. CASE s = w /\ t = u
      <4>1. sessionAlways'[<<s, t>>] = CachedAs(d)
        BY <2>1, <3>1 DEF TypeOK
      <4>2. e = d
        BY <1>3, <2>6, <4>1, CachedAsInjective
      <4> QED
        BY <2>3, <3>1, <4>2
    <3>2. CASE ~(s = w /\ t = u)
      <4>1. sessionAlways'[<<s, t>>] = sessionAlways[<<s, t>>]
        BY <2>1, <3>2 DEF TypeOK
      <4>2. sessionAlways[<<s, t>>] = CachedAs(e)
        BY <2>6, <4>1
      <4>3. GivenIn(s, t, e)
        BY <4>2 DEF StoresBacked, GivenIn
      <4> QED
        BY <4>3, GivenInStable
    <3> QED
      BY <3>1, <3>2
  <2> QED
    BY <2>4, <2>5, <2>6 DEF StoresBacked, GivenIn
<1> QED
  BY <1>2, <1>3

\* A restart reads back what the file held, or an empty file.
LEMMA StoresRestart ==
  ASSUME TypeOK, Shape, StoresBacked, [Next]_vars, NEW file, Restart(file),
         file \in {policyFile, [t \in Tools |-> None]}
  PROVE  StoresBacked'
<1>1. /\ persistentAlways' = file /\ policyFile' = file
      /\ sessionAlways' = [st \in Sessions \X Tools |-> None]
  BY DEF Restart
<1>2. ASSUME NEW t \in Tools
      PROVE  Backed(t, file[t])'
  BY GivenStable DEF Backed, StoresBacked, CachedAs, None
<1>3. ASSUME NEW s \in Sessions, NEW t \in Tools, NEW d \in Always
      PROVE  sessionAlways'[<<s, t>>] # CachedAs(d)
  BY <1>1 DEF CachedAs, None
<1> QED
  BY <1>1, <1>2, <1>3 DEF StoresBacked, Backed

LEMMA StoresStep ==
  TypeOK /\ Shape /\ StoresBacked /\ [Next]_vars => StoresBacked'
<1> SUFFICES ASSUME TypeOK, Shape, StoresBacked, [Next]_vars
             PROVE  StoresBacked'
  OBVIOUS
<1>1. ASSUME NEW r \in Requests, EmitDone(r)
      PROVE  StoresBacked'
  <2>1. CASE future[r] \in Decisions
    BY <1>1, <2>1, StoresApply DEF EmitDone, Live
  <2>2. CASE future[r] \notin Decisions
    BY <1>1, <2>2, StoresUnchanged DEF EmitDone
  <2> QED
    BY <2>1, <2>2
<1>2. ASSUME NEW r \in Requests, ResumeAnswered(r)
      PROVE  StoresBacked'
  BY <1>2, StoresApply DEF ResumeAnswered, Live
<1>3. ASSUME NEW r \in Requests, CrashInSave(r)
      PROVE  StoresBacked'
  BY <1>3, StoresRestart DEF CrashInSave
<1>4. CASE Crash
  BY <1>4, StoresRestart DEF Crash
<1>5. CASE \E r \in Requests : \E c \in Calls : Decide(r, c) \/ Ask(r, c)
  BY <1>5, StoresUnchanged DEF Decide, Ask
<1>6. CASE \E r \in Requests : \E d \in Answers : Respond(r, d)
  BY <1>6, StoresUnchanged DEF Respond
<1>7. CASE \E r \in Requests : Timer(r) \/ CancelTask(r)
  BY <1>7, StoresUnchanged DEF Timer, CancelTask, Interrupted
<1>8. CASE \E r \in Requests : EmitFails(r) \/ AbortCancelled(r) \/ ResumeTimeout(r)
  BY <1>8, StoresUnchanged DEF EmitFails, AbortCancelled, Unwind, ResumeTimeout
<1>9. CASE \E s \in Sessions : CancelSession(s)
  BY <1>9, StoresUnchanged DEF CancelSession
<1>10. CASE UNCHANGED vars
  BY <1>10, StoresUnchanged DEF vars
<1> QED
  BY <1>1, <1>2, <1>3, <1>4, <1>5, <1>6, <1>7, <1>8, <1>9, <1>10
  DEF Next, Resume

LEMMA StoresInit == Init => StoresBacked
<1> SUFFICES ASSUME Init PROVE StoresBacked
  OBVIOUS
<1>1. ASSUME NEW t \in Tools PROVE Backed(t, InitialFile[t])
  BY DEF Backed, Given
<1>2. ASSUME NEW s \in Sessions, NEW t \in Tools, NEW d \in Always
      PROVE  sessionAlways[<<s, t>>] # CachedAs(d)
  BY DEF Init, CachedAs, None
<1> QED
  BY <1>1, <1>2 DEF StoresBacked, Init

\* No cache and no file ever holds a verdict that nobody gave.
THEOREM StoresBackedCorrect == Spec => []StoresBacked
  BY TypeInit, TypeStep, ShapeInit, ShapeStep, StoresInit, StoresStep, PTL DEF Spec

-----------------------------------------------------------------------------
(* Every grant is justified                                                *)

Justified(r) ==
    /\ ~call[r].deny
    /\ \/ future[r] \in Allowing /\ interrupt[r] = None
       \/ /\ ~call[r].outside
          /\ StaticVerdict(call[r]) = "allow" \/ Given(call[r].tool, "always_allow")

\* Futures that hold an answer and interrupts of settled requests are final.
LEMMA AnswerStable ==
  ASSUME TypeOK, Shape, [Next]_vars, NEW q \in Requests, pc[q] = "done",
         future[q] \in Allowing, interrupt[q] = None
  PROVE  future'[q] = future[q] /\ interrupt'[q] = None
<1>1. ASSUME NEW r \in Requests, NEW c \in Calls, Decide(r, c) \/ Ask(r, c)
      PROVE  future'[q] = future[q] /\ interrupt'[q] = None
  BY <1>1 DEF TypeOK, Decide, Ask
<1>2. ASSUME NEW r \in Requests, NEW d \in Answers, Respond(r, d)
      PROVE  future'[q] = future[q] /\ interrupt'[q] = None
  BY <1>2 DEF TypeOK, Respond, Allowing
<1>3. ASSUME NEW r \in Requests, Timer(r) \/ CancelTask(r)
      PROVE  future'[q] = future[q] /\ interrupt'[q] = None
  BY <1>3 DEF TypeOK, Timer, CancelTask, Interrupted, Live
<1>4. ASSUME NEW r \in Requests, EmitDone(r) \/ EmitFails(r) \/ Resume(r)
      PROVE  future'[q] = future[q] /\ interrupt'[q] = None
  BY <1>4 DEF EmitDone, EmitFails, Resume, ResumeAnswered, ResumeTimeout,
              AbortCancelled, Apply, Remember, Unwind
<1>5. ASSUME NEW s \in Sessions, CancelSession(s)
      PROVE  future'[q] = future[q] /\ interrupt'[q] = None
  BY <1>5 DEF TypeOK, CancelSession, Allowing
<1>6. ASSUME NEW file, Restart(file)
      PROVE  future'[q] = future[q] /\ interrupt'[q] = None
  BY <1>6 DEF Restart
<1>7. CASE UNCHANGED vars
  BY <1>7 DEF vars, taskVars
<1> QED
  BY <1>1, <1>2, <1>3, <1>4, <1>5, <1>6, <1>7 DEF Next, Crash, CrashInSave

\* A call let through without asking has a policy or a standing answer behind it.
LEMMA AutoAllowJustified ==
  ASSUME TypeOK, StoresBacked, NEW c \in Calls, Tiers(c) = "allow"
  PROVE  /\ ~c.deny /\ ~c.outside
         /\ StaticVerdict(c) = "allow" \/ Given(c.tool, "always_allow")
<1>1. c \in CallType
  BY PolicyAssumption
<1>2. ~c.deny /\ ~c.outside
  BY <1>1 DEF Tiers, CallType
<1>3. CASE CacheEntry(c) = None
  BY <1>1, <1>2, <1>3 DEF Tiers
<1>4. CASE CacheEntry(c) # None
  <2>1. CacheEntry(c) = CachedAs("always_allow") /\ "always_allow" \in Always
    BY <1>2, <1>4 DEF Tiers, CachedAs, Always
  <2>2. PICK s \in Sessions, t \in Tools : s = c.session /\ t = c.tool
    BY <1>1 DEF CallType
  <2>3. CASE sessionAlways[<<s, t>>] # None
    <3>1. sessionAlways[<<s, t>>] = CachedAs("always_allow")
      BY <2>1, <2>2, <2>3 DEF CacheEntry
    <3>2. Given(t, "always_allow")
      BY <2>1, <3>1 DEF StoresBacked, Given
    <3> QED
      BY <1>2, <2>2, <3>2
  <2>4. CASE sessionAlways[<<s, t>>] = None
    <3>1. persistentAlways[t] = CachedAs("always_allow")
      BY <2>1, <2>2, <2>4 DEF CacheEntry
    <3>2. Given(t, "always_allow")
      BY <2>1, <3>1 DEF StoresBacked, Backed
    <3> QED
      BY <1>2, <2>2, <3>2
  <2> QED
    BY <2>3, <2>4
<1> QED
  BY <1>2, <1>3, <1>4

LEMMA GrantStep ==
  TypeOK /\ Shape /\ StoresBacked /\ GrantJustified /\ [Next]_vars => GrantJustified'
<1> SUFFICES ASSUME TypeOK, Shape, StoresBacked, GrantJustified, [Next]_vars,
                    NEW q \in Requests, reply'[q].allowed
             PROVE  Justified(q)'
  BY DEF GrantJustified, Justified
<1>1. CASE pc[q] = "done"
  <2>1. call'[q] = call[q] /\ reply'[q] = reply[q]
    BY <1>1, SettledStable
  <2>2. Justified(q)
    BY <2>1 DEF GrantJustified, Justified
  <2>3. Given(call[q].tool, "always_allow") => Given(call[q].tool, "always_allow")'
    <3>1. PICK t : t = call[q].tool
      OBVIOUS
    <3> QED
      BY <2>1, <3>1, GivenStable DEF Given
  <2> QED
    BY <1>1, <2>1, <2>2, <2>3, AnswerStable DEF Justified, StaticVerdict
<1>2. CASE pc[q] # "done"
  <2>1. ~reply[q].allowed
    BY <1>2 DEF Shape, NoReply
  <2>2. ASSUME NEW r \in Requests, NEW c \in Calls, Decide(r, c)
        PROVE  Justified(q)'
    <3>1. r = q /\ call'[q] = c /\ Tiers(c) = "allow"
      BY <2>1, <2>2 DEF Decide, TypeOK, Automatic
    <3>2. /\ ~c.deny /\ ~c.outside
          /\ StaticVerdict(c) = "allow" \/ Given(c.tool, "always_allow")
      BY <3>1, AutoAllowJustified
    <3>3. Given(c.tool, "always_allow") => Given(c.tool, "always_allow")'
      BY GivenStable
    <3> QED
      BY <3>1, <3>2, <3>3 DEF Justified, StaticVerdict, Given
  <2>3. ASSUME NEW r \in Requests, Live(r), interrupt[r] = None, Apply(r)
        PROVE  Justified(q)'
    <3>1. r = q /\ future[q] \in Allowing
      BY <2>1, <2>3 DEF Apply, Remember, TypeOK
    <3>2. call' = call /\ future' = future /\ interrupt' = interrupt
      BY <2>3 DEF Apply, Remember
    <3> QED
      BY <2>3, <3>1, <3>2 DEF Justified, Shape, Live
  <2>4. ASSUME NEW r \in Requests, EmitDone(r) \/ ResumeAnswered(r)
        PROVE  Justified(q)'
    <3>1. CASE Apply(r)
      BY <2>3, <2>4, <3>1 DEF EmitDone, ResumeAnswered, Live
    <3>2. CASE reply' = reply
      BY <2>1, <3>2
    <3> QED
      BY <2>4, <3>1, <3>2 DEF EmitDone, ResumeAnswered
  <2>5. ASSUME NEW r \in Requests, ResumeTimeout(r)
        PROVE  FALSE
    BY <2>1, <2>5 DEF ResumeTimeout, TypeOK
  <2>6. CASE reply' = reply
    BY <2>1, <2>6
  <2> QED
    BY <2>2, <2>4, <2>5, <2>6
    DEF Next, Ask, Respond, Timer, CancelTask, Interrupted, EmitFails, Resume,
        AbortCancelled, Unwind, Crash, CrashInSave, Restart, CancelSession,
        vars, taskVars
<1> QED
  BY <1>1, <1>2

\* A call is let through by its own answer, by its policy or by a standing
\* answer for its tool, and by nothing else.
THEOREM GrantJustifiedCorrect == Spec => []GrantJustified
<1>1. Init => GrantJustified
  BY DEF Init, GrantJustified, NoReply
<1> QED
  BY <1>1, TypeInit, TypeStep, ShapeInit, ShapeStep, StoresInit, StoresStep, GrantStep,
     PTL DEF Spec

-----------------------------------------------------------------------------
(* The session cache and the cache all sessions share                      *)

LEMMA CoverApply ==
  ASSUME TypeOK, PersistentCoversSession,
         NEW r \in Requests, Live(r), future[r] \in Decisions, Apply(r)
  PROVE  PersistentCoversSession'
<1>1. PICK d \in Decisions, u \in Tools, w \in Sessions :
         d = future[r] /\ u = call[r].tool /\ w = call[r].session
  BY PolicyAssumption DEF TypeOK, CallType, Live
<1>2. CASE d \notin Always
  BY <1>1, <1>2 DEF Apply, Remember, PersistentCoversSession, cacheVars
<1>3. CASE d \in Always
  <2>1. /\ sessionAlways' = [sessionAlways EXCEPT ![<<w, u>>] = CachedAs(d)]
        /\ persistentAlways' = [persistentAlways EXCEPT ![u] = CachedAs(d)]
    BY <1>1, <1>3 DEF Apply, Remember
  <2>2. CachedAs(d) # None
    BY DEF CachedAs, None
  <2>3. ASSUME NEW s \in Sessions, NEW t \in Tools, sessionAlways'[<<s, t>>] # None
        PROVE  persistentAlways'[t] # None
    <3>1. CASE t = u
      BY <2>1, <2>2, <3>1 DEF TypeOK
    <3>2. CASE t # u
      BY <2>1, <2>3, <3>2 DEF TypeOK, PersistentCoversSession
    <3> QED
      BY <3>1, <3>2
  <2> QED
    BY <2>3 DEF PersistentCoversSession
<1> QED
  BY <1>2, <1>3

LEMMA CoverStep ==
  TypeOK /\ PersistentCoversSession /\ [Next]_vars => PersistentCoversSession'
<1> SUFFICES ASSUME TypeOK, PersistentCoversSession, [Next]_vars
             PROVE  PersistentCoversSession'
  OBVIOUS
<1>1. CASE UNCHANGED cacheVars
  BY <1>1 DEF cacheVars, PersistentCoversSession
<1>2. ASSUME NEW r \in Requests, EmitDone(r) \/ ResumeAnswered(r)
      PROVE  PersistentCoversSession'
  <2>1. CASE UNCHANGED cacheVars
    BY <2>1, <1>1
  <2> QED
    BY <1>2, <2>1, CoverApply DEF EmitDone, ResumeAnswered, Live
<1>3. ASSUME NEW file, Restart(file)
      PROVE  PersistentCoversSession'
  BY <1>3 DEF Restart, PersistentCoversSession, None
<1> QED
  BY <1>1, <1>2, <1>3
  DEF Next, Decide, Ask, Respond, Timer, CancelTask, Interrupted, EmitFails, Resume,
      ResumeTimeout, AbortCancelled, Unwind, Crash, CrashInSave, CancelSession, vars

\* What a session remembers, the daemon remembers for the sessions to come.
THEOREM PersistentCoversSessionCorrect == Spec => []PersistentCoversSession
<1>1. Init => PersistentCoversSession
  BY DEF Init, PersistentCoversSession, None
<1> QED
  BY <1>1, TypeInit, TypeStep, CoverStep, PTL DEF Spec

LEMMA DenyHoldsStep ==
  ASSUME TypeOK, Shape, [Next]_vars, NEW q \in Requests,
         pc[q] = "idle", pc'[q] = "done", reply'[q].allowed
  PROVE  sessionAlways[<<call'[q].session, call'[q].tool>>] # "deny"
<1>1. ~reply[q].allowed
  BY DEF Shape, NoReply
<1>2. ASSUME NEW r \in Requests, NEW c \in Calls, Decide(r, c)
      PROVE  sessionAlways[<<call'[q].session, call'[q].tool>>] # "deny"
  <2>1. r = q /\ call'[q] = c /\ Tiers(c) = "allow"
    BY <1>1, <1>2 DEF Decide, TypeOK, Automatic
  <2>2. ~c.deny /\ ~c.outside
    BY <2>1, PolicyAssumption DEF Tiers, CallType
  <2> QED
    BY <2>1, <2>2 DEF Tiers, CacheEntry, None
<1>3. ASSUME NEW r \in Requests, EmitDone(r) \/ Resume(r) \/ EmitFails(r)
      PROVE  FALSE
  BY <1>3 DEF TypeOK, EmitDone, EmitFails, Resume, ResumeAnswered, ResumeTimeout,
              AbortCancelled, Apply, Remember, Unwind, Live
<1> QED
  BY <1>1, <1>2, <1>3
  DEF Next, Ask, Respond, Timer, CancelTask, Interrupted, Crash, CrashInSave,
      Restart, CancelSession, vars, taskVars

\* A session's own always_deny outranks every later always_allow of another.
THEOREM SessionDenyHoldsCorrect == Spec => SessionDenyHolds
<1>1. TypeOK /\ Shape /\ [Next]_vars =>
        [\A r \in Requests :
            /\ pc[r] = "idle" /\ pc'[r] = "done" /\ reply'[r].allowed
            => sessionAlways[<<call'[r].session, call'[r].tool>>] # "deny"]_vars
  BY DenyHoldsStep
<1> QED
  BY <1>1, TypeInit, TypeStep, ShapeInit, ShapeStep, PTL DEF Spec, SessionDenyHolds

-----------------------------------------------------------------------------
(* The permission manager implements Approval: every step of it is a step   *)
(* of the abstract gate or leaves the gate unchanged.                       *)


AnswerMap  == [r \in Requests |-> IF future[r] \in Decisions THEN future[r] ELSE None]
VerdictMap == [r \in Requests |-> VerdictOf(r)]

\* A reply that quotes a decision quotes the answer its request was given.
ReplyQuotes ==
    \A r \in Requests : pc[r] = "done" /\ reply[r].decision \in Decisions =>
        /\ future[r] = reply[r].decision
        /\ reply[r].allowed <=> reply[r].decision \in Allowing

LEMMA QuotesStep ==
  TypeOK /\ Shape /\ ReplyQuotes /\ [Next]_vars => ReplyQuotes'
<1> SUFFICES ASSUME TypeOK, Shape, ReplyQuotes, [Next]_vars PROVE ReplyQuotes'
  OBVIOUS
<1> USE DEF ReplyQuotes
<1>1. ASSUME NEW r \in Requests, NEW c \in Calls, Decide(r, c)
      PROVE  ReplyQuotes'
  BY <1>1 DEF TypeOK, Decide, Automatic, Decisions, cacheVars
<1>2. ASSUME NEW r \in Requests, NEW c \in Calls, Ask(r, c)
      PROVE  ReplyQuotes'
  BY <1>2 DEF TypeOK, Ask
<1>3. ASSUME NEW r \in Requests, NEW d \in Answers, Respond(r, d)
      PROVE  ReplyQuotes'
  BY <1>3 DEF TypeOK, Shape, Respond, Decisions
<1>4. ASSUME NEW r \in Requests, Timer(r) \/ CancelTask(r)
      PROVE  ReplyQuotes'
  BY <1>4 DEF TypeOK, Timer, CancelTask, Interrupted, Live
<1>5. ASSUME NEW r \in Requests, EmitDone(r) \/ ResumeAnswered(r)
      PROVE  ReplyQuotes'
  <2>1. CASE Apply(r)
    <3>1. /\ pc' = [pc EXCEPT ![r] = "done"]
          /\ reply' = [reply EXCEPT ![r] =
                         [allowed |-> future[r] \in Allowing, decision |-> future[r]]]
          /\ future' = future
      BY <2>1 DEF Apply, Remember
    <3>2. /\ reply'[r].decision = future[r]
          /\ reply'[r].allowed <=> future[r] \in Allowing
      BY <3>1 DEF TypeOK
    <3>3. ASSUME NEW q \in Requests \ {r}
          PROVE  pc'[q] = pc[q] /\ reply'[q] = reply[q]
      BY <3>1 DEF TypeOK
    <3> QED
      BY <3>1, <3>2, <3>3
  <2>2. CASE ~Apply(r)
    BY <1>5, <2>2 DEF TypeOK, EmitDone, ResumeAnswered
  <2> QED
    BY <2>1, <2>2
<1>6. ASSUME NEW r \in Requests, ResumeTimeout(r)
      PROVE  ReplyQuotes'
  BY <1>6 DEF TypeOK, ResumeTimeout, Decisions
<1>7. ASSUME NEW r \in Requests, AbortCancelled(r) \/ EmitFails(r)
      PROVE  ReplyQuotes'
  BY <1>7 DEF TypeOK, AbortCancelled, EmitFails, Unwind, Live
<1>8. ASSUME NEW s \in Sessions, CancelSession(s)
      PROVE  ReplyQuotes'
  BY <1>8 DEF TypeOK, Shape, CancelSession, Decisions
<1>9. ASSUME NEW file, Restart(file)
      PROVE  ReplyQuotes'
  BY <1>9 DEF TypeOK, Restart, Live
<1>10. CASE UNCHANGED vars
  BY <1>10 DEF vars, taskVars
<1> QED
  BY <1>1, <1>2, <1>3, <1>4, <1>5, <1>6, <1>7, <1>8, <1>9, <1>10
  DEF Next, Resume, Crash, CrashInSave

-----------------------------------------------------------------------------
(* Initial states, and what the maps show of a step                        *)

LEMMA GateInit == Init => Gate!ApprovalInit
<1> SUFFICES ASSUME Init PROVE Gate!ApprovalInit
  OBVIOUS
<1>1. \A r \in Requests : future[r] = None /\ pc[r] = "idle"
  BY DEF Init
<1>2. \A r \in Requests : VerdictOf(r) = "new"
  BY <1>1 DEF VerdictOf, Live
<1>3. \A r \in Requests : future[r] \notin Decisions
  BY <1>1 DEF Decisions, None
<1>4. call = [r \in Requests |-> Gate!NoCall]
  BY DEF Init, NoCall, Gate!NoCall, None, Gate!None
<1> QED
  BY <1>2, <1>3, <1>4 DEF Gate!ApprovalInit, None, Gate!None

\* The verdicts the map can show.
LEMMA VerdictCases ==
  ASSUME TypeOK, NEW r \in Requests
  PROVE  /\ pc[r] = "idle" => VerdictOf(r) = "new"
         /\ Live(r) => VerdictOf(r) = "asked"
         /\ pc[r] = "aborted" => VerdictOf(r) = "dropped"
         /\ pc[r] = "done" /\ reply[r].allowed => VerdictOf(r) = "granted"
         /\ pc[r] = "done" /\ ~reply[r].allowed => VerdictOf(r) = "refused"
  BY DEF TypeOK, VerdictOf, Live

\* A step that touches one request shows one changed verdict at most.
LEMMA VerdictUpdate ==
  ASSUME TypeOK, NEW r \in Requests,
         \A q \in Requests \ {r} : pc'[q] = pc[q] /\ reply'[q] = reply[q]
  PROVE  VerdictMap' = [VerdictMap EXCEPT ![r] = VerdictOf(r)']
<1>1. \A q \in Requests \ {r} : VerdictOf(q)' = VerdictOf(q)
  BY DEF VerdictOf, Live
<1> QED
  BY <1>1 DEF VerdictMap

LEMMA VerdictSame ==
  ASSUME \A q \in Requests : VerdictOf(q)' = VerdictOf(q)
  PROVE  VerdictMap' = VerdictMap
  BY DEF VerdictMap

\* Futures change unseen as long as no decision is put in or taken out.
LEMMA AnswerSame ==
  ASSUME \A q \in Requests : \/ future'[q] = future[q]
                             \/ future[q] \notin Decisions /\ future'[q] \notin Decisions
  PROVE  AnswerMap' = AnswerMap
  BY DEF AnswerMap

\* Decisions given to a tool are standing answers at the gate.
LEMMA GivenStanding ==
  ASSUME TypeOK, ReplyQuotes, NEW t, NEW d \in Always, Given(t, d)
  PROVE  Gate!Standing(t, d)
<1>1. CASE InitialFile[t] = CachedAs(d)
  BY <1>1 DEF Gate!Standing, Gate!CachedAs, CachedAs
<1>2. CASE \E q \in Requests :
             pc[q] = "done" /\ call[q].tool = t /\ reply[q].decision = d
  <2>1. PICK q \in Requests :
             pc[q] = "done" /\ call[q].tool = t /\ reply[q].decision = d
    BY <1>2
  <2>2. d \in Decisions
    BY DEF Always, Decisions
  <2>3. future[q] = d /\ (reply[q].allowed <=> d \in Allowing)
    BY <2>1, <2>2 DEF ReplyQuotes
  <2>4. VerdictOf(q) = IF d = "always_allow" THEN "granted" ELSE "refused"
    BY <2>1, <2>3, VerdictCases DEF Always, Allowing
  <2> QED
    BY <2>1, <2>2, <2>3, <2>4 DEF Gate!Standing
<1> QED
  BY <1>1, <1>2 DEF Given

\* A call refused without asking matches a deny pattern, or is refused by its
\* policy or a standing answer.
LEMMA AutoDenyJustified ==
  ASSUME TypeOK, StoresBacked, NEW c \in Calls, Tiers(c) = "deny", ~c.deny
  PROVE  ~c.outside /\ (StaticVerdict(c) = "deny" \/ Given(c.tool, "always_deny"))
<1>1. c \in CallType
  BY PolicyAssumption
<1>2. ~c.outside
  BY <1>1 DEF Tiers, CallType
<1>3. CASE CacheEntry(c) = None
  BY <1>1, <1>2, <1>3 DEF Tiers
<1>4. CASE CacheEntry(c) # None
  <2>1. CacheEntry(c) = CachedAs("always_deny") /\ "always_deny" \in Always
    BY <1>2, <1>4 DEF Tiers, CachedAs, Always
  <2>2. PICK s \in Sessions, t \in Tools : s = c.session /\ t = c.tool
    BY <1>1 DEF CallType
  <2>3. CASE sessionAlways[<<s, t>>] # None
    <3>1. sessionAlways[<<s, t>>] = CachedAs("always_deny")
      BY <2>1, <2>2, <2>3 DEF CacheEntry
    <3>2. Given(t, "always_deny")
      BY <2>1, <3>1 DEF StoresBacked, Given
    <3> QED
      BY <1>2, <2>2, <3>2
  <2>4. CASE sessionAlways[<<s, t>>] = None
    <3>1. persistentAlways[t] = CachedAs("always_deny")
      BY <2>1, <2>2, <2>4 DEF CacheEntry
    <3>2. Given(t, "always_deny")
      BY <2>1, <3>1 DEF StoresBacked, Backed
    <3> QED
      BY <1>2, <2>2, <3>2
  <2> QED
    BY <2>3, <2>4
<1> QED
  BY <1>2, <1>3, <1>4

-----------------------------------------------------------------------------
(* The steps                                                               *)

RefinementInv == TypeOK /\ Shape /\ StoresBacked /\ ReplyQuotes

GateUnchanged == UNCHANGED <<call, AnswerMap, VerdictMap>>

LEMMA DecideSubmits ==
  ASSUME RefinementInv, NEW r \in Requests, NEW c \in Calls, Decide(r, c)
  PROVE  Gate!Submit(r, c)
<1> USE DEF RefinementInv
<1>1. /\ pc[r] = "idle" /\ pc'[r] = "done"
      /\ call' = [call EXCEPT ![r] = c]
      /\ reply'[r].allowed <=> Tiers(c) = "allow"
      /\ AnswerMap' = AnswerMap
      /\ \A q \in Requests \ {r} : pc'[q] = pc[q] /\ reply'[q] = reply[q]
  BY DEF TypeOK, Decide, Automatic, AnswerMap
<1>2. VerdictMap[r] = "new"
  BY <1>1, VerdictCases DEF VerdictMap
<1>3. /\ VerdictMap' = [VerdictMap EXCEPT ![r] = VerdictOf(r)']
      /\ VerdictOf(r)' = IF Tiers(c) = "allow" THEN "granted" ELSE "refused"
  BY <1>1, VerdictUpdate DEF VerdictOf, Live
<1>4. CASE Tiers(c) = "allow"
  <2>1. /\ ~c.deny /\ ~c.outside
        /\ StaticVerdict(c) = "allow" \/ Given(c.tool, "always_allow")
    BY <1>4, AutoAllowJustified
  <2>2. Gate!MayGrant(c)
    BY <2>1, GivenStanding DEF Gate!MayGrant, Gate!StaticVerdict, StaticVerdict, Always
  <2> QED
    BY <1>1, <1>2, <1>3, <1>4, <2>2 DEF Gate!Submit, AnswerMap, VerdictMap
<1>5. CASE Tiers(c) # "allow"
  <2>1. Tiers(c) = "deny"
    BY <1>5, PolicyAssumption
    DEF Decide, Tiers, CacheEntry, StaticVerdict, TypeOK, Cached, CallType, Verdicts
  <2>2. c.deny \/ (~c.outside /\ (\/ StaticVerdict(c) = "deny"
                                 \/ Given(c.tool, "always_deny")))
    BY <2>1, AutoDenyJustified
  <2>3. Gate!MayRefuse(c)
    BY <2>2, GivenStanding DEF Gate!MayRefuse, Gate!StaticVerdict, StaticVerdict, Always
  <2> QED
    BY <1>1, <1>2, <1>3, <1>5, <2>3 DEF Gate!Submit, AnswerMap, VerdictMap
<1> QED
  BY <1>4, <1>5

LEMMA AskSubmits ==
  ASSUME RefinementInv, NEW r \in Requests, NEW c \in Calls, Ask(r, c)
  PROVE  Gate!Submit(r, c)
<1> USE DEF RefinementInv
<1>1. /\ pc[r] = "idle" /\ pc'[r] = "emitting"
      /\ call' = [call EXCEPT ![r] = c]
      /\ \A q \in Requests \ {r} : pc'[q] = pc[q] /\ reply'[q] = reply[q]
  BY DEF TypeOK, Ask
<1>2. VerdictMap[r] = "new"
  BY <1>1, VerdictCases DEF VerdictMap
<1>3. /\ VerdictMap' = [VerdictMap EXCEPT ![r] = VerdictOf(r)']
      /\ VerdictOf(r)' = "asked"
  BY <1>1, VerdictUpdate DEF VerdictOf, Live
<1>4. AnswerMap' = AnswerMap
  BY <1>1, AnswerSame DEF Ask, TypeOK, Shape, Decisions, None
<1>5. ~c.deny
  BY DeniedNotAsked DEF Ask
<1> QED
  BY <1>1, <1>2, <1>3, <1>4, <1>5 DEF Gate!Submit, AnswerMap, VerdictMap

\* respond() and cancel_session() answer the requests they find unset.
LEMMA AnswersSet ==
  ASSUME RefinementInv, NEW R \in SUBSET pending, NEW d \in Decisions,
         \A q \in R : future[q] = "pending",
         future' = [q \in Requests |-> IF q \in R THEN d ELSE future[q]],
         UNCHANGED <<pc, call, reply>>
  PROVE  Gate!Answer(R, d)
<1> USE DEF RefinementInv
<1>1. VerdictMap' = VerdictMap
  BY VerdictSame DEF VerdictOf, Live
<1>2. ASSUME NEW q \in R
      PROVE  VerdictMap[q] \in {"asked", "dropped"} /\ AnswerMap[q] = None
  <2>1. q \in Requests /\ (Live(q) \/ pc[q] = "aborted")
    BY DEF TypeOK, Shape, Live
  <2> QED
    BY <1>2, <2>1, VerdictCases DEF VerdictMap, AnswerMap, Decisions
<1>3. AnswerMap' = [q \in Requests |-> IF q \in R THEN d ELSE AnswerMap[q]]
  BY DEF AnswerMap
<1> QED
  BY <1>1, <1>2, <1>3 DEF Gate!Answer, AnswerMap, VerdictMap, None, Gate!None

LEMMA ApplySettles ==
  ASSUME RefinementInv, NEW r \in Requests, Live(r), future[r] \in Decisions, Apply(r)
  PROVE  Gate!Settle(r)
<1> USE DEF RefinementInv
<1>1. /\ pc'[r] = "done" /\ (reply'[r].allowed <=> future[r] \in Allowing)
      /\ call' = call /\ future' = future
      /\ \A q \in Requests \ {r} : pc'[q] = pc[q] /\ reply'[q] = reply[q]
  <2>1. /\ pc' = [pc EXCEPT ![r] = "done"]
        /\ reply' = [reply EXCEPT ![r] =
                       [allowed |-> future[r] \in Allowing, decision |-> future[r]]]
        /\ call' = call /\ future' = future
    BY DEF Apply, Remember
  <2>2. reply'[r].allowed <=> future[r] \in Allowing
    BY <2>1 DEF TypeOK
  <2> QED
    BY <2>1, <2>2 DEF TypeOK
<1>2. VerdictMap[r] = "asked" /\ AnswerMap[r] = future[r] /\ AnswerMap' = AnswerMap
  BY <1>1, VerdictCases DEF VerdictMap, AnswerMap
<1>3. /\ VerdictMap' = [VerdictMap EXCEPT ![r] = VerdictOf(r)']
      /\ VerdictOf(r)' = IF future[r] \in Allowing THEN "granted" ELSE "refused"
  BY <1>1, VerdictUpdate DEF VerdictOf, Live
<1> QED
  BY <1>1, <1>2, <1>3
  DEF Gate!Settle, AnswerMap, VerdictMap, Allowing, Gate!Allowing

\* A timeout refuses, a cancellation or a failed announcement drops.
LEMMA EndSettles ==
  ASSUME RefinementInv, NEW r \in Requests, Live(r),
         ResumeTimeout(r) \/ AbortCancelled(r) \/ EmitFails(r)
  PROVE  Gate!Settle(r)
<1> USE DEF RefinementInv
<1>1. /\ \/ pc'[r] = "done" /\ ~reply'[r].allowed
         \/ pc'[r] = "aborted"
      /\ call' = call /\ future' = future
      /\ \A q \in Requests \ {r} : pc'[q] = pc[q] /\ reply'[q] = reply[q]
  BY DEF TypeOK, ResumeTimeout, AbortCancelled, EmitFails, Unwind
<1>2. VerdictMap[r] = "asked" /\ AnswerMap' = AnswerMap
  BY <1>1, VerdictCases DEF VerdictMap, AnswerMap
<1>3. /\ VerdictMap' = [VerdictMap EXCEPT ![r] = VerdictOf(r)']
      /\ VerdictOf(r)' \in {"refused", "dropped"}
  BY <1>1, VerdictUpdate DEF VerdictOf, Live
<1> QED
  BY <1>1, <1>2, <1>3 DEF Gate!Settle, AnswerMap, VerdictMap

LEMMA RestartDrops ==
  ASSUME RefinementInv, NEW file, Restart(file)
  PROVE  Gate!DropAll
<1> USE DEF RefinementInv
<1>1. /\ pc' = [r \in Requests |-> IF Live(r) THEN "aborted" ELSE pc[r]]
      /\ call' = call /\ future' = future /\ reply' = reply
  BY DEF Restart
<1>2. ASSUME NEW q \in Requests
      PROVE  VerdictOf(q)' = IF VerdictOf(q) = "asked" THEN "dropped" ELSE VerdictOf(q)
  BY <1>1 DEF VerdictOf, Live, TypeOK
<1>3. AnswerMap' = AnswerMap
  BY <1>1 DEF AnswerMap
<1> QED
  BY <1>1, <1>2, <1>3 DEF Gate!DropAll, AnswerMap, VerdictMap

LEMMA GateStep ==
  ASSUME RefinementInv, [Next]_vars
  PROVE  [Gate!ApprovalNext]_(Gate!approvalVars)
<1> USE DEF RefinementInv
<1>1. ASSUME NEW r \in Requests, NEW c \in Calls, Decide(r, c) \/ Ask(r, c)
      PROVE  Gate!ApprovalNext
  BY <1>1, DecideSubmits, AskSubmits DEF Gate!ApprovalNext
<1>2. ASSUME NEW r \in Requests, NEW d \in Answers, Respond(r, d)
      PROVE  Gate!ApprovalNext \/ GateUnchanged
  <2>1. d \in Decisions
    BY PolicyAssumption
  <2>2. CASE future[r] = "pending"
    <3>1. /\ {r} \in SUBSET pending
          /\ \A q \in {r} : future[q] = "pending"
          /\ future' = [q \in Requests |-> IF q \in {r} THEN d ELSE future[q]]
          /\ UNCHANGED <<pc, call, reply>>
      BY <1>2, <2>2 DEF Respond, TypeOK
    <3>2. Gate!Answer({r}, d)
      BY <2>1, <3>1, AnswersSet
    <3> QED
      BY <2>1, <3>2 DEF Gate!ApprovalNext, Decisions, Gate!Decisions
  <2>3. CASE future[r] # "pending"
    <3>1. future' = future /\ UNCHANGED <<pc, call, reply>>
      BY <1>2, <2>3 DEF Respond, TypeOK
    <3> QED
      BY <3>1, AnswerSame, VerdictSame DEF GateUnchanged, VerdictOf, Live
  <2> QED
    BY <2>2, <2>3
<1>3. ASSUME NEW s \in Sessions, CancelSession(s)
      PROVE  Gate!ApprovalNext
  <2> DEFINE R == {r \in pending : call[r].session = s /\ future[r] = "pending"}
  <2>1. /\ R \in SUBSET pending
        /\ \A q \in R : future[q] = "pending"
        /\ future' = [q \in Requests |-> IF q \in R THEN "deny_once" ELSE future[q]]
        /\ UNCHANGED <<pc, call, reply>>
    BY <1>3 DEF CancelSession, TypeOK
  <2>2. "deny_once" \in Decisions /\ R \in SUBSET Requests
    BY DEF Decisions, TypeOK
  <2> HIDE DEF R
  <2>3. Gate!Answer(R, "deny_once")
    BY <2>1, <2>2, AnswersSet
  <2> QED
    BY <2>2, <2>3 DEF Gate!ApprovalNext, Decisions, Gate!Decisions
<1>4. ASSUME NEW r \in Requests, Timer(r) \/ CancelTask(r)
      PROVE  GateUnchanged
  <2>1. /\ UNCHANGED <<pc, call, reply>>
        /\ \A q \in Requests :
              \/ future'[q] = future[q]
              \/ future[q] \notin Decisions /\ future'[q] \notin Decisions
    BY <1>4 DEF Timer, CancelTask, Interrupted, TypeOK, Decisions
  <2> QED
    BY <2>1, AnswerSame, VerdictSame DEF GateUnchanged, VerdictOf, Live
<1>5. ASSUME NEW r \in Requests, EmitDone(r) \/ ResumeAnswered(r)
      PROVE  Gate!ApprovalNext \/ GateUnchanged
  <2>1. CASE Apply(r) /\ future[r] \in Decisions
    <3>1. Gate!Settle(r)
      BY <1>5, <2>1, ApplySettles DEF EmitDone, ResumeAnswered, Live
    <3> QED
      BY <3>1 DEF Gate!ApprovalNext
  <2>2. CASE ~(Apply(r) /\ future[r] \in Decisions)
    <3>1. /\ pc[r] = "emitting" /\ pc' = [pc EXCEPT ![r] = "waiting"]
          /\ UNCHANGED <<call, future, reply>>
      BY <1>5, <2>2 DEF EmitDone, ResumeAnswered
    <3>2. \A q \in Requests : VerdictOf(q)' = VerdictOf(q)
      BY <3>1 DEF VerdictOf, Live, TypeOK
    <3> QED
      BY <3>1, <3>2, AnswerSame, VerdictSame DEF GateUnchanged
  <2> QED
    BY <2>1, <2>2
<1>6. ASSUME NEW r \in Requests, ResumeTimeout(r) \/ AbortCancelled(r) \/ EmitFails(r)
      PROVE  Gate!ApprovalNext
  <2>1. Gate!Settle(r)
    BY <1>6, EndSettles DEF ResumeTimeout, AbortCancelled, EmitFails, Live
  <2> QED
    BY <2>1 DEF Gate!ApprovalNext
<1>7. ASSUME NEW file, Restart(file)
      PROVE  Gate!ApprovalNext
  BY <1>7, RestartDrops DEF Gate!ApprovalNext
<1>8. ASSUME UNCHANGED vars
      PROVE  GateUnchanged
  <2>1. UNCHANGED <<pc, call, future, reply>>
    BY <1>8 DEF vars, taskVars
  <2> QED
    BY <2>1, AnswerSame, VerdictSame DEF GateUnchanged, VerdictOf, Live
<1>9. Gate!ApprovalNext \/ GateUnchanged
  <2> HIDE DEF RefinementInv
  <2>1. ASSUME NEW r \in Requests, CrashInSave(r)
        PROVE  Gate!ApprovalNext
    BY <1>7, <2>1 DEF CrashInSave
  <2>2. CASE Crash
    BY <1>7, <2>2 DEF Crash
  <2>3. CASE Next
    BY <2>3, <1>1, <1>2, <1>3, <1>4, <1>5, <1>6, <2>1, <2>2 DEF Next, Resume
  <2> QED
    BY <1>8, <2>3
<1>10. GateUnchanged => UNCHANGED Gate!approvalVars
  BY DEF GateUnchanged, Gate!approvalVars, AnswerMap, VerdictMap
<1> QED
  BY <1>9, <1>10

LEMMA QuotesInit == Init => ReplyQuotes
  BY DEF Init, ReplyQuotes

\* The permission manager keeps the promise of Approval.
THEOREM RefinesApproval == Spec => ImplementsApproval
<1>1. Init => RefinementInv
  BY TypeInit, ShapeInit, StoresInit, QuotesInit DEF RefinementInv
<1>2. RefinementInv /\ [Next]_vars => RefinementInv'
  BY TypeStep, ShapeStep, StoresStep, QuotesStep DEF RefinementInv
<1>3. RefinementInv /\ [Next]_vars => [Gate!ApprovalNext]_(Gate!approvalVars)
  BY GateStep
<1> QED
  BY <1>1, <1>2, <1>3, GateInit, PTL DEF Spec, ImplementsApproval, Gate!ApprovalSpec
=============================================================================
