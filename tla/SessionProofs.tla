--------------------------- MODULE SessionProofs ----------------------------
(***************************************************************************)
(* Proofs about the sessions, for any number of sessions and requests.     *)
(*                                                                         *)
(* The argument: who is at an await inside `async with` holds the lock of  *)
(* its session, and only who holds a session's lock writes its thread, so  *)
(* what a handler knew of the thread before an await still holds after it. *)
(***************************************************************************)
EXTENDS Session, TLAPS, SequenceTheorems

-----------------------------------------------------------------------------
(* Rows and what can be read in them                                        *)

Rows == SUBSET Items

LEMMA ItemsOfEmpty == ItemsOf(<<>>) = {}
BY DEF ItemsOf, Range

LEMMA ItemsOfOne ==
    ASSUME NEW row PROVE ItemsOf(<<row>>) = row
BY DEF ItemsOf, Range

LEMMA Appended ==
    ASSUME NEW rows \in Seq(Rows), NEW row \in Rows
    PROVE  /\ Append(rows, row) \in Seq(Rows)
           /\ DOMAIN rows = 1 .. Len(rows) /\ Len(rows) \in Nat
           /\ DOMAIN Append(rows, row) = 1 .. Len(rows) + 1
           /\ Len(Append(rows, row)) = Len(rows) + 1
           /\ Append(rows, row)[Len(rows) + 1] = row
           /\ \A i \in 1 .. Len(rows) : Append(rows, row)[i] = rows[i]
           /\ ItemsOf(Append(rows, row)) = ItemsOf(rows) \cup row
<1>1. /\ Append(rows, row) \in Seq(Rows)
      /\ DOMAIN rows = 1 .. Len(rows) /\ Len(rows) \in Nat
      /\ DOMAIN Append(rows, row) = 1 .. Len(rows) + 1
      /\ Len(Append(rows, row)) = Len(rows) + 1
      /\ Append(rows, row)[Len(rows) + 1] = row
      /\ \A i \in 1 .. Len(rows) : Append(rows, row)[i] = rows[i]
  OBVIOUS
<1>2. \A i \in 1 .. Len(rows) + 1 : i \in 1 .. Len(rows) \/ i = Len(rows) + 1
  BY <1>1
<1>3. ItemsOf(Append(rows, row)) = ItemsOf(rows) \cup row
  <2>1. ASSUME NEW x \in ItemsOf(Append(rows, row))
        PROVE  x \in ItemsOf(rows) \cup row
    BY <1>1, <1>2 DEF ItemsOf, Range
  <2>2. ASSUME NEW x \in ItemsOf(rows) \cup row
        PROVE  x \in ItemsOf(Append(rows, row))
    BY <1>1, <1>2 DEF ItemsOf, Range
  <2> QED BY <2>1, <2>2
<1> QED BY <1>1, <1>3

-----------------------------------------------------------------------------
(* Type correctness and the locks                                           *)

Typed == SessionTypeOK /\ thread \in [Sessions -> Seq(Rows)]

\* Who is at an await inside `async with` holds the lock.
LockHeld == \A q \in Requests : pc[q] \in Awaits => lock[target[q]] = q

LEMMA AbsentIsNoSession == Absent \notin Session
BY DEF Absent, Session

LEMMA InitTyped == SessionInit => Typed /\ LockHeld
<1> SUFFICES ASSUME SessionInit PROVE Typed /\ LockHeld
  OBVIOUS
<1>1. <<>> \in Seq(Rows)
  OBVIOUS
<1> QED BY <1>1 DEF SessionInit, Typed, SessionTypeOK, LockHeld, Awaits, Exchanging


Control ==
    /\ pc \in [Requests -> Awaits \cup {"idle", "done", "failed"}]
    /\ lock \in [Sessions -> Requests \cup {Free}]
    /\ target \in [Requests -> Sessions]

\* What a step does to locks and awaits: a request takes a lock that is free,
\* goes on while it holds it, gives it back, or is refused.
Taking(q, a) ==
    /\ pc[q] = "idle" /\ lock[target[q]] = Free
    /\ Acquire(q) /\ GoTo(q, a) /\ UNCHANGED target
Moving(q, a) == pc[q] \in Awaits /\ GoTo(q, a) /\ UNCHANGED <<lock, target>>
Leaving(q, a) ==
    /\ pc[q] \in Awaits /\ a \in {"done", "failed"}
    /\ Release(q) /\ GoTo(q, a) /\ UNCHANGED target
Refused(q) == pc[q] = "idle" /\ GoTo(q, "failed") /\ UNCHANGED <<lock, target>>

LEMMA TakingHolds ==
    ASSUME Control, LockHeld, NEW q \in Requests, NEW a \in Awaits, Taking(q, a)
    PROVE  LockHeld'
BY SessionAssumption DEF Control, LockHeld, Taking, Acquire, GoTo, Awaits, Exchanging

LEMMA MovingHolds ==
    ASSUME Control, LockHeld, NEW q \in Requests, NEW a \in Awaits, Moving(q, a)
    PROVE  LockHeld'
BY DEF Control, LockHeld, Moving, GoTo, Awaits, Exchanging

LEMMA LeavingHolds ==
    ASSUME Control, LockHeld, NEW q \in Requests, NEW a, Leaving(q, a)
    PROVE  LockHeld'
BY DEF Control, LockHeld, Leaving, Release, GoTo, Awaits, Exchanging

\* The held lock of a step at an await.
LEMMA ControlStep ==
    ASSUME Control, SessionNext
    PROVE  \/ UNCHANGED <<pc, lock, target>>
           \/ \E q \in Requests, a \in Awaits : Taking(q, a) \/ Moving(q, a)
           \/ \E q \in Requests, a \in {"done", "failed"} : Leaving(q, a)
           \/ \E q \in Requests : Refused(q)
           \/ Vanish
<1> USE DEF Awaits, Exchanging
<1>1. ASSUME NEW s \in Sessions, NEW mode \in Modes, Create(s, mode)
      PROVE  UNCHANGED <<pc, lock, target>>
  BY <1>1 DEF Create
<1>2. ASSUME NEW q \in Requests, Refuse(q) PROVE Refused(q)
  BY <1>2 DEF Refuse, Refused
<1>3. ASSUME NEW q \in Requests, SendMessage(q) \/ Compact(q)
      PROVE  \E a \in Awaits : Taking(q, a)
  BY <1>3 DEF SendMessage, Compact, Taking
<1>8. ASSUME NEW q \in Requests, Close(q)
      PROVE  Taking(q, "closing") \/ Refused(q)
  BY <1>8 DEF Close, Taking, Refused
<1>4. ASSUME NEW q \in Requests, Resumed(q) \/ Invoked(q) \/ RunEnds(q)
      PROVE  \E a \in Awaits : Moving(q, a)
  BY <1>4 DEF Resumed, Invoked, RunEnds, Moving
<1>5. ASSUME NEW q \in Requests, Book(q)
      PROVE  (\E a \in Awaits : Moving(q, a)) \/ Leaving(q, "failed")
  BY <1>5 DEF Book, Moving, Leaving
<1>6. ASSUME NEW q \in Requests, Closed(q) \/ Compacted(q)
      PROVE  Leaving(q, "done")
  BY <1>6 DEF Closed, Compacted, Leaving
<1>9. ASSUME NEW q \in Requests, Settle(q)
      PROVE  \E a \in {"done", "failed"} : Leaving(q, a)
  BY <1>9 DEF Settle, Leaving
<1>7. ASSUME NEW q \in Requests, RunCancelled(q) \/ CompactTorn(q) \/ Abandon(q)
      PROVE  Leaving(q, "failed")
  BY <1>7 DEF RunCancelled, CompactTorn, Abandon, Leaving
<1> QED BY <1>1, <1>2, <1>3, <1>4, <1>5, <1>6, <1>7, <1>8, <1>9
        DEF SessionNext, Finish, Break, Crash, CrashInCompaction, CrashInSave

LEMMA HeldStep ==
    ASSUME Typed, LockHeld, [SessionNext]_sessionVars
    PROVE  LockHeld'
<1>1. Control
  BY DEF Typed, SessionTypeOK, Control
<1>2. CASE UNCHANGED <<pc, lock, target>>
  BY <1>2 DEF LockHeld
<1>3. CASE \E q \in Requests : Refused(q)
  BY <1>1, <1>3 DEF Refused, LockHeld, GoTo, Control, Awaits, Exchanging
<1>4. CASE Vanish
  BY <1>4 DEF Vanish, LockHeld, Awaits, Exchanging
<1>5. CASE UNCHANGED sessionVars
  BY <1>5, <1>2 DEF sessionVars, memory
<1> QED BY <1>1, <1>2, <1>3, <1>4, <1>5, ControlStep,
           TakingHolds, MovingHolds, LeavingHolds
-----------------------------------------------------------------------------
(* Threads                                                                  *)

Spoke  == {"receiving", "invoking", "running"}   \* its message is stored
Silent == {"idle", "resuming"}                   \* it is not, yet

\* While a message is being answered it is the last row of its thread.
Spoken ==
    \A q \in Requests : pc[q] \in Spoke =>
        /\ thread[target[q]] # <<>>
        /\ <<q, "user">> \in thread[target[q]][Len(thread[target[q]])]

\* What a run added stands with the message it answers or right behind it.
Whole ==
    \A s \in Sessions : \A i \in DOMAIN thread[s], q \in Requests :
        <<q, "run">> \in thread[s][i] =>
            \/ <<q, "user">> \in thread[s][i]
            \/ i > 1 /\ <<q, "user">> \in thread[s][i - 1]

\* The LLM is asked for a summary of the thread as it is.
Current ==
    \A q \in Requests : pc[q] = "compacting" =>
        snapshot[q] = ItemsOf(thread[target[q]])

\* A request that is still to speak has left nothing.
Fresh ==
    \A q \in Requests : pc[q] \in Silent =>
        \A s \in Sessions, k \in {"user", "run"} :
            <<q, k>> \notin ItemsOf(thread[s]) \cup backup[s]

ThreadInv == Typed /\ LockHeld /\ Spoken /\ Whole /\ Current /\ Fresh

\* What a step does to threads, with what it may do to requests meanwhile.
Keeps ==
    /\ UNCHANGED <<thread, backup, target>>
    /\ \A p \in Requests :
        /\ pc'[p] \in Spoke => pc[p] \in Spoke
        /\ pc'[p] \in Silent => pc[p] \in Silent
        /\ pc'[p] = "compacting" =>
              \/ pc[p] = "compacting" /\ snapshot'[p] = snapshot[p]
              \/ snapshot'[p] = ItemsOf(thread[target[p]])

Says(q) ==
    /\ pc[q] \in Silent /\ (pc[q] = "idle" => lock[target[q]] = Free)
    /\ GoTo(q, "receiving") /\ Store(q, {<<q, "user">>})
    /\ UNCHANGED <<target, snapshot, backup>>

Replies(q) ==
    /\ pc[q] = "running"
    /\ GoTo(q, "settling") \/ GoTo(q, "failed")
    /\ Store(q, {<<q, "run">>})
    /\ UNCHANGED <<target, snapshot, backup>>

Compacts(q) ==
    /\ pc[q] = "compacting"
    /\ \A p \in Requests : pc'[p] \in {pc[p], "failed", "done"}
    /\ pc'[q] \in {"failed", "done"}
    /\ MoveAway(q, <<>>) \/ MoveAway(q, <<snapshot[q]>>)
    /\ UNCHANGED <<target, snapshot>>

LEMMA ThreadStep ==
    ASSUME Typed, LockHeld, [SessionNext]_sessionVars
    PROVE  Keeps \/ \E q \in Requests : Says(q) \/ Replies(q) \/ Compacts(q)
<1>0. pc \in [Requests -> Awaits \cup {"idle", "done", "failed"}]
  BY DEF Typed, SessionTypeOK
<1> USE DEF Keeps, Spoke, Silent, GoTo
<1>1. ASSUME NEW s \in Sessions, NEW mode \in Modes, Create(s, mode)
      PROVE  Keeps
  BY <1>1 DEF Create
<1>2. ASSUME NEW q \in Requests, Refuse(q) PROVE Keeps
  BY <1>2, <1>0 DEF Refuse, disk
<1>3. ASSUME NEW q \in Requests, SendMessage(q) PROVE Keeps \/ Says(q)
  <2>1. CASE Status(q) = "waiting_for_input"
    BY <1>0, <1>3, <2>1 DEF SendMessage
  <2>2. CASE Status(q) # "waiting_for_input"
    BY <1>3, <2>2 DEF SendMessage, Says
  <2> QED BY <2>1, <2>2
<1>4. ASSUME NEW q \in Requests, Close(q) PROVE Keeps
  BY <1>0, <1>4 DEF Close
<1>5. ASSUME NEW q \in Requests, Compact(q) PROVE Keeps
  <2>1. snapshot'[q] = ItemsOf(thread[target[q]])
    BY <1>5 DEF Compact, Typed, SessionTypeOK
  <2>2. \A p \in Requests \ {q} : pc'[p] = pc[p] /\ snapshot'[p] = snapshot[p]
    BY <1>0, <1>5 DEF Compact, Typed, SessionTypeOK
  <2>3. pc'[q] = "compacting" /\ UNCHANGED <<thread, backup, target>>
    BY <1>0, <1>5 DEF Compact, disk
  <2> QED BY <2>1, <2>2, <2>3
<1>6. ASSUME NEW q \in Requests, Resumed(q) PROVE Says(q)
  BY <1>6 DEF Resumed, Says
<1>7. ASSUME NEW q \in Requests, Book(q) \/ Invoked(q) PROVE Keeps
  BY <1>0, <1>7 DEF Book, Invoked, disk
<1>8. ASSUME NEW q \in Requests, RunEnds(q) \/ RunCancelled(q) PROVE Replies(q)
  BY <1>8 DEF RunEnds, RunCancelled, Replies
<1>9. ASSUME NEW q \in Requests, Settle(q) \/ Closed(q) \/ Abandon(q) PROVE Keeps
  BY <1>0, <1>9 DEF Settle, Closed, Abandon, disk
<1>10. ASSUME NEW q \in Requests, Compacted(q) \/ CompactTorn(q) PROVE Compacts(q)
  BY <1>0, <1>10 DEF Compacted, CompactTorn, Compacts
<1>11. ASSUME NEW q \in Requests, CrashInCompaction(q) PROVE Compacts(q)
  BY <1>0, <1>11 DEF CrashInCompaction, Compacts, Vanish, Awaits
<1>12. ASSUME Crash \/ \E s \in Sessions : CrashInSave(s) PROVE Keeps
  <2>1. Vanish /\ UNCHANGED <<thread, backup>>
    BY <1>12 DEF Crash, CrashInSave, disk
  <2> QED BY <1>0, <2>1 DEF Vanish
<1>13. CASE UNCHANGED sessionVars
  BY <1>13 DEF sessionVars, memory, disk
<1> QED BY <1>1, <1>2, <1>3, <1>4, <1>5, <1>6, <1>7, <1>8, <1>9, <1>10,
           <1>11, <1>12, <1>13 DEF SessionNext, Finish, Break

\* Nobody else is at work in the session of a request that holds its lock, or
\* finds it free.
LEMMA Alone ==
    ASSUME LockHeld, NEW q \in Requests, NEW p \in Requests, p # q,
           pc[q] \in Awaits \/ lock[target[q]] = Free, pc[p] \in Awaits
    PROVE  target[p] # target[q]
BY SessionAssumption DEF LockHeld

LEMMA SpokenStep ==
    ASSUME ThreadInv, Keeps \/ \E q \in Requests : Says(q) \/ Replies(q) \/ Compacts(q)
    PROVE  Spoken'
<1>0. /\ thread \in [Sessions -> Seq(Rows)] /\ target \in [Requests -> Sessions]
      /\ pc \in [Requests -> Awaits \cup {"idle", "done", "failed"}]
      /\ LockHeld /\ Spoken
  BY DEF ThreadInv, Typed, SessionTypeOK
<1>1. CASE Keeps
  BY <1>0, <1>1 DEF Keeps, Spoken
<1>2. ASSUME NEW q \in Requests, Says(q) \/ Replies(q)
      PROVE  Spoken'
  <2>1. PICK k \in {"user", "run"} : Store(q, {<<q, k>>})
    BY <1>2 DEF Says, Replies
  <2>2. {<<q, k>>} \in Rows
    BY DEF Rows, Items
  <2>3. target[q] \in Sessions /\ thread[target[q]] \in Seq(Rows)
    BY <1>0
  <2>4. /\ thread'[target[q]] = Append(thread[target[q]], {<<q, k>>})
        /\ \A s \in Sessions \ {target[q]} : thread'[s] = thread[s]
    BY <1>0, <2>1, <2>3 DEF Store
  <2>5. \A p \in Requests \ {q} : pc'[p] = pc[p] /\ target'[p] = target[p]
    BY <1>0, <1>2 DEF Says, Replies, GoTo
  <2>6. ASSUME NEW p \in Requests \ {q}, pc'[p] \in Spoke
        PROVE  /\ thread'[target'[p]] # <<>>
               /\ <<p, "user">> \in thread'[target'[p]][Len(thread'[target'[p]])]
    <3>1. pc[p] \in Awaits
      BY <2>5, <2>6 DEF Spoke, Awaits, Exchanging
    <3>2. pc[q] \in Awaits \/ lock[target[q]] = Free
      BY <1>2 DEF Says, Replies, Silent, Awaits, Exchanging
    <3>3. target[p] \in Sessions \ {target[q]}
      BY <1>0, <3>1, <3>2, Alone
    <3> QED BY <1>0, <2>4, <2>5, <2>6, <3>3 DEF Spoken
  <2>7. CASE Says(q)
    <3>1. /\ thread'[target'[q]] = Append(thread[target[q]], {<<q, "user">>})
          /\ UNCHANGED target
      BY <1>0, <2>3, <2>7 DEF Says, Store
    <3>2. /\ thread'[target'[q]] # <<>>
          /\ thread'[target'[q]][Len(thread'[target'[q]])] = {<<q, "user">>}
      <4>1. {<<q, "user">>} \in Rows
        BY DEF Rows, Items
      <4> QED BY <2>3, <3>1, <4>1, Appended
    <3> QED BY <2>6, <3>2 DEF Spoken
  <2>8. CASE Replies(q)
    <3>1. pc'[q] \notin Spoke
      BY <1>0, <2>8 DEF Replies, GoTo, Spoke
    <3> QED BY <2>6, <3>1 DEF Spoken
  <2> QED BY <1>2, <2>7, <2>8
<1>3. ASSUME NEW q \in Requests, Compacts(q)
      PROVE  Spoken'
  <2> SUFFICES ASSUME NEW p \in Requests, pc'[p] \in Spoke
               PROVE  /\ thread'[target'[p]] # <<>>
                      /\ <<p, "user">> \in thread'[target'[p]][Len(thread'[target'[p]])]
    BY DEF Spoken, Spoke
  <2>1. pc[p] \in Spoke /\ p # q
    BY <1>3 DEF Compacts, Spoke
  <2>2. target[p] # target[q]
    BY <1>0, <1>3, <2>1, Alone DEF Compacts, Spoke, Awaits, Exchanging
  <2>3. thread'[target'[p]] = thread[target[p]]
    BY <1>0, <1>3, <2>2 DEF Compacts, MoveAway
  <2> QED BY <1>0, <2>1, <2>3 DEF Spoken
<1> QED BY <1>1, <1>2, <1>3

LEMMA WholeStep ==
    ASSUME ThreadInv, Keeps \/ \E q \in Requests : Says(q) \/ Replies(q) \/ Compacts(q)
    PROVE  Whole'
<1>0. /\ thread \in [Sessions -> Seq(Rows)] /\ target \in [Requests -> Sessions]
      /\ Spoken /\ Whole /\ Current
  BY DEF ThreadInv, Typed, SessionTypeOK
<1>1. CASE Keeps
  BY <1>0, <1>1 DEF Keeps, Whole
<1>2. ASSUME NEW q \in Requests, Says(q) \/ Replies(q)
      PROVE  Whole'
  <2>1. PICK k \in {"user", "run"} :
          /\ Store(q, {<<q, k>>})
          /\ k = "run" => pc[q] = "running"
    BY <1>2 DEF Says, Replies
  <2> DEFINE rows == thread[target[q]]
             row  == {<<q, k>>}
  <2>2. row \in Rows
    BY DEF Rows, Items
  <2>3. target[q] \in Sessions /\ rows \in Seq(Rows)
    BY <1>0
  <2>4. /\ thread'[target[q]] = Append(rows, row)
        /\ \A s \in Sessions \ {target[q]} : thread'[s] = thread[s]
    BY <1>0, <2>1, <2>3 DEF Store
  <2>5. /\ Len(rows) \in Nat /\ DOMAIN rows = 1 .. Len(rows)
        /\ DOMAIN Append(rows, row) = 1 .. Len(rows) + 1
        /\ Append(rows, row)[Len(rows) + 1] = row
        /\ \A i \in 1 .. Len(rows) : Append(rows, row)[i] = rows[i]
    BY <2>2, <2>3, Appended
  <2>6. k = "run" => Len(rows) > 0 /\ <<q, "user">> \in rows[Len(rows)]
    <3>1. k = "run" => rows # <<>> /\ <<q, "user">> \in rows[Len(rows)]
      BY <1>0, <2>1 DEF Spoken, Spoke
    <3>2. rows # <<>> => Len(rows) > 0
      BY <2>3, <2>5, EmptySeq
    <3> QED BY <3>1, <3>2
  <2> HIDE DEF rows, row
  <2>7. ASSUME NEW i \in 1 .. Len(rows) + 1, NEW p \in Requests,
               <<p, "run">> \in Append(rows, row)[i]
        PROVE  \/ <<p, "user">> \in Append(rows, row)[i]
               \/ i > 1 /\ <<p, "user">> \in Append(rows, row)[i - 1]
    <3>1. CASE i \in 1 .. Len(rows)
      <4>1. \/ <<p, "user">> \in rows[i]
            \/ i > 1 /\ <<p, "user">> \in rows[i - 1]
        BY <1>0, <2>3, <2>5, <2>7, <3>1 DEF Whole, rows
      <4>2. i > 1 => i - 1 \in 1 .. Len(rows)
        BY <2>5, <3>1
      <4> QED BY <2>5, <3>1, <4>1, <4>2
    <3>2. CASE i = Len(rows) + 1
      <4>1. <<p, "run">> \in row
        BY <2>5, <2>7, <3>2
      <4>2. p = q /\ k = "run"
        BY <4>1 DEF row
      <4>3. i > 1 /\ i - 1 = Len(rows) /\ Len(rows) \in 1 .. Len(rows)
        BY <2>5, <2>6, <3>2, <4>2
      <4> QED BY <2>5, <2>6, <4>2, <4>3
    <3> QED BY <2>5, <3>1, <3>2
  <2>8. \A s \in Sessions \ {target[q]} : \A i \in DOMAIN thread'[s], p \in Requests :
          <<p, "run">> \in thread'[s][i] =>
            \/ <<p, "user">> \in thread'[s][i]
            \/ i > 1 /\ <<p, "user">> \in thread'[s][i - 1]
    BY <1>0, <2>4 DEF Whole
  <2> QED BY <2>4, <2>5, <2>7, <2>8 DEF Whole
<1>3. ASSUME NEW q \in Requests, Compacts(q)
      PROVE  Whole'
  <2>1. target[q] \in Sessions
    BY <1>0
  <2>2. \A s \in Sessions \ {target[q]} : thread'[s] = thread[s]
    BY <1>0, <1>3 DEF Compacts, MoveAway
  <2>3. thread'[target[q]] \in {<<>>, <<ItemsOf(thread[target[q]])>>}
    <3>1. \/ thread' = [thread EXCEPT ![target[q]] = <<>>]
          \/ thread' = [thread EXCEPT ![target[q]] = <<snapshot[q]>>]
      BY <1>3 DEF Compacts, MoveAway
    <3>2. snapshot[q] = ItemsOf(thread[target[q]])
      BY <1>0, <1>3 DEF Compacts, Current
    <3>3. target[q] \in DOMAIN thread
      BY <1>0, <2>1
    <3> QED BY <3>1, <3>2, <3>3
  <2>4. ASSUME NEW p \in Requests, <<p, "run">> \in ItemsOf(thread[target[q]])
        PROVE  <<p, "user">> \in ItemsOf(thread[target[q]])
    <3>1. PICK i \in DOMAIN thread[target[q]] : <<p, "run">> \in thread[target[q]][i]
      BY <2>4 DEF ItemsOf, Range
    <3>2. PICK j \in DOMAIN thread[target[q]] : <<p, "user">> \in thread[target[q]][j]
      <4>1. thread[target[q]] \in Seq(Rows)
        BY <1>0, <2>1
      <4>2. i > 1 => i - 1 \in DOMAIN thread[target[q]]
        BY <4>1
      <4> QED BY <1>0, <2>1, <3>1, <4>2 DEF Whole
    <3> QED BY <3>2 DEF ItemsOf, Range
  <2>5. \A i \in DOMAIN thread'[target[q]] :
            i = 1 /\ thread'[target[q]][1] = ItemsOf(thread[target[q]])
    BY <2>3
  <2>6. \A s \in Sessions \ {target[q]} : \A i \in DOMAIN thread'[s], p \in Requests :
          <<p, "run">> \in thread'[s][i] =>
            \/ <<p, "user">> \in thread'[s][i]
            \/ i > 1 /\ <<p, "user">> \in thread'[s][i - 1]
    BY <1>0, <2>2 DEF Whole
  <2> QED BY <2>4, <2>5, <2>6 DEF Whole
<1> QED BY <1>1, <1>2, <1>3

LEMMA CurrentStep ==
    ASSUME ThreadInv, Keeps \/ \E q \in Requests : Says(q) \/ Replies(q) \/ Compacts(q)
    PROVE  Current'
<1>0. /\ thread \in [Sessions -> Seq(Rows)] /\ target \in [Requests -> Sessions]
      /\ pc \in [Requests -> Awaits \cup {"idle", "done", "failed"}]
      /\ LockHeld /\ Current
  BY DEF ThreadInv, Typed, SessionTypeOK
<1>1. CASE Keeps
  BY <1>0, <1>1 DEF Keeps, Current
<1>2. ASSUME NEW q \in Requests, Says(q) \/ Replies(q) \/ Compacts(q)
      PROVE  Current'
  <2> SUFFICES ASSUME NEW p \in Requests, pc'[p] = "compacting"
               PROVE  snapshot'[p] = ItemsOf(thread'[target'[p]])
    BY DEF Current
  <2>1. pc[p] = "compacting" /\ p # q
    BY <1>0, <1>2 DEF Says, Replies, Compacts, GoTo
  <2>2. target[p] # target[q]
    BY <1>0, <1>2, <2>1, Alone
       DEF Says, Replies, Compacts, Silent, Awaits, Exchanging
  <2>3. thread'[target'[p]] = thread[target[p]] /\ snapshot'[p] = snapshot[p]
    BY <1>0, <1>2, <2>2 DEF Says, Replies, Compacts, MoveAway, Store
  <2> QED BY <1>0, <2>1, <2>3 DEF Current
<1> QED BY <1>1, <1>2

-----------------------------------------------------------------------------
(* What was said                                                            *)

LEMMA SaidKept ==
    ASSUME Keeps, NEW s \in Sessions
    PROVE  SaidIn(s)' = SaidIn(s)
BY DEF Keeps, SaidIn

LEMMA SaidGrows ==
    ASSUME ThreadInv, NEW q \in Requests, NEW k \in {"user", "run"},
           Store(q, {<<q, k>>}), UNCHANGED backup, NEW s \in Sessions
    PROVE  SaidIn(s)' = IF s = target[q] THEN SaidIn(s) \cup {<<q, k>>} ELSE SaidIn(s)
<1>0. thread \in [Sessions -> Seq(Rows)] /\ {<<q, k>>} \in Rows
  BY DEF ThreadInv, Typed, Rows, Items
<1>1. CASE s = target[q]
  <2>1. thread'[s] = Append(thread[s], {<<q, k>>})
    BY <1>0, <1>1 DEF Store
  <2>2. ItemsOf(thread'[s]) = ItemsOf(thread[s]) \cup {<<q, k>>}
    BY <1>0, <2>1, Appended
  <2> QED BY <1>1, <2>2 DEF SaidIn
<1>2. CASE s # target[q]
  BY <1>0, <1>2 DEF SaidIn, Store
<1> QED BY <1>1, <1>2

\* A compaction, torn or not, forgets nothing: what it writes and what it moves
\* away is what was there.
LEMMA SaidCompacted ==
    ASSUME ThreadInv, NEW q \in Requests, Compacts(q), NEW s \in Sessions
    PROVE  SaidIn(s)' = SaidIn(s)
<1>0. /\ thread \in [Sessions -> Seq(Rows)] /\ backup \in [Sessions -> SUBSET Items]
      /\ snapshot[q] = ItemsOf(thread[target[q]])
  BY DEF ThreadInv, Typed, SessionTypeOK, Current, Compacts
<1>1. CASE s = target[q]
  <2>1. /\ thread'[s] \in {<<>>, <<ItemsOf(thread[s])>>}
        /\ backup'[s] = backup[s] \cup ItemsOf(thread[s])
    BY <1>0, <1>1 DEF Compacts, MoveAway
  <2>2. ItemsOf(thread'[s]) \in {{}, ItemsOf(thread[s])}
    BY <2>1, ItemsOfEmpty, ItemsOfOne
  <2> QED BY <2>1, <2>2 DEF SaidIn
<1>2. CASE s # target[q]
  BY <1>0, <1>2 DEF SaidIn, Compacts, MoveAway
<1> QED BY <1>1, <1>2

LEMMA FreshStep ==
    ASSUME ThreadInv, Keeps \/ \E q \in Requests : Says(q) \/ Replies(q) \/ Compacts(q)
    PROVE  Fresh'
<1>0. pc \in [Requests -> Awaits \cup {"idle", "done", "failed"}]
  BY DEF ThreadInv, Typed, SessionTypeOK
<1>1. \A p \in Requests : pc[p] \in Silent =>
        \A s \in Sessions, k \in {"user", "run"} : <<p, k>> \notin SaidIn(s)
  BY DEF ThreadInv, Fresh, SaidIn
<1> SUFFICES ASSUME NEW p \in Requests, pc'[p] \in Silent, NEW s \in Sessions,
                    NEW k \in {"user", "run"}
             PROVE  <<p, k>> \notin SaidIn(s)'
  BY DEF Fresh, SaidIn, Silent
<1>2. CASE Keeps
  BY <1>1, <1>2, SaidKept DEF Keeps
<1>3. ASSUME NEW q \in Requests, Says(q) \/ Replies(q)
      PROVE  <<p, k>> \notin SaidIn(s)'
  <2>1. p # q /\ pc[p] \in Silent
    BY <1>0, <1>3 DEF Says, Replies, GoTo, Silent
  <2>2. PICK j \in {"user", "run"} : Store(q, {<<q, j>>}) /\ UNCHANGED backup
    BY <1>3 DEF Says, Replies
  <2>3. SaidIn(s)' \subseteq SaidIn(s) \cup {<<q, j>>}
    BY <2>2, SaidGrows
  <2> QED BY <1>1, <2>1, <2>3
<1>4. ASSUME NEW q \in Requests, Compacts(q)
      PROVE  <<p, k>> \notin SaidIn(s)'
  <2>1. pc[p] \in Silent
    BY <1>4 DEF Compacts, Silent
  <2> QED BY <1>1, <1>4, <2>1, SaidCompacted
<1> QED BY <1>2, <1>3, <1>4

-----------------------------------------------------------------------------
(* Type correctness                                                         *)

LEMMA ControlTyped ==
    ASSUME Typed, LockHeld, [SessionNext]_sessionVars
    PROVE  Control'
<1>1. Control
  BY DEF Typed, SessionTypeOK, Control
<1>2. CASE UNCHANGED <<pc, lock, target>>
  BY <1>1, <1>2 DEF Control, Awaits, Exchanging
<1>3. ASSUME NEW q \in Requests, NEW a \in Awaits, Taking(q, a) \/ Moving(q, a)
      PROVE  Control'
  BY <1>1, <1>3 DEF Control, Taking, Moving, Acquire, GoTo, Awaits, Exchanging
<1>4. ASSUME NEW q \in Requests, NEW a \in {"done", "failed"}, Leaving(q, a)
      PROVE  Control'
  BY <1>1, <1>4 DEF Control, Leaving, Release, GoTo, Awaits, Exchanging
<1>5. ASSUME NEW q \in Requests, Refused(q)
      PROVE  Control'
  BY <1>1, <1>5 DEF Control, Refused, GoTo, Awaits, Exchanging
<1>6. CASE Vanish
  BY <1>1, <1>6 DEF Control, Vanish, Awaits, Exchanging
<1>7. CASE UNCHANGED sessionVars
  BY <1>7, <1>2 DEF sessionVars, memory
<1> QED BY <1>1, <1>2, <1>3, <1>4, <1>5, <1>6, <1>7, ControlStep

LEMMA ThreadTyped ==
    ASSUME ThreadInv, Keeps \/ \E q \in Requests : Says(q) \/ Replies(q) \/ Compacts(q)
    PROVE  /\ thread' \in [Sessions -> Seq(Rows)]
           /\ backup' \in [Sessions -> SUBSET Items]
<1>0. /\ thread \in [Sessions -> Seq(Rows)] /\ target \in [Requests -> Sessions]
      /\ backup \in [Sessions -> SUBSET Items]
      /\ snapshot \in [Requests -> SUBSET Items]
  BY DEF ThreadInv, Typed, SessionTypeOK
<1>1. CASE Keeps
  BY <1>0, <1>1 DEF Keeps
<1>2. ASSUME NEW q \in Requests, Says(q) \/ Replies(q)
      PROVE  /\ thread' \in [Sessions -> Seq(Rows)]
             /\ backup' \in [Sessions -> SUBSET Items]
  <2>1. PICK k \in {"user", "run"} : Store(q, {<<q, k>>}) /\ UNCHANGED backup
    BY <1>2 DEF Says, Replies
  <2>2. {<<q, k>>} \in Rows
    BY DEF Rows, Items
  <2>3. Append(thread[target[q]], {<<q, k>>}) \in Seq(Rows)
    BY <1>0, <2>2
  <2> QED BY <1>0, <2>1, <2>3 DEF Store
<1>3. ASSUME NEW q \in Requests, Compacts(q)
      PROVE  /\ thread' \in [Sessions -> Seq(Rows)]
             /\ backup' \in [Sessions -> SUBSET Items]
  <2>1. <<>> \in Seq(Rows) /\ <<snapshot[q]>> \in Seq(Rows)
    BY <1>0 DEF Rows
  <2>2. ItemsOf(thread[target[q]]) \in SUBSET Items
    <3>1. thread[target[q]] \in Seq(Rows)
      BY <1>0
    <3>2. \A i \in DOMAIN thread[target[q]] : thread[target[q]][i] \subseteq Items
      BY <3>1 DEF Rows
    <3> QED BY <3>2 DEF ItemsOf, Range
  <2>3. /\ \/ thread' = [thread EXCEPT ![target[q]] = <<>>]
           \/ thread' = [thread EXCEPT ![target[q]] = <<snapshot[q]>>]
        /\ backup' = [backup EXCEPT ![target[q]] =
                        backup[target[q]] \cup ItemsOf(thread[target[q]])]
    BY <1>0, <1>3 DEF Compacts, MoveAway
  <2>4. thread' \in [Sessions -> Seq(Rows)]
    BY <1>0, <2>1, <2>3
  <2>5. backup' \in [Sessions -> SUBSET Items]
    BY <1>0, <2>2, <2>3
  <2> QED BY <2>4, <2>5
<1> QED BY <1>1, <1>2, <1>3

LEMMA SnapshotTyped ==
    ASSUME Typed, [SessionNext]_sessionVars
    PROVE  snapshot' \in [Requests -> SUBSET Items]
<1>0. /\ thread \in [Sessions -> Seq(Rows)] /\ target \in [Requests -> Sessions]
      /\ snapshot \in [Requests -> SUBSET Items]
  BY DEF Typed, SessionTypeOK
<1>1. ASSUME NEW q \in Requests, Compact(q)
      PROVE  snapshot' \in [Requests -> SUBSET Items]
  <2>1. thread[target[q]] \in Seq(Rows)
    BY <1>0
  <2>2. \A i \in DOMAIN thread[target[q]] : thread[target[q]][i] \subseteq Items
    BY <2>1 DEF Rows
  <2>3. ItemsOf(thread[target[q]]) \in SUBSET Items
    BY <2>2 DEF ItemsOf, Range
  <2> QED BY <1>0, <1>1, <2>3 DEF Compact
<1>2. CASE ~ \E q \in Requests : Compact(q)
  <2>1. UNCHANGED snapshot
    BY <1>2 DEF SessionNext, sessionVars, memory, Create, Refuse, SendMessage,
       Close, Finish, Break, Resumed, Book, Invoked, RunEnds, Settle, Closed,
       Compacted, RunCancelled, CompactTorn, Abandon, CrashInCompaction, Crash,
       CrashInSave, Vanish
  <2> QED BY <1>0, <2>1
<1> QED BY <1>1, <1>2

-----------------------------------------------------------------------------
(* Sessions in memory and their meta.json                                   *)

Kept  == [Sessions -> Session \cup {Absent}]
Filed == [Sessions -> Session \cup {Absent, Torn}]

\* What a step does to the session s in memory and on disk, where it may have
\* saved it, failed to, or torn the file.
Untouched(s) == session'[s] = session[s] /\ meta'[s] = meta[s]
Written(s) == meta'[s] \in {session'[s], meta[s], Torn}

Books(q, s) ==
    /\ session'[s] \in Session /\ Written(s)
    /\ session'[s].runs = session[s].runs \cup {q}
    /\ session'[s].status = session[s].status
    /\ pc'[q] # "failed" => meta'[s] = session'[s]
Ends(s) ==
    /\ session'[s] \in Session /\ meta'[s] = meta[s]
    /\ session'[s].runs = session[s].runs
Settles(s) == session'[s] = session[s] /\ Written(s)
Closes(s) ==
    /\ session'[s] \in Session /\ Written(s)
    /\ session'[s].runs = session[s].runs
    /\ session'[s].status = "closed"
Creates(s) ==
    /\ FreshId(s)
    /\ session'[s] \in Session /\ Written(s)
    /\ session'[s].runs = {} /\ session'[s].status = "active"
Vanishes(s) == session'[s] = Absent /\ meta'[s] \in {meta[s], Torn}

\* Who is inside `async with` has a session.
Attended == \A q \in Requests : pc[q] \in Awaits => session[target[q]] \in Session

LEMMA TornIsNoSession == Torn \notin Session /\ Torn # Absent
BY DEF Absent, Torn, Session

\* What may have been written of one session.
LEMMA OneWritten ==
    ASSUME session \in Kept, meta \in Filed, NEW r \in Sessions,
           NEW rec \in Session \cup {Absent},
           session' = [session EXCEPT ![r] = rec], Saves(r) \/ SaveFails(r)
    PROVE  /\ session'[r] = rec /\ Written(r)
           /\ Saves(r) => meta'[r] = rec
           /\ \A s \in Sessions \ {r} : Untouched(s)
           /\ session' \in Kept /\ meta' \in Filed
<1>1. session'[r] = rec /\ session' \in Kept
  BY DEF Kept
<1>2. meta' \in {[meta EXCEPT ![r] = rec], meta, [meta EXCEPT ![r] = Torn]}
  BY <1>1 DEF Saves, SaveFails
<1>3. meta' \in Filed /\ Written(r)
  BY <1>1, <1>2 DEF Filed, Written
<1>4. Saves(r) => meta'[r] = rec
  BY <1>1 DEF Saves, Filed
<1>5. \A s \in Sessions \ {r} : Untouched(s)
  BY <1>2 DEF Untouched, Kept, Filed
<1> QED BY <1>1, <1>3, <1>4, <1>5

LEMMA BookFacts ==
    ASSUME session \in Kept, meta \in Filed, NEW q \in Requests, Control,
           target[q] \in Sessions, session[target[q]] \in Session, Book(q)
    PROVE  /\ Books(q, target[q])
           /\ \A s \in Sessions \ {target[q]} : Untouched(s)
           /\ session' \in Kept /\ meta' \in Filed
<1> DEFINE rec == [session[target[q]] EXCEPT !.runs = @ \cup {q}]
<1>1. /\ rec \in Session /\ rec.runs = session[target[q]].runs \cup {q}
      /\ rec.status = session[target[q]].status
  BY DEF Session
<1>2. /\ session' = [session EXCEPT ![target[q]] = rec]
      /\ Saves(target[q]) \/ SaveFails(target[q])
  BY DEF Book
<1>3. pc'[q] # "failed" => Saves(target[q])
  BY DEF Book, GoTo, Control
<1> HIDE DEF rec
<1> QED BY <1>1, <1>2, <1>3, OneWritten DEF Books

LEMMA EndFacts ==
    ASSUME session \in Kept, meta \in Filed, NEW q \in Requests,
           target[q] \in Sessions, session[target[q]] \in Session, RunEnds(q)
    PROVE  /\ Ends(target[q])
           /\ \A s \in Sessions \ {target[q]} : Untouched(s)
           /\ session' \in Kept /\ meta' \in Filed
<1> DEFINE new == IF session[target[q]].mode = "one_shot"
                  THEN "closed" ELSE "waiting_for_input"
           rec == [session[target[q]] EXCEPT !.status = new]
<1>1. new \in Statuses
  BY DEF Statuses
<1> HIDE DEF new
<1>2. rec \in Session /\ rec.runs = session[target[q]].runs
  BY <1>1 DEF Session
<1>3. session' = [session EXCEPT ![target[q]] = rec] /\ UNCHANGED meta
  BY DEF RunEnds, new
<1> HIDE DEF rec
<1>4. session'[target[q]] = rec /\ UNCHANGED meta
  BY <1>3 DEF Kept
<1> QED BY <1>2, <1>3, <1>4 DEF Ends, Untouched, Kept, Filed

LEMMA CloseFacts ==
    ASSUME session \in Kept, meta \in Filed, NEW q \in Requests,
           target[q] \in Sessions, session[target[q]] \in Session, Close(q)
    PROVE  /\ Closes(target[q])
           /\ \A s \in Sessions \ {target[q]} : Untouched(s)
           /\ session' \in Kept /\ meta' \in Filed
<1> DEFINE rec == [session[target[q]] EXCEPT !.status = "closed"]
<1>1. /\ rec \in Session /\ rec.runs = session[target[q]].runs
      /\ rec.status = "closed"
  BY DEF Session, Statuses
<1>2. /\ session' = [session EXCEPT ![target[q]] = rec]
      /\ Saves(target[q]) \/ SaveFails(target[q])
  BY DEF Close
<1> HIDE DEF rec
<1> QED BY <1>1, <1>2, OneWritten DEF Closes

LEMMA SettleFacts ==
    ASSUME session \in Kept, meta \in Filed, NEW q \in Requests,
           target[q] \in Sessions, Settle(q)
    PROVE  /\ Settles(target[q])
           /\ \A s \in Sessions \ {target[q]} : Untouched(s)
           /\ session' \in Kept /\ meta' \in Filed
<1>1. session' = session /\ (Saves(target[q]) \/ SaveFails(target[q]))
  BY DEF Settle
<1>2. /\ session' = [session EXCEPT ![target[q]] = session[target[q]]]
      /\ session[target[q]] \in Session \cup {Absent}
  BY <1>1 DEF Kept
<1> QED BY <1>1, <1>2, OneWritten DEF Settles

LEMMA CreateFacts ==
    ASSUME session \in Kept, meta \in Filed, NEW r \in Sessions,
           NEW mode \in Modes, Create(r, mode)
    PROVE  /\ Creates(r)
           /\ \A s \in Sessions \ {r} : Untouched(s)
           /\ session' \in Kept /\ meta' \in Filed
<1> DEFINE rec == [mode |-> mode, status |-> "active", runs |-> {}]
<1>1. rec \in Session /\ rec.runs = {} /\ rec.status = "active"
  BY DEF Session, Statuses
<1>2. /\ session' = [session EXCEPT ![r] = rec] /\ FreshId(r)
      /\ Saves(r) \/ SaveFails(r)
  BY DEF Create
<1> HIDE DEF rec
<1> QED BY <1>1, <1>2, OneWritten DEF Creates

LEMMA VanishFacts ==
    ASSUME session \in Kept, meta \in Filed,
           Crash \/ (\E q \in Requests : CrashInCompaction(q))
                 \/ (\E s \in Sessions : CrashInSave(s))
    PROVE  /\ Vanish /\ \A s \in Sessions : Vanishes(s)
           /\ session' \in Kept /\ meta' \in Filed
<1>1. Vanish /\ (UNCHANGED meta \/ \E s \in Sessions : meta' = [meta EXCEPT ![s] = Torn])
  BY DEF Crash, CrashInCompaction, CrashInSave, disk
<1>2. meta' \in Filed /\ \A s \in Sessions : meta'[s] \in {meta[s], Torn}
  BY <1>1 DEF Filed
<1> QED BY <1>1, <1>2 DEF Vanish, Vanishes, Kept

\* Every other step leaves sessions and files alone.
LEMMA MetaStep ==
    ASSUME [SessionNext]_sessionVars
    PROVE  \/ UNCHANGED <<session, meta>>
           \/ \E s \in Sessions, mode \in Modes : Create(s, mode)
           \/ \E q \in Requests : Book(q) \/ RunEnds(q) \/ Settle(q) \/ Close(q)
           \/ Crash \/ (\E q \in Requests : CrashInCompaction(q))
           \/ \E s \in Sessions : CrashInSave(s)
BY DEF SessionNext, sessionVars, memory, disk, Refuse, SendMessage, Compact, Finish,
       Break, Resumed, Invoked, Closed, Compacted, RunCancelled, CompactTorn,
       Abandon

-----------------------------------------------------------------------------
(* meta.json keeps up                                                       *)

Turn == {"resuming"} \cup Exchanging

\* The disk is never ahead of what is in memory.
Behind(s) ==
    session[s] \in Session /\ meta[s] \in Session =>
        /\ meta[s].runs \subseteq session[s].runs
        /\ meta[s].status = "closed" => session[s].status = "closed"
InStep == \A s \in Sessions : Behind(s)

OpenTurn == \A q \in Requests : pc[q] \in Turn => session[target[q]].status # "closed"

\* A run is listed in memory and, as far as it can be read, on disk.
ListedIn(s, q) ==
    /\ session[s] \in Session => q \in session[s].runs
    /\ \/ meta[s] = Torn
       \/ meta[s] \in Session /\ q \in meta[s].runs

Listed ==
    \A q \in Requests : pc[q] \in {"invoking", "running"} => ListedIn(target[q], q)

Recorded == \A s \in Sessions, q \in Requests :
    <<q, "run">> \in SaidIn(s) => ListedIn(s, q)

MetaInv == Attended /\ InStep /\ OpenTurn /\ Listed /\ Recorded

\* A request that is at another await than before, and has not ended, acted.
LEMMA PcStep ==
    ASSUME Control, [SessionNext]_sessionVars, NEW p \in Requests
    PROVE  /\ UNCHANGED target
           /\ \/ pc'[p] = pc[p]
              \/ pc'[p] \in {"done", "failed"}
              \/ SendMessage(p) \/ Close(p) \/ Compact(p)
              \/ Resumed(p) \/ Book(p) \/ Invoked(p) \/ RunEnds(p)
<1> DEFINE Goal == /\ UNCHANGED target
                   /\ \/ pc'[p] = pc[p]
                      \/ pc'[p] \in {"done", "failed"}
                      \/ SendMessage(p) \/ Close(p) \/ Compact(p)
                      \/ Resumed(p) \/ Book(p) \/ Invoked(p) \/ RunEnds(p)
<1>0. pc \in [Requests -> Awaits \cup {"idle", "done", "failed"}]
  BY DEF Control
<1>1. ASSUME NEW s \in Sessions, NEW mode \in Modes, Create(s, mode)
      PROVE  Goal
  BY <1>1 DEF Create
<1>2. ASSUME NEW q \in Requests, Refuse(q) \/ Closed(q) \/ Settle(q) \/ Compacted(q)
      PROVE  Goal
  BY <1>0, <1>2 DEF Refuse, Closed, Settle, Compacted, GoTo
<1>3. ASSUME NEW q \in Requests, SendMessage(q) \/ Close(q) \/ Compact(q)
      PROVE  Goal
  <2>1. UNCHANGED target /\ \E a : pc' = [pc EXCEPT ![q] = a]
    BY <1>3 DEF SendMessage, Close, Compact, GoTo
  <2>2. p # q => pc'[p] = pc[p]
    BY <1>0, <2>1
  <2> QED BY <1>3, <2>1, <2>2
<1>4. ASSUME NEW q \in Requests, Resumed(q) \/ Book(q) \/ Invoked(q) \/ RunEnds(q)
      PROVE  Goal
  <2>1. UNCHANGED target /\ \E a : pc' = [pc EXCEPT ![q] = a]
    BY <1>4 DEF Resumed, Book, Invoked, RunEnds, GoTo
  <2>2. p # q => pc'[p] = pc[p]
    BY <1>0, <2>1
  <2> QED BY <1>4, <2>1, <2>2
<1>5. ASSUME NEW q \in Requests, RunCancelled(q) \/ CompactTorn(q) \/ Abandon(q)
      PROVE  Goal
  BY <1>0, <1>5 DEF RunCancelled, CompactTorn, Abandon, GoTo
<1>6. CASE Vanish
  BY <1>0, <1>6 DEF Vanish
<1>7. CASE UNCHANGED sessionVars
  BY <1>7 DEF sessionVars, memory
<1> QED BY <1>1, <1>2, <1>3, <1>4, <1>5, <1>6, <1>7
        DEF SessionNext, Finish, Break, Crash, CrashInCompaction, CrashInSave

LEMMA ActorsSession ==
    ASSUME Typed, Attended, NEW q \in Requests,
           Book(q) \/ RunEnds(q) \/ Settle(q) \/ Close(q)
    PROVE  /\ target[q] \in Sessions /\ session[target[q]] \in Session
           /\ Close(q) => lock[target[q]] = Free
<1>1. target[q] \in Sessions /\ session \in Kept
  BY DEF Typed, SessionTypeOK, Kept
<1>2. CASE pc[q] \in Awaits
  BY <1>1, <1>2 DEF Attended, Close
<1>3. CASE Close(q)
  BY <1>1, <1>3 DEF Close, Known, Kept
<1> QED BY <1>2, <1>3 DEF Book, RunEnds, Settle, Awaits, Exchanging

LEMMA SessionStep ==
    ASSUME Typed, Attended, [SessionNext]_sessionVars, NEW s \in Sessions
    PROVE  \/ Untouched(s)
           \/ \E q \in Requests :
                /\ target[q] = s /\ session[s] \in Session
                /\ \/ Book(q) /\ Books(q, s)
                   \/ RunEnds(q) /\ Ends(s)
                   \/ Settle(q) /\ Settles(s)
                   \/ Close(q) /\ Closes(s) /\ lock[s] = Free
           \/ Creates(s)
           \/ Vanish /\ Vanishes(s)
<1>0. /\ session \in Kept /\ meta \in Filed /\ Control
  BY DEF Typed, SessionTypeOK, Kept, Filed, Control
<1>1. CASE UNCHANGED <<session, meta>>
  BY <1>1 DEF Untouched
<1>2. ASSUME NEW r \in Sessions, NEW mode \in Modes, Create(r, mode)
      PROVE  Untouched(s) \/ Creates(s)
  BY <1>0, <1>2, CreateFacts
<1>3. ASSUME NEW q \in Requests, Book(q) \/ RunEnds(q) \/ Settle(q) \/ Close(q)
      PROVE  \/ Untouched(s)
             \/ /\ target[q] = s /\ session[s] \in Session
                /\ \/ Book(q) /\ Books(q, s)
                   \/ RunEnds(q) /\ Ends(s)
                   \/ Settle(q) /\ Settles(s)
                   \/ Close(q) /\ Closes(s) /\ lock[s] = Free
  BY <1>0, <1>3, ActorsSession, BookFacts, EndFacts, SettleFacts, CloseFacts
<1>4. CASE \/ Crash \/ (\E q \in Requests : CrashInCompaction(q))
           \/ \E r \in Sessions : CrashInSave(r)
  BY <1>0, <1>4, VanishFacts
<1> QED BY <1>1, <1>2, <1>3, <1>4, MetaStep

LEMMA MetaTyped ==
    ASSUME Typed, Attended, [SessionNext]_sessionVars
    PROVE  session' \in Kept /\ meta' \in Filed
<1>0. /\ session \in Kept /\ meta \in Filed /\ Control
  BY DEF Typed, SessionTypeOK, Kept, Filed, Control
<1>1. ASSUME NEW q \in Requests, Book(q) \/ RunEnds(q) \/ Settle(q) \/ Close(q)
      PROVE  session' \in Kept /\ meta' \in Filed
  BY <1>0, <1>1, ActorsSession, BookFacts, EndFacts, SettleFacts, CloseFacts
<1>2. ASSUME \/ Crash \/ (\E q \in Requests : CrashInCompaction(q))
             \/ \E s \in Sessions : CrashInSave(s)
      PROVE  session' \in Kept /\ meta' \in Filed
  BY <1>0, <1>2, VanishFacts
<1> QED BY <1>0, <1>1, <1>2, MetaStep, CreateFacts

\* A request at an await was there before or has found its session.
LEMMA AttendedBefore ==
    ASSUME Typed, Attended, [SessionNext]_sessionVars, NEW p \in Requests,
           pc'[p] \in Awaits
    PROVE  session[target[p]] \in Session /\ target'[p] = target[p]
<1>0. Control /\ target[p] \in Sessions /\ session \in Kept
  BY DEF Typed, SessionTypeOK, Control, Kept
<1>1. CASE pc[p] \in Awaits
  BY <1>0, <1>1, PcStep DEF Attended
<1>2. CASE SendMessage(p) \/ Close(p) \/ Compact(p)
  BY <1>0, <1>2, PcStep DEF SendMessage, Close, Compact, Known, Kept
<1>3. CASE Resumed(p) \/ Book(p) \/ Invoked(p) \/ RunEnds(p)
  BY <1>1, <1>3 DEF Resumed, Book, Invoked, RunEnds, Awaits, Exchanging
<1>4. pc'[p] \notin {"done", "failed"}
  BY DEF Awaits, Exchanging
<1> QED BY <1>0, <1>1, <1>2, <1>3, <1>4, PcStep

LEMMA AttendedStep ==
    ASSUME Typed, Attended, [SessionNext]_sessionVars
    PROVE  Attended'
<1> SUFFICES ASSUME NEW p \in Requests, pc'[p] \in Awaits
             PROVE  session'[target'[p]] \in Session
  BY DEF Attended, Awaits, Exchanging
<1>1. session[target[p]] \in Session /\ target'[p] = target[p]
  BY AttendedBefore
<1>2. target[p] \in Sessions
  BY DEF Typed, SessionTypeOK
<1>3. ~Vanish
  BY DEF Vanish, Awaits, Exchanging
<1>4. session[target[p]] # Absent
  BY <1>1, AbsentIsNoSession
<1> QED BY <1>1, <1>2, <1>3, <1>4, SessionStep
        DEF Untouched, Books, Ends, Settles, Closes, Creates, FreshId, Vanishes

LEMMA InStepStep ==
    ASSUME Typed, Attended, InStep, OpenTurn, [SessionNext]_sessionVars
    PROVE  InStep'
<1> SUFFICES ASSUME NEW s \in Sessions PROVE Behind(s)'
  BY DEF InStep, Behind, Session
<1>1. Behind(s)
  BY DEF InStep
<1>2. ASSUME NEW q \in Requests, target[q] = s, RunEnds(q)
      PROVE  session[s].status # "closed"
  BY <1>2 DEF RunEnds, OpenTurn, Turn, Exchanging
<1> QED BY <1>1, <1>2, SessionStep, AbsentIsNoSession, TornIsNoSession
        DEF Behind, Untouched, Written, Books, Ends, Settles, Closes, Creates,
            FreshId, Vanishes

\* What is listed stays listed.
LEMMA ListedStays ==
    ASSUME Typed, Attended, [SessionNext]_sessionVars, NEW s \in Sessions,
           NEW q \in Requests, ListedIn(s, q)
    PROVE  ListedIn(s, q)'
BY SessionStep, AbsentIsNoSession, TornIsNoSession
   DEF ListedIn, Untouched, Written, Books, Ends, Settles, Closes, Creates, FreshId,
       Vanishes

LEMMA OpenTurnStep ==
    ASSUME Typed, LockHeld, Attended, OpenTurn, [SessionNext]_sessionVars
    PROVE  OpenTurn'
<1>0. Control /\ Turn \subseteq Awaits
  BY DEF Typed, SessionTypeOK, Control, Turn, Awaits
<1> SUFFICES ASSUME NEW p \in Requests, pc'[p] \in Turn
             PROVE  session'[target'[p]].status # "closed"
  BY DEF OpenTurn, Turn, Exchanging
<1>1. /\ target'[p] = target[p] /\ target[p] \in Sessions
      /\ session[target[p]] \in Session
  BY <1>0, AttendedBefore DEF Control
<1>2. CASE SendMessage(p)
  <2>1. UNCHANGED session /\ session[target[p]].status # "closed"
    BY <1>2 DEF SendMessage, Status
  <2> QED BY <1>1, <2>1
<1>3. CASE pc[p] \in Turn
  <2>1. session[target[p]].status # "closed"
    BY <1>3 DEF OpenTurn
  <2>2. lock[target[p]] = p /\ p # Free
    BY <1>0, <1>3, SessionAssumption DEF LockHeld
  <2>3. ASSUME NEW q \in Requests, target[q] = target[p], RunEnds(q)
        PROVE  FALSE
    <3>1. pc[q] \in Awaits /\ pc'[q] = "settling"
      BY <1>0, <2>3 DEF RunEnds, GoTo, Awaits, Exchanging, Control
    <3>2. p = q
      BY <2>2, <2>3, <3>1 DEF LockHeld
    <3> QED BY <3>1, <3>2 DEF Turn, Exchanging
  <2>4. ~Vanish
    BY <1>0 DEF Vanish, Turn, Awaits, Exchanging
  <2> QED BY <1>1, <2>1, <2>2, <2>3, <2>4, SessionStep, AbsentIsNoSession
          DEF Untouched, Books, Settles, Creates, FreshId
<1>4. pc[p] \in Turn \/ SendMessage(p)
  BY <1>0, PcStep
     DEF Turn, Awaits, Exchanging, Close, Compact, Resumed, Book, Invoked, RunEnds,
         GoTo, Control
<1> QED BY <1>2, <1>3, <1>4

LEMMA ListedStep ==
    ASSUME Typed, Attended, Listed, [SessionNext]_sessionVars
    PROVE  Listed'
<1>0. /\ Control /\ session \in Kept /\ meta \in Filed
      /\ {"invoking", "running"} \subseteq Awaits
  BY DEF Typed, SessionTypeOK, Control, Kept, Filed, Awaits, Exchanging
<1> SUFFICES ASSUME NEW p \in Requests, pc'[p] \in {"invoking", "running"}
             PROVE  ListedIn(target[p], p)' /\ target'[p] = target[p]
  BY DEF Listed, ListedIn
<1>1. /\ target'[p] = target[p] /\ target[p] \in Sessions
      /\ session[target[p]] \in Session
  BY <1>0, AttendedBefore DEF Control
<1>2. CASE Book(p)
  BY <1>0, <1>1, <1>2, BookFacts DEF Books, ListedIn
<1>3. CASE pc[p] \in {"invoking", "running"}
  BY <1>1, <1>3, ListedStays DEF Listed
<1>4. pc[p] \in {"invoking", "running"} \/ Book(p)
  BY <1>0, PcStep
     DEF SendMessage, Close, Compact, Resumed, Invoked, RunEnds, GoTo, Control
<1> QED BY <1>1, <1>2, <1>3, <1>4

LEMMA RecordedStep ==
    ASSUME ThreadInv, MetaInv, [SessionNext]_sessionVars
    PROVE  Recorded'
<1>0. Typed /\ LockHeld /\ Attended /\ Listed /\ Recorded
  BY DEF ThreadInv, MetaInv
<1> SUFFICES ASSUME NEW s \in Sessions, NEW p \in Requests, <<p, "run">> \in SaidIn(s)'
             PROVE  ListedIn(s, p)
  BY <1>0, ListedStays DEF Recorded
<1>1. CASE SaidIn(s)' = SaidIn(s)
  BY <1>0, <1>1 DEF Recorded
<1>2. ASSUME NEW q \in Requests, Says(q) \/ Replies(q)
      PROVE  ListedIn(s, p)
  <2>1. PICK k \in {"user", "run"} :
          /\ Store(q, {<<q, k>>}) /\ UNCHANGED backup
          /\ k = "run" => pc[q] = "running"
    BY <1>2 DEF Says, Replies
  <2>2. SaidIn(s)' = IF s = target[q] THEN SaidIn(s) \cup {<<q, k>>} ELSE SaidIn(s)
    BY <2>1, SaidGrows
  <2>3. CASE <<p, "run">> \in SaidIn(s)
    BY <1>0, <2>3 DEF Recorded
  <2>4. CASE s = target[q] /\ <<p, "run">> = <<q, k>>
    BY <1>0, <2>1, <2>4 DEF Listed
  <2> QED BY <2>2, <2>3, <2>4
<1>3. ASSUME NEW q \in Requests, Compacts(q)
      PROVE  SaidIn(s)' = SaidIn(s)
  BY <1>3, SaidCompacted
<1> QED BY <1>0, <1>1, <1>2, <1>3, ThreadStep, SaidKept

-----------------------------------------------------------------------------
(* The inductive invariant and what follows from it                         *)

Inv == ThreadInv /\ MetaInv

LEMMA InvInit == SessionInit => Inv
<1> SUFFICES ASSUME SessionInit PROVE Inv
  OBVIOUS
<1>1. \A s \in Sessions : thread[s] = <<>> /\ SaidIn(s) = {}
  BY ItemsOfEmpty DEF SessionInit, SaidIn
<1>2. Typed /\ LockHeld
  BY InitTyped
<1>3. \A q \in Requests : pc[q] = "idle"
  BY DEF SessionInit
<1>4. Spoken /\ Current
  BY <1>3 DEF Spoken, Current, Spoke
<1>5. Whole
  BY <1>1 DEF Whole
<1>6. Fresh
  BY <1>1 DEF Fresh, SaidIn
<1>7. \A s \in Sessions : session[s] = Absent
  BY DEF SessionInit
<1>8. Attended /\ OpenTurn /\ Listed
  BY <1>3 DEF Attended, OpenTurn, Listed, Turn, Awaits, Exchanging
<1>9. InStep
  BY <1>7, AbsentIsNoSession DEF InStep, Behind
<1>10. Recorded
  BY <1>1 DEF Recorded
<1> QED BY <1>2, <1>4, <1>5, <1>6, <1>8, <1>9, <1>10 DEF Inv, ThreadInv, MetaInv

LEMMA InvStep ==
    ASSUME Inv, [SessionNext]_sessionVars
    PROVE  Inv'
<1>1. ThreadInv /\ MetaInv /\ Typed /\ LockHeld /\ Attended
  BY DEF Inv, ThreadInv, MetaInv
<1>2. Keeps \/ \E q \in Requests : Says(q) \/ Replies(q) \/ Compacts(q)
  BY <1>1, ThreadStep
<1>3. Spoken' /\ Whole' /\ Current' /\ Fresh'
  BY <1>1, <1>2, SpokenStep, WholeStep, CurrentStep, FreshStep
<1>4. LockHeld'
  BY <1>1, HeldStep
<1>5. Typed'
  <2>1. Control' /\ snapshot' \in [Requests -> SUBSET Items]
    BY <1>1, ControlTyped, SnapshotTyped
  <2>2. /\ thread' \in [Sessions -> Seq(Rows)]
        /\ backup' \in [Sessions -> SUBSET Items]
    BY <1>1, <1>2, ThreadTyped
  <2>3. session' \in Kept /\ meta' \in Filed
    BY <1>1, MetaTyped
  <2>4. \A s \in Sessions : \A i \in DOMAIN thread'[s] : thread'[s][i] \subseteq Items
    <3> TAKE s \in Sessions
    <3>1. thread'[s] \in Seq(Rows)
      BY <2>2
    <3> QED BY <3>1 DEF Rows
  <2> QED BY <2>1, <2>2, <2>3, <2>4
          DEF Typed, SessionTypeOK, Control, Kept, Filed, Items, Session, Absent,
              Torn, Awaits, Exchanging, Modes, Statuses
<1>6. MetaInv'
  BY <1>1, AttendedStep, InStepStep, OpenTurnStep, ListedStep, RecordedStep
     DEF MetaInv
<1> QED BY <1>3, <1>4, <1>5, <1>6 DEF Inv, ThreadInv

\* The inductive invariant of the sessions holds in every reachable state: it
\* ties the status, the lock, the threads and the files of a session together.
THEOREM InvCorrect == SessionSpec => []Inv
<1>1. Inv /\ [SessionNext]_sessionVars => Inv'
  BY InvStep
<1> QED BY InvInit, <1>1, PTL DEF SessionSpec

\* Sessions, locks, threads and files are always of their types.
THEOREM SessionTypeCorrect == SessionSpec => []SessionTypeOK
<1>1. Inv => SessionTypeOK
  BY DEF Inv, ThreadInv, Typed
<1> QED BY InvCorrect, <1>1, PTL

\* What a run adds to a thread stands right behind the message it answers, for
\* any number of clients that send, close and compact (send_message).
THEOREM ExchangesWholeCorrect == SessionSpec => []ExchangesWhole
<1>1. Inv => ExchangesWhole
  BY DEF Inv, ThreadInv, Whole, ExchangesWhole
<1> QED BY InvCorrect, <1>1, PTL

\* A meta.json that can be read lists every run that left messages, and calls no
\* session closed that still takes messages, whatever saves fail or break off
\* and wherever the daemon dies (send_message, close, write_meta).
THEOREM MetaKeepsUpCorrect == SessionSpec => []MetaKeepsUp
<1>1. Inv => RunsRecorded
  BY AbsentIsNoSession DEF Inv, MetaInv, Recorded, ListedIn, RunsRecorded
<1>2. Inv => ClosedForGood
  <2> SUFFICES ASSUME Inv, NEW s \in Sessions, meta[s].status = "closed",
                      session[s] # Absent
               PROVE  session[s].status = "closed"
    BY DEF ClosedForGood
  <2>1. session \in Kept /\ meta \in Filed /\ Behind(s)
    BY DEF Inv, ThreadInv, MetaInv, Typed, SessionTypeOK, Kept, Filed, InStep
  <2>2. meta[s] \in Session /\ session[s] \in Session
    BY <2>1 DEF Kept, Filed, Absent, Torn
  <2> QED BY <2>1, <2>2 DEF Behind
<1>3. Inv => MetaKeepsUp
  BY <1>1, <1>2 DEF MetaKeepsUp
<1> QED BY InvCorrect, <1>3, PTL

\* A summary covers the whole thread it replaces (compact).
THEOREM SummaryIsCurrentCorrect == SessionSpec => SummaryIsCurrent
<1> DEFINE Covers == \A q \in Requests :
              pc[q] = "compacting" /\ pc'[q] = "done" =>
                  ItemsOf(thread[target[q]]) \subseteq ItemsOf(thread'[target[q]])
<1>1. ASSUME Inv, [SessionNext]_sessionVars
      PROVE  [Covers]_sessionVars
  <2> SUFFICES ASSUME NEW q \in Requests, pc[q] = "compacting", pc'[q] = "done"
               PROVE  ItemsOf(thread[target[q]]) \subseteq ItemsOf(thread'[target[q]])
    OBVIOUS
  <2>1. /\ thread \in [Sessions -> Seq(Rows)] /\ target[q] \in Sessions
        /\ pc \in [Requests -> Awaits \cup {"idle", "done", "failed"}]
        /\ snapshot[q] = ItemsOf(thread[target[q]])
    BY <1>1 DEF Inv, ThreadInv, Typed, SessionTypeOK, Current
  <2>2. Compacted(q)
    <3>1. ASSUME NEW r \in Requests, Refuse(r) \/ SendMessage(r) \/ Close(r)
                                        \/ Compact(r)
          PROVE  FALSE
      BY <2>1, <3>1 DEF Refuse, SendMessage, Close, Compact, GoTo
    <3>2. ASSUME NEW r \in Requests, Resumed(r) \/ Book(r) \/ Invoked(r) \/ RunEnds(r)
          PROVE  FALSE
      BY <2>1, <3>2 DEF Resumed, Book, Invoked, RunEnds, GoTo
    <3>3. ASSUME NEW r \in Requests, Settle(r) \/ Closed(r) \/ RunCancelled(r)
                                        \/ CompactTorn(r) \/ Abandon(r)
          PROVE  FALSE
      BY <2>1, <3>3 DEF Settle, Closed, RunCancelled, CompactTorn, Abandon, GoTo
    <3>4. ASSUME NEW r \in Requests, r # q, Compacted(r)
          PROVE  FALSE
      BY <2>1, <3>4 DEF Compacted, GoTo
    <3>5. ~Vanish
      BY <2>1 DEF Vanish
    <3>6. ASSUME NEW s \in Sessions, NEW mode \in Modes, Create(s, mode)
          PROVE  FALSE
      BY <3>6 DEF Create
    <3>7. ~UNCHANGED sessionVars
      BY DEF sessionVars, memory
    <3> QED BY <1>1, <3>1, <3>2, <3>3, <3>4, <3>5, <3>6, <3>7
            DEF SessionNext, Finish, Break, Crash, CrashInCompaction, CrashInSave
  <2>3. thread'[target[q]] = <<ItemsOf(thread[target[q]])>>
    BY <2>1, <2>2 DEF Compacted, MoveAway
  <2> QED BY <2>3, ItemsOfOne
<1>2. Inv /\ [SessionNext]_sessionVars => [Covers]_sessionVars
  BY <1>1
<1> QED BY InvCorrect, <1>2, PTL DEF SessionSpec, SummaryIsCurrent

-----------------------------------------------------------------------------
(* The session manager implements Dialogue: every step of it is a step of   *)
(* the dialogue or leaves it unchanged.                                     *)

PhaseMap == [s \in Sessions |-> PhaseOf(s)]
TurnMap  == [s \in Sessions |-> TurnOf(s)]
SaidMap  == [s \in Sessions |-> SaidIn(s)]

-----------------------------------------------------------------------------
(* What the maps show of a step                                             *)

LEMMA PhaseCases ==
    ASSUME NEW s
    PROVE  /\ session[s] = Absent => PhaseOf(s) = "absent"
           /\ session[s] \in Session /\ session[s].status = "closed" =>
                  PhaseOf(s) = "closed"
           /\ session[s] \in Session /\ session[s].status # "closed" =>
                  PhaseOf(s) = "open"
<1>1. session[s] \in Session => session[s] # Absent
  BY AbsentIsNoSession
<1> QED BY <1>1 DEF PhaseOf

LEMMA PhaseSame ==
    ASSUME UNCHANGED session
    PROVE  PhaseMap' = PhaseMap
BY DEF PhaseMap, PhaseOf

LEMMA PhaseUpdate ==
    ASSUME NEW r \in Sessions, \A s \in Sessions \ {r} : session'[s] = session[s]
    PROVE  PhaseMap' = [PhaseMap EXCEPT ![r] = PhaseOf(r)']
<1>1. \A s \in Sessions \ {r} : PhaseOf(s)' = PhaseOf(s)
  BY DEF PhaseOf
<1> QED BY <1>1 DEF PhaseMap

LEMMA SaidSame ==
    ASSUME \A s \in Sessions : SaidIn(s)' = SaidIn(s)
    PROVE  SaidMap' = SaidMap
BY DEF SaidMap

LEMMA SaidUpdate ==
    ASSUME ThreadInv, NEW q \in Requests, NEW k \in {"user", "run"},
           Store(q, {<<q, k>>}), UNCHANGED backup
    PROVE  SaidMap' = [SaidMap EXCEPT ![target[q]] = @ \cup {<<q, k>>}]
<1>1. \A s \in Sessions :
        SaidIn(s)' = IF s = target[q] THEN SaidIn(s) \cup {<<q, k>>} ELSE SaidIn(s)
  BY SaidGrows
<1> QED BY <1>1 DEF SaidMap

LEMMA TurnSame ==
    ASSUME UNCHANGED target,
           \A p \in Requests : pc'[p] \in Exchanging <=> pc[p] \in Exchanging
    PROVE  TurnMap' = TurnMap
<1>1. \A s \in Sessions : TurnOf(s)' = TurnOf(s)
  BY DEF TurnOf, Exchanging
<1> QED BY <1>1 DEF TurnMap

LEMMA TurnFree ==
    ASSUME LockHeld, NEW q \in Requests, pc[q] \notin Exchanging,
           pc[q] \in Awaits \/ lock[target[q]] = Free
    PROVE  TurnOf(target[q]) = {}
<1>1. \A p \in Requests : pc[p] \in Exchanging => p # q /\ target[p] # target[q]
  BY Alone DEF Awaits
<1> QED BY <1>1 DEF TurnOf

LEMMA TurnTaken ==
    ASSUME LockHeld, NEW q \in Requests, pc[q] \in Exchanging
    PROVE  TurnOf(target[q]) = {q}
<1>1. \A p \in Requests : p # q /\ pc[p] \in Exchanging => target[p] # target[q]
  BY Alone DEF Awaits
<1> QED BY <1>1 DEF TurnOf

\* A request that changes its await changes the turn of its own session.
LEMMA TurnUpdate ==
    ASSUME Control, NEW q \in Requests, UNCHANGED target, NEW a, GoTo(q, a),
           TurnOf(target[q]) \subseteq {q}
    PROVE  TurnMap' = [TurnMap EXCEPT ![target[q]] =
                          IF a \in Exchanging THEN {q} ELSE {}]
<1>1. pc'[q] = a /\ \A p \in Requests \ {q} : pc'[p] = pc[p]
  BY DEF Control, GoTo
<1>2. \A s \in Sessions \ {target[q]} : TurnOf(s)' = TurnOf(s)
  BY <1>1 DEF TurnOf, Exchanging
<1>3. TurnOf(target[q])' = IF a \in Exchanging THEN {q} ELSE {}
  <2>1. \A p \in Requests \ {q} : target[p] = target[q] => pc'[p] \notin Exchanging
    BY <1>1 DEF TurnOf
  <2> QED BY <1>1, <2>1 DEF TurnOf, Exchanging
<1> QED BY <1>2, <1>3 DEF TurnMap

-----------------------------------------------------------------------------
(* Each step                                                                *)

TalkUnchanged == UNCHANGED <<PhaseMap, TurnMap, SaidMap>>

LEMMA CreateTalks ==
    ASSUME Inv, NEW r \in Sessions, NEW mode \in Modes, Create(r, mode)
    PROVE  Talk!Open(r)
<1>1. session \in Kept /\ meta \in Filed
  BY DEF Inv, ThreadInv, Typed, SessionTypeOK, Kept, Filed
<1>2. /\ session[r] = Absent /\ thread[r] = <<>> /\ backup[r] = {}
      /\ session'[r] \in Session /\ session'[r].status = "active"
      /\ \A s \in Sessions \ {r} : session'[s] = session[s]
  BY <1>1, CreateFacts DEF Creates, FreshId, Untouched
<1>3. PhaseOf(r) = "absent" /\ PhaseOf(r)' = "open"
  <2>1. session'[r] # Absent
    BY <1>2, AbsentIsNoSession
  <2> QED BY <1>2, <2>1 DEF PhaseOf, Absent
<1>4. SaidIn(r) = {}
  BY <1>2, ItemsOfEmpty DEF SaidIn
<1>5. UNCHANGED <<pc, target, thread, backup>>
  BY DEF Create
<1>6. PhaseMap' = [PhaseMap EXCEPT ![r] = "open"] /\ UNCHANGED <<TurnMap, SaidMap>>
  BY <1>2, <1>3, <1>5, PhaseUpdate DEF TurnMap, TurnOf, SaidMap, SaidIn, Exchanging
<1> QED BY <1>3, <1>4, <1>6 DEF Talk!Open, PhaseMap, SaidMap, TurnMap

LEMMA SaysTalks ==
    ASSUME Inv, NEW q \in Requests, Says(q), UNCHANGED session,
           session[target[q]] \in Session, session[target[q]].status # "closed"
    PROVE  Talk!Say(target[q], q)
<1>1. LockHeld /\ Control /\ ThreadInv /\ target[q] \in Sessions
  BY DEF Inv, ThreadInv, Typed, SessionTypeOK, Control
<1>2. TurnOf(target[q]) = {}
  BY <1>1, TurnFree DEF Says, Silent, Awaits, Exchanging
<1>3. TurnMap' = [TurnMap EXCEPT ![target[q]] = {q}]
  <2>1. TurnMap' = [TurnMap EXCEPT ![target[q]] =
                       IF "receiving" \in Exchanging THEN {q} ELSE {}]
    BY <1>1, <1>2, TurnUpdate DEF Says
  <2> QED BY <2>1 DEF Exchanging
<1>4. SaidMap' = [SaidMap EXCEPT ![target[q]] = @ \cup {<<q, "user">>}]
  BY <1>1, SaidUpdate DEF Says
<1>5. PhaseMap' = PhaseMap /\ PhaseOf(target[q]) = "open"
  BY PhaseSame, PhaseCases
<1>6. <<q, "user">> \notin SaidIn(target[q])
  BY <1>1 DEF ThreadInv, Fresh, SaidIn, Says
<1> QED BY <1>1, <1>2, <1>3, <1>4, <1>5, <1>6
        DEF Talk!Say, PhaseMap, TurnMap, SaidMap

LEMMA RepliesTalks ==
    ASSUME Inv, NEW q \in Requests, RunEnds(q) \/ RunCancelled(q)
    PROVE  Talk!Reply(target[q], q)
<1>1. /\ LockHeld /\ Control /\ ThreadInv /\ target[q] \in Sessions
      /\ session \in Kept /\ meta \in Filed
  BY DEF Inv, ThreadInv, Typed, SessionTypeOK, Control, Kept, Filed
<1>2. pc[q] \in Exchanging /\ Store(q, {<<q, "run">>}) /\ UNCHANGED <<target, backup>>
  BY DEF RunEnds, RunCancelled, Exchanging
<1>3. session[target[q]] \in Session /\ session[target[q]].status # "closed"
  BY <1>2 DEF Inv, MetaInv, Attended, OpenTurn, Turn, Awaits
<1>4. TurnOf(target[q]) = {q}
  BY <1>1, <1>2, TurnTaken
<1>5. TurnMap' = [TurnMap EXCEPT ![target[q]] = {}]
  <2>1. PICK a \in {"settling", "failed"} : GoTo(q, a)
    BY DEF RunEnds, RunCancelled
  <2>2. a \notin Exchanging
    BY DEF Exchanging
  <2> QED BY <1>1, <1>2, <1>4, <2>1, <2>2, TurnUpdate
<1>6. SaidMap' = [SaidMap EXCEPT ![target[q]] = @ \cup {<<q, "run">>}]
  BY <1>1, <1>2, SaidUpdate
<1>7. \/ PhaseMap' = PhaseMap
      \/ PhaseOf(target[q]) = "open" /\ PhaseMap' = [PhaseMap EXCEPT ![target[q]] = "closed"]
  <2>1. CASE UNCHANGED session
    BY <2>1, PhaseSame
  <2>2. CASE RunEnds(q)
    <3>0. PICK t \in Sessions : t = target[q]
      BY <1>1
    <3>1. /\ session'[t] \in Session
          /\ \A s \in Sessions \ {t} : session'[s] = session[s]
      BY <1>1, <1>3, <2>2, <3>0, EndFacts DEF Ends, Untouched
    <3>2. PhaseOf(t)' \in {"open", "closed"}
      <4>1. session'[t] # Absent
        BY <3>1, AbsentIsNoSession
      <4> QED BY <4>1 DEF PhaseOf, Absent
    <3>3. PhaseOf(t) = "open"
      BY <1>3, <3>0, PhaseCases
    <3>4. PhaseMap' = [PhaseMap EXCEPT ![t] = PhaseOf(t)']
      BY <3>1, PhaseUpdate
    <3>5. CASE PhaseOf(t)' = "open"
      BY <3>3, <3>4, <3>5 DEF PhaseMap
    <3>6. CASE PhaseOf(t)' = "closed"
      BY <3>0, <3>3, <3>4, <3>6
    <3> QED BY <3>2, <3>5, <3>6
  <2> QED BY <2>1, <2>2 DEF RunCancelled
<1> QED BY <1>1, <1>4, <1>5, <1>6, <1>7 DEF Talk!Reply, PhaseMap, TurnMap, SaidMap

LEMMA CloseTalks ==
    ASSUME Inv, NEW q \in Requests, Close(q)
    PROVE  Talk!Close(target[q])
<1>1. /\ LockHeld /\ Control /\ target[q] \in Sessions
      /\ session \in Kept /\ meta \in Filed
  BY DEF Inv, ThreadInv, Typed, SessionTypeOK, Control, Kept, Filed
<1>2. /\ session[target[q]] \in Session /\ UNCHANGED <<target, thread, backup>>
      /\ lock[target[q]] = Free /\ pc[q] \notin Exchanging
      /\ GoTo(q, "closing") \/ GoTo(q, "failed")
  BY <1>1 DEF Close, Known, Kept, Exchanging
<1>3. /\ session'[target[q]] \in Session /\ session'[target[q]].status = "closed"
      /\ \A s \in Sessions \ {target[q]} : session'[s] = session[s]
  BY <1>1, <1>2, CloseFacts DEF Closes, Untouched
<1>t. PICK t \in Sessions : t = target[q]
  BY <1>1
<1>4. PhaseOf(t) # "absent" /\ PhaseOf(t)' = "closed"
  <2>1. session'[t] # Absent
    BY <1>t, <1>3, AbsentIsNoSession
  <2>2. PhaseOf(t)' = "closed"
    BY <1>t, <1>3, <2>1 DEF PhaseOf, Absent
  <2> QED BY <1>t, <1>2, <2>2, PhaseCases
<1>5. TurnOf(target[q]) = {}
  BY <1>1, <1>2, TurnFree
<1>6. TurnMap' = TurnMap
  <2>1. \A p \in Requests : pc'[p] \in Exchanging <=> pc[p] \in Exchanging
    BY <1>1, <1>2 DEF GoTo, Control, Exchanging
  <2> QED BY <1>2, <2>1, TurnSame
<1>7. SaidMap' = SaidMap
  BY <1>2 DEF SaidMap, SaidIn
<1>8. PhaseMap' = [PhaseMap EXCEPT ![t] = "closed"]
  BY <1>t, <1>3, <1>4, PhaseUpdate
<1> QED BY <1>t, <1>1, <1>4, <1>5, <1>6, <1>7, <1>8
        DEF Talk!Close, PhaseMap, TurnMap, SaidMap

\* Booking fails or a wait is abandoned in the middle of an exchange.
LEMMA GivesUp ==
    ASSUME Inv, NEW q \in Requests, pc[q] \in Exchanging, GoTo(q, "failed"),
           UNCHANGED <<target, thread, backup>>, PhaseMap' = PhaseMap
    PROVE  Talk!GiveUp(target[q])
<1>1. LockHeld /\ Control
  BY DEF Inv, ThreadInv, Typed, SessionTypeOK, Control
<1>2. TurnMap' = [TurnMap EXCEPT ![target[q]] =
                     IF "failed" \in Exchanging THEN {q} ELSE {}]
  BY <1>1, TurnTaken, TurnUpdate
<1>3. TurnMap' = [TurnMap EXCEPT ![target[q]] = {}]
  BY <1>2 DEF Exchanging
<1>4. SaidMap' = SaidMap
  BY DEF SaidMap, SaidIn
<1> QED BY <1>3, <1>4 DEF Talk!GiveUp, PhaseMap, TurnMap, SaidMap

LEMMA BookTalks ==
    ASSUME Inv, NEW q \in Requests, Book(q)
    PROVE  TalkUnchanged \/ Talk!GiveUp(target[q])
<1>1. /\ LockHeld /\ Control /\ target[q] \in Sessions
      /\ session \in Kept /\ meta \in Filed
  BY DEF Inv, ThreadInv, Typed, SessionTypeOK, Control, Kept, Filed
<1>2. /\ pc[q] \in Exchanging /\ UNCHANGED <<target, thread, backup>>
      /\ session[target[q]] \in Session
  BY DEF Book, Exchanging, Awaits, Inv, MetaInv, Attended
<1>3. /\ session'[target[q]] \in Session
      /\ session'[target[q]].status = session[target[q]].status
      /\ \A s \in Sessions \ {target[q]} : session'[s] = session[s]
  BY <1>1, <1>2, BookFacts DEF Books, Untouched
<1>4. PhaseMap' = PhaseMap
  <2>0. PICK t \in Sessions : t = target[q]
    BY <1>1
  <2>1. PhaseMap' = [PhaseMap EXCEPT ![t] = PhaseOf(t)']
    BY <2>0, <1>3, PhaseUpdate
  <2>2. session'[t] # Absent /\ session[t] # Absent
    BY <2>0, <1>2, <1>3, AbsentIsNoSession
  <2>3. PhaseOf(t)' = PhaseOf(t)
    BY <2>0, <1>3, <2>2 DEF PhaseOf, Absent
  <2> QED BY <2>1, <2>3 DEF PhaseMap
<1>5. CASE GoTo(q, "failed")
  BY <1>2, <1>4, <1>5, GivesUp
<1>6. CASE GoTo(q, "invoking") \/ GoTo(q, "running")
  <2>1. \A p \in Requests : pc'[p] \in Exchanging <=> pc[p] \in Exchanging
    BY <1>1, <1>2, <1>6 DEF GoTo, Control, Exchanging
  <2> QED BY <1>2, <1>4, <2>1, TurnSame DEF TalkUnchanged, SaidMap, SaidIn
<1> QED BY <1>5, <1>6 DEF Book

LEMMA AbandonTalks ==
    ASSUME Inv, NEW q \in Requests, Abandon(q)
    PROVE  TalkUnchanged \/ Talk!GiveUp(target[q])
<1>1. UNCHANGED <<session, target, thread, backup>> /\ GoTo(q, "failed")
  BY DEF Abandon, disk
<1>2. PhaseMap' = PhaseMap
  BY <1>1, PhaseSame
<1>3. CASE pc[q] \in Exchanging
  BY <1>1, <1>2, <1>3, GivesUp
<1>4. CASE pc[q] \notin Exchanging
  <2>1. \A p \in Requests : pc'[p] \in Exchanging <=> pc[p] \in Exchanging
    BY <1>1, <1>4 DEF GoTo, Inv, ThreadInv, Typed, SessionTypeOK, Exchanging
  <2> QED BY <1>1, <1>2, <2>1, TurnSame DEF TalkUnchanged, SaidMap, SaidIn
<1> QED BY <1>3, <1>4

LEMMA VanishTalks ==
    ASSUME Inv, Vanish, \A s \in Sessions : SaidIn(s)' = SaidIn(s)
    PROVE  Talk!Vanish
<1>1. PhaseMap' = [s \in Sessions |-> "absent"]
  <2>1. \A s \in Sessions : PhaseOf(s)' = "absent"
    BY DEF Vanish, PhaseOf, Absent
  <2> QED BY <2>1 DEF PhaseMap
<1>2. TurnMap' = [s \in Sessions |-> {}]
  <2>1. \A p \in Requests : pc'[p] \notin Exchanging
    BY DEF Vanish, Awaits, Exchanging
  <2>2. \A s \in Sessions : TurnOf(s)' = {}
    BY <2>1 DEF TurnOf, Exchanging
  <2> QED BY <2>2 DEF TurnMap
<1>3. SaidMap' = SaidMap
  BY SaidSame
<1> QED BY <1>1, <1>2, <1>3 DEF Talk!Vanish, PhaseMap, TurnMap, SaidMap

\* Steps the dialogue does not see.
LEMMA Unseen ==
    ASSUME Inv, UNCHANGED <<session, target>>,
           \A p \in Requests : pc'[p] \in Exchanging <=> pc[p] \in Exchanging,
           \A s \in Sessions : SaidIn(s)' = SaidIn(s)
    PROVE  TalkUnchanged
BY PhaseSame, TurnSame, SaidSame DEF TalkUnchanged

LEMMA TalkStep ==
    ASSUME Inv, [SessionNext]_sessionVars
    PROVE  [Talk!DialogueNext]_(Talk!dialogueVars)
<1>0. /\ ThreadInv /\ Attended /\ OpenTurn /\ target \in [Requests -> Sessions]
      /\ pc \in [Requests -> Awaits \cup {"idle", "done", "failed"}]
  BY DEF Inv, ThreadInv, MetaInv, Typed, SessionTypeOK
<1>1. ASSUME NEW r \in Sessions, NEW mode \in Modes, Create(r, mode)
      PROVE  Talk!DialogueNext
  BY <1>1, CreateTalks DEF Talk!DialogueNext
<1>2. ASSUME NEW q \in Requests, Refuse(q) \/ Compact(q) \/ Invoked(q)
                                     \/ Settle(q) \/ Closed(q)
      PROVE  TalkUnchanged
  <2>1. UNCHANGED <<session, target, thread, backup>>
    BY <1>2 DEF Refuse, Compact, Invoked, Settle, Closed, disk
  <2>2. \A p \in Requests : pc'[p] \in Exchanging <=> pc[p] \in Exchanging
    BY <1>0, <1>2 DEF Refuse, Compact, Invoked, Settle, Closed, GoTo, Exchanging
  <2> QED BY <2>1, <2>2, Unseen DEF SaidIn
<1>3. ASSUME NEW q \in Requests, SendMessage(q)
      PROVE  Talk!DialogueNext \/ TalkUnchanged
  <2>1. target[q] \in Sessions /\ session[target[q]] \in Session
    BY <1>0, <1>3 DEF SendMessage, Known, Inv, ThreadInv, Typed, SessionTypeOK
  <2>2. CASE Status(q) = "waiting_for_input"
    <3>1. /\ UNCHANGED <<session, target, thread, backup>>
          /\ pc[q] = "idle" /\ GoTo(q, "resuming")
      BY <1>3, <2>2 DEF SendMessage
    <3>2. \A p \in Requests : pc'[p] \in Exchanging <=> pc[p] \in Exchanging
      BY <1>0, <3>1 DEF GoTo, Exchanging
    <3> QED BY <3>1, <3>2, Unseen DEF SaidIn
  <2>3. CASE Status(q) # "waiting_for_input"
    <3>1. Says(q) /\ UNCHANGED session /\ session[target[q]].status # "closed"
      BY <1>3, <2>3 DEF SendMessage, Says, Silent, Status
    <3>2. Talk!Say(target[q], q)
      BY <2>1, <3>1, SaysTalks
    <3> QED BY <2>1, <3>2 DEF Talk!DialogueNext
  <2> QED BY <2>2, <2>3
<1>4. ASSUME NEW q \in Requests, Resumed(q)
      PROVE  Talk!DialogueNext
  <2>1. /\ Says(q) /\ UNCHANGED session
        /\ session[target[q]] \in Session /\ session[target[q]].status # "closed"
    BY <1>0, <1>4 DEF Resumed, Says, Silent, Attended, OpenTurn, Turn, Awaits
  <2>2. Talk!Say(target[q], q) /\ target[q] \in Sessions
    BY <1>0, <2>1, SaysTalks
  <2> QED BY <2>2 DEF Talk!DialogueNext
<1>5. ASSUME NEW q \in Requests, Book(q) \/ Abandon(q)
      PROVE  Talk!DialogueNext \/ TalkUnchanged
  <2>1. target[q] \in Sessions
    BY <1>0
  <2> QED BY <1>5, <2>1, BookTalks, AbandonTalks DEF Talk!DialogueNext
<1>6. ASSUME NEW q \in Requests, RunEnds(q) \/ RunCancelled(q)
      PROVE  Talk!DialogueNext
  <2>1. Talk!Reply(target[q], q) /\ target[q] \in Sessions
    BY <1>0, <1>6, RepliesTalks
  <2> QED BY <2>1 DEF Talk!DialogueNext
<1>7. ASSUME NEW q \in Requests, Close(q)
      PROVE  Talk!DialogueNext
  <2>1. Talk!Close(target[q]) /\ target[q] \in Sessions
    BY <1>0, <1>7, CloseTalks
  <2> QED BY <2>1 DEF Talk!DialogueNext
<1>8. ASSUME NEW q \in Requests, Compacted(q) \/ CompactTorn(q)
      PROVE  TalkUnchanged
  <2>1. Compacts(q) /\ UNCHANGED <<session, target>>
    BY <1>0, <1>8 DEF Compacted, CompactTorn, Compacts, GoTo
  <2>2. \A p \in Requests : pc'[p] \in Exchanging <=> pc[p] \in Exchanging
    BY <1>0, <1>8 DEF Compacted, CompactTorn, GoTo, Exchanging
  <2> QED BY <1>0, <2>1, <2>2, Unseen, SaidCompacted
<1>9. ASSUME NEW q \in Requests, CrashInCompaction(q)
      PROVE  Talk!DialogueNext
  <2>1. Compacts(q) /\ Vanish
    BY <1>0, <1>9 DEF CrashInCompaction, Compacts, Vanish, Awaits
  <2> QED BY <1>0, <2>1, VanishTalks, SaidCompacted DEF Talk!DialogueNext
<1>10. ASSUME Crash \/ \E s \in Sessions : CrashInSave(s)
       PROVE  Talk!DialogueNext
  <2>1. Vanish /\ \A s \in Sessions : SaidIn(s)' = SaidIn(s)
    BY <1>10 DEF Crash, CrashInSave, SaidIn, disk
  <2> QED BY <2>1, VanishTalks DEF Talk!DialogueNext
<1>11. ASSUME UNCHANGED sessionVars
       PROVE  TalkUnchanged
  <2>1. UNCHANGED <<session, target, pc, thread, backup>>
    BY <1>11 DEF sessionVars, memory, disk
  <2>2. \A s \in Sessions : SaidIn(s)' = SaidIn(s)
    BY <2>1 DEF SaidIn
  <2> QED BY <2>1, <2>2, Unseen DEF Exchanging
<1>12. TalkUnchanged => UNCHANGED Talk!dialogueVars
  BY DEF TalkUnchanged, Talk!dialogueVars, PhaseMap, TurnMap, SaidMap
<1> QED BY <1>1, <1>2, <1>3, <1>4, <1>5, <1>6, <1>7, <1>8, <1>9, <1>10, <1>11, <1>12
        DEF SessionNext, Finish, Break

LEMMA TalkInit == SessionInit => Talk!DialogueInit
<1> SUFFICES ASSUME SessionInit PROVE Talk!DialogueInit
  OBVIOUS
<1>1. \A s \in Sessions : PhaseOf(s) = "absent"
  BY PhaseCases DEF SessionInit
<1>2. \A s \in Sessions : TurnOf(s) = {} /\ SaidIn(s) = {}
  BY ItemsOfEmpty DEF SessionInit, TurnOf, SaidIn, Exchanging
<1> QED BY <1>1, <1>2 DEF Talk!DialogueInit

\* The session manager keeps the promise of Dialogue: one exchange at a time,
\* none in a closed session, and nothing that was said is forgotten.
THEOREM RefinesDialogue == SessionSpec => ImplementsDialogue
<1>1. Inv /\ [SessionNext]_sessionVars => [Talk!DialogueNext]_(Talk!dialogueVars)
  BY TalkStep
<1> QED BY InvCorrect, <1>1, TalkInit, PTL
        DEF SessionSpec, ImplementsDialogue, Talk!DialogueSpec
=============================================================================
