------------------------------ MODULE Session -------------------------------
(***************************************************************************)
(* SessionManager (core/session/manager.py) over SessionStore              *)
(* (core/session/store.py): concurrent session.* handlers share sessions,  *)
(* each guarded by a lock that handlers test before they take it and hold  *)
(* across awaits.  A run is one await here; module Conversation opens it.  *)
(*                                                                         *)
(* A handler is a request.  It stops at its awaits only (publishing an     *)
(* event, the run, the summary of the LLM); the pc names the await.        *)
(***************************************************************************)
EXTENDS Naturals, Sequences, SequencesExt, FiniteSets

CONSTANTS Sessions,    \* session ids: random, hence used once
          Requests,    \* invocations of the handlers
          Free         \* nobody holds the lock

ASSUME SessionAssumption == Free \notin Requests

VARIABLES
    session,   \* _sessions: the sessions in memory
    lock,      \* _locks: Free or the request that holds the lock
    pc,        \* the await a request stopped at
    target,    \* the session it is for
    snapshot,  \* what compact() read before it asked the LLM
    meta,      \* meta.json of each session, Torn if a save broke off
    thread,    \* thread.jsonl of each session
    backup     \* what its thread_<ts>.jsonl.bak files hold

memory == <<session, lock, pc, target, snapshot>>
disk   == <<meta, thread, backup>>
sessionVars == <<memory, disk>>

Absent == [status |-> "absent"]
Torn   == [status |-> "torn"]   \* cut off by write_text, or half written
Modes == {"one_shot", "chat"}
Statuses == {"active", "waiting_for_input", "closed"}
Session == [mode : Modes, status : Statuses, runs : SUBSET Requests]

\* Awaits inside `async with lock`, and those of an exchange among them.
Exchanging == {"receiving", "invoking", "running"}
Awaits == Exchanging \cup {"resuming", "settling", "closing", "compacting"}

\* A row is a user's message, the messages a run added, or a summary; it is
\* represented by what can be learned from it.
Items == Requests \X {"user", "run"}
ItemsOf(rows) == UNION Range(rows)

SessionTypeOK ==
    /\ session \in [Sessions -> Session \cup {Absent}]
    /\ lock \in [Sessions -> Requests \cup {Free}]
    /\ pc \in [Requests -> Awaits \cup {"idle", "done", "failed"}]
    /\ target \in [Requests -> Sessions]
    /\ snapshot \in [Requests -> SUBSET Items]
    /\ meta \in [Sessions -> Session \cup {Absent, Torn}]
    /\ \A s \in Sessions : \A i \in DOMAIN thread[s] : thread[s][i] \subseteq Items
    /\ backup \in [Sessions -> SUBSET Items]

SessionInit ==
    /\ session = [s \in Sessions |-> Absent]
    /\ lock = [s \in Sessions |-> Free]
    /\ pc = [q \in Requests |-> "idle"]
    /\ target \in [Requests -> Sessions]
    /\ snapshot = [q \in Requests |-> {}]
    /\ meta = [s \in Sessions |-> Absent]
    /\ thread = [s \in Sessions |-> <<>>]
    /\ backup = [s \in Sessions |-> {}]

-----------------------------------------------------------------------------

GoTo(q, await) == pc' = [pc EXCEPT ![q] = await]
Acquire(q) == lock' = [lock EXCEPT ![target[q]] = q]
Release(q) == lock' = [lock EXCEPT ![target[q]] = Free]
Store(q, row) == thread' = [thread EXCEPT ![target[q]] = Append(@, row)]
Known(q) == session[target[q]] # Absent
Status(q) == session[target[q]].status

\* write_meta() opens meta.json for writing, which empties it, and writes what
\* is in memory by then.  It raises before that (no such directory, no handle)
\* or after it (no space).
Saves(s) == meta' = [meta EXCEPT ![s] = session'[s]]
SaveFails(s) == UNCHANGED meta \/ meta' = [meta EXCEPT ![s] = Torn]

\* Session ids are random: none is used twice.
FreshId(s) ==
    session[s] = Absent /\ meta[s] = Absent /\ thread[s] = <<>> /\ backup[s] = {}

-----------------------------------------------------------------------------
(* Slips in this code that the properties below must notice; SessionNext    *)
(* uses none of them.                                                       *)

CreateUnnamed(s, mode) ==
    /\ FreshId(s)
    /\ session' = [session EXCEPT ![s] =
                     [mode |-> mode, status |-> "created", runs |-> {}]]
    /\ Saves(s)
    /\ UNCHANGED <<lock, pc, target, snapshot, thread, backup>>

SendMessageUnchecked(q) ==
    /\ pc[q] = "idle"
    /\ Known(q)
    /\ Status(q) # "closed"
    /\ Acquire(q)
    /\ IF Status(q) = "waiting_for_input"
       THEN GoTo(q, "resuming") /\ UNCHANGED thread
       ELSE GoTo(q, "receiving") /\ Store(q, {<<q, "user">>})
    /\ UNCHANGED <<session, target, snapshot, meta, backup>>

BookInMemory(q) ==
    /\ pc[q] = "receiving"
    /\ session' = [session EXCEPT ![target[q]].runs = @ \cup {q}]
    /\ GoTo(q, "running")
    /\ UNCHANGED <<lock, target, snapshot, disk>>

CloseUnchecked(q) ==
    /\ pc[q] = "idle"
    /\ Known(q)
    /\ session' = [session EXCEPT ![target[q]].status = "closed"]
    /\ Saves(target[q]) /\ Acquire(q) /\ GoTo(q, "closing")
    /\ UNCHANGED <<target, snapshot, thread, backup>>

CompactUnlocked(q) ==
    /\ pc[q] = "idle"
    /\ Known(q) /\ lock[target[q]] = Free
    /\ snapshot' = [snapshot EXCEPT ![q] = ItemsOf(thread[target[q]])]
    /\ GoTo(q, "compacting")
    /\ UNCHANGED <<session, lock, target, disk>>

MoveAwayInPlace(q, rows) ==
    /\ thread' = [thread EXCEPT ![target[q]] = rows]
    /\ UNCHANGED backup

AbandonLocked(q) ==
    /\ pc[q] \in Awaits
    /\ GoTo(q, "failed")
    /\ UNCHANGED <<session, lock, target, snapshot, disk>>

-----------------------------------------------------------------------------

\* create(): agent.run makes one-shot sessions, session.create either kind.
\* The session stays in memory if the save raises.
Create(s, mode) ==
    /\ FreshId(s)
    /\ session' = [session EXCEPT ![s] =
                     [mode |-> mode, status |-> "active", runs |-> {}]]
    /\ Saves(s) \/ SaveFails(s)
    /\ UNCHANGED <<lock, pc, target, snapshot, thread, backup>>

\* Every handler answers with an error if the session is unknown or busy;
\* send_message also if it is closed.
Refuse(q) ==
    /\ pc[q] = "idle"
    /\ ~Known(q) \/ lock[target[q]] # Free \/ Status(q) = "closed"
    /\ GoTo(q, "failed")
    /\ UNCHANGED <<session, lock, target, snapshot, disk>>

-----------------------------------------------------------------------------
(* send_message                                                            *)

SendMessage(q) ==
    /\ pc[q] = "idle"
    /\ Known(q) /\ lock[target[q]] = Free
    /\ Status(q) # "closed"
    /\ Acquire(q)
    /\ IF Status(q) = "waiting_for_input"
       THEN GoTo(q, "resuming") /\ UNCHANGED thread
       ELSE GoTo(q, "receiving") /\ Store(q, {<<q, "user">>})
    /\ UNCHANGED <<session, target, snapshot, meta, backup>>

Resumed(q) ==
    /\ pc[q] = "resuming"
    /\ GoTo(q, "receiving")
    /\ Store(q, {<<q, "user">>})
    /\ UNCHANGED <<session, lock, target, snapshot, meta, backup>>

\* The run is booked, on disk too, before it starts.  If the save raises it
\* does not start, and is in memory only; a message "/" makes the parsing of
\* the skill name fail after the save.
Book(q) ==
    /\ pc[q] = "receiving"
    /\ session' = [session EXCEPT ![target[q]].runs = @ \cup {q}]
    /\ \/ /\ Saves(target[q])
          /\ GoTo(q, "invoking") \/ GoTo(q, "running")
          /\ UNCHANGED lock
       \/ /\ Saves(target[q]) \/ SaveFails(target[q])
          /\ GoTo(q, "failed") /\ Release(q)
    /\ UNCHANGED <<target, snapshot, thread, backup>>

Invoked(q) ==
    /\ pc[q] = "invoking"
    /\ GoTo(q, "running")
    /\ UNCHANGED <<session, lock, target, snapshot, disk>>

\* Failed runs end like successful ones.
RunEnds(q) ==
    /\ pc[q] = "running"
    /\ Store(q, {<<q, "run">>})
    /\ session' = [session EXCEPT ![target[q]].status =
                     IF session[target[q]].mode = "one_shot"
                     THEN "closed" ELSE "waiting_for_input"]
    /\ GoTo(q, "settling")
    /\ UNCHANGED <<lock, target, snapshot, meta, backup>>

\* A cancelled run still stores its messages.
RunCancelled(q) ==
    /\ pc[q] = "running"
    /\ Store(q, {<<q, "run">>})
    /\ Release(q) /\ GoTo(q, "failed")
    /\ UNCHANGED <<session, target, snapshot, meta, backup>>

Settle(q) ==
    /\ pc[q] = "settling"
    /\ UNCHANGED session
    /\ \/ Saves(target[q]) /\ GoTo(q, "done")
       \/ SaveFails(target[q]) /\ GoTo(q, "failed")
    /\ Release(q)
    /\ UNCHANGED <<target, snapshot, thread, backup>>

-----------------------------------------------------------------------------
(* close and compact                                                       *)

\* The session is closed in memory first, and stays so if the save raises.
Close(q) ==
    /\ pc[q] = "idle"
    /\ Known(q) /\ lock[target[q]] = Free
    /\ session' = [session EXCEPT ![target[q]].status = "closed"]
    /\ \/ Saves(target[q]) /\ Acquire(q) /\ GoTo(q, "closing")
       \/ SaveFails(target[q]) /\ GoTo(q, "failed") /\ UNCHANGED lock
    /\ UNCHANGED <<target, snapshot, thread, backup>>

Closed(q) ==
    /\ pc[q] = "closing"
    /\ Release(q) /\ GoTo(q, "done")
    /\ UNCHANGED <<session, target, snapshot, disk>>

Compact(q) ==
    /\ pc[q] = "idle"
    /\ Known(q) /\ lock[target[q]] = Free
    /\ Acquire(q)
    /\ snapshot' = [snapshot EXCEPT ![q] = ItemsOf(thread[target[q]])]
    /\ GoTo(q, "compacting")
    /\ UNCHANGED <<session, target, disk>>

\* write_compacted() renames the thread away and writes a new one.  Two
\* compactions within a second would use the same name; that is left out.
MoveAway(q, rows) ==
    /\ backup' = [backup EXCEPT ![target[q]] = @ \cup ItemsOf(thread[target[q]])]
    /\ thread' = [thread EXCEPT ![target[q]] = rows]

Compacted(q) ==
    /\ pc[q] = "compacting"
    /\ MoveAway(q, <<snapshot[q]>>)
    /\ Release(q) /\ GoTo(q, "done")
    /\ UNCHANGED <<session, target, snapshot, meta>>

\* The new file cannot be opened.
CompactTorn(q) ==
    /\ pc[q] = "compacting"
    /\ MoveAway(q, <<>>)
    /\ Release(q) /\ GoTo(q, "failed")
    /\ UNCHANGED <<session, target, snapshot, meta>>

-----------------------------------------------------------------------------
(* Failures                                                                *)

\* The await raises or is cancelled: `async with` releases the lock and the
\* rest of the handler does not happen.
Abandon(q) ==
    /\ pc[q] \in Awaits
    /\ Release(q) /\ GoTo(q, "failed")
    /\ UNCHANGED <<session, target, snapshot, disk>>

Vanish ==
    /\ session' = [s \in Sessions |-> Absent]
    /\ lock' = [s \in Sessions |-> Free]
    /\ pc' = [q \in Requests |-> IF pc[q] \in Awaits THEN "failed" ELSE pc[q]]
    /\ UNCHANGED <<target, snapshot>>

\* The daemon dies and restarts; it never reads the sessions back.
Crash == Vanish /\ UNCHANGED disk

CrashInCompaction(q) ==
    pc[q] = "compacting" /\ MoveAway(q, <<>>) /\ UNCHANGED meta /\ Vanish

\* It dies between the two halves of a save: of a new session, by Book or
\* Settle, or by Close.
Saving(s) ==
    \/ FreshId(s)
    \/ \E q \in Requests :
          /\ target[q] = s
          /\ \/ pc[q] \in {"receiving", "settling"}
             \/ pc[q] = "idle" /\ Known(q) /\ lock[s] = Free

CrashInSave(s) ==
    /\ Saving(s)
    /\ meta' = [meta EXCEPT ![s] = Torn]
    /\ Vanish
    /\ UNCHANGED <<thread, backup>>

-----------------------------------------------------------------------------

Finish(q) ==
    \/ Resumed(q) \/ Book(q) \/ Invoked(q) \/ RunEnds(q)
    \/ Settle(q) \/ Closed(q) \/ Compacted(q)

Break(q) ==
    RunCancelled(q) \/ CompactTorn(q) \/ Abandon(q) \/ CrashInCompaction(q)

SessionNext ==
    \/ \E s \in Sessions :
          CrashInSave(s) \/ \E mode \in Modes : Create(s, mode)
    \/ \E q \in Requests :
          \/ Refuse(q) \/ SendMessage(q) \/ Close(q) \/ Compact(q)
          \/ Finish(q) \/ Break(q)
    \/ Crash

\* Events are delivered, the LLM answers, and a run ends: its loop is bounded
\* by max_steps (see Conversation) and a tool by its time limit.
SessionFairness == \A q \in Requests : WF_sessionVars(Finish(q))

SessionSpec == SessionInit /\ [][SessionNext]_sessionVars /\ SessionFairness

-----------------------------------------------------------------------------
(* Properties                                                              *)

\* The messages of a run stand directly behind the message they answer,
\* whatever other clients did to the session while the run was going on: the
\* thread reads as a conversation, and no summary comes between.
ExchangesWhole ==
    \A s \in Sessions : \A i \in DOMAIN thread[s], q \in Requests :
        thread[s][i] = {<<q, "run">>} =>
            i > 1 /\ <<q, "user">> \in thread[s][i - 1]

\* What was said in a session and can still be read.
SaidIn(s) == ItemsOf(thread[s]) \cup backup[s]

\* meta.json keeps up with what it is read for, as far as it can be read at
\* all: a save that broke off leaves it torn until the next one.  A run that
\* left messages is listed in it, so that its directory of events can be found
\* from the session, also after a crash or after a save that raised; and it
\* calls no session closed that still takes messages.  (It may call one open
\* that is closed: close() and send_message set the status before they save.)
RunsRecorded ==
    \A s \in Sessions, q \in Requests :
        <<q, "run">> \in SaidIn(s) =>
            \/ meta[s] = Torn
            \/ meta[s] # Absent /\ q \in meta[s].runs

ClosedForGood ==
    \A s \in Sessions :
        meta[s].status = "closed" =>
            session[s] = Absent \/ session[s].status = "closed"

MetaKeepsUp == RunsRecorded /\ ClosedForGood

\* A summary replaces nothing it does not cover: between the moment compact()
\* reads the thread and the moment it overwrites it the LLM is asked, and what
\* other handlers might have said meanwhile must not fall out of the context.
SummaryIsCurrent ==
    [][\A q \in Requests :
          pc[q] = "compacting" /\ pc'[q] = "done" =>
              ItemsOf(thread[target[q]]) \subseteq ItemsOf(thread'[target[q]])]_sessionVars

\* A session does not stay busy: whatever fails, the lock is given back and a
\* later session.send_message is not refused for ever.
BusyEnds == \A s \in Sessions : lock[s] # Free ~> lock[s] = Free

\* A session as Dialogue sees it.
PhaseOf(s) ==
    CASE session[s] = Absent -> "absent"
      [] session[s] # Absent /\ session[s].status = "closed" -> "closed"
      [] session[s] # Absent /\ session[s].status # "closed" -> "open"

TurnOf(s) == {q \in Requests : target[q] = s /\ pc[q] \in Exchanging}

Talk == INSTANCE Dialogue WITH
          phase <- [s \in Sessions |-> PhaseOf(s)],
          turn  <- [s \in Sessions |-> TurnOf(s)],
          said  <- [s \in Sessions |-> SaidIn(s)]

\* The manager implements the promise of Dialogue: exchanges do not overlap,
\* none takes place in a closed session, and what was said can still be read in
\* the thread, in a summary that covers it or in a backup.
ImplementsDialogue == Talk!DialogueSpec
=============================================================================
