------------------------------ MODULE TaskBoard ------------------------------
(***************************************************************************)
(* The task board of one agent: TaskManager (core/task/manager.py) behind  *)
(* the tools task_create, task_update, task_get and task_list.  A board is *)
(* a directory of task files.  Each run and each sub-agent has a fresh     *)
(* one; ids are given out from 1 and files are never deleted, so a board   *)
(* is a sequence: task i is task_i.json, and the next id is one more than  *)
(* its length.  Every operation is synchronous.                            *)
(***************************************************************************)
EXTENDS Integers, Sequences

CONSTANTS MaxTasks    \* bound: tasks on the board

ASSUME TaskBoardAssumption == MaxTasks \in Nat

VARIABLE board

TaskStatus == {"pending", "in_progress", "completed"}

\* add_blocked_by is not validated: a dependency may be any number.
Task == [status : TaskStatus, blockedBy : SUBSET Nat]

BoardTypeOK == board \in Seq(Task)

BoardInit == board = <<>>

-----------------------------------------------------------------------------
(* A slip in this code that CompletionsFree must notice: only tasks that    *)
(* were in progress are looked for in the other files.                      *)

ClearedIfStarted(t) ==
    IF board[t].status # "in_progress" THEN board
    ELSE [u \in DOMAIN board |-> [board[u] EXCEPT !.blockedBy = @ \ {t}]]

-----------------------------------------------------------------------------

\* create(): dependencies must exist; they may be completed already.
TaskCreate(deps) ==
    /\ Len(board) < MaxTasks
    /\ deps \subseteq DOMAIN board
    /\ board' = Append(board, [status |-> "pending", blockedBy |-> deps])

\* _clear_dependency(): t is taken out of every file, its own included.
Cleared(t) == [u \in DOMAIN board |-> [board[u] EXCEPT !.blockedBy = @ \ {t}]]

\* update(): the task is read before the files are cleared and written after
\* it.  "keep" stands for an update without a status.
TaskUpdate(t, status, add, remove) ==
    /\ t \in DOMAIN board
    /\ LET others == IF status = "completed" THEN Cleared(t) ELSE board
       IN  board' = [others EXCEPT ![t] =
                [status    |-> IF status = "keep" THEN board[t].status
                               ELSE status,
                 blockedBy |-> (board[t].blockedBy \cup add) \ remove]]

\* get() and list_all(), which the LLM uses to see what it may start next.
TaskGet(t) == t \in DOMAIN board /\ UNCHANGED board

\* A number may be named as a dependency before its task exists.
BoardNext ==
    \/ \E deps \in SUBSET (1 .. MaxTasks) : TaskCreate(deps)
    \/ \E t \in 1 .. MaxTasks, s \in TaskStatus \cup {"keep"},
          add, remove \in SUBSET (1 .. MaxTasks) : TaskUpdate(t, s, add, remove)
    \/ \E t \in 1 .. MaxTasks : TaskGet(t)

BoardSpec == BoardInit /\ [][BoardNext]_board

-----------------------------------------------------------------------------

\* Task t waits for a task that is completed, which no completion will undo.
Stale(b, t, u) ==
    /\ t \in DOMAIN b /\ u \in DOMAIN b
    /\ u \in b[t].blockedBy
    /\ b[u].status = "completed"

\* Completing a task leaves no other task behind that waits for it: a task
\* comes to wait for a completed one only by naming it when it is completed
\* already, or when it depends on itself.
FreesWaiting ==
    \A t, u \in DOMAIN board' :
        t # u /\ Stale(board', t, u) =>
            u \in DOMAIN board /\ board[u].status = "completed"

CompletionsFree == [][FreesWaiting]_board
=============================================================================
