-------------------------------- MODULE Trace --------------------------------
(***************************************************************************)
(* TraceWriter (core/trace/writer.py): anybody puts records in a queue; a  *)
(* task of its own writes them to the file, one by one.  A write that      *)
(* fails ends that task, and nobody notices.                               *)
(***************************************************************************)
EXTENDS Sequences

VARIABLES pending,  \* the queue
          saved,    \* records in the file
          drain     \* the draining task

traceVars == <<pending, saved, drain>>

TraceInit == pending = <<>> /\ saved = {} /\ drain = "running"

\* emit(), of several records in one step
Emit(records) ==
    /\ pending' = pending \o records
    /\ UNCHANGED <<saved, drain>>

\* get() and write: nothing is awaited between the two.
Write ==
    /\ drain = "running" /\ pending # <<>>
    /\ saved' = saved \cup {Head(pending)}
    /\ pending' = Tail(pending)
    /\ UNCHANGED drain

\* The record is lost, though it counts as done.
WriteFails ==
    /\ drain = "running" /\ pending # <<>>
    /\ drain' = "dead"
    /\ pending' = Tail(pending)
    /\ UNCHANGED saved

\* A slip in this code: the task is cancelled without waiting for the queue.
StopTracingNow ==
    /\ drain' = IF drain = "running" THEN "stopped" ELSE drain
    /\ UNCHANGED <<pending, saved>>

\* stop(): join() returns when everything put in the queue has been taken out.
StopTracing ==
    /\ pending = <<>>
    /\ drain' = IF drain = "running" THEN "stopped" ELSE drain
    /\ UNCHANGED <<pending, saved>>
=============================================================================
