---------------------------- MODULE SocketClient ----------------------------
(***************************************************************************)
(* SocketClient (core/transport/socket_client.py): the one connection of a *)
(* terminal client.  send_command() registers a future and sends;          *)
(* run_event_loop() is the only reader and settles futures and hands over  *)
(* events; when the connection ends it cancels the futures it knows.       *)
(* A client that reconnects makes a new SocketClient.                      *)
(***************************************************************************)
EXTENDS Naturals, Sequences

CONSTANTS Commands,       \* the commands a client can have outstanding
          MaxConnections  \* bound: connections

ASSUME LinkAssumption == MaxConnections \in Nat

VARIABLES
    conn,         \* the connection: "none", "up", "lost" or "closed"
    connections,  \* connections made
    reader,       \* run_event_loop(): "off", "running" or "over"
    future,       \* what became of each command's future
    sent,         \* requests on their way to the daemon
    wire          \* lines on their way to the client

linkVars == <<conn, connections, reader, future, sent, wire>>

\* "stranded": registered when the loop that settles futures was over.
Settled == {"ok", "error", "cancelled", "raised"}
Futures == {"none", "waiting", "stranded"} \cup Settled

Reply(c, outcome) == [kind |-> "reply", name |-> c, about |-> outcome]
Event(t, whose)   == [kind |-> "event", name |-> t, about |-> whose]

LinkInit ==
    /\ conn = "none" /\ connections = 0 /\ reader = "off"
    /\ future = [c \in Commands |-> "none"]
    /\ sent = <<>> /\ wire = <<>>

-----------------------------------------------------------------------------

(* Slips in this code that the properties must notice.                      *)

\* the futures are forgotten, not cancelled
ForgetWaiting == future

\* one reply clears the whole table
TakenAll(c) ==
    /\ future' = [d \in Commands |-> "none"]
    /\ UNCHANGED <<conn, connections, reader, sent, wire>>

-----------------------------------------------------------------------------

\* What becomes of a command sent now.  The request is registered, written and
\* drained; on a connection that was lost the two may raise or go unnoticed.
Outcomes ==
    CASE conn = "up"                          -> {"waiting"}
      [] conn # "up" /\ reader = "running"    -> {"waiting", "raised"}
      [] conn # "up" /\ reader # "running"    -> {"stranded", "raised"}

\* send_command() up to its await
Send(c, about) ==
    /\ \E o \in Outcomes : future' = [future EXCEPT ![c] = o]
    /\ sent' = IF conn = "up" THEN Append(sent, [name |-> c, about |-> about])
               ELSE sent
    /\ UNCHANGED <<conn, connections, reader, wire>>

\* connect(), the task of run_event_loop() and the first command.
Open(c) ==
    /\ conn \in {"none", "closed"} /\ connections < MaxConnections
    /\ conn' = "up" /\ reader' = "running"
    /\ connections' = connections + 1
    /\ future' = [future EXCEPT ![c] = "waiting"]
    /\ sent' = <<[name |-> c, about |-> "none"]>>
    /\ wire' = <<>>

\* The waiter of command c goes on.
Taken(c) ==
    /\ future' = [future EXCEPT ![c] = "none"]
    /\ UNCHANGED <<conn, connections, reader, sent, wire>>

\* _dispatch() of a response
DispatchReply ==
    /\ reader = "running" /\ wire # <<>> /\ Head(wire).kind = "reply"
    /\ future' = [future EXCEPT ![Head(wire).name] =
                      IF @ = "waiting" THEN Head(wire).about ELSE @]
    /\ wire' = Tail(wire)
    /\ UNCHANGED <<conn, connections, reader, sent>>

\* _dispatch() of an event of type t: the handlers belong to the client.
DispatchEvent(t) ==
    /\ reader = "running" /\ wire # <<>>
    /\ Head(wire).kind = "event" /\ Head(wire).name = t
    /\ wire' = Tail(wire)
    /\ UNCHANGED <<conn, connections, reader, future, sent>>

\* The finally clause of run_event_loop()
CancelWaiting ==
    [c \in Commands |-> IF future[c] = "waiting" THEN "cancelled" ELSE future[c]]

\* The end of the stream, after the lines that still arrived.
LoopEnds ==
    /\ reader = "running" /\ conn = "lost" /\ wire = <<>>
    /\ reader' = "over"
    /\ future' = CancelWaiting
    /\ UNCHANGED <<conn, connections, sent, wire>>

\* The loop is cancelled if it still runs, and the connection closed.  c is
\* the command that is taken, if any.
CloseTaking(c) ==
    /\ conn' = "closed"
    /\ reader' = "over"
    /\ future' = [d \in Commands |->
                     CASE d = c                        -> "none"
                       [] d # c /\ reader = "running"  -> CancelWaiting[d]
                       [] d # c /\ reader # "running"  -> future[d]]
    /\ sent' = <<>> /\ wire' = <<>>
    /\ UNCHANGED connections

\* The client's process ends.
Exit ==
    /\ conn' = "closed" /\ reader' = "over"
    /\ future' = [c \in Commands |-> "none"]
    /\ sent' = <<>> /\ wire' = <<>>
    /\ UNCHANGED connections

\* The connection breaks, or the daemon goes away: of the lines on their way
\* the first few arrive.
Break ==
    /\ conn = "up"
    /\ conn' = "lost"
    /\ sent' = <<>>
    /\ \E n \in 0 .. Len(wire) : wire' = SubSeq(wire, 1, n)
    /\ UNCHANGED <<connections, reader, future>>
=============================================================================
