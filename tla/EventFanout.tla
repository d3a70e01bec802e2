---------------------------- MODULE EventFanout -----------------------------
(***************************************************************************)
(* The daemon's one EventBus (core/events/bus.py) carries the events of    *)
(* all runs: to the broadcaster, which writes them to the subscribed       *)
(* connections one after the other (core/transport/ipc_broadcaster.py),    *)
(* and then to the events.jsonl of every run that is going on              *)
(* (core/events/writer.py).  Connections subscribe, with or without a      *)
(* replay of a run's file (core/app.py), and go away                       *)
(* (core/transport/socket_server.py).  Runs are cancelled at any time: at  *)
(* shutdown, or a sub-agent by the time limit of the call it serves.       *)
(*                                                                         *)
(* The broadcaster comes before the files and is the only handler that     *)
(* awaits: draining a connection is where publishers overtake each other.  *)
(* The order of the broadcaster's list is left open: subscriptions are     *)
(* served one after the other, in any order.  Runs count their events:     *)
(* which of them comes last is settled when the run is cancelled.          *)
(***************************************************************************)
EXTENDS Naturals, Sequences, Functions

CONSTANTS Runs,         \* run ids
          Connections,  \* client connections
          Scopes,       \* sets of runs a client may ask for the events of
          Final,        \* the number of events of each run: run.finished is the last
          Refused       \* Bound: events that files may refuse

ASSUME FanoutAssumption ==
    /\ Scopes \subseteq (SUBSET Runs) \ {{}}
    /\ Final \in [Runs -> Nat \ {0, 1}]

VARIABLES
    published,     \* events each run has begun to publish
    last,          \* the number of the event each run ends with
    draining,      \* the subscription whose drain its broadcast awaits
    targets,       \* subscriptions its event is still to be written to
    dead,          \* connections found dead while it was broadcast
    writers,       \* runs whose EventWriter is subscribed and open
    file,          \* events.jsonl of each run
    subscriptions, \* the broadcaster's table
    replaying,     \* subscribe requests that await the end of their replay
    up,            \* connections that are open
    stream,        \* events written to each connection
    \* Kept for the properties:
    cut,           \* events whose broadcast was cancelled
    unwritten      \* events their own run's file refused

busVars == <<published, last, draining, targets, dead, writers, file>>
clientVars == <<replaying, up>>
lossVars == <<cut, unwritten>>
fanoutVars == <<busVars, subscriptions, clientVars, stream, lossVars>>

\* since: the events begun when the subscription was made, kept for the
\* properties.  Topics and scope are the set of runs they let through.
Subscription == [conn : Connections, scope : Scopes, since : [Runs -> Nat]]
NoRequest == [scope |-> {}]
NoTarget  == [conn |-> {}]
Events == {e \in Runs \X Nat : e[2] \in 1 .. Final[e[1]]}

Broadcasting(r) == draining[r] # NoTarget
Ended(r) == published[r] = last[r] /\ ~Broadcasting(r)
Event(r) == <<r, published[r]>>

FanoutTypeOK ==
    /\ published \in [Runs -> Nat] /\ last \in [Runs -> Nat]
    /\ \A r \in Runs : published[r] <= last[r] /\ last[r] <= Final[r]
    /\ draining \in [Runs -> Subscription \cup {NoTarget}]
    /\ targets \in [Runs -> SUBSET Subscription]
    /\ dead \in [Runs -> SUBSET Connections]
    /\ writers \subseteq Runs
    /\ file \in [Runs -> Seq(Events)] /\ stream \in [Connections -> Seq(Events)]
    /\ subscriptions \subseteq Subscription
    /\ replaying \in [Connections -> [scope : Scopes] \cup {NoRequest}]
    /\ up \subseteq Connections
    /\ cut \subseteq Events /\ unwritten \subseteq Events

RunsInit ==
    /\ published = [r \in Runs |-> 0]
    /\ last = Final
    /\ draining = [r \in Runs |-> NoTarget]
    /\ targets = [r \in Runs |-> {}]
    /\ dead = [r \in Runs |-> {}]
    /\ writers = {}
    /\ file = [r \in Runs |-> <<>>]
    /\ cut = {} /\ unwritten = {}

ClientsInit ==
    /\ replaying = [c \in Connections |-> NoRequest]
    /\ up = Connections
    /\ stream = [c \in Connections |-> <<>>]

FanoutInit == RunsInit /\ ClientsInit /\ subscriptions = {}

-----------------------------------------------------------------------------
(* Publishing                                                              *)

\* Everything the broadcaster does between two drains: one of rest is written
\* to.  A connection that is gone swallows what it is sent.
Push(r, e, rest) ==
    \E sub \in rest :
        /\ draining' = [draining EXCEPT ![r] = sub]
        /\ targets' = [targets EXCEPT ![r] = rest \ {sub}]
        /\ stream' = IF sub.conn \in up
                     THEN [stream EXCEPT ![sub.conn] = Append(@, e)]
                     ELSE stream

\* unsubscribe()
WithoutAny(C) == {sub \in subscriptions : sub.conn \notin C}

\* The broadcast is left: dead connections are dropped.
Leave(r, gone) ==
    /\ draining' = [draining EXCEPT ![r] = NoTarget]
    /\ targets' = [targets EXCEPT ![r] = {}]
    /\ dead' = [dead EXCEPT ![r] = {}]
    /\ subscriptions' = WithoutAny(gone)

\* The files of some runs miss a line when the disk refuses it: handle() logs
\* that and goes on.
Lines(r, e, open) ==
    \E refusing \in SUBSET {q \in open : e \in Refused} :
        /\ file' = [q \in Runs |-> IF q \in open \ refusing
                                   THEN Append(file[q], e) ELSE file[q]]
        /\ unwritten' = IF r \in refusing THEN unwritten \cup {e} ELSE unwritten

\* A slip: the file is closed before run.finished is published.
WriteAfterClose(r, e, gone) ==
    /\ Leave(r, gone)
    /\ Lines(r, e, writers')

\* The broadcast is over: the writers the bus has by now append the event
\* without another await.  run.finished comes last, its run closes the file
\* right after.
Write(r, e, gone) ==
    /\ Leave(r, gone)
    /\ Lines(r, e, writers' \cup writers)

Matching(r) == {sub \in subscriptions : r \in sub.scope}

\* r's file is open after its event n, unless that is its last.
WritersAfter(r, n) == IF n = last[r] THEN writers \ {r} ELSE writers \cup {r}

\* A run opens its file before run.started and publishes one event at a time.
Publish(r) ==
    /\ published[r] < last[r] /\ ~Broadcasting(r)
    /\ published' = [published EXCEPT ![r] = @ + 1]
    /\ IF Matching(r) = {}
       THEN /\ writers' = WritersAfter(r, Event(r)'[2])
            /\ Write(r, Event(r)', {})
            /\ UNCHANGED stream
       ELSE /\ writers' = writers \cup {r}
            /\ Push(r, Event(r)', Matching(r))
            /\ UNCHANGED <<dead, file, subscriptions, unwritten>>
    /\ UNCHANGED <<last, cut, clientVars>>

\* Two slips: the loop over the subscriptions ends at the first dead one; the
\* connection is lost without drain() noticing.
DrainedUntilDead(r) ==
    /\ Broadcasting(r)
    /\ LET c == draining[r].conn
       IN  IF targets[r] # {} /\ c \in up
           THEN /\ Push(r, Event(r), targets[r])
                /\ UNCHANGED <<dead, writers, file, subscriptions, unwritten>>
           ELSE /\ writers' = WritersAfter(r, published[r])
                /\ Write(r, Event(r), {c} \ up)
                /\ UNCHANGED stream
    /\ UNCHANGED <<published, last, cut, clientVars>>

DrainedWhileUp(r) ==
    /\ Broadcasting(r)
    /\ draining[r].conn \in up
    /\ IF targets[r] # {}
       THEN /\ Push(r, Event(r), targets[r])
            /\ UNCHANGED <<dead, writers, file, subscriptions, unwritten>>
       ELSE /\ writers' = WritersAfter(r, published[r])
            /\ Write(r, Event(r), {})
            /\ UNCHANGED stream
    /\ UNCHANGED <<published, last, cut, clientVars>>

\* drain() returned, or raised because the connection is lost.
Drained(r) ==
    /\ Broadcasting(r)
    /\ LET c    == draining[r].conn
           gone == IF c \in up THEN dead[r] ELSE dead[r] \cup {c}
       IN  IF targets[r] # {}
           THEN /\ Push(r, Event(r), targets[r])
                /\ dead' = [dead EXCEPT ![r] = gone]
                /\ UNCHANGED <<writers, file, subscriptions, unwritten>>
           ELSE /\ writers' = WritersAfter(r, published[r])
                /\ Write(r, Event(r), gone)
                /\ UNCHANGED stream
    /\ UNCHANGED <<published, last, cut, clientVars>>

\* Only what stands between run.started and run.finished is in the try: a run
\* cancelled there publishes run.finished yet, a run cancelled anywhere else
\* publishes nothing any more.
LastOfCancelled(r) ==
    IF published[r] = 0 \/ (Broadcasting(r) /\ published[r] \in {1, last[r]})
    THEN published[r] ELSE published[r] + 1

\* The task of a run is cancelled.  In a broadcast the CancelledError is
\* raised by drain(): who comes later in the loop is not written to, dead
\* connections stay in the table, and the bus never calls the writers.
Cancel(r) ==
    /\ ~Ended(r)
    /\ last' = [last EXCEPT ![r] = LastOfCancelled(r)]
    /\ writers' = IF last'[r] = published[r] THEN writers \ {r} ELSE writers
    /\ cut' = IF Broadcasting(r) THEN cut \cup {Event(r)} ELSE cut
    /\ Leave(r, {})
    /\ UNCHANGED <<published, file, unwritten, stream, clientVars>>

-----------------------------------------------------------------------------
(* Subscribing                                                             *)

\* A slip: the request is parsed to a scope that matches nothing.
RegisterNothing(c, scope) ==
    subscriptions' = subscriptions \cup
                        {[conn |-> c, scope |-> {}, since |-> published]}

Register(c, scope) ==
    subscriptions' = subscriptions \cup
                        {[conn |-> c, scope |-> scope, since |-> published]}

Fresh(c) == c \in up /\ replaying[c] = NoRequest /\ stream[c] = <<>>
            /\ \A sub \in subscriptions : sub.conn # c

\* Bound: a connection sends one subscribe request.
Subscribe(c, scope) ==
    /\ Fresh(c)
    /\ Register(c, scope)
    /\ UNCHANGED <<busVars, clientVars, stream, lossVars>>

\* A slip: a subscription made before the replay, too, to close the gap.
ReplayGapless(c, r, scope) ==
    /\ Fresh(c) /\ file[r] # <<>>
    /\ Register(c, scope)
    /\ stream' = [stream EXCEPT ![c] = file[r]]
    /\ replaying' = [replaying EXCEPT ![c] = [scope |-> scope]]
    /\ UNCHANGED <<busVars, up, lossVars>>

\* With replay_from_run: what the file holds is written first, and the
\* subscription is made when that is drained.
Replay(c, r, scope) ==
    /\ Fresh(c) /\ file[r] # <<>>
    /\ stream' = [stream EXCEPT ![c] = file[r]]
    /\ replaying' = [replaying EXCEPT ![c] = [scope |-> scope]]
    /\ UNCHANGED <<busVars, subscriptions, up, lossVars>>

\* A connection closed meanwhile may let drain() return or make it raise.
Replayed(c) ==
    /\ replaying[c] # NoRequest
    /\ \/ Register(c, replaying[c].scope)
       \/ c \notin up /\ UNCHANGED subscriptions
    /\ replaying' = [replaying EXCEPT ![c] = NoRequest]
    /\ UNCHANGED <<busVars, up, stream, lossVars>>

\* _handle_connection() ends.
Disconnect(c) ==
    /\ c \in up
    /\ up' = up \ {c}
    /\ subscriptions' = WithoutAny({c})
    /\ UNCHANGED <<busVars, replaying, stream, lossVars>>

-----------------------------------------------------------------------------

FanoutNext ==
    \/ \E r \in Runs : Publish(r) \/ Drained(r) \/ Cancel(r)
    \/ \E c \in Connections :
          \/ Replayed(c) \/ Disconnect(c)
          \/ \E scope \in Scopes :
                Subscribe(c, scope) \/ \E r \in Runs : Replay(c, r, scope)

\* r awaits the drain of a connection that is lost: it raises.
DrainRaises(r) == draining[r] # NoTarget /\ draining[r].conn \notin up /\ Drained(r)

\* A run comes to its next event.  Nothing is assumed of open connections:
\* drain() has no time limit, a client that does not read holds it up.
FanoutFairness ==
    \A r \in Runs : WF_fanoutVars(Publish(r)) /\ WF_fanoutVars(DrainRaises(r))

FanoutSpec == FanoutInit /\ [][FanoutNext]_fanoutVars /\ FanoutFairness

-----------------------------------------------------------------------------
(* Properties                                                              *)

\* Of each run the events come in order, and each only once.
InOrder(s) ==
    \A i, j \in DOMAIN s : i < j /\ s[i][1] = s[j][1] => s[i][2] < s[j][2]

\* What a run has published to the end.
Done(r) == IF Broadcasting(r) THEN published[r] - 1 ELSE published[r]

\* A client sees the events of a run in order and each only once, also when it
\* has the past of a run replayed while the run goes on.
StreamInOrder == \A c \in Connections : InOrder(stream[c])

\* Whoever is subscribed gets every event of its runs but those whose broadcast
\* was cancelled: other connections that are slow, subscribe, unsubscribe or
\* die during a broadcast and other runs that are cancelled cost it none.
SubscriberComplete ==
    \A sub \in subscriptions : sub.conn \in up =>
        \A r \in sub.scope : \A k \in sub.since[r] + 1 .. Done(r) :
            <<r, k>> \in cut \/ <<r, k>> \in Range(stream[sub.conn])

\* A run's file has its events in order, from run.started to the last, but for
\* those whose broadcast was cancelled before the writers had their turn and
\* those the file itself refused.
FileComplete ==
    \A r \in Runs : Ended(r) =>
        /\ InOrder(file[r])
        /\ \A n \in 1 .. last[r] :
              <<r, n>> \in cut \cup unwritten \cup Range(file[r])

\* A run comes to its end, or it stands for ever in the drain of a connection
\* that is open: connections that are lost hold up nobody.
RunsEnd ==
    \A r \in Runs :
        <>Ended(r) \/ <>[](Broadcasting(r) /\ draining[r].conn \in up)
=============================================================================
