------------------------- MODULE EventFanoutProofs --------------------------
(***************************************************************************)
(* Proofs about the event fan-out, for any number of runs, events and      *)
(* connections.                                                            *)
(*                                                                         *)
(* The argument: whoever waits in a broadcast has not been sent its event  *)
(* yet, nor has any file; and a connection that waits there and is open    *)
(* is subscribed, once.  A cancelled broadcast only ends the waiting.      *)
(***************************************************************************)
EXTENDS EventFanout, TLAPS, SequenceTheorems

-----------------------------------------------------------------------------
(* The invariant                                                           *)

\* A run's writer is open from its first event to its last.
Pace ==
    \A r \in Runs :
        /\ ~Broadcasting(r) => targets[r] = {}
        /\ Broadcasting(r) => published[r] > 0
        /\ r \in writers <=> published[r] > 0 /\ ~Ended(r)
        /\ published[r] = 0 => last[r] \in {0, Final[r]}

\* A connection is subscribed once at most, and not while it is replayed to;
\* a broadcast reaches an open connection through its subscription only.
Once(S) == \A s, t \in S : s.conn = t.conn => s = t

Subscribed ==
    /\ Once(subscriptions)
    /\ \A s \in subscriptions : replaying[s.conn] = NoRequest
    /\ \A s \in subscriptions, r \in Runs : s.since[r] <= published[r]
    /\ \A r \in Runs :
          /\ Once(targets[r])
          /\ \A s \in targets[r] : s.conn \in up => s \in subscriptions
          /\ dead[r] \cap up = {}

\* Files hold what has been published to the end, but for what was lost.
Written ==
    \A q \in Runs :
        /\ InOrder(file[q])
        /\ \A e \in Range(file[q]) : e[2] <= Done(e[1])
        /\ \A n \in 1 .. Done(q) : <<q, n>> \in cut \cup unwritten \cup Range(file[q])

\* Streams hold what has been published, too, but for those who still wait.
Sent ==
    /\ StreamInOrder
    /\ \A c \in Connections : \A e \in Range(stream[c]) : e[2] <= published[e[1]]
    /\ \A r \in Runs : \A s \in targets[r] : s.conn \in up =>
          \A e \in Range(stream[s.conn]) : e[1] = r => e[2] < published[r]

\* A subscriber has been sent the event of a broadcast, or is waiting for it.
Served ==
    /\ SubscriberComplete
    /\ \A r \in Runs : Broadcasting(r) =>
          \A s \in subscriptions :
              s.conn \in up /\ r \in s.scope /\ s.since[r] < published[r] =>
                  s \in targets[r] \/ <<r, published[r]>> \in Range(stream[s.conn])

FanInv == FanoutTypeOK /\ Pace /\ Subscribed /\ Written /\ Sent /\ Served

-----------------------------------------------------------------------------
(* Lemmas about sequences of events                                        *)

LEMMA Extended ==
    ASSUME NEW s \in Seq(Events), NEW e \in Events
    PROVE  /\ Append(s, e) \in Seq(Events)
           /\ Range(Append(s, e)) = Range(s) \cup {e}
<1>1. /\ Append(s, e) \in Seq(Events)
      /\ Len(Append(s, e)) = Len(s) + 1 /\ Len(s) \in Nat
      /\ Append(s, e)[Len(s) + 1] = e
      /\ \A i \in 1 .. Len(s) : Append(s, e)[i] = s[i]
      /\ DOMAIN s = 1 .. Len(s) /\ DOMAIN Append(s, e) = 1 .. Len(s) + 1
  OBVIOUS
<1>2. 1 .. Len(s) + 1 = (1 .. Len(s)) \cup {Len(s) + 1}
  BY <1>1
<1>3. Range(Append(s, e)) \subseteq Range(s) \cup {e}
  BY <1>1, <1>2 DEF Range
<1>4. Range(s) \cup {e} \subseteq Range(Append(s, e))
  BY <1>1, <1>2 DEF Range
<1> QED BY <1>1, <1>3, <1>4

LEMMA OrderExtended ==
    ASSUME NEW s \in Seq(Events), NEW e \in Events, InOrder(s),
           \A x \in Range(s) : x[1] = e[1] => x[2] < e[2]
    PROVE  InOrder(Append(s, e))
<1>1. /\ Len(Append(s, e)) = Len(s) + 1 /\ Len(s) \in Nat
      /\ Append(s, e)[Len(s) + 1] = e
      /\ \A i \in 1 .. Len(s) : Append(s, e)[i] = s[i] /\ s[i] \in Range(s)
      /\ DOMAIN s = 1 .. Len(s) /\ DOMAIN Append(s, e) = 1 .. Len(s) + 1
  BY DEF Range
<1> SUFFICES ASSUME NEW i \in 1 .. Len(s) + 1, NEW j \in 1 .. Len(s) + 1, i < j,
                    Append(s, e)[i][1] = Append(s, e)[j][1]
             PROVE  Append(s, e)[i][2] < Append(s, e)[j][2]
  BY <1>1 DEF InOrder
<1>2. i \in 1 .. Len(s)
  BY <1>1
<1>3. CASE j = Len(s) + 1
  BY <1>1, <1>2, <1>3
<1>4. CASE j \in 1 .. Len(s)
  BY <1>1, <1>2, <1>4 DEF InOrder
<1> QED BY <1>1, <1>3, <1>4

LEMMA EmptyStream == InOrder(<<>>) /\ Range(<<>>) = {} /\ <<>> \in Seq(Events)
BY DEF InOrder, Range

LEMMA NoTargetIsNone == NoTarget \notin Subscription
<1> SUFFICES ASSUME NoTarget \in Subscription PROVE FALSE
  OBVIOUS
<1>1. DOMAIN NoTarget = {"conn"}
  BY DEF NoTarget
<1>2. DOMAIN NoTarget = {"conn", "scope", "since"}
  BY DEF Subscription
<1> QED BY <1>1, <1>2

LEMMA EventOf ==
    ASSUME FanoutTypeOK, NEW r \in Runs
    PROVE  /\ published[r] > 0 => <<r, published[r]>> \in Events
           /\ published[r] < last[r] => <<r, published[r] + 1>> \in Events
BY FanoutAssumption DEF FanoutTypeOK, Events

LEMMA FanInit == FanoutInit => FanInv
<1> SUFFICES ASSUME FanoutInit PROVE FanInv
  OBVIOUS
<1> USE DEF FanoutInit, RunsInit, ClientsInit
<1>1. FanoutTypeOK
  BY FanoutAssumption, EmptyStream DEF FanoutInit, FanoutTypeOK
<1>2. \A r \in Runs : ~Broadcasting(r) /\ Done(r) = 0 /\ published[r] = 0
  BY DEF FanoutInit, Broadcasting, Done
<1>3. Pace
  BY <1>2 DEF FanoutInit, Pace
<1>4. Subscribed
  BY DEF FanoutInit, Subscribed, Once
<1>5. Written
  BY <1>2, EmptyStream DEF FanoutInit, Written
<1>6. Sent
  BY EmptyStream DEF FanoutInit, Sent, StreamInOrder
<1>7. Served
  BY <1>2 DEF FanoutInit, Served, SubscriberComplete
<1> QED BY <1>1, <1>3, <1>4, <1>5, <1>6, <1>7 DEF FanInv

-----------------------------------------------------------------------------
(* What the steps of a broadcast do                                        *)

\* Event n of run r is written to one of rest.
Pushes(r, n, rest) ==
    /\ rest # {} /\ Push(r, <<r, n>>, rest)
    /\ UNCHANGED <<file, subscriptions, unwritten>>

\* The broadcast of event n of run r ends; gone are the dead connections.
Completes(r, n, gone) ==
    /\ Write(r, <<r, n>>, gone)
    /\ UNCHANGED stream

LEMMA PublishEffect ==
    ASSUME FanoutTypeOK, NEW r \in Runs, Publish(r)
    PROVE  /\ ~Broadcasting(r) /\ published[r] < last[r]
           /\ published' = [published EXCEPT ![r] = published[r] + 1]
           /\ UNCHANGED <<replaying, up, last, cut>>
           /\ \/ /\ Matching(r) = {}
                 /\ writers' = WritersAfter(r, published[r] + 1)
                 /\ Completes(r, published[r] + 1, {})
              \/ /\ Pushes(r, published[r] + 1, Matching(r))
                 /\ writers' = writers \cup {r}
                 /\ UNCHANGED dead
<1>1. published' = [published EXCEPT ![r] = published[r] + 1]
  BY DEF Publish
<1>2. published'[r] = published[r] + 1
  BY <1>1 DEF FanoutTypeOK
<1>3. Event(r)' = <<r, published[r] + 1>>
  BY <1>2 DEF Event
<1>4. Event(r)'[2] = published[r] + 1
  BY <1>3
<1>5. CASE Matching(r) = {}
  BY <1>1, <1>3, <1>4, <1>5 DEF Publish, clientVars, Completes
<1>6. CASE Matching(r) # {}
  BY <1>1, <1>3, <1>6 DEF Publish, clientVars, Pushes
<1> QED BY <1>5, <1>6

LEMMA DrainedEffect ==
    ASSUME FanoutTypeOK, NEW r \in Runs, Drained(r)
    PROVE  /\ Broadcasting(r) /\ draining[r] \in Subscription
           /\ UNCHANGED <<published, replaying, up, last, cut>>
           /\ \E gone \in SUBSET Connections :
                 /\ dead[r] \cap up = {} => gone \cap up = {}
                 /\ \/ /\ targets[r] = {}
                       /\ writers' = WritersAfter(r, published[r])
                       /\ Completes(r, published[r], gone)
                    \/ /\ Pushes(r, published[r], targets[r])
                       /\ dead' = [dead EXCEPT ![r] = gone]
                       /\ UNCHANGED writers
<1>1. draining[r] \in Subscription /\ Broadcasting(r)
  BY DEF Drained, Broadcasting, FanoutTypeOK
<1> DEFINE c    == draining[r].conn
           gone == IF c \in up THEN dead[r] ELSE dead[r] \cup {c}
<1>2. /\ gone \in SUBSET Connections
      /\ dead[r] \cap up = {} => gone \cap up = {}
  BY <1>1 DEF FanoutTypeOK, Subscription
<1>3. CASE targets[r] = {}
  <2>1. /\ writers' = WritersAfter(r, published[r])
        /\ Completes(r, published[r], gone)
    BY <1>3 DEF Drained, Completes, Event
  <2> QED BY <1>1, <1>2, <1>3, <2>1 DEF Drained, clientVars
<1>4. CASE targets[r] # {}
  <2>1. /\ Pushes(r, published[r], targets[r])
        /\ dead' = [dead EXCEPT ![r] = gone]
        /\ UNCHANGED writers
    BY <1>4 DEF Drained, Pushes, Event
  <2> QED BY <1>1, <1>2, <2>1 DEF Drained, clientVars
<1> QED BY <1>3, <1>4

\* What is written to, and what is left to write to.
LEMMA PushEffect ==
    ASSUME FanoutTypeOK, NEW r \in Runs, NEW n, <<r, n>> \in Events,
           NEW rest \in SUBSET Subscription, Pushes(r, n, rest)
    PROVE  \E s \in rest :
              /\ s \in Subscription /\ s.conn \in Connections
              /\ draining' = [draining EXCEPT ![r] = s]
              /\ targets' = [targets EXCEPT ![r] = rest \ {s}]
              /\ stream' = [c \in Connections |->
                               IF c = s.conn /\ c \in up
                               THEN Append(stream[c], <<r, n>>) ELSE stream[c]]
<1>1. PICK s \in rest :
          /\ draining' = [draining EXCEPT ![r] = s]
          /\ targets' = [targets EXCEPT ![r] = rest \ {s}]
          /\ stream' = IF s.conn \in up
                       THEN [stream EXCEPT ![s.conn] = Append(@, <<r, n>>)]
                       ELSE stream
  BY DEF Pushes, Push
<1>2. s \in Subscription /\ s.conn \in Connections
  BY DEF Subscription
<1> QED BY <1>1, <1>2 DEF FanoutTypeOK

\* The two of them in one: run r is at its event n, to be written to the
\* subscriptions that wait for it.
Waiting(r) == IF Broadcasting(r) THEN targets[r] ELSE Matching(r)

Broadcasts(r, n) ==
    /\ n = published[r] + (IF Broadcasting(r) THEN 0 ELSE 1)
    /\ <<r, n>> \in Events /\ n <= last[r]
    /\ published' = [published EXCEPT ![r] = n]
    /\ UNCHANGED <<replaying, up, last, cut>>
    /\ \E gone \in SUBSET Connections :
          /\ gone \cap up = {}
          /\ \/ /\ Waiting(r) = {}
                /\ writers' = WritersAfter(r, n)
                /\ Completes(r, n, gone)
             \/ /\ Pushes(r, n, Waiting(r))
                /\ writers' = writers \cup {r}
                /\ dead' = [dead EXCEPT ![r] = gone]

LEMMA BroadcastStep ==
    ASSUME FanInv, NEW r \in Runs, Publish(r) \/ Drained(r)
    PROVE  \E n \in Nat : Broadcasts(r, n)
<1>1. /\ published[r] \in Nat /\ published[r] <= last[r] /\ last[r] \in Nat
      /\ dead[r] \in SUBSET Connections /\ dead[r] \cap up = {}
      /\ dead = [dead EXCEPT ![r] = dead[r]]
  BY FanoutAssumption DEF FanInv, FanoutTypeOK, Subscribed
<1>2. CASE Publish(r)
  <2> DEFINE n == published[r] + 1
  <2>1. /\ ~Broadcasting(r) /\ published[r] < last[r]
        /\ published' = [published EXCEPT ![r] = n]
        /\ UNCHANGED <<replaying, up, last, cut>>
        /\ \/ /\ Matching(r) = {}
              /\ writers' = WritersAfter(r, n)
              /\ Completes(r, n, {})
           \/ /\ Pushes(r, n, Matching(r))
              /\ writers' = writers \cup {r}
              /\ UNCHANGED dead
    BY <1>2, PublishEffect DEF FanInv
  <2>2. <<r, n>> \in Events /\ n \in Nat /\ n = published[r] + 1 /\ n <= last[r]
    <3>1. <<r, published[r] + 1>> \in Events
      BY <2>1, EventOf DEF FanInv
    <3> QED BY <1>1, <2>1, <3>1
  <2>3. Waiting(r) = Matching(r)
    BY <2>1 DEF Waiting
  <2> HIDE DEF n
  <2>4. \/ /\ Waiting(r) = {}
           /\ writers' = WritersAfter(r, n)
           /\ Completes(r, n, {})
        \/ /\ Pushes(r, n, Waiting(r))
           /\ writers' = writers \cup {r}
           /\ dead' = [dead EXCEPT ![r] = dead[r]]
    BY <1>1, <2>1, <2>3
  <2>5. \E gone \in SUBSET Connections :
          /\ gone \cap up = {}
          /\ \/ /\ Waiting(r) = {}
                /\ writers' = WritersAfter(r, n)
                /\ Completes(r, n, gone)
             \/ /\ Pushes(r, n, Waiting(r))
                /\ writers' = writers \cup {r}
                /\ dead' = [dead EXCEPT ![r] = gone]
    <3>1. CASE Waiting(r) = {} /\ Completes(r, n, {})
                /\ writers' = WritersAfter(r, n)
      <4>1. {} \in SUBSET Connections /\ {} \cap up = {}
        OBVIOUS
      <4> QED BY <3>1, <4>1
    <3>2. CASE Pushes(r, n, Waiting(r)) /\ writers' = writers \cup {r}
                /\ dead' = [dead EXCEPT ![r] = dead[r]]
      BY <1>1, <3>2
    <3> QED BY <2>4, <3>1, <3>2
  <2>6. Broadcasts(r, n)
    BY <2>1, <2>2, <2>5 DEF Broadcasts
  <2> QED BY <2>2, <2>6
<1>3. CASE Drained(r)
  <2> DEFINE n == published[r]
  <2>1. PICK gone \in SUBSET Connections :
           /\ dead[r] \cap up = {} => gone \cap up = {}
           /\ \/ /\ targets[r] = {}
                 /\ writers' = WritersAfter(r, n)
                 /\ Completes(r, n, gone)
              \/ /\ Pushes(r, n, targets[r])
                 /\ dead' = [dead EXCEPT ![r] = gone]
                 /\ UNCHANGED writers
    BY <1>3, DrainedEffect DEF FanInv
  <2>2. Broadcasting(r) /\ UNCHANGED <<published, replaying, up, last, cut>>
    BY <1>3, DrainedEffect DEF FanInv
  <2>3. n > 0 /\ <<r, n>> \in Events /\ published' = [published EXCEPT ![r] = n]
    BY <2>2, EventOf DEF FanInv, Pace, FanoutTypeOK
  <2>4. writers = writers \cup {r}
    BY <2>2, <2>3 DEF FanInv, Pace, Ended
  <2>5. Waiting(r) = targets[r] /\ n = published[r] + 0 /\ n \in Nat /\ n <= last[r]
    BY <1>1, <2>2 DEF Waiting
  <2> HIDE DEF n
  <2>6. \E g \in SUBSET Connections :
          /\ g \cap up = {}
          /\ \/ /\ Waiting(r) = {}
                /\ writers' = WritersAfter(r, n)
                /\ Completes(r, n, g)
             \/ /\ Pushes(r, n, Waiting(r))
                /\ writers' = writers \cup {r}
                /\ dead' = [dead EXCEPT ![r] = g]
    BY <1>1, <2>1, <2>4, <2>5
  <2>7. Broadcasts(r, n)
    BY <2>2, <2>3, <2>5, <2>6 DEF Broadcasts
  <2> QED BY <2>5, <2>7
<1> QED BY <1>2, <1>3

\* Nobody who waits for an event has it, and no file has.
LEMMA WaitingFacts ==
    ASSUME FanInv, NEW r \in Runs, NEW n \in Nat, Broadcasts(r, n)
    PROVE  /\ Waiting(r) \in SUBSET Subscription /\ Once(Waiting(r))
           /\ \A s \in Waiting(r) : s.conn \in up => s \in subscriptions
           /\ \A s \in Waiting(r) : s.conn \in up =>
                 \A e \in Range(stream[s.conn]) : e[1] = r => e[2] < n
           /\ \A s \in subscriptions :
                 s.conn \in up /\ r \in s.scope /\ s.since[r] < n =>
                     s \in Waiting(r) \/ <<r, n>> \in Range(stream[s.conn])
           /\ \A q \in Runs : \A e \in Range(file[q]) : e[1] = r => e[2] < n
           /\ Done(r) = n - 1
<1>1. published[r] \in Nat /\ n = published[r] + (IF Broadcasting(r) THEN 0 ELSE 1)
  BY DEF FanInv, FanoutTypeOK, Broadcasts
<1>2. Done(r) = n - 1
  BY <1>1 DEF Done
<1>3. \A q \in Runs : \A e \in Range(file[q]) : e \in Events
  BY DEF FanInv, FanoutTypeOK, Range
<1>4. \A q \in Runs : \A e \in Range(file[q]) : e[1] = r => e[2] < n
  <2> SUFFICES ASSUME NEW q \in Runs, NEW e \in Range(file[q]), e[1] = r
               PROVE  e[2] < n
    OBVIOUS
  <2>1. e[2] <= Done(r)
    BY DEF FanInv, Written
  <2>2. e[2] \in Nat
    BY <1>3 DEF Events
  <2> QED BY <1>2, <2>1, <2>2
<1>5. \A c \in Connections : \A e \in Range(stream[c]) :
          e \in Events /\ e[2] \in Nat /\ e[2] <= published[e[1]]
  <2>1. \A c \in Connections : \A e \in Range(stream[c]) : e \in Events
    BY DEF FanInv, FanoutTypeOK, Range
  <2>2. \A e \in Events : e[2] \in Nat
    BY DEF Events
  <2> QED BY <2>1, <2>2 DEF FanInv, Sent
<1>6. CASE Broadcasting(r)
  <2>1. n = published[r] /\ Waiting(r) = targets[r]
    BY <1>1, <1>6 DEF Waiting
  <2> QED BY <1>2, <1>4, <1>6, <2>1
          DEF FanInv, FanoutTypeOK, Subscribed, Sent, Served
<1>7. CASE ~Broadcasting(r)
  <2>1. n = published[r] + 1 /\ Waiting(r) = Matching(r)
    BY <1>1, <1>7 DEF Waiting
  <2>2. Waiting(r) \subseteq subscriptions
    BY <2>1 DEF Matching
  <2>3. Waiting(r) \in SUBSET Subscription /\ Once(Waiting(r))
    BY <2>2 DEF FanInv, FanoutTypeOK, Subscribed, Once
  <2>4. \A s \in Waiting(r) : s.conn \in up =>
            \A e \in Range(stream[s.conn]) : e[1] = r => e[2] < n
    <3> SUFFICES ASSUME NEW s \in Waiting(r), NEW e \in Range(stream[s.conn]), e[1] = r
                 PROVE  e[2] < n
      OBVIOUS
    <3>1. s.conn \in Connections
      BY <2>3 DEF Subscription
    <3> QED BY <1>1, <1>5, <2>1, <3>1
  <2>5. \A s \in subscriptions : r \in s.scope => s \in Waiting(r)
    BY <2>1 DEF Matching
  <2> QED BY <1>2, <1>4, <2>2, <2>3, <2>4, <2>5
<1> QED BY <1>6, <1>7

LEMMA PushedEffect ==
    ASSUME FanInv, NEW r \in Runs, NEW n \in Nat, Broadcasts(r, n),
           Pushes(r, n, Waiting(r))
    PROVE  \E s \in Waiting(r) :
              /\ s \in Subscription /\ s.conn \in Connections
              /\ draining' = [draining EXCEPT ![r] = s]
              /\ targets' = [targets EXCEPT ![r] = Waiting(r) \ {s}]
              /\ stream' = [c \in Connections |->
                               IF c = s.conn /\ c \in up
                               THEN Append(stream[c], <<r, n>>) ELSE stream[c]]
              /\ \A q \in Runs : Broadcasting(q)' <=> q = r \/ Broadcasting(q)
              /\ \A q \in Runs : Done(q)' = Done(q)
              /\ UNCHANGED <<file, subscriptions, replaying, up, last, cut, unwritten>>
<1>1. PICK s \in Waiting(r) :
              /\ s \in Subscription /\ s.conn \in Connections
              /\ draining' = [draining EXCEPT ![r] = s]
              /\ targets' = [targets EXCEPT ![r] = Waiting(r) \ {s}]
              /\ stream' = [c \in Connections |->
                               IF c = s.conn /\ c \in up
                               THEN Append(stream[c], <<r, n>>) ELSE stream[c]]
  <2>1. <<r, n>> \in Events
    BY DEF Broadcasts
  <2> QED BY <2>1, WaitingFacts, PushEffect DEF FanInv
<1>2. s # NoTarget
  BY <1>1, NoTargetIsNone
<1>3. \A q \in Runs : Broadcasting(q)' <=> q = r \/ Broadcasting(q)
  BY <1>1, <1>2 DEF Broadcasting, FanInv, FanoutTypeOK
<1>4. published' = [published EXCEPT ![r] = n] /\ published \in [Runs -> Nat]
  BY DEF Broadcasts, FanInv, FanoutTypeOK
<1>5. ASSUME NEW q \in Runs PROVE Done(q)' = Done(q)
  <2>1. CASE q = r
    <3>1. published'[q] = n /\ Broadcasting(q)'
      BY <1>3, <1>4, <2>1
    <3> QED BY <2>1, <3>1, WaitingFacts DEF Done
  <2>2. CASE q # r
    <3>1. published'[q] = published[q] /\ (Broadcasting(q)' <=> Broadcasting(q))
      BY <1>3, <1>4, <2>2
    <3> QED BY <3>1 DEF Done
  <2> QED BY <2>1, <2>2
<1> QED BY <1>1, <1>3, <1>5 DEF Broadcasts, Pushes

LEMMA CompletedEffect ==
    ASSUME FanInv, NEW r \in Runs, NEW n \in Nat, Broadcasts(r, n),
           NEW gone, Completes(r, n, gone)
    PROVE  /\ draining' = [draining EXCEPT ![r] = NoTarget]
           /\ targets' = [targets EXCEPT ![r] = {}]
           /\ dead' = [dead EXCEPT ![r] = {}]
           /\ subscriptions' = {s \in subscriptions : s.conn \notin gone}
           /\ \A q \in Runs : file'[q] \in {file[q], Append(file[q], <<r, n>>)}
           /\ file' = [q \in Runs |-> file'[q]]
           /\ r \in writers' \cup writers =>
                 file'[r] = Append(file[r], <<r, n>>) \/ <<r, n>> \in unwritten'
           /\ unwritten \subseteq unwritten' /\ unwritten' \subseteq unwritten \cup {<<r, n>>}
           /\ \A q \in Runs : Broadcasting(q)' <=> q # r /\ Broadcasting(q)
           /\ \A q \in Runs : Done(q)' = IF q = r THEN n ELSE Done(q)
           /\ UNCHANGED <<stream, replaying, up, last, cut>>
<1>1. /\ draining' = [draining EXCEPT ![r] = NoTarget]
      /\ targets' = [targets EXCEPT ![r] = {}]
      /\ dead' = [dead EXCEPT ![r] = {}]
      /\ subscriptions' = {s \in subscriptions : s.conn \notin gone}
      /\ Lines(r, <<r, n>>, writers' \cup writers)
      /\ UNCHANGED <<stream, replaying, up, last, cut>>
  BY DEF Broadcasts, Completes, Write, Leave, WithoutAny
<1>2. /\ \A q \in Runs : file'[q] \in {file[q], Append(file[q], <<r, n>>)}
      /\ file' = [q \in Runs |-> file'[q]]
      /\ r \in writers' \cup writers =>
            file'[r] = Append(file[r], <<r, n>>) \/ <<r, n>> \in unwritten'
      /\ unwritten \subseteq unwritten' /\ unwritten' \subseteq unwritten \cup {<<r, n>>}
  <2>1. PICK refusing \in SUBSET (writers' \cup writers) :
           /\ file' = [q \in Runs |-> IF q \in (writers' \cup writers) \ refusing
                                      THEN Append(file[q], <<r, n>>) ELSE file[q]]
           /\ unwritten' = IF r \in refusing THEN unwritten \cup {<<r, n>>} ELSE unwritten
    BY <1>1 DEF Lines
  <2> QED BY <2>1
<1>3. \A q \in Runs : Broadcasting(q)' <=> q # r /\ Broadcasting(q)
  BY <1>1 DEF Broadcasting, FanInv, FanoutTypeOK
<1>4. published' = [published EXCEPT ![r] = n] /\ published \in [Runs -> Nat]
  BY DEF Broadcasts, FanInv, FanoutTypeOK
<1>5. ASSUME NEW q \in Runs PROVE Done(q)' = IF q = r THEN n ELSE Done(q)
  <2>1. CASE q = r
    <3>1. published'[q] = n /\ ~Broadcasting(q)'
      BY <1>3, <1>4, <2>1
    <3> QED BY <2>1, <3>1 DEF Done
  <2>2. CASE q # r
    <3>1. published'[q] = published[q] /\ (Broadcasting(q)' <=> Broadcasting(q))
      BY <1>3, <1>4, <2>2
    <3> QED BY <2>2, <3>1 DEF Done
  <2> QED BY <2>1, <2>2
<1> QED BY <1>1, <1>2, <1>3, <1>5

\* What subscribing, replaying and leaving do not touch.
ClientStep ==
    \E c \in Connections :
        \/ Replayed(c) \/ Disconnect(c)
        \/ \E scope \in Scopes :
              Subscribe(c, scope) \/ \E r \in Runs : Replay(c, r, scope)

LEMMA ClientEffect ==
    ASSUME ClientStep
    PROVE  /\ UNCHANGED <<published, last, draining, targets, dead, writers, file,
                         cut, unwritten>>
           /\ \A r \in Runs : /\ Broadcasting(r)' <=> Broadcasting(r)
                              /\ Done(r)' = Done(r)
<1>1. UNCHANGED <<published, last, draining, targets, dead, writers, file,
                  cut, unwritten>>
  BY DEF ClientStep, Replayed, Disconnect, Subscribe, Replay, busVars, lossVars
<1> QED BY <1>1 DEF Broadcasting, Done

LEMMA StepCases ==
    ASSUME FanInv, FanoutNext
    PROVE  \/ ClientStep
           \/ \E r \in Runs : Cancel(r) \/ \E n \in Nat : Broadcasts(r, n)
<1>1. \A r \in Runs : Publish(r) \/ Drained(r) => \E n \in Nat : Broadcasts(r, n)
  BY BroadcastStep
<1> QED BY <1>1, Zenon DEF FanoutNext, ClientStep

-----------------------------------------------------------------------------
(* A broadcast keeps the invariant                                         *)

LEMMA BroadcastTyped ==
    ASSUME FanInv, NEW r \in Runs, NEW n \in Nat, Broadcasts(r, n)
    PROVE  FanoutTypeOK'
<1>1. /\ published' \in [Runs -> Nat] /\ \A q \in Runs : published'[q] <= last[q]
      /\ last' = last /\ cut' = cut /\ replaying' = replaying /\ up' = up
  BY DEF FanInv, FanoutTypeOK, Broadcasts, Events
<1>2. <<r, n>> \in Events
  BY DEF Broadcasts
<1>3. CASE Pushes(r, n, Waiting(r))
  <2>1. PICK s \in Waiting(r) :
              /\ s \in Subscription /\ s.conn \in Connections
              /\ draining' = [draining EXCEPT ![r] = s]
              /\ targets' = [targets EXCEPT ![r] = Waiting(r) \ {s}]
              /\ stream' = [c \in Connections |->
                               IF c = s.conn /\ c \in up
                               THEN Append(stream[c], <<r, n>>) ELSE stream[c]]
              /\ UNCHANGED <<file, subscriptions, unwritten>>
    BY <1>3, PushedEffect
  <2>2. \A c \in Connections : stream'[c] \in Seq(Events)
    BY <1>2, <2>1, Extended DEF FanInv, FanoutTypeOK
  <2>3. stream' \in [Connections -> Seq(Events)]
    BY <2>1, <2>2
  <2>4. Waiting(r) \in SUBSET Subscription
    BY WaitingFacts
  <2>5. draining' \in [Runs -> Subscription \cup {NoTarget}]
    BY <2>1 DEF FanInv, FanoutTypeOK
  <2>6. targets' \in [Runs -> SUBSET Subscription]
    BY <2>1, <2>4 DEF FanInv, FanoutTypeOK
  <2>7. dead' \in [Runs -> SUBSET Connections] /\ writers' \subseteq Runs
    <3>1. ~ Waiting(r) = {}
      BY <2>1
    <3> QED BY <3>1 DEF FanInv, FanoutTypeOK, Broadcasts
  <2> QED BY <1>1, <2>1, <2>3, <2>5, <2>6, <2>7 DEF FanInv, FanoutTypeOK
<1>4. CASE ~Pushes(r, n, Waiting(r))
  <2>1. PICK gone \in SUBSET Connections :
           /\ gone \cap up = {}
           /\ writers' = WritersAfter(r, n)
           /\ Completes(r, n, gone)
    BY <1>4 DEF Broadcasts
  <2>2. /\ draining' = [draining EXCEPT ![r] = NoTarget]
        /\ targets' = [targets EXCEPT ![r] = {}]
        /\ dead' = [dead EXCEPT ![r] = {}]
        /\ subscriptions' = {s \in subscriptions : s.conn \notin gone}
        /\ \A q \in Runs : file'[q] \in {file[q], Append(file[q], <<r, n>>)}
        /\ file' = [q \in Runs |-> file'[q]]
        /\ unwritten' \subseteq unwritten \cup {<<r, n>>}
        /\ UNCHANGED stream
    BY <2>1, CompletedEffect
  <2>3. \A q \in Runs : file'[q] \in Seq(Events)
    BY <1>2, <2>2, Extended DEF FanInv, FanoutTypeOK
  <2>4. file' \in [Runs -> Seq(Events)]
    BY <2>2, <2>3
  <2>5. /\ draining' \in [Runs -> Subscription \cup {NoTarget}]
        /\ targets' \in [Runs -> SUBSET Subscription]
        /\ dead' \in [Runs -> SUBSET Connections]
        /\ subscriptions' \subseteq Subscription
        /\ writers' \subseteq Runs
        /\ unwritten' \subseteq Events
    BY <1>2, <2>1, <2>2 DEF FanInv, FanoutTypeOK, WritersAfter
  <2> QED BY <1>1, <2>2, <2>4, <2>5 DEF FanInv, FanoutTypeOK
<1> QED BY <1>3, <1>4

LEMMA BroadcastPace ==
    ASSUME FanInv, NEW r \in Runs, NEW n \in Nat, Broadcasts(r, n)
    PROVE  Pace'
<1>1. /\ published' = [published EXCEPT ![r] = n] /\ published \in [Runs -> Nat]
      /\ n > 0 /\ n <= last[r] /\ last \in [Runs -> Nat] /\ last' = last
  <2>1. <<r, n>> \in Events
    BY DEF Broadcasts
  <2>2. n > 0 /\ n <= last[r] /\ last \in [Runs -> Nat]
    BY <2>1 DEF Events, Broadcasts, FanInv, FanoutTypeOK
  <2> QED BY <2>2 DEF FanInv, FanoutTypeOK, Broadcasts
<1>2. CASE Pushes(r, n, Waiting(r))
  <2>1. PICK s \in Waiting(r) :
              /\ targets' = [targets EXCEPT ![r] = Waiting(r) \ {s}]
              /\ \A q \in Runs : Broadcasting(q)' <=> q = r \/ Broadcasting(q)
    BY <1>2, PushedEffect
  <2>2. writers' = writers \cup {r}
    <3>1. ~ Waiting(r) = {}
      BY <2>1
    <3> QED BY <3>1 DEF Broadcasts
  <2> QED BY <1>1, <2>1, <2>2 DEF FanInv, FanoutTypeOK, Pace, Ended
<1>3. CASE ~Pushes(r, n, Waiting(r))
  <2>1. PICK gone \in SUBSET Connections :
           /\ writers' = WritersAfter(r, n)
           /\ Completes(r, n, gone)
    BY <1>3 DEF Broadcasts
  <2>2. /\ targets' = [targets EXCEPT ![r] = {}]
        /\ \A q \in Runs : Broadcasting(q)' <=> q # r /\ Broadcasting(q)
    BY <2>1, CompletedEffect
  <2> QED BY <1>1, <2>1, <2>2 DEF FanInv, FanoutTypeOK, Pace, Ended, WritersAfter
<1> QED BY <1>2, <1>3

LEMMA BroadcastSubscribed ==
    ASSUME FanInv, NEW r \in Runs, NEW n \in Nat, Broadcasts(r, n)
    PROVE  Subscribed'
<1>1. /\ published' \in [Runs -> Nat] /\ \A q \in Runs : published[q] <= published'[q]
      /\ published \in [Runs -> Nat]
      /\ replaying' = replaying /\ up' = up
  BY DEF FanInv, FanoutTypeOK, Broadcasts
<1>2. \A s \in subscriptions, q \in Runs :
          s.since[q] \in Nat /\ s.since[q] <= published'[q]
  BY <1>1 DEF FanInv, FanoutTypeOK, Subscribed, Subscription
<1>3. CASE Pushes(r, n, Waiting(r))
  <2>1. PICK s \in Waiting(r) :
              /\ targets' = [targets EXCEPT ![r] = Waiting(r) \ {s}]
              /\ UNCHANGED subscriptions
    BY <1>3, PushedEffect
  <2>2. PICK gone \in SUBSET Connections :
           gone \cap up = {} /\ dead' = [dead EXCEPT ![r] = gone]
    <3>1. ~ Waiting(r) = {}
      BY <2>1
    <3> QED BY <3>1 DEF Broadcasts
  <2>3. ASSUME NEW q \in Runs
        PROVE  /\ Once(targets'[q])
               /\ \A t \in targets'[q] : t.conn \in up => t \in subscriptions
               /\ dead'[q] \cap up = {}
    <3>1. CASE q = r
      <4>1. targets'[q] = Waiting(r) \ {s} /\ dead'[q] = gone
        BY <2>1, <2>2, <3>1 DEF FanInv, FanoutTypeOK
      <4> QED BY <2>2, <4>1, WaitingFacts DEF Once
    <3>2. CASE q # r
      <4>1. targets'[q] = targets[q] /\ dead'[q] = dead[q]
        BY <2>1, <2>2, <3>2 DEF FanInv, FanoutTypeOK
      <4> QED BY <4>1 DEF FanInv, Subscribed
    <3> QED BY <3>1, <3>2
  <2> QED BY <1>1, <1>2, <2>1, <2>3 DEF FanInv, Subscribed
<1>4. CASE ~Pushes(r, n, Waiting(r))
  <2>1. PICK gone \in SUBSET Connections : gone \cap up = {} /\ Completes(r, n, gone)
    BY <1>4 DEF Broadcasts
  <2>2. /\ targets' = [targets EXCEPT ![r] = {}]
        /\ dead' = [dead EXCEPT ![r] = {}]
        /\ subscriptions' = {s \in subscriptions : s.conn \notin gone}
    BY <2>1, CompletedEffect
  <2>3. ASSUME NEW q \in Runs
        PROVE  /\ Once(targets'[q])
               /\ \A t \in targets'[q] : t.conn \in up => t \in subscriptions'
               /\ dead'[q] \cap up = {}
    <3>1. targets'[q] \subseteq targets[q] /\ dead'[q] \subseteq dead[q]
      BY <2>2 DEF FanInv, FanoutTypeOK
    <3> QED BY <2>1, <2>2, <3>1 DEF FanInv, Subscribed, Once
  <2>4. Once(subscriptions')
    BY <2>2 DEF FanInv, Subscribed, Once
  <2> QED BY <1>1, <1>2, <2>2, <2>3, <2>4 DEF FanInv, Subscribed
<1> QED BY <1>3, <1>4

LEMMA BroadcastWritten ==
    ASSUME FanInv, NEW r \in Runs, NEW n \in Nat, Broadcasts(r, n)
    PROVE  Written'
<1>1. CASE Pushes(r, n, Waiting(r))
  <2>1. /\ file' = file /\ cut' = cut /\ unwritten' = unwritten
        /\ \A q \in Runs : Done(q)' = Done(q)
    BY <1>1, PushedEffect
  <2>2. \A q \in Runs : \A e \in Range(file[q]) : e[1] \in Runs
    <3>1. \A q \in Runs : \A e \in Range(file[q]) : e \in Events
      BY DEF FanInv, FanoutTypeOK, Range
    <3>2. \A e \in Events : e[1] \in Runs
      BY DEF Events
    <3> QED BY <3>1, <3>2
  <2> QED BY <2>1, <2>2 DEF FanInv, Written
<1>2. CASE ~Pushes(r, n, Waiting(r))
  <2>1. PICK gone \in SUBSET Connections :
           /\ writers' = WritersAfter(r, n)
           /\ Completes(r, n, gone)
    BY <1>2 DEF Broadcasts
  <2>2. /\ \A q \in Runs : file'[q] \in {file[q], Append(file[q], <<r, n>>)}
        /\ r \in writers' \cup writers =>
              file'[r] = Append(file[r], <<r, n>>) \/ <<r, n>> \in unwritten'
        /\ unwritten \subseteq unwritten' /\ cut' = cut
        /\ \A q \in Runs : Done(q)' = IF q = r THEN n ELSE Done(q)
    BY <2>1, CompletedEffect
  <2>3. <<r, n>> \in Events /\ <<r, n>>[1] = r /\ <<r, n>>[2] = n
    BY DEF Broadcasts
  <2>4. \A q \in Runs : \A e \in Range(file[q]) : e[1] = r => e[2] < n
    BY WaitingFacts
  <2>5. Done(r) = n - 1
    BY WaitingFacts
  <2>6. r \in writers' \/ r \in writers
    <3>1. /\ published[r] \in Nat /\ Final[r] \in Nat \ {0, 1} /\ n <= last[r]
          /\ last[r] \in Nat
          /\ n = published[r] + (IF Broadcasting(r) THEN 0 ELSE 1)
      BY FanoutAssumption DEF FanInv, FanoutTypeOK, Broadcasts
    <3> QED BY <2>1, <3>1 DEF FanInv, Pace, Ended, WritersAfter
  <2>7. ASSUME NEW q \in Runs
        PROVE  InOrder(file'[q]) /\ \A e \in Range(file'[q]) : e[2] <= Done(e[1])'
    <3>1. file[q] \in Seq(Events) /\ InOrder(file[q])
      BY DEF FanInv, FanoutTypeOK, Written
    <3>2. \A e \in Range(file[q]) : e \in Events
      BY <3>1 DEF Range
    <3>3. \A e \in Range(file[q]) : e[2] <= Done(e[1])'
      <4> SUFFICES ASSUME NEW e \in Range(file[q]) PROVE e[2] <= Done(e[1])'
        OBVIOUS
      <4>1. e[1] \in Runs /\ e[2] \in Nat
        BY <3>2 DEF Events
      <4>2. CASE e[1] = r
        BY <2>2, <2>4, <4>1, <4>2
      <4>3. CASE e[1] # r
        BY <2>2, <4>1, <4>3 DEF FanInv, Written
      <4> QED BY <4>2, <4>3
    <3>4. n <= Done(r)'
      BY <2>2
    <3>5. CASE file'[q] = Append(file[q], <<r, n>>)
      <4>1. InOrder(file'[q])
        BY <2>3, <2>4, <3>1, <3>5, OrderExtended
      <4>2. Range(file'[q]) = Range(file[q]) \cup {<<r, n>>}
        BY <2>3, <3>1, <3>5, Extended
      <4> QED BY <2>3, <3>3, <3>4, <4>1, <4>2
    <3>6. CASE file'[q] = file[q]
      BY <3>1, <3>3, <3>6
    <3> QED BY <2>2, <3>5, <3>6
  <2>8. ASSUME NEW q \in Runs, NEW k \in 1 .. Done(q)'
        PROVE  <<q, k>> \in cut \cup unwritten' \cup Range(file'[q])
    <3>1. file[q] \in Seq(Events)
      BY DEF FanInv, FanoutTypeOK
    <3>2. Range(file[q]) \subseteq Range(file'[q])
      BY <2>2, <2>3, <3>1, Extended
    <3>3. CASE q = r /\ k = n
      <4>1. file'[q] = Append(file[q], <<r, n>>) \/ <<r, n>> \in unwritten'
        BY <2>2, <2>6, <3>3
      <4>2. <<r, n>> \in Range(Append(file[r], <<r, n>>))
        BY <2>3, <3>1, <3>3, Extended
      <4> QED BY <3>3, <4>1, <4>2
    <3>4. CASE ~(q = r /\ k = n)
      <4>1. k \in 1 .. Done(q)
        BY <2>2, <2>5, <3>4
      <4>2. <<q, k>> \in cut \cup unwritten \cup Range(file[q])
        BY <4>1 DEF FanInv, Written
      <4> QED BY <2>2, <3>2, <4>2
    <3> QED BY <3>3, <3>4
  <2> QED BY <2>2, <2>7, <2>8 DEF Written
<1> QED BY <1>1, <1>2

LEMMA BroadcastSent ==
    ASSUME FanInv, NEW r \in Runs, NEW n \in Nat, Broadcasts(r, n)
    PROVE  Sent'
<1>1. /\ published' = [published EXCEPT ![r] = n] /\ published \in [Runs -> Nat]
      /\ up' = up
      /\ \A q \in Runs : published'[q] \in Nat /\ published[q] <= published'[q]
  BY DEF FanInv, FanoutTypeOK, Broadcasts
<1>2. \A c \in Connections : \A e \in Range(stream[c]) :
          e \in Events /\ e[1] \in Runs /\ e[2] \in Nat
  <2>1. \A c \in Connections : \A e \in Range(stream[c]) : e \in Events
    BY DEF FanInv, FanoutTypeOK, Range
  <2>2. \A e \in Events : e[1] \in Runs /\ e[2] \in Nat
    BY DEF Events
  <2> QED BY <2>1, <2>2
<1>3. \A c \in Connections : InOrder(stream[c]) /\ stream[c] \in Seq(Events)
  BY DEF FanInv, FanoutTypeOK, Sent, StreamInOrder
<1>4. \A c \in Connections : \A e \in Range(stream[c]) : e[2] <= published'[e[1]]
  <2> SUFFICES ASSUME NEW c \in Connections, NEW e \in Range(stream[c])
               PROVE  e[2] <= published'[e[1]]
    OBVIOUS
  <2>1. e[2] <= published[e[1]]
    BY DEF FanInv, Sent
  <2> QED BY <1>1, <1>2, <2>1
<1>5. <<r, n>> \in Events /\ <<r, n>>[1] = r /\ <<r, n>>[2] = n /\ published'[r] = n
  BY <1>1 DEF Broadcasts
<1>6. CASE Pushes(r, n, Waiting(r))
  <2>1. PICK s \in Waiting(r) :
              /\ s \in Subscription /\ s.conn \in Connections
              /\ targets' = [targets EXCEPT ![r] = Waiting(r) \ {s}]
              /\ stream' = [c \in Connections |->
                               IF c = s.conn /\ c \in up
                               THEN Append(stream[c], <<r, n>>) ELSE stream[c]]
    BY <1>6, PushedEffect
  <2>2. s.conn \in up => \A e \in Range(stream[s.conn]) : e[1] = r => e[2] < n
    BY WaitingFacts
  <2>3. ASSUME NEW c \in Connections
        PROVE  InOrder(stream'[c]) /\ \A e \in Range(stream'[c]) : e[2] <= published'[e[1]]
    <3>1. CASE c = s.conn /\ c \in up
      <4>1. stream'[c] = Append(stream[c], <<r, n>>)
        BY <2>1, <3>1
      <4>2. InOrder(stream'[c])
        BY <1>3, <1>5, <2>2, <3>1, <4>1, OrderExtended
      <4>3. Range(stream'[c]) = Range(stream[c]) \cup {<<r, n>>}
        BY <1>3, <1>5, <4>1, Extended
      <4> QED BY <1>4, <1>5, <4>2, <4>3
    <3>2. CASE ~(c = s.conn /\ c \in up)
      BY <1>3, <1>4, <2>1, <3>2
    <3> QED BY <3>1, <3>2
  <2>4. ASSUME NEW q \in Runs, NEW t \in targets'[q], t.conn \in up,
               NEW e \in Range(stream'[t.conn]), e[1] = q
        PROVE  e[2] < published'[q]
    <3>1. Waiting(r) \in SUBSET Subscription /\ Once(Waiting(r))
      BY WaitingFacts
    <3>2. CASE q = r
      <4>1. t \in Waiting(r) /\ t # s /\ t.conn # s.conn /\ t.conn \in Connections
        BY <2>1, <3>1, <3>2 DEF Once, Subscription, FanInv, FanoutTypeOK
      <4>2. stream'[t.conn] = stream[t.conn]
        BY <2>1, <4>1
      <4>3. e[2] < n
        BY <2>4, <3>2, <4>1, <4>2, WaitingFacts
      <4> QED BY <1>5, <3>2, <4>3
    <3>3. CASE q # r
      <4>1. t \in targets[q] /\ t.conn \in Connections /\ published'[q] = published[q]
        BY <1>1, <2>1, <3>3 DEF FanInv, FanoutTypeOK, Subscription
      <4>2. e \in Range(stream[t.conn])
        <5>1. Range(stream'[t.conn]) \subseteq Range(stream[t.conn]) \cup {<<r, n>>}
          BY <1>3, <1>5, <2>1, <4>1, Extended
        <5> QED BY <1>5, <2>4, <3>3, <5>1
      <4> QED BY <2>4, <4>1, <4>2 DEF FanInv, Sent
    <3> QED BY <3>2, <3>3
  <2> QED BY <1>1, <2>3, <2>4 DEF Sent, StreamInOrder
<1>7. CASE ~Pushes(r, n, Waiting(r))
  <2>1. PICK gone \in SUBSET Connections : Completes(r, n, gone)
    BY <1>7 DEF Broadcasts
  <2>2. targets' = [targets EXCEPT ![r] = {}] /\ stream' = stream
    BY <2>1, CompletedEffect
  <2>3. ASSUME NEW q \in Runs, NEW t \in targets'[q], t.conn \in up,
               NEW e \in Range(stream[t.conn]), e[1] = q
        PROVE  e[2] < published'[q]
    <3>1. q # r /\ t \in targets[q]
      BY <2>2, <2>3 DEF FanInv, FanoutTypeOK
    <3>2. published'[q] = published[q]
      BY <1>1, <3>1
    <3> QED BY <2>3, <3>1, <3>2 DEF FanInv, Sent
  <2> QED BY <1>1, <1>3, <1>4, <2>2, <2>3 DEF Sent, StreamInOrder
<1> QED BY <1>6, <1>7

LEMMA BroadcastServed ==
    ASSUME FanInv, NEW r \in Runs, NEW n \in Nat, Broadcasts(r, n)
    PROVE  Served'
<1>1. /\ published' = [published EXCEPT ![r] = n] /\ published \in [Runs -> Nat]
      /\ up' = up /\ cut' = cut
      /\ <<r, n>> \in Events
  BY DEF FanInv, FanoutTypeOK, Broadcasts
<1>2. \A s \in subscriptions : s \in Subscription /\ s.conn \in Connections
                               /\ s.since \in [Runs -> Nat] /\ s.scope \subseteq Runs
  BY FanoutAssumption DEF FanInv, FanoutTypeOK, Subscription
<1>3. CASE Pushes(r, n, Waiting(r))
  <2>1. PICK s \in Waiting(r) :
              /\ s \in Subscription /\ s.conn \in Connections
              /\ targets' = [targets EXCEPT ![r] = Waiting(r) \ {s}]
              /\ stream' = [c \in Connections |->
                               IF c = s.conn /\ c \in up
                               THEN Append(stream[c], <<r, n>>) ELSE stream[c]]
              /\ \A q \in Runs : Broadcasting(q)' <=> q = r \/ Broadcasting(q)
              /\ \A q \in Runs : Done(q)' = Done(q)
              /\ UNCHANGED subscriptions
    BY <1>3, PushedEffect
  <2>2. \A c \in Connections : Range(stream[c]) \subseteq Range(stream'[c])
    BY <1>1, <2>1, Extended DEF FanInv, FanoutTypeOK
  <2>3. s.conn \in up => <<r, n>> \in Range(stream'[s.conn])
    <3>1. stream[s.conn] \in Seq(Events)
      BY <2>1 DEF FanInv, FanoutTypeOK
    <3> QED BY <1>1, <2>1, <3>1, Extended
  <2>4. SubscriberComplete'
    <3> SUFFICES ASSUME NEW t \in subscriptions, t.conn \in up,
                        NEW q \in t.scope, NEW k \in t.since[q] + 1 .. Done(q)
                 PROVE  <<q, k>> \in cut \/ <<q, k>> \in Range(stream'[t.conn])
      BY <1>1, <1>2, <2>1 DEF SubscriberComplete
    <3>1. <<q, k>> \in cut \/ <<q, k>> \in Range(stream[t.conn])
      BY DEF FanInv, Served, SubscriberComplete
    <3> QED BY <1>2, <2>2, <3>1
  <2>5. ASSUME NEW q \in Runs, Broadcasting(q)',
               NEW t \in subscriptions, t.conn \in up, q \in t.scope,
               t.since[q] < published'[q]
        PROVE  t \in targets'[q] \/ <<q, published'[q]>> \in Range(stream'[t.conn])
    <3>1. CASE q = r
      <4>1. published'[q] = n /\ targets'[q] = Waiting(r) \ {s}
        BY <1>1, <2>1, <3>1 DEF FanInv, FanoutTypeOK
      <4>2. t \in Waiting(r) \/ <<r, n>> \in Range(stream[t.conn])
        BY <2>5, <3>1, <4>1, WaitingFacts
      <4> QED BY <1>2, <2>2, <2>3, <2>5, <3>1, <4>1, <4>2
    <3>2. CASE q # r
      <4>1. published'[q] = published[q] /\ targets'[q] = targets[q] /\ Broadcasting(q)
        BY <1>1, <2>1, <2>5, <3>2 DEF FanInv, FanoutTypeOK
      <4>2. t \in targets[q] \/ <<q, published[q]>> \in Range(stream[t.conn])
        BY <2>5, <4>1 DEF FanInv, Served
      <4> QED BY <1>2, <2>2, <4>1, <4>2
    <3> QED BY <3>1, <3>2
  <2> QED BY <1>1, <2>1, <2>4, <2>5 DEF Served
<1>4. CASE ~Pushes(r, n, Waiting(r))
  <2>1. PICK gone \in SUBSET Connections : Waiting(r) = {} /\ Completes(r, n, gone)
    BY <1>4 DEF Broadcasts
  <2>2. /\ targets' = [targets EXCEPT ![r] = {}]
        /\ subscriptions' \subseteq subscriptions
        /\ \A q \in Runs : Broadcasting(q)' <=> q # r /\ Broadcasting(q)
        /\ \A q \in Runs : Done(q)' = IF q = r THEN n ELSE Done(q)
        /\ UNCHANGED stream
    BY <2>1, CompletedEffect
  <2>3. SubscriberComplete'
    <3> SUFFICES ASSUME NEW t \in subscriptions', t.conn \in up,
                        NEW q \in t.scope, NEW k \in t.since[q] + 1 .. Done(q)'
                 PROVE  <<q, k>> \in cut \/ <<q, k>> \in Range(stream[t.conn])
      BY <1>1, <2>2 DEF SubscriberComplete
    <3>1. q \in Runs /\ t \in subscriptions /\ t.since[q] \in Nat
      BY <1>2, <2>2
    <3>2. CASE q = r /\ k = n
      <4>1. t.since[r] < n
        BY <2>2, <3>1, <3>2
      <4> QED BY <2>1, <3>1, <3>2, <4>1, WaitingFacts
    <3>3. CASE ~(q = r /\ k = n)
      <4>1. k \in t.since[q] + 1 .. Done(q)
        <5>1. Done(r) = n - 1
          BY WaitingFacts
        <5> QED BY <2>2, <3>1, <3>3, <5>1
      <4> QED BY <3>1, <4>1 DEF FanInv, Served, SubscriberComplete
    <3> QED BY <3>2, <3>3
  <2>4. ASSUME NEW q \in Runs, Broadcasting(q)',
               NEW t \in subscriptions', t.conn \in up, q \in t.scope,
               t.since[q] < published'[q]
        PROVE  t \in targets'[q] \/ <<q, published'[q]>> \in Range(stream[t.conn])
    <3>1. q # r /\ Broadcasting(q) /\ t \in subscriptions
      BY <2>2, <2>4
    <3>2. published'[q] = published[q] /\ targets'[q] = targets[q]
      BY <1>1, <2>2, <3>1 DEF FanInv, FanoutTypeOK
    <3> QED BY <2>4, <3>1, <3>2 DEF FanInv, Served
  <2> QED BY <1>1, <2>2, <2>3, <2>4 DEF Served
<1> QED BY <1>3, <1>4

-----------------------------------------------------------------------------
(* So do subscribing, replaying and leaving                                *)

\* c gets a subscription it does not have yet.
LEMMA RegisterKeeps ==
    ASSUME FanInv, NEW c \in Connections, NEW scope \in Scopes,
           \A s \in subscriptions : s.conn # c,
           Register(c, scope), ClientStep,
           replaying' = [replaying EXCEPT ![c] = NoRequest],
           UNCHANGED <<up, stream>>
    PROVE  FanInv'
<1> DEFINE new == [conn |-> c, scope |-> scope, since |-> published]
<1>1. /\ UNCHANGED <<published, last, draining, targets, dead, writers, file,
                    cut, unwritten>>
      /\ \A r \in Runs : /\ Broadcasting(r)' <=> Broadcasting(r)
                         /\ Done(r)' = Done(r)
  BY ClientEffect
<1>2. /\ subscriptions' = subscriptions \cup {new}
      /\ new \in Subscription /\ new.conn = c /\ new.since = published
  BY DEF Register, FanInv, FanoutTypeOK, Subscription
<1> HIDE DEF new
<1>3. FanoutTypeOK'
  BY <1>1, <1>2 DEF FanInv, FanoutTypeOK
<1>4. Pace'
  BY <1>1 DEF FanInv, Pace, Ended
<1>5. Subscribed'
  <2>1. Once(subscriptions')
    BY <1>2 DEF FanInv, Subscribed, Once
  <2>2. \A s \in subscriptions' : replaying'[s.conn] = NoRequest
    BY <1>2 DEF FanInv, Subscribed, FanoutTypeOK, Subscription
  <2>3. \A s \in subscriptions', r \in Runs : s.since[r] <= published[r]
    BY <1>2 DEF FanInv, Subscribed, FanoutTypeOK
  <2> QED BY <1>1, <1>2, <2>1, <2>2, <2>3 DEF FanInv, Subscribed
<1>6. Written'
  <2>1. \A q \in Runs : \A e \in Range(file[q]) : e[1] \in Runs
    <3>1. \A q \in Runs : \A e \in Range(file[q]) : e \in Events
      BY DEF FanInv, FanoutTypeOK, Range
    <3> QED BY <3>1 DEF Events
  <2> QED BY <1>1, <2>1 DEF FanInv, Written
<1>7. Sent'
  BY <1>1 DEF FanInv, Sent, StreamInOrder
<1>8. SubscriberComplete'
  <2> SUFFICES ASSUME NEW s \in subscriptions', s.conn \in up, NEW r \in s.scope,
                      NEW k \in s.since[r] + 1 .. Done(r)'
               PROVE  <<r, k>> \in cut \/ <<r, k>> \in Range(stream[s.conn])
    BY <1>1 DEF SubscriberComplete
  <2>1. s \in Subscription /\ r \in Runs
    BY <1>2, FanoutAssumption DEF FanInv, FanoutTypeOK, Subscription
  <2>2. k \in s.since[r] + 1 .. Done(r)
    BY <1>1, <2>1
  <2>3. s # new
    <3>1. published[r] \in Nat /\ Done(r) <= published[r]
      BY <2>1 DEF FanInv, FanoutTypeOK, Done
    <3>2. Done(r) \in Int
      BY <3>1 DEF Done
    <3> QED BY <1>2, <2>2, <3>1, <3>2
  <2> QED BY <1>2, <2>2, <2>3 DEF FanInv, Served, SubscriberComplete
<1>9. ASSUME NEW r \in Runs, Broadcasting(r), NEW s \in subscriptions', s.conn \in up,
             r \in s.scope, s.since[r] < published[r]
      PROVE  s \in targets[r] \/ <<r, published[r]>> \in Range(stream[s.conn])
  <2>1. s # new
    BY <1>2, <1>9 DEF FanInv, FanoutTypeOK
  <2> QED BY <1>2, <1>9, <2>1 DEF FanInv, Served
<1>10. Served'
  BY <1>1, <1>8, <1>9 DEF Served
<1> QED BY <1>3, <1>4, <1>5, <1>6, <1>7, <1>10 DEF FanInv

LEMMA ReplayKeeps ==
    ASSUME FanInv, NEW c \in Connections, NEW r \in Runs, NEW scope \in Scopes,
           Replay(c, r, scope)
    PROVE  FanInv'
<1>1. ClientStep
  BY DEF ClientStep
<1>2. /\ UNCHANGED <<published, last, draining, targets, dead, writers, file,
                    cut, unwritten>>
      /\ \A q \in Runs : /\ Broadcasting(q)' <=> Broadcasting(q)
                         /\ Done(q)' = Done(q)
  BY <1>1, ClientEffect
<1>3. /\ c \in up /\ \A s \in subscriptions : s.conn # c
      /\ stream' = [stream EXCEPT ![c] = file[r]]
      /\ replaying' = [replaying EXCEPT ![c] = [scope |-> scope]]
      /\ UNCHANGED <<subscriptions, up>>
  BY DEF Replay, Fresh
<1>4. \A q \in Runs : \A e \in Range(file[q]) : e[1] \in Runs /\ e[2] \in Nat
  <2>1. \A q \in Runs : \A e \in Range(file[q]) : e \in Events
    BY DEF FanInv, FanoutTypeOK, Range
  <2> QED BY <2>1 DEF Events
<1>5. FanoutTypeOK'
  BY <1>2, <1>3 DEF FanInv, FanoutTypeOK
<1>6. Pace'
  BY <1>2 DEF FanInv, Pace, Ended
<1>7. Subscribed'
  <2>1. \A s \in subscriptions : replaying'[s.conn] = NoRequest
    BY <1>3 DEF FanInv, Subscribed, FanoutTypeOK, Subscription
  <2> QED BY <1>2, <1>3, <2>1 DEF FanInv, Subscribed
<1>8. Written'
  BY <1>2, <1>4 DEF FanInv, Written
<1>9. Sent'
  <2>1. \A e \in Range(file[r]) : e[2] <= published[e[1]]
    <3> SUFFICES ASSUME NEW e \in Range(file[r]) PROVE e[2] <= published[e[1]]
      OBVIOUS
    <3>1. e[2] <= Done(e[1]) /\ e[1] \in Runs /\ e[2] \in Nat
      BY <1>4 DEF FanInv, Written
    <3>2. published[e[1]] \in Nat
      BY <3>1 DEF FanInv, FanoutTypeOK
    <3> QED BY <3>1, <3>2 DEF Done
  <2>2. \A d \in Connections :
           /\ InOrder(stream'[d])
           /\ \A e \in Range(stream'[d]) : e[2] <= published[e[1]]
    BY <1>3, <2>1 DEF FanInv, FanoutTypeOK, Sent, StreamInOrder, Written
  <2>3. \A q \in Runs : \A s \in targets[q] : s.conn \in up =>
            stream'[s.conn] = stream[s.conn]
    BY <1>3 DEF FanInv, FanoutTypeOK, Subscribed
  <2> QED BY <1>2, <1>3, <2>2, <2>3 DEF FanInv, Sent, StreamInOrder
<1>10. Served'
  <2>1. \A s \in subscriptions : stream'[s.conn] = stream[s.conn]
    BY <1>3 DEF FanInv, FanoutTypeOK
  <2>2. \A s \in subscriptions : s.scope \subseteq Runs
    BY FanoutAssumption DEF FanInv, FanoutTypeOK, Subscription
  <2>3. SubscriberComplete'
    BY <1>2, <1>3, <2>1, <2>2 DEF FanInv, Served, SubscriberComplete
  <2> QED BY <1>2, <1>3, <2>1, <2>3 DEF FanInv, Served
<1> QED BY <1>5, <1>6, <1>7, <1>8, <1>9, <1>10 DEF FanInv

\* Nothing but less: subscriptions, connections, requests.
LEMMA LeavingKeeps ==
    ASSUME FanInv, ClientStep, UNCHANGED stream,
           NEW C \in SUBSET Connections,
           subscriptions' = {s \in subscriptions : s.conn \notin C},
           up' = up \ C,
           \/ UNCHANGED replaying
           \/ \E c \in Connections : replaying' = [replaying EXCEPT ![c] = NoRequest]
    PROVE  FanInv'
<1>1. /\ UNCHANGED <<published, last, draining, targets, dead, writers, file,
                    cut, unwritten>>
      /\ \A q \in Runs : /\ Broadcasting(q)' <=> Broadcasting(q)
                         /\ Done(q)' = Done(q)
  BY ClientEffect
<1>2. FanoutTypeOK'
  BY <1>1 DEF FanInv, FanoutTypeOK
<1>3. Pace'
  BY <1>1 DEF FanInv, Pace, Ended
<1>4. Subscribed'
  <2>1. Once(subscriptions')
    BY DEF FanInv, Subscribed, Once
  <2>2. \A s \in subscriptions' : replaying'[s.conn] = NoRequest
    BY DEF FanInv, Subscribed, FanoutTypeOK, Subscription
  <2>3. \A r \in Runs :
          /\ \A s \in targets[r] : s.conn \in up' => s \in subscriptions'
          /\ dead[r] \cap up' = {}
    BY DEF FanInv, Subscribed
  <2> QED BY <1>1, <2>1, <2>2, <2>3 DEF FanInv, Subscribed
<1>5. Written'
  <2>1. \A q \in Runs : \A e \in Range(file[q]) : e[1] \in Runs
    <3>1. \A q \in Runs : \A e \in Range(file[q]) : e \in Events
      BY DEF FanInv, FanoutTypeOK, Range
    <3> QED BY <3>1 DEF Events
  <2> QED BY <1>1, <2>1 DEF FanInv, Written
<1>6. Sent'
  BY <1>1 DEF FanInv, Sent, StreamInOrder
<1>7. Served'
  <2>1. \A s \in subscriptions : s.scope \subseteq Runs
    BY FanoutAssumption DEF FanInv, FanoutTypeOK, Subscription
  <2>2. SubscriberComplete'
    BY <1>1, <2>1 DEF FanInv, Served, SubscriberComplete
  <2> QED BY <1>1, <2>2 DEF FanInv, Served
<1> QED BY <1>2, <1>3, <1>4, <1>5, <1>6, <1>7 DEF FanInv

LEMMA ClientKeeps ==
    ASSUME FanInv, ClientStep
    PROVE  FanInv'
<1>1. ASSUME NEW c \in Connections, NEW scope \in Scopes, Subscribe(c, scope)
      PROVE  FanInv'
  <2>1. /\ \A s \in subscriptions : s.conn # c
        /\ Register(c, scope) /\ UNCHANGED <<up, stream>>
        /\ replaying[c] = NoRequest /\ replaying' = replaying
    BY <1>1 DEF Subscribe, Fresh, clientVars
  <2>2. replaying' = [replaying EXCEPT ![c] = NoRequest]
    BY <2>1 DEF FanInv, FanoutTypeOK
  <2> QED BY <2>1, <2>2, RegisterKeeps
<1>2. ASSUME NEW c \in Connections, Replayed(c)
      PROVE  FanInv'
  <2>1. /\ replaying[c] # NoRequest
        /\ replaying' = [replaying EXCEPT ![c] = NoRequest]
        /\ UNCHANGED <<up, stream>>
    BY <1>2 DEF Replayed
  <2>2. CASE Register(c, replaying[c].scope)
    <3>1. replaying[c].scope \in Scopes
      BY <2>1 DEF FanInv, FanoutTypeOK
    <3>2. \A s \in subscriptions : s.conn # c
      BY <2>1 DEF FanInv, Subscribed
    <3> QED BY <2>1, <2>2, <3>1, <3>2, RegisterKeeps
  <2>3. CASE UNCHANGED subscriptions
    <3>1. subscriptions' = {s \in subscriptions : s.conn \notin {}} /\ up' = up \ {}
      BY <2>1, <2>3
    <3>2. {} \in SUBSET Connections
      OBVIOUS
    <3> QED BY <2>1, <3>1, <3>2, LeavingKeeps
  <2> QED BY <1>2, <2>2, <2>3 DEF Replayed
<1>3. ASSUME NEW c \in Connections, Disconnect(c)
      PROVE  FanInv'
  <2>1. /\ subscriptions' = {s \in subscriptions : s.conn \notin {c}}
        /\ up' = up \ {c} /\ UNCHANGED <<replaying, stream>>
    BY <1>3 DEF Disconnect, WithoutAny
  <2>2. {c} \in SUBSET Connections
    OBVIOUS
  <2> QED BY <2>1, <2>2, LeavingKeeps
<1> QED BY <1>1, <1>2, <1>3, ReplayKeeps DEF ClientStep

\* A cancelled broadcast is not awaited by anybody any more, nor written.
LEMMA CancelKeeps ==
    ASSUME FanInv, NEW r \in Runs, Cancel(r)
    PROVE  FanInv'
<1> DEFINE n == LastOfCancelled(r)
<1>1. /\ draining' = [draining EXCEPT ![r] = NoTarget]
      /\ targets' = [targets EXCEPT ![r] = {}]
      /\ dead' = [dead EXCEPT ![r] = {}]
      /\ subscriptions' = {s \in subscriptions : s.conn \notin {}}
      /\ last' = [last EXCEPT ![r] = n]
      /\ writers' = IF last'[r] = published[r] THEN writers \ {r} ELSE writers
      /\ cut' = IF Broadcasting(r) THEN cut \cup {Event(r)} ELSE cut
      /\ UNCHANGED <<published, file, unwritten, stream, replaying, up>>
      /\ ~Ended(r)
  BY DEF Cancel, Leave, WithoutAny, clientVars
<1>2. /\ published \in [Runs -> Nat] /\ last \in [Runs -> Nat]
      /\ \A q \in Runs : published[q] <= last[q] /\ last[q] <= Final[q]
      /\ subscriptions' = subscriptions
  BY <1>1 DEF FanInv, FanoutTypeOK
<1>3. /\ n \in Nat /\ published[r] <= n /\ n <= last[r]
      /\ n = published[r] \/ n = published[r] + 1
      /\ published[r] = 0 => n = 0
      /\ n = published[r] => published[r] = 0 \/ Broadcasting(r)
  <2>1. published[r] = last[r] => Broadcasting(r)
    BY <1>1 DEF Ended
  <2>2. published[r] \in Nat /\ last[r] \in Nat /\ published[r] <= last[r]
    BY <1>2
  <2> QED BY <2>1, <2>2 DEF LastOfCancelled
<1> HIDE DEF n
<1>4. /\ last' \in [Runs -> Nat] /\ last'[r] = n
      /\ \A q \in Runs : q # r => last'[q] = last[q]
      /\ \A q \in Runs : published[q] <= last'[q] /\ last'[q] <= Final[q]
  <2>1. n <= Final[r]
    BY <1>2, <1>3, FanoutAssumption
  <2> QED BY <1>1, <1>2, <1>3, <2>1
<1>5. \A q \in Runs : Broadcasting(q)' <=> q # r /\ Broadcasting(q)
  BY <1>1 DEF Broadcasting, FanInv, FanoutTypeOK
<1>6. \A q \in Runs : Done(q)' = IF q = r THEN published[r] ELSE Done(q)
  BY <1>1, <1>5 DEF Done
<1>7. \A q \in Runs, k \in Nat :
         k \in 1 .. Done(q)' => k \in 1 .. Done(q) \/ <<q, k>> \in cut'
  <2> SUFFICES ASSUME NEW q \in Runs, NEW k \in 1 .. Done(q)'
               PROVE  k \in 1 .. Done(q) \/ <<q, k>> \in cut'
    OBVIOUS
  <2>1. CASE q = r /\ k = published[r] /\ Broadcasting(r)
    BY <1>1, <2>1 DEF Event
  <2>2. CASE ~(q = r /\ k = published[r] /\ Broadcasting(r))
    <3>1. published[r] \in Nat
      BY <1>2
    <3>2. CASE q = r
      <4>1. k \in 1 .. published[r]
        BY <1>6, <3>2
      <4> QED BY <2>2, <3>1, <3>2, <4>1 DEF Done
    <3>3. CASE q # r
      BY <1>6, <3>3
    <3> QED BY <3>2, <3>3
  <2> QED BY <2>1, <2>2
<1>8. cut \subseteq cut'
  BY <1>1
<1>9. FanoutTypeOK'
  <2>1. Broadcasting(r) => Event(r) \in Events
    BY EventOf DEF FanInv, Pace, Event
  <2> QED BY <1>1, <1>2, <1>4, <2>1 DEF FanInv, FanoutTypeOK
<1>10. Pace'
  <2> SUFFICES ASSUME NEW q \in Runs
               PROVE  /\ ~Broadcasting(q)' => targets'[q] = {}
                      /\ Broadcasting(q)' => published[q] > 0
                      /\ q \in writers' <=> published[q] > 0 /\ ~Ended(q)'
                      /\ published[q] = 0 => last'[q] \in {0, Final[q]}
    BY <1>1 DEF Pace
  <2>1. CASE q = r
    <3>1. targets'[r] = {} /\ ~Broadcasting(r)'
      BY <1>1, <1>5 DEF FanInv, FanoutTypeOK
    <3>2. Ended(r)' <=> n = published[r]
      BY <1>1, <1>4, <3>1 DEF Ended
    <3>3. r \in writers <=> published[r] > 0
      BY <1>1 DEF FanInv, Pace
    <3>4. r \in writers' <=> r \in writers /\ n # published[r]
      BY <1>1, <1>4
    <3> QED BY <1>3, <1>4, <2>1, <3>1, <3>2, <3>3, <3>4
  <2>2. CASE q # r
    <3>1. targets'[q] = targets[q] /\ last'[q] = last[q]
      BY <1>1, <1>4, <2>2 DEF FanInv, FanoutTypeOK
    <3>2. (Broadcasting(q)' <=> Broadcasting(q)) /\ (q \in writers' <=> q \in writers)
      BY <1>1, <1>5, <2>2
    <3>3. Ended(q)' <=> Ended(q)
      BY <1>1, <3>1, <3>2 DEF Ended
    <3> QED BY <3>1, <3>2, <3>3 DEF FanInv, Pace
  <2> QED BY <2>1, <2>2
<1>11. \A q \in Runs : targets'[q] \subseteq targets[q] /\ dead'[q] \subseteq dead[q]
  BY <1>1 DEF FanInv, FanoutTypeOK
<1>12. Subscribed'
  <2>1. ASSUME NEW q \in Runs
        PROVE  /\ Once(targets'[q])
               /\ \A s \in targets'[q] : s.conn \in up => s \in subscriptions
               /\ dead'[q] \cap up = {}
    BY <1>11 DEF FanInv, Subscribed, Once
  <2> QED BY <1>1, <1>2, <2>1 DEF FanInv, Subscribed
<1>13. Written'
  <2>1. ASSUME NEW q \in Runs, NEW e \in Range(file[q])
        PROVE  e[2] <= Done(e[1])'
    <3>1. e \in Events
      BY <2>1 DEF FanInv, FanoutTypeOK, Range
    <3>2. e[1] \in Runs /\ e[2] \in Nat /\ e[2] <= Done(e[1])
      BY <2>1, <3>1 DEF Events, FanInv, Written
    <3>3. Done(r) \in Int /\ Done(r) <= published[r] /\ published[r] \in Nat
      BY <1>2 DEF Done
    <3>4. CASE e[1] = r
      BY <1>6, <3>2, <3>3, <3>4
    <3>5. CASE e[1] # r
      BY <1>6, <3>2, <3>5
    <3> QED BY <3>4, <3>5
  <2>2. ASSUME NEW q \in Runs, NEW k \in 1 .. Done(q)'
        PROVE  <<q, k>> \in cut' \cup unwritten \cup Range(file[q])
    BY <1>7, <1>8, <2>2 DEF FanInv, Written
  <2> QED BY <1>1, <2>1, <2>2 DEF FanInv, Written
<1>14. Sent'
  BY <1>1, <1>11 DEF FanInv, Sent, StreamInOrder
<1>15. SubscriberComplete'
  <2> SUFFICES ASSUME NEW s \in subscriptions, s.conn \in up, NEW q \in s.scope,
                      NEW k \in s.since[q] + 1 .. Done(q)'
               PROVE  <<q, k>> \in cut' \/ <<q, k>> \in Range(stream[s.conn])
    BY <1>1, <1>2 DEF SubscriberComplete
  <2>1. q \in Runs /\ s.since[q] \in Nat
    BY FanoutAssumption DEF FanInv, FanoutTypeOK, Subscription
  <2>2. Done(q)' \in Int /\ Done(q) \in Int
    BY <1>2, <1>6, <2>1 DEF Done
  <2>3. k \in 1 .. Done(q)' /\ k \in Nat
    BY <2>1, <2>2
  <2>4. k \in s.since[q] + 1 .. Done(q) \/ <<q, k>> \in cut'
    BY <1>7, <2>1, <2>2, <2>3
  <2> QED BY <1>8, <2>4 DEF FanInv, Served, SubscriberComplete
<1>16. Served'
  <2>1. ASSUME NEW q \in Runs, Broadcasting(q)'
        PROVE  Broadcasting(q) /\ targets'[q] = targets[q]
    BY <1>1, <1>5, <2>1 DEF FanInv, FanoutTypeOK
  <2> QED BY <1>1, <1>2, <1>15, <2>1 DEF FanInv, Served
<1> QED BY <1>9, <1>10, <1>12, <1>13, <1>14, <1>16 DEF FanInv

LEMMA FanStep == FanInv /\ [FanoutNext]_fanoutVars => FanInv'
<1> SUFFICES ASSUME FanInv, [FanoutNext]_fanoutVars PROVE FanInv'
  OBVIOUS
<1>1. CASE ClientStep
  BY <1>1, ClientKeeps
<1>2. ASSUME NEW r \in Runs, NEW n \in Nat, Broadcasts(r, n)
      PROVE  FanInv'
  BY <1>2, BroadcastTyped, BroadcastPace, BroadcastSubscribed, BroadcastWritten,
     BroadcastSent, BroadcastServed DEF FanInv
<1>3. CASE UNCHANGED fanoutVars
  BY <1>3 DEF fanoutVars, busVars, clientVars, lossVars, FanInv, FanoutTypeOK, Pace, Subscribed,
              Written, Sent, Served, StreamInOrder, SubscriberComplete, Broadcasting,
              Done, Ended
<1> QED BY <1>1, <1>2, <1>3, StepCases, CancelKeeps

\* The inductive invariant of the fan-out holds in every reachable state: from
\* it follow what the files hold and what the clients of the bus receive.
THEOREM FanInvCorrect == FanoutSpec => []FanInv
BY FanInit, FanStep, PTL DEF FanoutSpec

\* Runs, files, subscriptions and streams are always of their types.
THEOREM FanoutTypeCorrect == FanoutSpec => []FanoutTypeOK
<1>1. FanInv => FanoutTypeOK
  BY DEF FanInv
<1> QED BY FanInvCorrect, <1>1, PTL

\* No client ever sees two events of a run out of order or one of them twice,
\* however broadcasts and replays overlap (IpcEventBroadcaster.handle,
\* _subscribe_handler).
THEOREM StreamInOrderCorrect == FanoutSpec => []StreamInOrder
<1>1. FanInv => StreamInOrder
  BY DEF FanInv, Sent
<1> QED BY FanInvCorrect, <1>1, PTL

\* A subscriber misses nothing of its runs but what was cancelled while it was
\* broadcast, whatever other connections and other runs do in the middle of a
\* broadcast (IpcEventBroadcaster.handle).
THEOREM SubscriberCompleteCorrect == FanoutSpec => []SubscriberComplete
<1>1. FanInv => SubscriberComplete
  BY DEF FanInv, Served
<1> QED BY FanInvCorrect, <1>1, PTL

\* The file of a run that is over holds all its events in order, but for those
\* that were cancelled while they were broadcast and those the file refused
\* (EventWriter, EventBus.publish).
THEOREM FileCompleteCorrect == FanoutSpec => []FileComplete
<1>1. FanInv => FileComplete
  BY DEF FanInv, Written, FileComplete, Ended, Done
<1> QED BY FanInvCorrect, <1>1, PTL
=============================================================================
