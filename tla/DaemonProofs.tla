---------------------------- MODULE DaemonProofs ----------------------------
(***************************************************************************)
(* What the daemon's life promises, for any number of runs, requests and   *)
(* retries: of a server's answers only the one to its own request ends a   *)
(* call, one task at a time reads the connection, and the trace of the     *)
(* runs a shutdown waits for is whole.                                     *)
(*                                                                         *)
(* The argument for the calls: ids are given out once, so at any time two  *)
(* tasks never have the same one outstanding, and a request or answer on   *)
(* its way that has the id of a task was written by that task.  For the    *)
(* lock: leaving the line keeps the order of those who stay.  For the      *)
(* trace: a run that has put its first LLM call in the queue has put       *)
(* run.finished there before it can be over, and who is over puts nothing  *)
(* more there.                                                             *)
(***************************************************************************)
EXTENDS Daemon, TLAPS, SequenceTheorems, FiniteSetTheorems

Stages  == {"idle", "backoff", "over", "queued", "writing", "reading"}
Message == [id : Nat \ {0}, by : Tasks]
Lines   == Message \cup [id : OwnLines, by : {NoCaller}]
\* requests of the tasks and the answers to them
Travelling == Message \cap (inbox \cup {outbox[i] : i \in DOMAIN outbox})

Typed ==
    /\ stage \in [Tasks -> Stages]
    /\ attempt \in [Tasks -> Nat]
    /\ asked \in [Tasks -> Nat] /\ lastId \in Nat
    /\ inbox \subseteq Message /\ outbox \in Seq(Lines)

OwnIds ==
    /\ \A t \in Tasks : asked[t] <= lastId
    /\ \A t \in Tasks : stage[t] \in InCall => asked[t] # 0
    /\ \A t, u \in Tasks : asked[t] = asked[u] => t = u \/ asked[t] = 0
    /\ \A m \in Travelling : m.id <= lastId
    /\ \A m \in Travelling, t \in Tasks : m.id = asked[t] => m.by = t

Inv == Typed /\ OwnIds

-----------------------------------------------------------------------------
(* The steps of the client, one lemma for each way it changes its state     *)

LEMMA InitInv == DaemonInit => Inv
BY DEF DaemonInit, McpInit, Inv, Typed, OwnIds, Stages, InCall, Travelling

\* What is on its way is well-formed.
LEMMA TravellingTyped ==
    \A m \in Travelling : m \in Message /\ m.id \in Nat \ {0}
BY DEF Travelling, Message

\* What the server sends of its own accord is no answer.
LEMMA OwnLine ==
    /\ \A m \in Lines : m \in Message <=> m.by # NoCaller
    /\ \A n \in OwnLines : [id |-> n, by |-> NoCaller] \in Lines \ Message
    /\ \A m \in Message : m.id # 0
BY McpAssumption DEF Lines, Message

\* A task takes a fresh id, and the message that carries it may leave.
LEMMA FreshId ==
    ASSUME Inv, NEW t \in Tasks, NEW n \in Nat,
           lastId' = lastId + 1,
           asked' = [asked EXCEPT ![t] = lastId'],
           attempt' = [attempt EXCEPT ![t] = n],
           stage' \in [Tasks -> Stages],
           \A u \in Tasks \ {t} : stage'[u] = stage[u],
           inbox' \subseteq inbox \cup {[id |-> lastId', by |-> t]},
           outbox' \in Seq(Lines),
           Travelling' \subseteq Travelling \cup {[id |-> lastId', by |-> t]}
    PROVE  Inv'
<1>1. /\ asked' \in [Tasks -> Nat] /\ attempt' \in [Tasks -> Nat]
      /\ lastId \in Nat /\ lastId' \in Nat /\ lastId' > lastId
      /\ asked'[t] = lastId' /\ \A u \in Tasks \ {t} : asked'[u] = asked[u]
  BY DEF Inv, Typed
<1>2. [id |-> lastId', by |-> t] \in Message
  BY <1>1 DEF Message, Inv, Typed
<1>3. Typed'
  BY <1>1, <1>2 DEF Inv, Typed
<1>4. \A m \in Travelling : m.id <= lastId /\ m.id \in Nat
  BY TravellingTyped DEF Inv, OwnIds
<1>5. \A u \in Tasks : asked[u] <= lastId /\ asked[u] \in Nat
  BY DEF Inv, Typed, OwnIds
<1>6. OwnIds'
  <2>1. (\A u \in Tasks : asked[u] <= lastId)'
    BY <1>1, <1>5
  <2>2. (\A u \in Tasks : stage[u] \in InCall => asked[u] # 0)'
    BY <1>1, <1>5 DEF Inv, Typed, OwnIds, InCall
  <2>3. (\A u, v \in Tasks : asked[u] = asked[v] => u = v \/ asked[u] = 0)'
    BY <1>1, <1>5 DEF Inv, Typed, OwnIds
  <2>4. (\A m \in Travelling : m.id <= lastId)'
    BY <1>1, <1>4
  <2>5. (\A m \in Travelling, u \in Tasks : m.id = asked[u] => m.by = u)'
    <3> SUFFICES ASSUME NEW m \in Travelling', NEW u \in Tasks, m.id = asked'[u]
                 PROVE  m.by = u
      OBVIOUS
    <3>1. CASE m = [id |-> lastId', by |-> t]
      BY <3>1, <1>1, <1>5
    <3>2. CASE m \in Travelling
      BY <3>2, <1>1, <1>4 DEF Inv, OwnIds
    <3> QED BY <3>1, <3>2
  <2> QED BY <2>1, <2>2, <2>3, <2>4, <2>5 DEF OwnIds
<1> QED BY <1>3, <1>6 DEF Inv

LEMMA AskInv ==
    ASSUME Inv, NEW t \in Tasks, NEW n \in Nat, Ask(t, n), UNCHANGED outbox
    PROVE  Inv'
<1>1. /\ stage' \in [Tasks -> Stages]
      /\ \A u \in Tasks \ {t} : stage'[u] = stage[u]
  <2>1. CASE line = <<>>
    BY <2>1 DEF Ask, Inv, Typed, Stages
  <2>2. CASE line # <<>>
    BY <2>2 DEF Ask, Inv, Typed, Stages
  <2> QED BY <2>1, <2>2
<1>2. inbox' \subseteq inbox \cup {[id |-> lastId', by |-> t]}
  BY DEF Ask
<1>3. Travelling' \subseteq Travelling \cup {[id |-> lastId', by |-> t]}
  BY <1>2 DEF Travelling
<1> QED BY <1>1, <1>2, <1>3, FreshId DEF Ask, Inv, Typed

\* Leaving a call, whether with an answer or without, forgets the id or keeps
\* it, and lets at most one waiter write its own request.
LEMMA LeaveInv ==
    ASSUME Inv, NEW S \in SUBSET Tasks, NEW next \in [S -> {"over", "backoff"}],
           Leave(S, next), UNCHANGED lastId,
           \/ UNCHANGED outbox
           \/ outbox # <<>> /\ outbox' = Tail(outbox)
    PROVE  /\ Inv'
           /\ \A u \in Tasks \ S : asked'[u] = asked[u]
           /\ \A u \in Tasks \ S : stage[u] = "reading" => stage'[u] = "reading"
<1> DEFINE first == IF line' = <<>> THEN NoCaller ELSE Head(line')
           woken == {t \in Tasks \ S : t = first /\ stage[t] = "queued"}
<1>0. /\ stage' = [t \in Tasks |-> CASE t \in S     -> next[t]
                                     [] t \in woken -> "writing"
                                     [] OTHER       -> stage[t]]
      /\ asked' = [t \in Tasks |->
                     IF t \in S /\ next[t] = "over" THEN 0 ELSE asked[t]]
      /\ attempt' = [t \in Tasks |->
                     IF t \in S /\ next[t] = "over" THEN 0 ELSE attempt[t]]
      /\ inbox' = inbox \cup {[id |-> asked[t], by |-> t] : t \in woken}
  BY DEF Leave
<1>a. \A u \in woken : u \in Tasks \ S /\ stage[u] = "queued"
  OBVIOUS
<1> HIDE DEF first, woken
<1>1. \A u \in Tasks : u \in S => stage'[u] \in {"over", "backoff"}
  <2> SUFFICES ASSUME NEW u \in Tasks, u \in S
               PROVE  stage'[u] \in {"over", "backoff"}
    OBVIOUS
  <2>1. next[u] \in {"over", "backoff"}
    OBVIOUS
  <2>2. stage'[u] = CASE u \in S     -> next[u]
                      [] u \in woken -> "writing"
                      [] OTHER       -> stage[u]
    BY <1>0
  <2> QED BY <1>a, <2>1, <2>2
<1>2. \A u \in Tasks \ S : stage'[u] = IF u \in woken THEN "writing" ELSE stage[u]
  <2> SUFFICES ASSUME NEW u \in Tasks \ S
               PROVE  stage'[u] = IF u \in woken THEN "writing" ELSE stage[u]
    OBVIOUS
  <2>1. CASE u \in woken
    BY <1>0, <2>1
  <2>2. CASE u \notin woken
    BY <1>0, <2>2
  <2> QED BY <2>1, <2>2
<1>3. \A u \in woken : u \in Tasks /\ stage[u] = "queued" /\ asked[u] \in Nat \ {0}
  BY <1>a DEF Inv, Typed, OwnIds, InCall
<1>4. /\ asked' \in [Tasks -> Nat] /\ attempt' \in [Tasks -> Nat]
      /\ \A u \in Tasks : asked'[u] = asked[u] \/ asked'[u] = 0
      /\ \A u \in Tasks \ S : asked'[u] = asked[u]
  BY <1>0 DEF Inv, Typed
<1>5. stage' \in [Tasks -> Stages]
  <2>1. \A u \in Tasks : stage'[u] \in Stages
    BY <1>1, <1>2 DEF Inv, Typed, Stages
  <2> QED BY <2>1, <1>0
<1>6. inbox' \subseteq Message
  BY <1>0, <1>3 DEF Inv, Typed, Message
<1>7. /\ outbox' \in Seq(Lines)
      /\ {outbox'[i] : i \in DOMAIN outbox'} \subseteq
            {outbox[i] : i \in DOMAIN outbox}
  <2>1. outbox \in Seq(Lines)
    BY DEF Inv, Typed
  <2>2. CASE UNCHANGED outbox
    BY <2>1, <2>2
  <2>3. CASE outbox # <<>> /\ outbox' = Tail(outbox)
    <3>1. outbox' \in Seq(Lines) /\ Len(outbox') = Len(outbox) - 1
          /\ \A i \in 1 .. Len(outbox') : outbox'[i] = outbox[i + 1]
      BY <2>1, <2>3, HeadTailProperties
    <3>2. \A i \in DOMAIN outbox' : i + 1 \in DOMAIN outbox
      BY <2>1, <3>1
    <3> QED BY <2>1, <3>1, <3>2
  <2> QED BY <2>2, <2>3
<1>8. \A m \in Travelling' :
        m \in Travelling \/ \E u \in woken : m = [id |-> asked[u], by |-> u]
  BY <1>0, <1>7 DEF Travelling
<1>9. Typed'
  BY <1>4, <1>5, <1>6, <1>7 DEF Inv, Typed
<1>10. OwnIds'
  <2>0. \A m \in Travelling : m.id \in Nat \ {0}
    BY TravellingTyped DEF Inv
  <2>1. (\A u \in Tasks : asked[u] <= lastId)'
    <3>1. \A u \in Tasks : asked[u] <= lastId /\ 0 <= lastId
      BY DEF Inv, Typed, OwnIds
    <3> QED BY <1>4, <3>1
  <2>2. (\A u \in Tasks : stage[u] \in InCall => asked[u] # 0)'
    <3> SUFFICES ASSUME NEW u \in Tasks, stage'[u] \in InCall
                 PROVE  asked'[u] # 0
      BY DEF InCall
    <3>1. u \notin S
      BY <1>1 DEF InCall
    <3>2. CASE u \in woken
      BY <3>1, <3>2, <1>3, <1>4
    <3>3. CASE u \notin woken
      BY <3>1, <3>3, <1>2, <1>4 DEF Inv, OwnIds
    <3> QED BY <3>2, <3>3
  <2>3. (\A u, v \in Tasks : asked[u] = asked[v] => u = v \/ asked[u] = 0)'
    BY <1>4 DEF Inv, OwnIds
  <2>4. (\A m \in Travelling : m.id <= lastId)'
    BY <1>3, <1>8 DEF Inv, OwnIds
  <2>5. (\A m \in Travelling, u \in Tasks : m.id = asked[u] => m.by = u)'
    <3> SUFFICES ASSUME NEW m \in Travelling', NEW u \in Tasks, m.id = asked'[u]
                 PROVE  m.by = u
      OBVIOUS
    <3>1. CASE m \in Travelling
      BY <3>1, <2>0, <1>4 DEF Inv, OwnIds
    <3>2. CASE \E v \in woken : m = [id |-> asked[v], by |-> v]
      <4>1. PICK v \in woken : m = [id |-> asked[v], by |-> v]
        BY <3>2
      <4> QED BY <4>1, <1>3, <1>4 DEF Inv, OwnIds
    <3> QED BY <3>1, <3>2, <1>8
  <2> QED BY <2>1, <2>2, <2>3, <2>4, <2>5 DEF OwnIds
<1>11. \A u \in Tasks \ S : stage[u] = "reading" => stage'[u] = "reading"
  BY <1>2, <1>a
<1> QED BY <1>4, <1>9, <1>10, <1>11 DEF Inv

LEMMA LeaveAloneInv ==
    ASSUME Inv, NEW t \in Tasks, NEW next \in {"over", "backoff"},
           LeaveAlone(t, next), UNCHANGED lastId,
           \/ UNCHANGED outbox
           \/ outbox # <<>> /\ outbox' = Tail(outbox)
    PROVE  /\ Inv'
           /\ \A u \in Tasks \ {t} : asked'[u] = asked[u]
           /\ \A u \in Tasks \ {t} : stage[u] = "reading" => stage'[u] = "reading"
<1>1. {t} \in SUBSET Tasks /\ [u \in {t} |-> next] \in [{t} -> {"over", "backoff"}]
  OBVIOUS
<1> QED BY <1>1, LeaveInv DEF LeaveAlone

LEMMA FailureLeaves ==
    ASSUME Inv, NEW t \in Tasks
    PROVE  AfterFailure(t) \in {"over", "backoff"}
<1>1. attempt[t] \in Nat /\ (t = Boot \/ t \in Callers)
  BY DEF Inv, Typed, Tasks
<1>2. CASE t = Boot
  BY <1>2, McpAssumption DEF AfterFailure
<1>3. CASE t \in Callers
  <2>1. t # Boot
    BY <1>3, McpAssumption
  <2>2. CASE attempt[t] <= MaxRetries
    BY <1>3, <2>1, <2>2, <1>1, McpAssumption DEF AfterFailure
  <2>3. CASE attempt[t] > MaxRetries
    BY <1>3, <2>1, <2>3, <1>1, McpAssumption DEF AfterFailure
  <2> QED BY <2>2, <2>3, <1>1, McpAssumption
<1> QED BY <1>1, <1>2, <1>3

\* A task may move on inside its call, or end it without a request.
LEMMA MoveInv ==
    ASSUME Inv, NEW t \in Tasks, NEW next \in Stages,
           stage' = [stage EXCEPT ![t] = next],
           next \in InCall => stage[t] \in InCall,
           UNCHANGED <<attempt, asked, lastId, inbox, outbox>>
    PROVE  Inv'
<1>1. Typed'
  BY DEF Inv, Typed
<1>2. (\A u \in Tasks : stage[u] \in InCall => asked[u] # 0)'
  BY DEF Inv, Typed, OwnIds, InCall
<1>3. UNCHANGED Travelling
  BY DEF Travelling
<1> QED BY <1>1, <1>2, <1>3 DEF Inv, OwnIds

\* Nothing new is on its way when the server answers or a line is read.
LEMMA DeliveryInv ==
    ASSUME Inv, UNCHANGED <<stage, attempt, asked, lastId>>,
           inbox' \subseteq inbox, outbox' \in Seq(Lines),
           \A i \in DOMAIN outbox' : outbox'[i] \in Message => outbox'[i] \in Travelling
    PROVE  Inv'
<1>1. Travelling' \subseteq Travelling
  BY DEF Travelling
<1>2. Typed'
  BY DEF Inv, Typed
<1>3. UNCHANGED InCall
  BY DEF InCall
<1> QED BY <1>1, <1>2, <1>3 DEF Inv, OwnIds

LEMMA TailTravels ==
    ASSUME Typed, outbox # <<>>
    PROVE  /\ Tail(outbox) \in Seq(Lines)
           /\ \A i \in DOMAIN Tail(outbox) :
                 Tail(outbox)[i] \in Message => Tail(outbox)[i] \in Travelling
           /\ Head(outbox) \in Lines
           /\ Head(outbox) \in Message => Head(outbox) \in Travelling
           /\ Len(Tail(outbox)) = Len(outbox) - 1
<1>1. outbox \in Seq(Lines)
  BY DEF Typed
<1>2. /\ Tail(outbox) \in Seq(Lines) /\ Head(outbox) \in Lines
      /\ Len(Tail(outbox)) = Len(outbox) - 1 /\ Len(outbox) \in Nat \ {0}
      /\ \A i \in 1 .. Len(Tail(outbox)) : Tail(outbox)[i] = outbox[i + 1]
      /\ Head(outbox) = outbox[1]
  BY <1>1, HeadTailProperties, EmptySeq
<1>3. \A i \in DOMAIN Tail(outbox) :
        Tail(outbox)[i] \in Message => Tail(outbox)[i] \in Travelling
  <2> TAKE i \in DOMAIN Tail(outbox)
  <2>1. i \in 1 .. Len(Tail(outbox)) /\ i + 1 \in DOMAIN outbox
    BY <1>1, <1>2
  <2> QED BY <1>2, <2>1 DEF Travelling
<1>4. Head(outbox) \in Message => Head(outbox) \in Travelling
  <2>1. 1 \in DOMAIN outbox
    BY <1>1, <1>2
  <2> QED BY <1>2, <2>1 DEF Travelling
<1> QED BY <1>2, <1>3, <1>4

-----------------------------------------------------------------------------
(* Who is answered                                                          *)

LEMMA NoLineTaken ==
    ASSUME Typed, \/ UNCHANGED outbox
                  \/ \E m \in Lines : outbox' = Append(outbox, m)
    PROVE  AnsweredByOwn
<1>1. outbox # <<>> => outbox' # Tail(outbox)
  <2>1. outbox \in Seq(Lines) /\ Len(outbox) \in Nat
    BY DEF Typed
  <2>2. Len(outbox') >= Len(outbox)
    BY <2>1
  <2> QED BY <2>1, <2>2, TailTravels
<1> QED BY <1>1 DEF AnsweredByOwn

LEMMA LineTaken ==
    ASSUME Inv, NEW t \in Tasks, outbox # <<>>, Answers(t, Head(outbox)),
           \A u \in Tasks \ {t} : asked'[u] = asked[u],
           \A u \in Tasks \ {t} : stage[u] = "reading" => stage'[u] = "reading"
    PROVE  AnsweredByOwn
<1>1. SUFFICES ASSUME Head(outbox).by # NoCaller
               PROVE  Head(outbox) = [id |-> asked[t], by |-> t]
  BY DEF AnsweredByOwn
<1>2. Head(outbox) \in Travelling /\ Head(outbox) \in Message
  BY <1>1, TailTravels, OwnLine DEF Inv
<1>3. Head(outbox).id = asked[t] /\ Head(outbox).by = t
  BY <1>2 DEF Inv, OwnIds, Answers
<1> QED BY <1>2, <1>3 DEF Message

-----------------------------------------------------------------------------
(* Each step of the daemon                                                  *)

LEMMA KeptStep ==
    ASSUME Inv, UNCHANGED mcpVars
    PROVE  Inv' /\ AnsweredByOwn
<1>1. UNCHANGED <<stage, attempt, asked, lastId, inbox, outbox>>
  BY DEF mcpVars, connection
<1>2. Inv'
  BY <1>1 DEF Inv, Typed, OwnIds, Travelling
<1> QED BY <1>1, <1>2, NoLineTaken DEF Inv

LEMMA StartUpStep ==
    ASSUME Inv, StartUp
    PROVE  Inv' /\ AnsweredByOwn
<1>0. Boot \in Tasks
  BY DEF Tasks
<1>1. CASE Connect
  BY <1>0, <1>1, AskInv, NoLineTaken DEF Connect, Inv
<1>2. CASE NoConnection
  <2>1. UNCHANGED <<attempt, asked, lastId, inbox, outbox>>
    BY <1>2 DEF NoConnection, connection
  <2> QED BY <1>0, <1>2, <2>1, MoveInv, NoLineTaken
             DEF NoConnection, Inv, Stages, InCall
<1>3. CASE ListTools
  <2>1. /\ stage' \in [Tasks -> Stages]
        /\ \A u \in Tasks \ {Boot} : stage'[u] = stage[u]
        /\ \A u \in Tasks \ {Boot} : asked'[u] = asked[u]
    BY <1>0, <1>3 DEF ListTools, Inv, Typed, Stages
  <2>2. /\ outbox' \in Seq(Lines)
        /\ \A i \in DOMAIN outbox' : outbox'[i] \in Message => outbox'[i] \in Travelling
    BY <1>3, TailTravels DEF ListTools, Inv
  <2>3. Travelling' \subseteq Travelling \cup {[id |-> lastId', by |-> Boot]}
    BY <1>3, <2>2 DEF ListTools, Travelling
  <2>4. Inv'
    BY <1>0, <1>3, <2>1, <2>2, <2>3, FreshId DEF ListTools
  <2>5. AnsweredByOwn
    BY <1>0, <1>3, <2>1, LineTaken DEF ListTools
  <2> QED BY <2>4, <2>5
<1>4. CASE ToolsListed
  <2>1. LeaveAlone(Boot, "over") /\ UNCHANGED lastId
        /\ outbox # <<>> /\ outbox' = Tail(outbox)
    BY <1>4 DEF ToolsListed
  <2>2. /\ Inv'
        /\ \A u \in Tasks \ {Boot} : asked'[u] = asked[u]
        /\ \A u \in Tasks \ {Boot} : stage[u] = "reading" => stage'[u] = "reading"
    BY <1>0, <2>1, LeaveAloneInv
  <2> QED BY <1>0, <1>4, <2>2, LineTaken DEF ToolsListed
<1> QED BY <1>1, <1>2, <1>3, <1>4 DEF StartUp

LEMMA UseToolStep ==
    ASSUME Inv, NEW r \in Callers, UseTool(r)
    PROVE  Inv' /\ AnsweredByOwn
<1>1. r \in Tasks /\ attempt[r] + 1 \in Nat /\ 1 \in Nat
  BY DEF Inv, Typed, Tasks
<1>2. PICK n \in Nat : Ask(r, n) /\ UNCHANGED outbox
  BY <1>1 DEF UseTool, CallTool, CallAgain
<1> QED BY <1>1, <1>2, AskInv, NoLineTaken DEF Inv

LEMMA CallStepStep ==
    ASSUME Inv, NEW t \in Tasks, CallStep(t)
    PROVE  Inv' /\ AnsweredByOwn
<1>1. CASE Drained(t)
  <2>1. UNCHANGED <<attempt, asked, lastId, inbox, outbox>>
    BY <1>1 DEF Drained, connection
  <2> QED BY <1>1, <2>1, MoveInv, NoLineTaken DEF Drained, Inv, Stages, InCall
<1>2. CASE WriteRaises(t) \/ ReadFails(t)
  <2>1. LeaveAlone(t, AfterFailure(t)) /\ UNCHANGED <<lastId, outbox>>
    BY <1>2 DEF WriteRaises, ReadFails, Fail
  <2> QED BY <2>1, FailureLeaves, LeaveAloneInv, NoLineTaken DEF Inv
<1>3. CASE Skip(t)
  <2>1. /\ UNCHANGED <<stage, attempt, asked, lastId, inbox>>
        /\ outbox # <<>> /\ outbox' = Tail(outbox)
    BY <1>3 DEF Skip
  <2>2. Inv'
    BY <2>1, TailTravels, DeliveryInv DEF Inv
  <2>3. AnsweredByOwn
    BY <2>1 DEF AnsweredByOwn
  <2> QED BY <2>2, <2>3
<1>4. CASE Answered(t) \/ Refused(t)
  <2>1. /\ \E next \in {"over", "backoff"} : LeaveAlone(t, next)
        /\ UNCHANGED lastId
        /\ outbox # <<>> /\ outbox' = Tail(outbox) /\ Answers(t, Head(outbox))
    BY <1>4, FailureLeaves DEF Answered, Refused, Fail
  <2>2. /\ Inv'
        /\ \A u \in Tasks \ {t} : asked'[u] = asked[u]
        /\ \A u \in Tasks \ {t} : stage[u] = "reading" => stage'[u] = "reading"
    BY <2>1, LeaveAloneInv
  <2> QED BY <2>1, <2>2, LineTaken
<1>5. CASE TimeLimit(t)
  <2>1. LeaveAlone(t, "over") /\ UNCHANGED <<lastId, outbox>>
    BY <1>5 DEF TimeLimit
  <2> QED BY <2>1, LeaveAloneInv, NoLineTaken DEF Inv
<1>6. CASE Malformed(t)
  <2>1. /\ LeaveAlone(t, AfterFailure(t)) /\ UNCHANGED lastId
        /\ outbox # <<>> /\ outbox' = Tail(outbox) /\ Head(outbox).id = 0
    BY <1>6 DEF Malformed, Fail
  <2>2. Head(outbox).by = NoCaller
    BY <2>1, TailTravels, OwnLine DEF Inv
  <2>3. AnsweredByOwn
    BY <2>2 DEF AnsweredByOwn
  <2> QED BY <2>1, <2>3, FailureLeaves, LeaveAloneInv
<1> QED BY <1>1, <1>2, <1>3, <1>4, <1>5, <1>6 DEF CallStep

LEMMA EnvironmentStep ==
    ASSUME Inv, Environment
    PROVE  Inv' /\ AnsweredByOwn
<1>1. /\ UNCHANGED <<stage, attempt, asked, lastId>> /\ inbox' \subseteq inbox
      /\ \E m \in Lines : /\ outbox' = Append(outbox, m)
                          /\ m \in Message => m \in inbox
  <2>1. CASE \E m \in inbox : ServerAnswers(m)
    BY <2>1 DEF ServerAnswers, Inv, Typed, Lines
  <2>2. CASE \E n \in OwnLines : ServerSpeaks(n)
    BY <2>2, OwnLine DEF ServerSpeaks
  <2> QED BY <2>1, <2>2 DEF Environment
<1>2. PICK m \in Lines : /\ outbox' = Append(outbox, m)
                         /\ m \in Message => m \in inbox
  BY <1>1
<1>3. /\ outbox' \in Seq(Lines)
      /\ \A i \in DOMAIN outbox' : outbox'[i] \in Message => outbox'[i] \in Travelling
  <2>1. outbox \in Seq(Lines)
    BY DEF Inv, Typed
  <2>2. outbox' \in Seq(Lines)
    BY <1>2, <2>1
  <2>3. \A i \in DOMAIN outbox' :
           outbox'[i] = m \/ (i \in DOMAIN outbox /\ outbox'[i] = outbox[i])
    <3>1. /\ Len(outbox) \in Nat /\ DOMAIN outbox = 1 .. Len(outbox)
          /\ DOMAIN outbox' = 1 .. Len(outbox) + 1
          /\ \A i \in 1 .. Len(outbox) : outbox'[i] = outbox[i]
          /\ outbox'[Len(outbox) + 1] = m
      BY <1>2, <2>1
    <3> QED BY <3>1
  <2> QED BY <1>2, <2>2, <2>3 DEF Travelling
<1> QED BY <1>1, <1>3, DeliveryInv, NoLineTaken DEF Inv

LEMMA CancelStep ==
    ASSUME Inv, NEW S \in SUBSET Callers, CancelRuns(S), UNCHANGED <<lastId, outbox>>
    PROVE  Inv' /\ AnsweredByOwn
<1>1. PICK C \in SUBSET Tasks : Leave(C, [t \in C |-> "over"])
  <2> DEFINE C == {r \in {q \in ToCancel(S) : Finishes(q)} :
                      stage[r] \in InCall \cup {"backoff"}}
  <2>1. C \in SUBSET Tasks
    BY DEF ToCancel, Live, Tasks
  <2>2. Leave(C, [t \in C |-> "over"])
    BY DEF CancelRuns
  <2> QED BY <2>1, <2>2
<1>2. [t \in C |-> "over"] \in [C -> {"over", "backoff"}]
  OBVIOUS
<1> QED BY <1>1, <1>2, LeaveInv, NoLineTaken DEF Inv

LEMMA DaemonStep ==
    ASSUME Inv, [DaemonNext]_daemonVars
    PROVE  Inv' /\ AnsweredByOwn
<1>1. CASE McpStarts
  BY <1>1, StartUpStep DEF McpStarts
<1>2. CASE Serve \/ Tracing \/ UNCHANGED daemonVars
  BY <1>2, KeptStep DEF Serve, Tracing, daemonVars
<1>3. ASSUME NEW r \in Callers, RunStep(r)
      PROVE  Inv' /\ AnsweredByOwn
  <2>1. CASE UseTool(r)
    BY <2>1, UseToolStep
  <2>2. CASE ~UseTool(r)
    BY <1>3, <2>2, KeptStep
       DEF RunStep, StartRun, Begin, BeginRaises, AskLlm, LlmAnswers, Finish, Published
  <2> QED BY <1>3, <2>1, <2>2 DEF RunStep
<1>4. ASSUME NEW t \in Tasks, InTool(t)
      PROVE  Inv' /\ AnsweredByOwn
  BY <1>4, CallStepStep DEF InTool
<1>5. CASE Environment
  BY <1>5, EnvironmentStep
<1>6. CASE Shutdown
  <2>1. OneShot \in SUBSET Callers
    BY DaemonAssumption
  <2> QED BY <1>6, <2>1, CancelStep DEF Shutdown
<1>7. CASE ShutdownStep
  <2>1. CASE Gathered \/ CloseServer \/ CloseTrace \/ Stop
    BY <2>1, KeptStep DEF Gathered, CloseServer, CloseTrace, Stop
  <2>2. CASE CloseMcp
    <3>1. UNCHANGED <<stage, attempt, asked, lastId, inbox, outbox>>
      BY <2>2 DEF CloseMcp, connection
    <3>2. Inv'
      BY <3>1 DEF Inv, Typed, OwnIds, Travelling
    <3> QED BY <3>1, <3>2, NoLineTaken DEF Inv
  <2>3. CASE CancelRest
    BY <2>3, CancelStep DEF CancelRest
  <2> QED BY <1>7, <2>1, <2>2, <2>3 DEF ShutdownStep
<1> QED BY <1>1, <1>2, <1>3, <1>4, <1>5, <1>6, <1>7 DEF DaemonNext

\* Ids are never outstanding twice, and what carries the id of a task is its own.
THEOREM OwnIdsCorrect == DaemonSpec => []OwnIds
<1>1. Inv /\ [DaemonNext]_daemonVars => Inv'
  BY DaemonStep
<1>2. Inv => OwnIds
  BY DEF Inv
<1> QED BY InitInv, <1>1, <1>2, PTL DEF DaemonSpec

\* Of a server's answers only the one to its own request ends a tool call,
\* whatever timed out or was cancelled before on the connection, and whatever
\* else the server sends (client.py:_call).
THEOREM AnswersOwnCorrect == DaemonSpec => AnswersOwn
<1>1. Inv /\ [DaemonNext]_daemonVars => Inv'
  BY DaemonStep
<1>2. Inv /\ [DaemonNext]_daemonVars => [AnsweredByOwn]_mcpVars
  BY DaemonStep
<1> QED BY InitInv, <1>1, <1>2, PTL DEF DaemonSpec, AnswersOwn

-----------------------------------------------------------------------------
(* The line of the lock                                                     *)

\* SetToSeq enumerates a finite set.
LEMMA Enumerated ==
    ASSUME NEW W, IsFiniteSet(W)
    PROVE  /\ Cardinality(W) \in Nat
           /\ SetToSeq(W) \in [1 .. Cardinality(W) -> W]
           /\ \A x \in W : \E i \in 1 .. Cardinality(W) : SetToSeq(W)[i] = x
<1> DEFINE n == Cardinality(W)
<1>1. n \in Nat /\ ExistsBijection(1 .. n, W)
  BY FS_CardinalityType
<1>2. PICK f : f \in Bijection(1 .. n, W)
  BY <1>1 DEF ExistsBijection
<1>3. f \in [1 .. n -> W] /\ IsInjective(f)
  BY <1>2 DEF Bijection, Injection, IsInjective
<1>4. SetToSeq(W) \in [1 .. n -> W] /\ IsInjective(SetToSeq(W))
  BY <1>3 DEF SetToSeq
<1>5. SetToSeq(W) \in Injection(1 .. n, W)
  BY <1>4 DEF Injection
<1>6. IsFiniteSet(1 .. n) /\ Cardinality(1 .. n) = n
  BY <1>1, FS_Interval
<1>7. SetToSeq(W) \in Surjection(1 .. n, W)
  BY <1>5, <1>6, FS_Injection
<1> QED BY <1>1, <1>4, <1>7 DEF Surjection

\* Whoever stays in the line keeps the order: k |-> from[k] says where the one
\* at place k stood.
LEMMA LineKeepsOrder ==
    ASSUME NEW T, line \in Seq(T), NEW S
    PROVE  \E from \in [1 .. Len(LineWithout(S)) -> DOMAIN line] :
             /\ LineWithout(S) \in Seq(T)
             /\ \A k \in 1 .. Len(LineWithout(S)) :
                   LineWithout(S)[k] = line[from[k]] /\ line[from[k]] \notin S
             /\ \A k, l \in 1 .. Len(LineWithout(S)) : k < l => from[k] < from[l]
             /\ \A i \in DOMAIN line : line[i] \notin S =>
                   \E k \in 1 .. Len(LineWithout(S)) : from[k] = i
<1> DEFINE stay == {i \in DOMAIN line : line[i] \notin S}
           upto(i) == {j \in stay : j <= i}
           place(i) == Cardinality(upto(i))
           n == Cardinality(stay)
           at(k) == CHOOSE i \in stay : place(i) = k
           from == [k \in 1 .. n |-> at(k)]
<1>1. DOMAIN line = 1 .. Len(line) /\ Len(line) \in Nat /\ stay \in SUBSET (1 .. Len(line))
  OBVIOUS
<1>a. \A i \in stay : i \in Nat /\ i \in DOMAIN line
  BY <1>1
<1>2. IsFiniteSet(stay) /\ n \in Nat
  <2>1. IsFiniteSet(1 .. Len(line))
    BY <1>1, FS_Interval
  <2> QED BY <1>1, <2>1, FS_Subset, FS_CardinalityType
<1>3. \A i \in stay :
        IsFiniteSet(upto(i)) /\ place(i) \in 1 .. n /\ place(i) \in Nat
  <2> TAKE i \in stay
  <2>1. IsFiniteSet(upto(i)) /\ place(i) <= n /\ place(i) \in Nat
    BY <1>2, FS_Subset, FS_CardinalityType
  <2>2. i \in upto(i)
    BY <1>1
  <2>3. place(i) # 0
    BY <2>1, <2>2, FS_EmptySet
  <2> QED BY <1>2, <2>1, <2>3
<1>4. \A i, j \in stay : i < j => place(i) < place(j)
  <2> SUFFICES ASSUME NEW i \in stay, NEW j \in stay, i < j
               PROVE  place(i) < place(j)
    OBVIOUS
  <2>1. upto(i) \in SUBSET upto(j) /\ j \in upto(j) /\ j \notin upto(i)
    BY <1>1
  <2>2. IsFiniteSet(upto(j)) /\ place(i) \in Nat /\ place(j) \in Nat
    BY <1>3
  <2> HIDE DEF upto
  <2>3. place(i) <= place(j) /\ place(i) # place(j)
    BY <2>1, <2>2, FS_Subset
  <2> QED BY <2>2, <2>3
<1> HIDE DEF stay, place, n
<1>5. \A k \in 1 .. n : \E i \in stay : place(i) = k
  <2> DEFINE f == [i \in stay |-> place(i)]
  <2>1. f \in Injection(stay, 1 .. n)
    <3>1. f \in [stay -> 1 .. n]
      BY <1>3
    <3>2. \A i, j \in stay : f[i] = f[j] => i = j
      <4> SUFFICES ASSUME NEW i \in stay, NEW j \in stay, place(i) = place(j)
                   PROVE  i = j
        OBVIOUS
      <4>1. i \in Nat /\ j \in Nat /\ place(i) \in Nat /\ place(j) \in Nat
        BY <1>a, <1>3
      <4> QED BY <1>4, <4>1
    <3> QED BY <3>1, <3>2 DEF Injection, IsInjective
  <2>2. IsFiniteSet(1 .. n) /\ Cardinality(1 .. n) = n
    BY <1>2, FS_Interval
  <2>3. f \in Surjection(stay, 1 .. n)
    BY <2>1, <2>2, FS_Injection DEF n
  <2> QED BY <2>3 DEF Surjection
<1>6. \A k \in 1 .. n : at(k) \in stay /\ place(at(k)) = k
  BY <1>5
<1>7. LineWithout(S) = [k \in 1 .. n |-> line[at(k)]]
  BY DEF LineWithout, stay, place, n
<1> HIDE DEF at
<1>8. \A k \in 1 .. n : at(k) \in DOMAIN line /\ line[at(k)] \in T /\ line[at(k)] \notin S
  BY <1>1, <1>6 DEF stay
<1>9. LineWithout(S) \in Seq(T) /\ Len(LineWithout(S)) = n
  <2>1. LineWithout(S) \in [1 .. n -> T]
    BY <1>7, <1>8
  <2> QED BY <1>2, <2>1
<1>10. from \in [1 .. n -> DOMAIN line]
  BY <1>8
<1>11. \A k, l \in 1 .. n : k < l => at(k) < at(l)
  <2> SUFFICES ASSUME NEW k \in 1 .. n, NEW l \in 1 .. n, k < l
               PROVE  at(k) < at(l)
    OBVIOUS
  <2>1. at(k) \in Nat /\ at(l) \in Nat
    BY <1>a, <1>6
  <2>2. ~ (at(l) < at(k)) /\ at(l) # at(k)
    BY <1>2, <1>4, <1>6
  <2> QED BY <2>1, <2>2
<1>12. \A i \in DOMAIN line : line[i] \notin S => \E k \in 1 .. n : at(k) = i
  <2> SUFFICES ASSUME NEW i \in DOMAIN line, line[i] \notin S
               PROVE  \E k \in 1 .. n : at(k) = i
    OBVIOUS
  <2>1. i \in stay /\ i \in Nat
    BY <1>1 DEF stay
  <2>2. place(i) \in 1 .. n
    BY <1>3, <2>1
  <2>3. at(place(i)) \in stay /\ place(at(place(i))) = place(i) /\ at(place(i)) \in Nat
    BY <1>a, <1>6, <2>2
  <2>4. ~ (i < at(place(i))) /\ ~ (at(place(i)) < i)
    BY <1>4, <2>1, <2>2, <2>3
  <2> QED BY <2>1, <2>2, <2>3, <2>4
<1>13. \A k \in 1 .. n : from[k] = at(k)
  OBVIOUS
<1>14. \A k \in 1 .. n : LineWithout(S)[k] = line[from[k]] /\ line[from[k]] \notin S
  BY <1>7, <1>8, <1>13
<1>15. \A k, l \in 1 .. n : k < l => from[k] < from[l]
  BY <1>11, <1>13
<1>16. \A i \in DOMAIN line : line[i] \notin S => \E k \in 1 .. n : from[k] = i
  BY <1>12, <1>13
<1> HIDE DEF from
<1> QED
  BY <1>9, <1>10, <1>14, <1>15, <1>16

InLine == line \in Seq(Tasks) /\ OneReader

\* Nobody's place changes when nobody enters or leaves the line.
LEMMA SameLine ==
    ASSUME InLine, UNCHANGED line,
           \A t \in Tasks : stage'[t] \in InCall <=> stage[t] \in InCall,
           \A t \in Tasks : stage'[t] = "queued" <=> stage[t] = "queued"
    PROVE  InLine'
<1>1. \A i \in DOMAIN line : line[i] \in Tasks
  BY DEF InLine
<1> QED BY <1>1 DEF InLine, OneReader, InCall

\* Whoever asks is last in the line, and writes if it is also the first.
LEMMA AskLine ==
    ASSUME Inv, InLine, NEW t \in Tasks, NEW n, Ask(t, n), stage[t] \notin InCall
    PROVE  InLine'
<1>1. /\ line' = Append(line, t) /\ line \in Seq(Tasks) /\ Len(line) \in Nat
      /\ line' \in Seq(Tasks) /\ Len(line') = Len(line) + 1
      /\ line'[Len(line) + 1] = t
      /\ \A i \in DOMAIN line : line'[i] = line[i] /\ i \in DOMAIN line' /\ line[i] \in Tasks
      /\ \A i \in DOMAIN line' : i \in DOMAIN line \/ i = Len(line) + 1
  BY DEF Ask, InLine
<1>2. \A i \in DOMAIN line : line[i] # t
  BY <1>1 DEF InLine, OneReader
<1>3. /\ \A u \in Tasks \ {t} : stage'[u] = stage[u]
      /\ stage'[t] = IF line = <<>> THEN "writing" ELSE "queued"
  BY DEF Ask, Inv, Typed
<1>4. line = <<>> <=> Len(line) = 0
  BY <1>1, EmptySeq
<1>5. (\A u \in Tasks : stage[u] \in InCall <=> \E i \in DOMAIN line : line[i] = u)'
  <2> SUFFICES ASSUME NEW u \in Tasks
               PROVE  stage'[u] \in InCall <=> \E i \in DOMAIN line' : line'[i] = u
    BY DEF InCall
  <2>1. CASE u = t
    <3>1. Len(line) + 1 \in DOMAIN line'
      BY <1>1
    <3> QED BY <2>1, <3>1, <1>1, <1>3 DEF InCall
  <2>2. CASE u # t
    <3>1. stage[u] \in InCall <=> \E i \in DOMAIN line : line[i] = u
      BY DEF InLine, OneReader
    <3>2. (\E i \in DOMAIN line : line[i] = u) <=> \E i \in DOMAIN line' : line'[i] = u
      BY <2>2, <1>1
    <3> QED BY <2>2, <3>1, <3>2, <1>3
  <2> QED BY <2>1, <2>2
<1>6. (\A i \in DOMAIN line : stage[line[i]] = "queued" <=> i > 1)'
  <2> SUFFICES ASSUME NEW i \in DOMAIN line'
               PROVE  stage'[line'[i]] = "queued" <=> i > 1
    OBVIOUS
  <2>1. CASE i \in DOMAIN line
    <3>1. line'[i] = line[i] /\ line[i] \in Tasks \ {t}
      BY <2>1, <1>1, <1>2
    <3>2. stage[line[i]] = "queued" <=> i > 1
      BY <2>1 DEF InLine, OneReader
    <3> QED BY <3>1, <3>2, <1>3
  <2>2. CASE i = Len(line) + 1
    BY <2>2, <1>1, <1>3, <1>4
  <2> QED BY <2>1, <2>2, <1>1
<1>7. (\A i, j \in DOMAIN line : line[i] = line[j] => i = j)'
  <2> SUFFICES ASSUME NEW i \in DOMAIN line', NEW j \in DOMAIN line', line'[i] = line'[j]
               PROVE  i = j
    OBVIOUS
  <2>1. \A k, l \in DOMAIN line : line[k] = line[l] => k = l
    BY DEF InLine, OneReader
  <2> QED BY <2>1, <1>1, <1>2
<1> QED BY <1>1, <1>5, <1>6, <1>7 DEF InLine, OneReader

\* When tasks leave the line, the others keep their order: whoever is first now
\* goes on writing or reading, or is woken to write.
LEMMA LeaveLine ==
    ASSUME Inv, InLine, NEW S \in SUBSET Tasks,
           NEW next \in [S -> {"over", "backoff"}], Leave(S, next)
    PROVE  InLine'
<1> DEFINE first == IF line' = <<>> THEN NoCaller ELSE Head(line')
           woken == {t \in Tasks \ S : t = first /\ stage[t] = "queued"}
<1>1. PICK from \in [1 .. Len(line') -> DOMAIN line] :
        /\ line' \in Seq(Tasks)
        /\ \A k \in 1 .. Len(line') : line'[k] = line[from[k]] /\ line[from[k]] \notin S
        /\ \A k, l \in 1 .. Len(line') : k < l => from[k] < from[l]
        /\ \A i \in DOMAIN line : line[i] \notin S =>
              \E k \in 1 .. Len(line') : from[k] = i
  BY LineKeepsOrder DEF Leave, InLine
<1>2. /\ Len(line') \in Nat /\ DOMAIN line' = 1 .. Len(line')
      /\ Len(line) \in Nat /\ DOMAIN line = 1 .. Len(line)
      /\ \A i \in DOMAIN line : line[i] \in Tasks
      /\ \A k \in DOMAIN line' : from[k] \in DOMAIN line /\ line'[k] \in Tasks \ S
  BY <1>1 DEF InLine
<1>3. /\ \A t \in S : stage'[t] \in {"over", "backoff"}
      /\ \A t \in Tasks \ S : stage'[t] = IF t \in woken THEN "writing" ELSE stage[t]
  <2>1. stage' = [t \in Tasks |-> CASE t \in S     -> next[t]
                                     [] t \in woken -> "writing"
                                     [] OTHER       -> stage[t]]
    BY DEF Leave
  <2>2. \A t \in woken : t \notin S
    OBVIOUS
  <2> HIDE DEF woken
  <2>3. \A t \in S : stage'[t] \in {"over", "backoff"}
    <3> TAKE t \in S
    <3>1. next[t] \in {"over", "backoff"} /\ t \in Tasks
      OBVIOUS
    <3>2. stage'[t] = next[t]
      BY <2>1, <2>2, <3>1
    <3> QED BY <3>1, <3>2
  <2>4. \A t \in Tasks \ S : stage'[t] = IF t \in woken THEN "writing" ELSE stage[t]
    <3> TAKE t \in Tasks \ S
    <3>1. CASE t \in woken
      BY <2>1, <3>1
    <3>2. CASE t \notin woken
      BY <2>1, <3>2
    <3> QED BY <3>1, <3>2
  <2> QED BY <2>3, <2>4
<1>4. \A t \in woken : stage[t] = "queued" /\ t = first
  OBVIOUS
<1>5. \A k, l \in DOMAIN line' : line'[k] = line'[l] => k = l
  <2> SUFFICES ASSUME NEW k \in DOMAIN line', NEW l \in DOMAIN line', line'[k] = line'[l]
               PROVE  k = l
    OBVIOUS
  <2>1. from[k] = from[l]
    BY <1>1, <1>2 DEF InLine, OneReader
  <2>2. k \in Nat /\ l \in Nat /\ from[k] \in Nat
    BY <1>2
  <2>3. ~ (k < l) /\ ~ (l < k)
    BY <2>1, <2>2, <1>1, <1>2
  <2> QED BY <2>2, <2>3
<1>6. \A t \in Tasks \ S :
        (\E i \in DOMAIN line : line[i] = t) <=> \E k \in DOMAIN line' : line'[k] = t
  <2> TAKE t \in Tasks \ S
  <2>1. ASSUME NEW i \in DOMAIN line, line[i] = t
        PROVE  \E k \in DOMAIN line' : line'[k] = t
    <3>1. PICK k \in 1 .. Len(line') : from[k] = i
      BY <2>1, <1>1
    <3> QED BY <2>1, <3>1, <1>1, <1>2
  <2>2. ASSUME NEW k \in DOMAIN line', line'[k] = t
        PROVE  \E i \in DOMAIN line : line[i] = t
    BY <2>2, <1>1, <1>2
  <2> QED BY <2>1, <2>2
<1>7. (\A t \in Tasks : stage[t] \in InCall <=> \E i \in DOMAIN line : line[i] = t)'
  <2> SUFFICES ASSUME NEW t \in Tasks
               PROVE  stage'[t] \in InCall <=> \E k \in DOMAIN line' : line'[k] = t
    BY DEF InCall
  <2>1. CASE t \in S
    BY <2>1, <1>2, <1>3 DEF InCall
  <2>2. CASE t \notin S
    <3>1. stage[t] \in InCall <=> \E i \in DOMAIN line : line[i] = t
      BY DEF InLine, OneReader
    <3>2. stage'[t] \in InCall <=> stage[t] \in InCall
      <4> HIDE DEF woken
      <4> QED BY <2>2, <1>3, <1>4 DEF InCall
    <3> QED BY <2>2, <3>1, <3>2, <1>6
  <2> QED BY <2>1, <2>2
<1>8. (\A i \in DOMAIN line : stage[line[i]] = "queued" <=> i > 1)'
  <2> SUFFICES ASSUME NEW k \in DOMAIN line'
               PROVE  stage'[line'[k]] = "queued" <=> k > 1
    OBVIOUS
  <2>0. /\ k \in Nat /\ k >= 1 /\ 1 \in DOMAIN line' /\ line'[k] = line[from[k]]
        /\ from[k] \in DOMAIN line /\ from[1] \in DOMAIN line
        /\ from[k] \in Nat /\ from[1] \in Nat /\ from[1] >= 1
    BY <1>1, <1>2
  <2>1. first = line'[1]
    <3>1. line' # <<>>
      BY <1>1, <1>2, <2>0, EmptySeq
    <3> QED BY <3>1, <1>1
  <2>2. stage[line'[k]] = "queued" <=> from[k] > 1
    BY <2>0 DEF InLine, OneReader
  <2>3. CASE k = 1
    <3>1. stage[line'[k]] = "queued" => line'[k] \in woken
      BY <2>1, <2>3, <1>2
    <3> HIDE DEF woken
    <3> QED BY <2>3, <3>1, <1>2, <1>3
  <2>4. CASE k > 1
    <3>1. from[k] > from[1]
      BY <2>0, <2>4, <1>1, <1>2
    <3>2. from[k] > 1
      BY <3>1, <2>0
    <3>3. line'[k] # first
      BY <2>0, <2>1, <2>4, <1>5
    <3>4. line'[k] \notin woken
      BY <3>3
    <3> HIDE DEF woken
    <3> QED BY <2>2, <2>4, <3>2, <3>4, <1>2, <1>3
  <2> QED BY <2>0, <2>3, <2>4
<1> HIDE DEF woken
<1> QED BY <1>1, <1>5, <1>7, <1>8 DEF InLine, OneReader

LEMMA LeaveAloneLine ==
    ASSUME Inv, InLine, NEW t \in Tasks, NEW next \in {"over", "backoff"},
           LeaveAlone(t, next)
    PROVE  InLine'
<1>1. {t} \in SUBSET Tasks /\ [u \in {t} |-> next] \in [{t} -> {"over", "backoff"}]
  OBVIOUS
<1> QED BY <1>1, LeaveLine DEF LeaveAlone

-----------------------------------------------------------------------------
(* Attempts                                                                 *)

\* What the attempts of a call and the requests are bounded by.
Tries ==
    /\ \A t \in Callers : attempt[t] <= MaxRetries + 1
    /\ \A t \in Callers : stage[t] = "backoff" => attempt[t] <= MaxRetries
    /\ attempt[Boot] <= 2
    /\ lastId <= MaxId
    /\ stage[Boot] # "backoff"

LEMMA AskTries ==
    ASSUME Inv, Tries, NEW t \in Tasks, NEW n \in Nat, Ask(t, n),
           n <= IF t = Boot THEN 2 ELSE MaxRetries + 1
    PROVE  Tries'
<1>1. /\ \A u \in Tasks \ {t} : stage'[u] = stage[u] /\ attempt'[u] = attempt[u]
      /\ stage'[t] \in InCall /\ attempt'[t] = n
      /\ lastId' = lastId + 1 /\ lastId < MaxId
  BY DEF Ask, Inv, Typed, InCall
<1>2. Boot \in Tasks /\ Callers \subseteq Tasks /\ Boot \notin Callers
      /\ MaxRetries \in Nat /\ MaxId \in Nat /\ lastId \in Nat
  BY McpAssumption DEF Tasks, Inv, Typed
<1>3. (\A u \in Callers : attempt[u] <= MaxRetries + 1)'
  BY <1>1, <1>2 DEF Tries
<1>4. (\A u \in Callers : stage[u] = "backoff" => attempt[u] <= MaxRetries)'
  BY <1>1, <1>2 DEF Tries, InCall
<1>5. (attempt[Boot] <= 2 /\ stage[Boot] # "backoff")'
  BY <1>1, <1>2 DEF Tries, InCall
<1> QED BY <1>1, <1>2, <1>3, <1>4, <1>5 DEF Tries

LEMMA LeaveTries ==
    ASSUME Inv, Tries, NEW S \in SUBSET Tasks,
           NEW next \in [S -> {"over", "backoff"}], Leave(S, next), UNCHANGED lastId,
           \A t \in S : next[t] = "backoff" => t \in Callers /\ attempt[t] <= MaxRetries
    PROVE  Tries'
<1> DEFINE first == IF line' = <<>> THEN NoCaller ELSE Head(line')
           woken == {t \in Tasks \ S : t = first /\ stage[t] = "queued"}
<1>1. /\ stage' = [t \in Tasks |-> CASE t \in S     -> next[t]
                                     [] t \in woken -> "writing"
                                     [] OTHER       -> stage[t]]
      /\ attempt' = [t \in Tasks |->
                        IF t \in S /\ next[t] = "over" THEN 0 ELSE attempt[t]]
  BY DEF Leave
<1>2. \A t \in woken : t \notin S
  OBVIOUS
<1> HIDE DEF woken
<1>3. Boot \in Tasks /\ Callers \subseteq Tasks /\ Boot \notin Callers /\ MaxRetries \in Nat
  BY McpAssumption DEF Tasks
<1>4. \A t \in Tasks : stage'[t] = "backoff" =>
        \/ t \in S /\ next[t] = "backoff"
        \/ t \notin S /\ stage[t] = "backoff"
  <2> SUFFICES ASSUME NEW t \in Tasks, stage'[t] = "backoff"
               PROVE  \/ t \in S /\ next[t] = "backoff"
                      \/ t \notin S /\ stage[t] = "backoff"
    OBVIOUS
  <2>1. CASE t \in S
    BY <2>1, <1>1, <1>2
  <2>2. CASE t \in woken
    BY <2>2, <1>1, <1>2
  <2>3. CASE t \notin S /\ t \notin woken
    BY <2>3, <1>1
  <2> QED BY <2>1, <2>2, <2>3
<1>5. \A t \in Tasks : attempt'[t] = attempt[t] \/ attempt'[t] = 0
  BY <1>1
<1>6. \A t \in Callers : stage'[t] = "backoff" => attempt[t] <= MaxRetries
  BY <1>3, <1>4 DEF Tries
<1>7. (\A t \in Callers : attempt[t] <= MaxRetries + 1)'
  BY <1>3, <1>5 DEF Tries
<1>8. (\A t \in Callers : stage[t] = "backoff" => attempt[t] <= MaxRetries)'
  BY <1>3, <1>5, <1>6
<1>9. (attempt[Boot] <= 2 /\ stage[Boot] # "backoff")'
  BY <1>3, <1>4, <1>5 DEF Tries
<1> QED BY <1>7, <1>8, <1>9 DEF Tries

LEMMA LeaveAloneTries ==
    ASSUME Inv, Tries, NEW t \in Tasks, NEW next \in {"over", "backoff"},
           LeaveAlone(t, next), UNCHANGED lastId,
           next = "backoff" => t \in Callers /\ attempt[t] <= MaxRetries
    PROVE  Tries'
<1>1. {t} \in SUBSET Tasks /\ [u \in {t} |-> next] \in [{t} -> {"over", "backoff"}]
  OBVIOUS
<1> QED BY <1>1, LeaveTries DEF LeaveAlone

LEMMA BackoffAfterFailure ==
    ASSUME Inv, NEW t \in Tasks, AfterFailure(t) = "backoff"
    PROVE  t \in Callers /\ attempt[t] <= MaxRetries
<1>1. attempt[t] \in Nat /\ (t = Boot \/ t \in Callers) /\ Boot \notin Callers
      /\ MaxRetries \in Nat
  BY McpAssumption DEF Inv, Typed, Tasks
<1>2. CASE t = Boot
  BY <1>1, <1>2 DEF AfterFailure
<1>3. CASE t \in Callers /\ attempt[t] <= MaxRetries
  BY <1>3
<1>4. CASE t \in Callers /\ attempt[t] > MaxRetries
  BY <1>1, <1>4 DEF AfterFailure
<1> QED BY <1>1, <1>2, <1>3, <1>4

-----------------------------------------------------------------------------
(* Each step, once more, for the line and the attempts                      *)

CallInv == Inv /\ InLine /\ Tries

\* The rest of the connection's state, and a step that leaves a call alone.
LEMMA KeptCalls ==
    ASSUME CallInv, UNCHANGED <<stage, attempt, lastId, line>>
    PROVE  InLine' /\ Tries'
<1>1. InLine'
  BY SameLine DEF CallInv
<1> QED BY <1>1 DEF CallInv, Tries

LEMMA StartUpCalls ==
    ASSUME CallInv, StartUp
    PROVE  InLine' /\ Tries'
<1>0. Boot \in Tasks /\ Boot \notin Callers
  BY McpAssumption DEF Tasks
<1>1. CASE Connect
  <2>1. Ask(Boot, 1) /\ stage[Boot] \notin InCall
    BY <1>1 DEF Connect, InCall
  <2> QED BY <1>0, <2>1, AskLine, AskTries DEF CallInv
<1>2. CASE NoConnection
  <2>1. /\ UNCHANGED <<line, attempt, lastId>>
        /\ stage[Boot] = "idle" /\ stage'[Boot] = "over"
        /\ \A t \in Tasks \ {Boot} : stage'[t] = stage[t]
    BY <1>2, <1>0 DEF NoConnection, CallInv, Inv, Typed
  <2>2. InLine'
    BY <2>1, SameLine DEF CallInv, InCall
  <2>3. Tries'
    BY <1>0, <2>1 DEF CallInv, Tries, Tasks
  <2> QED BY <2>2, <2>3
<1>3. CASE ListTools
  <2>1. /\ UNCHANGED line /\ lastId' = lastId + 1 /\ lastId < MaxId
        /\ stage[Boot] = "reading" /\ stage'[Boot] = "writing" /\ attempt'[Boot] = 2
        /\ \A t \in Tasks \ {Boot} : stage'[t] = stage[t] /\ attempt'[t] = attempt[t]
    BY <1>3, <1>0 DEF ListTools, CallInv, Inv, Typed
  <2>2. InLine'
    BY <2>1, SameLine DEF CallInv, InCall
  <2>3. lastId \in Nat /\ MaxId \in Nat
    BY McpAssumption DEF CallInv, Inv, Typed
  <2>4. Tries'
    BY <1>0, <2>1, <2>3 DEF CallInv, Tries, Tasks
  <2> QED BY <2>2, <2>4
<1>4. CASE ToolsListed
  BY <1>0, <1>4, LeaveAloneLine, LeaveAloneTries DEF ToolsListed, CallInv
<1> QED BY <1>1, <1>2, <1>3, <1>4 DEF StartUp

LEMMA UseToolCalls ==
    ASSUME CallInv, NEW r \in Callers, UseTool(r)
    PROVE  InLine' /\ Tries'
<1>0. /\ r \in Tasks /\ r # Boot /\ attempt[r] \in Nat /\ MaxRetries \in Nat
  BY McpAssumption DEF Tasks, CallInv, Inv, Typed
<1>1. CASE CallTool(r)
  <2>1. Ask(r, 1) /\ stage[r] \notin InCall
    BY <1>1 DEF CallTool, InCall
  <2> QED BY <1>0, <2>1, AskLine, AskTries DEF CallInv
<1>2. CASE CallAgain(r)
  <2>1. Ask(r, attempt[r] + 1) /\ stage[r] \notin InCall /\ attempt[r] <= MaxRetries
    BY <1>2 DEF CallAgain, InCall, CallInv, Tries
  <2>2. attempt[r] + 1 \in Nat /\ attempt[r] + 1 <= MaxRetries + 1
    BY <1>0, <2>1
  <2> QED BY <1>0, <2>1, <2>2, AskLine, AskTries DEF CallInv
<1> QED BY <1>1, <1>2 DEF UseTool

LEMMA CallStepCalls ==
    ASSUME CallInv, NEW t \in Tasks, CallStep(t)
    PROVE  InLine' /\ Tries'
<1>1. CASE Drained(t)
  <2>1. /\ UNCHANGED <<line, attempt, lastId>>
        /\ stage[t] = "writing" /\ stage'[t] = "reading"
        /\ \A u \in Tasks \ {t} : stage'[u] = stage[u]
    BY <1>1 DEF Drained, CallInv, Inv, Typed
  <2>2. InLine'
    BY <2>1, SameLine DEF CallInv, InCall
  <2>3. Tries'
    BY <2>1 DEF CallInv, Tries, Tasks
  <2> QED BY <2>2, <2>3
<1>2. CASE Skip(t)
  BY <1>2, KeptCalls DEF Skip
<1>3. CASE \/ WriteRaises(t) \/ ReadFails(t) \/ Refused(t) \/ Malformed(t)
           \/ Answered(t) \/ TimeLimit(t)
  <2>1. PICK next \in {"over", "backoff"} :
          /\ LeaveAlone(t, next) /\ UNCHANGED lastId
          /\ next = "backoff" => next = AfterFailure(t)
    BY <1>3, FailureLeaves
       DEF WriteRaises, ReadFails, Refused, Malformed, Fail, Answered, TimeLimit,
           CallInv
  <2>2. next = "backoff" => t \in Callers /\ attempt[t] <= MaxRetries
    BY <2>1, BackoffAfterFailure DEF CallInv
  <2> QED BY <2>1, <2>2, LeaveAloneLine, LeaveAloneTries DEF CallInv
<1> QED BY <1>1, <1>2, <1>3 DEF CallStep

LEMMA CancelCalls ==
    ASSUME CallInv, NEW S \in SUBSET Callers, CancelRuns(S), UNCHANGED lastId
    PROVE  InLine' /\ Tries'
<1>1. PICK C \in SUBSET Tasks : Leave(C, [t \in C |-> "over"])
  <2> DEFINE C == {r \in {q \in ToCancel(S) : Finishes(q)} :
                      stage[r] \in InCall \cup {"backoff"}}
  <2>1. C \in SUBSET Tasks
    BY DEF ToCancel, Live, Tasks
  <2>2. Leave(C, [t \in C |-> "over"])
    BY DEF CancelRuns
  <2> QED BY <2>1, <2>2
<1>2. [t \in C |-> "over"] \in [C -> {"over", "backoff"}]
  OBVIOUS
<1> QED BY <1>1, <1>2, LeaveLine, LeaveTries DEF CallInv

LEMMA CallInvInit == DaemonInit => CallInv
<1> SUFFICES ASSUME DaemonInit PROVE CallInv
  OBVIOUS
<1>1. /\ stage = [t \in Tasks |-> "idle"] /\ attempt = [t \in Tasks |-> 0]
      /\ line = <<>> /\ lastId = 0
  BY DEF DaemonInit, McpInit
<1>2. InLine
  BY <1>1 DEF InLine, OneReader, InCall
<1>3. Tries
  BY <1>1, McpAssumption DEF Tries, Tasks
<1> QED BY <1>2, <1>3, InitInv DEF CallInv

LEMMA CallInvStep ==
    ASSUME CallInv, [DaemonNext]_daemonVars
    PROVE  CallInv'
<1>0. Inv'
  BY DaemonStep DEF CallInv
<1>1. CASE McpStarts
  BY <1>0, <1>1, StartUpCalls DEF McpStarts, CallInv
<1>2. CASE Serve \/ Tracing \/ UNCHANGED daemonVars
  <2>1. UNCHANGED <<stage, attempt, lastId, line>>
    BY <1>2 DEF Serve, Tracing, daemonVars, mcpVars
  <2> QED BY <1>0, <2>1, KeptCalls DEF CallInv
<1>3. ASSUME NEW r \in Callers, RunStep(r)
      PROVE  CallInv'
  <2>1. CASE UseTool(r)
    BY <1>0, <2>1, UseToolCalls DEF CallInv
  <2>2. CASE ~UseTool(r)
    <3>1. UNCHANGED <<stage, attempt, lastId, line>>
      BY <1>3, <2>2 DEF RunStep, StartRun, Begin, BeginRaises, AskLlm, LlmAnswers,
                        Finish, Published, mcpVars
    <3> QED BY <1>0, <3>1, KeptCalls DEF CallInv
  <2> QED BY <1>3, <2>1, <2>2 DEF RunStep
<1>4. ASSUME NEW t \in Tasks, InTool(t)
      PROVE  CallInv'
  BY <1>0, <1>4, CallStepCalls DEF InTool, CallInv
<1>5. CASE Environment
  <2>1. UNCHANGED <<stage, attempt, lastId, line>>
    BY <1>5 DEF Environment, ServerAnswers, ServerSpeaks
  <2> QED BY <1>0, <2>1, KeptCalls DEF CallInv
<1>6. CASE Shutdown
  BY <1>0, <1>6, DaemonAssumption, CancelCalls DEF Shutdown, CallInv
<1>7. CASE ShutdownStep
  <2>1. CASE Gathered \/ CloseMcp \/ CloseServer \/ CloseTrace \/ Stop
    <3>1. UNCHANGED <<stage, attempt, lastId, line>>
      BY <2>1 DEF Gathered, CloseMcp, CloseServer, CloseTrace, Stop, mcpVars
    <3> QED BY <1>0, <3>1, KeptCalls DEF CallInv
  <2>2. CASE CancelRest
    BY <1>0, <2>2, CancelCalls DEF CancelRest, CallInv
  <2> QED BY <1>7, <2>1, <2>2 DEF ShutdownStep
<1> QED BY <1>1, <1>2, <1>3, <1>4, <1>5, <1>6, <1>7 DEF DaemonNext

-----------------------------------------------------------------------------
(* The server's process, the runs and the trace                             *)

CoreTyped ==
    /\ proc \in {"off", "started", "terminated"}
    /\ managed \in BOOLEAN /\ offered \in BOOLEAN
    /\ pending \in Seq(Records) /\ saved \subseteq Records
    /\ drain \in {"running", "dead", "stopped"}
    /\ phase \in {"starting", "serving", "gathering", "closing mcp",
                  "closing server", "closing trace", "closed", "leaving",
                  "stopped"}
    /\ run \in [Callers -> {"off", "over"} \cup InProgress]
    /\ awaited \subseteq OneShot

\* A record has been handed to the trace; it is not lost, unless the draining
\* task died of a write.
Seen(x)   == x \in saved \/ \E i \in DOMAIN pending : pending[i] = x
Traced(x) == Seen(x) \/ drain = "dead"

\* A run that has asked the LLM and has begun to publish run.finished, or is
\* over, has put it in the trace.
Recorded(r) ==
    /\ run[r] \in {"off", "beginning", "opening"} => ~Seen(<<r, "call">>)
    /\ run[r] \in {"finishing", "over"} /\ Seen(<<r, "call">>) =>
          Traced(<<r, "finished">>)

Gathering == {"closing mcp", "closing server", "closing trace", "closed",
              "leaving", "stopped"}

\* After gather() the runs it waited for are over.
Accounted ==
    /\ \A r \in Callers : Recorded(r)
    /\ phase \in {"starting", "serving"} => awaited = {}
    /\ phase \in Gathering => \A r \in awaited : run[r] = "over"
    /\ drain = "stopped" => phase \in {"closed", "leaving", "stopped"}

TraceInv == CoreTyped /\ Accounted /\ TraceWhole

\* Putting records in the queue loses none.
LEMMA EmitKeeps ==
    ASSUME CoreTyped, NEW recs \in Seq(Records), Emit(recs)
    PROVE  /\ pending' \in Seq(Records) /\ UNCHANGED <<saved, drain>>
           /\ \A x : Traced(x) => Traced(x)'
           /\ \A x : Seen(x)' => Seen(x) \/ \E i \in DOMAIN recs : recs[i] = x
           /\ \A i \in DOMAIN recs : Traced(recs[i])'
           /\ \A j \in DOMAIN pending' :
                 \/ \E i \in DOMAIN pending : pending'[j] = pending[i]
                 \/ \E i \in DOMAIN recs : pending'[j] = recs[i]
<1>1. /\ pending' = pending \o recs /\ UNCHANGED <<saved, drain>>
      /\ pending \in Seq(Records)
  BY DEF Emit, CoreTyped
<1>2. /\ pending' \in Seq(Records) /\ Len(pending') = Len(pending) + Len(recs)
      /\ Len(pending) \in Nat /\ Len(recs) \in Nat
      /\ DOMAIN pending' = 1 .. Len(pending')
      /\ DOMAIN pending = 1 .. Len(pending) /\ DOMAIN recs = 1 .. Len(recs)
      /\ \A j \in 1 .. Len(pending) + Len(recs) :
            pending'[j] = IF j <= Len(pending) THEN pending[j] ELSE recs[j - Len(pending)]
  BY <1>1, ConcatProperties
<1>3. \A i \in DOMAIN pending : i \in DOMAIN pending' /\ pending'[i] = pending[i]
  BY <1>2
<1>4. \A i \in DOMAIN recs :
        i + Len(pending) \in DOMAIN pending' /\ pending'[i + Len(pending)] = recs[i]
  BY <1>2
<1>5. \A x : Traced(x) => Traced(x)'
  BY <1>1, <1>3 DEF Traced, Seen
<1>6. \A i \in DOMAIN recs : Traced(recs[i])'
  BY <1>4 DEF Traced, Seen
<1>7. \A j \in DOMAIN pending' :
         \/ \E i \in DOMAIN pending : pending'[j] = pending[i]
         \/ \E i \in DOMAIN recs : pending'[j] = recs[i]
  <2> TAKE j \in DOMAIN pending'
  <2>1. CASE j <= Len(pending)
    BY <2>1, <1>2
  <2>2. CASE ~ (j <= Len(pending))
    <3>1. j - Len(pending) \in DOMAIN recs /\ pending'[j] = recs[j - Len(pending)]
      BY <2>2, <1>2
    <3> QED BY <3>1
  <2> QED BY <2>1, <2>2
<1>8. \A x : Seen(x)' => Seen(x) \/ \E i \in DOMAIN recs : recs[i] = x
  BY <1>1, <1>7 DEF Seen
<1> QED BY <1>1, <1>2, <1>5, <1>6, <1>7, <1>8

\* One record of one run.
LEMMA EmitOne ==
    ASSUME CoreTyped, NEW x \in Records, Emit(<<x>>)
    PROVE  /\ pending' \in Seq(Records) /\ UNCHANGED <<saved, drain>>
           /\ \A y : Traced(y) => Traced(y)'
           /\ \A y : Seen(y)' => Seen(y) \/ y = x
           /\ Traced(x)'
           /\ \A j \in DOMAIN pending' :
                 pending'[j] = x \/ \E i \in DOMAIN pending : pending'[j] = pending[i]
<1>1. <<x>> \in Seq(Records) /\ DOMAIN <<x>> = {1} /\ <<x>>[1] = x
  OBVIOUS
<1>2. \A i \in DOMAIN <<x>> : <<x>>[i] = x
  BY <1>1
<1> HIDE DEF Traced, Seen
<1>3. /\ pending' \in Seq(Records) /\ UNCHANGED <<saved, drain>>
      /\ \A y : Traced(y) => Traced(y)'
      /\ Traced(x)'
      /\ \A j \in DOMAIN pending' :
            pending'[j] = x \/ \E i \in DOMAIN pending : pending'[j] = pending[i]
  <2>1. /\ pending' \in Seq(Records) /\ UNCHANGED <<saved, drain>>
        /\ \A y : Traced(y) => Traced(y)'
    BY <1>1, EmitKeeps
  <2>2. \A i \in DOMAIN <<x>> : Traced(<<x>>[i])'
    BY <1>1, EmitKeeps
  <2>3. Traced(x)'
    <3>1. 1 \in DOMAIN <<x>>
      BY <1>1
    <3>2. Traced(<<x>>[1])'
      BY <2>2, <3>1
    <3> QED BY <3>2, <1>1
  <2>4. \A j \in DOMAIN pending' :
           \/ \E i \in DOMAIN pending : pending'[j] = pending[i]
           \/ \E i \in DOMAIN <<x>> : pending'[j] = <<x>>[i]
    BY <1>1, EmitKeeps
  <2> QED BY <2>1, <2>3, <2>4, <1>2
<1>4. \A y : Seen(y)' => Seen(y) \/ \E i \in DOMAIN <<x>> : <<x>>[i] = y
  BY <1>1, EmitKeeps
<1>5. \A y : Seen(y)' => Seen(y) \/ y = x
  BY <1>2, <1>4
<1> QED BY <1>3, <1>5

\* A step of run r that publishes x, in a phase that does not change: r is at
\* work, so it is none of those that gather() has waited for.
LEMMA RunTraces ==
    ASSUME TraceInv, NEW r \in Callers, NEW event \in {"call", "finished"},
           NEW next \in InProgress,
           run[r] \notin {"finishing", "over"},
           run' = [run EXCEPT ![r] = next],
           next = "asking" \/ (next = "finishing" /\ event = "finished"),
           Emit(<<<<r, event>>>>),
           UNCHANGED <<proc, managed, offered, phase, awaited>>
    PROVE  TraceInv'
<1> DEFINE x == <<r, event>>
<1>1. x \in Records /\ x[1] = r /\ CoreTyped
  BY DEF Records, TraceInv
<1>2. /\ pending' \in Seq(Records) /\ UNCHANGED <<saved, drain>>
      /\ \A y : Traced(y) => Traced(y)'
      /\ \A y : Seen(y)' => Seen(y) \/ y = x
      /\ Traced(x)'
      /\ \A j \in DOMAIN pending' :
            pending'[j] = x \/ \E i \in DOMAIN pending : pending'[j] = pending[i]
  <2> HIDE DEF Traced, Seen
  <2> QED BY <1>1, EmitOne
<1>3. /\ run' \in [Callers -> {"off", "over"} \cup InProgress]
      /\ run'[r] = next /\ \A q \in Callers \ {r} : run'[q] = run[q]
  BY <1>1 DEF CoreTyped
<1>4. awaited \subseteq Callers
  BY <1>1, DaemonAssumption DEF CoreTyped
<1>5. CoreTyped'
  BY <1>1, <1>2, <1>3 DEF CoreTyped
<1>6. Accounted'
  <2>1. \A q \in Callers : Recorded(q)'
    <3> SUFFICES ASSUME NEW q \in Callers PROVE Recorded(q)'
      OBVIOUS
    <3>1. CASE q = r
      <4>1. run'[q] = "asking" \/ (run'[q] = "finishing" /\ Traced(<<q, "finished">>)')
        <5> HIDE DEF Traced
        <5> QED BY <3>1, <1>2, <1>3
      <4> HIDE DEF Traced, Seen
      <4> QED BY <4>1 DEF Recorded
    <3>2. CASE q # r
      <4>1. Recorded(q) /\ run'[q] = run[q] /\ <<q, "call">> # x
        BY <3>2, <1>3 DEF TraceInv, Accounted
      <4> HIDE DEF Traced, Seen, x
      <4> QED BY <4>1, <1>2 DEF Recorded
    <3> QED BY <3>1, <3>2
  <2>2. phase \in Gathering => \A q \in awaited : run'[q] = "over"
    BY <1>3, <1>4 DEF TraceInv, Accounted
  <2> HIDE DEF Recorded
  <2> QED BY <2>1, <2>2, <1>2 DEF TraceInv, Accounted
<1>7. TraceWhole'
  <2> SUFFICES ASSUME phase \in {"closed", "leaving", "stopped"}, drain = "stopped",
                      NEW q \in awaited
               PROVE  /\ <<q, "call">> \in saved => <<q, "finished">> \in saved
                      /\ \A j \in DOMAIN pending' : pending'[j][1] # q
    BY <1>2 DEF TraceWhole
  <2>1. q # r
    BY DEF TraceInv, Accounted, Gathering
  <2>2. /\ <<q, "call">> \in saved => <<q, "finished">> \in saved
        /\ \A i \in DOMAIN pending : pending[i][1] # q
    BY DEF TraceInv, TraceWhole
  <2> QED BY <2>1, <2>2, <1>1, <1>2
<1> QED BY <1>5, <1>6, <1>7 DEF TraceInv

\* Nothing is traced, and the runs, the phase and awaited stay as they are.
LEMMA KeptTrace ==
    ASSUME TraceInv, CoreTyped',
           UNCHANGED <<pending, saved, drain, phase, run, awaited>>
    PROVE  TraceInv'
BY DEF TraceInv, Accounted, Recorded, TraceWhole, Traced, Seen

\* A run goes on without a record: it is not over before, and only one that has
\* begun to publish run.finished, or has not asked the LLM, is over after it.
LEMMA QuietTraces ==
    ASSUME TraceInv, NEW r \in Callers, NEW next \in {"over"} \cup InProgress,
           run[r] # "over",
           run' = [run EXCEPT ![r] = next],
           next \in {"beginning", "opening"} => run[r] \in {"off", "beginning"},
           next = "over" => run[r] \in {"beginning", "finishing"},
           next # "finishing",
           UNCHANGED <<pending, saved, drain, proc, managed, offered, phase, awaited>>
    PROVE  TraceInv'
<1>1. /\ run' \in [Callers -> {"off", "over"} \cup InProgress]
      /\ run'[r] = next /\ \A q \in Callers \ {r} : run'[q] = run[q]
  BY DEF TraceInv, CoreTyped
<1>2. awaited \subseteq Callers
  BY DaemonAssumption DEF TraceInv, CoreTyped
<1>3. CoreTyped'
  BY <1>1 DEF TraceInv, CoreTyped
<1>4. (\A x : Seen(x) <=> Seen(x)') /\ (\A x : Traced(x) <=> Traced(x)')
  BY DEF Seen, Traced
<1>5. \A q \in Callers : Recorded(q)'
  <2> SUFFICES ASSUME NEW q \in Callers PROVE Recorded(q)'
    OBVIOUS
  <2>1. Recorded(q)
    BY DEF TraceInv, Accounted
  <2> HIDE DEF Seen, Traced
  <2>2. Seen(<<q, "call">>)' => Seen(<<q, "call">>)
    BY <1>4
  <2>3. Traced(<<q, "finished">>) => Traced(<<q, "finished">>)'
    BY <1>4
  <2>4. CASE q = r
    <3>1. CASE next = "over" \/ next \in {"beginning", "opening"}
      BY <1>1, <2>1, <2>2, <2>3, <2>4, <3>1 DEF Recorded
    <3>2. CASE next \in {"asking", "working"}
      BY <1>1, <2>4, <3>2 DEF Recorded
    <3> QED BY <3>1, <3>2 DEF InProgress, InTry
  <2>5. CASE q # r
    BY <1>1, <2>1, <2>2, <2>3, <2>5 DEF Recorded
  <2> QED BY <2>4, <2>5
<1>6. phase \in Gathering => \A q \in awaited : run'[q] = "over"
  BY <1>1, <1>2 DEF TraceInv, Accounted
<1>7. Accounted'
  <2> HIDE DEF Recorded
  <2> QED BY <1>5, <1>6 DEF TraceInv, Accounted
<1> QED BY <1>3, <1>7 DEF TraceInv, TraceWhole

LEMMA WritingTraces ==
    ASSUME TraceInv, Tracing
    PROVE  TraceInv'
<1>0. UNCHANGED <<proc, managed, offered, phase, run, awaited>>
  BY DEF Tracing, mcpVars, coreVars
<1>1. /\ drain = "running" /\ pending # <<>> /\ pending \in Seq(Records)
      /\ pending' = Tail(pending)
      /\ \/ drain' = "running" /\ saved' = saved \cup {Head(pending)}
         \/ drain' = "dead" /\ saved' = saved
  BY DEF Tracing, Write, WriteFails, TraceInv, CoreTyped
<1>2. /\ Head(pending) \in Records /\ Tail(pending) \in Seq(Records)
      /\ Len(Tail(pending)) = Len(pending) - 1 /\ Len(pending) \in Nat \ {0}
      /\ \A i \in 1 .. Len(Tail(pending)) : Tail(pending)[i] = pending[i + 1]
      /\ Head(pending) = pending[1]
  BY <1>1, HeadTailProperties, EmptySeq
<1>3. \A x : Traced(x) => Traced(x)'
  <2> SUFFICES ASSUME NEW x, Traced(x) PROVE Traced(x)'
    OBVIOUS
  <2>1. CASE x \in saved \/ drain' = "dead"
    BY <2>1, <1>1 DEF Traced, Seen
  <2>2. CASE drain' = "running" /\ \E i \in DOMAIN pending : pending[i] = x
    <3>1. PICK i \in 1 .. Len(pending) : pending[i] = x
      BY <2>2, <1>1
    <3>2. CASE i = 1
      BY <3>1, <3>2, <2>2, <1>1, <1>2 DEF Traced, Seen
    <3>3. CASE i # 1
      <4>1. i - 1 \in 1 .. Len(Tail(pending)) /\ pending'[i - 1] = x
        BY <3>1, <3>3, <1>1, <1>2
      <4>2. i - 1 \in DOMAIN pending'
        BY <4>1, <1>1, <1>2
      <4> QED BY <4>1, <4>2 DEF Traced, Seen
    <3> QED BY <3>2, <3>3
  <2> QED BY <2>1, <2>2, <1>1 DEF Traced, Seen
<1>a. \A x : Seen(x)' => Seen(x)
  <2> SUFFICES ASSUME NEW x, Seen(x)' PROVE Seen(x)
    OBVIOUS
  <2>1. CASE x \in saved'
    BY <2>1, <1>1, <1>2 DEF Seen
  <2>2. CASE \E i \in DOMAIN pending' : pending'[i] = x
    <3>1. PICK i \in 1 .. Len(Tail(pending)) : pending'[i] = x
      BY <2>2, <1>1, <1>2
    <3>2. i + 1 \in DOMAIN pending /\ pending[i + 1] = x
      BY <3>1, <1>1, <1>2
    <3> QED BY <3>2 DEF Seen
  <2> QED BY <2>1, <2>2 DEF Seen
<1>4. CoreTyped'
  BY <1>0, <1>1, <1>2 DEF TraceInv, CoreTyped
<1>5. Accounted'
  <2>1. \A r \in Callers : Recorded(r)'
    <3> HIDE DEF Traced, Seen
    <3> QED BY <1>0, <1>3, <1>a DEF TraceInv, Accounted, Recorded
  <2> HIDE DEF Recorded
  <2> QED BY <2>1, <1>0, <1>1 DEF TraceInv, Accounted
<1>6. TraceWhole'
  BY <1>1 DEF TraceWhole
<1> QED BY <1>4, <1>5, <1>6 DEF TraceInv

\* Cancelling runs traces the run.finished of each that was at work; the runs
\* that gather() has waited for are over and are left alone.
LEMMA CancelTraces ==
    ASSUME TraceInv, NEW S \in SUBSET Callers, CancelRuns(S)
    PROVE  /\ pending' \in Seq(Records) /\ UNCHANGED <<saved, drain>>
           /\ run' \in [Callers -> {"off", "over"} \cup InProgress]
           /\ \A r \in Callers : Recorded(r)'
           /\ \A r \in Callers : run[r] = "over" =>
                 /\ run'[r] = "over"
                 /\ (\A i \in DOMAIN pending : pending[i][1] # r) =>
                       \A j \in DOMAIN pending' : pending'[j][1] # r
<1> DEFINE cut     == ToCancel(S)
           working == {r \in cut : Finishes(r)}
           recs    == [i \in 1 .. Cardinality(working) |->
                          <<SetToSeq(working)[i], "finished">>]
<1>1. /\ run' = [r \in Callers |-> CASE r \in working       -> "finishing"
                                      [] r \in cut \ working -> "over"
                                      [] OTHER               -> run[r]]
      /\ Emit(recs)
  BY DEF CancelRuns
<1>2. /\ cut = {r \in S : run[r] \in InProgress}
      /\ working \subseteq Callers /\ IsFiniteSet(working)
  BY DaemonAssumption, FS_Subset DEF ToCancel, Live
<1>3. \A r \in Callers : run[r] \in {"off", "over"} \cup InProgress
  BY DEF TraceInv, CoreTyped
<1>4. \A r \in Callers :
        /\ r \in working => run'[r] = "finishing" /\ run[r] \in InTry
        /\ r \in cut \ working => run'[r] = "over" /\ run[r] \in {"beginning", "finishing"}
        /\ r \notin cut => run'[r] = run[r]
  <2> SUFFICES ASSUME NEW r \in Callers
               PROVE  /\ r \in working => run'[r] = "finishing" /\ run[r] \in InTry
                      /\ r \in cut \ working =>
                            run'[r] = "over" /\ run[r] \in {"beginning", "finishing"}
                      /\ r \notin cut => run'[r] = run[r]
    OBVIOUS
  <2>1. run'[r] = CASE r \in working       -> "finishing"
                    [] r \in cut \ working -> "over"
                    [] OTHER               -> run[r]
    BY <1>1
  <2>2. working \subseteq cut
    OBVIOUS
  <2>3. CASE r \in working
    BY <2>1, <2>3 DEF Finishes
  <2>4. CASE r \in cut \ working
    <3>1. run[r] \in InProgress /\ run[r] \notin InTry
      BY <2>4, <1>2 DEF Finishes
    <3> QED BY <2>1, <2>4, <3>1 DEF InProgress
  <2>5. CASE r \notin cut
    BY <2>1, <2>2, <2>5
  <2> QED BY <2>3, <2>4, <2>5
<1> HIDE DEF cut, working
<1>5. /\ Cardinality(working) \in Nat
      /\ \A i \in 1 .. Cardinality(working) : SetToSeq(working)[i] \in working
      /\ \A r \in working : \E i \in 1 .. Cardinality(working) : SetToSeq(working)[i] = r
  BY <1>2, Enumerated
<1>6. /\ recs \in Seq(Records) /\ DOMAIN recs = 1 .. Cardinality(working)
      /\ \A i \in DOMAIN recs : recs[i] = <<SetToSeq(working)[i], "finished">>
  BY <1>2, <1>5 DEF Records
<1> HIDE DEF recs
<1>a. PICK R : R = recs
  OBVIOUS
<1>7. /\ pending' \in Seq(Records) /\ UNCHANGED <<saved, drain>>
      /\ \A x : Traced(x) => Traced(x)'
      /\ \A x : Seen(x)' => Seen(x) \/ \E i \in DOMAIN R : R[i] = x
      /\ \A i \in DOMAIN R : Traced(R[i])'
      /\ \A j \in DOMAIN pending' :
            \/ \E i \in DOMAIN pending : pending'[j] = pending[i]
            \/ \E i \in DOMAIN R : pending'[j] = R[i]
  <2>1. R \in Seq(Records) /\ Emit(R)
    BY <1>1, <1>6, <1>a
  <2> HIDE DEF Traced, Seen
  <2> QED BY <2>1, EmitKeeps DEF TraceInv
<1>8. run' \in [Callers -> {"off", "over"} \cup InProgress]
  <2>1. \A r \in Callers : run'[r] \in {"off", "over"} \cup InProgress
    BY <1>3, <1>4 DEF InProgress, InTry
  <2> QED BY <1>1, <2>1
<1>9. \A r \in Callers : Recorded(r)'
  <2> SUFFICES ASSUME NEW r \in Callers PROVE Recorded(r)'
    OBVIOUS
  <2>1. Recorded(r)
    BY DEF TraceInv, Accounted
  <2>2. Seen(<<r, "call">>)' => Seen(<<r, "call">>)
    <3>1. \A i \in DOMAIN R : R[i] # <<r, "call">>
      BY <1>6, <1>a
    <3> HIDE DEF Seen
    <3> QED BY <3>1, <1>7
  <2> HIDE DEF Traced, Seen
  <2>3. CASE r \in working
    <3>1. PICK i \in DOMAIN R : R[i] = <<r, "finished">>
      BY <2>3, <1>5, <1>6, <1>a
    <3>2. run'[r] = "finishing" /\ Traced(<<r, "finished">>)'
      BY <2>3, <3>1, <1>4, <1>7
    <3> QED BY <3>2 DEF Recorded
  <2>4. CASE r \in cut \ working
    BY <2>1, <2>2, <2>4, <1>4, <1>7 DEF Recorded
  <2>5. CASE r \notin cut
    BY <2>1, <2>2, <2>5, <1>4, <1>7 DEF Recorded
  <2> QED BY <2>3, <2>4, <2>5
<1>10. \A r \in Callers : run[r] = "over" =>
          /\ run'[r] = "over"
          /\ (\A i \in DOMAIN pending : pending[i][1] # r) =>
                \A j \in DOMAIN pending' : pending'[j][1] # r
  <2> SUFFICES ASSUME NEW r \in Callers, run[r] = "over"
               PROVE  /\ run'[r] = "over"
                      /\ (\A i \in DOMAIN pending : pending[i][1] # r) =>
                            \A j \in DOMAIN pending' : pending'[j][1] # r
    OBVIOUS
  <2>1. r \notin working /\ r \notin cut
    BY <1>2, <1>4 DEF InProgress, InTry
  <2>2. \A i \in DOMAIN R : R[i][1] # r
    BY <2>1, <1>5, <1>6, <1>a
  <2>3. run'[r] = "over"
    BY <2>1, <1>4
  <2> QED BY <2>2, <2>3, <1>7
<1> QED BY <1>7, <1>8, <1>9, <1>10

\* The shutdown goes on: nothing is traced, and no run is at another place.
LEMMA PhaseTraces ==
    ASSUME TraceInv, ShutdownStep, ~CancelRest
    PROVE  TraceInv'
<1>1. CASE Gathered
  <2>1. /\ UNCHANGED <<proc, managed, offered, pending, saved, drain, run, awaited>>
        /\ phase = "gathering" /\ phase' = "closing mcp"
        /\ \A r \in awaited : run[r] = "over"
    BY <1>1 DEF Gathered, mcpVars, traceVars
  <2>2. CoreTyped' /\ Accounted'
    BY <2>1 DEF TraceInv, CoreTyped, Accounted, Recorded, Traced, Seen
  <2> QED BY <2>1, <2>2 DEF TraceInv, TraceWhole
<1>2. CASE CloseMcp
  <2>1. /\ UNCHANGED <<offered, pending, saved, drain, run, awaited>>
        /\ phase = "closing mcp" /\ phase' = "closing server"
        /\ proc' \in {proc, "terminated"} /\ managed' = FALSE
    BY <1>2 DEF CloseMcp, Closed, traceVars
  <2>2. CoreTyped' /\ Accounted'
    BY <2>1 DEF TraceInv, CoreTyped, Accounted, Recorded, Traced, Seen, Gathering
  <2> QED BY <2>1, <2>2 DEF TraceInv, TraceWhole
<1>3. CASE CloseServer
  <2>1. /\ UNCHANGED <<proc, managed, offered, pending, saved, drain, run, awaited>>
        /\ phase = "closing server" /\ phase' = "closing trace"
    BY <1>3 DEF CloseServer, mcpVars, traceVars
  <2>2. CoreTyped' /\ Accounted'
    BY <2>1 DEF TraceInv, CoreTyped, Accounted, Recorded, Traced, Seen, Gathering
  <2> QED BY <2>1, <2>2 DEF TraceInv, TraceWhole
<1>4. CASE CloseTrace
  <2>1. /\ UNCHANGED <<proc, managed, offered, pending, saved, run, awaited>>
        /\ phase = "closing trace" /\ phase' = "closed" /\ pending = <<>>
        /\ drain' = IF drain = "running" THEN "stopped" ELSE drain
    BY <1>4 DEF CloseTrace, StopTracing, mcpVars
  <2>2. CoreTyped' /\ Accounted'
    BY <2>1 DEF TraceInv, CoreTyped, Accounted, Recorded, Traced, Seen, Gathering
  <2>3. drain # "stopped" /\ awaited \subseteq Callers
    BY <2>1, DaemonAssumption DEF TraceInv, Accounted, CoreTyped
  <2>4. \A r \in awaited : <<r, "call">> \in saved => Traced(<<r, "finished">>)
    BY <2>1, <2>3 DEF TraceInv, Accounted, Recorded, Seen, Gathering
  <2>5. DOMAIN pending = {} /\ DOMAIN pending' = {}
    <3>1. pending = <<>> /\ pending' = <<>>
      BY <2>1
    <3>2. DOMAIN <<>> = 1 .. 0
      BY EmptySeq, LenProperties
    <3> QED BY <3>1, <3>2
  <2>6. drain' = "stopped" => drain = "running"
    BY <2>1, <2>3
  <2>7. drain' = "stopped" =>
           \A r \in awaited : <<r, "call">> \in saved => <<r, "finished">> \in saved
    BY <2>4, <2>5, <2>6 DEF Traced, Seen
  <2>8. TraceWhole'
    BY <2>1, <2>5, <2>7 DEF TraceWhole
  <2> QED BY <2>2, <2>8 DEF TraceInv
<1>5. CASE Stop
  <2>1. /\ UNCHANGED <<proc, managed, offered, pending, saved, drain, run, awaited>>
        /\ phase = "leaving" /\ phase' = "stopped"
    BY <1>5 DEF Stop, mcpVars, traceVars
  <2>2. CoreTyped' /\ Accounted'
    BY <2>1 DEF TraceInv, CoreTyped, Accounted, Recorded, Traced, Seen, Gathering
  <2> QED BY <2>1, <2>2 DEF TraceInv, TraceWhole
<1> QED BY <1>1, <1>2, <1>3, <1>4, <1>5 DEF ShutdownStep

LEMMA TraceInvStep ==
    ASSUME TraceInv, [DaemonNext]_daemonVars
    PROVE  TraceInv'
<1>1. CASE McpStarts \/ (\E r \in Callers : UseTool(r)) \/ (\E t \in Tasks : InTool(t))
           \/ Environment \/ UNCHANGED daemonVars
  <2>1. UNCHANGED <<pending, saved, drain, phase, run, awaited>>
    BY <1>1 DEF McpStarts, UseTool, InTool, Environment, traceVars, coreVars, daemonVars
  <2>2. proc' \in {"off", "started", "terminated"} /\ managed' \in BOOLEAN /\ offered' \in BOOLEAN
    <3>0. proc \in {"off", "started", "terminated"} /\ managed \in BOOLEAN /\ offered \in BOOLEAN
      BY DEF TraceInv, CoreTyped
    <3>1. CASE McpStarts
      BY <3>0, <3>1 DEF McpStarts, StartUp, Connect, NoConnection, ListTools, ToolsListed
    <3>2. CASE (\E r \in Callers : UseTool(r)) \/ Environment \/ UNCHANGED daemonVars
      BY <3>0, <3>2 DEF UseTool, CallTool, CallAgain, Environment, ServerAnswers,
                        ServerSpeaks, daemonVars, mcpVars
    <3>3. CASE \E t \in Tasks : InTool(t)
      BY <3>0, <3>3 DEF InTool, CallStep, Drained, WriteRaises, ReadFails, Skip,
                        Answered, Refused, Malformed, TimeLimit, Fail
    <3> QED BY <1>1, <3>1, <3>2, <3>3
  <2>3. CoreTyped'
    BY <2>1, <2>2 DEF TraceInv, CoreTyped
  <2> QED BY <2>1, <2>3, KeptTrace
<1>2. CASE Serve
  <2>1. /\ UNCHANGED <<proc, managed, offered, pending, saved, drain, run, awaited>>
        /\ phase = "starting" /\ phase' = "serving"
    BY <1>2 DEF Serve, mcpVars, traceVars
  <2> QED BY <2>1 DEF TraceInv, CoreTyped, Accounted, Recorded, Traced, Seen,
                     TraceWhole, Gathering
<1>3. ASSUME NEW r \in Callers, AskLlm(r) \/ Finish(r)
      PROVE  TraceInv'
  <2>1. PICK event \in {"call", "finished"}, next \in InProgress :
          /\ run[r] \notin {"finishing", "over"}
          /\ run' = [run EXCEPT ![r] = next]
          /\ next = "asking" \/ (next = "finishing" /\ event = "finished")
          /\ Emit(<<<<r, event>>>>)
          /\ UNCHANGED <<proc, managed, offered, phase, awaited>>
    <3>1. CASE AskLlm(r)
      <4>1. "call" \in {"call", "finished"} /\ "asking" \in InProgress
        BY DEF InProgress, InTry
      <4> QED BY <3>1, <4>1 DEF AskLlm, mcpVars
    <3>2. CASE Finish(r)
      <4>1. "finished" \in {"call", "finished"} /\ "finishing" \in InProgress
        BY DEF InProgress
      <4> QED BY <3>2, <4>1 DEF Finish, mcpVars
    <3> QED BY <1>3, <3>1, <3>2
  <2> QED BY <2>1, RunTraces
<1>4. ASSUME NEW r \in Callers,
             \/ StartRun(r) \/ Begin(r) \/ BeginRaises(r)
             \/ LlmAnswers(r) \/ Published(r)
      PROVE  TraceInv'
  <2>1. PICK next \in {"over"} \cup InProgress :
          /\ run[r] # "over" /\ run' = [run EXCEPT ![r] = next]
          /\ next \in {"beginning", "opening"} => run[r] \in {"off", "beginning"}
          /\ next = "over" => run[r] \in {"beginning", "finishing"}
          /\ next # "finishing"
          /\ UNCHANGED <<pending, saved, drain, proc, managed, offered, phase, awaited>>
    BY <1>4 DEF StartRun, Begin, BeginRaises, LlmAnswers, Published, mcpVars, traceVars,
                InProgress, InTry
  <2> QED BY <2>1, QuietTraces
<1>5. CASE Tracing
  BY <1>5, WritingTraces
<1>6. CASE Shutdown
  <2>1. /\ UNCHANGED <<proc, managed, offered>> /\ CancelRuns(OneShot)
        /\ phase = "serving" /\ phase' = "gathering" /\ awaited' = Live(OneShot)
        /\ OneShot \in SUBSET Callers
    BY <1>6, DaemonAssumption DEF Shutdown
  <2>2. /\ pending' \in Seq(Records) /\ UNCHANGED <<saved, drain>>
        /\ run' \in [Callers -> {"off", "over"} \cup InProgress]
        /\ \A r \in Callers : Recorded(r)'
    <3> HIDE DEF Recorded
    <3> QED BY <2>1, CancelTraces
  <2>3. awaited' \subseteq OneShot
    BY <2>1 DEF Live
  <2>4. CoreTyped'
    BY <2>1, <2>2, <2>3 DEF TraceInv, CoreTyped
  <2>5. Accounted'
    <3> HIDE DEF Recorded
    <3> QED BY <2>1, <2>2 DEF TraceInv, Accounted, Gathering
  <2> QED BY <2>1, <2>4, <2>5 DEF TraceInv, TraceWhole
<1>7. CASE CancelRest
  <2>1. /\ UNCHANGED <<proc, managed, offered, awaited>> /\ CancelRuns(Callers)
        /\ phase = "closed" /\ phase' = "leaving"
        /\ Callers \in SUBSET Callers /\ awaited \subseteq Callers
    BY <1>7, DaemonAssumption DEF CancelRest, TraceInv, CoreTyped
  <2>2. /\ pending' \in Seq(Records) /\ UNCHANGED <<saved, drain>>
        /\ run' \in [Callers -> {"off", "over"} \cup InProgress]
        /\ \A r \in Callers : Recorded(r)'
        /\ \A r \in Callers : run[r] = "over" =>
              /\ run'[r] = "over"
              /\ (\A i \in DOMAIN pending : pending[i][1] # r) =>
                    \A j \in DOMAIN pending' : pending'[j][1] # r
    <3> HIDE DEF Recorded
    <3> QED BY <2>1, CancelTraces
  <2>3. CoreTyped'
    BY <2>1, <2>2 DEF TraceInv, CoreTyped
  <2>4. \A r \in awaited : run[r] = "over"
    BY <2>1 DEF TraceInv, Accounted, Gathering
  <2>5. Accounted'
    <3> HIDE DEF Recorded
    <3> QED BY <2>1, <2>2, <2>4 DEF TraceInv, Accounted
  <2>6. TraceWhole'
    BY <2>1, <2>2, <2>4 DEF TraceInv, TraceWhole
  <2> QED BY <2>3, <2>5, <2>6 DEF TraceInv
<1>8. CASE ShutdownStep /\ ~CancelRest
  BY <1>8, PhaseTraces
<1> QED BY <1>1, <1>2, <1>3, <1>4, <1>5, <1>6, <1>7, <1>8 DEF DaemonNext, RunStep, ShutdownStep

LEMMA TraceInvInit == DaemonInit => TraceInv
<1> SUFFICES ASSUME DaemonInit PROVE TraceInv
  OBVIOUS
<1>1. /\ proc = "off" /\ managed = FALSE /\ offered = FALSE
      /\ pending = <<>> /\ saved = {} /\ drain = "running" /\ phase = "starting"
      /\ run = [r \in Callers |-> "off"] /\ awaited = {}
  BY DEF DaemonInit, McpInit, TraceInit
<1>a. CoreTyped
  <2>1. pending \in Seq(Records) /\ saved \subseteq Records /\ awaited \subseteq OneShot
    BY <1>1, EmptySeq
  <2>2. run \in [Callers -> {"off", "over"} \cup InProgress]
    BY <1>1
  <2> QED BY <1>1, <2>1, <2>2 DEF CoreTyped
<1>2. Accounted /\ TraceWhole
  BY <1>1 DEF Accounted, Recorded, Seen, TraceWhole, Gathering
<1> QED BY <1>a, <1>2 DEF TraceInv

\* Together they give the type of every variable, and the bounds on attempts
\* and ids.
LEMMA TypesFollow ==
    ASSUME CallInv, TraceInv
    PROVE  DaemonTypeOK
<1>1. MaxRetries \in Nat /\ MaxId \in Nat /\ Tasks = Callers \cup {Boot}
  BY McpAssumption DEF Tasks
<1>2. stage \in [Tasks -> {"idle", "backoff", "over"} \cup InCall]
  BY DEF CallInv, Inv, Typed, Stages, InCall
<1>3. attempt \in [Tasks -> 0 .. MaxRetries + 2]
  <2>1. \A t \in Tasks : attempt[t] \in 0 .. MaxRetries + 2
    BY <1>1 DEF CallInv, Inv, Typed, Tries
  <2> QED BY <2>1 DEF CallInv, Inv, Typed
<1>4. lastId \in 0 .. MaxId
  BY <1>1 DEF CallInv, Inv, Typed, Tries
<1>5. asked \in [Tasks -> 0 .. MaxId]
  <2>1. \A t \in Tasks : asked[t] \in 0 .. MaxId
    BY <1>1, <1>4 DEF CallInv, Inv, Typed, OwnIds
  <2> QED BY <2>1 DEF CallInv, Inv, Typed
<1>6. \A m \in Travelling : m \in Request
  <2> TAKE m \in Travelling
  <2>1. m \in Message /\ m.id <= lastId
    BY TravellingTyped DEF CallInv, Inv, OwnIds
  <2> QED BY <1>1, <1>4, <2>1 DEF Message, Request
<1>7. inbox \subseteq Request
  BY <1>6 DEF Travelling, CallInv, Inv, Typed
<1>8. outbox \in Seq(Line)
  <2>1. outbox \in Seq(Lines)
    BY DEF CallInv, Inv, Typed
  <2>2. \A i \in 1 .. Len(outbox) : outbox[i] \in Line
    BY <1>6, <2>1 DEF Travelling, Lines, Line
  <2> QED BY <2>1, <2>2
<1>9. McpTypeOK
  BY <1>2, <1>3, <1>4, <1>5, <1>7, <1>8
     DEF McpTypeOK, CallInv, InLine, TraceInv, CoreTyped
<1> QED BY <1>9 DEF DaemonTypeOK, CallInv, InLine, TraceInv, CoreTyped

\* Calls, their lock, runs, the trace and the shutdown are always of their
\* types: one task at a time reads the connection, and who is in a call has its
\* place in the line, however calls time out or are cancelled (client.py:_call).
THEOREM DaemonTypeCorrect == DaemonSpec => []DaemonTypeOK
<1>1. DaemonInit => CallInv /\ TraceInv
  BY CallInvInit, TraceInvInit
<1>2. CallInv /\ TraceInv /\ [DaemonNext]_daemonVars => (CallInv /\ TraceInv)'
  BY CallInvStep, TraceInvStep
<1>3. CallInv /\ TraceInv => DaemonTypeOK
  BY TypesFollow
<1> QED BY <1>1, <1>2, <1>3, PTL DEF DaemonSpec

\* When the trace is closed nothing of the runs the shutdown waited for is left
\* in the queue, and the file holds the run.finished of each that has asked the
\* LLM, unless a write failed (CoreApp.run, TraceWriter.stop).
THEOREM TraceWholeCorrect == DaemonSpec => []TraceWhole
<1>1. TraceInv /\ [DaemonNext]_daemonVars => TraceInv'
  BY TraceInvStep
<1>2. TraceInv => TraceWhole
  BY DEF TraceInv
<1> QED BY TraceInvInit, <1>1, <1>2, PTL DEF DaemonSpec
=============================================================================
