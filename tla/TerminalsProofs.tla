--------------------------- MODULE TerminalsProofs ---------------------------
(***************************************************************************)
(* Proofs about a terminal client and the daemon, for any number of        *)
(* messages, approvals and connections: a future that waits is going to be *)
(* settled, once, and none waits when there is nobody who could settle it. *)
(*                                                                         *)
(* LinkInv is about the connection and the session alone.  It is shown to  *)
(* hold once for each of the few ways there are to use the connection;     *)
(* each action of the clients and of the daemon is one of them.            *)
(***************************************************************************)
EXTENDS Terminals, TLAPS, SequenceTheorems

-----------------------------------------------------------------------------
(* The invariant of the connection                                          *)

Requests == [name : Commands, about : Asks \cup {"none"}]

Replies == {Reply(c, o) : c \in Commands, o \in {"ok", "error"}}

Events ==
    {Event(t, p) : t \in {"requested", "denied"}, p \in Asks}
    \cup {Event(t, w) : t \in {"finished", "waiting", "closed"}, w \in {"own", "other"}}

Lines == Replies \cup Events

\* What makes the client's session.
Begins == {"create", "run"}

BeginsIn(s) == \E i \in DOMAIN s : s[i].name \in Begins

LinkTyped ==
    /\ conn \in {"none", "up", "lost", "closed"}
    /\ connections \in 0 .. MaxConnections
    /\ reader \in {"off", "running", "over"}
    /\ future \in [Commands -> Futures]
    /\ sent \in Seq(Requests) /\ wire \in Seq(Lines)
    /\ \A i \in DOMAIN sent : sent[i].name = "respond" => sent[i].about \in Asks

\* A connection that is up has its reader.
ReaderWithConn ==
    /\ conn = "up" => reader = "running"
    /\ conn \in {"none", "closed"} => reader # "running"

\* The client's session is made once, and has nothing to lose then.
BegunOnce ==
    \A i \in DOMAIN sent : sent[i].name \in Begins =>
        /\ session = "none"
        /\ \A j \in DOMAIN sent : sent[j].name \in Begins => i = j

\* The daemon has forgotten a connection that is lost.
QuietWhenLost == conn = "lost" => sent = <<>> /\ session = "none"

LinkInv ==
    /\ LinkTyped /\ ReaderWithConn /\ BegunOnce /\ QuietWhenLost
    /\ NobodyForgotten /\ ReplyOnItsWay /\ AnsweredOnce

-----------------------------------------------------------------------------
(* Sequences                                                                *)

LEMMA TailHas ==
    ASSUME NEW S, NEW s \in Seq(S), s # <<>>
    PROVE  /\ Tail(s) \in Seq(S) /\ Head(s) \in S /\ 1 \in DOMAIN s /\ Head(s) = s[1]
           /\ \A i \in DOMAIN s : i # 1 => i - 1 \in DOMAIN Tail(s) /\ Tail(s)[i - 1] = s[i]
           /\ \A i \in DOMAIN Tail(s) : i + 1 \in DOMAIN s /\ s[i + 1] = Tail(s)[i]
<1>1. /\ Len(s) \in Nat \ {0} /\ DOMAIN s = 1 .. Len(s)
      /\ Tail(s) \in Seq(S) /\ Len(Tail(s)) = Len(s) - 1
      /\ \A i \in 1 .. Len(s) - 1 : Tail(s)[i] = s[i + 1]
      /\ Head(s) \in S /\ Head(s) = s[1]
  BY HeadTailProperties, EmptySeq, LenProperties
<1>2. DOMAIN Tail(s) = 1 .. Len(s) - 1
  BY <1>1, LenProperties
<1> QED BY <1>1, <1>2

LEMMA ConcatHas ==
    ASSUME NEW S, NEW s \in Seq(S), NEW t \in Seq(S)
    PROVE  /\ s \o t \in Seq(S)
           /\ \A i \in DOMAIN s : i \in DOMAIN (s \o t) /\ (s \o t)[i] = s[i]
           /\ \A i \in DOMAIN t :
                 Len(s) + i \in DOMAIN (s \o t) /\ (s \o t)[Len(s) + i] = t[i]
           /\ \A i \in DOMAIN (s \o t) :
                 i \in DOMAIN s \/ \E k \in DOMAIN t : i = Len(s) + k
<1>1. /\ Len(s) \in Nat /\ DOMAIN s = 1 .. Len(s)
      /\ Len(t) \in Nat /\ DOMAIN t = 1 .. Len(t)
  BY LenProperties
<1>2. /\ s \o t \in Seq(S) /\ Len(s \o t) = Len(s) + Len(t)
      /\ \A i \in 1 .. Len(s) + Len(t) :
            (s \o t)[i] = IF i <= Len(s) THEN s[i] ELSE t[i - Len(s)]
  BY ConcatProperties
<1>3. DOMAIN (s \o t) = 1 .. Len(s) + Len(t)
  BY <1>2, LenProperties
<1>4. ASSUME NEW i \in DOMAIN s
      PROVE  i \in DOMAIN (s \o t) /\ (s \o t)[i] = s[i]
  BY <1>1, <1>2, <1>3
<1>5. ASSUME NEW i \in DOMAIN t
      PROVE  Len(s) + i \in DOMAIN (s \o t) /\ (s \o t)[Len(s) + i] = t[i]
  <2>1. Len(s) + i \in 1 .. Len(s) + Len(t) /\ ~(Len(s) + i <= Len(s))
    BY <1>1
  <2>2. Len(s) + i - Len(s) = i
    BY <1>1
  <2> QED BY <2>1, <2>2, <1>2, <1>3
<1>6. ASSUME NEW i \in DOMAIN (s \o t), i \notin DOMAIN s
      PROVE  \E k \in DOMAIN t : i = Len(s) + k
  <2>1. i - Len(s) \in DOMAIN t /\ i = Len(s) + (i - Len(s))
    BY <1>1, <1>3, <1>6
  <2> QED BY <2>1
<1> QED BY <1>2, <1>4, <1>5, <1>6

\* ConcatHas for lines
LEMMA ConcatLines ==
    ASSUME NEW s \in Seq(Lines), NEW t \in Seq(Lines)
    PROVE  /\ s \o t \in Seq(Lines)
           /\ \A i \in DOMAIN s : i \in DOMAIN (s \o t) /\ (s \o t)[i] = s[i]
           /\ \A i \in DOMAIN t :
                 Len(s) + i \in DOMAIN (s \o t) /\ (s \o t)[Len(s) + i] = t[i]
           /\ \A i \in DOMAIN (s \o t) :
                 i \in DOMAIN s \/ \E k \in DOMAIN t : i = Len(s) + k /\ (s \o t)[i] = t[k]
  BY ConcatHas

LEMMA AppendHas ==
    ASSUME NEW S, NEW s \in Seq(S), NEW e \in S
    PROVE  /\ Append(s, e) \in Seq(S) /\ Len(s) + 1 \in DOMAIN Append(s, e)
           /\ Append(s, e)[Len(s) + 1] = e
           /\ \A i \in DOMAIN s : i \in DOMAIN Append(s, e) /\ Append(s, e)[i] = s[i]
           /\ \A i \in DOMAIN Append(s, e) : i # Len(s) + 1 => i \in DOMAIN s
<1>1. /\ Len(s) \in Nat /\ DOMAIN s = 1 .. Len(s)
      /\ Append(s, e) \in Seq(S) /\ Len(Append(s, e)) = Len(s) + 1
      /\ \A i \in 1 .. Len(s) : Append(s, e)[i] = s[i]
      /\ Append(s, e)[Len(s) + 1] = e
  BY AppendProperties, LenProperties
<1>2. DOMAIN Append(s, e) = 1 .. Len(s) + 1
  BY <1>1, LenProperties
<1> QED BY <1>1, <1>2

LEMMA NothingIn == DOMAIN <<>> = {}
  BY EmptySeq, LenProperties

LEMMA OneIn ==
    ASSUME NEW S, NEW e \in S
    PROVE  <<e>> \in Seq(S) /\ DOMAIN <<e>> = {1} /\ <<e>>[1] = e
  OBVIOUS

LEMMA LineFacts ==
    ASSUME NEW l \in Lines
    PROVE  /\ l.kind \in {"reply", "event"}
           /\ l.kind = "reply" => l.name \in Commands /\ l.about \in {"ok", "error"}
           /\ l.kind = "event" /\ l.name \in {"requested", "denied"} => l.about \in Asks
<1>1. CASE l \in Replies
  BY <1>1 DEF Replies, Reply
<1>2. CASE l \in Events
  BY <1>2 DEF Events, Event
<1> QED BY <1>1, <1>2 DEF Lines

-----------------------------------------------------------------------------
(* The ways to use the connection                                           *)

\* A waiter goes on, or nothing happens to the connection.
LEMMA TakeLink ==
    ASSUME LinkInv, future' \in [Commands -> Futures],
           \A d \in Commands : future'[d] = "waiting" <=> future[d] = "waiting",
           UNCHANGED <<conn, connections, reader, sent, wire, session, serving>>
    PROVE  LinkInv'
<1>1. LinkTyped' /\ ReaderWithConn' /\ NobodyForgotten' /\ BegunOnce' /\ QuietWhenLost'
  BY DEF LinkInv, LinkTyped, ReaderWithConn, NobodyForgotten, BegunOnce, QuietWhenLost
<1>2. ReplyOnItsWay'
  BY DEF LinkInv, ReplyOnItsWay, InSent, InWire, Served
<1>3. AnsweredOnce'
  BY DEF LinkInv, AnsweredOnce, InSent, InWire, Served
<1> QED BY <1>1, <1>2, <1>3 DEF LinkInv

LEMMA OutcomesTyped ==
    /\ Outcomes \subseteq Futures /\ "none" \notin Outcomes
    /\ conn # "up" /\ reader # "running" => "waiting" \notin Outcomes
    /\ conn = "up" => Outcomes = {"waiting"}
  BY DEF Outcomes, Futures, Settled

\* A request goes out.  What begins the session goes out before there is one.
LEMMA SendLink ==
    ASSUME LinkInv,
           NEW c \in Commands, NEW about \in Asks \cup {"none"},
           c = "respond" => about \in Asks,
           c \in Begins => session = "none" /\ ~BeginsIn(sent),
           future[c] # "waiting",
           future' \in [Commands -> Futures], future'[c] \in Outcomes,
           \A d \in Commands \ {c} : future'[d] = "waiting" <=> future[d] = "waiting",
           sent' = IF conn = "up" THEN Append(sent, [name |-> c, about |-> about]) ELSE sent,
           UNCHANGED <<conn, connections, reader, wire, session, serving>>
    PROVE  LinkInv' /\ (BeginsIn(sent') => BeginsIn(sent) \/ c \in Begins)
<1> DEFINE r == [name |-> c, about |-> about]
<1>1. r \in Requests /\ r.name = c /\ r.about = about
  BY DEF Requests
<1> HIDE DEF r
<1>2. /\ sent \in Seq(Requests)
      /\ Append(sent, r) \in Seq(Requests) /\ Len(sent) + 1 \in DOMAIN Append(sent, r)
      /\ Append(sent, r)[Len(sent) + 1] = r
      /\ \A i \in DOMAIN sent : i \in DOMAIN Append(sent, r) /\ Append(sent, r)[i] = sent[i]
      /\ \A i \in DOMAIN Append(sent, r) : i # Len(sent) + 1 => i \in DOMAIN sent
  BY <1>1, AppendHas DEF LinkInv, LinkTyped
<1>3. sent' = IF conn = "up" THEN Append(sent, r) ELSE sent
  BY DEF r
<1>4. LinkTyped'
  BY <1>1, <1>2, <1>3 DEF LinkInv, LinkTyped
<1>5. ReaderWithConn'
  BY DEF LinkInv, ReaderWithConn
<1>6. NobodyForgotten'
  <2>1. reader # "running" => conn # "up"
    BY DEF LinkInv, ReaderWithConn
  <2> QED BY <2>1, OutcomesTyped DEF LinkInv, NobodyForgotten
<1>7. ReplyOnItsWay'
  <2> SUFFICES ASSUME conn = "up", NEW d \in Commands, future'[d] = "waiting"
               PROVE  InSent(d)' \/ Served(d)' \/ InWire(d)'
    BY DEF ReplyOnItsWay
  <2>1. CASE d = c
    BY <2>1, <1>1, <1>2, <1>3 DEF InSent
  <2>2. CASE d # c
    <3>1. InSent(d) \/ Served(d) \/ InWire(d)
      BY <2>2 DEF LinkInv, ReplyOnItsWay
    <3>2. Served(d) => Served(d)'
      BY DEF Served
    <3>3. InWire(d) => InWire(d)'
      BY DEF InWire
    <3>4. InSent(d) => InSent(d)'
      BY <1>2, <1>3 DEF InSent
    <3> QED BY <3>1, <3>2, <3>3, <3>4
  <2> QED BY <2>1, <2>2
<1>8. BegunOnce'
  <2>1. CASE c \in Begins
    BY <2>1, <1>1, <1>2, <1>3 DEF LinkInv, BegunOnce, BeginsIn
  <2>2. CASE c \notin Begins
    BY <2>2, <1>1, <1>2, <1>3 DEF LinkInv, BegunOnce
  <2> QED BY <2>1, <2>2
<1>9. BeginsIn(sent') => BeginsIn(sent) \/ c \in Begins
  BY <1>1, <1>2, <1>3 DEF BeginsIn
<1>10. QuietWhenLost'
  BY <1>3 DEF LinkInv, QuietWhenLost
<1>11. AnsweredOnce'
  <2> SUFFICES ASSUME conn \in {"up", "lost"} PROVE AnsweredOnce'
    BY DEF AnsweredOnce
  <2>0. ~InSent(c) /\ ~Served(c) /\ ~InWire(c)
    BY DEF LinkInv, AnsweredOnce
  <2>1. \A i, j \in DOMAIN sent' : sent'[i].name = sent'[j].name => i = j
    BY <1>1, <1>2, <1>3, <2>0 DEF LinkInv, AnsweredOnce, InSent
  <2>2. \A i, j \in DOMAIN wire' :
           wire'[i].kind = "reply" /\ wire'[j].kind = "reply"
           /\ wire'[i].name = wire'[j].name => i = j
    BY DEF LinkInv, AnsweredOnce
  <2>3. \A d \in Commands : (Served(d)' <=> Served(d)) /\ (InWire(d)' <=> InWire(d))
    BY DEF Served, InWire
  <2>4. \A d \in Commands : InSent(d)' => InSent(d) \/ (d = c /\ conn = "up")
    BY <1>1, <1>2, <1>3 DEF InSent
  <2>5. conn = "up" => future'[c] = "waiting"
    BY OutcomesTyped
  <2>6. ASSUME NEW d \in Commands
        PROVE  /\ InSent(d)' \/ Served(d)' \/ InWire(d)' => future'[d] = "waiting"
               /\ InSent(d)' => ~Served(d)' /\ ~InWire(d)'
               /\ Served(d)' => ~InWire(d)'
    <3>1. /\ InSent(d) \/ Served(d) \/ InWire(d) => future[d] = "waiting"
          /\ InSent(d) => ~Served(d) /\ ~InWire(d)
          /\ Served(d) => ~InWire(d)
      BY DEF LinkInv, AnsweredOnce
    <3> QED BY <3>1, <2>0, <2>3, <2>4, <2>5
  <2> QED BY <2>1, <2>2, <2>6 DEF AnsweredOnce
<1> QED BY <1>4, <1>5, <1>6, <1>7, <1>8, <1>9, <1>10, <1>11 DEF LinkInv

\* The reader dispatches a line.
LEMMA ReadLink ==
    ASSUME LinkInv, reader = "running", wire # <<>>, wire' = Tail(wire),
           \/ /\ Head(wire).kind = "reply"
              /\ future' = [future EXCEPT ![Head(wire).name] =
                                IF @ = "waiting" THEN Head(wire).about ELSE @]
           \/ Head(wire).kind = "event" /\ future' = future,
           UNCHANGED <<conn, connections, reader, sent, session, serving>>
    PROVE  LinkInv'
<1>1. /\ wire \in Seq(Lines) /\ future \in [Commands -> Futures]
      /\ Tail(wire) \in Seq(Lines) /\ Head(wire) \in Lines /\ Head(wire) = wire[1]
      /\ \A i \in DOMAIN wire : i # 1 => i - 1 \in DOMAIN Tail(wire)
                                         /\ Tail(wire)[i - 1] = wire[i]
      /\ \A i \in DOMAIN Tail(wire) : i + 1 \in DOMAIN wire /\ wire[i + 1] = Tail(wire)[i]
      /\ 1 \in DOMAIN wire
  BY TailHas DEF LinkInv, LinkTyped
<1> DEFINE l == Head(wire)
<1>2. /\ l.kind \in {"reply", "event"}
      /\ l.kind = "reply" => l.name \in Commands /\ l.about \in {"ok", "error"}
  BY <1>1, LineFacts
<1>3. /\ future' \in [Commands -> Futures]
      /\ \A d \in Commands : future'[d] = "waiting" <=>
            future[d] = "waiting" /\ ~(l.kind = "reply" /\ l.name = d)
  BY <1>1, <1>2 DEF Futures, Settled
<1>4. LinkTyped' /\ ReaderWithConn' /\ NobodyForgotten' /\ BegunOnce' /\ QuietWhenLost'
  BY <1>1, <1>3
  DEF LinkInv, LinkTyped, ReaderWithConn, NobodyForgotten, BegunOnce, QuietWhenLost
<1>5. ReplyOnItsWay'
  <2> SUFFICES ASSUME conn = "up", NEW d \in Commands, future'[d] = "waiting"
               PROVE  InSent(d)' \/ Served(d)' \/ InWire(d)'
    BY DEF ReplyOnItsWay
  <2>1. InSent(d) \/ Served(d) \/ InWire(d)
    BY <1>3 DEF LinkInv, ReplyOnItsWay
  <2>2. (InSent(d) => InSent(d)') /\ (Served(d) => Served(d)')
    BY DEF InSent, Served
  <2>3. ASSUME InWire(d) PROVE InWire(d)'
    <3>1. PICK i \in DOMAIN wire : wire[i].kind = "reply" /\ wire[i].name = d
      BY <2>3 DEF InWire
    <3>2. i # 1
      BY <1>1, <1>3, <3>1
    <3>3. i - 1 \in DOMAIN wire' /\ wire'[i - 1] = wire[i]
      BY <1>1, <3>2
    <3> QED BY <3>1, <3>3 DEF InWire
  <2> QED BY <2>1, <2>2, <2>3
<1>6. AnsweredOnce'
  <2>0. conn \in {"up", "lost"} /\ conn' = conn
    BY DEF LinkInv, LinkTyped, ReaderWithConn
  <2>1. /\ DOMAIN wire' = 1 .. Len(wire') /\ Len(wire') \in Nat
        /\ \A i \in DOMAIN wire' : i + 1 \in DOMAIN wire /\ i + 1 # 1
                                     /\ wire[i + 1] = wire'[i]
    <3>1. DOMAIN wire' = 1 .. Len(wire') /\ Len(wire') \in Nat
      BY <1>1, LenProperties
    <3> QED BY <1>1, <3>1
  <2>2. \A i, j \in DOMAIN wire :
           wire[i].kind = "reply" /\ wire[j].kind = "reply"
           /\ wire[i].name = wire[j].name => i = j
    BY <2>0 DEF LinkInv, AnsweredOnce
  <2>3. \A i, j \in DOMAIN wire' :
           wire'[i].kind = "reply" /\ wire'[j].kind = "reply"
           /\ wire'[i].name = wire'[j].name => i = j
    <3> SUFFICES ASSUME NEW i \in DOMAIN wire', NEW j \in DOMAIN wire',
                        wire'[i].kind = "reply", wire'[j].kind = "reply",
                        wire'[i].name = wire'[j].name
                 PROVE  i = j
      OBVIOUS
    <3>1. i + 1 = j + 1
      BY <2>1, <2>2
    <3> QED BY <2>1, <3>1
  <2>4. \A i, j \in DOMAIN sent' : sent'[i].name = sent'[j].name => i = j
    BY <2>0 DEF LinkInv, AnsweredOnce
  <2>5. ASSUME NEW d \in Commands
        PROVE  InWire(d)' => InWire(d) /\ ~(l.kind = "reply" /\ l.name = d)
    <3> SUFFICES ASSUME NEW i \in DOMAIN wire', wire'[i].kind = "reply", wire'[i].name = d
                 PROVE  InWire(d) /\ ~(l.kind = "reply" /\ l.name = d)
      BY DEF InWire
    <3>1. InWire(d)
      BY <2>1 DEF InWire
    <3>2. l.kind = "reply" /\ l.name = d => i + 1 = 1
      BY <1>1, <2>1, <2>2
    <3> QED BY <2>1, <3>1, <3>2
  <2>6. \A d \in Commands : (Served(d)' <=> Served(d)) /\ (InSent(d)' <=> InSent(d))
    BY DEF Served, InSent
  <2>7. l.kind = "reply" => InWire(l.name)
    BY <1>1 DEF InWire
  <2>8. ASSUME NEW d \in Commands
        PROVE  /\ InSent(d)' \/ Served(d)' \/ InWire(d)' => future'[d] = "waiting"
               /\ InSent(d)' => ~Served(d)' /\ ~InWire(d)'
               /\ Served(d)' => ~InWire(d)'
    <3>1. /\ InSent(d) \/ Served(d) \/ InWire(d) => future[d] = "waiting"
          /\ InSent(d) => ~Served(d) /\ ~InWire(d)
          /\ Served(d) => ~InWire(d)
      BY <2>0 DEF LinkInv, AnsweredOnce
    <3>2. l.kind = "reply" /\ l.name = d => InWire(d)
      BY <2>7
    <3> QED BY <1>3, <2>5, <2>6, <3>1, <3>2
  <2> QED BY <2>3, <2>4, <2>8 DEF AnsweredOnce
<1> QED BY <1>4, <1>5, <1>6 DEF LinkInv

\* There is no connection any more.
LEMMA EndLink ==
    ASSUME LinkInv, conn' = "closed", reader' = "over", UNCHANGED connections,
           future' \in [Commands -> Futures],
           \A d \in Commands : future'[d] # "waiting",
           sent' = <<>>, wire' = <<>>
    PROVE  LinkInv' /\ ~BeginsIn(sent')
<1>1. sent' \in Seq(Requests) /\ DOMAIN sent' = {} /\ wire' \in Seq(Lines)
  BY NothingIn
<1> QED
  BY <1>1
  DEF LinkInv, LinkTyped, ReaderWithConn, NobodyForgotten, ReplyOnItsWay, BegunOnce,
      QuietWhenLost, AnsweredOnce, BeginsIn

\* The connection is lost: nothing is on its way to the daemon, and of what
\* comes from it the first lines at most.
LEMMA BreakLink ==
    ASSUME LinkInv, Break, session' = "none"
    PROVE  LinkInv' /\ ~BeginsIn(sent') /\ future' = future
<1>1. /\ conn = "up" /\ conn' = "lost" /\ sent' = <<>> /\ reader = "running"
      /\ UNCHANGED <<connections, reader, future>>
  BY DEF Break, LinkInv, ReaderWithConn
<1>2. PICK n \in 0 .. Len(wire) : wire' = SubSeq(wire, 1, n)
  BY DEF Break
<1>3. /\ wire \in Seq(Lines) /\ Len(wire) \in Nat /\ DOMAIN wire = 1 .. Len(wire)
  BY LenProperties DEF LinkInv, LinkTyped
<1>4. /\ wire' \in Seq(Lines)
      /\ \A i \in DOMAIN wire' : i \in DOMAIN wire /\ wire'[i] = wire[i]
  BY <1>2, <1>3
<1>5. sent' \in Seq(Requests) /\ DOMAIN sent' = {}
  BY <1>1, NothingIn
<1>6. /\ LinkTyped' /\ ReaderWithConn' /\ NobodyForgotten' /\ ReplyOnItsWay'
      /\ BegunOnce' /\ QuietWhenLost'
  BY <1>1, <1>4, <1>5
  DEF LinkInv, LinkTyped, ReaderWithConn, NobodyForgotten, ReplyOnItsWay, BegunOnce,
      QuietWhenLost
<1>7. AnsweredOnce'
  <2>1. \A c \in Commands : ~InSent(c)' /\ ~Served(c)' /\ (InWire(c)' => InWire(c))
    BY <1>1, <1>4, <1>5 DEF InSent, Served, InWire
  <2>2. \A i, j \in DOMAIN wire' :
           wire'[i].kind = "reply" /\ wire'[j].kind = "reply"
           /\ wire'[i].name = wire'[j].name => i = j
    BY <1>1, <1>4 DEF LinkInv, AnsweredOnce
  <2>3. \A c \in Commands : InWire(c) => future[c] = "waiting"
    BY <1>1 DEF LinkInv, AnsweredOnce
  <2> QED BY <1>1, <1>5, <2>1, <2>2, <2>3 DEF AnsweredOnce
<1> QED BY <1>1, <1>5, <1>6, <1>7 DEF LinkInv, BeginsIn

\* A connection is made, with its reader and a first request.
LEMMA OpenLink ==
    ASSUME LinkInv, NEW c \in Commands, c \notin Begins, c # "respond", Open(c),
           session = "none", UNCHANGED <<session, serving>>
    PROVE  LinkInv' /\ ~BeginsIn(sent') /\ future'[c] # "none"
                    /\ \A d \in Commands \ {c} : future'[d] = future[d]
<1> DEFINE r == [name |-> c, about |-> "none"]
<1>1. r \in Requests /\ r.name = c
  BY DEF Requests
<1> HIDE DEF r
<1>2. /\ sent' = <<r>> /\ wire' = <<>> /\ conn' = "up" /\ reader' = "running"
      /\ connections' = connections + 1 /\ connections < MaxConnections
      /\ future' = [future EXCEPT ![c] = "waiting"] /\ reader # "running"
  BY DEF Open, r, LinkInv, ReaderWithConn
<1>3. sent' \in Seq(Requests) /\ DOMAIN sent' = {1} /\ sent'[1] = r
  BY <1>1, <1>2, OneIn
<1>4. /\ future' \in [Commands -> Futures] /\ future'[c] = "waiting"
      /\ \A d \in Commands \ {c} : future'[d] = future[d] /\ future[d] # "waiting"
  BY <1>2 DEF LinkInv, LinkTyped, NobodyForgotten, Futures
<1>5. LinkTyped'
  BY <1>1, <1>2, <1>3, <1>4, LinkAssumption DEF LinkInv, LinkTyped
<1>6. ReaderWithConn' /\ NobodyForgotten'
  BY <1>2 DEF ReaderWithConn, NobodyForgotten
<1>7. ReplyOnItsWay'
  BY <1>1, <1>3, <1>4 DEF ReplyOnItsWay, InSent
<1>8. BegunOnce' /\ ~BeginsIn(sent')
  BY <1>1, <1>3 DEF BegunOnce, BeginsIn
<1>9. QuietWhenLost'
  BY <1>2 DEF QuietWhenLost
<1>10. AnsweredOnce'
  <2>1. DOMAIN wire' = {}
    BY <1>2, NothingIn
  <2>2. \A d \in Commands : ~Served(d)' /\ ~InWire(d)' /\ (InSent(d)' => d = c)
    BY <1>1, <1>3, <2>1 DEF Served, InWire, InSent
  <2> QED BY <1>3, <1>4, <2>1, <2>2 DEF AnsweredOnce
<1> QED BY <1>4, <1>5, <1>6, <1>7, <1>8, <1>9, <1>10 DEF LinkInv

-----------------------------------------------------------------------------
(* What the daemon does                                                     *)

\* The client's session is not yet begun, nor is it asked for.
Unbegun == session = "none" /\ ~BeginsIn(sent)

\* No command has two replies on their way.
WireOnce ==
    \A i, j \in DOMAIN wire :
        wire[i].kind = "reply" /\ wire[j].kind = "reply"
        /\ wire[i].name = wire[j].name => i = j

\* The request for command c is taken up.
TakenUp(c) == sent # <<>> /\ sent' = Tail(sent) /\ Head(sent).name = c

\* What is pushed is appended: events say nothing of a command, and a reply is
\* the only one if there was none.
LEMMA PushLink ==
    ASSUME LinkInv, NEW events \in Seq(Events), NEW replies \in Seq(Replies),
           Push(events, replies),
           \/ replies = <<>>
           \/ \E c \in Commands, o \in {"ok", "error"} :
                 replies = <<Reply(c, o)>> /\ (conn = "up" => ~InWire(c))
    PROVE  /\ wire' \in Seq(Lines) /\ UNCHANGED <<conn, connections, reader, future>>
           /\ \A c \in Commands : InWire(c) => InWire(c)'
           /\ \A c \in Commands : InWire(c)' /\ ~InWire(c) =>
                 \E o \in {"ok", "error"} : replies = <<Reply(c, o)>>
           /\ conn = "up" => \A c \in Commands, o \in {"ok", "error"} :
                                 replies = <<Reply(c, o)>> => InWire(c)'
           /\ WireOnce => WireOnce'
<1> DEFINE heard == IF subscribed THEN events ELSE <<>>
<1>1. wire \in Seq(Lines) /\ heard \in Seq(Events) /\ heard \in Seq(Lines)
      /\ replies \in Seq(Lines)
  <2>1. heard \in Seq(Events)
    OBVIOUS
  <2>2. heard \in Seq(Lines) /\ replies \in Seq(Lines)
    BY <2>1 DEF Lines
  <2> QED BY <2>1, <2>2 DEF LinkInv, LinkTyped
<1>2. /\ wire' = IF conn # "up" THEN wire ELSE wire \o heard \o replies
      /\ UNCHANGED <<conn, connections, reader, future>>
  BY DEF Push
<1> HIDE DEF heard
<1> DEFINE w == wire \o heard
<1>3. /\ w \in Seq(Lines)
      /\ \A i \in DOMAIN wire : i \in DOMAIN w /\ w[i] = wire[i]
      /\ \A i \in DOMAIN w : i \in DOMAIN wire
                              \/ \E k \in DOMAIN heard : w[i] = heard[k]
  BY <1>1, ConcatLines
<1> HIDE DEF w
<1>4. /\ w \o replies \in Seq(Lines)
      /\ \A i \in DOMAIN w : i \in DOMAIN (w \o replies) /\ (w \o replies)[i] = w[i]
      /\ \A i \in DOMAIN replies :
            Len(w) + i \in DOMAIN (w \o replies) /\ (w \o replies)[Len(w) + i] = replies[i]
      /\ \A i \in DOMAIN (w \o replies) :
            i \in DOMAIN w \/ \E k \in DOMAIN replies : i = Len(w) + k
  BY <1>1, <1>3, ConcatLines
<1>5. wire' = IF conn # "up" THEN wire ELSE w \o replies
  BY <1>2 DEF w
<1>6. wire' \in Seq(Lines)
  BY <1>1, <1>4, <1>5
<1>7. ASSUME NEW c \in Commands, InWire(c)
      PROVE  InWire(c)'
  BY <1>3, <1>4, <1>5, <1>7 DEF InWire
<1>8. ASSUME conn = "up", NEW c \in Commands, NEW o \in {"ok", "error"},
             replies = <<Reply(c, o)>>
      PROVE  InWire(c)'
  <2>1. 1 \in DOMAIN replies /\ replies[1] = Reply(c, o)
    BY <1>8
  <2>2. Len(w) + 1 \in DOMAIN wire' /\ wire'[Len(w) + 1] = Reply(c, o)
    BY <2>1, <1>4, <1>5, <1>8
  <2> QED BY <2>2 DEF InWire, Reply
\* A line of the new wire is an old one, an event or the reply.
<1>9. ASSUME NEW i \in DOMAIN wire', wire'[i].kind = "reply"
      PROVE  \/ i \in DOMAIN wire /\ wire'[i] = wire[i]
             \/ /\ conn = "up" /\ i = Len(w) + 1
                /\ \E c \in Commands, o \in {"ok", "error"} :
                      /\ replies = <<Reply(c, o)>> /\ wire'[i] = Reply(c, o)
                      /\ ~InWire(c)
  <2>1. CASE conn # "up"
    BY <2>1, <1>5, <1>9
  <2>2. CASE conn = "up" /\ i \in DOMAIN w
    <3>1. wire'[i] = w[i]
      BY <2>2, <1>4, <1>5
    <3>2. \A k \in DOMAIN heard : heard[k].kind = "event"
      <4>1. \A k \in DOMAIN heard : heard[k] \in Events
        BY <1>1
      <4> QED BY <4>1 DEF Events, Event
    <3>3. CASE i \in DOMAIN wire
      <4>1. w[i] = wire[i]
        BY <1>3, <3>3
      <4> QED BY <3>1, <3>3, <4>1
    <3>4. CASE i \notin DOMAIN wire
      <4>1. PICK k \in DOMAIN heard : w[i] = heard[k]
        BY <1>3, <2>2, <3>4
      <4>2. wire'[i].kind = "event"
        BY <3>1, <3>2, <4>1
      <4> QED BY <1>9, <4>2
    <3> QED BY <3>3, <3>4
  <2>3. CASE conn = "up" /\ i \notin DOMAIN w
    <3>1. PICK k \in DOMAIN replies : i = Len(w) + k
      BY <2>3, <1>4, <1>5, <1>9
    <3>2. replies # <<>>
      BY <3>1, NothingIn
    <3>3. PICK c \in Commands, o \in {"ok", "error"} :
            replies = <<Reply(c, o)>> /\ ~InWire(c)
      BY <2>3, <3>2
    <3>4. k = 1 /\ replies[1] = Reply(c, o)
      BY <3>1, <3>3
    <3>5. wire'[i] = Reply(c, o)
      BY <2>3, <3>1, <3>4, <1>4, <1>5
    <3> QED BY <2>3, <3>1, <3>3, <3>4, <3>5
  <2> QED BY <2>1, <2>2, <2>3
<1>10. ASSUME NEW c \in Commands, InWire(c)', ~InWire(c)
       PROVE  \E o \in {"ok", "error"} : replies = <<Reply(c, o)>>
  <2>1. PICK i \in DOMAIN wire' : wire'[i].kind = "reply" /\ wire'[i].name = c
    BY <1>10 DEF InWire
  <2>2. ~(i \in DOMAIN wire /\ wire'[i] = wire[i])
    BY <1>10, <2>1 DEF InWire
  <2>3. PICK d \in Commands, o \in {"ok", "error"} :
          replies = <<Reply(d, o)>> /\ wire'[i] = Reply(d, o)
    BY <1>9, <2>1, <2>2
  <2>4. d = c
    BY <2>1, <2>3 DEF Reply
  <2> QED BY <2>3, <2>4
<1>11. ASSUME WireOnce PROVE WireOnce'
  <2> SUFFICES ASSUME NEW i \in DOMAIN wire', NEW j \in DOMAIN wire',
                      wire'[i].kind = "reply", wire'[j].kind = "reply",
                      wire'[i].name = wire'[j].name
               PROVE  i = j
    BY DEF WireOnce
  <2> DEFINE Old(k) == k \in DOMAIN wire /\ wire'[k] = wire[k]
             New(k) == /\ k = Len(w) + 1
                       /\ \E c \in Commands : wire'[k].name = c /\ ~InWire(c)
  <2>1. (Old(i) \/ New(i)) /\ (Old(j) \/ New(j))
    BY <1>9 DEF Reply
  <2>2. ~(Old(i) /\ New(j)) /\ ~(New(i) /\ Old(j))
    BY DEF InWire
  <2>3. CASE Old(i) /\ Old(j)
    BY <1>11, <2>3 DEF WireOnce
  <2>4. CASE New(i) /\ New(j)
    BY <2>4
  <2> QED BY <2>1, <2>2, <2>3, <2>4
<1> QED BY <1>2, <1>6, <1>7, <1>8, <1>10, <1>11

\* A step of the daemon keeps the invariant if what was at a command, or takes
\* it up now, is still at it afterwards or has replied, and nothing else.
LEMMA StepLink ==
    ASSUME LinkInv, wire' \in Seq(Lines), UNCHANGED <<conn, connections, reader, future>>,
           conn \in {"up", "lost"} => WireOnce',
           \A c \in Commands : InWire(c) => InWire(c)',
           \A c \in Commands : conn = "up" /\ Served(c) => Served(c)' \/ InWire(c)',
           \A c \in Commands : Served(c)' => Served(c) \/ TakenUp(c),
           \A c \in Commands : InWire(c)' /\ ~InWire(c) =>
                 (Served(c) \/ TakenUp(c)) /\ ~Served(c)',
           \/ sent' = sent
           \/ /\ sent # <<>> /\ sent' = Tail(sent)
              /\ \A c \in Commands : c = Head(sent).name => Served(c)' \/ InWire(c)',
           session = "none" =>
              \/ session' = "none"
              \/ sent # <<>> /\ sent' = Tail(sent) /\ Head(sent).name \in Begins
    PROVE  LinkInv' /\ (Unbegun => Unbegun')
<1>1. CASE sent' = sent
  <2>1. LinkTyped' /\ ReaderWithConn' /\ NobodyForgotten'
    BY <1>1 DEF LinkInv, LinkTyped, ReaderWithConn, NobodyForgotten
  <2>2. ReplyOnItsWay'
    BY <1>1 DEF LinkInv, ReplyOnItsWay, InSent
  <2>3. sent # <<>> /\ Head(sent).name \in Begins => 1 \in DOMAIN sent /\ sent[1].name \in Begins
    BY TailHas DEF LinkInv, LinkTyped
  <2>4. sent # <<>> => sent # Tail(sent)
    <3> SUFFICES ASSUME sent # <<>> PROVE sent # Tail(sent)
      OBVIOUS
    <3> QED BY HeadTailProperties, EmptySeq DEF LinkInv, LinkTyped
  <2>5. session = "none" => session' = "none"
    BY <1>1, <2>4
  <2>6. BegunOnce' /\ (Unbegun => Unbegun') /\ QuietWhenLost'
    BY <1>1, <2>5 DEF LinkInv, BegunOnce, Unbegun, BeginsIn, QuietWhenLost
  <2>7. \A c \in Commands : (InSent(c)' <=> InSent(c)) /\ ~TakenUp(c)
    BY <1>1, <2>4 DEF InSent, TakenUp
  <2>8. AnsweredOnce'
    <3> SUFFICES ASSUME conn \in {"up", "lost"} PROVE AnsweredOnce'
      BY DEF AnsweredOnce
    <3>1. ASSUME NEW c \in Commands
          PROVE  /\ InSent(c)' \/ Served(c)' \/ InWire(c)' => future'[c] = "waiting"
                 /\ InSent(c)' => ~Served(c)' /\ ~InWire(c)'
                 /\ Served(c)' => ~InWire(c)'
      <4>1. /\ InSent(c) \/ Served(c) \/ InWire(c) => future[c] = "waiting"
            /\ InSent(c) => ~Served(c) /\ ~InWire(c)
            /\ Served(c) => ~InWire(c)
        BY DEF LinkInv, AnsweredOnce
      <4> QED BY <2>7, <4>1
    <3>2. \A i, j \in DOMAIN sent' : sent'[i].name = sent'[j].name => i = j
      BY <1>1 DEF LinkInv, AnsweredOnce
    <3> QED BY <3>1, <3>2 DEF AnsweredOnce, WireOnce
  <2> QED BY <2>1, <2>2, <2>6, <2>8 DEF LinkInv
<1>2. CASE /\ sent # <<>> /\ sent' = Tail(sent)
           /\ \A c \in Commands : c = Head(sent).name => Served(c)' \/ InWire(c)'
  <2>1. /\ sent \in Seq(Requests)
        /\ Tail(sent) \in Seq(Requests) /\ 1 \in DOMAIN sent /\ Head(sent) = sent[1]
        /\ \A i \in DOMAIN sent : i # 1 => i - 1 \in DOMAIN Tail(sent)
                                           /\ Tail(sent)[i - 1] = sent[i]
        /\ \A i \in DOMAIN Tail(sent) : i + 1 \in DOMAIN sent
                                        /\ sent[i + 1] = Tail(sent)[i]
    BY <1>2, TailHas DEF LinkInv, LinkTyped
  <2>2. LinkTyped' /\ ReaderWithConn' /\ NobodyForgotten'
    BY <1>2, <2>1 DEF LinkInv, LinkTyped, ReaderWithConn, NobodyForgotten
  <2>3. ReplyOnItsWay'
    <3> SUFFICES ASSUME conn = "up", NEW c \in Commands, future[c] = "waiting"
                 PROVE  InSent(c)' \/ Served(c)' \/ InWire(c)'
      BY DEF ReplyOnItsWay
    <3>1. InSent(c) \/ Served(c) \/ InWire(c)
      BY DEF LinkInv, ReplyOnItsWay
    <3>2. ASSUME InSent(c), c # Head(sent).name PROVE InSent(c)'
      <4>1. PICK i \in DOMAIN sent : sent[i].name = c
        BY <3>2 DEF InSent
      <4>2. i # 1
        BY <2>1, <3>2, <4>1
      <4>3. i - 1 \in DOMAIN sent' /\ sent'[i - 1] = sent[i]
        BY <1>2, <2>1, <4>2
      <4> QED BY <4>1, <4>3 DEF InSent
    <3> QED BY <3>1, <3>2, <1>2
  <2>4. \A i, j \in DOMAIN sent' : i = j <=> i + 1 = j + 1
    <3>1. DOMAIN sent' = 1 .. Len(sent')
      BY <1>2, <2>1, LenProperties
    <3>2. Len(sent') \in Nat
      BY <1>2, <2>1, LenProperties
    <3> QED BY <3>1, <3>2
  <2>5. \A i \in DOMAIN sent' : i + 1 \in DOMAIN sent /\ i + 1 # 1 /\ sent[i + 1] = sent'[i]
    <3>1. DOMAIN sent' = 1 .. Len(sent') /\ Len(sent') \in Nat
      BY <1>2, <2>1, LenProperties
    <3> QED BY <1>2, <2>1, <3>1
  <2>6. BegunOnce'
    <3> SUFFICES ASSUME NEW i \in DOMAIN sent', sent'[i].name \in Begins
                 PROVE  /\ session' = "none"
                        /\ \A j \in DOMAIN sent' : sent'[j].name \in Begins => i = j
      BY DEF BegunOnce
    <3>1. /\ session = "none"
          /\ \A j \in DOMAIN sent : sent[j].name \in Begins => i + 1 = j
      BY <2>5 DEF LinkInv, BegunOnce
    <3>2. \A j \in DOMAIN sent' : sent'[j].name \in Begins => i = j
      BY <3>1, <2>4, <2>5
    <3>3. Head(sent).name \notin Begins
      BY <3>1, <2>1, <2>5
    <3> QED BY <3>1, <3>2, <3>3
  <2>7. Unbegun => Unbegun'
    BY <1>2, <2>1, <2>5 DEF Unbegun, BeginsIn
  <2>8. QuietWhenLost'
    BY <1>2 DEF LinkInv, QuietWhenLost
  <2>9. AnsweredOnce'
    <3> SUFFICES ASSUME conn \in {"up", "lost"} PROVE AnsweredOnce'
      BY DEF AnsweredOnce
    <3>0. \A i, j \in DOMAIN sent : sent[i].name = sent[j].name => i = j
      BY DEF LinkInv, AnsweredOnce
    <3>1. \A i, j \in DOMAIN sent' : sent'[i].name = sent'[j].name => i = j
      <4> SUFFICES ASSUME NEW i \in DOMAIN sent', NEW j \in DOMAIN sent',
                          sent'[i].name = sent'[j].name
                   PROVE  i = j
        OBVIOUS
      <4>1. i + 1 = j + 1
        BY <2>5, <3>0
      <4> QED BY <2>4, <4>1
    <3>2. \A c \in Commands : InSent(c)' => InSent(c) /\ ~TakenUp(c)
      <4> SUFFICES ASSUME NEW c \in Commands, NEW i \in DOMAIN sent', sent'[i].name = c
                   PROVE  InSent(c) /\ ~TakenUp(c)
        BY DEF InSent
      <4>1. i + 1 \in DOMAIN sent /\ i + 1 # 1 /\ sent[i + 1].name = c
        BY <2>5
      <4>2. Head(sent).name # c
        BY <2>1, <3>0, <4>1
      <4> QED BY <4>1, <4>2 DEF InSent, TakenUp
    <3>3. \A c \in Commands : TakenUp(c) => InSent(c)
      BY <2>1 DEF TakenUp, InSent
    <3>4. ASSUME NEW c \in Commands
          PROVE  /\ InSent(c)' \/ Served(c)' \/ InWire(c)' => future'[c] = "waiting"
                 /\ InSent(c)' => ~Served(c)' /\ ~InWire(c)'
                 /\ Served(c)' => ~InWire(c)'
      <4>1. /\ InSent(c) \/ Served(c) \/ InWire(c) => future[c] = "waiting"
            /\ InSent(c) => ~Served(c) /\ ~InWire(c)
            /\ Served(c) => ~InWire(c)
        BY DEF LinkInv, AnsweredOnce
      <4> QED BY <3>2, <3>3, <4>1
    <3> QED BY <3>1, <3>4 DEF AnsweredOnce, WireOnce
  <2> QED BY <2>2, <2>3, <2>6, <2>7, <2>8, <2>9 DEF LinkInv
<1> QED BY <1>1, <1>2

\* Replies are single as long as there is a connection.
LEMMA UpOnce ==
    ASSUME LinkInv, conn \in {"up", "lost"}
    PROVE  /\ WireOnce
           /\ \A c \in Commands : InSent(c) \/ Served(c) => ~InWire(c)
           /\ \A c \in Commands : InSent(c) => ~Served(c)
  BY DEF LinkInv, AnsweredOnce, WireOnce

\* A request that is answered at once.
LEMMA ServeLink ==
    ASSUME LinkInv, NEW c \in Commands, NEW o \in {"ok", "error"},
           NEW events \in Seq(Events), Requested(c), Serve(c, events, o),
           UNCHANGED serving,
           session' = session \/ (session' = "open" /\ c \in Begins /\ session = "none")
              \/ (session = "open" /\ session' = "closed")
    PROVE  LinkInv' /\ (Unbegun => Unbegun') /\ future' = future
<1>1. Reply(c, o) \in Replies
  BY DEF Replies
<1>2. <<Reply(c, o)>> \in Seq(Replies)
  BY <1>1, OneIn
<1>3. /\ conn = "up" /\ sent # <<>> /\ Head(sent).name = c
      /\ sent' = Tail(sent) /\ Push(events, <<Reply(c, o)>>)
  BY DEF Requested, Serve
<1>4. WireOnce /\ ~InWire(c) /\ ~Served(c)
  <2>1. InSent(c)
    BY <1>3, TailHas DEF LinkInv, LinkTyped, InSent
  <2> QED BY <1>3, <2>1, UpOnce
<1>5. /\ wire' \in Seq(Lines) /\ UNCHANGED <<conn, connections, reader, future>>
      /\ \A d \in Commands : InWire(d) => InWire(d)'
      /\ \A d \in Commands : InWire(d)' /\ ~InWire(d) =>
            \E a \in {"ok", "error"} : <<Reply(c, o)>> = <<Reply(d, a)>>
      /\ InWire(c)' /\ WireOnce'
  BY <1>2, <1>3, <1>4, PushLink
<1>6. \A d \in Commands : InWire(d)' /\ ~InWire(d) => d = c
  BY <1>5 DEF Reply
<1>7. \A d \in Commands : Served(d) <=> Served(d)'
  BY DEF Served
<1>8. TakenUp(c)
  BY <1>3 DEF TakenUp
<1>9. \A d \in Commands : InWire(d)' /\ ~InWire(d) => TakenUp(d) /\ ~Served(d)'
  BY <1>4, <1>6, <1>7, <1>8
<1>10. session = "none" =>
         \/ session' = "none"
         \/ sent # <<>> /\ sent' = Tail(sent) /\ Head(sent).name \in Begins
  BY <1>3
<1>11. \A d \in Commands : d = Head(sent).name => Served(d)' \/ InWire(d)'
  BY <1>3, <1>5
<1> QED BY <1>3, <1>5, <1>7, <1>9, <1>10, <1>11, StepLink

\* What holds the session's lock is known.
SessionInv == ServiceTypeOK /\ (session \in {"running", "ending"} => serving # "none")

LEMMA EventLines ==
    /\ <<>> \in Seq(Events) /\ <<>> \in Seq(Replies)
    /\ \A t \in {"requested", "denied"}, p \in Asks : <<Event(t, p)>> \in Seq(Events)
    /\ \A t \in {"finished", "waiting", "closed"}, w \in {"own", "other"} :
          <<Event(t, w)>> \in Seq(Events)
    /\ \A t \in {"waiting", "closed"} :
          <<Event("finished", "own"), Event(t, "own")>> \in Seq(Events)
<1>1. \A t \in {"requested", "denied"}, p \in Asks : Event(t, p) \in Events
  BY DEF Events
<1>2. \A t \in {"finished", "waiting", "closed"}, w \in {"own", "other"} : Event(t, w) \in Events
  BY DEF Events
<1> QED BY <1>1, <1>2

\* The commands and approvals the daemon is asked about exist.
LEMMA RequestFacts ==
    ASSUME LinkInv, sent # <<>>
    PROVE  /\ Head(sent).name \in Commands /\ Head(sent).about \in Asks \cup {"none"}
           /\ Head(sent).name = "respond" => Head(sent).about \in Asks
<1>1. Head(sent) \in Requests /\ 1 \in DOMAIN sent /\ Head(sent) = sent[1]
  BY TailHas DEF LinkInv, LinkTyped
<1> QED BY <1>1 DEF LinkInv, LinkTyped, Requests

\* Only events, and no request: the session may be left as it is.
LEMMA EventLink ==
    ASSUME LinkInv, NEW events \in Seq(Events), Push(events, <<>>),
           UNCHANGED <<sent, serving>>,
           session' = session \/ (session = "running" /\ session' = "ending")
    PROVE  LinkInv' /\ (Unbegun => Unbegun') /\ future' = future
<1>1. /\ wire' \in Seq(Lines) /\ UNCHANGED <<conn, connections, reader, future>>
      /\ \A d \in Commands : InWire(d) => InWire(d)'
      /\ \A d \in Commands : InWire(d)' => InWire(d)
      /\ WireOnce => WireOnce'
  <2>1. \A d \in Commands, o \in {"ok", "error"} : <<>> # <<Reply(d, o)>>
    OBVIOUS
  <2> QED BY <2>1, PushLink, EventLines
<1>2. \A d \in Commands : Served(d) <=> Served(d)'
  BY DEF Served
<1>3. conn \in {"up", "lost"} => WireOnce'
  BY <1>1, UpOnce
<1> QED BY <1>1, <1>2, <1>3, StepLink

\* The reply that was waited for, when the run or the compaction is over.
LEMMA DoneLink ==
    ASSUME LinkInv, SessionInv, NEW o \in {"ok", "error"},
           UNCHANGED sent, session' \in {"open", "closed"},
           \/ /\ session = "compacting" /\ Push(<<>>, <<Reply("compact", o)>>)
           \/ /\ session \in {"running", "ending"} /\ Push(<<>>, Answer(o))
    PROVE  LinkInv' /\ (Unbegun => Unbegun') /\ future' = future
<1>1. \A c \in Commands : <<Reply(c, o)>> \in Seq(Replies)
  <2>1. \A c \in Commands : Reply(c, o) \in Replies
    BY DEF Replies
  <2> QED BY <2>1
<1>2. \A d \in Commands : ~Served(d)'
  BY DEF Served
<1>3. session # "none"
  OBVIOUS
<1>4. ASSUME NEW c \in Commands, Served(c), \A d \in Commands : Served(d) => d = c,
             Push(<<>>, <<Reply(c, o)>>)
      PROVE  LinkInv' /\ (Unbegun => Unbegun') /\ future' = future
  <2>1. conn = "up" => ~InWire(c)
    BY <1>4, UpOnce
  <2>2. /\ wire' \in Seq(Lines) /\ UNCHANGED <<conn, connections, reader, future>>
        /\ \A d \in Commands : InWire(d) => InWire(d)'
        /\ \A d \in Commands : InWire(d)' /\ ~InWire(d) =>
              \E a \in {"ok", "error"} : <<Reply(c, o)>> = <<Reply(d, a)>>
        /\ conn = "up" => InWire(c)'
        /\ WireOnce => WireOnce'
    BY <1>1, <1>4, <2>1, PushLink, EventLines
  <2>3. \A d \in Commands : InWire(d)' /\ ~InWire(d) => d = c
    BY <2>2 DEF Reply
  <2>4. conn \in {"up", "lost"} => WireOnce'
    BY <2>2, UpOnce
  <2> QED BY <1>2, <1>3, <1>4, <2>2, <2>3, <2>4, StepLink
<1>5. CASE session = "compacting" /\ Push(<<>>, <<Reply("compact", o)>>)
  <2>1. /\ "compact" \in Commands /\ Served("compact")
        /\ \A d \in Commands : Served(d) => d = "compact"
    BY <1>5, ServiceAssumption DEF OtherMethods, Served
  <2> QED BY <1>4, <1>5, <2>1
<1>6. CASE session \in {"running", "ending"} /\ Push(<<>>, Answer(o))
  <2>1. CASE serving \in Sends
    <3>1. PICK c \in Sends : c = serving
      BY <2>1
    <3>2. c \in Commands /\ c # "run"
      BY ServiceAssumption DEF OtherMethods
    <3>3. Push(<<>>, <<Reply(c, o)>>)
      BY <1>6, <3>1, <3>2 DEF Answer
    <3>4. Served(c) /\ \A d \in Commands : Served(d) => d = c
      BY <1>6, <3>1 DEF Served
    <3> QED BY <1>4, <3>2, <3>3, <3>4
  <2>2. CASE serving \notin Sends
    <3>1. \A d \in Commands : ~Served(d)
      BY <1>6, <2>2 DEF Served
    <3>2. CASE serving = "run"
      <4>1. Push(<<>>, <<>>)
        BY <1>6, <3>2 DEF Answer
      <4>2. /\ wire' \in Seq(Lines) /\ UNCHANGED <<conn, connections, reader, future>>
            /\ \A d \in Commands : InWire(d) => InWire(d)'
            /\ \A d \in Commands : InWire(d)' => InWire(d)
            /\ WireOnce => WireOnce'
        <5>1. \A d \in Commands, a \in {"ok", "error"} : <<>> # <<Reply(d, a)>>
          OBVIOUS
        <5> QED BY <4>1, <5>1, PushLink, EventLines
      <4>3. conn \in {"up", "lost"} => WireOnce'
        BY <4>2, UpOnce
      <4> QED BY <1>2, <1>3, <3>1, <4>2, <4>3, StepLink
    <3> QED BY <1>6, <2>2, <3>2 DEF SessionInv, ServiceTypeOK
  <2> QED BY <2>1, <2>2
<1> QED BY <1>5, <1>6

\* Every step of the daemon.
LEMMA DaemonLink ==
    ASSUME LinkInv, SessionInv, ServiceStep \/ ServiceElse
    PROVE  LinkInv' /\ SessionInv' /\ (Unbegun => Unbegun') /\ future' = future
<1> USE ServiceAssumption
<1>0. OtherMethods \subseteq Commands /\ Sends \subseteq Commands
  OBVIOUS
<1> DEFINE Result == LinkInv' /\ SessionInv' /\ (Unbegun => Unbegun') /\ future' = future
<1>1. CASE ServeSubscribe
  <2>1. SessionInv'
    BY <1>1 DEF ServeSubscribe, SessionInv, ServiceTypeOK
  <2> QED
    BY <1>1, <2>1, <1>0, ServeLink, EventLines DEF ServeSubscribe, OtherMethods
<1>2. CASE ServeCreate
  <2>1. /\ conn = "up" /\ sent # <<>> /\ Head(sent).name = "create"
    BY <1>2 DEF ServeCreate, Requested
  <2>2. session = "none"
    BY <2>1, TailHas DEF LinkInv, LinkTyped, BegunOnce, Begins
  <2>3. SessionInv'
    BY <1>2 DEF ServeCreate, SessionInv, ServiceTypeOK
  <2>4. session' = "open" /\ "create" \in Begins /\ "create" \in Commands
    BY <1>2, <1>0 DEF ServeCreate, Begins, OtherMethods
  <2> QED
    BY <1>2, <2>2, <2>3, <2>4, ServeLink, EventLines DEF ServeCreate
<1>3. CASE ServeRun
  <2>1. /\ conn = "up" /\ sent # <<>> /\ Head(sent).name = "run"
        /\ sent' = Tail(sent) /\ Push(<<>>, <<Reply("run", "ok")>>)
    BY <1>3 DEF ServeRun, Requested, Serve
  <2>2. session = "none" /\ "run" \in Begins /\ "run" \in Commands
    BY <2>1, <1>0, TailHas DEF LinkInv, LinkTyped, BegunOnce, Begins, OtherMethods
  <2>3. SessionInv'
    BY <1>3 DEF ServeRun, SessionInv, ServiceTypeOK
  <2>4. <<Reply("run", "ok")>> \in Seq(Replies)
    <3>1. Reply("run", "ok") \in Replies
      BY <2>2 DEF Replies
    <3> QED BY <3>1
  <2>5. \A d \in Commands : ~Served(d) /\ ~Served(d)'
    BY <1>3, <2>2 DEF Served, ServeRun, OtherMethods
  <2>6. InSent("run") /\ ~InWire("run") /\ WireOnce
    <3>1. InSent("run")
      BY <2>1, TailHas DEF LinkInv, LinkTyped, InSent
    <3> QED BY <2>1, <2>2, <3>1, UpOnce
  <2>7. /\ wire' \in Seq(Lines) /\ UNCHANGED <<conn, connections, reader, future>>
        /\ \A d \in Commands : InWire(d) => InWire(d)'
        /\ \A d \in Commands : InWire(d)' /\ ~InWire(d) =>
              \E a \in {"ok", "error"} : <<Reply("run", "ok")>> = <<Reply(d, a)>>
        /\ InWire("run")' /\ WireOnce'
    BY <2>1, <2>2, <2>4, <2>6, PushLink, EventLines
  <2>8. \A d \in Commands : InWire(d)' /\ ~InWire(d) => TakenUp(d)
    BY <2>1, <2>7 DEF Reply, TakenUp
  <2> QED
    BY <2>1, <2>2, <2>3, <2>5, <2>7, <2>8, StepLink
<1>4. CASE ServeSend
  <2>1. PICK c \in Sends :
          /\ conn = "up" /\ sent # <<>> /\ Head(sent).name = c
          /\ IF session = "open"
             THEN /\ session' = "running" /\ serving' = c /\ sent' = Tail(sent)
                  /\ UNCHANGED <<conn, connections, reader, future, wire>>
             ELSE Serve(c, <<>>, "error") /\ UNCHANGED <<session, serving>>
          /\ UNCHANGED <<subscribed, ask, others>>
    BY <1>4 DEF ServeSend, Requested
  <2>2. c \in Commands /\ c # "none"
    OBVIOUS
  <2>3. SessionInv'
    BY <2>1, <2>2 DEF SessionInv, ServiceTypeOK
  <2>4. CASE session = "open"
    <3>1. /\ Served(c)' /\ \A d \in Commands : ~Served(d)
          /\ \A d \in Commands : Served(d)' => d = c
          /\ TakenUp(c)
      BY <2>1, <2>4 DEF Served, TakenUp
    <3>2. /\ wire' \in Seq(Lines) /\ \A d \in Commands : InWire(d) <=> InWire(d)'
          /\ WireOnce'
      BY <2>1, <2>4, UpOnce DEF LinkInv, LinkTyped, InWire, WireOnce
    <3> QED BY <2>1, <2>3, <2>4, <3>1, <3>2, StepLink
  <2>5. CASE session # "open"
    BY <2>1, <2>2, <2>3, <2>5, ServeLink, EventLines DEF Requested
  <2> QED BY <2>4, <2>5
<1>5. CASE ServeCompact
  <2>1. SessionInv'
    BY <1>5 DEF ServeCompact, SessionInv, ServiceTypeOK
  <2>2. CASE session = "open"
    <3>1. /\ conn = "up" /\ sent # <<>> /\ Head(sent).name = "compact"
          /\ session' = "compacting" /\ sent' = Tail(sent)
          /\ UNCHANGED <<conn, connections, reader, future, wire, serving>>
      BY <1>5, <2>2 DEF ServeCompact, Requested
    <3>2. /\ Served("compact")' /\ \A d \in Commands : ~Served(d)
          /\ \A d \in Commands : Served(d)' => TakenUp(d)
      BY <2>2, <3>1 DEF Served, TakenUp
    <3>3. /\ wire' \in Seq(Lines) /\ \A d \in Commands : InWire(d) <=> InWire(d)'
          /\ WireOnce'
      BY <3>1, UpOnce DEF LinkInv, LinkTyped, InWire, WireOnce
    <3> QED BY <2>1, <2>2, <3>1, <3>2, <3>3, StepLink
  <2>3. CASE session # "open"
    BY <1>0, <1>5, <2>1, <2>3, ServeLink, EventLines DEF ServeCompact, OtherMethods
  <2> QED BY <2>2, <2>3
<1>6. CASE Compacted
  <2>1. SessionInv'
    BY <1>6 DEF Compacted, SessionInv, ServiceTypeOK
  <2> QED BY <1>6, <2>1, DoneLink DEF Compacted
<1>7. CASE ServeRespond
  <2>1. /\ sent # <<>> /\ Head(sent).name = "respond" /\ Head(sent).about \in Asks
    BY <1>7, RequestFacts DEF ServeRespond, Requested
  <2>2. PICK p \in Asks : p = Head(sent).about
    BY <2>1
  <2>3. ask' = [ask EXCEPT ![p] = IF Pending(p) THEN "answered" ELSE @]
    BY <1>7, <2>2 DEF ServeRespond
  <2>4. SessionInv'
    BY <1>7, <2>3 DEF ServeRespond, SessionInv, ServiceTypeOK
  <2>5. PICK events \in Seq(Events) : Serve("respond", events, "ok")
    BY <1>7, <2>2, EventLines DEF ServeRespond
  <2> QED BY <1>0, <1>7, <2>4, <2>5, ServeLink DEF ServeRespond, OtherMethods
<1>8. CASE ServeClose
  <2>1. SessionInv'
    BY <1>8 DEF ServeClose, SessionInv, ServiceTypeOK
  <2>2. CASE session \in {"open", "closed"}
    <3>1. <<Event("closed", "own")>> \in Seq(Events)
      BY EventLines
    <3> QED
      BY <1>0, <1>8, <2>1, <2>2, <3>1, ServeLink DEF ServeClose, OtherMethods
  <2>3. CASE session \notin {"open", "closed"}
    BY <1>0, <1>8, <2>1, <2>3, ServeLink, EventLines DEF ServeClose, OtherMethods
  <2> QED BY <2>2, <2>3
<1>9. CASE RunOver
  <2>1. SessionInv'
    BY <1>9 DEF RunOver, SessionInv, ServiceTypeOK
  <2>2. PICK events \in Seq(Events) : Push(events, <<>>)
    BY <1>9, EventLines DEF RunOver
  <2> QED BY <1>9, <2>1, <2>2, EventLink DEF RunOver
<1>10. CASE Unlocked
  <2>1. SessionInv'
    BY <1>10 DEF Unlocked, SessionInv, ServiceTypeOK
  <2> QED BY <1>10, <2>1, DoneLink DEF Unlocked
<1>11. CASE RunRaises
  <2>1. SessionInv'
    BY <1>11 DEF RunRaises, SessionInv, ServiceTypeOK
  <2> QED BY <1>11, <2>1, DoneLink DEF RunRaises
<1>12. ASSUME NEW p \in Asks, AskTimesOut(p) \/ AnsweredElsewhere(p) \/ Asked(p)
       PROVE  Result
  <2>1. SessionInv'
    BY <1>12 DEF AskTimesOut, AnsweredElsewhere, Asked, SessionInv, ServiceTypeOK
  <2>2. PICK events \in Seq(Events) : Push(events, <<>>)
    BY <1>12, EventLines DEF AskTimesOut, AnsweredElsewhere, Asked
  <2>3. UNCHANGED <<sent, serving, session>>
    BY <1>12 DEF AskTimesOut, AnsweredElsewhere, Asked
  <2> QED BY <2>1, <2>2, <2>3, EventLink
<1>13. ASSUME NEW t \in {"finished", "waiting", "closed"}, OtherEvent(t)
       PROVE  Result
  <2>1. SessionInv'
    BY <1>13 DEF OtherEvent, SessionInv, ServiceTypeOK
  <2>2. PICK events \in Seq(Events) : Push(events, <<>>)
    BY <1>13, EventLines DEF OtherEvent
  <2>3. UNCHANGED <<sent, serving, session>>
    BY <1>13 DEF OtherEvent
  <2> QED BY <2>1, <2>2, <2>3, EventLink
<1>14. CASE Lost
  <2>1. SessionInv'
    BY <1>14 DEF Lost, SessionInv, ServiceTypeOK
  <2>2. LinkInv' /\ ~BeginsIn(sent') /\ future' = future /\ session' = "none"
    BY <1>14, BreakLink DEF Lost
  <2> QED BY <2>1, <2>2 DEF Unbegun
<1> QED
  BY <1>1, <1>2, <1>3, <1>4, <1>5, <1>6, <1>7, <1>8, <1>9, <1>10, <1>11, <1>12, <1>13, <1>14
  DEF ServiceStep, ServiceElse

-----------------------------------------------------------------------------
(* What the clients do with the connection                                  *)

LEMMA SessionKept ==
    ASSUME SessionInv, UNCHANGED serviceVars
    PROVE  SessionInv'
  BY DEF SessionInv, ServiceTypeOK, serviceVars, Pending

LEMMA TakenLink ==
    ASSUME LinkInv, NEW c \in Commands, future[c] # "waiting", Taken(c),
           UNCHANGED serviceVars
    PROVE  /\ LinkInv' /\ (Unbegun => Unbegun') /\ future'[c] = "none"
           /\ \A d \in Commands \ {c} : future'[d] = future[d]
<1>1. /\ future' = [future EXCEPT ![c] = "none"] /\ future \in [Commands -> Futures]
      /\ UNCHANGED <<conn, connections, reader, sent, wire, session, serving>>
  BY DEF Taken, serviceVars, LinkInv, LinkTyped
<1>2. /\ future' \in [Commands -> Futures] /\ future'[c] = "none"
      /\ \A d \in Commands : future'[d] = "waiting" <=> future[d] = "waiting"
      /\ \A d \in Commands \ {c} : future'[d] = future[d]
  BY <1>1 DEF Futures
<1> QED BY <1>1, <1>2, TakeLink DEF Unbegun

LEMMA SentLink ==
    ASSUME LinkInv, NEW c \in Commands, NEW about \in Asks \cup {"none"},
           c = "respond" => about \in Asks, c \notin Begins,
           future[c] # "waiting", Send(c, about), UNCHANGED serviceVars
    PROVE  /\ LinkInv' /\ (Unbegun => Unbegun') /\ future'[c] # "none"
           /\ \A d \in Commands \ {c} : future'[d] = future[d]
<1>1. PICK o \in Outcomes : future' = [future EXCEPT ![c] = o]
  BY DEF Send
<1>2. /\ future' \in [Commands -> Futures] /\ future'[c] = o /\ o # "none"
      /\ \A d \in Commands \ {c} : future'[d] = future[d]
  BY <1>1, OutcomesTyped DEF LinkInv, LinkTyped
<1>3. /\ sent' = IF conn = "up" THEN Append(sent, [name |-> c, about |-> about]) ELSE sent
      /\ UNCHANGED <<conn, connections, reader, wire, session, serving>>
  BY DEF Send, serviceVars
<1> QED BY <1>2, <1>3, SendLink DEF Unbegun

\* The reply to core.subscribe is in, and the next command goes out.
LEMMA NextLink ==
    ASSUME LinkInv, NEW c \in Commands \ {"subscribe", "respond"}, "subscribe" \in Commands,
           c \in Begins => Unbegun,
           future[c] # "waiting", future["subscribe"] # "waiting",
           \E o \in Outcomes : future' = [future EXCEPT !["subscribe"] = "none", ![c] = o],
           sent' = IF conn = "up" THEN Append(sent, [name |-> c, about |-> "none"])
                   ELSE sent,
           UNCHANGED <<conn, connections, reader, wire, serviceVars>>
    PROVE  /\ LinkInv' /\ future'[c] # "none" /\ future'["subscribe"] = "none"
           /\ \A d \in Commands \ {c, "subscribe"} : future'[d] = future[d]
<1>1. PICK o \in Outcomes : future' = [future EXCEPT !["subscribe"] = "none", ![c] = o]
  OBVIOUS
<1>2. /\ future' \in [Commands -> Futures] /\ future'[c] = o /\ o # "none"
      /\ future'["subscribe"] = "none"
      /\ \A d \in Commands \ {c} : future'[d] = "waiting" <=> future[d] = "waiting"
      /\ \A d \in Commands \ {c, "subscribe"} : future'[d] = future[d]
  BY <1>1, OutcomesTyped DEF LinkInv, LinkTyped, Futures
<1>3. UNCHANGED <<conn, connections, reader, wire, session, serving>>
  BY DEF serviceVars
<1> QED BY <1>2, <1>3, SendLink DEF Unbegun

LEMMA CloseLink ==
    ASSUME LinkInv, NEW c, CloseTaking(c)
    PROVE  /\ LinkInv' /\ ~BeginsIn(sent')
           /\ \A d \in Commands : d # c => (future[d] = "none" <=> future'[d] = "none")
           /\ \A d \in Commands : d = c => future'[d] = "none"
<1>1. /\ conn' = "closed" /\ reader' = "over" /\ sent' = <<>> /\ wire' = <<>>
      /\ UNCHANGED connections
      /\ future' = [d \in Commands |->
                     CASE d = c                        -> "none"
                       [] d # c /\ reader = "running"  -> CancelWaiting[d]
                       [] d # c /\ reader # "running"  -> future[d]]
  BY DEF CloseTaking
<1>2. \A d \in Commands :
         /\ CancelWaiting[d] \in Futures \ {"waiting"}
         /\ future[d] = "none" <=> CancelWaiting[d] = "none"
  BY DEF CancelWaiting, LinkInv, LinkTyped, Futures, Settled
<1>3. reader # "running" => \A d \in Commands : future[d] # "waiting"
  BY DEF LinkInv, NobodyForgotten
<1>4. \A d \in Commands :
         /\ future'[d] \in Futures \ {"waiting"}
         /\ d # c => (future[d] = "none" <=> future'[d] = "none")
  <2> SUFFICES ASSUME NEW d \in Commands
               PROVE  /\ future'[d] \in Futures \ {"waiting"}
                      /\ d # c => (future[d] = "none" <=> future'[d] = "none")
    OBVIOUS
  <2>1. CASE d = c
    BY <1>1, <2>1 DEF Futures, Settled
  <2>2. CASE d # c /\ reader = "running"
    BY <1>1, <1>2, <2>2
  <2>3. CASE d # c /\ reader # "running"
    <3>1. future'[d] = future[d]
      BY <1>1, <2>3
    <3> QED BY <1>3, <2>3, <3>1 DEF LinkInv, LinkTyped
  <2> QED BY <2>1, <2>2, <2>3
<1>5. future' \in [Commands -> Futures]
  BY <1>1, <1>4
<1>6. \A d \in Commands : d = c => future'[d] = "none"
  BY <1>1
<1> QED BY <1>1, <1>4, <1>5, <1>6, EndLink

LEMMA ExitLink ==
    ASSUME LinkInv, Exit
    PROVE  LinkInv' /\ ~BeginsIn(sent')
<1>1. /\ conn' = "closed" /\ reader' = "over" /\ sent' = <<>> /\ wire' = <<>>
      /\ UNCHANGED connections /\ future' = [c \in Commands |-> "none"]
  BY DEF Exit
<1>2. future' \in [Commands -> Futures] /\ \A d \in Commands : future'[d] # "waiting"
  BY <1>1 DEF Futures
<1> QED BY <1>1, <1>2, EndLink

\* Whoever has a future has it still when a line is read or the stream ends,
\* and nobody gets one.
LEMMA ReadsLink ==
    ASSUME LinkInv, UNCHANGED <<session, serving>>,
           DispatchReply \/ LoopEnds \/ \E t : DispatchEvent(t)
    PROVE  /\ LinkInv' /\ (Unbegun => Unbegun')
           /\ \A d \in Commands : future[d] = "none" <=> future'[d] = "none"
<1>0. UNCHANGED <<connections, sent>>
  BY DEF DispatchReply, LoopEnds, DispatchEvent
<1>1. CASE DispatchReply
  <2>1. /\ reader = "running" /\ wire # <<>> /\ wire' = Tail(wire) /\ Head(wire).kind = "reply"
        /\ future' = [future EXCEPT ![Head(wire).name] =
                         IF @ = "waiting" THEN Head(wire).about ELSE @]
        /\ UNCHANGED <<conn, connections, reader, sent, session, serving>>
    BY <1>1 DEF DispatchReply
  <2>2. Head(wire) \in Lines
    BY <2>1, TailHas DEF LinkInv, LinkTyped
  <2>3. Head(wire).about # "none"
    BY <2>1, <2>2, LineFacts
  <2>4. \A d \in Commands : future[d] = "none" <=> future'[d] = "none"
    BY <2>1, <2>3 DEF LinkInv, LinkTyped
  <2> QED BY <1>0, <2>1, <2>4, ReadLink DEF Unbegun
<1>2. ASSUME NEW t, DispatchEvent(t)
      PROVE  /\ LinkInv' /\ (Unbegun => Unbegun')
             /\ \A d \in Commands : future[d] = "none" <=> future'[d] = "none"
  <2>1. /\ reader = "running" /\ wire # <<>> /\ wire' = Tail(wire) /\ Head(wire).kind = "event"
        /\ future' = future
        /\ UNCHANGED <<conn, connections, reader, sent, session, serving>>
    BY <1>2 DEF DispatchEvent
  <2> QED BY <1>0, <2>1, ReadLink DEF Unbegun
<1>3. CASE LoopEnds
  <2>1. /\ conn = "lost" /\ conn' = "lost" /\ reader' = "over" /\ future' = CancelWaiting
        /\ UNCHANGED <<connections, sent, wire>>
    BY <1>3 DEF LoopEnds
  <2>2. /\ future' \in [Commands -> Futures]
        /\ \A d \in Commands : /\ future'[d] # "waiting"
                               /\ future[d] = "none" <=> future'[d] = "none"
    BY <2>1 DEF CancelWaiting, LinkInv, LinkTyped, Futures, Settled
  <2>3. /\ LinkTyped' /\ ReaderWithConn' /\ NobodyForgotten' /\ ReplyOnItsWay'
        /\ BegunOnce' /\ QuietWhenLost'
    BY <2>1, <2>2
    DEF LinkInv, LinkTyped, ReaderWithConn, NobodyForgotten, ReplyOnItsWay, BegunOnce,
        QuietWhenLost
  <2>4. AnsweredOnce'
    <3>1. sent' = <<>> /\ wire' = <<>> /\ session' = "none" /\ DOMAIN <<>> = {}
      BY <1>3, <2>1, NothingIn DEF LoopEnds, LinkInv, QuietWhenLost
    <3>2. \A d \in Commands : ~InSent(d)' /\ ~Served(d)' /\ ~InWire(d)'
      BY <3>1 DEF InSent, Served, InWire
    <3> QED BY <3>1, <3>2 DEF AnsweredOnce
  <2> QED BY <1>0, <2>2, <2>3, <2>4 DEF LinkInv, Unbegun
<1> QED BY <1>1, <1>2, <1>3

-----------------------------------------------------------------------------
(* The TUI                                                                  *)

TuiInv ==
    /\ TuiTypeOK /\ selects \in Seq(Asks)
    /\ worker \in {"disconnected", "subscribing"} => Unbegun
    /\ app # "over" =>
          /\ worker = "subscribing" <=> future["subscribe"] # "none"
          /\ worker = "creating" <=> future["create"] # "none"
          /\ app = "responding" <=> future["respond"] # "none"
          /\ app # "quitting" => future["close"] = "none"
          /\ \A c \in queued : future[c] = "none"

LEMMA CommandFacts ==
    /\ {"subscribe", "create", "compact", "respond", "close", "run"} \subseteq Commands
    /\ Sends \subseteq Commands
    /\ Sends \cap {"subscribe", "create", "compact", "respond", "close", "run", "none"} = {}
  BY ServiceAssumption DEF OtherMethods

LEMMA SelectsTyped ==
    ASSUME NEW s \in Seq(Asks)
    PROVE  Range(s) \subseteq Asks
  BY DEF Range

LEMMA NoSelects == <<>> \in Seq(Asks) /\ Range(<<>>) \subseteq Asks
<1>1. <<>> \in Seq(Asks)
  OBVIOUS
<1> QED BY <1>1, NothingIn DEF Range

\* A future that is settled does not wait.
LEMMA SettledFacts == "none" \notin Settled /\ "waiting" \notin Settled
  BY DEF Settled

\* Removing a select leaves selects.
LEMMA RemoveSelect ==
    ASSUME selects \in Seq(Asks), NEW i \in DOMAIN selects
    PROVE  RemoveAt(selects, i) \in Seq(Asks) /\ selects[i] \in Asks
<1>1. i \in 1 .. Len(selects) /\ Len(selects) \in Nat
  BY LenProperties
<1>2. /\ SubSeq(selects, 1, i - 1) \in Seq(Asks)
      /\ SubSeq(selects, i + 1, Len(selects)) \in Seq(Asks)
  BY <1>1
<1>3. SubSeq(selects, 1, i - 1) \o SubSeq(selects, i + 1, Len(selects)) \in Seq(Asks)
  BY <1>2, ConcatProperties
<1> QED BY <1>1, <1>3 DEF RemoveAt

LEMMA TuiReadsInv ==
    ASSUME LinkInv, SessionInv, TuiInv, TuiReads
    PROVE  LinkInv' /\ SessionInv' /\ TuiInv'
<1>1. UNCHANGED serviceVars /\ UNCHANGED <<worker, app, queued>>
  BY DEF TuiReads, OnWaiting, OnClosed, OnRequested, OnDenied, OnOther, tuiVars
<1>2. DispatchReply \/ LoopEnds \/ \E t : DispatchEvent(t)
  BY DEF TuiReads, OnWaiting, OnClosed, OnRequested, OnDenied, OnOther
<1>3. /\ LinkInv' /\ (Unbegun => Unbegun')
      /\ \A d \in Commands : future[d] = "none" <=> future'[d] = "none"
  BY <1>1, <1>2, ReadsLink DEF serviceVars
<1>4. SessionInv'
  BY <1>1, SessionKept
<1>5. /\ blocks' \subseteq Asks /\ selects' \in Seq(Asks)
      /\ busy' \in BOOLEAN /\ enabled' \in BOOLEAN
  <2>1. CASE UNCHANGED tuiVars
    BY <2>1 DEF TuiInv, TuiTypeOK, tuiVars
  <2>2. CASE OnWaiting \/ OnClosed
    BY <2>2 DEF OnWaiting, OnClosed, TuiInv, TuiTypeOK
  <2>3. CASE OnRequested
    <3>1. wire # <<>> /\ Head(wire).kind = "event" /\ Head(wire).name = "requested"
      BY <2>3 DEF OnRequested, DispatchEvent
    <3>2. Head(wire).about \in Asks
      BY <3>1, TailHas, LineFacts DEF LinkInv, LinkTyped
    <3>3. Append(selects, Head(wire).about) \in Seq(Asks)
      BY <3>2, AppendHas DEF TuiInv
    <3> QED BY <2>3, <3>2, <3>3 DEF OnRequested, TuiInv, TuiTypeOK
  <2>4. CASE OnDenied
    <3>1. selects # <<>> => Tail(selects) \in Seq(Asks)
      BY TailHas DEF TuiInv
    <3> QED BY <2>4, <3>1 DEF OnDenied, TuiInv, TuiTypeOK
  <2>5. OnOther => UNCHANGED tuiVars
    BY DEF OnOther
  <2>6. OnWaiting \/ OnClosed \/ OnRequested \/ OnDenied \/ UNCHANGED tuiVars
    BY <2>5 DEF TuiReads
  <2> QED BY <2>1, <2>2, <2>3, <2>4, <2>6
<1>6. TuiInv'
  BY <1>1, <1>3, <1>5, SelectsTyped, CommandFacts DEF TuiInv, TuiTypeOK
<1> QED BY <1>3, <1>4, <1>6

LEMMA TuiLeaves ==
    ASSUME LinkInv, SessionInv, TuiInv, app # "over",
           NEW c, NEW next \in {"disconnected", "over"},
           \/ worker = "subscribing" /\ c = "subscribe"
           \/ worker = "creating" /\ c = "create"
           \/ worker = "ready" /\ c = "none",
           Leave(c, next)
    PROVE  LinkInv' /\ SessionInv' /\ TuiInv'
<1>1. /\ LinkInv' /\ ~BeginsIn(sent')
      /\ \A d \in Commands : d # c => (future[d] = "none" <=> future'[d] = "none")
      /\ \A d \in Commands : d = c => future'[d] = "none"
  BY CloseLink DEF Leave
<1>2. SessionInv' /\ Unbegun'
  BY <1>1 DEF Leave, SessionInv, ServiceTypeOK, Unbegun
<1>3. /\ worker' = next /\ enabled' = FALSE
      /\ UNCHANGED <<app, queued, busy, blocks, selects>>
  BY DEF Leave
<1>4. /\ \A d \in {"subscribe", "create"} : future'[d] = "none"
      /\ \A d \in Commands \ {"subscribe", "create", "none"} :
            future[d] = "none" <=> future'[d] = "none"
  BY <1>1, CommandFacts DEF TuiInv
<1>5. TuiInv'
  <2>1. TuiTypeOK' /\ selects' \in Seq(Asks)
    BY <1>3, SelectsTyped DEF TuiInv, TuiTypeOK
  <2>2. \A d \in queued : d \in Commands \ {"subscribe", "create", "none"}
    BY CommandFacts DEF TuiInv, TuiTypeOK
  <2> QED BY <1>2, <1>3, <1>4, <2>1, <2>2, CommandFacts DEF TuiInv
<1> QED BY <1>1, <1>2, <1>5

LEMMA TuiStepInv ==
    ASSUME LinkInv, SessionInv, TuiInv, TuiStep
    PROVE  LinkInv' /\ SessionInv' /\ TuiInv'
<1> DEFINE Result == LinkInv' /\ SessionInv' /\ TuiInv'
<1>0. app # "over"
  BY DEF TuiStep
<1>1. CASE Subscribed
  <2>1. /\ UNCHANGED serviceVars /\ worker = "subscribing" /\ worker' = "creating"
        /\ UNCHANGED <<app, queued, busy, enabled, blocks, selects>>
    BY <1>1 DEF Subscribed
  <2>2. Unbegun /\ future["create"] # "waiting" /\ future["subscribe"] # "waiting"
    BY <1>0, <1>1, <2>1 DEF TuiInv, Subscribed
  <2>3. /\ LinkInv' /\ future'["create"] # "none" /\ future'["subscribe"] = "none"
        /\ \A d \in Commands \ {"create", "subscribe"} : future'[d] = future[d]
    BY <1>1, <2>2, NextLink, CommandFacts DEF Subscribed
  <2>4. SessionInv'
    BY <2>1, SessionKept
  <2>5. TuiInv'
    BY <2>1, <2>3, CommandFacts DEF TuiInv, TuiTypeOK
  <2> QED BY <2>3, <2>4, <2>5
<1>2. CASE Created
  <2>1. /\ UNCHANGED serviceVars /\ worker' = "ready" /\ enabled' = TRUE /\ Taken("create")
        /\ UNCHANGED <<app, queued, busy, blocks, selects>>
        /\ worker = "creating" /\ future["create"] = "ok"
    BY <1>2 DEF Created
  <2>2. /\ LinkInv' /\ (Unbegun => Unbegun') /\ future'["create"] = "none"
        /\ \A d \in Commands \ {"create"} : future'[d] = future[d]
    BY <2>1, TakenLink, CommandFacts
  <2>3. SessionInv'
    BY <2>1, SessionKept
  <2>4. TuiInv'
    BY <2>1, <2>2, CommandFacts DEF TuiInv, TuiTypeOK
  <2> QED BY <2>2, <2>3, <2>4
<1>3. CASE SetUpFails
  <2>1. PICK c \in {"subscribe", "create"} :
          /\ worker = IF c = "subscribe" THEN "subscribing" ELSE "creating"
          /\ Leave(c, IF future[c] = "error" THEN "disconnected" ELSE "over")
    BY <1>3 DEF SetUpFails
  <2>2. PICK next \in {"disconnected", "over"} : Leave(c, next)
    BY <2>1
  <2> QED BY <1>0, <2>1, <2>2, TuiLeaves
<1>4. CASE TuiDisconnected
  BY <1>0, <1>4, TuiLeaves DEF TuiDisconnected
<1>5. ASSUME NEW c \in Sends \cup {"compact"}, TuiSend(c)
      PROVE  Result
  <2>1. /\ UNCHANGED serviceVars
        /\ UNCHANGED <<worker, app, busy, enabled, blocks, selects>>
        /\ queued' = queued \ {c}
    BY <1>5 DEF TuiSend
  <2>2. /\ c \in Commands /\ c \notin Begins
        /\ c \notin {"subscribe", "create", "respond"}
    BY CommandFacts DEF Begins
  <2>3. SessionInv'
    BY <2>1, SessionKept
  <2>4. /\ LinkInv' /\ (Unbegun => Unbegun')
        /\ \A d \in Commands \ {c} : future'[d] = future[d]
    <3>0. future[c] # "waiting"
      BY <1>0, <1>5 DEF TuiInv, TuiSend
    <3>1. CASE Connected
      BY <3>0, <1>5, <2>1, <2>2, <3>1, SentLink DEF TuiSend
    <3>2. CASE ~Connected
      <4>1. UNCHANGED linkVars
        BY <1>5, <3>2 DEF TuiSend
      <4>2. UNCHANGED <<conn, connections, reader, future, sent, wire, session, serving>>
        BY <2>1, <4>1 DEF linkVars, serviceVars
      <4> QED BY <4>2, TakeLink DEF LinkInv, LinkTyped, Unbegun
    <3> QED BY <3>1, <3>2
  <2>5. TuiInv'
    BY <2>1, <2>2, <2>4, CommandFacts DEF TuiInv, TuiTypeOK
  <2> QED BY <2>3, <2>4, <2>5
<1>6. ASSUME NEW c \in Sends \cup {"compact"}, TuiSent(c)
      PROVE  Result
  <2>1. /\ UNCHANGED serviceVars /\ Taken(c)
        /\ UNCHANGED <<worker, app, queued, blocks, selects>>
        /\ busy' \in BOOLEAN /\ enabled' \in BOOLEAN
        /\ future[c] # "waiting"
    BY <1>6, SettledFacts DEF TuiSent, TuiInv, TuiTypeOK
  <2>2. c \in Commands /\ c \notin {"subscribe", "create", "respond"}
    BY CommandFacts
  <2>3. SessionInv'
    BY <2>1, SessionKept
  <2>4. /\ LinkInv' /\ (Unbegun => Unbegun') /\ future'[c] = "none"
        /\ \A d \in Commands \ {c} : future'[d] = future[d]
    BY <2>1, <2>2, TakenLink
  <2>5. TuiInv'
    BY <2>1, <2>2, <2>4, CommandFacts DEF TuiInv, TuiTypeOK
  <2> QED BY <2>3, <2>4, <2>5
<1>7. CASE Decided
  <2>1. /\ UNCHANGED serviceVars /\ Taken("respond") /\ app' = "free"
        /\ UNCHANGED <<worker, queued, busy, blocks, selects>>
        /\ enabled' \in BOOLEAN /\ app = "responding" /\ future["respond"] # "waiting"
    BY <1>7, SettledFacts DEF Decided, TuiInv, TuiTypeOK
  <2>2. /\ LinkInv' /\ (Unbegun => Unbegun') /\ future'["respond"] = "none"
        /\ \A d \in Commands \ {"respond"} : future'[d] = future[d]
    BY <2>1, TakenLink, CommandFacts
  <2>3. SessionInv'
    BY <2>1, SessionKept
  <2>4. TuiInv'
    BY <1>0, <2>1, <2>2, CommandFacts DEF TuiInv, TuiTypeOK
  <2> QED BY <2>2, <2>3, <2>4
<1>8. CASE DecisionCancelled \/ QuitDone
  <2>1. /\ UNCHANGED serviceVars /\ Exit /\ app' = "over"
        /\ UNCHANGED <<worker, queued, busy, enabled, blocks, selects>>
    BY <1>8 DEF DecisionCancelled, QuitDone
  <2>2. LinkInv' /\ ~BeginsIn(sent')
    BY <2>1, ExitLink
  <2>3. SessionInv' /\ (Unbegun => Unbegun')
    BY <2>1, <2>2, SessionKept DEF Unbegun, serviceVars
  <2>4. TuiInv'
    BY <2>1, <2>3 DEF TuiInv, TuiTypeOK
  <2> QED BY <2>2, <2>3, <2>4
<1> QED
  BY <1>1, <1>2, <1>3, <1>4, <1>5, <1>6, <1>7, <1>8 DEF TuiStep

LEMMA TuiUserInv ==
    ASSUME LinkInv, SessionInv, TuiInv, TuiUser
    PROVE  LinkInv' /\ SessionInv' /\ TuiInv'
<1> DEFINE Result == LinkInv' /\ SessionInv' /\ TuiInv'
<1>0. app # "over"
  BY DEF TuiUser
<1>1. CASE TuiConnect
  <2>1. /\ UNCHANGED serviceVars /\ worker = "disconnected" /\ worker' = "subscribing"
        /\ Open("subscribe")
        /\ UNCHANGED <<app, queued, busy, enabled, blocks, selects>>
    BY <1>1 DEF TuiConnect
  <2>2. /\ LinkInv' /\ ~BeginsIn(sent') /\ future'["subscribe"] # "none"
        /\ \A d \in Commands \ {"subscribe"} : future'[d] = future[d]
    BY <2>1, OpenLink, CommandFacts DEF TuiInv, Unbegun, serviceVars, Begins
  <2>3. SessionInv'
    BY <2>1, SessionKept
  <2>4. Unbegun'
    BY <2>1, <2>2 DEF TuiInv, Unbegun, serviceVars
  <2>5. TuiInv'
    BY <2>1, <2>2, <2>4, CommandFacts DEF TuiInv, TuiTypeOK
  <2> QED BY <2>2, <2>3, <2>5
<1>2. ASSUME UNCHANGED <<linkVars, serviceVars, worker, app, blocks, selects>>,
             queued' \subseteq Sends \cup {"compact"},
             \A c \in queued' : future[c] = "none",
             busy' \in BOOLEAN, enabled' \in BOOLEAN
      PROVE  Result
  <2>1. UNCHANGED <<conn, connections, reader, future, sent, wire, session, serving>>
    BY <1>2 DEF linkVars, serviceVars
  <2>2. LinkInv' /\ (Unbegun => Unbegun')
    BY <2>1, TakeLink DEF LinkInv, LinkTyped, Unbegun
  <2>3. SessionInv'
    BY <1>2, SessionKept
  <2>4. TuiInv'
    BY <1>2, <2>1, <2>2 DEF TuiInv, TuiTypeOK
  <2> QED BY <2>2, <2>3, <2>4
<1>3. CASE SubmitCompact
  BY <1>0, <1>2, <1>3 DEF SubmitCompact, TuiInv, TuiTypeOK
<1>4. ASSUME NEW c \in Sends, Submit(c)
      PROVE  Result
  BY <1>0, <1>2, <1>4 DEF Submit, TuiInv, TuiTypeOK
<1>5. CASE Quit
  <2>1. /\ UNCHANGED serviceVars
        /\ UNCHANGED <<worker, queued, busy, enabled, blocks, selects>>
    BY <1>5 DEF Quit
  <2>2. SessionInv'
    BY <2>1, SessionKept
  <2>3. CASE worker = "ready"
    <3>1. /\ app = "free" /\ app' = "quitting" /\ Send("close", "none")
          /\ future["close"] # "waiting"
      BY <1>5, <2>3 DEF Quit, TuiInv
    <3>2. /\ LinkInv' /\ (Unbegun => Unbegun')
          /\ \A d \in Commands \ {"close"} : future'[d] = future[d]
      BY <2>1, <3>1, SentLink, CommandFacts DEF Begins
    <3>3. TuiInv'
      BY <1>0, <2>1, <3>1, <3>2, CommandFacts DEF TuiInv, TuiTypeOK
    <3> QED BY <2>2, <3>2, <3>3
  <2>4. CASE worker # "ready"
    <3>1. app' = "over" /\ Exit
      BY <1>5, <2>4 DEF Quit
    <3>2. LinkInv' /\ ~BeginsIn(sent')
      BY <3>1, ExitLink
    <3>3. Unbegun => Unbegun'
      BY <2>1, <3>2 DEF Unbegun, serviceVars
    <3>4. TuiInv'
      BY <2>1, <3>1, <3>3 DEF TuiInv, TuiTypeOK
    <3> QED BY <2>2, <3>2, <3>4
  <2> QED BY <2>3, <2>4
<1>6. ASSUME NEW i \in DOMAIN selects, Decide(i)
      PROVE  Result
  <2>1. /\ UNCHANGED serviceVars /\ UNCHANGED <<worker, queued, busy>>
        /\ selects' = RemoveAt(selects, i) /\ blocks' = blocks \ {selects[i]}
        /\ app = "free"
    BY <1>6 DEF Decide
  <2>2. selects' \in Seq(Asks) /\ selects[i] \in Asks
    BY <2>1, RemoveSelect DEF TuiInv
  <2>3. SessionInv'
    BY <2>1, SessionKept
  <2>4. CASE Connected
    <3>1. /\ app' = "responding" /\ Send("respond", selects[i]) /\ UNCHANGED enabled
          /\ future["respond"] # "waiting"
      BY <1>6, <2>1, <2>4 DEF Decide, TuiInv
    <3>2. PICK p \in Asks : p = selects[i]
      BY <2>2
    <3>3. /\ LinkInv' /\ (Unbegun => Unbegun') /\ future'["respond"] # "none"
          /\ \A d \in Commands \ {"respond"} : future'[d] = future[d]
      BY <2>1, <3>1, <3>2, SentLink, CommandFacts DEF Begins
    <3>4. TuiInv'
      BY <1>0, <2>1, <2>2, <3>1, <3>3, CommandFacts, SelectsTyped DEF TuiInv, TuiTypeOK
    <3> QED BY <2>3, <3>3, <3>4
  <2>5. CASE ~Connected
    <3>1. UNCHANGED <<app, linkVars>> /\ enabled' \in BOOLEAN
      BY <1>6, <2>5 DEF Decide, TuiInv, TuiTypeOK
    <3>2. UNCHANGED <<conn, connections, reader, future, sent, wire, session, serving>>
      BY <2>1, <3>1 DEF linkVars, serviceVars
    <3>3. LinkInv' /\ (Unbegun => Unbegun')
      BY <3>2, TakeLink DEF LinkInv, LinkTyped, Unbegun
    <3>4. TuiInv'
      BY <2>1, <2>2, <3>1, <3>2, <3>3, SelectsTyped DEF TuiInv, TuiTypeOK
    <3> QED BY <2>3, <3>3, <3>4
  <2> QED BY <2>4, <2>5
<1> QED
  BY <1>1, <1>3, <1>4, <1>5, <1>6 DEF TuiUser

-----------------------------------------------------------------------------
(* kama chat and kama run                                                   *)

CliInv ==
    /\ CliTypeOK
    /\ stage \in {"off", "subscribing"} => Unbegun
    /\ \A c \in Commands : Awaits(c) /\ c \notin Sends => future[c] # "none"
    /\ stage = "sending" => \E c \in Sends : future[c] # "none"
    /\ \A c \in Commands : future[c] # "none" => Awaits(c)
    /\ \A c, d \in Commands : future[c] # "none" /\ future[d] # "none" => c = d

LEMMA CliReadsInv ==
    ASSUME LinkInv, SessionInv, CliInv, CliReads
    PROVE  LinkInv' /\ SessionInv' /\ CliInv'
<1>1. UNCHANGED serviceVars /\ stage' = stage
  BY DEF CliReads, CliEvent, cliVars
<1>2. DispatchReply \/ LoopEnds \/ \E t : DispatchEvent(t)
  BY DEF CliReads, CliEvent
<1>3. /\ LinkInv' /\ (Unbegun => Unbegun')
      /\ \A d \in Commands : future[d] = "none" <=> future'[d] = "none"
  BY <1>1, <1>2, ReadsLink DEF serviceVars
<1>4. SessionInv'
  BY <1>1, SessionKept
<1>5. shown' \in Asks \cup {"none"} /\ finished' \in BOOLEAN
  <2>1. CASE UNCHANGED cliVars
    BY <2>1 DEF cliVars, CliInv, CliTypeOK
  <2>2. ASSUME NEW t \in {"requested", "denied", "waiting", "closed", "finished"}, CliEvent(t)
        PROVE  shown' \in Asks \cup {"none"} /\ finished' \in BOOLEAN
    <3>1. wire # <<>> /\ Head(wire).kind = "event" /\ Head(wire).name = t
      BY <2>2 DEF CliEvent, DispatchEvent
    <3>2. t = "requested" => Head(wire).about \in Asks
      BY <3>1, TailHas, LineFacts DEF LinkInv, LinkTyped
    <3> QED BY <2>2, <3>2 DEF CliEvent, CliInv, CliTypeOK
  <2> QED BY <2>1, <2>2 DEF CliReads
<1>6. CliInv'
  <2>1. CliTypeOK' /\ (stage' \in {"off", "subscribing"} => Unbegun')
    BY <1>1, <1>3, <1>5 DEF CliInv, CliTypeOK
  <2>2. \A c \in Commands : Awaits(c)' <=> Awaits(c)
    BY <1>1 DEF Awaits
  <2>3. Sends \subseteq Commands
    BY CommandFacts
  <2> QED BY <1>1, <1>3, <2>1, <2>2, <2>3 DEF CliInv
<1> QED BY <1>3, <1>4, <1>6

\* The command's end leaves nothing to wait for.
LEMMA CliOver ==
    ASSUME LinkInv, SessionInv, CliInv, Over
    PROVE  LinkInv' /\ SessionInv' /\ CliInv'
<1>1. /\ Exit /\ stage' = "over" /\ UNCHANGED serviceVars /\ UNCHANGED <<shown, finished>>
  BY DEF Over
<1>2. LinkInv' /\ SessionInv'
  BY <1>1, ExitLink, SessionKept
<1>3. \A c \in Commands : future'[c] = "none" /\ ~Awaits(c)'
  BY <1>1 DEF Exit, Awaits
<1>4. CliInv'
  BY <1>1, <1>3 DEF CliInv, CliTypeOK
<1> QED BY <1>2, <1>4

\* A command is sent, and its reply is awaited.
LEMMA CliTypes ==
    ASSUME LinkInv, SessionInv, CliInv,
           NEW c \in Commands, NEW about \in Asks \cup {"none"}, NEW next,
           \/ c = "respond" /\ about \in Asks /\ next = "responding"
           \/ c \in Sends /\ next = "sending"
           \/ c = "close" /\ next = "closing",
           Type(c, about, next), shown' \in Asks \cup {"none"}
    PROVE  LinkInv' /\ SessionInv' /\ CliInv'
<1>1. /\ Send(c, about) /\ UNCHANGED serviceVars /\ finished' = finished /\ stage' = next
      /\ stage = "reading"
  BY DEF Type
\* at the prompt there is no future
<1>2. \A d \in Commands : future[d] = "none"
  BY <1>1 DEF CliInv, Awaits
<1>3. /\ LinkInv' /\ future'[c] # "none"
      /\ \A d \in Commands \ {c} : future'[d] = "none"
  BY <1>1, <1>2, SentLink, CommandFacts DEF Begins
<1>4. SessionInv'
  BY <1>1, SessionKept
<1>5. Awaits(c)' /\ \A d \in Commands : Awaits(d)' /\ d \notin Sends => d = c
  BY <1>1, CommandFacts DEF Awaits
<1>6. CliInv'
  BY <1>1, <1>3, <1>5, CommandFacts DEF CliInv, CliTypeOK
<1> QED BY <1>3, <1>4, <1>6

LEMMA CliStepInv ==
    ASSUME LinkInv, SessionInv, CliInv, ChatStep \/ RunStep \/ ChatUser
    PROVE  LinkInv' /\ SessionInv' /\ CliInv'
<1> DEFINE Result == LinkInv' /\ SessionInv' /\ CliInv'
<1>1. CASE CliStart
  <2>1. /\ Open("subscribe") /\ stage = "off" /\ stage' = "subscribing"
        /\ UNCHANGED serviceVars /\ UNCHANGED <<shown, finished>>
    BY <1>1 DEF CliStart
  <2>2. /\ LinkInv' /\ ~BeginsIn(sent') /\ future'["subscribe"] # "none"
        /\ \A d \in Commands \ {"subscribe"} : future'[d] = "none"
    <3>1. \A d \in Commands : future[d] = "none"
      BY <2>1 DEF CliInv, Awaits
    <3> QED BY <2>1, <3>1, OpenLink, CommandFacts DEF CliInv, Unbegun, serviceVars, Begins
  <2>3. SessionInv' /\ Unbegun'
    BY <2>1, <2>2, SessionKept DEF CliInv, Unbegun, serviceVars
  <2>4. CliInv'
    BY <2>1, <2>2, <2>3 DEF CliInv, CliTypeOK, Awaits
  <2> QED BY <2>2, <2>3, <2>4
<1>2. ASSUME NEW c \in {"create", "run"}, NEW next,
             \/ c = "create" /\ next = "creating"
             \/ c = "run" /\ next = "starting",
             stage = "subscribing", future["subscribe"] = "ok", SendNext(c, next)
      PROVE  Result
  <2>1. /\ UNCHANGED <<conn, connections, reader, wire, serviceVars>>
        /\ UNCHANGED <<shown, finished>> /\ UNCHANGED serviceVars /\ stage' = next
    BY <1>2 DEF SendNext
  <2>2. /\ LinkInv' /\ future'[c] # "none"
        /\ \A d \in Commands \ {c} : future'[d] = "none"
    <3>1. Unbegun /\ \A d \in Commands \ {"subscribe"} : future[d] = "none"
      BY <1>2 DEF CliInv, Awaits
    <3>2. /\ c \in Commands \ {"subscribe", "respond"} /\ "subscribe" \in Commands
          /\ future[c] # "waiting" /\ future["subscribe"] # "waiting"
      BY <1>2, <3>1, CommandFacts
    <3>3. /\ \E o \in Outcomes : future' = [future EXCEPT !["subscribe"] = "none", ![c] = o]
          /\ sent' = IF conn = "up" THEN Append(sent, [name |-> c, about |-> "none"])
                     ELSE sent
      BY <1>2 DEF SendNext
    <3>4. /\ LinkInv' /\ future'[c] # "none" /\ future'["subscribe"] = "none"
          /\ \A d \in Commands \ {c, "subscribe"} : future'[d] = future[d]
      BY <2>1, <3>1, <3>2, <3>3, NextLink
    <3> QED BY <3>1, <3>4
  <2>3. SessionInv'
    BY <2>1, SessionKept
  <2>4. CliInv'
    BY <1>2, <2>1, <2>2, CommandFacts DEF CliInv, CliTypeOK, Awaits
  <2> QED BY <2>2, <2>3, <2>4
<1>3. ASSUME NEW c \in Commands, NEW next \in {"reading", "waiting"},
             future[c] = "ok", Taken(c), stage' = next,
             UNCHANGED <<shown, finished>>, UNCHANGED serviceVars
      PROVE  Result
  <2>1. /\ LinkInv' /\ SessionInv' /\ future'[c] = "none"
        /\ \A d \in Commands \ {c} : future'[d] = future[d]
    BY <1>3, TakenLink, SessionKept
  <2>2. \A d \in Commands : future'[d] = "none"
    BY <1>3, <2>1 DEF CliInv
  <2>3. CliInv'
    BY <1>3, <2>2 DEF CliInv, CliTypeOK, Awaits
  <2> QED BY <2>1, <2>3
<1>4. CASE ChatSubscribed \/ RunSubscribed
  BY <1>2, <1>4 DEF ChatSubscribed, RunSubscribed
<1>5. ASSUME NEW c \in Commands, ChatReplied(c)
      PROVE  Result
  BY <1>3, <1>5 DEF ChatReplied
<1>6. CASE RunStarted
  BY <1>3, <1>6, CommandFacts DEF RunStarted
<1>7. CASE CliEnds
  BY <1>7, CliOver DEF CliEnds
<1>8. CASE ChatDecides
  <2>1. PICK p \in Asks : p = shown
    BY <1>8 DEF ChatDecides, CliInv, CliTypeOK
  <2> QED BY <1>8, <2>1, CliTypes, CommandFacts DEF ChatDecides
<1>9. ASSUME NEW c \in Sends, ChatSends(c)
      PROVE  Result
  BY <1>9, CliTypes, CommandFacts DEF ChatSends, CliInv, CliTypeOK
<1>10. CASE ChatEnds
  BY <1>10, CliTypes, CommandFacts DEF ChatEnds, CliInv, CliTypeOK
<1> QED
  BY <1>1, <1>4, <1>5, <1>6, <1>7, <1>8, <1>9, <1>10 DEF ChatStep, RunStep, ChatUser

-----------------------------------------------------------------------------
(* The invariant                                                            *)

\* One client at a time: the variables of the others are as they were.
TerminalsInv ==
    /\ LinkInv /\ SessionInv /\ kind \in Kinds
    /\ kind = "tui" => TuiInv /\ CliInit
    /\ kind # "tui" => CliInv /\ TuiInit

LEMMA TerminalsInit_Inv == TerminalsInit => TerminalsInv
<1> SUFFICES ASSUME TerminalsInit PROVE TerminalsInv
  OBVIOUS
<1>1. DOMAIN sent = {}
  BY NothingIn DEF TerminalsInit, LinkInit
<1>2. LinkInv
  BY <1>1, LinkAssumption
  DEF TerminalsInit, LinkInit, LinkInv, LinkTyped, ReaderWithConn, NobodyForgotten,
      ReplyOnItsWay, BegunOnce, QuietWhenLost, AnsweredOnce, Futures
<1>3. SessionInv /\ Unbegun
  <2>1. 0 \in 0 .. MaxOthers
    BY ServiceAssumption
  <2>2. SessionInv
    BY <2>1 DEF TerminalsInit, ServiceInit, SessionInv, ServiceTypeOK
  <2> QED BY <1>1, <2>2 DEF TerminalsInit, ServiceInit, Unbegun, BeginsIn
<1>4. TuiInv
  BY <1>3, NoSelects, CommandFacts DEF TerminalsInit, LinkInit, TuiInit, TuiInv, TuiTypeOK
<1>5. CliInv
  BY <1>3 DEF TerminalsInit, LinkInit, CliInit, CliInv, CliTypeOK, Awaits
<1> QED BY <1>2, <1>3, <1>4, <1>5 DEF TerminalsInit, TerminalsInv

LEMMA TerminalsStep == TerminalsInv /\ [TerminalsNext]_terminalVars => TerminalsInv'
<1> SUFFICES ASSUME TerminalsInv, [TerminalsNext]_terminalVars PROVE TerminalsInv'
  OBVIOUS
<1>1. LinkInv /\ SessionInv /\ kind \in Kinds
  BY DEF TerminalsInv
<1>2. CASE kind = "tui" /\ kind' = kind /\ UNCHANGED cliVars /\ (TuiStep \/ TuiReads \/ TuiUser)
  <2>1. TuiInv
    BY <1>2 DEF TerminalsInv
  <2>2. LinkInv' /\ SessionInv' /\ TuiInv'
    BY <1>1, <1>2, <2>1, TuiStepInv, TuiReadsInv, TuiUserInv
  <2> QED BY <1>1, <1>2, <2>2 DEF TerminalsInv, CliInit, cliVars
<1>3. CASE /\ kind # "tui" /\ kind' = kind /\ UNCHANGED tuiVars
           /\ ChatStep \/ RunStep \/ ChatUser \/ CliReads
  <2>1. CliInv
    BY <1>3 DEF TerminalsInv
  <2>2. LinkInv' /\ SessionInv' /\ CliInv'
    BY <1>1, <1>3, <2>1, CliStepInv, CliReadsInv
  <2> QED BY <1>1, <1>3, <2>2 DEF TerminalsInv, TuiInit, tuiVars
<1>4. ASSUME LinkInv', SessionInv', Unbegun => Unbegun', future' = future,
             UNCHANGED <<tuiVars, cliVars, kind>>
      PROVE  TerminalsInv'
  <2>1. TuiInv => TuiInv'
    BY <1>4 DEF TuiInv, TuiTypeOK, tuiVars
  <2>2. CliInv => CliInv'
    <3>1. \A c \in Commands : Awaits(c)' <=> Awaits(c)
      BY <1>4 DEF Awaits, cliVars
    <3> QED BY <1>4, <3>1 DEF CliInv, CliTypeOK, cliVars
  <2>3. (CliInit => CliInit') /\ (TuiInit => TuiInit')
    BY <1>4 DEF CliInit, TuiInit, cliVars, tuiVars
  <2> QED BY <1>1, <1>4, <2>1, <2>2, <2>3 DEF TerminalsInv
<1>5. CASE Daemon \/ DaemonElse
  BY <1>1, <1>4, <1>5, DaemonLink DEF Daemon, DaemonElse
<1>6. CASE UNCHANGED terminalVars
  <2>1. /\ UNCHANGED <<conn, connections, reader, future, sent, wire, session, serving>>
        /\ UNCHANGED serviceVars /\ UNCHANGED <<tuiVars, cliVars, kind>>
    BY <1>6 DEF terminalVars, linkVars, serviceVars
  <2>2. LinkInv'
    BY <1>1, <2>1, TakeLink DEF LinkInv, LinkTyped
  <2>3. SessionInv' /\ (Unbegun => Unbegun')
    BY <1>1, <2>1, SessionKept DEF Unbegun
  <2> QED BY <1>4, <2>1, <2>2, <2>3
<1>7. CASE ClientStep
  BY <1>2, <1>3, <1>7 DEF ClientStep
<1>8. CASE Reads
  BY <1>2, <1>3, <1>8 DEF Reads
<1>9. CASE User
  <2>1. kind = "run" /\ CliStart => ChatUser
    BY DEF ChatUser
  <2> QED BY <1>2, <1>3, <1>9, <2>1 DEF User
<1> QED
  BY <1>5, <1>6, <1>7, <1>8, <1>9 DEF TerminalsNext

-----------------------------------------------------------------------------
(* The theorems                                                             *)

\* The invariant the theorems about the clients rest on.
THEOREM TerminalsInvCorrect == TerminalsSpec => []TerminalsInv
  BY TerminalsInit_Inv, TerminalsStep, PTL DEF TerminalsSpec

\* The clients, their connection and the daemon keep to their types, and who is
\* stopped at an await of send_command() has the future it awaits
\* (socket_client.py:send_command).
THEOREM TerminalsTypeCorrect == TerminalsSpec => []TerminalsTypeOK
<1>1. TerminalsInv => TerminalsTypeOK
  <2> SUFFICES ASSUME TerminalsInv PROVE TerminalsTypeOK
    OBVIOUS
  <2>1. TuiTypeOK /\ CliTypeOK
    <3>1. CliInit => CliTypeOK
      BY DEF CliInit, CliTypeOK
    <3>2. TuiInit => TuiTypeOK
      BY NoSelects DEF TuiInit, TuiTypeOK
    <3> QED BY <3>1, <3>2 DEF TerminalsInv, TuiInv, CliInv
  <2>2. CASE kind = "tui"
    <3>1. TuiInv /\ stage = "off"
      BY <2>2 DEF TerminalsInv, CliInit
    <3> QED
      BY <2>1, <3>1
      DEF TerminalsTypeOK, TerminalsInv, LinkInv, LinkTyped, SessionInv, TuiInv, Awaits
  <2>3. CASE kind # "tui"
    <3>1. CliInv /\ worker = "disconnected" /\ app = "free"
      BY <2>3 DEF TerminalsInv, TuiInit
    <3> QED
      BY <2>1, <3>1
      DEF TerminalsTypeOK, TerminalsInv, LinkInv, LinkTyped, SessionInv, CliInv
  <2> QED BY <2>2, <2>3
<1> QED BY <1>1, TerminalsInvCorrect, PTL

\* Whoever still waits when the loop of run_event_loop() is over has been
\* cancelled; on a connection that is up every future that waits has its
\* request, its run or its reply; and a request is in one place, and has one
\* reply, for somebody who waits for it: in every client and on every connection
\* (socket_client.py:_dispatch, socket_server.py:_handle_line).
THEOREM EachAnsweredCorrect == TerminalsSpec => []EachAnswered
<1>1. TerminalsInv => EachAnswered
  BY DEF TerminalsInv, LinkInv, EachAnswered
<1> QED BY <1>1, TerminalsInvCorrect, PTL
=============================================================================
