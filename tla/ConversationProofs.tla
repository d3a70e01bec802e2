------------------------- MODULE ConversationProofs -------------------------
(***************************************************************************)
(* Proofs about conversations, for any number of messages, steps and       *)
(* parallel calls.                                                         *)
(*                                                                         *)
(* The argument for valid requests: ids are given out once and a result    *)
(* stands right behind its call, so that a prefix in which every call has  *)
(* its result is acceptable as it is, and can be continued.                *)
(***************************************************************************)
EXTENDS Conversation, TLAPS, SequenceTheorems, FiniteSetTheorems,
        WellFoundedInduction

-----------------------------------------------------------------------------
(* The invariant                                                           *)

\* The steps that runs have made, the one whose response is awaited excepted.
StepsMade ==
    IF phase = "idle" THEN sent * MaxSteps
    ELSE (sent - 1) * MaxSteps + (IF phase = "asking" THEN step - 1 ELSE step)

Counted == \E c \in Nat : used = 1 .. c /\ c <= StepsMade * MaxCalls

\* A run that is still going on has a step left; it has no outcome before its end.
Paced ==
    /\ phase # "idle" => sent > 0 /\ step \in 1 .. MaxSteps
    /\ phase \in {"asking", "acting", "compacting"} => status = "running"
    /\ phase = "asking" => stop = "none"
    /\ phase = "acting" => stop = "tool_use" /\ calls # {}
    /\ phase \in {"compacting", "stepping"} /\ status = "running" => step < MaxSteps
    /\ phase = "compacting" => auto /\ stop # "end_turn"
    /\ phase \in {"stepping", "finishing"} => (status = "success" <=> stop = "end_turn")

\* A thread opens with the user.
Opened(ms) == ms # <<>> => ms[1].role = "user" /\ ms[1].uses = {} /\ ms[1].results = {}

\* What a run adds is not said by the user.
Said ==
    /\ SaidInOrder
    /\ \A i \in DOMAIN thread : thread[i].said <= sent
    /\ phase # "idle" =>
          /\ thread # <<>>
          /\ \A i \in DOMAIN messages : i > prefill => messages[i].said = 0

\* Every result stands behind its call, and no call occurs twice.
Filed(ms) ==
    /\ Opened(ms)
    /\ \A i \in DOMAIN ms : ms[i].results # {} =>
          i > 1 /\ ms[i].results \subseteq ms[i - 1].uses
    /\ \A i, j \in DOMAIN ms : i # j => ms[i].uses \cap ms[j].uses = {}

Open(ms) == Used(ms) \ Answered(ms)

\* Results for ids have their place at the end.
Fits(ms, ids) ==
    IF Last(ms).results = {} THEN ids \subseteq Last(ms).uses
    ELSE ids \subseteq ms[Len(ms) - 1].uses

\* ms begins with a part of the thread and goes on with a run's own messages,
\* whose ids are new.
Continues(ms, ids) ==
    /\ Filed(ms) /\ Used(ms) \subseteq ids
    /\ prefill \in 1 .. Len(thread) /\ prefill <= Len(ms)
    /\ \A i \in 1 .. prefill : ms[i] = thread[i]
    /\ prefill < Len(ms) => ms[prefill + 1].results = {}
    /\ \A i \in DOMAIN ms, j \in DOMAIN thread :
          i > prefill => ms[i].uses \cap thread[j].uses = {}

\* Without automatic compaction, between two steps every call is answered.
Extends ==
    /\ Continues(messages, used)
    /\ phase \in {"asking", "stepping"} => Open(messages) = {}
    /\ phase = "acting" =>
          /\ Open(messages) = calls
          /\ Len(messages) > prefill /\ Fits(messages, calls)

PlainThread ==
    ~auto => /\ Filed(thread) /\ Used(thread) \subseteq used
             /\ phase # "idle" => Extends

ConvInv ==
    /\ ConversationTypeOK /\ Counted /\ Paced
    /\ Opened(thread) /\ Said /\ AsksLatest /\ PlainThread

-----------------------------------------------------------------------------
(* Least and greatest numbers                                              *)

LEMMA LeastNatural ==
    ASSUME NEW T \in SUBSET Nat, T # {}
    PROVE  \E x \in T : \A y \in T : x <= y
<1>1. PICK x \in T : \A y \in T : ~ (<<y, x>> \in OpToRel(<, Nat))
  BY NatLessThanWellFounded, WFMin
<1>2. \A y \in T : y < x => <<y, x>> \in OpToRel(<, Nat)
  BY DEF OpToRel
<1>3. \A y \in T : ~(y < x) /\ y \in Nat /\ x \in Nat
  BY <1>1, <1>2
<1>4. \A y \in T : x <= y
  BY <1>3
<1> QED BY <1>4

LEMMA MinIsLeast ==
    ASSUME NEW T \in SUBSET Nat, T # {}
    PROVE  Min(T) \in T
BY LeastNatural DEF Min

LEMMA MaxIsGreatest ==
    ASSUME NEW N \in Nat, NEW S \in SUBSET (0 .. N), S # {}
    PROVE  Max(S) \in S /\ \A y \in S : y <= Max(S)
<1> DEFINE T == {k \in 0 .. N : N - k \in S}
<1>1. \A y \in S : y \in 0 .. N /\ N - y \in T
  OBVIOUS
<1>2. T # {}
  BY <1>1
<1>3. T \in SUBSET Nat
  OBVIOUS
<1>4. PICK k \in T : \A j \in T : k <= j
  <2> HIDE DEF T
  <2> QED BY <1>2, <1>3, LeastNatural
<1>5. N - k \in S /\ k \in 0 .. N
  OBVIOUS
<1>6. \A y \in S : k <= N - y
  BY <1>1, <1>4
<1>7. \A y \in S : y <= N - k
  BY <1>1, <1>5, <1>6
<1>8. \A y \in S : N - k >= y
  BY <1>1, <1>5, <1>7
<1>9. \E x \in S : \A y \in S : x >= y
  BY <1>5, <1>8
<1>10. Max(S) \in S /\ \A y \in S : Max(S) >= y
  BY <1>9 DEF Max
<1> QED BY <1>1, <1>10

LEMMA MoreTimes ==
    ASSUME NEW x \in Int, NEW y \in Int, NEW k \in Nat, x <= y
    PROVE  x * k <= y * k
<1>1. PICK d \in Nat : y = x + d
  <2>1. y - x \in Nat /\ y = x + (y - x)
    OBVIOUS
  <2> QED BY <2>1
<1>2. d * k \in Nat
  BY SMT
<1>3. y * k = x * k + d * k
  BY <1>1, SMT
<1>4. x * k \in Int
  OBVIOUS
<1> QED BY <1>2, <1>3, <1>4

LEMMA MoreAllowed ==
    ASSUME NEW c \in Nat, NEW x \in Nat, NEW y \in Nat, NEW k \in Nat,
           c <= x * k, x <= y
    PROVE  c <= y * k
<1>1. x * k <= y * k
  BY MoreTimes
<1>2. x * k \in Nat /\ y * k \in Nat
  OBVIOUS
<1> QED BY <1>1, <1>2

-----------------------------------------------------------------------------
(* Sequences of messages                                                   *)

LEMMA Messages ==
    /\ \A n \in 0 .. MaxMessages : UserSays(n) \in Message
    /\ UserSays(0) \in Message
    /\ \A ids \in SUBSET Ids : ToolResults(ids) \in Message /\ Response(ids) \in Message
    /\ Summary \in Message /\ Ack \in Message
BY ConversationAssumption
   DEF Message, UserSays, ToolResults, Response, Summary, Ack

LEMMA Fields ==
    /\ \A n : /\ UserSays(n).role = "user" /\ UserSays(n).said = n
              /\ UserSays(n).uses = {} /\ UserSays(n).results = {}
    /\ \A ids : /\ ToolResults(ids).said = 0 /\ ToolResults(ids).uses = {}
                /\ ToolResults(ids).results = ids
    /\ \A ids : /\ Response(ids).said = 0 /\ Response(ids).uses = ids
                /\ Response(ids).results = {}
BY DEF UserSays, ToolResults, Response

LEMMA Appending ==
    ASSUME NEW S, NEW ms \in Seq(S), NEW m \in S
    PROVE  /\ Append(ms, m) \in Seq(S) /\ Append(ms, m) # <<>>
           /\ Len(ms) \in Nat /\ Len(Append(ms, m)) = Len(ms) + 1
           /\ DOMAIN ms = 1 .. Len(ms) /\ DOMAIN Append(ms, m) = 1 .. Len(ms) + 1
           /\ \A i \in 1 .. Len(ms) : Append(ms, m)[i] = ms[i]
           /\ Append(ms, m)[Len(ms) + 1] = m
           /\ Last(Append(ms, m)) = m
<1>1. Append(ms, m) \in Seq(S) /\ Len(Append(ms, m)) = Len(ms) + 1 /\ Len(ms) \in Nat
  OBVIOUS
<1>2. Append(ms, m)[Len(ms) + 1] = m
  OBVIOUS
<1>3. Last(Append(ms, m)) = m
  BY <1>1, <1>2 DEF Last
<1>4. Append(ms, m) # <<>>
  BY <1>1
<1>5. DOMAIN Append(ms, m) = 1 .. Len(ms) + 1 /\ DOMAIN ms = 1 .. Len(ms)
  OBVIOUS
<1>6. \A i \in 1 .. Len(ms) : Append(ms, m)[i] = ms[i]
  OBVIOUS
<1> QED BY <1>1, <1>2, <1>3, <1>4, <1>5, <1>6

LEMMA PrefixOf ==
    ASSUME NEW ms \in Seq(Message), NEW n \in 0 .. Len(ms)
    PROVE  /\ Prefix(ms, n) \in Seq(Message)
           /\ Len(Prefix(ms, n)) = n /\ DOMAIN Prefix(ms, n) = 1 .. n
           /\ \A i \in 1 .. n : Prefix(ms, n)[i] = ms[i]
           /\ n = Len(ms) => Prefix(ms, n) = ms
           /\ n > 0 => Prefix(ms, n) # <<>>
BY DEF Prefix

LEMMA FirstOf ==
    ASSUME NEW ms \in Seq(Message), ms # <<>>
    PROVE  \A i \in DOMAIN Prefix(ms, 1) : Prefix(ms, 1)[i] = ms[1]
BY DEF Prefix

LEMMA PairOf ==
    /\ <<Summary, Ack>> \in Seq(Message)
    /\ Len(<<Summary, Ack>>) = 2 /\ DOMAIN <<Summary, Ack>> = 1 .. 2
    /\ \A i \in 1 .. 2 : /\ <<Summary, Ack>>[i].said = 0
                         /\ <<Summary, Ack>>[i].uses = {}
                         /\ <<Summary, Ack>>[i].results = {}
    /\ <<Summary, Ack>>[1].role = "user"
<1>1. Summary \in Message /\ Ack \in Message
  BY Messages
<1>2. /\ Summary.said = 0 /\ Summary.uses = {} /\ Summary.results = {}
      /\ Ack.said = 0 /\ Ack.uses = {} /\ Ack.results = {} /\ Summary.role = "user"
  BY Fields DEF Summary, Ack
<1> QED BY <1>1, <1>2

LEMMA UsedAppend ==
    ASSUME NEW ms \in Seq(Message), NEW m \in Message
    PROVE  /\ Used(Append(ms, m)) = Used(ms) \cup m.uses
           /\ Answered(Append(ms, m)) = Answered(ms) \cup m.results
<1> DEFINE new == Append(ms, m)
<1>1. /\ DOMAIN ms = 1 .. Len(ms) /\ DOMAIN new = 1 .. Len(ms) + 1 /\ Len(ms) \in Nat
      /\ \A i \in 1 .. Len(ms) : new[i] = ms[i]
      /\ new[Len(ms) + 1] = m
  BY Appending
<1>2. \A i \in DOMAIN new : i \in DOMAIN ms \/ i = Len(ms) + 1
  BY <1>1
<1>3. \A i \in DOMAIN ms : i \in DOMAIN new /\ new[i] = ms[i]
  BY <1>1
<1>4. Len(ms) + 1 \in DOMAIN new
  BY <1>1
<1> HIDE DEF new
<1>5. Used(new) = Used(ms) \cup m.uses
  BY <1>1, <1>2, <1>3, <1>4, Zenon DEF Used
<1>6. Answered(new) = Answered(ms) \cup m.results
  BY <1>1, <1>2, <1>3, <1>4, Zenon DEF Answered
<1> QED BY <1>5, <1>6 DEF new

LEMMA UsedOf ==
    ASSUME NEW ms \in Seq(Message)
    PROVE  /\ \A i \in DOMAIN ms : ms[i].uses \subseteq Used(ms)
           /\ \A u \in Used(ms) : \E i \in DOMAIN ms : u \in ms[i].uses
           /\ \A i \in DOMAIN ms : ms[i].results \subseteq Answered(ms)
           /\ \A u \in Answered(ms) : \E i \in DOMAIN ms : u \in ms[i].results
BY Zenon DEF Used, Answered

\* What is filed stays so when its tail is cut off.
LEMMA FiledPrefix ==
    ASSUME NEW ms \in Seq(Message), Filed(ms), NEW n \in 0 .. Len(ms)
    PROVE  /\ Filed(Prefix(ms, n))
           /\ Used(Prefix(ms, n)) \subseteq Used(ms)
<1> DEFINE p == Prefix(ms, n)
<1>1. /\ p \in Seq(Message) /\ DOMAIN p = 1 .. n
      /\ \A i \in 1 .. n : p[i] = ms[i]
      /\ Len(p) = n
  BY PrefixOf
<1>2. DOMAIN ms = 1 .. Len(ms) /\ Len(ms) \in Nat /\ n \in Nat
  OBVIOUS
<1>3. \A i \in DOMAIN p : i \in DOMAIN ms /\ p[i] = ms[i] /\ i \in 1 .. n
  BY <1>1, <1>2
<1> HIDE DEF p
<1>4. p # <<>> => ms # <<>> /\ p[1] = ms[1]
  BY <1>1, <1>2
<1>5. Opened(p)
  BY <1>4 DEF Filed, Opened
<1>6. ASSUME NEW i \in DOMAIN p, p[i].results # {}
      PROVE  i > 1 /\ p[i].results \subseteq p[i - 1].uses
  <2>1. i > 1 /\ ms[i].results \subseteq ms[i - 1].uses /\ p[i] = ms[i]
    BY <1>3, <1>6 DEF Filed
  <2>2. i - 1 \in 1 .. n
    BY <2>1, <1>3, <1>2
  <2> QED BY <2>1, <2>2, <1>1
<1>7. \A i, j \in DOMAIN p : i # j => p[i].uses \cap p[j].uses = {}
  BY <1>3 DEF Filed
<1>8. Used(p) \subseteq Used(ms)
  BY <1>3, Zenon DEF Used
<1> QED BY <1>5, <1>6, <1>7, <1>8 DEF Filed, p

\* A thread that opens with the user is trimmed to a balanced part of it.
LEMMA Trimmed ==
    ASSUME NEW ms \in Seq(Message), ms # <<>>, Opened(ms)
    PROVE  \E n \in 1 .. Len(ms) :
              /\ Trim(ms) = Prefix(ms, n)
              /\ Balanced(Trim(ms))
              /\ Balanced(ms) => n = Len(ms)
<1>1. Len(ms) \in Nat /\ Len(ms) >= 1 /\ Len(ms) \in 1 .. Len(ms)
  OBVIOUS
<1>2. CASE Balanced(ms)
  <2>1. Trim(ms) = ms /\ ms = Prefix(ms, Len(ms))
    BY <1>1, <1>2, PrefixOf DEF Trim
  <2> QED BY <1>1, <1>2, <2>1
<1>3. CASE ~ Balanced(ms)
  <2>1. Balanced(Prefix(ms, 1))
    <3>1. \A i \in DOMAIN Prefix(ms, 1) : Prefix(ms, 1)[i].uses = {}
      BY FirstOf DEF Opened
    <3> QED BY <3>1 DEF Balanced, Used
  <2> DEFINE S == {n \in 0 .. Len(ms) : Balanced(Prefix(ms, n))}
  <2>2. 1 \in S
    BY <1>1, <2>1
  <2>3. S \in SUBSET (0 .. Len(ms)) /\ S # {}
    BY <2>2
  <2>4. Max(S) \in S /\ 1 <= Max(S)
    <3> QED BY <1>1, <2>2, <2>3, MaxIsGreatest
  <2>5. Max(S) \in 1 .. Len(ms) /\ Balanced(Prefix(ms, Max(S)))
    BY <2>4
  <2>6. Trim(ms) = Prefix(ms, Max(S))
    BY <1>3 DEF Trim
  <2> QED BY <1>3, <2>5, <2>6
<1> QED BY <1>2, <1>3

\* In a thread that is filed, counting is enough.
LEMMA BalancedAcceptable ==
    ASSUME NEW ms \in Seq(Message), Filed(ms), ms # <<>>, Balanced(ms)
    PROVE  Acceptable(ms)
<1>1. DOMAIN ms = 1 .. Len(ms) /\ Len(ms) \in Nat
  OBVIOUS
<1>2. ms[1].role = "user" /\ ms[1].results = {}
  BY DEF Filed, Opened
<1>3. ASSUME NEW i \in DOMAIN ms, ms[i].uses # {}
      PROVE  i < Len(ms) /\ ms[i + 1].results = ms[i].uses
  <2>1. ASSUME NEW u \in ms[i].uses
        PROVE  i + 1 \in DOMAIN ms /\ u \in ms[i + 1].results
    <3>1. u \in Answered(ms)
      BY UsedOf DEF Balanced
    <3>2. PICK j \in DOMAIN ms : u \in ms[j].results
      BY <3>1, UsedOf
    <3>3. j > 1 /\ u \in ms[j - 1].uses
      BY <3>2 DEF Filed
    <3>4. j - 1 \in DOMAIN ms
      BY <1>1, <3>3
    <3>5. j - 1 = i
      BY <3>3, <3>4 DEF Filed
    <3>6. j = i + 1
      BY <3>5, <1>1
    <3> QED BY <3>2, <3>6
  <2>2. PICK u : u \in ms[i].uses
    BY <1>3
  <2>3. i + 1 \in DOMAIN ms /\ ms[i + 1].results # {}
    BY <2>1, <2>2
  <2>4. ms[i + 1].results \subseteq ms[(i + 1) - 1].uses /\ (i + 1) - 1 = i
    BY <1>1, <2>3 DEF Filed
  <2>5. ms[i + 1].results = ms[i].uses
    BY <2>1, <2>4
  <2> QED BY <1>1, <2>3, <2>5
<1>4. ASSUME NEW i \in DOMAIN ms, ms[i].results # {}
      PROVE  i > 1 /\ ms[i - 1].uses = ms[i].results
  <2>1. i > 1 /\ ms[i].results \subseteq ms[i - 1].uses
    BY <1>4 DEF Filed
  <2>2. i - 1 \in DOMAIN ms /\ ms[i - 1].uses # {} /\ (i - 1) + 1 = i
    BY <1>1, <1>4, <2>1
  <2>3. ms[(i - 1) + 1].results = ms[i - 1].uses
    BY <1>3, <2>2
  <2> QED BY <2>1, <2>2, <2>3
<1> QED BY <1>2, <1>3, <1>4 DEF Acceptable

LEMMA FiledAppend ==
    ASSUME NEW ms \in Seq(Message), Filed(ms), NEW m \in Message,
           ms = <<>> => m.role = "user" /\ m.uses = {} /\ m.results = {},
           m.results # {} => ms # <<>> /\ m.results \subseteq Last(ms).uses,
           m.uses \cap Used(ms) = {}
    PROVE  Filed(Append(ms, m))
<1> DEFINE new == Append(ms, m)
<1>1. /\ DOMAIN ms = 1 .. Len(ms) /\ DOMAIN new = 1 .. Len(ms) + 1 /\ Len(ms) \in Nat
      /\ \A i \in 1 .. Len(ms) : new[i] = ms[i]
      /\ new[Len(ms) + 1] = m
  BY Appending
<1>2. \A i \in DOMAIN new : i \in DOMAIN ms \/ i = Len(ms) + 1
  BY <1>1
<1>3. \A i \in DOMAIN ms : new[i] = ms[i]
  BY <1>1
<1>4. ms = <<>> => Len(ms) = 0
  OBVIOUS
<1>5. ms # <<>> => 1 \in 1 .. Len(ms) /\ Last(ms) = ms[Len(ms)] /\ Len(ms) \in 1 .. Len(ms)
  BY DEF Last
<1> HIDE DEF new
<1>6. Opened(new)
  BY <1>1, <1>4, <1>5 DEF Filed, Opened
<1>7. ASSUME NEW i \in DOMAIN new, new[i].results # {}
      PROVE  i > 1 /\ new[i].results \subseteq new[i - 1].uses
  <2>1. CASE i \in DOMAIN ms
    <3>1. i > 1 /\ ms[i].results \subseteq ms[i - 1].uses
      BY <1>3, <1>7, <2>1 DEF Filed
    <3>2. i - 1 \in DOMAIN ms
      BY <1>1, <2>1, <3>1
    <3> QED BY <1>3, <2>1, <3>1, <3>2
  <2>2. CASE i = Len(ms) + 1
    <3>1. ms # <<>> /\ new[i].results \subseteq ms[Len(ms)].uses
      BY <1>1, <1>5, <1>7, <2>2
    <3>2. i > 1 /\ new[i - 1] = ms[Len(ms)]
      BY <1>1, <1>5, <2>2, <3>1
    <3> QED BY <3>1, <3>2
  <2> QED BY <1>2, <2>1, <2>2
<1>8. \A i \in DOMAIN ms : ms[i].uses \cap m.uses = {}
  BY UsedOf
<1>9. \A i, j \in DOMAIN new : i # j => new[i].uses \cap new[j].uses = {}
  BY <1>1, <1>2, <1>3, <1>8 DEF Filed
<1> QED BY <1>6, <1>7, <1>9 DEF Filed, new

\* Results are laid on top: the ids used stay, the message before the last
\* one does too, and the next result finds its place where this one did.
LEMMA AddingResults ==
    ASSUME NEW ms \in Seq(Message), Filed(ms), ms # <<>>,
           NEW ids \in SUBSET Ids, ids # {},
           Fits(ms, ids),
           NEW new, new = AddResults(ms, ids)
    PROVE  /\ new \in Seq(Message) /\ Filed(new) /\ new # <<>>
           /\ Used(new) = Used(ms)
           /\ Answered(new) = Answered(ms) \cup ids
           /\ Len(new) >= Len(ms)
           /\ DOMAIN new = 1 .. Len(new)
           /\ \A i \in 1 .. Len(ms) - 1 : new[i] = ms[i]
           /\ new[Len(ms)].uses = ms[Len(ms)].uses
           /\ \A i \in DOMAIN ms : new[i].said = ms[i].said
           /\ \A i \in DOMAIN new : i \notin DOMAIN ms =>
                 new[i].said = 0 /\ new[i].uses = {} /\ i = Len(ms) + 1
           /\ \A left : Fits(ms, left) => Fits(new, left)
           /\ Last(ms).results = {} => new[Len(ms)] = ms[Len(ms)]
<1> DEFINE n == Len(ms)
<1>1. /\ DOMAIN ms = 1 .. n /\ n \in Nat /\ n \in 1 .. n /\ n >= 1
      /\ Last(ms) = ms[n] /\ n = Len(ms)
  BY DEF Last
<1> HIDE DEF n
<1>2. CASE Last(ms).results # {}
  <2> DEFINE m == [ms[n] EXCEPT !.results = @ \cup ids]
  <2>1. new = [ms EXCEPT ![n].results = @ \cup ids]
    BY <1>1, <1>2 DEF AddResults
  <2>2. m \in Message /\ m.uses = ms[n].uses /\ m.said = ms[n].said
        /\ m.results = ms[n].results \cup ids /\ m.role = ms[n].role
    <3>1. ms[n] \in Message
      BY <1>1
    <3> QED BY <3>1 DEF Message
  <2>3. new = [ms EXCEPT ![n] = m]
    BY <2>1
  <2>4. /\ new \in Seq(Message) /\ Len(new) = n /\ DOMAIN new = 1 .. n
        /\ \A i \in 1 .. n : i # n => new[i] = ms[i]
        /\ new[n] = m
    <3> HIDE DEF m
    <3> QED BY <1>1, <2>2, <2>3
  <2>5. n > 1 /\ ms[n].results \subseteq ms[n - 1].uses /\ ids \subseteq ms[n - 1].uses
    BY <1>1, <1>2 DEF Filed, Fits
  <2>6. n - 1 \in 1 .. n /\ n - 1 # n /\ 1 \in 1 .. n /\ 1 # n
    <3>1. n \in Nat /\ n > 1
      BY <1>1, <2>5
    <3> QED BY <3>1
  <2>7. \A i \in 1 .. n : /\ new[i].uses = ms[i].uses /\ new[i].said = ms[i].said
                          /\ i # n => new[i] = ms[i]
    BY <2>2, <2>4
  <2>8. \A i \in 1 .. n : i - 1 # n
    BY <1>1
  <2>9. Used(new) = Used(ms)
    <3>1. DOMAIN new = DOMAIN ms /\ \A i \in DOMAIN ms : new[i].uses = ms[i].uses
      BY <1>1, <2>4, <2>7
    <3> QED BY <3>1, Zenon DEF Used
  <2>10. Answered(new) = Answered(ms) \cup ids
    <3>1. \A u \in Answered(new) : u \in Answered(ms) \cup ids
      <4> SUFFICES ASSUME NEW u \in Answered(new) PROVE u \in Answered(ms) \cup ids
        OBVIOUS
      <4>1. PICK i \in DOMAIN new : u \in new[i].results
        BY <2>4, UsedOf
      <4>2. i \in DOMAIN ms /\ (u \in ms[i].results \/ u \in ids)
        BY <1>1, <2>2, <2>4, <4>1
      <4> QED BY <4>2, UsedOf
    <3>2. \A u \in Answered(ms) : u \in Answered(new)
      <4> SUFFICES ASSUME NEW u \in Answered(ms) PROVE u \in Answered(new)
        OBVIOUS
      <4>1. PICK i \in DOMAIN ms : u \in ms[i].results
        BY UsedOf
      <4>2. i \in DOMAIN new /\ u \in new[i].results
        BY <1>1, <2>2, <2>4, <4>1
      <4> QED BY <2>4, <4>2, UsedOf
    <3>3. ids \subseteq Answered(new)
      <4>1. n \in DOMAIN new /\ ids \subseteq new[n].results
        BY <1>1, <2>2, <2>4
      <4> QED BY <2>4, <4>1, UsedOf
    <3> QED BY <3>1, <3>2, <3>3
  <2>11. Filed(new)
    <3>1. Opened(new)
      <4>1. new[1] = ms[1]
        BY <2>4, <2>6
      <4>2. new # <<>>
        BY <1>1, <2>4
      <4> QED BY <4>1 DEF Filed, Opened
    <3>2. ASSUME NEW i \in DOMAIN new, new[i].results # {}
          PROVE  i > 1 /\ new[i].results \subseteq new[i - 1].uses
      <4>1. CASE i = n
        BY <2>2, <2>4, <2>5, <2>6, <2>7, <4>1
      <4>2. CASE i # n
        <5>1. i \in DOMAIN ms /\ new[i] = ms[i]
          BY <1>1, <2>4, <4>2
        <5>2. i > 1 /\ ms[i].results \subseteq ms[i - 1].uses
          BY <3>2, <5>1 DEF Filed
        <5>3. i - 1 \in 1 .. n
          BY <1>1, <5>1, <5>2
        <5> QED BY <2>7, <5>1, <5>2, <5>3
      <4> QED BY <4>1, <4>2
    <3>3. \A i, j \in DOMAIN new : i # j => new[i].uses \cap new[j].uses = {}
      BY <1>1, <2>4, <2>7 DEF Filed
    <3> QED BY <3>1, <3>2, <3>3 DEF Filed
  <2>12. new # <<>> /\ Last(new) = new[n]
    <3>1. Len(new) # 0
      BY <1>1, <2>4
    <3> QED BY <2>4, <3>1 DEF Last
  <2>13. \A i \in 1 .. n - 1 : new[i] = ms[i]
    <3>0. n \in Nat
      BY <1>1
    <3>1. \A i \in 1 .. n - 1 : i \in 1 .. n /\ i # n
      BY <3>0
    <3> QED BY <2>4, <3>1
  <2>14. Last(new).results # {}
    BY <1>2, <1>1, <2>2, <2>4, <2>12
  <2>15. \A left : Fits(ms, left) => Fits(new, left)
    BY <1>1, <1>2, <2>4, <2>6, <2>7, <2>12, <2>14 DEF Fits
  <2> QED BY <1>1, <1>2, <2>4, <2>7, <2>9, <2>10, <2>11, <2>12, <2>13, <2>15
<1>3. CASE Last(ms).results = {}
  <2> DEFINE m == ToolResults(ids)
  <2>1. new = Append(ms, m)
    BY <1>3 DEF AddResults
  <2>2. m \in Message /\ m.uses = {} /\ m.said = 0 /\ m.results = ids
    BY Messages, Fields
  <2> HIDE DEF m
  <2>3. /\ new \in Seq(Message) /\ Len(new) = n + 1 /\ DOMAIN new = 1 .. n + 1
        /\ \A i \in 1 .. n : new[i] = ms[i]
        /\ new[n + 1] = m /\ Last(new) = m /\ new # <<>>
    <3>1. /\ new \in Seq(Message) /\ Len(new) = Len(ms) + 1 /\ DOMAIN new = 1 .. Len(ms) + 1
          /\ \A i \in 1 .. Len(ms) : new[i] = ms[i]
          /\ new[Len(ms) + 1] = m /\ Last(new) = m /\ new # <<>>
      BY <2>1, <2>2, Appending
    <3> QED BY <3>1, Zenon DEF n
  <2>4. Used(new) = Used(ms) /\ Answered(new) = Answered(ms) \cup ids
    <3>1. /\ Used(new) = Used(ms) \cup m.uses
          /\ Answered(new) = Answered(ms) \cup m.results
      BY <2>1, <2>2, UsedAppend
    <3> QED BY <2>2, <3>1
  <2>5. Filed(new)
    <3>1. m.uses \cap Used(ms) = {}
      BY <2>2
    <3>2. ids \subseteq Last(ms).uses
      BY <1>3 DEF Fits
    <3> QED BY <2>1, <2>2, <3>1, <3>2, FiledAppend
  <2>6. Len(new) - 1 = n /\ new[n] = ms[n] /\ Len(new) >= n
    BY <1>1, <2>3
  <2>7. \A i \in DOMAIN new : i \notin DOMAIN ms =>
            new[i].said = 0 /\ new[i].uses = {} /\ i = n + 1
    BY <1>1, <2>2, <2>3
  <2>8. \A i \in 1 .. n - 1 : new[i] = ms[i]
    BY <1>1, <2>3
  <2>9. \A i \in DOMAIN ms : new[i].said = ms[i].said
    BY <1>1, <2>3
  <2>10. DOMAIN new = 1 .. Len(new) /\ Last(new).results # {}
    BY <2>2, <2>3
  <2>11. \A left : Fits(ms, left) => Fits(new, left)
    BY <1>1, <1>3, <2>3, <2>6, <2>10 DEF Fits
  <2> QED BY <1>1, <2>3, <2>4, <2>5, <2>6, <2>7, <2>8, <2>9, <2>10, <2>11
<1> QED BY <1>2, <1>3

LEMMA AnsweredUsed ==
    ASSUME NEW ms \in Seq(Message), Filed(ms)
    PROVE  Answered(ms) \subseteq Used(ms)
<1> SUFFICES ASSUME NEW u \in Answered(ms) PROVE u \in Used(ms)
  OBVIOUS
<1>1. PICK i \in DOMAIN ms : u \in ms[i].results
  BY UsedOf
<1>2. i > 1 /\ u \in ms[i - 1].uses
  BY <1>1 DEF Filed
<1>3. i - 1 \in DOMAIN ms
  BY <1>2
<1> QED BY <1>2, <1>3, UsedOf

\* Whether or not it is filed, what results are added to keeps what it says.
LEMMA AddResultsKeeps ==
    ASSUME NEW ms \in Seq(Message), NEW ids \in SUBSET Ids,
           NEW new, new = AddResults(ms, ids)
    PROVE  /\ new \in Seq(Message) /\ Len(new) >= Len(ms)
           /\ \A i \in DOMAIN new :
                 \/ i \in DOMAIN ms /\ new[i].said = ms[i].said
                 \/ new[i].said = 0
<1>1. CASE ms # <<>> /\ Last(ms).results # {}
  <2> DEFINE m == [ms[Len(ms)] EXCEPT !.results = @ \cup ids]
  <2>1. new = [ms EXCEPT ![Len(ms)] = m]
    BY <1>1 DEF AddResults
  <2>2. Len(ms) \in DOMAIN ms /\ ms[Len(ms)] \in Message
    BY <1>1
  <2>3. m \in Message /\ m.said = ms[Len(ms)].said
    BY <2>2 DEF Message
  <2> HIDE DEF m
  <2>4. new \in Seq(Message) /\ Len(new) = Len(ms) /\ DOMAIN new = DOMAIN ms
    BY <2>1, <2>2, <2>3
  <2>5. \A i \in DOMAIN ms : new[i] = IF i = Len(ms) THEN m ELSE ms[i]
    BY <2>1
  <2> QED BY <2>3, <2>4, <2>5
<1>2. CASE ~(ms # <<>> /\ Last(ms).results # {})
  <2>1. new = Append(ms, ToolResults(ids))
    BY <1>2, Zenon DEF AddResults
  <2>2. ToolResults(ids) \in Message /\ ToolResults(ids).said = 0
    BY Messages, Fields
  <2> QED BY <2>1, <2>2
<1> QED BY <1>1, <1>2

-----------------------------------------------------------------------------
(* What a run adds to its messages                                         *)

\* A response whose ids are new.
LEMMA ResponseContinues ==
    ASSUME NEW ms \in Seq(Message), NEW old \in SUBSET Ids, NEW ids \in SUBSET Ids,
           thread \in Seq(Message), prefill \in Nat,
           Continues(ms, old), ids \cap old = {}, Used(thread) \subseteq old,
           NEW new, new = Append(ms, Response(ids))
    PROVE  /\ Continues(new, old \cup ids)
           /\ new \in Seq(Message) /\ Len(new) > prefill /\ new # <<>>
           /\ Used(new) = Used(ms) \cup ids /\ Answered(new) = Answered(ms)
           /\ Fits(new, ids)
<1> DEFINE m == Response(ids)
<1>1. m \in Message /\ m.uses = ids /\ m.results = {}
  BY Messages, Fields
<1>2. prefill \in 1 .. Len(thread) /\ prefill <= Len(ms) /\ Len(ms) \in Nat /\ Len(thread) \in Nat
  BY DEF Continues
<1> HIDE DEF m
<1>3. /\ new \in Seq(Message) /\ new # <<>>
      /\ Len(new) = Len(ms) + 1
      /\ DOMAIN ms = 1 .. Len(ms) /\ DOMAIN new = 1 .. Len(ms) + 1
      /\ \A i \in 1 .. Len(ms) : new[i] = ms[i]
      /\ new[Len(ms) + 1] = m
      /\ Last(new) = m
  BY <1>1, Appending DEF m
<1>4. Used(new) = Used(ms) \cup ids /\ Answered(new) = Answered(ms)
  <2>1. /\ Used(new) = Used(ms) \cup m.uses
        /\ Answered(new) = Answered(ms) \cup m.results
    BY <1>1, UsedAppend DEF m
  <2> QED BY <1>1, <2>1
<1>5. Filed(new)
  <2>1. Filed(ms) /\ m.uses \cap Used(ms) = {} /\ ms # <<>>
    BY <1>1, <1>2 DEF Continues
  <2>2. m.results = {}
    BY <1>1
  <2> QED BY <1>1, <2>1, <2>2, FiledAppend DEF m
<1>6. \A i \in 1 .. prefill : new[i] = thread[i]
  <2>1. \A i \in 1 .. prefill : i \in 1 .. Len(ms)
    BY <1>2
  <2> QED BY <1>3, <2>1 DEF Continues
<1>7. new[prefill + 1].results = {}
  <2>1. CASE prefill < Len(ms)
    <3>1. prefill + 1 \in 1 .. Len(ms)
      BY <1>2, <2>1
    <3> QED BY <1>3, <2>1, <3>1 DEF Continues
  <2>2. CASE prefill = Len(ms)
    BY <1>1, <1>3, <2>2
  <2> QED BY <1>2, <2>1, <2>2
<1>8. ASSUME NEW i \in DOMAIN new, NEW j \in DOMAIN thread, i > prefill
      PROVE  new[i].uses \cap thread[j].uses = {}
  <2>1. thread[j].uses \subseteq old
    BY UsedOf
  <2>2. CASE i \in DOMAIN ms
    <3>1. new[i] = ms[i]
      BY <1>3, <2>2
    <3> QED BY <1>8, <2>2, <3>1 DEF Continues
  <2>3. CASE i = Len(ms) + 1
    <3>1. new[i].uses = ids
      BY <1>1, <1>3, <2>3
    <3> QED BY <2>1, <3>1
  <2>4. i \in DOMAIN ms \/ i = Len(ms) + 1
    <3>1. Len(ms) \in Nat /\ i \in 1 .. Len(ms) + 1
      BY <1>2, <1>3
    <3>2. i \in 1 .. Len(ms) \/ i = Len(ms) + 1
      BY <3>1
    <3> QED BY <1>3, <3>2
  <2> QED BY <2>2, <2>3, <2>4
<1>9. Used(new) \subseteq old \cup ids
  BY <1>4 DEF Continues
<1>10. Fits(new, ids)
  BY <1>1, <1>3 DEF Fits
<1>11. Len(new) > prefill /\ prefill <= Len(new)
  BY <1>2, <1>3
<1>12. Continues(new, old \cup ids)
  BY <1>2, <1>5, <1>6, <1>7, <1>8, <1>9, <1>11, Zenon DEF Continues
<1> QED BY <1>3, <1>4, <1>10, <1>11, <1>12, Zenon

\* Results of calls that are open.
LEMMA ResultsContinue ==
    ASSUME NEW ms \in Seq(Message), NEW old, NEW ids \in SUBSET Ids, ids # {},
           thread \in Seq(Message), prefill \in Nat,
           Continues(ms, old), Len(ms) > prefill, Fits(ms, ids),
           NEW new, new = AddResults(ms, ids)
    PROVE  /\ Continues(new, old)
           /\ Len(new) > prefill
           /\ Used(new) = Used(ms) /\ Answered(new) = Answered(ms) \cup ids
           /\ \A left : Fits(ms, left) => Fits(new, left)
<1>1. prefill \in 1 .. Len(thread) /\ Len(ms) \in Nat /\ Len(thread) \in Nat
  BY DEF Continues
<1>2. Filed(ms) /\ ms # <<>>
  BY <1>1 DEF Continues
<1>3. /\ new \in Seq(Message) /\ Filed(new) /\ new # <<>>
      /\ Used(new) = Used(ms)
      /\ Answered(new) = Answered(ms) \cup ids
      /\ Len(new) >= Len(ms)
      /\ DOMAIN new = 1 .. Len(new)
      /\ \A i \in 1 .. Len(ms) - 1 : new[i] = ms[i]
      /\ new[Len(ms)].uses = ms[Len(ms)].uses
      /\ \A i \in DOMAIN new : i \notin DOMAIN ms =>
            new[i].said = 0 /\ new[i].uses = {} /\ i = Len(ms) + 1
      /\ \A left : Fits(ms, left) => Fits(new, left)
      /\ Last(ms).results = {} => new[Len(ms)] = ms[Len(ms)]
  BY <1>2, AddingResults
<1>4. Len(new) \in Nat /\ Len(new) > prefill
  BY <1>1, <1>3
<1>5. \A i \in 1 .. prefill : new[i] = thread[i]
  <2>1. \A i \in 1 .. prefill : i \in 1 .. Len(ms) - 1
    BY <1>1
  <2> QED BY <1>3, <2>1 DEF Continues
<1>6. new[prefill + 1].results = {}
  <2>1. ms[prefill + 1].results = {}
    BY DEF Continues
  <2>2. CASE prefill + 1 < Len(ms)
    <3>1. prefill + 1 \in 1 .. Len(ms) - 1
      BY <1>1, <2>2
    <3> QED BY <1>3, <2>1, <3>1
  <2>3. CASE prefill + 1 = Len(ms)
    BY <1>3, <2>1, <2>3 DEF Last
  <2> QED BY <1>1, <2>2, <2>3
<1>7. ASSUME NEW i \in DOMAIN new, NEW j \in DOMAIN thread, i > prefill
      PROVE  new[i].uses \cap thread[j].uses = {}
  <2>1. CASE i \in DOMAIN ms
    <3>1. new[i].uses = ms[i].uses
      <4>1. i \in 1 .. Len(ms) - 1 \/ i = Len(ms)
        BY <2>1
      <4> QED BY <1>3, <4>1
    <3> QED BY <1>7, <2>1, <3>1 DEF Continues
  <2>2. CASE i \notin DOMAIN ms
    BY <1>3, <2>2
  <2> QED BY <2>1, <2>2
<1>8. Used(new) \subseteq old
  BY <1>3 DEF Continues
<1> QED BY <1>1, <1>3, <1>4, <1>5, <1>6, <1>7, <1>8 DEF Continues

-----------------------------------------------------------------------------
(* Steps and ids                                                           *)

LEMMA ConcludeEffect ==
    ASSUME NEW reason \in StopReasons, Conclude(reason),
           status = "running", step \in Nat
    PROVE  /\ phase' \in {"stepping", "compacting"}
           /\ status' \in {"running", "success", "failed"}
           /\ status' = "success" <=> reason = "end_turn"
           /\ status' = "running" => step < MaxSteps
           /\ phase' = "compacting" => auto /\ reason # "end_turn" /\ status' = "running"
BY ConversationAssumption DEF Conclude

LEMMA PacedStep ==
    ASSUME ConversationTypeOK, Paced, [ConversationNext]_conversationVars
    PROVE  /\ Paced' /\ step' \in 0 .. MaxSteps
           /\ phase' \in Phases /\ status' \in {"running", "success", "failed"}
<1>0. MaxSteps \in Nat /\ MaxSteps > 0 /\ sent \in Nat /\ step \in 0 .. MaxSteps
  BY ConversationAssumption DEF ConversationTypeOK
<1>1. CASE Begin
  BY <1>0, <1>1 DEF Begin, Paced, Phases
<1>2. ASSUME NEW reason \in StopReasons, NEW n \in 0 .. MaxCalls, Respond(reason, n)
      PROVE  /\ Paced' /\ step' \in 0 .. MaxSteps
             /\ phase' \in Phases /\ status' \in {"running", "success", "failed"}
  <2>1. /\ phase = "asking" /\ status = "running" /\ sent > 0 /\ step \in 1 .. MaxSteps
        /\ UNCHANGED <<auto, sent, step>> /\ stop' = reason
    BY <1>2 DEF Respond, Paced
  <2>2. CASE /\ reason = "tool_use" /\ n > 0 /\ phase' = "acting" /\ UNCHANGED status
             /\ calls' = {Cardinality(used) + k : k \in 1 .. n}
    <3>1. calls' # {}
      <4>1. 1 \in 1 .. n
        BY <2>2
      <4> QED BY <2>2, <4>1
    <3> QED BY <1>0, <2>1, <2>2, <3>1 DEF Paced, Phases
  <2>3. CASE Conclude(reason)
    BY <1>0, <2>1, <2>3, ConcludeEffect DEF Paced, Phases
  <2> QED BY <1>2, <2>2, <2>3 DEF Respond
<1>3. CASE ToolReturns
  <2>1. /\ phase = "acting" /\ status = "running" /\ sent > 0 /\ step \in 1 .. MaxSteps
        /\ stop = "tool_use" /\ UNCHANGED <<auto, sent, step, stop>>
    BY <1>3 DEF ToolReturns, Paced
  <2>2. CASE calls' # {} /\ UNCHANGED <<phase, status>>
    BY <1>0, <2>1, <2>2 DEF Paced, Phases
  <2>3. CASE Conclude(stop)
    BY <1>0, <2>1, <2>3, ConcludeEffect DEF Paced, Phases, StopReasons
  <2> QED BY <1>3, <2>2, <2>3 DEF ToolReturns
<1>4. CASE CompactContext
  BY <1>0, <1>4 DEF CompactContext, response, Paced, Phases, ConversationTypeOK
<1>5. CASE StepFinished
  BY <1>0, <1>5 DEF StepFinished, NextStep, response, Paced, Phases, ConversationTypeOK
<1>6. CASE Abort
  BY <1>0, <1>6 DEF Abort, Paced, Phases, ConversationTypeOK
<1>7. CASE Persist \/ Discard \/ CompactThread \/ UNCHANGED conversationVars
  BY <1>0, <1>7 DEF Persist, Discard, CompactThread, conversationVars, context, response,
     Paced, Phases, ConversationTypeOK
<1> QED
  BY <1>1, <1>2, <1>3, <1>4, <1>5, <1>6, <1>7 DEF ConversationNext, Work

LEMMA OneLess ==
    ASSUME NEW x \in Nat, NEW y \in Nat, NEW m \in Nat, NEW e \in 0 .. 1, y >= 1, y <= m
    PROVE  x + y - e \in Nat /\ x + y - e <= x + m
OBVIOUS

\* The steps made grow, and a response is one more.
LEMMA StepsGrow ==
    ASSUME ConversationTypeOK, Paced, [ConversationNext]_conversationVars
    PROVE  /\ StepsMade \in Nat /\ StepsMade' \in Nat /\ StepsMade' >= StepsMade
           /\ phase = "asking" /\ phase' # "asking" => StepsMade' = StepsMade + 1
           /\ StepsMade' <= MaxMessages * MaxSteps
           /\ sent' \in 0 .. MaxMessages
<1>0. /\ MaxSteps \in Nat /\ MaxSteps > 0 /\ MaxMessages \in Nat
      /\ sent \in 0 .. MaxMessages /\ step \in 0 .. MaxSteps
      /\ phase # "idle" => sent > 0 /\ step > 0
  BY ConversationAssumption DEF ConversationTypeOK, Paced
<1> DEFINE before == (sent - 1) * MaxSteps
           all    == sent * MaxSteps
<1>1. all \in Nat /\ all = before + MaxSteps /\ before \in Int /\ (sent > 0 => before \in Nat)
  <2>1. all \in Nat
    BY <1>0
  <2>2. all = before + MaxSteps /\ before \in Int
    BY <1>0, SMT
  <2>3. sent > 0 => sent - 1 \in Nat
    BY <1>0
  <2>4. sent > 0 => before \in Nat
    BY <1>0, <2>3
  <2> QED BY <2>1, <2>2, <2>4
<1>2. all <= MaxMessages * MaxSteps
  BY <1>0, MoreTimes
<1>3. CASE Begin
  <2>1. sent' = sent + 1 /\ sent < MaxMessages /\ phase = "idle" /\ phase' = "asking" /\ step' = 1
    BY <1>3 DEF Begin
  <2>2. sent' - 1 = sent /\ step' - 1 = 0
    BY <1>0, <2>1
  <2>3. StepsMade' = all + 0
    BY <2>1, <2>2 DEF StepsMade
  <2>4. StepsMade = all
    BY <2>1 DEF StepsMade
  <2> HIDE DEF before, all
  <2> QED BY <1>0, <1>1, <1>2, <2>1, <2>3, <2>4
<1>4. CASE ~ Begin
  <2>1. sent' = sent
    BY <1>4 DEF ConversationNext, Work, Respond, ToolReturns, CompactContext, StepFinished,
       NextStep, Persist, Abort, Discard, CompactThread, conversationVars, context, response
  <2>2. \/ UNCHANGED <<phase, step>>
        \/ phase' = "idle"
        \/ phase # "idle" /\ phase' \notin {"idle", "asking"} /\ step' = step
        \/ phase = "stepping" /\ phase' = "asking" /\ step' = step + 1
    BY <1>4 DEF ConversationNext, Work, Respond, Conclude, ToolReturns, CompactContext,
       StepFinished, NextStep, Persist, Abort, Discard, CompactThread, conversationVars,
       context, response
  <2>3. phase' = "idle" => phase # "asking"
    BY <1>4 DEF ConversationNext, Work, Respond, Conclude, ToolReturns, CompactContext,
       StepFinished, NextStep, Persist, Abort, Discard, CompactThread, conversationVars,
       context, response
  <2>4. StepsMade = IF phase = "idle" THEN all
                    ELSE before + (IF phase = "asking" THEN step - 1 ELSE step)
    BY DEF StepsMade
  <2>5. StepsMade' = IF phase' = "idle" THEN all
                     ELSE before + (IF phase' = "asking" THEN step' - 1 ELSE step')
    BY <2>1 DEF StepsMade
  <2>6. step' \in 0 .. MaxSteps /\ (phase' # "idle" => sent' > 0 /\ step' > 0)
    BY PacedStep DEF Paced
  <2> HIDE DEF before, all
  <2>7. CASE phase' = "idle"
    BY <1>0, <1>1, <1>2, <2>1, <2>3, <2>4, <2>5, <2>7
  <2>8. CASE phase' # "idle"
    <3>1. before \in Nat /\ phase # "idle" /\ step \in Nat /\ step' \in Nat
          /\ step >= 1 /\ step' >= 1 /\ step' <= MaxSteps
      BY <1>0, <1>1, <2>1, <2>2, <2>6, <2>8
    <3>2. /\ StepsMade = before + (IF phase = "asking" THEN step - 1 ELSE step)
          /\ StepsMade' = before + (IF phase' = "asking" THEN step' - 1 ELSE step')
      BY <2>4, <2>5, <2>8, <3>1
    <3>7. PICK d \in 0 .. 1 : StepsMade = before + step - d /\ (d = 1 <=> phase = "asking")
      <4>1. CASE phase = "asking"
        BY <3>1, <3>2, <4>1
      <4>2. CASE phase # "asking"
        BY <3>1, <3>2, <4>2
      <4> QED BY <4>1, <4>2
    <3>8. PICK e \in 0 .. 1 : StepsMade' = before + step' - e /\ (e = 1 <=> phase' = "asking")
      <4>1. CASE phase' = "asking"
        BY <3>1, <3>2, <4>1
      <4>2. CASE phase' # "asking"
        BY <3>1, <3>2, <4>2
      <4> QED BY <4>1, <4>2
    <3>9. \/ step' = step /\ e = d
          \/ step' = step /\ d = 1 /\ e = 0
          \/ step' = step + 1 /\ d = 0 /\ e = 1
      BY <2>2, <2>8, <3>7, <3>8
    <3>10. phase = "asking" /\ phase' # "asking" => step' = step /\ d = 1 /\ e = 0
      BY <2>2, <2>8, <3>7, <3>8
    <3>3. all = before + MaxSteps /\ MaxSteps \in Nat /\ before \in Nat
      BY <1>0, <1>1, <3>1
    <3>4. /\ StepsMade \in Nat /\ StepsMade' \in Nat /\ StepsMade' <= all
          /\ StepsMade' >= StepsMade
          /\ phase = "asking" /\ phase' # "asking" => StepsMade' = StepsMade + 1
      <4>1. /\ StepsMade \in Nat /\ StepsMade' \in Nat /\ StepsMade' <= before + MaxSteps
            /\ \/ step' = step /\ e = d
               \/ step' = step /\ d = 1 /\ e = 0
               \/ step' = step + 1 /\ d = 0 /\ e = 1
               => StepsMade' >= StepsMade
            /\ step' = step /\ d = 1 /\ e = 0 => StepsMade' = StepsMade + 1
        <5>1. /\ before \in Nat /\ step \in Nat /\ step' \in Nat /\ MaxSteps \in Nat
              /\ step >= 1 /\ step' >= 1 /\ step' <= MaxSteps
              /\ d \in 0 .. 1 /\ e \in 0 .. 1
          BY <3>1, <3>3
        <5>2. StepsMade = before + step - d /\ StepsMade' = before + step' - e
          BY <3>7, <3>8
        <5>3. before + step' - e \in Nat /\ before + step' - e <= before + MaxSteps
          BY <5>1, OneLess, Zenon
        <5>4. before + step - d \in Nat
          BY <5>1
        <5>5. /\ StepsMade \in Nat /\ StepsMade' \in Nat
              /\ StepsMade' <= before + MaxSteps
          BY <5>2, <5>3, <5>4, Zenon
        <5>6. step' = step /\ e = d => StepsMade' >= StepsMade
          BY <5>1, <5>2
        <5>7. step' = step /\ d = 1 /\ e = 0 => StepsMade' = StepsMade + 1
          BY <5>1, <5>2
        <5>8. step' = step + 1 /\ d = 0 /\ e = 1 => StepsMade' >= StepsMade
          BY <5>1, <5>2
        <5> QED BY <5>5, <5>6, <5>7, <5>8
      <4> QED BY <3>3, <3>9, <3>10, <4>1, Zenon
    <3>5. MaxMessages * MaxSteps \in Nat
      BY <1>0
    <3>6. StepsMade' <= MaxMessages * MaxSteps
      BY <1>1, <1>2, <3>4, <3>5
    <3> QED BY <1>0, <2>1, <3>4, <3>6
  <2> QED BY <2>7, <2>8
<1> QED BY <1>3, <1>4

NextIds(n) == {Cardinality(used) + k : k \in 1 .. n}

\* A response has the next ids, and they are new.
LEMMA NewIds ==
    ASSUME ConversationTypeOK, Counted, Paced,
           NEW reason \in StopReasons, NEW n \in 0 .. MaxCalls, Respond(reason, n)
    PROVE  /\ Counted' /\ NextIds(n) \in SUBSET Ids /\ NextIds(n) \cap used = {}
           /\ n > 0 => NextIds(n) # {}
           /\ n = 0 => NextIds(n) = {}
           /\ used' = used \cup NextIds(n)
<1>1. PICK c \in Nat : used = 1 .. c /\ c <= StepsMade * MaxCalls
  BY DEF Counted
<1>2. Cardinality(used) = c
  <2>1. Cardinality(1 .. c) = IF 1 > c THEN 0 ELSE c - 1 + 1
    BY FS_Interval
  <2> QED BY <1>1, <2>1
<1>3. n \in Nat /\ n <= MaxCalls /\ MaxCalls \in Nat
  BY ConversationAssumption
<1>4. NextIds(n) = c + 1 .. c + n
  <2>1. \A x \in c + 1 .. c + n : x - c \in 1 .. n /\ x = c + (x - c)
    BY <1>3
  <2>2. \A k \in 1 .. n : c + k \in c + 1 .. c + n
    BY <1>3
  <2>3. NextIds(n) = {c + k : k \in 1 .. n}
    BY <1>2 DEF NextIds
  <2> QED BY <2>1, <2>2, <2>3
<1>5. used' = used \cup NextIds(n)
  BY DEF Respond, NextIds
<1>6. used' = 1 .. c + n
  BY <1>1, <1>3, <1>4, <1>5
<1>7. /\ phase = "asking" /\ phase' # "asking"
      /\ [ConversationNext]_conversationVars
  BY DEF Respond, Conclude, ConversationNext, Work
<1>8. /\ StepsMade \in Nat /\ StepsMade' = StepsMade + 1
      /\ StepsMade' \in Nat /\ StepsMade' <= MaxMessages * MaxSteps
  BY <1>7, StepsGrow
<1>9. c + n <= StepsMade' * MaxCalls
  <2>1. (StepsMade + 1) * MaxCalls = StepsMade * MaxCalls + MaxCalls
    BY <1>3, <1>8, SMT
  <2>2. StepsMade * MaxCalls \in Nat
    BY <1>3, <1>8
  <2> QED BY <1>1, <1>3, <1>8, <2>1, <2>2
<1>10. Counted'
  <2>1. c + n \in Nat
    BY <1>3
  <2> QED BY <1>6, <1>9, <2>1 DEF Counted
<1>11. NextIds(n) \in SUBSET Ids
  <2>1. MaxMessages * MaxSteps \in Nat
    BY ConversationAssumption
  <2>2. StepsMade' * MaxCalls <= (MaxMessages * MaxSteps) * MaxCalls
    BY <1>3, <1>8, <2>1, MoreTimes
  <2>3. StepsMade' * MaxCalls \in Nat /\ MaxMessages * MaxSteps * MaxCalls \in Nat
    BY <1>3, <1>8, <2>1
  <2>4. c + n <= MaxMessages * MaxSteps * MaxCalls
    BY <1>3, <1>9, <2>2, <2>3
  <2> QED BY <1>3, <1>4, <2>3, <2>4 DEF Ids
<1>12. NextIds(n) \cap used = {}
  BY <1>1, <1>3, <1>4
<1>13. (n > 0 => NextIds(n) # {}) /\ (n = 0 => NextIds(n) = {})
  <2>1. n > 0 => c + 1 \in c + 1 .. c + n
    BY <1>3
  <2>2. n = 0 => c + 1 .. c + n = {}
    OBVIOUS
  <2>3. n > 0 => NextIds(n) # {}
    BY <1>4, <2>1, Zenon
  <2>4. n = 0 => NextIds(n) = {}
    BY <1>4, <2>2, Zenon
  <2> QED BY <2>3, <2>4
<1> QED BY <1>5, <1>10, <1>11, <1>12, <1>13

LEMMA CountedStep ==
    ASSUME ConversationTypeOK, Counted, Paced, [ConversationNext]_conversationVars
    PROVE  Counted'
<1>1. ASSUME NEW reason \in StopReasons, NEW n \in 0 .. MaxCalls, Respond(reason, n)
      PROVE  Counted'
  BY <1>1, NewIds
<1>2. CASE used' = used
  <2>1. PICK c \in Nat : used = 1 .. c /\ c <= StepsMade * MaxCalls
    BY DEF Counted
  <2>2. StepsMade \in Nat /\ StepsMade' \in Nat /\ StepsMade <= StepsMade'
    BY StepsGrow
  <2>3. MaxCalls \in Nat
    BY ConversationAssumption
  <2>6. c <= StepsMade' * MaxCalls
    BY <2>1, <2>2, <2>3, MoreAllowed, Zenon
  <2> QED BY <1>2, <2>1, <2>6 DEF Counted
<1>3. \/ used' = used
      \/ \E reason \in StopReasons, n \in 0 .. MaxCalls : Respond(reason, n)
  BY DEF ConversationNext, Work, Begin, ToolReturns, CompactContext, StepFinished, NextStep,
     Persist, Abort, Discard, CompactThread, conversationVars, context, response
<1> QED BY <1>1, <1>2, <1>3

-----------------------------------------------------------------------------
(* Types                                                                   *)

\* What a run starts from.
LEMMA BeginEffect ==
    ASSUME ConversationTypeOK, Opened(thread), Begin
    PROVE  /\ sent' \in 1 .. MaxMessages
           /\ thread' = Append(thread, UserSays(sent')) /\ thread' \in Seq(Message)
           /\ thread' # <<>> /\ Opened(thread')
           /\ \E n \in 1 .. Len(thread') :
                 /\ messages' = Prefix(thread', n) /\ Balanced(messages')
                 /\ prefill' = n /\ Len(messages') = n
                 /\ Balanced(thread') => messages' = thread'
<1>1. sent' \in 1 .. MaxMessages /\ thread' = Append(thread, UserSays(sent'))
  BY ConversationAssumption DEF Begin, ConversationTypeOK
<1>2. UserSays(sent') \in Message /\ sent' \in 0 .. MaxMessages
  BY <1>1, Messages
<1>3. thread' \in Seq(Message) /\ thread' # <<>>
  BY <1>1, <1>2, Appending DEF ConversationTypeOK
<1>4. Opened(thread')
  <2>1. CASE thread = <<>>
    <3>1. thread'[1] = UserSays(sent')
      BY <1>1, <2>1
    <3> QED BY <3>1, Fields DEF Opened
  <2>2. CASE thread # <<>>
    <3>1. thread'[1] = thread[1]
      BY <1>1, <1>2, <2>2 DEF ConversationTypeOK
    <3> QED BY <2>2, <3>1 DEF Opened
  <2> QED BY <2>1, <2>2
<1>5. PICK n \in 1 .. Len(thread') :
          /\ Trim(thread') = Prefix(thread', n)
          /\ Balanced(Trim(thread'))
          /\ Balanced(thread') => n = Len(thread')
  BY <1>3, <1>4, Trimmed
<1>6. n \in 0 .. Len(thread') /\ n > 0 /\ Len(thread') \in Nat
  BY <1>3, <1>5
<1>7. /\ Prefix(thread', n) # <<>> /\ Len(Prefix(thread', n)) = n
      /\ n = Len(thread') => Prefix(thread', n) = thread'
  BY <1>3, <1>6, PrefixOf
<1>8. messages' = Prefix(thread', n) /\ prefill' = n
  BY <1>5, <1>7 DEF Begin
<1> QED BY <1>1, <1>3, <1>4, <1>5, <1>7, <1>8

\* The three ways in which messages grow or are replaced.
LEMMA Grown ==
    ASSUME ConversationTypeOK, Counted, Paced, Opened(thread),
           [ConversationNext]_conversationVars
    PROVE  /\ calls' \in SUBSET Ids /\ messages' \in Seq(Message)
           /\ \/ Begin
              \/ \A i \in DOMAIN messages' :
                    \/ i \in DOMAIN messages /\ messages'[i].said = messages[i].said
                    \/ messages'[i].said = 0
<1> DEFINE Keeps(new) ==
              \A i \in DOMAIN new :
                 \/ i \in DOMAIN messages /\ new[i].said = messages[i].said
                 \/ new[i].said = 0
<1>0. messages \in Seq(Message) /\ calls \in SUBSET Ids /\ thread \in Seq(Message)
  BY DEF ConversationTypeOK
<1>1. CASE Begin
  <2>1. PICK n \in 1 .. Len(thread') : messages' = Prefix(thread', n)
    BY <1>1, BeginEffect
  <2>2. thread' \in Seq(Message) /\ n \in 0 .. Len(thread')
    BY <1>1, BeginEffect
  <2>3. messages' \in Seq(Message)
    BY <2>1, <2>2, PrefixOf
  <2>4. calls' = calls
    BY <1>1 DEF Begin
  <2> QED BY <1>0, <1>1, <2>3, <2>4
<1>2. ASSUME NEW reason \in StopReasons, NEW n \in 0 .. MaxCalls, Respond(reason, n)
      PROVE  calls' \in SUBSET Ids /\ messages' \in Seq(Message) /\ Keeps(messages')
  <2> DEFINE new == NextIds(n)
  <2>1. new \in SUBSET Ids
    BY <1>2, NewIds
  <2>2. calls' = calls \/ calls' = new
    BY <1>2 DEF Respond, NextIds
  <2> HIDE DEF new
  <2>3. ASSUME NEW ids \in SUBSET Ids
        PROVE  /\ Append(messages, Response(ids)) \in Seq(Message)
               /\ Keeps(Append(messages, Response(ids)))
    <3>1. Response(ids) \in Message /\ Response(ids).said = 0
      BY Messages, Fields
    <3> QED BY <1>0, <3>1
  <2>4. ASSUME NEW ids \in SUBSET Ids
        PROVE  LET ms == AddResults(Append(messages, Response(ids)), ids)
               IN  ms \in Seq(Message) /\ Keeps(ms)
    <3> DEFINE a  == Append(messages, Response(ids))
               ms == AddResults(a, ids)
    <3>1. a \in Seq(Message) /\ Keeps(a)
      BY <2>3
    <3>2. /\ ms \in Seq(Message)
          /\ \A i \in DOMAIN ms :
                (i \in DOMAIN a /\ ms[i].said = a[i].said) \/ ms[i].said = 0
      <4> HIDE DEF a
      <4> QED BY <3>1, AddResultsKeeps
    <3> HIDE DEF a, ms
    <3>3. Keeps(ms)
      BY <3>1, <3>2
    <3> QED BY <3>2, <3>3 DEF a, ms
  <2>5. \/ messages' = Append(messages, Response(new))
        \/ messages' = Append(messages, Response({}))
        \/ messages' = AddResults(Append(messages, Response(new)), new)
    BY <1>2 DEF Respond, new, NextIds
  <2>6. {} \in SUBSET Ids
    OBVIOUS
  <2> HIDE DEF Keeps
  <2> QED BY <1>0, <2>1, <2>2, <2>3, <2>4, <2>5, <2>6
<1>3. CASE ToolReturns
  <2>1. calls # {} /\ messages' = AddResults(messages, {Min(calls)}) /\ calls' \subseteq calls
    BY <1>3 DEF ToolReturns, Paced
  <2>2. Min(calls) \in calls
    <3>1. calls \in SUBSET Nat
      BY <1>0 DEF Ids
    <3> QED BY <2>1, <3>1, MinIsLeast
  <2>3. {Min(calls)} \in SUBSET Ids
    BY <1>0, <2>2
  <2>4. messages' \in Seq(Message) /\ Keeps(messages')
    BY <1>0, <2>1, <2>3, AddResultsKeeps
  <2> QED BY <1>0, <2>1, <2>4
<1>4. CASE messages' = <<Summary, Ack>> /\ calls' = calls
  <2>1. messages' \in Seq(Message) /\ \A i \in DOMAIN messages' : messages'[i].said = 0
    BY <1>4, PairOf
  <2> QED BY <1>0, <1>4, <2>1
<1>5. CASE messages' = messages /\ calls' \in {calls, {}}
  BY <1>0, <1>5
<1>6. \/ Begin
      \/ \E reason \in StopReasons, n \in 0 .. MaxCalls : Respond(reason, n)
      \/ ToolReturns
      \/ messages' = <<Summary, Ack>> /\ calls' = calls
      \/ messages' = messages /\ calls' \in {calls, {}}
  BY DEF ConversationNext, Work, CompactContext, StepFinished, NextStep,
     Persist, Abort, Discard, CompactThread, conversationVars, context, response
<1> QED BY <1>1, <1>2, <1>3, <1>4, <1>5, <1>6

-----------------------------------------------------------------------------
(* What the thread says                                                    *)

LEMMA Joining ==
    ASSUME NEW S, NEW a \in Seq(S), NEW b \in Seq(S)
    PROVE  /\ a \o b \in Seq(S) /\ Len(a \o b) = Len(a) + Len(b)
           /\ DOMAIN (a \o b) = 1 .. Len(a) + Len(b)
           /\ \A i \in 1 .. Len(a) : (a \o b)[i] = a[i]
           /\ \A i \in 1 .. Len(a) + Len(b) : i > Len(a) =>
                 i - Len(a) \in 1 .. Len(b) /\ (a \o b)[i] = b[i - Len(a)]
<1>1. a \o b \in Seq(S) /\ Len(a \o b) = Len(a) + Len(b)
  OBVIOUS
<1>2. DOMAIN (a \o b) = 1 .. Len(a) + Len(b)
  BY <1>1
<1>3. \A i \in 1 .. Len(a) : (a \o b)[i] = a[i]
  OBVIOUS
<1>4. \A i \in 1 .. Len(a) + Len(b) : i > Len(a) => i - Len(a) \in 1 .. Len(b)
  OBVIOUS
<1>5. \A i \in 1 .. Len(a) + Len(b) : i > Len(a) => (a \o b)[i] = b[i - Len(a)]
  OBVIOUS
<1> QED BY <1>1, <1>2, <1>3, <1>4, <1>5

LEMMA Persisted ==
    ASSUME ConversationTypeOK, Persist
    PROVE  /\ Len(thread) \in Nat /\ Len(messages) \in Nat /\ prefill \in Nat
           /\ thread' \in Seq(Message) /\ Len(thread') >= Len(thread)
           /\ \A i \in DOMAIN thread : i \in DOMAIN thread' /\ thread'[i] = thread[i]
           /\ \A i \in DOMAIN thread' :
                 i \notin DOMAIN thread =>
                    /\ i > Len(thread)
                    /\ prefill + (i - Len(thread)) \in DOMAIN messages
                    /\ thread'[i] = messages[prefill + (i - Len(thread))]
<1> DEFINE n == Len(messages)
           new == SubSeq(messages, prefill + 1, n)
<1>1. /\ thread \in Seq(Message) /\ messages \in Seq(Message) /\ prefill \in Nat
      /\ Len(thread) \in Nat /\ n \in Nat /\ thread' = thread \o new
  BY DEF ConversationTypeOK, Persist
<1>2. /\ new \in Seq(Message)
      /\ Len(new) = IF prefill + 1 <= n THEN n - prefill ELSE 0
      /\ \A j \in 1 .. Len(new) : new[j] = messages[prefill + j]
  BY <1>1
<1>3. \A j \in 1 .. Len(new) : prefill + j \in DOMAIN messages
  BY <1>1, <1>2
<1> HIDE DEF new
<1>4. /\ thread' \in Seq(Message) /\ DOMAIN thread' = 1 .. Len(thread) + Len(new)
      /\ Len(thread') = Len(thread) + Len(new)
      /\ \A i \in 1 .. Len(thread) : thread'[i] = thread[i]
      /\ \A i \in 1 .. Len(thread) + Len(new) : i > Len(thread) =>
            i - Len(thread) \in 1 .. Len(new) /\ thread'[i] = new[i - Len(thread)]
  <2>1. thread \in Seq(Message) /\ new \in Seq(Message)
    BY <1>1, <1>2
  <2> DEFINE both == thread \o new
  <2>2. /\ both \in Seq(Message) /\ DOMAIN both = 1 .. Len(thread) + Len(new)
        /\ Len(both) = Len(thread) + Len(new)
        /\ \A i \in 1 .. Len(thread) : both[i] = thread[i]
        /\ \A i \in 1 .. Len(thread) + Len(new) : i > Len(thread) =>
              i - Len(thread) \in 1 .. Len(new) /\ both[i] = new[i - Len(thread)]
    BY <2>1, Joining
  <2>3. thread' = both
    BY <1>1
  <2> HIDE DEF both
  <2> QED BY <2>2, <2>3
<1>5. /\ DOMAIN thread = 1 .. Len(thread) /\ Len(new) \in Nat
      /\ \A i \in DOMAIN thread : i \in 1 .. Len(thread) + Len(new)
      /\ \A i \in 1 .. Len(thread) + Len(new) : i \notin DOMAIN thread => i > Len(thread)
      /\ Len(thread) + Len(new) >= Len(thread)
  BY <1>1, <1>2
<1>6. \A i \in DOMAIN thread : i \in DOMAIN thread' /\ thread'[i] = thread[i]
  BY <1>4, <1>5
<1>7. ASSUME NEW i \in DOMAIN thread', i \notin DOMAIN thread
      PROVE  /\ i > Len(thread) /\ prefill + (i - Len(thread)) \in DOMAIN messages
             /\ thread'[i] = messages[prefill + (i - Len(thread))]
  <2>1. i > Len(thread) /\ i - Len(thread) \in 1 .. Len(new) /\ thread'[i] = new[i - Len(thread)]
    BY <1>4, <1>5, <1>7
  <2> QED BY <1>2, <1>3, <2>1
<1> QED BY <1>1, <1>4, <1>5, <1>6, <1>7

\* Only three actions write the thread.
LEMMA Untouched ==
    ASSUME [ConversationNext]_conversationVars, ~ Begin, ~ Persist, ~ CompactThread
    PROVE  /\ thread' = thread /\ sent' = sent /\ prefill' = prefill /\ auto' = auto
           /\ phase' # "idle" => phase # "idle"
<1>1. ASSUME NEW reason \in StopReasons, NEW n \in 0 .. MaxCalls, Respond(reason, n)
      PROVE  /\ thread' = thread /\ sent' = sent /\ prefill' = prefill /\ auto' = auto
             /\ phase # "idle"
  BY <1>1 DEF Respond
<1>2. CASE ToolReturns \/ CompactContext
  BY <1>2 DEF ToolReturns, CompactContext
<1>3. CASE StepFinished \/ Abort \/ Discard
  BY <1>3 DEF StepFinished, NextStep, Abort, Discard, context
<1>4. CASE UNCHANGED conversationVars
  BY <1>4 DEF conversationVars, context
<1> QED BY <1>1, <1>2, <1>3, <1>4, Zenon DEF ConversationNext, Work

LEMMA OpenedStep ==
    ASSUME ConversationTypeOK, Opened(thread), Said, [ConversationNext]_conversationVars
    PROVE  /\ Opened(thread)' /\ thread' \in Seq(Message)
           /\ phase' # "idle" => thread' # <<>>
<1>1. CASE Begin
  BY <1>1, BeginEffect DEF Opened
<1>2. CASE Persist
  <2>1. thread # <<>> /\ thread \in Seq(Message) /\ phase' = "idle"
    BY <1>2 DEF Persist, Said, ConversationTypeOK
  <2>2. 1 \in DOMAIN thread
    BY <2>1
  <2>3. thread'[1] = thread[1] /\ thread' \in Seq(Message)
    BY <1>2, <2>2, Persisted
  <2> QED BY <2>1, <2>3 DEF Opened
<1>3. CASE CompactThread
  BY <1>3, PairOf DEF CompactThread, Opened
<1>4. CASE thread' = thread /\ (phase' # "idle" => phase # "idle")
  <2>1. thread \in Seq(Message) /\ (phase # "idle" => thread # <<>>)
    BY DEF Said, ConversationTypeOK
  <2>2. Opened(thread)'
    BY <1>4 DEF Opened
  <2> QED BY <1>4, <2>1, <2>2
<1>5. \/ Begin \/ Persist \/ CompactThread
      \/ thread' = thread /\ (phase' # "idle" => phase # "idle")
  BY Untouched, Zenon
<1> QED BY <1>1, <1>2, <1>3, <1>4, <1>5

LEMMA SaidStep ==
    ASSUME ConversationTypeOK, Counted, Paced, Opened(thread), Said,
           [ConversationNext]_conversationVars
    PROVE  Said'
<1>0. /\ thread \in Seq(Message) /\ messages \in Seq(Message) /\ sent \in Nat /\ prefill \in Nat
      /\ \A i \in DOMAIN thread : thread[i].said \in Nat
  <2>1. thread \in Seq(Message) /\ messages \in Seq(Message) /\ sent \in Nat /\ prefill \in Nat
    BY DEF ConversationTypeOK
  <2>2. \A i \in DOMAIN thread : thread[i] \in Message
    BY <2>1
  <2> QED BY <2>1, <2>2, ConversationAssumption DEF Message
<1>1. phase' # "idle" => thread' # <<>>
  BY OpenedStep
<1>2. CASE Begin
  <2>1. /\ sent' = sent + 1 /\ thread' = Append(thread, UserSays(sent'))
        /\ UserSays(sent').said = sent'
    BY <1>2, Fields DEF Begin
  <2>2. /\ Len(thread) \in Nat /\ DOMAIN thread = 1 .. Len(thread)
        /\ DOMAIN thread' = 1 .. Len(thread) + 1
        /\ \A i \in 1 .. Len(thread) : thread'[i] = thread[i]
        /\ thread'[Len(thread) + 1] = UserSays(sent')
    <3>1. UserSays(sent') \in Message
      <4>1. sent' \in 0 .. MaxMessages
        BY <1>2, BeginEffect
      <4> QED BY <4>1, Messages
    <3> QED BY <1>0, <2>1, <3>1, Appending
  <2>3. \A i \in DOMAIN thread : thread[i].said <= sent
    BY DEF Said
  <2>4. \A i \in DOMAIN thread' :
            thread'[i].said \in Nat /\ thread'[i].said <= sent'
    BY <1>0, <2>1, <2>2, <2>3
  <2>5. ASSUME NEW i \in DOMAIN thread', NEW j \in DOMAIN thread', i < j,
               thread'[i].said > 0, thread'[j].said > 0
        PROVE  thread'[i].said < thread'[j].said
    <3>1. i \in DOMAIN thread /\ thread'[i] = thread[i] /\ thread[i].said <= sent
      BY <2>2, <2>3, <2>5
    <3>2. CASE j \in DOMAIN thread
      BY <2>2, <2>5, <3>1, <3>2 DEF Said, SaidInOrder
    <3>3. CASE j \notin DOMAIN thread
      <4>1. thread'[j].said = sent + 1
        BY <2>1, <2>2, <3>3
      <4> QED BY <1>0, <3>1, <4>1
    <3> QED BY <3>2, <3>3
  <2>6. \A i \in DOMAIN messages' : ~(i > prefill')
    <3>1. PICK n \in 1 .. Len(thread') : prefill' = n /\ Len(messages') = n
      BY <1>2, BeginEffect
    <3>2. messages' \in Seq(Message)
      BY Grown
    <3> QED BY <3>1, <3>2
  <2> QED BY <1>1, <2>4, <2>5, <2>6 DEF Said, SaidInOrder
<1>3. ASSUME ~ Begin
      PROVE  phase' # "idle" => \A i \in DOMAIN messages' : i > prefill' => messages'[i].said = 0
  <2> SUFFICES ASSUME phase' # "idle", NEW i \in DOMAIN messages', i > prefill'
               PROVE  messages'[i].said = 0
    OBVIOUS
  <2>1. prefill' = prefill /\ phase # "idle"
    BY <1>3 DEF ConversationNext, Work, Respond, ToolReturns, CompactContext, StepFinished,
       NextStep, Persist, Abort, Discard, CompactThread, conversationVars, context, response
  <2>2. \/ i \in DOMAIN messages /\ messages'[i].said = messages[i].said
        \/ messages'[i].said = 0
    BY <1>3, Grown
  <2> QED BY <2>1, <2>2 DEF Said
<1>4. CASE Persist
  <2>1. sent' = sent /\ phase # "idle" /\ phase' = "idle"
    BY <1>4 DEF Persist
  <2>2. /\ Len(thread) \in Nat
        /\ \A i \in DOMAIN thread : i \in DOMAIN thread' /\ thread'[i] = thread[i]
        /\ \A i \in DOMAIN thread' :
              i \notin DOMAIN thread =>
                 /\ i > Len(thread)
                 /\ prefill + (i - Len(thread)) \in DOMAIN messages
                 /\ thread'[i] = messages[prefill + (i - Len(thread))]
        /\ thread' \in Seq(Message)
    BY <1>4, Persisted
  <2>3. \A i \in DOMAIN thread' : i \notin DOMAIN thread => thread'[i].said = 0
    <3> SUFFICES ASSUME NEW i \in DOMAIN thread', i \notin DOMAIN thread
                 PROVE  thread'[i].said = 0
      OBVIOUS
    <3>1. prefill + (i - Len(thread)) > prefill
      <4>1. i \in Nat /\ i > Len(thread)
        BY <2>2
      <4> QED BY <1>0, <2>2, <4>1
    <3> QED BY <2>1, <2>2, <3>1 DEF Said
  <2>4. \A i \in DOMAIN thread' :
            thread'[i].said > 0 => i \in DOMAIN thread /\ thread'[i] = thread[i]
    BY <2>2, <2>3
  <2>5. SaidInOrder'
    BY <2>4 DEF Said, SaidInOrder
  <2>6. \A i \in DOMAIN thread' : thread'[i].said <= sent'
    BY <1>0, <2>1, <2>2, <2>3 DEF Said
  <2> QED BY <2>1, <2>5, <2>6 DEF Said
<1>5. CASE CompactThread
  <2>1. sent' = sent /\ phase' = "idle"
    BY <1>5 DEF CompactThread
  <2>2. \A i \in DOMAIN thread' : thread'[i].said = 0
    BY <1>5, PairOf DEF CompactThread
  <2> QED BY <1>0, <2>1, <2>2 DEF Said, SaidInOrder
<1>6. CASE thread' = thread /\ sent' = sent /\ ~ Begin
  <2>1. SaidInOrder' /\ \A i \in DOMAIN thread' : thread'[i].said <= sent'
    BY <1>6 DEF Said, SaidInOrder
  <2>2. phase' # "idle" => \A i \in DOMAIN messages' : i > prefill' => messages'[i].said = 0
    BY <1>3, <1>6
  <2> QED BY <1>1, <2>1, <2>2 DEF Said
<1>7. \/ Begin \/ Persist \/ CompactThread
      \/ thread' = thread /\ sent' = sent /\ ~ Begin
  BY Untouched, Zenon
<1> QED BY <1>2, <1>4, <1>5, <1>6, <1>7

LEMMA AskingStep ==
    ASSUME ConversationTypeOK, Paced, Opened(thread), AsksLatest,
           [ConversationNext]_conversationVars
    PROVE  AsksLatest'
<1>1. CASE Begin
  <2>1. /\ thread' = Append(thread, UserSays(sent'))
        /\ Balanced(thread') => messages' = thread'
    BY <1>1, BeginEffect
  <2>2. Last(thread') = UserSays(sent')
    <3>1. UserSays(sent') \in Message
      <4>1. sent' \in 0 .. MaxMessages
        BY <1>1, BeginEffect
      <4> QED BY <4>1, Messages
    <3> QED BY <2>1, <3>1, Appending DEF ConversationTypeOK
  <2> QED BY <2>1, <2>2 DEF AsksLatest
<1>2. CASE StepFinished
  <2>1. phase' = "asking" => step' # 1
    BY <1>2 DEF StepFinished, NextStep, Paced
  <2> QED BY <2>1 DEF AsksLatest
<1>3. CASE phase' # "asking"
  BY <1>3 DEF AsksLatest
<1>4. CASE UNCHANGED conversationVars
  BY <1>4 DEF AsksLatest, conversationVars, context, response, Balanced, Used, Answered
<1>5. Begin \/ StepFinished \/ phase' # "asking" \/ UNCHANGED conversationVars
  BY DEF ConversationNext, Work, Respond, Conclude, ToolReturns, CompactContext, Persist,
     Abort, Discard, CompactThread
<1> QED BY <1>1, <1>2, <1>3, <1>4, <1>5

-----------------------------------------------------------------------------
(* Without automatic compaction                                            *)

LEMMA ContinuesNext ==
    ASSUME Continues(messages', used'), thread' = thread, prefill' = prefill
    PROVE  Continues(messages, used)'
BY DEF Continues

LEMMA PlainBegin ==
    ASSUME ConversationTypeOK, Opened(thread), PlainThread, ~ auto, Begin
    PROVE  PlainThread'
<1>1. /\ thread \in Seq(Message) /\ Filed(thread) /\ Used(thread) \subseteq used
      /\ used' = used /\ phase' = "asking"
  BY DEF ConversationTypeOK, PlainThread, Begin
<1>2. /\ UserSays(sent') \in Message /\ UserSays(sent').role = "user"
      /\ UserSays(sent').uses = {} /\ UserSays(sent').results = {}
  <2>1. sent' \in 0 .. MaxMessages
    BY BeginEffect
  <2> QED BY <2>1, Messages, Fields
<1>3. /\ thread' = Append(thread, UserSays(sent')) /\ thread' \in Seq(Message)
  BY BeginEffect
<1>4. Filed(thread') /\ Used(thread') \subseteq used
  <2>1. Used(thread') = Used(thread)
    <3>1. Used(thread') = Used(thread) \cup UserSays(sent').uses
      BY <1>1, <1>2, <1>3, UsedAppend
    <3> QED BY <1>2, <3>1
  <2>2. Filed(thread')
    BY <1>1, <1>2, <1>3, FiledAppend
  <2> QED BY <1>1, <2>1, <2>2
<1>5. PICK n \in 1 .. Len(thread') :
          /\ messages' = Prefix(thread', n) /\ Balanced(messages')
          /\ prefill' = n /\ Len(messages') = n
  BY BeginEffect
<1>6. n \in 0 .. Len(thread') /\ n \in Nat
  BY <1>3, <1>5
<1>7. /\ messages' \in Seq(Message) /\ DOMAIN messages' = 1 .. n
      /\ \A i \in 1 .. n : messages'[i] = thread'[i]
  BY <1>3, <1>5, <1>6, PrefixOf
<1>8. Filed(messages') /\ Used(messages') \subseteq used'
  BY <1>1, <1>3, <1>4, <1>5, <1>6, FiledPrefix
<1>9. \A i \in DOMAIN messages' : ~(i > prefill')
  BY <1>5, <1>6, <1>7
<1>10. Continues(messages, used)'
  <2>1. prefill' \in 1 .. Len(thread') /\ prefill' <= Len(messages') /\ ~(prefill' < Len(messages'))
    BY <1>5, <1>6
  <2> QED BY <1>5, <1>7, <1>8, <1>9, <2>1 DEF Continues
<1>11. Open(messages)' = {}
  BY <1>5 DEF Open, Balanced
<1>12. Extends'
  BY <1>1, <1>10, <1>11 DEF Extends
<1> QED BY <1>1, <1>4, <1>12 DEF PlainThread

LEMMA PlainRespond ==
    ASSUME ConversationTypeOK, Counted, Paced, PlainThread, ~ auto,
           NEW reason \in StopReasons, NEW n \in 0 .. MaxCalls, Respond(reason, n)
    PROVE  PlainThread'
<1> DEFINE new == NextIds(n)
           a   == Append(messages, Response(new))
<1>1. /\ thread \in Seq(Message) /\ messages \in Seq(Message) /\ prefill \in Nat
      /\ used \in SUBSET Ids /\ phase = "asking" /\ phase' # "idle" /\ phase' # "asking"
      /\ UNCHANGED <<auto, thread, prefill>>
  BY DEF ConversationTypeOK, Respond, Conclude
<1>2. /\ Filed(thread) /\ Used(thread) \subseteq used
      /\ Continues(messages, used) /\ Open(messages) = {}
  BY <1>1 DEF PlainThread, Extends
<1>3. /\ new \in SUBSET Ids /\ new \cap used = {} /\ used' = used \cup new
      /\ n > 0 => new # {}
      /\ n = 0 => new = {}
  BY NewIds
<1>4. \/ n > 0 /\ messages' = a /\ calls' = new /\ phase' = "acting"
      \/ n = 0 /\ messages' = a /\ Conclude(reason) /\ calls' = calls
      \/ n > 0 /\ messages' = AddResults(a, new) /\ Conclude(reason) /\ calls' = calls
  <2>1. \/ n > 0 /\ messages' = a /\ calls' = new /\ phase' = "acting"
        \/ /\ Conclude(reason) /\ calls' = calls
           /\ messages' = IF n = 0 THEN a ELSE AddResults(a, new)
        \/ /\ Conclude(reason) /\ calls' = calls /\ n = 0
           /\ messages' = Append(messages, Response({}))
    BY Zenon DEF Respond, NextIds
  <2>2. n = 0 => a = Append(messages, Response({}))
    BY <1>3, Zenon
  <2>3. n = 0 \/ n > 0
    BY ConversationAssumption
  <2> QED BY <2>1, <2>2, <2>3, Zenon
<1>5. Answered(messages) \subseteq Used(messages) /\ Used(messages) \subseteq used
      /\ Used(messages) \subseteq Answered(messages)
  BY <1>1, <1>2, AnsweredUsed DEF Continues, Open
<1> HIDE DEF new
<1>6. /\ Continues(a, used')
      /\ a \in Seq(Message) /\ Len(a) > prefill
      /\ Used(a) = Used(messages) \cup new /\ Answered(a) = Answered(messages)
      /\ Fits(a, new)
  BY <1>1, <1>2, <1>3, ResponseContinues
<1>7. Open(a) = new
  BY <1>3, <1>5, <1>6 DEF Open
<1> HIDE DEF a
<1>8. CASE n > 0 /\ messages' = a /\ calls' = new /\ phase' = "acting"
  <2>1. Continues(messages, used)'
    BY <1>1, <1>6, <1>8, ContinuesNext
  <2>2. Open(messages)' = calls' /\ Fits(messages, calls)' /\ Len(messages') > prefill'
    <3>1. Open(messages') = calls' /\ Fits(messages', calls') /\ Len(messages') > prefill'
      BY <1>1, <1>6, <1>7, <1>8
    <3> QED BY <3>1 DEF Open, Fits
  <2>3. Extends'
    BY <1>8, <2>1, <2>2 DEF Extends
  <2> QED BY <1>1, <1>2, <1>3, <2>3 DEF PlainThread
<1>9. ASSUME Conclude(reason), Continues(messages', used'), Open(messages') = {}
      PROVE  PlainThread'
  <2>1. Continues(messages, used)'
    BY <1>1, <1>9, ContinuesNext
  <2>2. phase' # "acting" /\ Open(messages)' = {}
    BY <1>9 DEF Conclude, Open
  <2>3. Extends'
    BY <2>1, <2>2 DEF Extends
  <2> QED BY <1>1, <1>2, <1>3, <2>3 DEF PlainThread
<1>10. CASE n = 0 /\ messages' = a /\ Conclude(reason)
  BY <1>3, <1>6, <1>7, <1>9, <1>10
<1>11. CASE n > 0 /\ messages' = AddResults(a, new) /\ Conclude(reason)
  <2>1. /\ Continues(messages', used')
        /\ Used(messages') = Used(a) /\ Answered(messages') = Answered(a) \cup new
    BY <1>1, <1>3, <1>6, <1>11, ResultsContinue
  <2>2. Open(messages') = {}
    BY <1>7, <2>1 DEF Open
  <2> QED BY <1>9, <1>11, <2>1, <2>2
<1> QED BY <1>4, <1>8, <1>10, <1>11

LEMMA PlainReturn ==
    ASSUME ConversationTypeOK, Paced, PlainThread, ~ auto, ToolReturns
    PROVE  PlainThread'
<1> DEFINE next == Min(calls)
<1>1. /\ thread \in Seq(Message) /\ messages \in Seq(Message) /\ prefill \in Nat
      /\ calls \in SUBSET Ids /\ calls # {} /\ phase = "acting"
      /\ messages' = AddResults(messages, {next}) /\ calls' = calls \ {next}
      /\ UNCHANGED <<auto, thread, prefill, used>>
  BY DEF ConversationTypeOK, ToolReturns, Paced
<1>2. next \in calls
  <2>1. calls \in SUBSET Nat
    BY <1>1 DEF Ids
  <2> QED BY <1>1, <2>1, MinIsLeast
<1> HIDE DEF next
<1>3. /\ Filed(thread) /\ Used(thread) \subseteq used
      /\ Continues(messages, used) /\ Open(messages) = calls
      /\ Len(messages) > prefill /\ Fits(messages, calls)
  BY <1>1 DEF PlainThread, Extends
<1>4. \A S : S \subseteq calls => Fits(messages, S)
  BY <1>3 DEF Fits
<1>5. {next} \in SUBSET Ids /\ Fits(messages, {next}) /\ Fits(messages, calls')
  BY <1>1, <1>2, <1>4
<1>6. /\ Continues(messages', used) /\ Len(messages') > prefill
      /\ Used(messages') = Used(messages)
      /\ Answered(messages') = Answered(messages) \cup {next}
      /\ Fits(messages', calls')
  BY <1>1, <1>3, <1>5, ResultsContinue
<1>7. Open(messages') = calls'
  BY <1>1, <1>3, <1>6 DEF Open
<1>8. Continues(messages, used)'
  BY <1>1, <1>6, ContinuesNext
<1>9. Open(messages)' = calls' /\ Fits(messages, calls)' /\ Len(messages') > prefill'
  BY <1>1, <1>6, <1>7 DEF Open, Fits
<1>10. phase' # "idle" /\ (phase' # "acting" => calls' = {})
  BY <1>1 DEF ToolReturns, Conclude
<1>11. Extends'
  BY <1>8, <1>9, <1>10 DEF Extends
<1> QED BY <1>1, <1>3, <1>11 DEF PlainThread

LEMMA PlainPersist ==
    ASSUME ConversationTypeOK, Opened(thread), Said, PlainThread, ~ auto, Persist
    PROVE  PlainThread'
<1>1. /\ thread \in Seq(Message) /\ messages \in Seq(Message)
      /\ phase # "idle" /\ phase' = "idle" /\ UNCHANGED <<auto, used>>
  BY DEF ConversationTypeOK, Persist, response
<1>2. /\ Filed(thread) /\ Used(thread) \subseteq used /\ Continues(messages, used)
  BY <1>1 DEF PlainThread, Extends
<1> DEFINE n    == Len(thread)
           at(i) == prefill + (i - n)
<1>3. /\ n \in Nat /\ Len(messages) \in Nat /\ prefill \in Nat
      /\ thread' \in Seq(Message) /\ Len(thread') >= n
      /\ \A i \in DOMAIN thread : i \in DOMAIN thread' /\ thread'[i] = thread[i]
      /\ \A i \in DOMAIN thread' :
            i \notin DOMAIN thread =>
               /\ i > n /\ at(i) \in DOMAIN messages /\ thread'[i] = messages[at(i)]
  BY Persisted
<1>4. DOMAIN thread = 1 .. n /\ n > 0
  BY <1>1, <1>2, <1>3 DEF Continues
<1>5. \A i \in DOMAIN thread' : i \in Nat
  BY <1>3
<1>6. \A i \in DOMAIN thread' : i \notin DOMAIN thread => at(i) > prefill
  BY <1>3, <1>5
<1>7. Opened(thread')
  <2>1. 1 \in DOMAIN thread /\ thread # <<>>
    BY <1>3, <1>4
  <2>2. thread'[1] = thread[1]
    BY <1>3, <2>1
  <2> QED BY <2>1, <2>2 DEF Opened
<1>8. ASSUME NEW i \in DOMAIN thread', thread'[i].results # {}
      PROVE  i > 1 /\ thread'[i].results \subseteq thread'[i - 1].uses
  <2>1. CASE i \in DOMAIN thread
    <3>1. thread'[i] = thread[i]
      BY <1>3, <2>1
    <3>2. i > 1 /\ thread[i].results \subseteq thread[i - 1].uses
      BY <1>2, <1>8, <2>1, <3>1 DEF Filed
    <3>3. i - 1 \in DOMAIN thread
      BY <1>4, <2>1, <3>2
    <3> QED BY <1>3, <3>1, <3>2, <3>3
  <2>2. CASE i \notin DOMAIN thread
    <3>1. i > n /\ at(i) \in DOMAIN messages /\ thread'[i] = messages[at(i)] /\ i \in Nat
      BY <1>3, <1>5, <2>2
    <3>2. messages[at(i)].results \subseteq messages[at(i) - 1].uses /\ messages[at(i)].results # {}
      BY <1>2, <1>8, <3>1 DEF Continues, Filed
    <3>3. i # n + 1
      <4>1. CASE i = n + 1
        <5>1. at(i) = prefill + 1
          BY <1>3, <4>1
        <5>2. prefill < Len(messages)
          BY <1>3, <3>1, <5>1
        <5>3. messages[prefill + 1].results = {}
          BY <1>2, <5>2 DEF Continues
        <5> QED BY <3>2, <5>1, <5>3
      <4> QED BY <4>1
    <3>4. i - 1 > n /\ at(i - 1) = at(i) - 1 /\ i - 1 \in DOMAIN thread'
      <4>1. i - 1 > n /\ i - 1 \in Nat
        BY <1>3, <3>1, <3>3
      <4>2. at(i - 1) = at(i) - 1
        BY <1>3, <3>1
      <4>3. DOMAIN thread' = 1 .. Len(thread') /\ Len(thread') \in Nat
        BY <1>3
      <4>4. i - 1 \in DOMAIN thread'
        BY <1>3, <3>1, <4>1, <4>3
      <4> QED BY <4>1, <4>2, <4>4
    <3>5. i - 1 \notin DOMAIN thread
      BY <1>3, <1>4, <3>1, <3>4
    <3>6. thread'[i - 1] = messages[at(i) - 1]
      BY <1>3, <3>4, <3>5
    <3>7. i > 1
      BY <1>3, <1>4, <3>1
    <3> QED BY <3>1, <3>2, <3>6, <3>7
  <2> QED BY <2>1, <2>2
<1>9. ASSUME NEW i \in DOMAIN thread', NEW j \in DOMAIN thread', i # j
      PROVE  thread'[i].uses \cap thread'[j].uses = {}
  <2>1. ASSUME NEW k \in DOMAIN thread', NEW l \in DOMAIN thread',
               k \notin DOMAIN thread, l \in DOMAIN thread
        PROVE  thread'[k].uses \cap thread'[l].uses = {}
    BY <1>2, <1>3, <1>6, <2>1 DEF Continues
  <2>2. CASE i \in DOMAIN thread /\ j \in DOMAIN thread
    BY <1>2, <1>3, <1>9, <2>2 DEF Filed
  <2>3. CASE i \notin DOMAIN thread /\ j \notin DOMAIN thread
    <3>1. at(i) # at(j)
      BY <1>3, <1>5, <1>9
    <3>2. /\ at(i) \in DOMAIN messages /\ thread'[i] = messages[at(i)]
          /\ at(j) \in DOMAIN messages /\ thread'[j] = messages[at(j)]
      BY <1>3, <2>3
    <3> QED BY <1>2, <3>1, <3>2 DEF Continues, Filed
  <2> QED BY <2>1, <2>2, <2>3
<1>10. Used(thread') \subseteq used
  <2> SUFFICES ASSUME NEW u \in Used(thread') PROVE u \in used
    OBVIOUS
  <2>1. PICK i \in DOMAIN thread' : u \in thread'[i].uses
    BY <1>3, UsedOf
  <2>2. CASE i \in DOMAIN thread
    BY <1>1, <1>2, <1>3, <2>1, <2>2, UsedOf
  <2>3. CASE i \notin DOMAIN thread
    <3>1. at(i) \in DOMAIN messages /\ u \in messages[at(i)].uses
      BY <1>3, <2>1, <2>3
    <3>2. u \in Used(messages)
      BY <1>1, <3>1, UsedOf
    <3> QED BY <1>2, <3>2 DEF Continues
  <2> QED BY <2>2, <2>3
<1>11. Filed(thread')
  BY <1>7, <1>8, <1>9 DEF Filed
<1> QED BY <1>1, <1>10, <1>11 DEF PlainThread

LEMMA PlainStep ==
    ASSUME ConversationTypeOK, Counted, Paced, Opened(thread), Said, PlainThread,
           [ConversationNext]_conversationVars
    PROVE  PlainThread'
<1>0. auto' = auto
  BY DEF ConversationNext, Work, Begin, Respond, ToolReturns, CompactContext, StepFinished,
     NextStep, Persist, Abort, Discard, CompactThread, conversationVars, context
<1>1. CASE auto
  BY <1>0, <1>1 DEF PlainThread
<1>2. CASE ~ auto
  <2>1. CASE Begin
    BY <1>2, <2>1, PlainBegin
  <2>2. ASSUME NEW reason \in StopReasons, NEW n \in 0 .. MaxCalls, Respond(reason, n)
        PROVE  PlainThread'
    BY <1>2, <2>2, PlainRespond
  <2>3. CASE ToolReturns
    BY <1>2, <2>3, PlainReturn
  <2>4. CASE CompactContext
    BY <1>2, <2>4 DEF CompactContext, Paced
  <2>5. CASE Persist
    BY <1>2, <2>5, PlainPersist
  <2>6. CASE CompactThread
    <3>1. /\ thread' = <<Summary, Ack>> /\ phase' = "idle"
      BY <2>6 DEF CompactThread
    <3>2. Filed(thread') /\ Used(thread') = {}
      BY <3>1, PairOf DEF Filed, Opened, Used
    <3> QED BY <3>1, <3>2 DEF PlainThread
  <2>7. CASE StepFinished \/ Abort \/ Discard \/ UNCHANGED conversationVars
    <3>1. /\ UNCHANGED <<thread, messages, prefill, used>>
          /\ phase' # "idle" => phase # "idle"
      BY <2>7 DEF StepFinished, NextStep, Abort, Discard, conversationVars, context, response
    <3>2. \/ phase' \in {"idle", "finishing"}
          \/ phase' = "asking" /\ phase = "stepping"
          \/ UNCHANGED <<phase, calls>>
      BY <2>7 DEF StepFinished, NextStep, Abort, Discard, conversationVars, response
    <3>3. Filed(thread)' /\ Used(thread)' \subseteq used'
      BY <1>2, <3>1 DEF PlainThread, Filed, Opened, Used
    <3>4. ASSUME phase' # "idle"
          PROVE  Extends'
      <4>1. Extends
        BY <1>2, <3>1, <3>4 DEF PlainThread
      <4>2. Continues(messages, used)'
        <5>1. Continues(messages', used')
          BY <3>1, <4>1 DEF Extends
        <5> QED BY <3>1, <5>1, ContinuesNext
      <4>3. Open(messages') = Open(messages)
        BY <3>1
      <4>4. phase' \in {"asking", "stepping"} => Open(messages)' = {}
        BY <3>2, <4>1, <4>3 DEF Extends, Open
      <4>5. phase' = "acting" =>
                /\ Open(messages)' = calls'
                /\ Len(messages') > prefill' /\ Fits(messages, calls)'
        BY <3>1, <3>2, <4>1, <4>3 DEF Extends, Open, Fits
      <4> QED BY <4>2, <4>4, <4>5 DEF Extends
    <3> QED BY <3>3, <3>4 DEF PlainThread
  <2> QED
    BY <2>1, <2>2, <2>3, <2>4, <2>5, <2>6, <2>7, Zenon DEF ConversationNext, Work
<1> QED BY <1>1, <1>2

-----------------------------------------------------------------------------
(* The theorems                                                            *)

LEMMA TypeStep ==
    ASSUME ConversationTypeOK, Counted, Paced, Opened(thread), Said,
           [ConversationNext]_conversationVars
    PROVE  ConversationTypeOK'
<1>1. calls' \in SUBSET Ids /\ messages' \in Seq(Message)
  BY Grown
<1>2. thread' \in Seq(Message)
  BY OpenedStep
<1>3. phase' \in Phases /\ step' \in 0 .. MaxSteps /\ status' \in {"running", "success", "failed"}
  BY PacedStep
<1>4. sent' \in 0 .. MaxMessages
  BY StepsGrow
<1>5. used' \subseteq Ids
  <2>1. ASSUME NEW reason \in StopReasons, NEW n \in 0 .. MaxCalls, Respond(reason, n)
        PROVE  used' \subseteq Ids
    BY <2>1, NewIds DEF ConversationTypeOK
  <2>2. \/ used' = used
        \/ \E reason \in StopReasons, n \in 0 .. MaxCalls : Respond(reason, n)
    BY DEF ConversationNext, Work, Begin, ToolReturns, CompactContext, StepFinished, NextStep,
       Persist, Abort, Discard, CompactThread, conversationVars, context, response
  <2> QED BY <2>1, <2>2 DEF ConversationTypeOK
<1>6. prefill' \in Nat
  <2>1. CASE Begin
    <3>1. PICK n \in 1 .. Len(thread') : prefill' = n
      BY <2>1, BeginEffect
    <3> QED BY <3>1
  <2>2. CASE ~ Begin
    BY <2>2 DEF ConversationTypeOK, ConversationNext, Work, Respond, ToolReturns,
       CompactContext, StepFinished, NextStep, Persist, Abort, Discard, CompactThread,
       conversationVars, context
  <2> QED BY <2>1, <2>2
<1>7. auto' \in AutoModes /\ stop' \in StopReasons \cup {"none"}
  BY DEF ConversationTypeOK, ConversationNext, Work, Begin, Respond, ToolReturns,
     CompactContext, StepFinished, NextStep, Persist, Abort, Discard, CompactThread,
     conversationVars, context, response
<1>8. phase' # "acting" => calls' = {}
  BY DEF ConversationTypeOK, ConversationNext, Work, Begin, Respond, Conclude, ToolReturns,
     CompactContext, StepFinished, NextStep, Persist, Abort, Discard, CompactThread,
     conversationVars, context, response
<1> QED BY <1>1, <1>2, <1>3, <1>4, <1>5, <1>6, <1>7, <1>8 DEF ConversationTypeOK

LEMMA InitInv == ConversationInit => ConvInv
<1> SUFFICES ASSUME ConversationInit PROVE ConvInv
  OBVIOUS
<1> USE ConversationAssumption
<1>1. ConversationTypeOK
  BY DEF ConversationInit, ConversationTypeOK, Phases
<1>2. Counted
  <2>1. StepsMade = 0 * MaxSteps /\ MaxSteps \in Nat /\ MaxCalls \in Nat
    BY DEF ConversationInit, StepsMade
  <2>2. StepsMade = 0
    BY <2>1
  <2>3. used = 1 .. 0 /\ 0 <= StepsMade * MaxCalls
    BY <2>1, <2>2 DEF ConversationInit
  <2> QED BY <2>3 DEF Counted
<1>3. Paced /\ Opened(thread) /\ AsksLatest
  BY DEF ConversationInit, Paced, Opened, AsksLatest
<1>4. Said
  BY DEF ConversationInit, Said, SaidInOrder
<1>5. PlainThread
  BY DEF ConversationInit, PlainThread, Filed, Opened, Used
<1> QED BY <1>1, <1>2, <1>3, <1>4, <1>5 DEF ConvInv

\* All of the above holds of every reachable state.
THEOREM ConvInvCorrect == ConversationSpec => []ConvInv
<1>1. ConvInv /\ [ConversationNext]_conversationVars => ConvInv'
  BY TypeStep, CountedStep, PacedStep, OpenedStep, SaidStep, AskingStep, PlainStep DEF ConvInv
<1> QED BY InitInv, <1>1, PTL DEF ConversationSpec

\* Thread, context and ids are always of their types; ids never run out.
THEOREM ConversationTypeCorrect == ConversationSpec => []ConversationTypeOK
<1>1. ConvInv => ConversationTypeOK
  BY DEF ConvInv
<1> QED BY ConvInvCorrect, <1>1, PTL

\* Without automatic compaction the API accepts every request, however many
\* runs of the session were interrupted, wherever (AgentLoop.run, read_messages).
THEOREM PlainRequestValidCorrect == ConversationSpec => []PlainRequestValid
<1>1. ConvInv => PlainRequestValid
  <2> SUFFICES ASSUME ConvInv, ~ auto, phase = "asking" PROVE Acceptable(messages)
    BY DEF PlainRequestValid, RequestValid
  <2>1. messages \in Seq(Message) /\ Continues(messages, used) /\ Open(messages) = {}
    BY DEF ConvInv, ConversationTypeOK, PlainThread, Extends
  <2>2. Filed(messages) /\ Balanced(messages)
    BY <2>1 DEF Continues, Open, Balanced
  <2>3. messages # <<>>
    BY <2>1 DEF Continues
  <2> QED BY <2>1, <2>2, <2>3, BalancedAcceptable
<1> QED BY ConvInvCorrect, <1>1, PTL

\* The first request of a run ends with what the user asked
\* (AgentRunner.run_and_capture).
THEOREM AsksLatestCorrect == ConversationSpec => []AsksLatest
<1>1. ConvInv => AsksLatest
  BY DEF ConvInv
<1> QED BY ConvInvCorrect, <1>1, PTL

\* run.finished reports a success exactly if the LLM ended its turn
\* (AgentLoop.run).
THEOREM OutcomeHonestCorrect == ConversationSpec => []OutcomeHonest
<1>1. ConvInv => OutcomeHonest
  BY DEF ConvInv, Paced, OutcomeHonest
<1> QED BY ConvInvCorrect, <1>1, PTL

\* The thread repeats and reorders nothing that the user said (append_message).
THEOREM SaidInOrderCorrect == ConversationSpec => []SaidInOrder
<1>1. ConvInv => SaidInOrder
  BY DEF ConvInv, Said
<1> QED BY ConvInvCorrect, <1>1, PTL
=============================================================================
