--------------------------- MODULE SubagentProofs ---------------------------
(***************************************************************************)
(* Proofs about sub-agents, for any number of runs, children and retries,  *)
(* and about the task board their tools work on, for boards of every size. *)
(***************************************************************************)
EXTENDS Subagent, TaskBoard, TLAPS

-----------------------------------------------------------------------------
(* The invariant                                                           *)

\* The tree is at most two levels deep: only a run's child may delegate.
Family ==
    \A c \in Children :
        /\ parent[c] = NoAgent => pc[c] = "off"
        /\ parent[c] \in Children => delegates[parent[c]]
        /\ delegates[c] => parent[c] \in Runs

\* An agent in its spawn_agent call knows the child the call is about, and the
\* child is its own.
Charged ==
    \A a \in Agents :
        /\ charge[a] # NoAgent => charge[a] \in Children /\ parent[charge[a]] = a
        /\ pc[a] \in Waiting \cup {"backoff"} => charge[a] # NoAgent

\* Where the child of a call is while its parent is at each await of the call.
Stages ==
    \A a \in Agents :
        /\ pc[a] \in {"off", "asking", "raised", "backoff"} \cup Waiting =>
              status[a] = "running"
        /\ pc[a] = "concluding" => a \in Children /\ background[a]
        /\ pc[a] = "spawning" => pc[charge[a]] = "off"
        /\ pc[a] = "announcing" => pc[charge[a]] = "done" /\ ~background[charge[a]]
        /\ pc[a] = "backoff" =>
              /\ pc[charge[a]] \in {"off", "done", "raised"}
              /\ status[charge[a]] # "success" /\ attempt[a] <= MaxRetries

\* A child whose failure was retried is no call's any more.
Superseded ==
    \A c \in Children : prior[c] # NoAgent =>
        /\ prior[c] \in Children /\ parent[prior[c]] # NoAgent
        /\ charge[parent[prior[c]]] # prior[c]

\* What agent_result said of a child that is over, and what it may say.
Over ==
    \A c \in Children :
        /\ background[c] /\ pc[c] = "done" => c \in finished
        /\ told[c] = "result" => pc[c] = "done"
        /\ told[c] = "error" => pc[c] \in {"raised", "cancelled"}

AgentsInv ==
    /\ AgentsTypeOK /\ Family /\ Charged /\ Stages /\ Superseded /\ Over
    /\ ForegroundNested /\ RetriesFailuresOnly

LEMMA AgentsInit_Inv == AgentsInit => AgentsInv
  BY SubagentAssumption
  DEF AgentsInit, AgentsInv, AgentsTypeOK, Family, Charged, Stages, Superseded, Over,
      ForegroundNested, RetriesFailuresOnly, Agents, Statuses, Answers, Active, Waiting,
      Ended

LEMMA NewChildIsUnborn ==
  ASSUME Unborn # {}
  PROVE  NewChild \in Children /\ parent[NewChild] = NoAgent
  BY DEF NewChild, Unborn

\* A child that is not born is nobody's parent.
LEMMA UnbornChildless ==
  ASSUME AgentsInv, NEW c \in Children, parent[c] = NoAgent
  PROVE  c # NoAgent /\ ~delegates[c] /\ \A d \in Children : parent[d] # c
  BY SubagentAssumption DEF AgentsInv, AgentsTypeOK, Family, Agents

LEMMA StartRunInv ==
  ASSUME AgentsInv, NEW r \in Runs, StartRun(r)
  PROVE  AgentsInv'
<1>1. pc[r] = "off"
  <2>1. r = NextRun
    BY DEF StartRun
  <2>2. CASE \E s \in Runs : pc[s] = "off"
    <3>1. \E t \in Runs \cup {NoAgent} : t \in Runs /\ pc[t] = "off"
      BY <2>2
    <3>2. NextRun \in Runs /\ pc[NextRun] = "off"
      BY <2>2, <3>1 DEF NextRun
    <3> QED
      BY <2>1, <3>2
  <2>3. CASE ~\E s \in Runs : pc[s] = "off"
    <3>1. NextRun = NoAgent
      BY <2>3 DEF NextRun
    <3> QED
      BY <2>1, <3>1, SubagentAssumption DEF Agents
  <2> QED
    BY <2>2, <2>3
<1>2. /\ pc' = [pc EXCEPT ![r] = "asking"]
      /\ UNCHANGED <<status, parent, background, delegates, prior, charge, attempt,
                     registry, finished, told, up>>
  BY DEF StartRun, family, call
<1>3. r \notin Children /\ r \in Agents
  BY SubagentAssumption DEF Agents
<1>4. AgentsTypeOK'
  BY <1>2 DEF AgentsInv, AgentsTypeOK, Active
<1>5. Family' /\ Charged' /\ Superseded' /\ Over'
  BY <1>1, <1>2, <1>3 DEF AgentsInv, AgentsTypeOK, Family, Charged, Superseded, Over, Waiting
<1>6. Stages'
  BY <1>1, <1>2, <1>3 DEF AgentsInv, AgentsTypeOK, Charged, Stages, Waiting
<1>7. ForegroundNested' /\ RetriesFailuresOnly'
  BY <1>1, <1>2, <1>3
  DEF AgentsInv, AgentsTypeOK, Charged, Superseded, ForegroundNested, RetriesFailuresOnly,
      Active, Waiting
<1> QED
  BY <1>4, <1>5, <1>6, <1>7 DEF AgentsInv

LEMMA SpawnAgentInv ==
  ASSUME AgentsInv, NEW a \in Agents, NEW bg \in BOOLEAN, NEW may \in BOOLEAN,
         SpawnAgent(a, bg, may)
  PROVE  AgentsInv'
<1>1. PICK c \in Children : c = NewChild /\ parent[c] = NoAgent
  BY NewChildIsUnborn DEF SpawnAgent
<1>2. /\ pc[a] = "asking" /\ MayDelegate(a) /\ (may => a \in Runs)
      /\ parent' = [parent EXCEPT ![c] = a]
      /\ background' = [background EXCEPT ![c] = bg]
      /\ delegates' = [delegates EXCEPT ![c] = may]
      /\ charge' = [charge EXCEPT ![a] = c]
      /\ attempt' = [attempt EXCEPT ![a] = 1]
      /\ pc' = [pc EXCEPT ![a] = "spawning"]
      /\ UNCHANGED <<prior, status, registry, finished, told, up>>
  BY <1>1 DEF SpawnAgent, Spawn
<1>3. a # NoAgent /\ pc[c] = "off" /\ c # a /\ (a \in Runs => a \notin Children)
      /\ (a \in Children => delegates[a])
  BY <1>1, <1>2, SubagentAssumption DEF AgentsInv, Family, Agents, MayDelegate
<1>4. \A b \in Agents : charge[b] # c
  BY <1>1, <1>3, SubagentAssumption DEF AgentsInv, Charged, Agents
<1>5. AgentsTypeOK'
  BY <1>2, SubagentAssumption DEF AgentsInv, AgentsTypeOK, Active, Waiting
<1>6. Family'
  BY <1>1, <1>2, <1>3, UnbornChildless DEF AgentsInv, AgentsTypeOK, Family, Agents
<1>7. Charged'
  BY <1>1, <1>2, <1>3, <1>4, UnbornChildless DEF AgentsInv, AgentsTypeOK, Charged, Waiting, Agents
<1>8. Stages'
  BY <1>1, <1>2, <1>3, <1>4 DEF AgentsInv, AgentsTypeOK, Charged, Stages, Waiting, Agents
<1>9. Superseded'
  BY <1>1, <1>2, <1>3, <1>4 DEF AgentsInv, AgentsTypeOK, Superseded, Agents
<1>10. Over'
  BY <1>1, <1>2, <1>3 DEF AgentsInv, AgentsTypeOK, Over, Agents
<1>11. ForegroundNested'
  BY <1>1, <1>2, <1>3, <1>4
  DEF AgentsInv, AgentsTypeOK, Charged, ForegroundNested, Active, Waiting, Agents
<1>12. RetriesFailuresOnly'
  BY <1>1, <1>2, <1>3 DEF AgentsInv, AgentsTypeOK, Superseded, RetriesFailuresOnly, Agents
<1> QED
  BY <1>5, <1>6, <1>7, <1>8, <1>9, <1>10, <1>11, <1>12 DEF AgentsInv

LEMMA RespawnInv ==
  ASSUME AgentsInv, NEW a \in Agents, Respawn(a)
  PROVE  AgentsInv'
<1>1. PICK c \in Children : c = NewChild /\ parent[c] = NoAgent
  BY NewChildIsUnborn DEF Respawn
<1>2. PICK p \in Children : p = charge[a] /\ parent[p] = a
  BY DEF Respawn, AgentsInv, Charged
<1>3. /\ pc[a] = "backoff"
      /\ parent' = [parent EXCEPT ![c] = a]
      /\ background' = [background EXCEPT ![c] = background[p]]
      /\ delegates' = [delegates EXCEPT ![c] = delegates[p]]
      /\ charge' = [charge EXCEPT ![a] = c]
      /\ attempt' = [attempt EXCEPT ![a] = @ + 1]
      /\ prior' = [prior EXCEPT ![c] = p]
      /\ pc' = [pc EXCEPT ![a] = "spawning"]
      /\ UNCHANGED <<status, registry, finished, told, up>>
  BY <1>1, <1>2 DEF Respawn, Spawn
<1>4. a # NoAgent /\ pc[c] = "off" /\ c # a /\ c # p /\ (a \in Runs => a \notin Children)
      /\ (a \in Children => delegates[a]) /\ (delegates[p] => a \in Runs)
      /\ pc[p] \in {"off", "done", "raised"} /\ status[p] # "success" /\ p # a
  BY <1>1, <1>2, <1>3, SubagentAssumption DEF AgentsInv, Family, Stages, Agents
<1>5. \A b \in Agents : charge[b] # c
  BY <1>1, <1>4, SubagentAssumption DEF AgentsInv, Charged, Agents
<1>6. AgentsTypeOK'
  BY <1>3, SubagentAssumption DEF AgentsInv, AgentsTypeOK, Stages, Active, Waiting
<1>7. Family'
  BY <1>1, <1>3, <1>4, UnbornChildless DEF AgentsInv, AgentsTypeOK, Family, Agents
<1>8. Charged'
  BY <1>1, <1>3, <1>4, <1>5, UnbornChildless DEF AgentsInv, AgentsTypeOK, Charged, Waiting, Agents
<1>9. Stages'
  BY <1>1, <1>3, <1>4, <1>5 DEF AgentsInv, AgentsTypeOK, Charged, Stages, Waiting, Agents
<1>10. Superseded'
  BY <1>1, <1>2, <1>3, <1>4, <1>5 DEF AgentsInv, AgentsTypeOK, Superseded, Agents
<1>11. Over'
  BY <1>1, <1>3, <1>4 DEF AgentsInv, AgentsTypeOK, Over, Agents
<1>12. ForegroundNested'
  BY <1>1, <1>3, <1>4, <1>5
  DEF AgentsInv, AgentsTypeOK, Charged, ForegroundNested, Active, Waiting, Agents
<1>13. RetriesFailuresOnly'
  BY <1>1, <1>2, <1>3, <1>4
  DEF AgentsInv, AgentsTypeOK, Superseded, RetriesFailuresOnly, Agents
<1> QED
  BY <1>6, <1>7, <1>8, <1>9, <1>10, <1>11, <1>12, <1>13 DEF AgentsInv

LEMMA StartedInv ==
  ASSUME AgentsInv, NEW a \in Agents, Started(a)
  PROVE  AgentsInv'
<1>1. PICK c \in Children : c = charge[a] /\ parent[c] = a
  BY DEF Started, AgentsInv, Charged, Waiting
<1>2. /\ pc[a] = "spawning" /\ pc[c] = "off" /\ c # a /\ status[a] = "running"
      /\ status[c] = "running" /\ a # NoAgent
      /\ UNCHANGED <<status, parent, background, delegates, prior, finished, told, up>>
  BY <1>1, SubagentAssumption DEF Started, family, AgentsInv, Stages, Agents, Waiting
<1>3. \A b \in Agents \ {a} : charge[b] # c
  BY <1>1, SubagentAssumption DEF AgentsInv, Charged, Agents
<1>4. \A d \in Children : prior[d] # c
  BY <1>1, <1>2, SubagentAssumption DEF AgentsInv, Superseded, Agents
<1>5. CASE background[c]
  <2>1. /\ pc' = [pc EXCEPT ![a] = "asking", ![c] = "asking"]
        /\ registry' = [registry EXCEPT ![Root(a)] = @ \cup {c}]
        /\ charge' = [charge EXCEPT ![a] = NoAgent]
        /\ attempt' = [attempt EXCEPT ![a] = 0]
    BY <1>1, <1>5 DEF Started, Return
  <2>2. AgentsTypeOK'
    <3>1. registry' \in [Runs -> SUBSET Children]
      <4>1. CASE Root(a) \in Runs
        BY <2>1, <4>1 DEF AgentsInv, AgentsTypeOK
      <4>2. CASE Root(a) \notin Runs
        BY <2>1, <4>2 DEF AgentsInv, AgentsTypeOK
      <4> QED
        BY <4>1, <4>2
    <3>2. pc' \in [Agents -> {"off"} \cup Active \cup Ended]
      BY <1>2, <2>1 DEF AgentsInv, AgentsTypeOK, Active
    <3>3. charge' \in [Agents -> Children \cup {NoAgent}]
      BY <2>1 DEF AgentsInv, AgentsTypeOK
    <3>4. attempt' \in [Agents -> 0 .. MaxRetries + 1]
      BY <2>1, SubagentAssumption DEF AgentsInv, AgentsTypeOK
    <3> QED
      BY <1>2, <3>1, <3>2, <3>3, <3>4 DEF AgentsInv, AgentsTypeOK
  <2>3. Family' /\ Charged'
    BY <1>1, <1>2, <2>1 DEF AgentsInv, AgentsTypeOK, Family, Charged, Waiting, Agents
  <2>4. Stages'
    BY <1>1, <1>2, <1>3, <2>1
    DEF AgentsInv, AgentsTypeOK, Charged, Stages, Waiting, Agents
  <2>5. Superseded' /\ Over'
    BY <1>1, <1>2, <2>1, SubagentAssumption
    DEF AgentsInv, AgentsTypeOK, Superseded, Over, Agents
  <2>6. ForegroundNested'
    <3>1. ASSUME NEW d \in Children, pc'[d] \in Active, ~background[d]
          PROVE  pc'[parent[d]] = "delegating" /\ charge'[parent[d]] = d
      <4>1. CASE d = c
        BY <1>1, <1>2, <1>5, <2>1, <3>1, <4>1 DEF AgentsInv, AgentsTypeOK
      <4>2. CASE d # c
        <5>1. pc[d] \in Active
          BY <1>2, <2>1, <3>1, <4>2 DEF AgentsInv, AgentsTypeOK, Active, Waiting, Agents
        <5>2. pc[parent[d]] = "delegating" /\ charge[parent[d]] = d
          BY <3>1, <5>1 DEF AgentsInv, ForegroundNested
        <5>3. parent[d] \in Agents /\ parent[d] # a /\ parent[d] # c
          BY <1>2, <5>1, <5>2 DEF AgentsInv, AgentsTypeOK, Family, Active, Waiting
        <5> QED
          BY <2>1, <5>2, <5>3 DEF AgentsInv, AgentsTypeOK
      <4> QED
        BY <4>1, <4>2
    <3>2. ASSUME NEW b \in Agents, pc'[b] = "delegating"
          PROVE  pc'[charge'[b]] \in Active /\ ~background[charge'[b]]
      <4>1. CASE b = a
        BY <1>1, <1>2, <1>5, <2>1, <3>2, <4>1 DEF AgentsInv, AgentsTypeOK, Active, Agents
      <4>2. CASE b # a
        <5>1. pc[b] = "delegating" /\ charge'[b] = charge[b] /\ charge[b] # c
          BY <1>3, <2>1, <3>2, <4>2 DEF AgentsInv, AgentsTypeOK
        <5>2. pc[charge[b]] \in Active /\ ~background[charge[b]]
          BY <5>1 DEF AgentsInv, ForegroundNested
        <5>3. charge[b] \in Agents
          BY <5>1 DEF AgentsInv, Charged, Waiting, Agents
        <5> QED
          BY <2>1, <5>1, <5>2, <5>3 DEF AgentsInv, AgentsTypeOK, Active, Waiting
      <4> QED
        BY <4>1, <4>2
    <3> QED
      BY <1>2, <3>1, <3>2 DEF ForegroundNested
  <2>7. RetriesFailuresOnly'
    BY <1>2, <1>4, <2>1 DEF AgentsInv, AgentsTypeOK, RetriesFailuresOnly, Superseded, Agents
  <2> QED
    BY <2>2, <2>3, <2>4, <2>5, <2>6, <2>7 DEF AgentsInv
<1>6. CASE ~background[c]
  <2>1. /\ pc' = [pc EXCEPT ![a] = "delegating", ![c] = "asking"]
        /\ UNCHANGED <<charge, attempt, registry>>
    BY <1>1, <1>6 DEF Started, call
  <2>2. AgentsTypeOK'
    BY <1>2, <2>1 DEF AgentsInv, AgentsTypeOK, Active, Waiting
  <2>3. Family' /\ Charged'
    BY <1>1, <1>2, <2>1 DEF AgentsInv, AgentsTypeOK, Family, Charged, Waiting, Agents
  <2>4. Stages'
    BY <1>1, <1>2, <1>3, <2>1
    DEF AgentsInv, AgentsTypeOK, Charged, Stages, Waiting, Agents
  <2>5. Superseded' /\ Over'
    BY <1>1, <1>2, <2>1 DEF AgentsInv, AgentsTypeOK, Superseded, Over, Agents
  <2>6. ForegroundNested'
    <3>1. ASSUME NEW d \in Children, pc'[d] \in Active, ~background[d]
          PROVE  pc'[parent[d]] = "delegating" /\ charge'[parent[d]] = d
      <4>1. CASE d = c
        BY <1>1, <1>2, <1>6, <2>1, <3>1, <4>1 DEF AgentsInv, AgentsTypeOK
      <4>2. CASE d # c
        <5>1. pc[d] \in Active
          BY <1>2, <2>1, <3>1, <4>2 DEF AgentsInv, AgentsTypeOK, Active, Waiting, Agents
        <5>2. pc[parent[d]] = "delegating" /\ charge[parent[d]] = d
          BY <3>1, <5>1 DEF AgentsInv, ForegroundNested
        <5>3. parent[d] \in Agents /\ parent[d] # a /\ parent[d] # c
          BY <1>2, <5>1, <5>2 DEF AgentsInv, AgentsTypeOK, Family, Active, Waiting
        <5> QED
          BY <2>1, <5>2, <5>3 DEF AgentsInv, AgentsTypeOK
      <4> QED
        BY <4>1, <4>2
    <3>2. ASSUME NEW b \in Agents, pc'[b] = "delegating"
          PROVE  pc'[charge'[b]] \in Active /\ ~background[charge'[b]]
      <4>1. CASE b = a
        BY <1>1, <1>2, <1>6, <2>1, <3>2, <4>1 DEF AgentsInv, AgentsTypeOK, Active, Agents
      <4>2. CASE b # a
        <5>1. pc[b] = "delegating" /\ charge'[b] = charge[b] /\ charge[b] # c
          BY <1>3, <2>1, <3>2, <4>2 DEF AgentsInv, AgentsTypeOK
        <5>2. pc[charge[b]] \in Active /\ ~background[charge[b]]
          BY <5>1 DEF AgentsInv, ForegroundNested
        <5>3. charge[b] \in Agents
          BY <5>1 DEF AgentsInv, Charged, Waiting, Agents
        <5> QED
          BY <2>1, <5>1, <5>2, <5>3 DEF AgentsInv, AgentsTypeOK, Active, Waiting
      <4> QED
        BY <4>1, <4>2
    <3> QED
      BY <1>2, <3>1, <3>2 DEF ForegroundNested
  <2>7. RetriesFailuresOnly'
    BY <1>2, <1>4, <2>1 DEF AgentsInv, AgentsTypeOK, RetriesFailuresOnly, Superseded, Agents
  <2> QED
    BY <2>2, <2>3, <2>4, <2>5, <2>6, <2>7 DEF AgentsInv
<1> QED
  BY <1>5, <1>6

\* What a call that fails leaves: it is tried again, or the LLM is told.
LEMMA FailedCall ==
  ASSUME AgentsInv, NEW a \in Agents, GiveUpOrRetry(a)
  PROVE  /\ Failed(a) = "backoff" =>
              attempt[a] <= MaxRetries /\ charge' = charge /\ attempt' = attempt
         /\ Failed(a) # "backoff" =>
              /\ Failed(a) = "asking"
              /\ charge' = [charge EXCEPT ![a] = NoAgent]
              /\ attempt' = [attempt EXCEPT ![a] = 0]
         /\ charge' \in [Agents -> Children \cup {NoAgent}]
         /\ attempt' \in [Agents -> 0 .. MaxRetries + 1]
         /\ \A b \in Agents : charge'[b] \in {charge[b], NoAgent}
         /\ \A b \in Agents \ {a} : charge'[b] = charge[b] /\ attempt'[b] = attempt[b]
<1>1. CASE MayRetry(a)
  BY <1>1 DEF Failed, GiveUpOrRetry, MayRetry, call, AgentsInv, AgentsTypeOK
<1>2. CASE ~MayRetry(a)
  BY <1>2, SubagentAssumption
  DEF Failed, GiveUpOrRetry, Return, AgentsInv, AgentsTypeOK
<1> QED
  BY <1>1, <1>2

LEMMA SpawnRaisesInv ==
  ASSUME AgentsInv, NEW a \in Agents, SpawnRaises(a)
  PROVE  AgentsInv'
<1>1. PICK c \in Children : c = charge[a] /\ parent[c] = a
  BY DEF SpawnRaises, AgentsInv, Charged, Waiting
<1>2. /\ pc[a] = "spawning" /\ pc[c] = "off" /\ c # a /\ status[a] = "running"
      /\ status[c] = "running" /\ a # NoAgent
      /\ pc' = [pc EXCEPT ![a] = Failed(a)] /\ GiveUpOrRetry(a)
      /\ UNCHANGED <<status, parent, background, delegates, prior, registry, finished, told,
                     up>>
  BY <1>1, SubagentAssumption DEF SpawnRaises, family, AgentsInv, Stages, Agents, Waiting
<1>3. Failed(a) \in {"backoff", "asking"}
  BY <1>2, FailedCall
<1>4. AgentsTypeOK'
  BY <1>2, <1>3, FailedCall DEF AgentsInv, AgentsTypeOK, Active
<1>5. Family' /\ Over'
  BY <1>2, <1>3 DEF AgentsInv, AgentsTypeOK, Family, Over, Agents
<1>6. Charged'
  BY <1>1, <1>2, <1>3, FailedCall DEF AgentsInv, AgentsTypeOK, Charged, Waiting
<1>7. Stages'
  BY <1>1, <1>2, <1>3, FailedCall
  DEF AgentsInv, AgentsTypeOK, Charged, Stages, Waiting, Agents
<1>8. Superseded'
  BY <1>2, FailedCall, SubagentAssumption DEF AgentsInv, AgentsTypeOK, Superseded, Agents
<1>9. ForegroundNested'
  BY <1>1, <1>2, <1>3, FailedCall
  DEF AgentsInv, AgentsTypeOK, Family, Charged, ForegroundNested, Active, Waiting, Agents
<1>10. RetriesFailuresOnly'
  BY <1>2, <1>3 DEF AgentsInv, AgentsTypeOK, RetriesFailuresOnly, Superseded, Agents
<1> QED
  BY <1>4, <1>5, <1>6, <1>7, <1>8, <1>9, <1>10 DEF AgentsInv

LEMMA RaisesInv ==
  ASSUME AgentsInv, NEW c \in Agents, Raises(c)
  PROVE  AgentsInv'
<1>1. /\ c \in Children /\ pc[c] = "asking" /\ status[c] = "running"
      /\ UNCHANGED <<status, parent, background, delegates, prior, registry, finished, told,
                     up>>
  BY DEF Raises, family, AgentsInv, Stages
<1>2. CASE background[c]
  <2>1. pc' = [pc EXCEPT ![c] = "raised"] /\ UNCHANGED <<charge, attempt>>
    BY <1>2 DEF Raises, call
  <2>2. AgentsTypeOK'
    BY <1>1, <2>1 DEF AgentsInv, AgentsTypeOK, Ended
  <2>3. Family' /\ Over' /\ Charged' /\ Superseded'
    BY <1>1, <2>1 DEF AgentsInv, AgentsTypeOK, Family, Over, Charged, Superseded, Agents, Waiting
  <2>4. Stages'
    BY <1>1, <2>1 DEF AgentsInv, AgentsTypeOK, Charged, Stages, Waiting, Agents
  <2>5. ForegroundNested'
    BY <1>1, <1>2, <2>1
    DEF AgentsInv, AgentsTypeOK, Family, Charged, ForegroundNested, Active, Waiting, Agents
  <2>6. RetriesFailuresOnly'
    BY <1>1, <2>1 DEF AgentsInv, AgentsTypeOK, RetriesFailuresOnly, Superseded, Agents
  <2> QED
    BY <2>2, <2>3, <2>4, <2>5, <2>6 DEF AgentsInv
<1>3. CASE ~background[c]
  <2>1. PICK p \in Agents : p = parent[c] /\ pc[p] = "delegating" /\ charge[p] = c
    BY <1>1, <1>3
    DEF AgentsInv, AgentsTypeOK, Family, ForegroundNested, Active
  <2>2. p # c /\ status[p] = "running"
        /\ pc' = [pc EXCEPT ![c] = "raised", ![p] = Failed(p)] /\ GiveUpOrRetry(p)
    BY <1>1, <1>3, <2>1 DEF Raises, AgentsInv, Stages, Waiting
  <2>3. Failed(p) \in {"backoff", "asking"}
    BY <2>2, FailedCall
  <2>4. AgentsTypeOK'
    BY <1>1, <2>2, <2>3, FailedCall DEF AgentsInv, AgentsTypeOK, Active, Ended
  <2>5. Family' /\ Over'
    BY <1>1, <2>1, <2>2, <2>3 DEF AgentsInv, AgentsTypeOK, Family, Over, Agents
  <2>6. Charged'
    BY <1>1, <2>1, <2>2, <2>3, FailedCall DEF AgentsInv, AgentsTypeOK, Charged, Waiting
  <2>7. Stages'
    BY <1>1, <2>1, <2>2, <2>3, FailedCall
    DEF AgentsInv, AgentsTypeOK, Charged, Stages, Waiting, Agents
  <2>8. Superseded'
    BY <1>1, <2>2, FailedCall, SubagentAssumption
    DEF AgentsInv, AgentsTypeOK, Superseded, Agents
  <2>9. ForegroundNested'
    <3>1. ASSUME NEW d \in Children, pc'[d] \in Active, ~background[d]
          PROVE  pc'[parent[d]] = "delegating" /\ charge'[parent[d]] = d
      <4>1. d # c /\ pc[d] \in Active
        BY <1>1, <2>1, <2>2, <2>3, <3>1
        DEF AgentsInv, AgentsTypeOK, Active, Waiting, Ended, Agents
      <4>2. pc[parent[d]] = "delegating" /\ charge[parent[d]] = d
        BY <3>1, <4>1 DEF AgentsInv, ForegroundNested
      <4>3. parent[d] \in Agents /\ parent[d] # p /\ parent[d] # c
        BY <1>1, <2>1, <4>1, <4>2 DEF AgentsInv, AgentsTypeOK, Family, Active, Waiting
      <4> QED
        BY <2>2, <4>2, <4>3, FailedCall DEF AgentsInv, AgentsTypeOK
    <3>2. ASSUME NEW b \in Agents, pc'[b] = "delegating"
          PROVE  pc'[charge'[b]] \in Active /\ ~background[charge'[b]]
      <4>1. b # p /\ b # c /\ pc[b] = "delegating"
        BY <1>1, <2>2, <2>3, <3>2 DEF AgentsInv, AgentsTypeOK
      <4>2. charge'[b] = charge[b] /\ pc[charge[b]] \in Active /\ ~background[charge[b]]
        BY <2>2, <4>1, FailedCall DEF AgentsInv, ForegroundNested
      <4>3. charge[b] \in Agents /\ charge[b] # c
        BY <1>1, <2>1, <4>1, SubagentAssumption DEF AgentsInv, Charged, Waiting, Agents
      <4> QED
        BY <2>2, <2>3, <4>2, <4>3 DEF AgentsInv, AgentsTypeOK, Active, Waiting
    <3> QED
      BY <1>1, <3>1, <3>2 DEF ForegroundNested
  <2>10. RetriesFailuresOnly'
    BY <1>1, <2>1, <2>2, <2>3
    DEF AgentsInv, AgentsTypeOK, RetriesFailuresOnly, Superseded, Agents
  <2> QED
    BY <2>4, <2>5, <2>6, <2>7, <2>8, <2>9, <2>10 DEF AgentsInv
<1> QED
  BY <1>2, <1>3

LEMMA AnnouncedInv ==
  ASSUME AgentsInv, NEW a \in Agents, Announced(a)
  PROVE  AgentsInv'
<1>1. PICK c \in Children : c = charge[a] /\ parent[c] = a
  BY DEF Announced, AgentsInv, Charged, Waiting
<1>2. /\ pc[a] = "announcing" /\ pc[c] = "done" /\ c # a /\ status[a] = "running"
      /\ a # NoAgent /\ finished' = finished \cup {c}
      /\ UNCHANGED <<status, parent, background, delegates, prior, registry, told, up>>
  BY <1>1, SubagentAssumption DEF Announced, family, AgentsInv, Stages, Agents, Waiting
<1>3. /\ \/ /\ pc' = [pc EXCEPT ![a] = "asking"]
            /\ charge' = [charge EXCEPT ![a] = NoAgent]
            /\ attempt' = [attempt EXCEPT ![a] = 0]
         \/ /\ pc' = [pc EXCEPT ![a] = "backoff"]
            /\ charge' = charge /\ attempt' = attempt
            /\ attempt[a] <= MaxRetries /\ status[c] # "success"
  <2>1. CASE status[c] = "success"
    BY <1>1, <2>1 DEF Announced, Return
  <2>2. CASE status[c] # "success"
    <3>1. pc' = [pc EXCEPT ![a] = Failed(a)] /\ GiveUpOrRetry(a)
      BY <1>1, <2>2 DEF Announced
    <3> QED
      BY <2>2, <3>1, FailedCall
  <2> QED
    BY <2>1, <2>2
<1>4. AgentsTypeOK'
  BY <1>2, <1>3, SubagentAssumption DEF AgentsInv, AgentsTypeOK, Active
<1>5. Family' /\ Over'
  BY <1>2, <1>3 DEF AgentsInv, AgentsTypeOK, Family, Over, Agents
<1>6. Charged'
  BY <1>1, <1>2, <1>3 DEF AgentsInv, AgentsTypeOK, Charged, Waiting
<1>7. Stages'
  BY <1>1, <1>2, <1>3 DEF AgentsInv, AgentsTypeOK, Charged, Stages, Waiting, Agents
<1>8. Superseded'
  BY <1>2, <1>3, SubagentAssumption DEF AgentsInv, AgentsTypeOK, Superseded, Agents
<1>9. ForegroundNested'
  BY <1>1, <1>2, <1>3
  DEF AgentsInv, AgentsTypeOK, Family, Charged, ForegroundNested, Active, Waiting, Agents
<1>10. RetriesFailuresOnly'
  BY <1>2, <1>3 DEF AgentsInv, AgentsTypeOK, RetriesFailuresOnly, Superseded, Agents
<1> QED
  BY <1>4, <1>5, <1>6, <1>7, <1>8, <1>9, <1>10 DEF AgentsInv

LEMMA ConcludedInv ==
  ASSUME AgentsInv, NEW c \in Agents, Concluded(c)
  PROVE  AgentsInv'
<1>1. /\ c \in Children /\ pc[c] = "concluding" /\ background[c]
      /\ pc' = [pc EXCEPT ![c] = "done"] /\ finished' = finished \cup {c}
      /\ UNCHANGED <<status, parent, background, delegates, prior, charge, attempt, registry,
                     told, up>>
  BY DEF Concluded, family, call, AgentsInv, Stages
<1>2. AgentsTypeOK'
  BY <1>1 DEF AgentsInv, AgentsTypeOK, Ended
<1>3. Family' /\ Over' /\ Charged' /\ Superseded'
  BY <1>1 DEF AgentsInv, AgentsTypeOK, Family, Over, Charged, Superseded, Agents, Waiting
<1>4. Stages'
  BY <1>1 DEF AgentsInv, AgentsTypeOK, Charged, Stages, Waiting, Agents
<1>5. ForegroundNested'
  BY <1>1
  DEF AgentsInv, AgentsTypeOK, Family, Charged, ForegroundNested, Active, Waiting, Agents
<1>6. RetriesFailuresOnly'
  BY <1>1 DEF AgentsInv, AgentsTypeOK, RetriesFailuresOnly, Superseded, Agents
<1> QED
  BY <1>2, <1>3, <1>4, <1>5, <1>6 DEF AgentsInv

LEMMA AgentResultInv ==
  ASSUME AgentsInv, NEW a \in Agents, NEW c \in Children, AgentResult(a, c)
  PROVE  AgentsInv'
<1>1. /\ pc[c] # "off" /\ told' = [told EXCEPT ![c] = Answer(a, c)]
      /\ UNCHANGED <<pc, status, parent, background, delegates, prior, charge, attempt,
                     registry, finished, up>>
  BY DEF AgentResult, family, call
<1>2. /\ Answer(a, c) \in Answers
      /\ Answer(a, c) = "result" => pc[c] = "done"
      /\ Answer(a, c) = "error" => pc[c] \in {"raised", "cancelled"}
  BY <1>1 DEF Answer, Answers, AgentsInv, AgentsTypeOK, Agents, Active, Waiting, Ended
<1>3. AgentsTypeOK'
  BY <1>1, <1>2 DEF AgentsInv, AgentsTypeOK
<1>4. Over'
  BY <1>1, <1>2 DEF AgentsInv, AgentsTypeOK, Over
<1> QED
  BY <1>1, <1>3, <1>4
  DEF AgentsInv, Family, Charged, Stages, Superseded, ForegroundNested, RetriesFailuresOnly

LEMMA TeardownInv ==
  ASSUME AgentsInv, Teardown
  PROVE  AgentsInv'
<1>1. /\ pc' = [a \in Agents |-> IF pc[a] \in Active THEN "cancelled" ELSE pc[a]]
      /\ up' = FALSE
      /\ UNCHANGED <<status, parent, background, delegates, prior, charge, attempt, registry,
                     finished, told>>
  BY DEF Teardown, family, call
<1>2. \A a \in Agents : pc'[a] \in {"off"} \cup Ended /\ (pc'[a] # "cancelled" => pc'[a] = pc[a])
                        /\ (pc[a] \notin Active => pc'[a] = pc[a])
  BY <1>1 DEF AgentsInv, AgentsTypeOK, Ended
<1>3. AgentsTypeOK'
  BY <1>1, <1>2 DEF AgentsInv, AgentsTypeOK
<1>4. Family' /\ Charged' /\ Superseded'
  BY <1>1, <1>2
  DEF AgentsInv, AgentsTypeOK, Family, Charged, Superseded, Agents, Waiting, Active, Ended
<1>5. Over'
  BY <1>1, <1>2 DEF AgentsInv, AgentsTypeOK, Over, Agents, Waiting, Active
<1>6. Stages'
  BY <1>1, <1>2 DEF AgentsInv, AgentsTypeOK, Stages, Waiting, Ended
<1>7. ForegroundNested'
  BY <1>1, <1>2 DEF ForegroundNested, Agents, Active, Waiting, Ended
<1>8. RetriesFailuresOnly'
  BY <1>1, <1>2
  DEF AgentsInv, AgentsTypeOK, RetriesFailuresOnly, Superseded, Agents, Active, Waiting
<1> QED
  BY <1>3, <1>4, <1>5, <1>6, <1>7, <1>8 DEF AgentsInv

LEMMA LoopEndsInv ==
  ASSUME AgentsInv, NEW a \in Agents, NEW s \in Statuses, LoopEnds(a, s)
  PROVE  AgentsInv'
<1>1. /\ pc[a] = "asking" /\ s # "running" /\ status' = [status EXCEPT ![a] = s]
      /\ UNCHANGED <<parent, background, delegates, prior, charge, attempt, registry,
                     finished, told, up>>
  BY DEF LoopEnds, family, call
<1>2. CASE a \in Runs
  <2>1. pc' = [pc EXCEPT ![a] = "done"] /\ a \notin Children
    BY <1>2, SubagentAssumption DEF LoopEnds
  <2>2. AgentsTypeOK'
    BY <1>1, <2>1 DEF AgentsInv, AgentsTypeOK, Ended
  <2>3. Family' /\ Over' /\ Charged' /\ Superseded'
    BY <1>1, <2>1 DEF AgentsInv, AgentsTypeOK, Family, Over, Charged, Superseded, Agents, Waiting
  <2>4. Stages'
    BY <1>1, <2>1 DEF AgentsInv, AgentsTypeOK, Charged, Stages, Waiting, Agents
  <2>5. ForegroundNested'
    BY <1>1, <2>1
    DEF AgentsInv, AgentsTypeOK, Family, Charged, ForegroundNested, Active, Waiting, Agents
  <2>6. RetriesFailuresOnly'
    BY <1>1, <2>1 DEF AgentsInv, AgentsTypeOK, RetriesFailuresOnly, Superseded, Agents
  <2> QED
    BY <2>2, <2>3, <2>4, <2>5, <2>6 DEF AgentsInv
<1>3. CASE a \in Children /\ background[a]
  <2>1. pc' = [pc EXCEPT ![a] = "concluding"]
    BY <1>3, SubagentAssumption DEF LoopEnds
  <2>2. AgentsTypeOK'
    BY <1>1, <2>1 DEF AgentsInv, AgentsTypeOK, Active
  <2>3. Family' /\ Over' /\ Charged' /\ Superseded'
    BY <1>1, <2>1 DEF AgentsInv, AgentsTypeOK, Family, Over, Charged, Superseded, Agents, Waiting
  <2>4. Stages'
    BY <1>1, <1>3, <2>1 DEF AgentsInv, AgentsTypeOK, Charged, Stages, Waiting, Agents
  <2>5. ForegroundNested'
    BY <1>1, <1>3, <2>1
    DEF AgentsInv, AgentsTypeOK, Family, Charged, ForegroundNested, Active, Waiting, Agents
  <2>6. RetriesFailuresOnly'
    BY <1>1, <2>1 DEF AgentsInv, AgentsTypeOK, RetriesFailuresOnly, Superseded, Agents
  <2> QED
    BY <2>2, <2>3, <2>4, <2>5, <2>6 DEF AgentsInv
<1>4. CASE a \in Children /\ ~background[a]
  <2>1. PICK p \in Agents : p = parent[a] /\ pc[p] = "delegating" /\ charge[p] = a
    BY <1>1, <1>4
    DEF AgentsInv, AgentsTypeOK, Family, ForegroundNested, Active
  <2>2. p # a /\ status[p] = "running" /\ pc' = [pc EXCEPT ![a] = "done", ![p] = "announcing"]
    BY <1>1, <1>4, <2>1, SubagentAssumption DEF LoopEnds, AgentsInv, Stages, Waiting
  <2>3. AgentsTypeOK'
    BY <1>1, <2>2 DEF AgentsInv, AgentsTypeOK, Active, Waiting, Ended
  <2>4. Family' /\ Over'
    BY <1>1, <1>4, <2>1, <2>2 DEF AgentsInv, AgentsTypeOK, Family, Over, Agents
  <2>5. Charged' /\ Superseded'
    BY <1>1, <2>1, <2>2 DEF AgentsInv, AgentsTypeOK, Charged, Superseded, Waiting
  <2>6. Stages'
    BY <1>1, <1>4, <2>1, <2>2 DEF AgentsInv, AgentsTypeOK, Charged, Stages, Waiting, Agents
  <2>7. ForegroundNested'
    <3>1. ASSUME NEW d \in Children, pc'[d] \in Active, ~background[d]
          PROVE  pc'[parent[d]] = "delegating" /\ charge'[parent[d]] = d
      <4>1. d # a /\ pc[d] \in Active
        BY <1>1, <2>1, <2>2, <3>1
        DEF AgentsInv, AgentsTypeOK, Active, Waiting, Ended, Agents
      <4>2. pc[parent[d]] = "delegating" /\ charge[parent[d]] = d
        BY <3>1, <4>1 DEF AgentsInv, ForegroundNested
      <4>3. parent[d] \in Agents /\ parent[d] # p /\ parent[d] # a
        BY <1>1, <2>1, <4>1, <4>2 DEF AgentsInv, AgentsTypeOK, Family, Active, Waiting
      <4> QED
        BY <1>1, <2>2, <4>2, <4>3 DEF AgentsInv, AgentsTypeOK
    <3>2. ASSUME NEW b \in Agents, pc'[b] = "delegating"
          PROVE  pc'[charge'[b]] \in Active /\ ~background[charge'[b]]
      <4>1. b # p /\ b # a /\ pc[b] = "delegating"
        BY <1>1, <2>2, <3>2 DEF AgentsInv, AgentsTypeOK
      <4>2. charge'[b] = charge[b] /\ pc[charge[b]] \in Active /\ ~background[charge[b]]
        BY <1>1, <4>1 DEF AgentsInv, ForegroundNested
      <4>3. charge[b] \in Agents /\ charge[b] # a
        BY <1>4, <2>1, <4>1, SubagentAssumption DEF AgentsInv, Charged, Waiting, Agents
      <4> QED
        BY <2>2, <4>2, <4>3 DEF AgentsInv, AgentsTypeOK, Active, Waiting
    <3> QED
      BY <1>1, <3>1, <3>2 DEF ForegroundNested
  <2>8. RetriesFailuresOnly'
    BY <1>1, <2>1, <2>2 DEF AgentsInv, AgentsTypeOK, RetriesFailuresOnly, Superseded, Agents
  <2> QED
    BY <2>3, <2>4, <2>5, <2>6, <2>7, <2>8 DEF AgentsInv
<1> QED
  BY <1>2, <1>3, <1>4 DEF Agents

\* Who is unwound with a call, said without LET.
LEMMA UnwoundIs ==
  ASSUME NEW a \in Agents, NEW d
  PROVE  d \in Unwound(a) <=>
            /\ d \in Children /\ ~background[d] /\ pc[d] \in Active
            /\ \/ parent[d] = a
               \/ \E c \in Children :
                     /\ parent[c] = a /\ ~background[c] /\ pc[c] \in Active
                     /\ parent[d] = c
  BY DEF Unwound, Below

LEMMA TimeLimitInv ==
  ASSUME AgentsInv, NEW a \in Agents, TimeLimit(a)
  PROVE  AgentsInv'
<1> DEFINE U == Unwound(a)
<1>1. /\ pc[a] \in Waiting
      /\ pc' = [b \in Agents |-> CASE b = a -> "asking"
                                   [] b \in U -> "cancelled"
                                   [] OTHER -> pc[b]]
      /\ charge' = [charge EXCEPT ![a] = NoAgent]
      /\ attempt' = [attempt EXCEPT ![a] = 0]
      /\ UNCHANGED <<parent, background, delegates, prior, registry, finished, told, up>>
  BY DEF TimeLimit, Return, family
<1>2. PICK s \in {"running", "failed"} :
        status' = [b \in Agents |->
                     IF b \in U /\ pc[b] = "asking" THEN s ELSE status[b]]
  BY DEF TimeLimit
<1>3. a \notin U
  <2>1. ~(a \in Children /\ parent[a] = a)
    BY SubagentAssumption DEF AgentsInv, Family, Agents
  <2>2. ASSUME NEW c \in Children, a \in Children, parent[c] = a, parent[a] = c
        PROVE  FALSE
    BY <2>2, SubagentAssumption DEF AgentsInv, Family, Agents
  <2> QED
    BY <2>1, <2>2, UnwoundIs
<1>4. \A d \in U : d \in Children /\ ~background[d] /\ pc[d] \in Active
  BY UnwoundIs
<1>5. ASSUME NEW d \in Children, ~background[d], pc[d] \in Active,
             parent[d] \in U \cup {a}
      PROVE  d \in U
  <2>1. CASE parent[d] = a
    BY <1>5, <2>1, UnwoundIs
  <2>2. CASE parent[d] \in U
    <3>1. PICK b \in Children : b = parent[d] /\ ~background[b] /\ pc[b] \in Active
      BY <1>4, <2>2
    <3>2. parent[b] \in Runs
      BY <3>1, <1>5 DEF AgentsInv, Family
    <3>3. parent[b] = a
      BY <2>2, <3>1, <3>2, UnwoundIs, SubagentAssumption
    <3> QED
      BY <1>5, <3>1, <3>3, UnwoundIs
  <2> QED
    BY <1>5, <2>1, <2>2
<1>6. ASSUME NEW d \in U PROVE parent[d] = a \/ parent[d] \in U
  <2>1. CASE parent[d] = a
    BY <2>1
  <2>2. CASE \E c \in Children : /\ parent[c] = a /\ ~background[c] /\ pc[c] \in Active
                                 /\ parent[d] = c
    BY <2>2, UnwoundIs
  <2> QED
    BY <1>6, <2>1, <2>2, UnwoundIs
<1> HIDE DEF U
<1>7. /\ pc'[a] = "asking"
      /\ \A d \in U : pc'[d] = "cancelled"
      /\ \A b \in Agents : b # a /\ b \notin U => pc'[b] = pc[b] /\ status'[b] = status[b]
      /\ status'[a] = status[a] /\ status[a] = "running"
  BY <1>1, <1>2, <1>3, <1>4 DEF AgentsInv, Stages, Agents
<1>8. /\ pc' \in [Agents -> {"off"} \cup Active \cup Ended]
      /\ status' \in [Agents -> Statuses]
  <2>1. \A b \in Agents : pc'[b] \in {"off"} \cup Active \cup Ended
    BY <1>7 DEF AgentsInv, AgentsTypeOK, Active, Ended
  <2>2. \A b \in Agents : status'[b] \in Statuses
    BY <1>2 DEF AgentsInv, AgentsTypeOK, Statuses
  <2> QED
    BY <1>1, <1>2, <2>1, <2>2
<1>9. AgentsTypeOK'
  <2>1. charge' \in [Agents -> Children \cup {NoAgent}]
    BY <1>1 DEF AgentsInv, AgentsTypeOK
  <2>2. attempt' \in [Agents -> 0 .. MaxRetries + 1]
    BY <1>1, SubagentAssumption DEF AgentsInv, AgentsTypeOK
  <2> QED
    BY <1>1, <1>8, <2>1, <2>2 DEF AgentsInv, AgentsTypeOK
<1>10. \A b \in Agents : pc[b] \notin Active => pc'[b] = pc[b] /\ status'[b] = status[b]
  BY <1>1, <1>4, <1>7 DEF Active
<1>11. Family' /\ Superseded'
  <2>1. \A c \in Children : pc[c] = "off" => pc'[c] = "off"
    BY <1>10 DEF Agents, Active, Waiting
  <2>2. Family'
    BY <1>1, <2>1 DEF AgentsInv, Family
  <2>3. \A b \in Agents : charge'[b] = charge[b] \/ charge'[b] = NoAgent
    BY <1>1 DEF AgentsInv, AgentsTypeOK
  <2>4. Superseded'
    BY <1>1, <2>3, SubagentAssumption DEF AgentsInv, AgentsTypeOK, Superseded, Agents
  <2> QED
    BY <2>2, <2>4
<1>12. Charged'
  BY <1>1, <1>7 DEF AgentsInv, AgentsTypeOK, Charged, Waiting
<1>13. Over'
  <2>1. \A d \in Children : pc'[d] \in {"asking", "cancelled"} \/ pc'[d] = pc[d]
    BY <1>7 DEF Agents
  <2> QED
    BY <1>1, <1>10, <2>1 DEF AgentsInv, AgentsTypeOK, Over, Agents, Active, Waiting
<1>14. ASSUME NEW b \in Agents, b # a, b \notin U, charge[b] \in Children
       PROVE  charge[b] \notin U /\ (charge[b] # a =>
                 /\ pc'[charge[b]] = pc[charge[b]]
                 /\ status'[charge[b]] = status[charge[b]])
  <2>1. charge[b] \notin U
    BY <1>6, <1>14, SubagentAssumption DEF AgentsInv, Charged, Agents
  <2> QED
    BY <1>7, <1>14, <2>1 DEF Agents
<1>15. ASSUME NEW b \in Agents, pc'[b] \in Waiting \cup {"backoff"}
       PROVE  b # a /\ b \notin U /\ pc'[b] = pc[b] /\ charge'[b] = charge[b]
              /\ charge[b] \in Children
  BY <1>1, <1>7, <1>15 DEF AgentsInv, AgentsTypeOK, Charged, Waiting
<1>16. Stages'
  <2>1. ASSUME NEW b \in Agents,
               pc'[b] \in {"off", "asking", "raised", "backoff"} \cup Waiting
        PROVE  status'[b] = "running"
    BY <1>7, <2>1 DEF AgentsInv, Stages, Waiting
  <2>2. ASSUME NEW b \in Agents, pc'[b] = "concluding"
        PROVE  b \in Children /\ background'[b]
    BY <1>1, <1>7, <2>2 DEF AgentsInv, Stages
  <2>3. ASSUME NEW b \in Agents, pc'[b] \in {"spawning", "announcing", "backoff"}
        PROVE  /\ pc'[b] = pc[b] /\ charge'[b] = charge[b] /\ attempt'[b] = attempt[b]
               /\ pc'[charge[b]] = pc[charge[b]]
               /\ status'[charge[b]] = status[charge[b]]
    <3>1. b # a /\ b \notin U /\ pc'[b] = pc[b] /\ charge'[b] = charge[b]
          /\ charge[b] \in Children
      BY <1>15, <2>3 DEF Waiting
    <3>2. charge[b] # a
      BY <1>1, <2>3, <3>1 DEF AgentsInv, Stages, Waiting
    <3> QED
      BY <1>1, <1>14, <3>1, <3>2 DEF AgentsInv, AgentsTypeOK
  <2> QED
    BY <1>1, <2>1, <2>2, <2>3 DEF AgentsInv, Stages
<1>17. ForegroundNested'
  <2>1. ASSUME NEW d \in Children, pc'[d] \in Active, ~background[d]
        PROVE  pc'[parent[d]] = "delegating" /\ charge'[parent[d]] = d
    <3>1. pc[d] \in Active /\ d \notin U
      BY <1>1, <1>7, <2>1 DEF Agents, Active, Waiting
    <3>2. parent[d] \notin U \cup {a}
      BY <1>5, <2>1, <3>1
    <3>3. pc[parent[d]] = "delegating" /\ charge[parent[d]] = d /\ parent[d] \in Agents
      BY <2>1, <3>1
      DEF AgentsInv, AgentsTypeOK, Family, ForegroundNested, Active, Waiting
    <3> QED
      BY <1>1, <1>7, <3>2, <3>3 DEF AgentsInv, AgentsTypeOK
  <2>2. ASSUME NEW b \in Agents, pc'[b] = "delegating"
        PROVE  pc'[charge'[b]] \in Active /\ ~background[charge'[b]]
    <3>1. b # a /\ b \notin U /\ pc[b] = "delegating" /\ charge'[b] = charge[b]
          /\ charge[b] \in Children
      BY <1>15, <2>2 DEF Waiting
    <3>2. pc[charge[b]] \in Active /\ ~background[charge[b]]
      BY <3>1 DEF AgentsInv, ForegroundNested
    <3>3. pc'[charge[b]] \in Active
      BY <1>7, <1>14, <3>1, <3>2 DEF Active
    <3> QED
      BY <3>1, <3>2, <3>3
  <2> QED
    BY <1>1, <2>1, <2>2 DEF ForegroundNested
<1>18. RetriesFailuresOnly'
  BY <1>1, <1>10
  DEF AgentsInv, AgentsTypeOK, RetriesFailuresOnly, Superseded, Agents, Active, Waiting
<1> QED
  BY <1>9, <1>11, <1>12, <1>13, <1>16, <1>17, <1>18 DEF AgentsInv

LEMMA AgentsStep == AgentsInv /\ [AgentsNext]_agentVars => AgentsInv'
<1> SUFFICES ASSUME AgentsInv, [AgentsNext]_agentVars PROVE AgentsInv'
  OBVIOUS
<1>1. CASE UNCHANGED agentVars
  BY <1>1
  DEF agentVars, family, call, AgentsInv, AgentsTypeOK, Family, Charged, Stages,
      Superseded, Over, ForegroundNested, RetriesFailuresOnly
<1>2. CASE AgentsNext
  BY <1>2, StartRunInv, SpawnAgentInv, StartedInv, SpawnRaisesInv, RespawnInv, TimeLimitInv,
     LoopEndsInv, RaisesInv, AnnouncedInv, ConcludedInv, AgentResultInv, TeardownInv
  DEF AgentsNext
<1> QED
  BY <1>1, <1>2

-----------------------------------------------------------------------------
(* The theorems                                                            *)

\* The invariant the theorems about sub-agents rest on.
THEOREM AgentsInvCorrect == AgentsSpec => []AgentsInv
  BY AgentsInit_Inv, AgentsStep, PTL DEF AgentsSpec

\* A call is executed once and retried MaxRetries times at most, whatever fails.
THEOREM AgentsTypeCorrect == AgentsSpec => []AgentsTypeOK
<1>1. AgentsInv => AgentsTypeOK
  BY DEF AgentsInv
<1> QED
  BY <1>1, AgentsInvCorrect, PTL

\* A foreground sub-agent never outlives the call that waits for it, with any
\* number of runs and children: what unwinds the call unwinds all it contains.
THEOREM ForegroundNestedCorrect == AgentsSpec => []ForegroundNested
<1>1. AgentsInv => ForegroundNested
  BY DEF AgentsInv
<1> QED
  BY <1>1, AgentsInvCorrect, PTL

\* A sub-task is given to a second sub-agent only when the first has failed.
THEOREM RetriesFailuresOnlyCorrect == AgentsSpec => []RetriesFailuresOnly
<1>1. AgentsInv => RetriesFailuresOnly
  BY DEF AgentsInv
<1> QED
  BY <1>1, AgentsInvCorrect, PTL

\* What agent_result says of a sub-agent that is over it does not take back
\* within a run, and a result is given out only after subagent.finished.
THEOREM AnswersStayFinalCorrect == AgentsSpec => AnswersStayFinal
<1>1. AgentsInv /\ [AgentsNext]_agentVars => [AnswersFinal]_agentVars
  <2> SUFFICES ASSUME AgentsInv, AgentsNext PROVE AnswersFinal
    OBVIOUS
  <2>1. CASE told' = told
    BY <2>1 DEF AnswersFinal
  <2>2. ASSUME NEW a \in Agents, NEW c \in Children, AgentResult(a, c)
        PROVE  AnswersFinal
    <3>1. /\ told' = [told EXCEPT ![c] = Answer(a, c)] /\ finished' = finished
          /\ background[c] /\ pc[c] # "off"
      BY <2>2 DEF AgentResult
    <3>2. /\ Answer(a, c) \in Answers
          /\ Answer(a, c) = "result" => pc[c] = "done"
          /\ pc[c] = "done" => Answer(a, c) \in {"unknown", "result"}
          /\ pc[c] \in {"raised", "cancelled"} => Answer(a, c) \in {"unknown", "error"}
      BY <3>1
      DEF Answer, Answers, AgentsInv, AgentsTypeOK, Agents, Active, Waiting, Ended
    <3>3. told'[c] = Answer(a, c) /\ \A d \in Children : d # c => told'[d] = told[d]
      BY <3>1 DEF AgentsInv, AgentsTypeOK
    <3>4. Answer(a, c) = "result" => c \in finished'
      BY <3>1, <3>2 DEF AgentsInv, Over
    <3>5. told[c] \in {"result", "error"} => Answer(a, c) \in {told[c], "unknown"}
      BY <3>2 DEF AgentsInv, Over
    <3> QED
      BY <3>3, <3>4, <3>5 DEF AnswersFinal
  <2> QED
    BY <2>1, <2>2
    DEF AgentsNext, StartRun, SpawnAgent, Spawn, Started, SpawnRaises, Respawn, TimeLimit,
        LoopEnds, Raises, Announced, Concluded, Teardown
<1> QED
  BY <1>1, AgentsInvCorrect, PTL DEF AgentsSpec, AnswersStayFinal

-----------------------------------------------------------------------------
(* The task board                                                          *)

\* What one update does: task t gets the new status and dependencies, and the
\* other tasks lose t when it is completed.
LEMMA UpdateEffect ==
    ASSUME BoardTypeOK,
           NEW t \in DOMAIN board,
           NEW to \in TaskStatus \cup {"keep"},
           NEW add \in SUBSET Nat, NEW remove \in SUBSET Nat,
           TaskUpdate(t, to, add, remove)
    PROVE  /\ board' \in Seq(Task)
           /\ DOMAIN board' = DOMAIN board
           /\ \A u \in DOMAIN board : u # t =>
                /\ board'[u].status = board[u].status
                /\ to = "completed" => t \notin board'[u].blockedBy
           /\ board'[t].status = "completed" =>
                to = "completed" \/ board[t].status = "completed"
<1> DEFINE others == IF to = "completed" THEN Cleared(t) ELSE board
           new == [status    |-> IF to = "keep" THEN board[t].status
                                 ELSE to,
                   blockedBy |-> (board[t].blockedBy \cup add) \ remove]
<1>1. /\ DOMAIN board = 1 .. Len(board) /\ Len(board) \in Nat
      /\ \A u \in DOMAIN board : board[u] \in Task
  BY DEF BoardTypeOK
<1>2. board' = [others EXCEPT ![t] = new]
  BY DEF TaskUpdate
<1>3. \A u \in DOMAIN board :
        [board[u] EXCEPT !.blockedBy = @ \ {t}] =
            [status |-> board[u].status, blockedBy |-> board[u].blockedBy \ {t}]
  <2> SUFFICES ASSUME NEW u \in DOMAIN board
               PROVE  [board[u] EXCEPT !.blockedBy = @ \ {t}] =
                        [status    |-> board[u].status,
                         blockedBy |-> board[u].blockedBy \ {t}]
    OBVIOUS
  <2>1. board[u] \in [status : TaskStatus, blockedBy : SUBSET Nat]
    BY <1>1 DEF Task
  <2>2. PICK s \in TaskStatus, d \in SUBSET Nat :
          board[u] = [status |-> s, blockedBy |-> d]
    BY <2>1
  <2> QED
    BY <2>2
<1>4. /\ others = [u \in 1 .. Len(board) |-> others[u]]
      /\ \A u \in DOMAIN board :
            others[u] = [status    |-> board[u].status,
                         blockedBy |-> IF to = "completed"
                                       THEN board[u].blockedBy \ {t}
                                       ELSE board[u].blockedBy]
  <2>1. CASE to = "completed"
    BY <2>1, <1>1, <1>3 DEF Cleared
  <2>2. CASE to # "completed"
    <3>1. \A u \in DOMAIN board :
            board[u] = [status |-> board[u].status,
                        blockedBy |-> board[u].blockedBy]
      BY <1>1 DEF Task
    <3>2. board = [u \in 1 .. Len(board) |-> board[u]]
      BY DEF BoardTypeOK
    <3> QED
      BY <2>2, <3>1, <3>2, <1>1
  <2> QED
    BY <2>1, <2>2
<1>5. new \in Task
  <2>1. board[t] \in Task
    BY <1>1
  <2> QED
    BY <2>1 DEF Task, TaskStatus
<1>6. /\ board' = [u \in 1 .. Len(board) |-> board'[u]]
      /\ board'[t] = new
      /\ \A u \in DOMAIN board : u # t => board'[u] = others[u]
  <2> HIDE DEF others, new
  <2> QED
    BY <1>1, <1>2, <1>4
<1>7. \A u \in DOMAIN board : others[u] \in Task
  <2> HIDE DEF others
  <2> QED
    BY <1>1, <1>4 DEF Task
<1>8. board' \in Seq(Task)
  <2> HIDE DEF others, new
  <2>1. \A u \in 1 .. Len(board) : board'[u] \in Task
    BY <1>1, <1>5, <1>6, <1>7
  <2> QED
    BY <2>1, <1>1, <1>6
<1>9. DOMAIN board' = DOMAIN board
  BY <1>1, <1>6
<1>10. \A u \in DOMAIN board : u # t =>
          /\ board'[u].status = board[u].status
          /\ to = "completed" => t \notin board'[u].blockedBy
  <2> SUFFICES ASSUME NEW u \in DOMAIN board, u # t
               PROVE  /\ board'[u].status = board[u].status
                      /\ to = "completed" => t \notin board'[u].blockedBy
    OBVIOUS
  <2> HIDE DEF others, new
  <2>1. board'[u] = others[u]
    BY <1>6
  <2>2. \E d : /\ others[u] = [status |-> board[u].status, blockedBy |-> d]
               /\ to = "completed" => t \notin d
    <3>1. CASE to = "completed"
      <4>1. others[u] = [status    |-> board[u].status,
                         blockedBy |-> board[u].blockedBy \ {t}]
        BY <3>1, <1>4
      <4>2. t \notin board[u].blockedBy \ {t}
        OBVIOUS
      <4> QED
        BY <4>1, <4>2
    <3>2. CASE to # "completed"
      BY <3>2, <1>4
    <3> QED
      BY <3>1, <3>2
  <2> QED
    BY <2>1, <2>2
<1>11. board'[t].status = "completed" =>
          to = "completed" \/ board[t].status = "completed"
  <2>1. board'[t].status = IF to = "keep" THEN board[t].status ELSE to
    BY <1>6
  <2> QED
    BY <2>1
<1> QED
  BY <1>8, <1>9, <1>10, <1>11

\* A step of the board is the creation of a task, an update or a look.
LEMMA NextCases ==
    ASSUME TaskBoardAssumption, BoardTypeOK, BoardNext,
           NEW P,
           ASSUME NEW deps \in SUBSET Nat, TaskCreate(deps) PROVE P,
           ASSUME NEW t \in DOMAIN board, NEW s \in TaskStatus \cup {"keep"},
                  NEW add \in SUBSET Nat, NEW remove \in SUBSET Nat,
                  TaskUpdate(t, s, add, remove)
           PROVE  P,
           ASSUME UNCHANGED board PROVE P
    PROVE  P
<1>1. ASSUME NEW S \in SUBSET (1 .. MaxTasks) PROVE S \in SUBSET Nat
  BY DEF TaskBoardAssumption
<1> QED
  BY <1>1 DEF BoardNext, TaskUpdate, TaskGet

\* A created task is pending, so that nothing is completed or blocked by it.
LEMMA CreateEffect ==
    ASSUME BoardTypeOK, NEW deps \in SUBSET Nat, TaskCreate(deps)
    PROVE  /\ board' \in Seq(Task)
           /\ DOMAIN board' = 1 .. Len(board) + 1
           /\ \A u \in DOMAIN board : board'[u] = board[u]
           /\ board'[Len(board) + 1] =
                [status |-> "pending", blockedBy |-> deps]
           /\ board'[Len(board) + 1].status = "pending"
           /\ deps \subseteq DOMAIN board
<1>1. [status |-> "pending", blockedBy |-> deps] \in Task
  BY DEF Task, TaskStatus
<1> QED
  BY <1>1 DEF BoardTypeOK, TaskCreate

\* Task files always hold a status and dependencies that task_get can show.
THEOREM BoardTyped == BoardSpec => []BoardTypeOK
<1>1. BoardInit => BoardTypeOK
  BY DEF BoardInit, BoardTypeOK
<1>2. BoardTypeOK /\ [BoardNext]_board => BoardTypeOK'
  <2> SUFFICES ASSUME BoardTypeOK, BoardNext PROVE BoardTypeOK'
    BY DEF BoardTypeOK
  <2>1. ASSUME NEW deps \in SUBSET Nat, TaskCreate(deps) PROVE BoardTypeOK'
    BY <2>1, CreateEffect DEF BoardTypeOK
  <2>2. ASSUME NEW t \in DOMAIN board, NEW s \in TaskStatus \cup {"keep"},
               NEW add \in SUBSET Nat, NEW remove \in SUBSET Nat,
               TaskUpdate(t, s, add, remove)
        PROVE  BoardTypeOK'
    BY <2>2, UpdateEffect DEF BoardTypeOK
  <2>3. ASSUME UNCHANGED board PROVE BoardTypeOK'
    BY <2>3 DEF BoardTypeOK
  <2> QED
    BY <2>1, <2>2, <2>3, TaskBoardAssumption, NextCases
<1> QED
  BY <1>1, <1>2, PTL DEF BoardSpec

\* Completing a task leaves no other task behind that waits for it.
THEOREM CompletionFreesOthers == BoardSpec => CompletionsFree
<1>1. BoardTypeOK /\ [BoardNext]_board => [FreesWaiting]_board
  <2> SUFFICES ASSUME BoardTypeOK, BoardNext PROVE FreesWaiting
    OBVIOUS
  <2> SUFFICES ASSUME NEW t \in DOMAIN board', NEW u \in DOMAIN board',
                      t # u, Stale(board', t, u)
               PROVE  u \in DOMAIN board /\ board[u].status = "completed"
    BY DEF FreesWaiting
  <2>1. ASSUME NEW deps \in SUBSET Nat, TaskCreate(deps)
        PROVE  u \in DOMAIN board /\ board[u].status = "completed"
    <3>1. u # Len(board) + 1
      <4>1. board'[Len(board) + 1].status = "pending"
        BY <2>1, CreateEffect
      <4> QED
        BY <4>1 DEF Stale
    <3>2. u \in DOMAIN board
      <4>1. DOMAIN board = 1 .. Len(board) /\ Len(board) \in Nat
        BY DEF BoardTypeOK
      <4>2. u \in 1 .. Len(board) + 1
        BY <2>1, CreateEffect
      <4> QED
        BY <4>1, <4>2, <3>1
    <3> QED
      BY <2>1, <3>2, CreateEffect DEF Stale
  <2>2. ASSUME NEW x \in DOMAIN board, NEW s \in TaskStatus \cup {"keep"},
               NEW add \in SUBSET Nat, NEW remove \in SUBSET Nat,
               TaskUpdate(x, s, add, remove)
        PROVE  u \in DOMAIN board /\ board[u].status = "completed"
    <3>1. u \in DOMAIN board /\ t \in DOMAIN board
      BY <2>2, UpdateEffect
    <3>2. CASE u # x
      BY <2>2, <3>1, <3>2, UpdateEffect DEF Stale
    <3>3. CASE u = x
      <4>1. s # "completed"
        BY <2>2, <3>1, <3>3, UpdateEffect DEF Stale
      <4> QED
        BY <2>2, <3>1, <3>3, <4>1, UpdateEffect DEF Stale
    <3> QED
      BY <3>2, <3>3
  <2>3. ASSUME UNCHANGED board
        PROVE  u \in DOMAIN board /\ board[u].status = "completed"
    BY <2>3 DEF Stale
  <2> QED
    BY <2>1, <2>2, <2>3, TaskBoardAssumption, NextCases
<1> QED
  BY <1>1, BoardTyped, PTL DEF BoardSpec, CompletionsFree
=============================================================================
