--------------------------- MODULE ExchangeProofs ---------------------------
(***************************************************************************)
(* What holds of Exchange for any number of tests, tokens, nodes, requests *)
(* under way and faults.                                                   *)
(***************************************************************************)
EXTENDS Exchange, TLAPS

LEMMA CallParts ==
  ASSUME NEW c \in Calls
  PROVE  /\ c.stage \in Stages /\ c.token \in Tokens \cup {None}
         /\ c.node \in NodeIds \cup {None}
         /\ c.results \in SUBSET Tests /\ c.answer \in SUBSET Tests
         /\ \A g \in Stages : [c EXCEPT !.stage = g] \in Calls
         /\ \A g \in Stages, n \in NodeIds :
              [c EXCEPT !.stage = g, !.node = n] \in Calls
         /\ \A g \in Stages, S \in SUBSET Tests :
              [c EXCEPT !.stage = g, !.answer = S] \in Calls
BY DEF Calls

LEMMA NewCalls ==
  /\ Free \in Calls
  /\ \A k \in Tokens : [Free EXCEPT !.stage = "sent", !.token = k] \in Calls
  /\ \A n \in NodeIds \cup {None}, S \in SUBSET Tests :
       [Free EXCEPT !.stage = "sent", !.node = n, !.results = S] \in Calls
BY DEF Calls, Free, Stages

(* A handler that goes on changes nothing else of its request.             *)
LEMMA Advanced ==
  ASSUME call \in [Slots -> Calls], NEW s \in Slots, NEW g \in Stages, Advance(s, g)
  PROVE  /\ call' \in [Slots -> Calls]
         /\ call'[s].stage = g
         /\ \A r \in Slots \ {s} : call'[r] = call[r]
         /\ \A r \in Slots :
              /\ call'[r].token = call[r].token /\ call'[r].node = call[r].node
              /\ call'[r].results = call[r].results
              /\ call'[r].answer = call[r].answer
BY DEF Advance, Calls

LEMMA FaultCounted ==
  ASSUME TypeOK, Fault
  PROVE  faults' \in 0 .. MaxFaults
BY ExchangeAssumption DEF TypeOK, Fault, ExchangeAssumption

LEMMA GoroutineType ==
  ASSUME NEW S \in SUBSET Tests, NEW W \in SUBSET (SUBSET Tests)
  PROVE  W \cup Goroutine(S) \in SUBSET (SUBSET Tests)
BY DEF Goroutine

(* What waits to be reported has been found.                               *)
Reportable ==
  /\ \A t \in results : found[t] # None
  /\ \A s \in Slots : \A t \in call[s].results : found[t] # None

TypeInv == TypeOK /\ Reportable

LEMMA TypeInit == Init => TypeInv
<1> SUFFICES ASSUME Init
             PROVE  TypeInv
  OBVIOUS
<1>1. faults \in 0 .. MaxFaults
  BY ExchangeAssumption DEF Init, ExchangeAssumption
<1>2. call \in [Slots -> Calls] /\ \A s \in Slots : call[s].results = {}
  BY NewCalls DEF Init, Free
<1> QED BY <1>1, <1>2 DEF Init, TypeInv, TypeOK, Reportable

LEMMA TypeStep == TypeInv /\ [Next]_vars => TypeInv'
<1> SUFFICES ASSUME TypeInv, [Next]_vars
             PROVE  TypeInv'
  OBVIOUS
<1> USE DEF panel, agent, TypeInv
<1>1. ASSUME RunStep
      PROVE  TypeInv'
  <2>1. CASE Start
    BY <2>1 DEF Start, TypeOK, Reportable
  <2>2. CASE Registered
    <3>1. call[cur] \in Calls /\ call' = [call EXCEPT ![cur] = Free]
      BY <2>2 DEF Registered, Over, TypeOK
    <3>2. id' \in NodeIds \cup {None}
      BY <2>2, <3>1, CallParts DEF Registered
    <3>3. TypeOK'
      BY <2>2, <3>1, <3>2, NewCalls DEF Registered, Over, TypeOK
    <3>4. Reportable'
      BY <2>2, <3>1 DEF Registered, Reportable, TypeOK, Free
    <3> QED BY <3>3, <3>4
  <2>3. CASE RegisterFails
    BY <2>3, NewCalls DEF RegisterFails, Over, TypeOK, Reportable, Free
  <2>4. CASE OpenConfig \/ WriteConfig
    BY <2>4 DEF OpenConfig, WriteConfig, TypeOK, Reportable
  <2>5. CASE HeartbeatOver
    <3>1. call[cur] \in Calls /\ call' = [call EXCEPT ![cur] = Free]
      BY <2>5 DEF HeartbeatOver, Over, TypeOK
    <3>2. call[cur].answer \in SUBSET Tests /\ work \in SUBSET (SUBSET Tests)
      BY <3>1, CallParts DEF TypeOK
    <3>3. work' \in SUBSET (SUBSET Tests)
      BY <2>5, <3>2, GoroutineType DEF HeartbeatOver
    <3>4. TypeOK'
      BY <2>5, <3>1, <3>3, NewCalls DEF HeartbeatOver, Over, TypeOK
    <3>5. Reportable'
      BY <2>5, <3>1 DEF HeartbeatOver, Reportable, TypeOK, Free
    <3> QED BY <3>4, <3>5
  <2>6. CASE HeartbeatFails
    BY <2>6, NewCalls DEF HeartbeatFails, Over, TypeOK, Reportable, Free
  <2>7. ASSUME NEW s \in Slots, Register(s)
        PROVE  TypeInv'
    <3>1. token \in Tokens
      BY DEF TypeOK
    <3> QED BY <2>7, <3>1, NewCalls DEF Register, Send, TypeOK, Reportable, Free
  <2>8. ASSUME NEW s \in Slots, Heartbeat(s)
        PROVE  TypeInv'
    <3>1. id \in NodeIds \cup {None} /\ results \in SUBSET Tests
      BY DEF TypeOK
    <3> QED BY <2>8, <3>1, NewCalls DEF Heartbeat, Send, Drained, TypeOK, Reportable, Free
  <2> QED BY <1>1, <2>1, <2>2, <2>3, <2>4, <2>5, <2>6, <2>7, <2>8 DEF RunStep
<1>2. ASSUME NEW b \in SUBSET Tests, Perform(b)
      PROVE  TypeInv'
  <2>1. PICK t \in b, o \in Outcomes :
          /\ found' = [found EXCEPT ![t] = o]
          /\ results' = results \cup {t}
          /\ work' = (work \ {b}) \cup Goroutine(b \ {t})
    BY <1>2 DEF Perform
  <2>2. work' \in SUBSET (SUBSET Tests)
    <3>1. b \ {t} \in SUBSET Tests /\ work \ {b} \in SUBSET (SUBSET Tests)
      BY DEF TypeOK
    <3>2. (work \ {b}) \cup Goroutine(b \ {t}) \in SUBSET (SUBSET Tests)
      BY <3>1 DEF Goroutine
    <3> QED BY <2>1, <3>2, Zenon
  <2>3. t \in Tests
    OBVIOUS
  <2>4. found' \in [Tests -> Outcomes \cup {None}] /\ results' \in SUBSET Tests
    BY <2>1, <2>3 DEF TypeOK
  <2>5. found'[t] # None /\ \A u \in Tests : found[u] # None => found'[u] # None
    BY <2>1, <2>3, ExchangeAssumption DEF TypeOK, ExchangeAssumption
  <2>6. \A s \in Slots : call[s].results \in SUBSET Tests
    BY CallParts DEF TypeOK
  <2>7. TypeOK'
    BY <1>2, <2>2, <2>4 DEF Perform, TypeOK
  <2>8. Reportable'
    BY <1>2, <2>1, <2>5, <2>6 DEF Perform, Reportable, TypeOK
  <2> QED BY <2>7, <2>8
<1>3. ASSUME NEW s \in Slots, HandlerStep(s)
      PROVE  TypeInv'
  <2> call[s] \in Calls
    BY DEF TypeOK
  <2>1. CASE Consume(s)
    <3>1. call' \in [Slots -> Calls]
      BY <2>1, CallParts DEF Consume, Advance, Stages, TypeOK
    <3>2. call[s].token \in Tokens
      BY <2>1, CallParts DEF Consume
    <3>3. used' \in [Tokens -> {0, 1}]
      <4>1. used[call[s].token] \in {0, 1}
        BY <3>2 DEF TypeOK
      <4>2. Usable(call[s].token) => used[call[s].token] + 1 = 1
        BY <4>1 DEF Usable
      <4> QED BY <2>1, <3>2, <4>2 DEF Consume, TypeOK
    <3>4. Reportable'
      <4>1. PICK g \in Stages : Advance(s, g)
        BY <2>1 DEF Consume, Stages
      <4>2. \A r \in Slots : call'[r].results = call[r].results
        BY <4>1, Advanced DEF TypeOK
      <4> QED BY <2>1, <4>2 DEF Consume, Reportable
    <3> QED BY <2>1, <3>1, <3>3, <3>4 DEF Consume, TypeOK
  <2>2. CASE SaveNode(s)
    <3>1. PICK n \in NodeIds : /\ origin' = [origin EXCEPT ![n] = call[s].token]
                               /\ nodes' = nodes \cup {n}
                               /\ call' = [call EXCEPT ![s].stage = "answered",
                                                       ![s].node = n]
      BY <2>2 DEF SaveNode
    <3>2. call' \in [Slots -> Calls]
      BY <3>1, CallParts DEF TypeOK, Stages
    <3>3. origin' \in [NodeIds -> Tokens \cup {None}]
      BY <3>1, CallParts DEF TypeOK
    <3>4. Reportable'
      BY <2>2, <3>1 DEF SaveNode, Reportable, TypeOK
    <3> QED BY <2>2, <3>1, <3>2, <3>3, <3>4 DEF SaveNode, TypeOK
  <2>3. CASE Keep(s)
    <3>1. call' \in [Slots -> Calls]
      BY <2>3, CallParts DEF Keep, Advance, Stages, TypeOK
    <3>2. \A t \in Accepted(s) : t \in Tests /\ found[t] \in Outcomes
      BY CallParts DEF Accepted, Reportable, TypeOK
    <3>3. shown' \in [Tests -> Outcomes \cup {"absent", "queued", "running", "gone"}]
      <4>1. PICK S \in Written(Accepted(s)) :
              shown' = [t \in Tests |-> IF t \in S THEN found[t] ELSE shown[t]]
        BY <2>3 DEF Keep
      <4>2. S \subseteq Accepted(s)
        BY DEF Written
      <4> QED BY <3>2, <4>1, <4>2 DEF TypeOK
    <3>4. Reportable'
      <4>1. PICK g \in Stages : Advance(s, g)
        BY <2>3 DEF Keep, Stages
      <4>2. \A r \in Slots : call'[r].results = call[r].results
        BY <4>1, Advanced DEF TypeOK
      <4> QED BY <2>3, <4>2 DEF Keep, Reportable
    <3> QED BY <2>3, <3>1, <3>3, <3>4 DEF Keep, TypeOK
  <2>7. CASE Check(s)
    <3>1. call' \in [Slots -> Calls]
      BY <2>7, CallParts DEF Check, Advance, Stages, TypeOK
    <3> QED BY <2>7, <3>1 DEF Check, Advance, TypeOK, Reportable
  <2>4. CASE Update(s)
    <3>1. call' \in [Slots -> Calls]
      BY <2>4, CallParts DEF Update, Advance, Stages, TypeOK
    <3> QED BY <2>4, <3>1 DEF Update, Advance, TypeOK, Reportable
  <2>5. CASE Pull(s)
    <3>1. Oldest(call[s].node) \in SUBSET Tests
      BY DEF Oldest, Queued
    <3>2. call' \in [Slots -> Calls]
      BY <2>5, <3>1, CallParts DEF Pull, Stages, TypeOK
    <3>3. shown' \in [Tests -> Outcomes \cup {"absent", "queued", "running", "gone"}]
      BY <2>5 DEF Pull, TypeOK
    <3> QED BY <2>5, <3>2, <3>3 DEF Pull, TypeOK, Reportable
  <2>6. CASE Discard(s)
    BY <2>6, NewCalls DEF Discard, TypeOK, Reportable, Free
  <2> QED BY <1>3, <2>1, <2>2, <2>3, <2>4, <2>5, <2>6, <2>7 DEF HandlerStep
<1>4. ASSUME Perturb
      PROVE  TypeInv'
  <2>1. CASE GiveUp
    BY <2>1, FaultCounted DEF GiveUp, TypeOK, Reportable
  <2>2. CASE Crash
    BY <2>2, FaultCounted DEF Crash, TypeOK, Reportable
  <2>3. ASSUME NEW s \in Slots, Fail(s)
        PROVE  TypeInv'
    <3>1. call' \in [Slots -> Calls]
      BY <2>3, CallParts DEF Fail, Advance, Stages, TypeOK
    <3> QED BY <2>3, <3>1, FaultCounted DEF Fail, Advance, TypeOK, Reportable
  <2>4. CASE SaveConfigFails
    BY <2>4, FaultCounted DEF SaveConfigFails, TypeOK, Reportable
  <2> QED BY <1>4, <2>1, <2>2, <2>3, <2>4 DEF Perturb
<1>5. ASSUME People
      PROVE  TypeInv'
  <2>1. ASSUME NEW n \in NodeIds, CreateTest(n)
        PROVE  TypeInv'
    BY <2>1 DEF CreateTest, TypeOK, Reportable
  <2>2. ASSUME NEW n \in NodeIds, DeleteNode(n)
        PROVE  TypeInv'
    BY <2>2 DEF DeleteNode, TypeOK, Reportable
  <2>3. ASSUME NEW t \in Tests, CleanupExpired(t)
        PROVE  TypeInv'
    BY <2>3 DEF CleanupExpired, TypeOK, Reportable
  <2>4. CASE NewToken
    BY <2>4 DEF NewToken, TypeOK, Reportable
  <2> QED BY <1>5, <2>1, <2>2, <2>3, <2>4 DEF People
<1>6. CASE UNCHANGED vars
  BY <1>6 DEF vars, TypeOK, Reportable
<1> QED BY <1>1, <1>2, <1>3, <1>4, <1>5, <1>6 DEF Next

(* The variables of the exchange keep their types, and a result that the   *)
(* panel stores is one that RunConnectivityTest returned.                  *)
THEOREM TypeCorrect == Spec => []TypeOK
<1>1. TypeInv => TypeOK
  BY DEF TypeInv
<1> QED BY <1>1, TypeInit, TypeStep, PTL DEF Spec

-----------------------------------------------------------------------------
(* A token that is used up belongs to one node, or to one registration     *)
(* that is about to save a node.                                           *)
Claims ==
  /\ \A n \in NodeIds : origin[n] # None => used[origin[n]] = 1
  /\ \A s \in Slots : call[s].stage = "consumed" =>
       /\ call[s].token \in Tokens /\ used[call[s].token] = 1
       /\ \A n \in NodeIds : origin[n] # call[s].token
  /\ \A r, s \in Slots :
       r # s /\ call[r].stage = "consumed" /\ call[s].stage = "consumed"
         => call[r].token # call[s].token

(* An id that the agent has, or is about to get, is that of a saved node.  *)
Ids ==
  /\ \A n \in {id, saved} \ {None} : origin[n] # None
  /\ \A s \in Slots : call[s].stage = "answered" /\ call[s].token # None =>
       call[s].node # None /\ origin[call[s].node] # None
  /\ \A s \in Slots : call[s].stage \in {"checked", "kept", "updated"} => call[s].token = None
  /\ proc = "asking" /\ cur # None => call[cur].token # None

TokenInv == TypeInv /\ Claims /\ Ids /\ TokenOnce

LEMMA TokenInit == Init => TokenInv
BY TypeInit DEF Init, TokenInv, Claims, Ids, TokenOnce, Free

(* Nothing is consumed or saved: requests may end or begin, stages change, *)
(* but none to "consumed" or "answered", and ids may be dropped or copied. *)
LEMMA NoClaim ==
  ASSUME TokenInv, TypeInv', UNCHANGED <<used, origin>>,
         \A s \in Slots :
           \/ call'[s].stage \in {"free", "sent", "refused"}
           \/ call'[s].stage \in {"checked", "kept", "updated", "answered"} /\ call'[s].token = None
           \/ call'[s] = call[s],
         {id, saved}' \subseteq {id, saved, None},
         proc' = "asking" /\ cur' # None => call'[cur'].token # None
  PROVE  TokenInv'
<1>1. Claims'
  BY DEF TokenInv, Claims
<1>2. Ids'
  BY DEF TokenInv, Ids
<1>3. TokenOnce'
  BY DEF TokenInv, TokenOnce
<1> QED BY <1>1, <1>2, <1>3 DEF TokenInv

LEMMA TokenStep == TokenInv /\ [Next]_vars => TokenInv'
<1> SUFFICES ASSUME TokenInv, [Next]_vars
             PROVE  TokenInv'
  OBVIOUS
<1> TypeInv /\ TypeInv'
  BY TypeStep DEF TokenInv
<1> call \in [Slots -> Calls] /\ cur \in Slots \cup {None}
  BY DEF TypeInv, TypeOK
<1> Ids
  BY DEF TokenInv
<1> USE DEF panel, agent
<1>1. ASSUME RunStep
      PROVE  TokenInv'
  <2>1. CASE Start
    BY <2>1, NoClaim DEF Start
  <2>2. CASE Registered
    <3>1. /\ call[cur].token # None /\ call[cur].stage = "answered" /\ cur \in Slots
          /\ id' = call[cur].node
          /\ call' = [call EXCEPT ![cur] = Free]
      BY <2>2 DEF Registered, Over, Ids
    <3>2. Claims'
      BY <2>2, <3>1 DEF Registered, TokenInv, Claims, Free
    <3>3. Ids'
      BY <2>2, <3>1 DEF Registered, Over, Ids, Free
    <3>4. TokenOnce'
      BY <2>2 DEF Registered, TokenInv, TokenOnce
    <3> QED BY <3>2, <3>3, <3>4 DEF TokenInv
  <2>3. CASE RegisterFails
    BY <2>3, NoClaim DEF RegisterFails, Over, Free
  <2>4. CASE OpenConfig
    BY <2>4, NoClaim DEF OpenConfig
  <2>9. CASE WriteConfig
    BY <2>9, NoClaim DEF WriteConfig
  <2>5. CASE HeartbeatOver
    BY <2>5, NoClaim DEF HeartbeatOver, Over, Free
  <2>6. CASE HeartbeatFails
    BY <2>6, NoClaim DEF HeartbeatFails, Over, Free
  <2>7. ASSUME NEW s \in Slots, Register(s)
        PROVE  TokenInv'
    <3>1. /\ call'[s].stage = "sent" /\ call'[s].token = token /\ cur' = s
          /\ \A r \in Slots \ {s} : call'[r] = call[r]
      BY <2>7 DEF Register, Send, Free
    <3>2. token # None
      BY ExchangeAssumption DEF TypeInv, TypeOK, ExchangeAssumption
    <3> QED BY <2>7, <3>1, <3>2, NoClaim DEF Register
  <2>8. ASSUME NEW s \in Slots, Heartbeat(s)
        PROVE  TokenInv'
    <3>1. /\ call'[s].stage = "sent" 
          /\ \A r \in Slots \ {s} : call'[r] = call[r]
      BY <2>8 DEF Heartbeat, Send, Free
    <3> QED BY <2>8, <3>1, NoClaim DEF Heartbeat
  <2> QED BY <1>1, <2>1, <2>2, <2>3, <2>4, <2>5, <2>6, <2>7, <2>8, <2>9 DEF RunStep
<1>2. ASSUME NEW b \in SUBSET Tests, Perform(b)
      PROVE  TokenInv'
  BY <1>2, NoClaim DEF Perform, Ids
<1>3. ASSUME NEW s \in Slots, HandlerStep(s)
      PROVE  TokenInv'
  <2>1. CASE Consume(s)
    <3>1. CASE Usable(call[s].token)
      <4> DEFINE k == call[s].token
      <4>1. /\ k \in Tokens /\ used[k] = 0
            /\ used' = [used EXCEPT ![k] = @ + 1] /\ Advance(s, "consumed")
        <5>1. k \in Tokens
          BY <2>1, CallParts DEF Consume
        <5>2. used[k] \in {0, 1}
          BY <5>1 DEF TypeInv, TypeOK
        <5> QED BY <2>1, <3>1, <5>1, <5>2 DEF Consume, Usable
      <4>2. used'[k] = 1 /\ \A j \in Tokens \ {k} : used'[j] = used[j]
        BY <4>1 DEF TypeInv, TypeOK
      <4>3. /\ call'[s].stage = "consumed" /\ call'[s].token = k
            /\ \A r \in Slots \ {s} : call'[r] = call[r]
            /\ \A r \in Slots : call'[r].token = call[r].token
        BY <4>1, Advanced DEF Stages
      <4>4. \A n \in NodeIds : origin[n] # k /\ origin[n] \in Tokens \cup {None}
        BY <4>1, ExchangeAssumption
           DEF TokenInv, Claims, TypeInv, TypeOK, ExchangeAssumption
      <4>5. \A r \in Slots \ {s} : call[r].stage = "consumed" => call[r].token # k
        BY <4>1 DEF TokenInv, Claims
      <4>6. origin' = origin
        BY <2>1 DEF Consume
      <4>7. Claims'
        BY <4>1, <4>2, <4>3, <4>4, <4>5, <4>6 DEF TokenInv, Claims
      <4>8. Ids'
        BY <2>1, <4>3 DEF Consume, Ids
      <4>9. TokenOnce'
        BY <4>6 DEF TokenInv, TokenOnce
      <4> QED BY <4>7, <4>8, <4>9 DEF TokenInv
    <3>2. CASE ~ Usable(call[s].token)
      <4>1. Advance(s, "refused") /\ UNCHANGED used
        BY <2>1, <3>2 DEF Consume
      <4> QED BY <2>1, <4>1, Advanced, NoClaim DEF Consume, Stages, Ids
    <3> QED BY <3>1, <3>2
  <2>2. CASE SaveNode(s)
    <3>1. PICK n \in NodeIds : /\ origin[n] = None
                               /\ origin' = [origin EXCEPT ![n] = call[s].token]
                               /\ call' = [call EXCEPT ![s].stage = "answered",
                                                       ![s].node = n]
      BY <2>2 DEF SaveNode
    <3>2. /\ call'[s].stage = "answered" /\ call'[s].node = n
          /\ call'[s].token = call[s].token
          /\ \A r \in Slots \ {s} : call'[r] = call[r]
      BY <3>1 DEF Calls
    <3>3. /\ call[s].token \in Tokens /\ used[call[s].token] = 1
          /\ \A m \in NodeIds : origin[m] # call[s].token
      BY <2>2 DEF SaveNode, TokenInv, Claims
    <3>4. /\ origin'[n] = call[s].token /\ origin'[n] # None
          /\ \A m \in NodeIds \ {n} : origin'[m] = origin[m]
      BY <3>1, <3>3, ExchangeAssumption DEF TypeInv, TypeOK, ExchangeAssumption
    <3>5. Claims'
      <4>1. call[s].stage = "consumed" /\ used' = used
        BY <2>2 DEF SaveNode
      <4>2. \A r \in Slots \ {s} : call[r].stage = "consumed" => call[r].token # call[s].token
        BY <4>1 DEF TokenInv, Claims
      <4> QED BY <3>2, <3>3, <3>4, <4>1, <4>2 DEF TokenInv, Claims
    <3>6. Ids'
      BY <2>2, <3>1, <3>2, <3>3, <3>4, ExchangeAssumption
         DEF SaveNode, Ids, TypeInv, TypeOK, ExchangeAssumption
    <3>7. TokenOnce'
      BY <3>3, <3>4 DEF TokenInv, TokenOnce
    <3> QED BY <3>5, <3>6, <3>7 DEF TokenInv
  <2>3. CASE Keep(s)
    <3>1. Advance(s, "kept") /\ "kept" \in Stages
      BY <2>3 DEF Keep, Stages
    <3> QED BY <2>3, <3>1, Advanced, NoClaim DEF Keep, Ids
  <2>7. CASE Check(s)
    <3>1. PICK g \in Stages : Advance(s, g) /\ g \in {"checked", "refused"}
      BY <2>7 DEF Check, Stages
    <3> QED BY <2>7, <3>1, Advanced, NoClaim DEF Check, Ids
  <2>4. CASE Update(s)
    <3>1. PICK g \in Stages : Advance(s, g) /\ g \in {"updated", "refused"}
      BY <2>4 DEF Update, Stages
    <3> QED BY <2>4, <3>1, Advanced, NoClaim DEF Update, Ids
  <2>5. CASE Pull(s)
    <3>1. call[s].token = None
      BY <2>5 DEF Pull, Ids
    <3>2. /\ call'[s].stage = "answered" /\ call'[s].token = None
          /\ \A r \in Slots \ {s} : call'[r] = call[r]
      BY <2>5, <3>1 DEF Pull, Calls
    <3> QED BY <2>5, <3>2, NoClaim DEF Pull, Ids
  <2>6. CASE Discard(s)
    BY <2>6, NoClaim DEF Discard, Free, Ids
  <2> QED BY <1>3, <2>1, <2>2, <2>3, <2>4, <2>5, <2>6, <2>7 DEF HandlerStep
<1>4. ASSUME Perturb
      PROVE  TokenInv'
  <2>1. CASE GiveUp
    BY <2>1, NoClaim DEF GiveUp
  <2>2. CASE Crash
    BY <2>2, NoClaim DEF Crash
  <2>3. ASSUME NEW s \in Slots, Fail(s)
        PROVE  TokenInv'
    BY <2>3, Advanced, NoClaim DEF Fail, Ids, Stages
  <2>4. CASE SaveConfigFails
    BY <2>4, NoClaim DEF SaveConfigFails
  <2> QED BY <1>4, <2>1, <2>2, <2>3, <2>4 DEF Perturb
<1>5. ASSUME People
      PROVE  TokenInv'
  BY <1>5, NoClaim DEF People, CreateTest, DeleteNode, CleanupExpired, NewToken, Ids
<1>6. CASE UNCHANGED vars
  BY <1>6, NoClaim DEF vars, Ids
<1> QED BY <1>1, <1>2, <1>3, <1>4, <1>5, <1>6 DEF Next

(* ConsumeNodeToken: a token admits one node at most, for any number of    *)
(* requests that carry it, answered or not.                                *)
THEOREM TokenRegistersOnce == Spec => []TokenOnce
<1>1. TokenInv => TokenOnce
  BY DEF TokenInv
<1> QED BY <1>1, TokenInit, TokenStep, PTL DEF Spec

(* Agent.Register and SaveConfig: the id the agent works under, or finds   *)
(* in agent.json, is that of a node the panel saved for a used token.      *)
THEOREM IdIsKnown == Spec => []KnownId
<1>1. TokenInv => KnownId
  BY DEF TokenInv, Claims, Ids, KnownId, TypeInv, TypeOK
<1> QED BY <1>1, TokenInit, TokenStep, PTL DEF Spec

-----------------------------------------------------------------------------
Begun(t) == shown[t] \notin {"absent", "queued"}

(* A test that is handed out and not performed is in one place: an answer, *)
(* or the goroutine that will perform it.                                  *)
ToDo ==
  /\ \A s \in Slots : \A t \in call[s].answer : Begun(t) /\ found[t] = None
  /\ \A b \in work : \A t \in b : Begun(t) /\ found[t] = None

Apart ==
  /\ \A r, s \in Slots : r # s => call[r].answer \cap call[s].answer = {}
  /\ \A b \in work, s \in Slots : b \cap call[s].answer = {}
  /\ \A b, c \in work : b # c => b \cap c = {}

Truthful ==
  \A t \in Tests : /\ ~ Begun(t) => found[t] = None
                   /\ shown[t] \in Outcomes => shown[t] = found[t]

JobInv == TypeInv /\ ToDo /\ Apart /\ Truthful

LEMMA JobInit == Init => JobInv /\ Jobs!Init
<1> SUFFICES ASSUME Init
             PROVE  JobInv /\ Jobs!Init
  OBVIOUS
<1>1. \A s \in Slots : call[s].answer = {}
  BY DEF Init, Free
<1>2. Truthful
  BY ExchangeAssumption DEF Init, Truthful, Begun, ExchangeAssumption
<1> QED BY <1>1, <1>2, TypeInit DEF Init, JobInv, ToDo, Apart, Jobs!Init

(* No test moves on: a place may only lose what it held.                   *)
LEMMA NoMove ==
  ASSUME JobInv, TypeInv', UNCHANGED <<shown, found>>, work' \subseteq work,
         \A s \in Slots : call'[s].answer \subseteq call[s].answer
  PROVE  JobInv' /\ UNCHANGED Jobs!jobs
<1>1. ToDo'
  BY DEF JobInv, ToDo, Begun
<1>2. Apart'
  BY DEF JobInv, Apart
<1>3. Truthful'
  BY DEF JobInv, Truthful, Begun
<1> QED BY <1>1, <1>2, <1>3 DEF JobInv, Jobs!jobs

(* The end of a request, and its begin, leave no test in its slot.         *)
LEMMA Emptied ==
  ASSUME NEW s \in Slots, NEW c,
         call \in [Slots -> Calls], call' = [call EXCEPT ![s] = c], c.answer = {}
  PROVE  \A r \in Slots : call'[r].answer \subseteq call[r].answer
OBVIOUS

LEMMA JobStep ==
  ASSUME ~ WritesFail, JobInv, [Next]_vars
  PROVE  JobInv' /\ [Jobs!Next]_(Jobs!jobs)
<1> TypeInv /\ TypeInv' /\ ToDo /\ Apart /\ Truthful
  BY TypeStep DEF JobInv
<1> /\ call \in [Slots -> Calls] /\ cur \in Slots \cup {None}
    /\ shown \in [Tests -> Outcomes \cup {"absent", "queued", "running", "gone"}]
    /\ found \in [Tests -> Outcomes \cup {None}]
    /\ work \in SUBSET (SUBSET Tests)
  BY DEF TypeInv, TypeOK
<1> USE DEF panel, agent
<1>1. ASSUME RunStep
      PROVE  JobInv' /\ [Jobs!Next]_(Jobs!jobs)
  <2>1. CASE Start
    BY <2>1, NoMove DEF Start
  <2>2. CASE Registered
    BY <2>2, NoMove, Emptied DEF Registered, Over, Free
  <2>3. CASE RegisterFails
    BY <2>3, NoMove, Emptied DEF RegisterFails, Over, Free
  <2>4. CASE OpenConfig \/ WriteConfig
    BY <2>4, NoMove DEF OpenConfig, WriteConfig
  <2>5. CASE HeartbeatOver
    <3> DEFINE S == call[cur].answer
    <3>1. /\ cur \in Slots /\ call' = [call EXCEPT ![cur] = Free]
          /\ work' = work \cup Goroutine(S) /\ UNCHANGED <<shown, found>>
      BY <2>5 DEF HeartbeatOver, Over
    <3>2. /\ call'[cur].answer = {}
          /\ \A s \in Slots \ {cur} : call'[s] = call[s]
      BY <3>1 DEF Free
    <3>3. \A b \in work' : b \in work \/ b = S
      BY <3>1 DEF Goroutine
    <3>4. ToDo'
      BY <3>1, <3>2, <3>3 DEF ToDo, Begun
    <3>5. Apart'
      BY <3>1, <3>2, <3>3 DEF Apart
    <3>6. Truthful'
      BY <3>1 DEF Truthful, Begun
    <3>7. UNCHANGED Jobs!jobs
      BY <3>1 DEF Jobs!jobs
    <3> QED BY <3>4, <3>5, <3>6, <3>7 DEF JobInv
  <2>6. CASE HeartbeatFails
    BY <2>6, NoMove, Emptied DEF HeartbeatFails, Over, Free
  <2>7. ASSUME NEW s \in Slots, Register(s)
        PROVE  JobInv' /\ [Jobs!Next]_(Jobs!jobs)
    BY <2>7, NoMove, Emptied DEF Register, Send, Free
  <2>8. ASSUME NEW s \in Slots, Heartbeat(s)
        PROVE  JobInv' /\ [Jobs!Next]_(Jobs!jobs)
    BY <2>8, NoMove, Emptied DEF Heartbeat, Send, Free
  <2> QED BY <1>1, <2>1, <2>2, <2>3, <2>4, <2>5, <2>6, <2>7, <2>8 DEF RunStep
<1>2. ASSUME NEW b \in SUBSET Tests, Perform(b)
      PROVE  JobInv' /\ [Jobs!Next]_(Jobs!jobs)
  <2>1. PICK t \in b, o \in Outcomes :
          /\ found' = [found EXCEPT ![t] = o]
          /\ work' = (work \ {b}) \cup Goroutine(b \ {t})
    BY <1>2 DEF Perform
  <2>2. /\ t \in Tests /\ b \in work /\ Begun(t) /\ found[t] = None
        /\ UNCHANGED <<shown, call>>
    BY <1>2 DEF Perform, ToDo
  <2>3. /\ found'[t] = o
        /\ \A u \in Tests \ {t} : found'[u] = found[u]
    BY <2>1, <2>2
  <2>4. /\ \A c \in work' : t \notin c /\ \E d \in work : c \subseteq d
        /\ \A c \in work' : c = b \ {t} \/ (c \in work /\ c # b)
    BY <2>1, <2>2 DEF Goroutine, Apart
  <2>5. \A s \in Slots : t \notin call[s].answer
    BY <2>2 DEF Apart
  <2>6. ToDo'
    <3>1. \A s \in Slots : call[s].answer \subseteq Tests
      BY CallParts
    <3> QED BY <2>2, <2>3, <2>4, <2>5, <3>1 DEF ToDo, Begun
  <2>7. Apart'
    BY <2>2, <2>4 DEF Apart
  <2>8. Truthful'
    BY <2>2, <2>3, ExchangeAssumption DEF Truthful, Begun, ExchangeAssumption
  <2>9. Jobs!Perform(t, o)
    <3>1. shown[t] \in {"running", "gone"}
      BY <2>2, ExchangeAssumption DEF Begun, Truthful, ExchangeAssumption
    <3> QED BY <2>1, <2>2, <3>1 DEF Jobs!Perform
  <2>10. Jobs!Next
    BY <2>2, <2>9 DEF Jobs!Next
  <2> QED BY <2>6, <2>7, <2>8, <2>10 DEF JobInv
<1>3. ASSUME NEW s \in Slots, HandlerStep(s)
      PROVE  JobInv' /\ [Jobs!Next]_(Jobs!jobs)
  <2> call[s] \in Calls
    OBVIOUS
  <2>1. CASE Consume(s)
    <3>1. PICK g \in Stages : Advance(s, g)
      BY <2>1 DEF Consume, Stages
    <3> QED BY <2>1, <3>1, Advanced, NoMove DEF Consume
  <2>2. CASE SaveNode(s)
    <3>1. \A r \in Slots : call'[r].answer = call[r].answer
      BY <2>2 DEF SaveNode, Calls
    <3> QED BY <2>2, <3>1, NoMove DEF SaveNode
  <2>3. CASE Keep(s)
    <3>1. Advance(s, "kept") /\ "kept" \in Stages
      BY <2>3 DEF Keep, Stages
    <3>2. UNCHANGED <<found, work>> /\ \A r \in Slots : call'[r].answer = call[r].answer
      BY <2>3, <3>1, Advanced DEF Keep
    <3> DEFINE S == {t \in Accepted(s) : shown[t] = "running"}
    <3>3. shown' = [t \in Tests |-> IF t \in Accepted(s) THEN found[t] ELSE shown[t]]
      BY <2>3 DEF Keep, Written
    <3>4. \A t \in Accepted(s) :
            /\ t \in Tests /\ found[t] \in Outcomes /\ Begun(t)
            /\ shown[t] \in Outcomes \cup {"running"}
      <4>1. \A t \in Accepted(s) : t \in call[s].results /\ shown[t] \notin {"absent", "gone"}
        BY DEF Accepted
      <4>2. \A t \in call[s].results : t \in Tests /\ found[t] # None
        BY CallParts DEF TypeInv, Reportable
      <4> QED BY <4>1, <4>2 DEF Truthful, Begun
    <3>5. \A t \in Tests : IF t \in S THEN shown'[t] = found[t] ELSE shown'[t] = shown[t]
      BY <3>3, <3>4 DEF Truthful
    <3>6. \A t \in Tests : Begun(t) => Begun(t)'
      BY <3>3, <3>4, ExchangeAssumption DEF Begun, ExchangeAssumption
    <3>7. ToDo'
      <4>1. \A r \in Slots : call[r].answer \subseteq Tests
        BY CallParts
      <4> QED BY <3>2, <3>6, <4>1 DEF ToDo
    <3>8. Apart'
      BY <3>2 DEF Apart
    <3>9. Truthful'
      BY <3>2, <3>3, <3>4, ExchangeAssumption DEF Truthful, Begun, ExchangeAssumption
    <3>10. Jobs!Publish(S)
      <4>1. shown' = [t \in Tests |-> IF t \in S THEN found[t] ELSE shown[t]]
        BY <3>3, <3>5
      <4>2. \A t \in S : shown[t] = "running" /\ found[t] # None
        BY <3>4, ExchangeAssumption DEF ExchangeAssumption
      <4> QED BY <3>2, <4>1, <4>2 DEF Jobs!Publish
    <3>11. S \in SUBSET Tests
      BY <3>4
    <3>12. Jobs!Next
      BY <3>10, <3>11 DEF Jobs!Next
    <3> QED BY <3>7, <3>8, <3>9, <3>12 DEF JobInv
  <2>7. CASE Check(s)
    <3>1. PICK g \in Stages : Advance(s, g)
      BY <2>7 DEF Check, Stages
    <3> QED BY <2>7, <3>1, Advanced, NoMove DEF Check
  <2>4. CASE Update(s)
    <3>1. PICK g \in Stages : Advance(s, g)
      BY <2>4 DEF Update, Stages
    <3> QED BY <2>4, <3>1, Advanced, NoMove DEF Update
  <2>5. CASE Pull(s)
    <3> DEFINE S == Oldest(call[s].node)
    <3>1. \A t \in S : t \in Tests /\ shown[t] = "queued"
      BY DEF Oldest, Queued
    <3>2. /\ shown' = [t \in Tests |-> IF t \in S THEN "running" ELSE shown[t]]
          /\ call' = [call EXCEPT ![s].stage = "answered", ![s].answer = S]
          /\ UNCHANGED <<found, work>>
      BY <2>5 DEF Pull, Written
    <3>3. /\ call'[s].answer = S
          /\ \A r \in Slots \ {s} : call'[r] = call[r]
      BY <3>2 DEF Calls
    <3>4. /\ \A r \in Slots : S \cap call[r].answer = {}
          /\ \A b \in work : S \cap b = {}
      BY <3>1 DEF ToDo, Begun
    <3>5. \A t \in Tests : /\ Begun(t) => Begun(t)'
                           /\ t \in S => Begun(t)' /\ found[t] = None
      BY <3>1, <3>2 DEF Begun, Truthful
    <3>6. ToDo'
      <4>1. \A r \in Slots : call[r].answer \subseteq Tests
        BY CallParts
      <4> QED BY <3>1, <3>2, <3>3, <3>5, <4>1 DEF ToDo
    <3>7. Apart'
      BY <3>2, <3>3, <3>4 DEF Apart
    <3>8. Truthful'
      BY <3>1, <3>2, ExchangeAssumption DEF Truthful, Begun, ExchangeAssumption
    <3>9. Jobs!HandOut(S) /\ S \in SUBSET Tests
      BY <3>1, <3>2 DEF Jobs!HandOut
    <3>10. Jobs!Next
      BY <3>9 DEF Jobs!Next
    <3> QED BY <3>6, <3>7, <3>8, <3>10 DEF JobInv
  <2>6. CASE Discard(s)
    BY <2>6, NoMove, Emptied DEF Discard, Free
  <2> QED BY <1>3, <2>1, <2>2, <2>3, <2>4, <2>5, <2>6, <2>7 DEF HandlerStep
<1>4. ASSUME Perturb
      PROVE  JobInv' /\ [Jobs!Next]_(Jobs!jobs)
  <2>1. CASE GiveUp
    BY <2>1, NoMove DEF GiveUp
  <2>2. CASE Crash
    BY <2>2, NoMove DEF Crash
  <2>3. ASSUME NEW s \in Slots, Fail(s)
        PROVE  JobInv' /\ [Jobs!Next]_(Jobs!jobs)
    BY <2>3, Advanced, NoMove DEF Fail, Stages
  <2>4. CASE SaveConfigFails
    BY <2>4, NoMove DEF SaveConfigFails
  <2> QED BY <1>4, <2>1, <2>2, <2>3, <2>4 DEF Perturb
<1>5. ASSUME People
      PROVE  JobInv' /\ [Jobs!Next]_(Jobs!jobs)
  <2>1. ASSUME NEW n \in NodeIds, CreateTest(n)
        PROVE  JobInv' /\ [Jobs!Next]_(Jobs!jobs)
    <3>1. PICK t \in Tests : shown[t] = "absent" /\ shown' = [shown EXCEPT ![t] = "queued"]
      BY <2>1 DEF CreateTest
    <3>2. UNCHANGED <<found, work, call>>
      BY <2>1 DEF CreateTest
    <3>3. \A u \in Tests : Begun(u)' <=> Begun(u)
      BY <3>1 DEF Begun
    <3>4. ToDo'
      <4>1. \A r \in Slots : call[r].answer \subseteq Tests
        BY CallParts
      <4> QED BY <3>2, <3>3, <4>1 DEF ToDo
    <3>5. Apart'
      BY <3>2 DEF Apart
    <3>6. Truthful'
      BY <3>1, <3>2, <3>3, ExchangeAssumption DEF Truthful, ExchangeAssumption
    <3>7. Jobs!Create(t)
      BY <3>1, <3>2 DEF Jobs!Create
    <3> QED BY <3>4, <3>5, <3>6, <3>7 DEF JobInv, Jobs!Next
  <2>2. ASSUME NEW n \in NodeIds, DeleteNode(n)
        PROVE  JobInv' /\ [Jobs!Next]_(Jobs!jobs)
    BY <2>2, NoMove DEF DeleteNode
  <2>3. ASSUME NEW t \in Tests, CleanupExpired(t)
        PROVE  JobInv' /\ [Jobs!Next]_(Jobs!jobs)
    <3>1. /\ shown[t] # "absent" /\ shown' = [shown EXCEPT ![t] = "gone"]
          /\ UNCHANGED <<found, work, call>>
      BY <2>3 DEF CleanupExpired
    <3>2. \A u \in Tests : Begun(u) => Begun(u)'
      BY <3>1 DEF Begun
    <3>3. ToDo'
      <4>1. \A r \in Slots : call[r].answer \subseteq Tests
        BY CallParts
      <4> QED BY <3>1, <3>2, <4>1 DEF ToDo
    <3>4. Apart'
      BY <3>1 DEF Apart
    <3>5. Truthful'
      BY <3>1, <3>2, ExchangeAssumption DEF Truthful, ExchangeAssumption
    <3>6. Jobs!Remove(t)
      BY <3>1 DEF Jobs!Remove
    <3> QED BY <3>3, <3>4, <3>5, <3>6 DEF JobInv, Jobs!Next
  <2>4. CASE NewToken
    BY <2>4, NoMove DEF NewToken
  <2> QED BY <1>5, <2>1, <2>2, <2>3, <2>4 DEF People
<1>6. CASE UNCHANGED vars
  BY <1>6, NoMove DEF vars
<1> QED BY <1>1, <1>2, <1>3, <1>4, <1>5, <1>6 DEF Next

(* CreateConnectivityTest to SaveConnectivityTestResults: if the writes of *)
(* a test succeed, then it is performed once at most and what is shown of  *)
(* it is, for good, what the node found, whatever becomes of the requests, *)
(* the agent and the panel.                                                *)
THEOREM TestsImplemented ==
  ASSUME ~ WritesFail
  PROVE  Spec => TestsAsPromised
<1>1. Init => JobInv /\ Jobs!Init
  BY JobInit
<1>2. JobInv /\ [Next]_vars => JobInv' /\ [Jobs!Next]_(Jobs!jobs)
  BY JobStep
<1> QED BY <1>1, <1>2, PTL DEF Spec, TestsAsPromised, Jobs!Spec
=============================================================================
