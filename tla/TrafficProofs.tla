---------------------------- MODULE TrafficProofs ----------------------------
(***************************************************************************)
(* What the panel bills, for any number of rules and any amount of         *)
(* traffic.                                                                *)
(*                                                                         *)
(* Never too much: what has been billed, plus what the counters of the     *)
(* agent would still be charged, is at most what was carried, at once      *)
(* (Settled) and after the report under way (InFlight).  A forwarder that  *)
(* starts again only lowers the second term.                               *)
(*                                                                         *)
(* The user: what a charge adds to the rules it adds to their owner, and   *)
(* nothing else moves either (Ledger).  A sum over the rules counts pairs  *)
(* of a rule and one of its bytes: that solves the equation of the fold    *)
(* (SumExists), nothing else does (SumUnique), and it adds up by columns.  *)
(*                                                                         *)
(* Exactly once: while the forwarder of a rule lives, its counters only    *)
(* grow, from what the panel remembers over what is reported to what they  *)
(* are now, and the bill is the first of these (Metered).                  *)
(***************************************************************************)
EXTENDS Traffic, FiniteSetTheorems, TLAPS

MaybeCounts == Counts \cup {None}

(* No rule asks for both protocols at once.                                *)
Single == \A v \in Versions, p, q \in Protos :
            p \in Protocol[v] /\ q \in Protocol[v] => p = q

(* Of the two slots of a rule at most one is in use, so that both together *)
(* hold the counters of one forwarder.                                     *)
One(f, id)  == f[<<id, "tcp">>] = None \/ f[<<id, "udp">>] = None
Both(f, id) == Or(f[<<id, "udp">>], f[<<id, "tcp">>])

OneSlot == \A id \in Rules : One(fwd, id) /\ One(req, id)

Now(id) == Counters(Both(fwd, id))
Rep(id) == Both(req, id)

Settled ==
  \A id \in Rules : row[id] # None =>
    billed[id] + Delta(status[id], Now(id)) <= carried[id]

InFlight ==
  \A id \in Rules : row[id] # None /\ hb \in {"sent", "orphan"} =>
    billed[id] + Delta(status[id], Rep(id))
      + Delta(Or(Rep(id), status[id]), Now(id)) <= carried[id]

BillInv == TypeOK /\ OneSlot /\ Settled /\ InFlight /\ NeverOvercharged

-----------------------------------------------------------------------------
(* What Delta returns.                                                     *)

LEMMA DeltaNat ==
  ASSUME NEW old \in MaybeCounts, NEW new \in MaybeCounts
  PROVE  Delta(old, new) \in Nat
<1>1. CASE new = None
  BY <1>1 DEF Delta
<1>2. CASE new # None /\ old = None
  BY <1>2 DEF Delta, MaybeCounts, Counts, Total
<1>3. CASE new # None /\ old # None
  BY <1>3 DEF Delta, MaybeCounts, Counts, Total
<1> QED  BY <1>1, <1>2, <1>3

(* No report, a report of the same counters and one of fresh counters cost *)
(* nothing.                                                                *)
LEMMA DeltaZero ==
  ASSUME NEW old \in MaybeCounts
  PROVE  /\ Delta(old, None) = 0
         /\ Delta(old, old) = 0
         /\ Delta(old, [in |-> 0, out |-> 0]) = 0
<1> DEFINE zero == [in |-> 0, out |-> 0]
<1>1. Delta(old, None) = 0
  BY DEF Delta
<1>2. Delta(old, old) = 0
  BY DEF Delta, MaybeCounts, Counts, Total
<1>3. zero.in = 0 /\ zero.out = 0
  OBVIOUS
<1>4. old # None => old.in \in Nat /\ old.out \in Nat
  BY DEF MaybeCounts, Counts
<1> HIDE DEF zero
<1>5. Delta(old, zero) = 0
  BY <1>3, <1>4 DEF Delta, Total
<1> QED  BY <1>1, <1>2, <1>5 DEF zero

(* One byte more costs at most one byte more.                              *)
LEMMA DeltaGrows ==
  ASSUME NEW old \in MaybeCounts, NEW a \in Counts, NEW b \in Counts,
         \/ b.in = a.in + 1 /\ b.out = a.out
         \/ b.in = a.in /\ b.out = a.out + 1
  PROVE  Delta(old, b) <= Delta(old, a) + 1
<1>0. a # None /\ b # None
  BY TrafficAssumption DEF TrafficAssumption
<1>1. a.in \in Nat /\ a.out \in Nat /\ b.in \in Nat /\ b.out \in Nat
  BY DEF Counts
<1>2. old # None => old.in \in Nat /\ old.out \in Nat
  BY DEF MaybeCounts, Counts
<1> QED  BY <1>0, <1>1, <1>2 DEF Delta, Total

LEMMA OrMaybe ==
  ASSUME NEW new \in MaybeCounts, NEW old \in MaybeCounts
  PROVE  Or(new, old) \in MaybeCounts
BY DEF Or

LEMMA CountersMaybe ==
  ASSUME NEW f \in Forwarders \cup {None}
  PROVE  /\ Counters(f) \in MaybeCounts
         /\ f # None => Counters(f) = [in |-> f.in, out |-> f.out] /\ Counters(f) \in Counts
BY DEF Counters, MaybeCounts, Counts, Forwarders

-----------------------------------------------------------------------------
(* Types.                                                                  *)

LEMMA ForwarderType ==
  ASSUME TypeOK, NEW R \in Answers, NEW s \in Slots
  PROVE  Forwarder(R, s) \in Forwarders \cup {None}
<1>1. s[1] \in Rules /\ R[s[1]] \in Versions \cup {None} /\ fwd[s] \in Forwarders \cup {None}
  BY DEF Slots, Answers, TypeOK
<1>2. R[s[1]] # None => [ver |-> R[s[1]], in |-> 0, out |-> 0] \in Forwarders
  BY <1>1 DEF Forwarders
<1> QED  BY <1>1, <1>2 DEF Forwarder

LEMMA ForwardTypes ==
  ASSUME TypeOK, NEW R \in Answers, Forward(R)
  PROVE  fwd' \in [Slots -> Forwarders \cup {None}] /\ interrupted' \in [Rules -> BOOLEAN]
<1>1. fwd' \in [Slots -> Forwarders \cup {None}]
  BY ForwarderType DEF Forward
<1>2. interrupted' \in [Rules -> BOOLEAN]
  BY DEF Forward, Dropped, TypeOK
<1> QED  BY <1>1, <1>2

LEMMA RoundEndsTypes ==
  ASSUME RoundEnds
  PROVE  /\ hb' = "idle" /\ req' = NoReports
         /\ req' \in [Slots -> Counts \cup {None}] /\ answer' \in Answers
BY DEF RoundEnds, NoReports, Nothing, Answers

LEMMA MoreTypes ==
  ASSUME NEW f \in Forwarders, NEW way \in Ways
  PROVE  /\ More(f, way) \in Forwarders
         /\ \/ More(f, way).in = f.in + 1 /\ More(f, way).out = f.out
            \/ More(f, way).in = f.in /\ More(f, way).out = f.out + 1
<1>1. f.in \in Nat /\ f.out \in Nat
  BY DEF Forwarders
<1>2. [f EXCEPT !.in = @ + 1] \in Forwarders /\ [f EXCEPT !.out = @ + 1] \in Forwarders
  BY DEF Forwarders
<1>3. CASE way = "in"
  <2>1. More(f, way).in = f.in + 1 /\ More(f, way).out = f.out
    BY <1>3 DEF More, Forwarders
  <2> QED  BY <1>2, <1>3, <2>1 DEF More
<1>4. CASE way = "out"
  <2>1. More(f, way).in = f.in /\ More(f, way).out = f.out + 1
    BY <1>4 DEF More, Forwarders
  <2> QED  BY <1>2, <1>4, <2>1 DEF More
<1> QED  BY <1>3, <1>4 DEF Ways

LEMMA CarryTypes ==
  ASSUME TypeOK, NEW s \in Slots, NEW way \in Ways, Carry(s, way)
  PROVE  /\ TypeOK'
         /\ fwd[s] \in Forwarders /\ fwd'[s] \in Forwarders
         /\ \/ fwd'[s].in = fwd[s].in + 1 /\ fwd'[s].out = fwd[s].out
            \/ fwd'[s].in = fwd[s].in /\ fwd'[s].out = fwd[s].out + 1
         /\ \A t \in Slots : t # s => fwd'[t] = fwd[t]
         /\ carried' = [carried EXCEPT ![s[1]] = @ + 1] /\ carried[s[1]] \in Nat
<1>0. fwd[s] # None /\ s[1] \in Rules /\ fwd' = [fwd EXCEPT ![s] = More(fwd[s], way)]
  BY DEF Carry, Slots
<1>1. fwd[s] \in Forwarders /\ fwd \in [Slots -> Forwarders \cup {None}]
  BY <1>0 DEF TypeOK
<1>2. fwd'[s] = More(fwd[s], way) /\ \A t \in Slots : t # s => fwd'[t] = fwd[t]
  BY <1>0, <1>1
<1>3. /\ fwd'[s] \in Forwarders
      /\ \/ fwd'[s].in = fwd[s].in + 1 /\ fwd'[s].out = fwd[s].out
         \/ fwd'[s].in = fwd[s].in /\ fwd'[s].out = fwd[s].out + 1
  BY <1>1, <1>2, MoreTypes
<1>4. fwd' \in [Slots -> Forwarders \cup {None}]
  BY <1>0, <1>1, <1>3, <1>2
<1>5. /\ carried' = [carried EXCEPT ![s[1]] = @ + 1] /\ carried[s[1]] \in Nat
      /\ carried' \in [Rules -> Nat]
  BY <1>0 DEF Carry, TypeOK
<1>6. TypeOK'
  BY <1>4, <1>5 DEF Carry, TypeOK, channelVars, panelVars
<1> QED  BY <1>1, <1>2, <1>3, <1>5, <1>6

LEMMA AgentTypes ==
  ASSUME TypeOK, AgentStep
  PROVE  TypeOK'
<1>1. ASSUME NEW s \in Slots, NEW way \in Ways, Carry(s, way) PROVE TypeOK'
  BY <1>1, CarryTypes
<1>2. CASE Heartbeat
  <2>1. \A s \in Slots : Counters(fwd[s]) \in Counts \cup {None}
    BY CountersMaybe DEF TypeOK, MaybeCounts
  <2>2. req' \in [Slots -> Counts \cup {None}] /\ hb' = "sent"
    BY <1>2, <2>1 DEF Heartbeat
  <2> QED  BY <1>2, <2>2 DEF Heartbeat, TypeOK, agentVars, panelVars, historyVars
<1>3. CASE Apply
  <2>1. answer \in Answers /\ saved' \in Answers
    BY <1>3 DEF Apply, TypeOK
  <2>2. fwd' \in [Slots -> Forwarders \cup {None}] /\ interrupted' \in [Rules -> BOOLEAN]
    BY <1>3, <2>1, ForwardTypes DEF Apply
  <2>3. hb' = "idle" /\ req' \in [Slots -> Counts \cup {None}] /\ answer' \in Answers
    BY <1>3, RoundEndsTypes DEF Apply
  <2> QED  BY <1>3, <2>1, <2>2, <2>3 DEF Apply, TypeOK, panelVars
<1>4. CASE GiveUp
  BY <1>4 DEF GiveUp, TypeOK, agentVars, panelVars, historyVars
<1>5. CASE Lose
  <2>1. hb' = "idle" /\ req' \in [Slots -> Counts \cup {None}] /\ answer' \in Answers
    BY <1>5, RoundEndsTypes DEF Lose
  <2> QED  BY <1>5, <2>1 DEF Lose, TypeOK, agentVars, panelVars, historyVars
<1>6. CASE Crash
  <2>1. /\ hb' \in {"idle", "orphan"}
        /\ req' \in [Slots -> Counts \cup {None}] /\ answer' \in Answers
    BY <1>6, RoundEndsTypes DEF Crash, TypeOK
  <2>2. fwd' \in [Slots -> Forwarders \cup {None}] /\ interrupted' \in [Rules -> BOOLEAN]
    BY <1>6 DEF Crash, Dropped, TypeOK
  <2> QED  BY <1>6, <2>1, <2>2 DEF Crash, TypeOK, panelVars
<1>7. CASE Restart
  <2>1. fwd' \in [Slots -> Forwarders \cup {None}] /\ interrupted' \in [Rules -> BOOLEAN]
    BY <1>7, ForwardTypes DEF Restart, TypeOK
  <2> QED  BY <1>7, <2>1 DEF Restart, TypeOK, channelVars, panelVars
<1> QED  BY <1>1, <1>2, <1>3, <1>4, <1>5, <1>6, <1>7 DEF AgentStep

LEMMA DueType ==
  ASSUME TypeOK, NEW id \in Rules
  PROVE  /\ Due(id) \in Nat /\ AfterUdp(id) \in MaybeCounts
         /\ ChargedRow(id) \in RuleRows \cup {None}
         /\ ChargedRow(id) # None <=> row[id] # None
<1>1. /\ status[id] \in MaybeCounts
      /\ req[<<id, "tcp">>] \in MaybeCounts /\ req[<<id, "udp">>] \in MaybeCounts
  BY DEF TypeOK, MaybeCounts, Slots, Protos
<1>2. AfterTcp(id) \in MaybeCounts /\ AfterUdp(id) \in MaybeCounts
  BY <1>1, OrMaybe DEF AfterTcp, AfterUdp
<1>3. /\ Delta(status[id], req[<<id, "tcp">>]) \in Nat
      /\ Delta(AfterTcp(id), req[<<id, "udp">>]) \in Nat
  BY <1>1, <1>2, DeltaNat
<1>4. Due(id) \in Nat
  BY <1>3 DEF Due
<1>5. row[id] \in RuleRows \cup {None} /\ None \notin RuleRows
  BY TrafficAssumption DEF TypeOK, TrafficAssumption
<1>6. CASE row[id] = None
  BY <1>2, <1>4, <1>6 DEF ChargedRow, Due
<1>7. CASE row[id] # None
  <2>1. [row[id] EXCEPT !.used = @ + Due(id)] \in RuleRows
    BY <1>4, <1>5, <1>7 DEF RuleRows
  <2> QED  BY <1>2, <1>4, <1>5, <1>7, <2>1 DEF ChargedRow
<1> QED  BY <1>6, <1>7

LEMMA PanelTypes ==
  ASSUME TypeOK, Charge \/ ChargeFails \/ Answer
  PROVE  TypeOK'
<1>1. CASE Charge
  <2>1. /\ row' \in [Rules -> RuleRows \cup {None}]
        /\ status' \in [Rules -> Counts \cup {None}]
    BY <1>1, DueType DEF Charge, MaybeCounts
  <2>2. billed' \in [Rules -> Nat]
    BY <1>1, DueType DEF Charge, TypeOK
  <2>3. /\ hb' \in {"idle", "charged"}
        /\ req' \in [Slots -> Counts \cup {None}] /\ answer' \in Answers
    BY <1>1, RoundEndsTypes DEF Charge, TypeOK
  <2> QED  BY <1>1, <2>1, <2>2, <2>3 DEF Charge, TypeOK, agentVars
<1>2. CASE ChargeFails
  <2>1. hb' = "idle" /\ req' \in [Slots -> Counts \cup {None}] /\ answer' \in Answers
    BY <1>2, RoundEndsTypes DEF ChargeFails
  <2> QED  BY <1>2, <2>1 DEF ChargeFails, Rollback, TypeOK, agentVars
<1>3. CASE Answer
  <2>1. answer' \in Answers
    BY <1>3 DEF Answer, Answers, Served, TypeOK, RuleRows
  <2> QED  BY <1>3, <2>1 DEF Answer, TypeOK, agentVars, panelVars, historyVars
<1> QED  BY <1>1, <1>2, <1>3

(* An edit touches neither the agent, nor the heartbeat, nor what has been *)
(* billed.                                                                 *)
LEMMA EditTypes ==
  ASSUME TypeOK, EditStep
  PROVE  TypeOK' /\ UNCHANGED <<fwd, req, hb, billed, carried, interrupted>>
<1> USE TrafficAssumption DEF TrafficAssumption
<1> DEFINE Frame == TypeOK' /\ UNCHANGED <<fwd, req, hb, billed, carried, interrupted>>
<1>0. copy # None => copy.id \in Rules /\ copy.row \in RuleRows
  BY DEF TypeOK
<1>e. Edit => edits' \in 0 .. MaxEdits
  BY DEF Edit, TypeOK
<1>1. ASSUME NEW id \in Rules, Read(id) PROVE Frame
  <2>1. row[id] \in RuleRows /\ row' = row /\ status' = status
    BY <1>1 DEF Read, TypeOK
  <2>2. copy' \in [id : Rules, row : RuleRows]
    BY <1>1, <2>1 DEF Read
  <2> QED
    BY <1>1, <2>1, <2>2 DEF Read, TypeOK, otherVars, agentVars, channelVars
<1>2. ASSUME NEW id \in Rules, DeleteRule(id) PROVE Frame
  <2>1. /\ row' \in [Rules -> RuleRows \cup {None}]
        /\ status' \in [Rules -> Counts \cup {None}]
    BY <1>2 DEF DeleteRule, TypeOK
  <2> QED
    BY <1>2, <1>e, <2>1 DEF DeleteRule, TypeOK, otherVars, agentVars, channelVars
<1>3. ASSUME NEW id \in Rules, ResetRuleTraffic(id) PROVE Frame
  <2>1. [row[id] EXCEPT !.used = 0] \in RuleRows
    BY <1>3 DEF ResetRuleTraffic, TypeOK, RuleRows
  <2>2. row' \in [Rules -> RuleRows \cup {None}]
    BY <1>3, <2>1 DEF ResetRuleTraffic, TypeOK
  <2> QED
    BY <1>3, <1>e, <2>2 DEF ResetRuleTraffic, TypeOK, otherVars, agentVars, channelVars
<1>4. CASE SaveToggle
  <2>1. PICK on \in BOOLEAN :
          row' = [row EXCEPT ![copy.id] = [copy.row EXCEPT !.enabled = on]]
    BY <1>4 DEF SaveToggle
  <2>2. copy # None /\ copy.id \in Rules /\ copy.row \in RuleRows
    BY <1>0, <1>4 DEF SaveToggle
  <2>3. [copy.row EXCEPT !.enabled = on] \in RuleRows
    BY <2>2 DEF RuleRows
  <2>4. row' \in [Rules -> RuleRows \cup {None}]
    BY <2>1, <2>2, <2>3 DEF TypeOK
  <2> QED
    BY <1>4, <1>e, <2>4 DEF SaveToggle, TypeOK, otherVars, agentVars, channelVars
<1>5. CASE Discard
  BY <1>5 DEF Discard, TypeOK, otherVars, agentVars, channelVars
<1>6. CASE ResetUserTraffic
  BY <1>6, <1>e DEF ResetUserTraffic, TypeOK, otherVars, agentVars, channelVars
<1>7. ASSUME NEW on \in BOOLEAN, NEW v \in Versions, SavePut(on, v) PROVE Frame
  <2>1. copy # None /\ copy.id \in Rules /\ copy.row \in RuleRows
    BY <1>0, <1>7 DEF SavePut
  <2>2. [enabled |-> on, ver |-> v, used |-> copy.row.used] \in RuleRows
    BY <2>1 DEF RuleRows
  <2>3. row' \in [Rules -> RuleRows \cup {None}]
    BY <1>7, <2>1, <2>2 DEF SavePut, TypeOK
  <2> QED
    BY <1>7, <1>e, <2>3 DEF SavePut, TypeOK, otherVars, agentVars, channelVars
<1>8. ASSUME NEW limit \in UserLimits, SaveUser(limit) PROVE Frame
  BY <1>8, <1>e DEF SaveUser, TypeOK, otherVars, agentVars, channelVars
<1> QED
  BY <1>1, <1>2, <1>3, <1>4, <1>5, <1>6, <1>7, <1>8 DEF EditStep

(* It may delete a rule with its status, but unless a toggle is saved over *)
(* a deletion it does not bring one back.                                  *)
LEMMA EditFrame ==
  ASSUME TypeOK, EditStep, ~ Resurrect
  PROVE  \A id \in Rules : row'[id] # None => row[id] # None /\ status'[id] = status[id]
<1> DEFINE Frame == \A k \in Rules : row'[k] # None =>
                      row[k] # None /\ status'[k] = status[k]
<1>1. ASSUME NEW id \in Rules, Read(id) \/ DeleteRule(id) \/ ResetRuleTraffic(id)
      PROVE  Frame
  BY <1>1 DEF Read, DeleteRule, ResetRuleTraffic, TypeOK
<1>2. CASE SaveToggle
  BY <1>2 DEF SaveToggle, Savable, TypeOK
<1>3. CASE Discard \/ ResetUserTraffic
  BY <1>3 DEF Discard, ResetUserTraffic
<1>4. ASSUME NEW on \in BOOLEAN, NEW v \in Versions, SavePut(on, v) PROVE Frame
  BY <1>4 DEF SavePut, Savable, TypeOK
<1>5. ASSUME NEW limit \in UserLimits, SaveUser(limit) PROVE Frame
  BY <1>5 DEF SaveUser
<1> QED  BY <1>1, <1>2, <1>3, <1>4, <1>5 DEF EditStep

-----------------------------------------------------------------------------
(* The invariant.                                                          *)

LEMMA SlotsOf ==
  ASSUME NEW id \in Rules
  PROVE  /\ <<id, "tcp">> \in Slots /\ <<id, "udp">> \in Slots
         /\ \A s \in Slots : s[1] = id => s = <<id, "tcp">> \/ s = <<id, "udp">>
         /\ \A s \in Slots : s[1] # id => s # <<id, "tcp">> /\ s # <<id, "udp">>
BY DEF Slots, Protos

LEMMA Reports ==
  ASSUME TypeOK, NEW id \in Rules
  PROVE  /\ Both(fwd, id) \in Forwarders \cup {None}
         /\ Rep(id) \in MaybeCounts /\ status[id] \in MaybeCounts
         /\ Now(id) \in MaybeCounts
         /\ billed[id] \in Nat /\ carried[id] \in Nat
<1>1. Both(fwd, id) \in Forwarders \cup {None}
  BY SlotsOf DEF TypeOK, Both, Or
<1>2. Rep(id) \in MaybeCounts /\ status[id] \in MaybeCounts
  BY SlotsOf DEF TypeOK, Both, Or, Rep, MaybeCounts
<1>3. Now(id) \in MaybeCounts
  BY <1>1, CountersMaybe DEF Now
<1> QED  BY <1>1, <1>2, <1>3 DEF TypeOK

(* With one slot in use the row of a rule holds the counters of one        *)
(* forwarder.                                                              *)
LEMMA OneReport ==
  ASSUME TypeOK, OneSlot, NEW id \in Rules
  PROVE  /\ row[id] # None => Due(id) = Delta(status[id], Rep(id))
         /\ AfterUdp(id) = Or(Rep(id), status[id])
<1>1. Delta(status[id], Rep(id)) \in Nat
  BY Reports, DeltaNat
<1>2. CASE req[<<id, "udp">>] = None
  <2>1. Rep(id) = req[<<id, "tcp">>]
    BY <1>2 DEF Rep, Both, Or
  <2> QED  BY <1>1, <1>2, <2>1 DEF Due, AfterUdp, AfterTcp, Or, Delta
<1>3. CASE req[<<id, "tcp">>] = None
  <2>1. AfterTcp(id) = status[id]
    BY <1>3 DEF AfterTcp, Or
  <2>2. Rep(id) = req[<<id, "udp">>]
    BY <1>3 DEF Rep, Both, Or
  <2>3. Delta(status[id], req[<<id, "tcp">>]) = 0
    BY <1>3 DEF Delta
  <2> QED  BY <1>1, <2>1, <2>2, <2>3 DEF Due, AfterUdp
<1> QED  BY <1>2, <1>3 DEF OneSlot, One

(* A step that bills nothing and only drops forwarders, or starts them at  *)
(* 0, keeps the invariant.                                                 *)
LEMMA QuietStep ==
  ASSUME BillInv, TypeOK', OneSlot',
         UNCHANGED <<billed, carried>>,
         hb' \in {"sent", "orphan"} => hb \in {"sent", "orphan"} /\ req' = req,
         \A id \in Rules : row'[id] # None => row[id] # None /\ status'[id] = status[id],
         \A id \in Rules : \/ Now(id)' = Now(id)
                           \/ Now(id)' = None
                           \/ Now(id)' = [in |-> 0, out |-> 0]
  PROVE  BillInv'
<1>1. ASSUME NEW id \in Rules, NEW old \in MaybeCounts
      PROVE  /\ Delta(old, Now(id)') <= Delta(old, Now(id))
             /\ Delta(old, Now(id)') \in Nat /\ Delta(old, Now(id)) \in Nat
  <2>1. Delta(old, Now(id)) \in Nat
    BY <1>1, Reports, DeltaNat DEF BillInv
  <2>3. CASE Now(id)' = Now(id)
    BY <2>1, <2>3
  <2>4. CASE Now(id)' = None
    BY <2>1, <2>4, DeltaZero
  <2>5. CASE Now(id)' = [in |-> 0, out |-> 0]
    <3>1. Delta(old, Now(id)') = 0
      BY <2>5, DeltaZero
    <3> QED  BY <2>1, <3>1
  <2> QED  BY <2>3, <2>4, <2>5
<1>2. Settled'
  <2> SUFFICES ASSUME NEW id \in Rules, row'[id] # None
               PROVE  billed'[id] + Delta(status'[id], Now(id)') <= carried'[id]
    BY DEF Settled
  <2>1. billed[id] + Delta(status[id], Now(id)) <= carried[id]
    BY DEF BillInv, Settled
  <2>2. status[id] \in MaybeCounts /\ billed[id] \in Nat /\ carried[id] \in Nat
    BY Reports DEF BillInv
  <2>3. /\ Delta(status[id], Now(id)') <= Delta(status[id], Now(id))
        /\ Delta(status[id], Now(id)') \in Nat
        /\ Delta(status[id], Now(id)) \in Nat
    BY <1>1, <2>2
  <2>4. status'[id] = status[id] /\ billed' = billed /\ carried' = carried
    OBVIOUS
  <2> HIDE DEF Now
  <2> QED  BY <2>1, <2>2, <2>3, <2>4
<1>3. InFlight'
  <2> SUFFICES ASSUME NEW id \in Rules, row'[id] # None, hb' \in {"sent", "orphan"}
               PROVE  billed'[id] + Delta(status'[id], Rep(id)')
                        + Delta(Or(Rep(id)', status'[id]), Now(id)')
                        <= carried'[id]
    BY DEF InFlight
  <2>1. /\ row[id] # None /\ hb \in {"sent", "orphan"} /\ req' = req
        /\ status'[id] = status[id] /\ billed' = billed /\ carried' = carried
    OBVIOUS
  <2>2. billed[id] + Delta(status[id], Rep(id))
          + Delta(Or(Rep(id), status[id]), Now(id)) <= carried[id]
    BY <2>1 DEF BillInv, InFlight
  <2>3. /\ billed[id] \in Nat /\ carried[id] \in Nat
        /\ Or(Rep(id), status[id]) \in MaybeCounts
        /\ Delta(status[id], Rep(id)) \in Nat
    BY Reports, OrMaybe, DeltaNat DEF BillInv
  <2>4. /\ Delta(Or(Rep(id), status[id]), Now(id)')
              <= Delta(Or(Rep(id), status[id]), Now(id))
        /\ Delta(Or(Rep(id), status[id]), Now(id)') \in Nat
        /\ Delta(Or(Rep(id), status[id]), Now(id)) \in Nat
    BY <1>1, <2>3
  <2>5. Rep(id)' = Rep(id)
    BY <2>1 DEF Rep, Both
  <2> HIDE DEF Now, Rep
  <2> QED  BY <2>1, <2>2, <2>3, <2>4, <2>5
<1>4. NeverOvercharged'
  BY DEF BillInv, NeverOvercharged
<1> QED  BY <1>2, <1>3, <1>4 DEF BillInv

(* Apply and Restart leave a forwarder, drop it or start it at 0.          *)
LEMMA ForwardQuiet ==
  ASSUME TypeOK, OneSlot, Single, NEW R \in Answers, Forward(R)
  PROVE  /\ \A id \in Rules : \/ Now(id)' = Now(id)
                              \/ Now(id)' = None
                              \/ Now(id)' = [in |-> 0, out |-> 0]
         /\ \A id \in Rules : One(fwd', id)
<1> SUFFICES ASSUME NEW id \in Rules
             PROVE  /\ \/ Now(id)' = Now(id)
                       \/ Now(id)' = None
                       \/ Now(id)' = [in |-> 0, out |-> 0]
                    /\ One(fwd', id)
  OBVIOUS
<1> DEFINE t == <<id, "tcp">>
           u == <<id, "udp">>
           zero == [ver |-> R[id], in |-> 0, out |-> 0]
<1>1. t \in Slots /\ u \in Slots /\ t[1] = id /\ u[1] = id /\ t[2] = "tcp" /\ u[2] = "udp"
  BY SlotsOf
<1>2. R[id] = None \/ R[id] \in Versions
  BY DEF Answers
<1>3. ASSUME NEW s \in {t, u}
      PROVE  /\ fwd'[s] = None \/ fwd'[s] = fwd[s] \/ fwd'[s] = zero
             /\ fwd'[s] # None => R[id] \in Versions /\ s[2] \in Protocol[R[id]]
  <2>1. fwd'[s] = Forwarder(R, s)
    BY <1>1 DEF Forward
  <2> QED  BY <1>1, <1>2, <2>1 DEF Forwarder
<1>4. fwd'[t] = None \/ fwd'[u] = None
  <2>1. "tcp" # "udp" /\ "tcp" \in Protos /\ "udp" \in Protos
    BY DEF Protos
  <2> QED  BY <1>1, <1>3, <2>1 DEF Single
<1>5. One(fwd', id) /\ One(fwd, id)
  BY <1>4 DEF One, OneSlot
<1>6. Both(fwd', id) = None \/ Both(fwd', id) = Both(fwd, id) \/ Both(fwd', id) = zero
  BY <1>3, <1>5 DEF One, Both, Or
<1>7. Counters(zero) = [in |-> 0, out |-> 0] \/ Counters(zero) = None
  <2>1. zero.in = 0 /\ zero.out = 0
    OBVIOUS
  <2> QED  BY <2>1 DEF Counters
<1>8. Counters(None) = None
  BY DEF Counters
<1>9. Now(id)' = Counters(Both(fwd', id)) /\ Now(id) = Counters(Both(fwd, id))
  BY DEF Now, Both, Counters, Or
<1> HIDE DEF zero
<1> QED  BY <1>5, <1>6, <1>7, <1>8, <1>9

LEMMA RoundEndsOne ==
  ASSUME RoundEnds
  PROVE  \A id \in Rules : One(req', id)
BY SlotsOf DEF RoundEnds, NoReports, One

(* A byte is carried by the one forwarder of its rule.                     *)
LEMMA CarryOne ==
  ASSUME TypeOK, OneSlot, NEW s \in Slots, NEW way \in Ways, Carry(s, way)
  PROVE  /\ OneSlot'
         /\ \A id \in Rules : id # s[1] => Now(id)' = Now(id)
         /\ Now(s[1]) \in Counts /\ Now(s[1])' \in Counts
         /\ \/ Now(s[1])'.in = Now(s[1]).in + 1 /\ Now(s[1])'.out = Now(s[1]).out
            \/ Now(s[1])'.in = Now(s[1]).in /\ Now(s[1])'.out = Now(s[1]).out + 1
<1>1. /\ fwd[s] \in Forwarders /\ fwd'[s] \in Forwarders
      /\ \/ fwd'[s].in = fwd[s].in + 1 /\ fwd'[s].out = fwd[s].out
         \/ fwd'[s].in = fwd[s].in /\ fwd'[s].out = fwd[s].out + 1
      /\ \A t \in Slots : t # s => fwd'[t] = fwd[t]
  BY CarryTypes
<1>2. fwd[s] # None /\ fwd'[s] # None /\ req' = req
  BY <1>1, TrafficAssumption DEF TrafficAssumption, Carry, channelVars
<1>3. ASSUME NEW id \in Rules, id # s[1]
      PROVE  Now(id)' = Now(id) /\ One(fwd', id)
  <2>1. /\ fwd'[<<id, "tcp">>] = fwd[<<id, "tcp">>]
        /\ fwd'[<<id, "udp">>] = fwd[<<id, "udp">>]
    BY <1>1, <1>3, SlotsOf
  <2> QED  BY <2>1 DEF Now, Both, OneSlot, One
<1>4. One(fwd', s[1]) /\ Both(fwd, s[1]) = fwd[s] /\ Both(fwd', s[1]) = fwd'[s]
  <2>1. s[1] \in Rules
    BY DEF Slots
  <2>2. CASE s = <<s[1], "tcp">>
    <3>1. fwd[<<s[1], "udp">>] = None
      BY <1>2, <2>1, <2>2 DEF OneSlot, One
    <3>2. fwd'[<<s[1], "udp">>] = None
      BY <1>1, <1>2, <2>1, <3>1, SlotsOf
    <3> QED  BY <2>2, <3>1, <3>2 DEF One, Both, Or
  <2>3. CASE s = <<s[1], "udp">>
    <3>1. fwd[<<s[1], "tcp">>] = None
      BY <1>2, <2>1, <2>3 DEF OneSlot, One
    <3>2. fwd'[<<s[1], "tcp">>] = None
      BY <1>1, <1>2, <2>1, <3>1, SlotsOf
    <3> QED  BY <1>2, <2>3, <3>2 DEF One, Both, Or
  <2> QED  BY <2>1, <2>2, <2>3, SlotsOf
<1>5. OneSlot'
  <2> SUFFICES ASSUME NEW id \in Rules PROVE One(fwd', id) /\ One(req, id)
    BY <1>2 DEF OneSlot, One
  <2> QED  BY <1>3, <1>4 DEF OneSlot
<1>6. Now(s[1]) = Counters(fwd[s]) /\ Now(s[1])' = Counters(fwd'[s])
  BY <1>4 DEF Now, Both, Counters, Or
<1>7. /\ Counters(fwd[s]) = [in |-> fwd[s].in, out |-> fwd[s].out]
      /\ Counters(fwd'[s]) = [in |-> fwd'[s].in, out |-> fwd'[s].out]
      /\ Counters(fwd[s]) \in Counts /\ Counters(fwd'[s]) \in Counts
  BY <1>1, <1>2, CountersMaybe
<1>8. /\ Counters(fwd[s]).in = fwd[s].in /\ Counters(fwd[s]).out = fwd[s].out
      /\ Counters(fwd'[s]).in = fwd'[s].in /\ Counters(fwd'[s]).out = fwd'[s].out
  BY <1>7
<1> QED  BY <1>1, <1>3, <1>5, <1>6, <1>7, <1>8

LEMMA CarryKeeps ==
  ASSUME BillInv, NEW s \in Slots, NEW way \in Ways, Carry(s, way)
  PROVE  BillInv'
<1>0. TypeOK /\ OneSlot
  BY DEF BillInv
<1>1. /\ TypeOK' /\ OneSlot'
      /\ carried' = [carried EXCEPT ![s[1]] = @ + 1] /\ carried[s[1]] \in Nat
  BY <1>0, CarryTypes, CarryOne
<1>2. UNCHANGED <<hb, req, row, status, billed>> /\ \A id \in Rules : Rep(id)' = Rep(id)
  BY DEF Carry, channelVars, panelVars, Rep
<1>4. ASSUME NEW id \in Rules, NEW old \in MaybeCounts
      PROVE  /\ Delta(old, Now(id)') <= Delta(old, Now(id)) + (carried'[id] - carried[id])
             /\ Delta(old, Now(id)') \in Nat /\ Delta(old, Now(id)) \in Nat
  <2>1. Delta(old, Now(id)) \in Nat /\ carried[id] \in Nat
    BY Reports, DeltaNat DEF BillInv
  <2>2. CASE id # s[1]
    <3>1. Now(id)' = Now(id) /\ carried'[id] = carried[id]
      BY <1>0, <1>1, <2>2, CarryOne DEF TypeOK
    <3> QED  BY <2>1, <3>1
  <2>3. CASE id = s[1]
    <3>1. Now(id) \in Counts /\ Now(id)' \in Counts
      BY <1>0, <2>3, CarryOne
    <3>2. \/ Now(id)'.in = Now(id).in + 1 /\ Now(id)'.out = Now(id).out
          \/ Now(id)'.in = Now(id).in /\ Now(id)'.out = Now(id).out + 1
      BY <1>0, <2>3, CarryOne
    <3>3. Delta(old, Now(id)') <= Delta(old, Now(id)) + 1
      BY <3>1, <3>2, DeltaGrows
    <3>4. carried'[id] = carried[id] + 1
      BY <1>0, <1>1, <2>3 DEF TypeOK
    <3>5. Delta(old, Now(id)') \in Nat
      BY <3>1, DeltaNat DEF MaybeCounts
    <3> HIDE DEF Now
    <3> QED  BY <2>1, <3>3, <3>4, <3>5
  <2> QED  BY <2>2, <2>3
<1>5. Settled'
  <2> SUFFICES ASSUME NEW id \in Rules, row[id] # None
               PROVE  billed[id] + Delta(status[id], Now(id)') <= carried'[id]
    BY <1>2 DEF Settled
  <2>1. billed[id] + Delta(status[id], Now(id)) <= carried[id]
    BY DEF BillInv, Settled
  <2>2. status[id] \in MaybeCounts /\ billed[id] \in Nat /\ carried[id] \in Nat /\ carried'[id] \in Nat
    BY <1>1, Reports DEF BillInv, TypeOK
  <2> QED  BY <1>4, <2>1, <2>2
<1>6. InFlight'
  <2> SUFFICES ASSUME NEW id \in Rules, row[id] # None, hb \in {"sent", "orphan"}
               PROVE  billed[id] + Delta(status[id], Rep(id))
                        + Delta(Or(Rep(id), status[id]), Now(id)') <= carried'[id]
    BY <1>2 DEF InFlight
  <2>1. billed[id] + Delta(status[id], Rep(id))
          + Delta(Or(Rep(id), status[id]), Now(id)) <= carried[id]
    BY DEF BillInv, InFlight
  <2>2. /\ billed[id] \in Nat /\ carried[id] \in Nat /\ carried'[id] \in Nat
        /\ Or(Rep(id), status[id]) \in MaybeCounts
        /\ Delta(status[id], Rep(id)) \in Nat
    BY <1>1, Reports, OrMaybe, DeltaNat DEF BillInv, TypeOK
  <2> QED  BY <1>4, <2>1, <2>2
<1>7. NeverOvercharged'
  <2> SUFFICES ASSUME NEW id \in Rules PROVE billed[id] <= carried'[id]
    BY <1>2 DEF NeverOvercharged
  <2>1. billed[id] <= carried[id] /\ billed[id] \in Nat /\ carried[id] \in Nat
    BY DEF BillInv, NeverOvercharged, TypeOK
  <2>2. carried'[id] = carried[id] \/ carried'[id] = carried[id] + 1
    BY <1>1 DEF BillInv, TypeOK
  <2> QED  BY <2>1, <2>2
<1> QED  BY <1>1, <1>5, <1>6, <1>7 DEF BillInv

LEMMA ReportOfNow ==
  ASSUME OneSlot, fwd' = fwd, \A s \in Slots : req'[s] = Counters(fwd[s])
  PROVE  OneSlot' /\ \A id \in Rules : Rep(id)' = Now(id) /\ Now(id)' = Now(id)
<1> SUFFICES ASSUME NEW id \in Rules
             PROVE  /\ One(fwd', id) /\ One(req', id)
                    /\ Both(req', id) = Counters(Both(fwd, id))
                    /\ Both(fwd', id) = Both(fwd, id)
  BY DEF OneSlot, One, Rep, Now, Both, Or, Counters
<1>1. /\ req'[<<id, "tcp">>] = Counters(fwd[<<id, "tcp">>])
      /\ req'[<<id, "udp">>] = Counters(fwd[<<id, "udp">>])
  BY SlotsOf
<1>2. One(fwd, id) /\ Counters(None) = None
  BY DEF OneSlot, Counters
<1>3. One(req', id) /\ One(fwd', id)
  BY <1>1, <1>2 DEF One
<1>4. Both(req', id) = Counters(Both(fwd, id))
  <2>1. CASE fwd[<<id, "udp">>] = None
    BY <1>1, <1>2, <2>1 DEF Both, Or
  <2>2. CASE fwd[<<id, "udp">>] # None
    <3>1. Counters(fwd[<<id, "udp">>]) = None \/ Counters(fwd[<<id, "udp">>]) # None
      OBVIOUS
    <3>2. fwd[<<id, "tcp">>] = None
      BY <1>2, <2>2 DEF One
    <3> QED  BY <1>1, <1>2, <2>2, <3>1, <3>2 DEF Both, Or
  <2> QED  BY <2>1, <2>2
<1>5. Both(fwd', id) = Both(fwd, id)
  BY DEF Both
<1> QED  BY <1>3, <1>4, <1>5

(* A report costs nothing more once it has been counted.                   *)
LEMMA HeartbeatKeeps ==
  ASSUME BillInv, Heartbeat
  PROVE  BillInv'
<1>1. TypeOK'
  BY AgentTypes DEF BillInv, AgentStep
<1>2. /\ UNCHANGED <<fwd, row, status, billed, carried>>
      /\ \A s \in Slots : req'[s] = Counters(fwd[s])
  BY DEF Heartbeat, agentVars, panelVars, historyVars
<1>3. OneSlot' /\ \A id \in Rules : Rep(id)' = Now(id) /\ Now(id)' = Now(id)
  BY <1>2, ReportOfNow DEF BillInv
<1>4. Settled'
  BY <1>2, <1>3 DEF BillInv, Settled
<1>5. InFlight'
  <2> SUFFICES ASSUME NEW id \in Rules, row[id] # None
               PROVE  billed[id] + Delta(status[id], Now(id))
                        + Delta(Or(Now(id), status[id]), Now(id)) <= carried[id]
    BY <1>2, <1>3 DEF InFlight
  <2>1. billed[id] + Delta(status[id], Now(id)) <= carried[id]
    BY DEF BillInv, Settled
  <2>2. /\ billed[id] \in Nat /\ carried[id] \in Nat
        /\ status[id] \in MaybeCounts /\ Now(id) \in MaybeCounts
        /\ Delta(status[id], Now(id)) \in Nat
    BY Reports, DeltaNat DEF BillInv
  <2>3. Delta(Or(Now(id), status[id]), Now(id)) = 0
    BY <2>2, DeltaZero DEF Or
  <2> QED  BY <2>1, <2>2, <2>3
<1>6. NeverOvercharged'
  BY <1>2 DEF BillInv, NeverOvercharged
<1> QED  BY <1>1, <1>3, <1>4, <1>5, <1>6 DEF BillInv

(* The charge turns InFlight into Settled.                                 *)
LEMMA ChargeKeeps ==
  ASSUME BillInv, Charge
  PROVE  BillInv'
<1>1. TypeOK'
  BY PanelTypes DEF BillInv
<1>2. /\ UNCHANGED <<fwd, carried>>
      /\ hb \in {"sent", "orphan"} /\ hb' \notin {"sent", "orphan"}
      /\ req' = req \/ RoundEnds
      /\ \A id \in Rules : /\ row'[id] = ChargedRow(id) /\ status'[id] = AfterUdp(id)
                            /\ billed'[id] = billed[id] + Due(id)
  BY DEF Charge, agentVars, RoundEnds
<1>3. OneSlot'
  BY <1>2, RoundEndsOne DEF BillInv, OneSlot, One
<1>4. InFlight'
  BY <1>2 DEF InFlight
<1>5. ASSUME NEW id \in Rules
      PROVE  /\ row'[id] # None <=> row[id] # None
             /\ billed[id] \in Nat /\ carried[id] \in Nat /\ billed[id] <= carried[id]
             /\ row[id] = None => billed'[id] = billed[id]
  <2>1. row'[id] # None <=> row[id] # None
    BY <1>2, DueType DEF BillInv
  <2>2. billed[id] \in Nat /\ carried[id] \in Nat /\ billed[id] <= carried[id]
    BY DEF BillInv, TypeOK, NeverOvercharged
  <2>3. row[id] = None => billed'[id] = billed[id]
    <3>1. row[id] = None => Due(id) = 0
      BY DEF Due
    <3> QED  BY <1>2, <2>2, <3>1
  <2> QED  BY <2>1, <2>2, <2>3
<1>6. ASSUME NEW id \in Rules, row[id] # None
      PROVE  /\ billed'[id] + Delta(status'[id], Now(id)) <= carried[id]
             /\ billed'[id] \in Nat /\ Delta(status'[id], Now(id)) \in Nat
  <2>1. /\ billed'[id] = billed[id] + Delta(status[id], Rep(id))
        /\ status'[id] = Or(Rep(id), status[id])
    BY <1>2, <1>6, OneReport DEF BillInv
  <2>2. billed[id] + Delta(status[id], Rep(id))
          + Delta(Or(Rep(id), status[id]), Now(id)) <= carried[id]
    BY <1>2, <1>6 DEF BillInv, InFlight
  <2>3. /\ Delta(status[id], Rep(id)) \in Nat
        /\ Delta(Or(Rep(id), status[id]), Now(id)) \in Nat
    BY Reports, OrMaybe, DeltaNat DEF BillInv
  <2> QED  BY <1>5, <2>1, <2>2, <2>3
<1>7. Settled'
  <2>1. \A id \in Rules : Now(id)' = Now(id)
    BY <1>2 DEF Now, Both
  <2> QED  BY <1>2, <1>5, <1>6, <2>1 DEF Settled
<1>8. NeverOvercharged'
  <2> SUFFICES ASSUME NEW id \in Rules PROVE billed'[id] <= carried[id]
    BY <1>2 DEF NeverOvercharged
  <2>1. CASE row[id] = None
    BY <1>5, <2>1
  <2>2. CASE row[id] # None
    <3>2. /\ billed'[id] + Delta(status'[id], Now(id)) <= carried[id]
          /\ billed'[id] \in Nat /\ Delta(status'[id], Now(id)) \in Nat
      BY <1>6, <2>2
    <3>3. carried[id] \in Nat
      BY <1>5
    <3> HIDE DEF Now
    <3> QED  BY <3>2, <3>3
  <2> QED  BY <2>1, <2>2
<1> QED  BY <1>1, <1>3, <1>4, <1>7, <1>8 DEF BillInv

LEMMA BillStep ==
  ASSUME BillInv, Single, ~ Resurrect, [Next]_vars
  PROVE  BillInv'
<1> USE DEF BillInv
<1>1. ASSUME NEW s \in Slots, NEW way \in Ways, Carry(s, way) PROVE BillInv'
  BY <1>1, CarryKeeps
<1>2. CASE Heartbeat
  BY <1>2, HeartbeatKeeps
<1>3. CASE Apply
  <2>1. TypeOK' /\ answer \in Answers /\ Forward(answer) /\ RoundEnds
    BY <1>3, AgentTypes DEF AgentStep, Apply, TypeOK
  <2>2. OneSlot'
    BY <2>1, ForwardQuiet, RoundEndsOne DEF OneSlot, One
  <2>3. UNCHANGED <<billed, carried, row, status>> /\ hb' = "idle"
    BY <1>3 DEF Apply, panelVars, RoundEnds
  <2> QED  BY <2>1, <2>2, <2>3, ForwardQuiet, QuietStep
<1>4. CASE GiveUp
  <2>1. /\ TypeOK' /\ hb = "sent"
        /\ UNCHANGED <<fwd, req, billed, carried, row, status>>
    BY <1>4, AgentTypes DEF AgentStep, GiveUp, agentVars, panelVars, historyVars
  <2>2. OneSlot' /\ \A id \in Rules : Now(id)' = Now(id)
    BY <2>1 DEF OneSlot, One, Now, Both
  <2> QED  BY <2>1, <2>2, QuietStep
<1>5. CASE Lose
  <2>1. /\ TypeOK' /\ RoundEnds /\ hb' = "idle"
        /\ UNCHANGED <<fwd, billed, carried, row, status>>
    BY <1>5, AgentTypes DEF AgentStep, Lose, RoundEnds, agentVars, panelVars, historyVars
  <2>2. OneSlot' /\ \A id \in Rules : Now(id)' = Now(id)
    BY <2>1, RoundEndsOne DEF OneSlot, One, Now, Both
  <2> QED  BY <2>1, <2>2, QuietStep
<1>6. CASE Crash
  <2>1. TypeOK' /\ UNCHANGED <<billed, carried, row, status>>
    BY <1>6, AgentTypes DEF AgentStep, Crash, panelVars
  <2>2. \A s \in Slots : fwd'[s] = None
    BY <1>6 DEF Crash
  <2>3. \A id \in Rules : Now(id)' = None /\ One(fwd', id)
    BY <2>2, SlotsOf DEF Now, Both, Or, Counters, One
  <2>4. \/ hb \in {"sent", "orphan"} /\ req' = req
        \/ hb' = "idle" /\ RoundEnds
    BY <1>6 DEF Crash, RoundEnds
  <2>5. OneSlot'
    BY <2>3, <2>4, RoundEndsOne DEF OneSlot, One
  <2> QED  BY <2>1, <2>3, <2>4, <2>5, QuietStep
<1>7. CASE Restart
  <2>1. /\ TypeOK' /\ saved \in Answers /\ Forward(saved)
        /\ UNCHANGED <<req, hb, billed, carried, row, status>>
    BY <1>7, AgentTypes DEF AgentStep, Restart, TypeOK, channelVars, panelVars
  <2>2. OneSlot'
    BY <2>1, ForwardQuiet DEF OneSlot, One
  <2> QED  BY <2>1, <2>2, ForwardQuiet, QuietStep
<1>8. CASE Charge
  BY <1>8, ChargeKeeps
<1>9. CASE ChargeFails
  <2>1. /\ TypeOK' /\ RoundEnds /\ hb' = "idle"
        /\ UNCHANGED <<fwd, billed, carried, row, status>>
    BY <1>9, PanelTypes DEF ChargeFails, Rollback, RoundEnds, agentVars
  <2>2. OneSlot' /\ \A id \in Rules : Now(id)' = Now(id)
    BY <2>1, RoundEndsOne DEF OneSlot, One, Now, Both
  <2> QED  BY <2>1, <2>2, QuietStep
<1>10. CASE Answer
  <2>1. /\ TypeOK' /\ hb' = "answered"
        /\ UNCHANGED <<fwd, req, billed, carried, row, status>>
    BY <1>10, PanelTypes DEF Answer, agentVars, panelVars, historyVars
  <2>2. OneSlot' /\ \A id \in Rules : Now(id)' = Now(id)
    BY <2>1 DEF OneSlot, One, Now, Both
  <2> QED  BY <2>1, <2>2, QuietStep
<1>11. CASE EditStep
  <2>1. /\ TypeOK' /\ UNCHANGED <<fwd, req, hb, billed, carried>>
        /\ \A id \in Rules : row'[id] # None => row[id] # None /\ status'[id] = status[id]
    BY <1>11, EditTypes, EditFrame
  <2>2. OneSlot' /\ \A id \in Rules : Now(id)' = Now(id)
    BY <2>1 DEF OneSlot, One, Now, Both
  <2> QED  BY <2>1, <2>2, QuietStep
<1>12. CASE UNCHANGED vars
  BY <1>12 DEF vars, agentVars, channelVars, panelVars, historyVars, TypeOK,
     OneSlot, One, Settled, InFlight, NeverOvercharged, Now, Rep, Both
<1> QED
  BY <1>1, <1>2, <1>3, <1>4, <1>5, <1>6, <1>7, <1>8, <1>9, <1>10, <1>11, <1>12
     DEF Next, AgentStep

LEMMA TypeInit ==
  ASSUME Init
  PROVE  TypeOK
<1> USE DEF Init
<1>1. (CHOOSE v \in Versions : TRUE) \in Versions
  BY TrafficAssumption DEF TrafficAssumption
<1>2. row \in [Rules -> RuleRows \cup {None}]
  BY <1>1 DEF RuleRows
<1>3. /\ saved \in Answers /\ answer \in Answers
      /\ req \in [Slots -> Counts \cup {None}] /\ status \in [Rules -> Counts \cup {None}]
  BY DEF Nothing, Answers, NoReports
<1>4. edits \in 0 .. MaxEdits
  BY TrafficAssumption DEF TrafficAssumption
<1> QED  BY <1>2, <1>3, <1>4 DEF TypeOK

LEMMA TypeStep ==
  ASSUME TypeOK, [Next]_vars
  PROVE  TypeOK'
<1>1. CASE AgentStep
  BY <1>1, AgentTypes
<1>2. CASE Charge \/ ChargeFails \/ Answer
  BY <1>2, PanelTypes
<1>3. CASE EditStep
  BY <1>3, EditTypes
<1>4. CASE UNCHANGED vars
  BY <1>4 DEF vars, agentVars, channelVars, panelVars, historyVars, TypeOK
<1> QED  BY <1>1, <1>2, <1>3, <1>4 DEF Next

LEMMA BillInit ==
  ASSUME Init
  PROVE  BillInv
<1> USE DEF Init
<1>1. \A s \in Slots : fwd[s] = None /\ req[s] = None
  BY DEF NoReports
<1>2. TypeOK
  BY TypeInit
<1>3. OneSlot
  BY <1>1, SlotsOf DEF OneSlot, One
<1>4. \A id \in Rules : Now(id) = None
  BY <1>1, SlotsOf DEF Now, Both, Or, Counters
<1>5. Settled
  BY <1>4, DeltaZero DEF Settled, Delta
<1>6. InFlight /\ NeverOvercharged
  BY DEF InFlight, NeverOvercharged
<1> QED  BY <1>2, <1>3, <1>5, <1>6 DEF BillInv

(* The variables of Traffic keep their types, over everything that fails   *)
(* between agent and panel, and whatever an administrator edits.           *)
THEOREM TypeCorrect == Spec => []TypeOK
<1>1. Init => TypeOK
  BY TypeInit
<1>2. TypeOK /\ [Next]_vars => TypeOK'
  BY TypeStep
<1> QED  BY <1>1, <1>2, PTL DEF Spec

(* Nothing is charged that was not forwarded (UpdateNodeHeartbeat), for    *)
(* any number of rules, none of both protocols at once, as long as no      *)
(* deleted rule is brought back.                                           *)
THEOREM NothingOvercharged ==
  ASSUME Single, ~ Resurrect
  PROVE  Spec => []NeverOvercharged
<1>1. Init => BillInv
  BY BillInit
<1>2. BillInv /\ [Next]_vars => BillInv'
  BY BillStep
<1>3. BillInv => NeverOvercharged
  BY DEF BillInv
<1> QED  BY <1>1, <1>2, <1>3, PTL DEF Spec

-----------------------------------------------------------------------------
(* Sums over the rules. MapThenSumSet adds f[x] for the rules x of a set s *)
(* one by one, in the order of Pick: the function that it builds is the    *)
(* one that solves this equation.                                          *)

Pick(s) == CHOOSE x \in s : TRUE

Solves(it, f) ==
  it = [s \in SUBSET Rules |-> IF s = {} THEN 0 ELSE f[Pick(s)] + it[s \ {Pick(s)}]]

Bytes(f, s) == UNION {{x} \X (1 .. f[x]) : x \in s}
Count(f)    == [s \in SUBSET Rules |-> Cardinality(Bytes(f, s))]
Sum(f)      == Count(f)[Rules]

LEMMA Picked ==
  ASSUME NEW s \in SUBSET Rules, s # {}
  PROVE  Pick(s) \in s /\ Pick(s) \in Rules /\ s \ {Pick(s)} \in SUBSET Rules
BY DEF Pick

LEMMA BytesFinite ==
  ASSUME NEW f \in [Rules -> Nat], NEW s \in SUBSET Rules
  PROVE  IsFiniteSet(Bytes(f, s))
<1> DEFINE All == {{x} \X (1 .. f[x]) : x \in s}
<1>1. ASSUME NEW x \in Rules PROVE IsFiniteSet({x} \X (1 .. f[x]))
  <2>1. IsFiniteSet({x}) /\ IsFiniteSet(1 .. f[x])
    <3>1. 1 \in Int /\ f[x] \in Int
      OBVIOUS
    <3>2. IsFiniteSet(1 .. f[x])
      BY <3>1, FS_Interval, SMT
    <3> QED BY <3>2, FS_Singleton
  <2> QED BY <2>1, FS_Product
<1>2. IsFiniteSet(s)
  BY FS_Subset, TrafficAssumption DEF TrafficAssumption
<1>3. IsFiniteSet(All)
  <2> DEFINE column == [x \in s |-> {x} \X (1 .. f[x])]
  <2>1. column \in Surjection(s, All)
    BY DEF Surjection
  <2> QED BY <1>2, <2>1, FS_Surjection
<1>4. \A T \in All : IsFiniteSet(T)
  BY <1>1
<1> HIDE DEF All
<1>5. IsFiniteSet(UNION All)
  BY <1>3, <1>4, FS_UNION
<1> QED BY <1>5 DEF All, Bytes

(* The number of pairs of a rule of s and one of its bytes solves the      *)
(* equation, and needs no recursion.                                       *)
LEMMA SumExists ==
  ASSUME NEW f \in [Rules -> Nat]
  PROVE  Count(f) \in [SUBSET Rules -> Nat] /\ Solves(Count(f), f)
<1>1. Count(f) \in [SUBSET Rules -> Nat]
  BY BytesFinite, FS_CardinalityType DEF Count
<1>2. Cardinality(Bytes(f, {})) = 0
  BY FS_EmptySet DEF Bytes
<1>3. ASSUME NEW s \in SUBSET Rules, s # {}
      PROVE  Cardinality(Bytes(f, s)) =
               f[Pick(s)] + Cardinality(Bytes(f, s \ {Pick(s)}))
  <2> DEFINE x == Pick(s)
             t == s \ {x}
             here == {x} \X (1 .. f[x])
  <2>1. x \in s /\ x \in Rules /\ t \in SUBSET Rules /\ f[x] \in Nat
    BY <1>3, Picked
  <2>2. IsFiniteSet(here) /\ Cardinality(here) = f[x]
    <3>1. IsFiniteSet(1 .. f[x]) /\ Cardinality(1 .. f[x]) = f[x]
      BY <2>1, FS_Interval
    <3>2. Cardinality(here) = 1 * f[x] /\ IsFiniteSet(here)
      <4>1. IsFiniteSet({x}) /\ Cardinality({x}) = 1
        BY FS_Singleton
      <4> QED BY <3>1, <4>1, FS_Product
    <3> QED BY <2>1, <3>2
  <2>3. Bytes(f, s) = here \cup Bytes(f, t)
    BY <2>1 DEF Bytes
  <2>4. here \cap Bytes(f, t) = {}
    BY DEF Bytes
  <2>5. Cardinality(here \cup Bytes(f, t)) =
          Cardinality(here) + Cardinality(Bytes(f, t)) - Cardinality({})
    BY <2>1, <2>2, <2>4, BytesFinite, FS_Union
  <2>6. Cardinality(Bytes(f, t)) \in Nat
    BY <2>1, BytesFinite, FS_CardinalityType
  <2> HIDE DEF here, x, t
  <2>7. Cardinality(Bytes(f, s)) = f[x] + Cardinality(Bytes(f, t))
    BY <2>1, <2>2, <2>3, <2>5, <2>6, FS_EmptySet
  <2> QED BY <2>7 DEF x, t
<1>4. ASSUME NEW s \in SUBSET Rules
      PROVE  Count(f)[s] = IF s = {} THEN 0 ELSE f[Pick(s)] + Count(f)[s \ {Pick(s)}]
  BY <1>2, <1>3, Picked DEF Count
<1>5. Count(f) = [s \in SUBSET Rules |-> Count(f)[s]]
  BY DEF Count
<1> QED BY <1>1, <1>4, <1>5 DEF Solves

(* Two solutions differ on no set: on a smallest one they could not.       *)
LEMMA SumUnique ==
  ASSUME NEW f, NEW a, NEW b, Solves(a, f), Solves(b, f)
  PROVE  \A s \in SUBSET Rules : a[s] = b[s]
<1> DEFINE Wrong == {s \in SUBSET Rules : a[s] # b[s]}
<1> SUFFICES ASSUME Wrong # {} PROVE FALSE
  OBVIOUS
<1>1. IsWellFoundedOn(StrictSubsetOrdering(Rules), SUBSET Rules)
  BY FS_FiniteSubsetsOfFinite, FS_StrictSubsetOrderingWellFounded,
     TrafficAssumption DEF TrafficAssumption
<1>2. PICK s \in Wrong : \A t \in Wrong : <<t, s>> \notin StrictSubsetOrdering(Rules)
  BY <1>1, WFMin
<1>3. s # {}
  BY <1>2 DEF Solves
<1>4. Pick(s) \in s /\ s \ {Pick(s)} \in SUBSET Rules
  BY <1>2, <1>3, Picked
<1>5. <<s \ {Pick(s)}, s>> \in StrictSubsetOrdering(Rules)
  BY <1>2, <1>4 DEF StrictSubsetOrdering
<1>6. a[s \ {Pick(s)}] = b[s \ {Pick(s)}]
  BY <1>2, <1>4, <1>5
<1>7. /\ a[s] = f[Pick(s)] + a[s \ {Pick(s)}]
      /\ b[s] = f[Pick(s)] + b[s \ {Pick(s)}]
  BY <1>2, <1>3 DEF Solves
<1> QED BY <1>2, <1>6, <1>7

LEMMA SumNat ==
  ASSUME NEW f \in [Rules -> Nat]
  PROVE  Sum(f) \in Nat
BY SumExists DEF Sum

(* The sum of sums.                                                        *)
LEMMA SumAdds ==
  ASSUME NEW f \in [Rules -> Nat], NEW g \in [Rules -> Nat], NEW h \in [Rules -> Nat],
         \A x \in Rules : h[x] = f[x] + g[x]
  PROVE  Sum(h) = Sum(f) + Sum(g)
<1> DEFINE both == [s \in SUBSET Rules |-> Count(f)[s] + Count(g)[s]]
<1>1. /\ Count(f) \in [SUBSET Rules -> Nat] /\ Solves(Count(f), f)
      /\ Count(g) \in [SUBSET Rules -> Nat] /\ Solves(Count(g), g)
      /\ Solves(Count(h), h)
  BY SumExists
<1>2. ASSUME NEW s \in SUBSET Rules
      PROVE  both[s] = IF s = {} THEN 0 ELSE h[Pick(s)] + both[s \ {Pick(s)}]
  <2>1. CASE s = {}
    <3>1. Count(f)[s] = 0 /\ Count(g)[s] = 0
      BY <1>1, <2>1 DEF Solves
    <3> QED BY <2>1, <3>1
  <2>2. CASE s # {}
    <3> DEFINE x == Pick(s)
               t == s \ {x}
    <3>1. x \in Rules /\ t \in SUBSET Rules
      BY <2>2, Picked
    <3>2. Count(f)[s] = f[x] + Count(f)[t] /\ Count(g)[s] = g[x] + Count(g)[t]
      BY <1>1, <2>2 DEF Solves
    <3>3. /\ f[x] \in Nat /\ g[x] \in Nat /\ h[x] = f[x] + g[x]
          /\ Count(f)[t] \in Nat /\ Count(g)[t] \in Nat
      BY <1>1, <3>1
    <3>4. both[s] = Count(f)[s] + Count(g)[s] /\ both[t] = Count(f)[t] + Count(g)[t]
      BY <3>1
    <3> HIDE DEF x, t, both
    <3>5. both[s] = h[x] + both[t]
      BY <3>2, <3>3, <3>4
    <3> QED BY <2>2, <3>5 DEF x, t
  <2> QED BY <2>1, <2>2
<1>3. Solves(both, h)
  <2>1. both = [s \in SUBSET Rules |-> both[s]]
    OBVIOUS
  <2> HIDE DEF both
  <2> QED BY <1>2, <2>1 DEF Solves
<1>4. both[Rules] = Count(f)[Rules] + Count(g)[Rules]
  OBVIOUS
<1> HIDE DEF both
<1>5. Count(h)[Rules] = both[Rules]
  BY <1>1, <1>3, SumUnique
<1> QED BY <1>4, <1>5 DEF Sum

LEMMA SumZero ==
  ASSUME NEW f \in [Rules -> Nat], \A x \in Rules : f[x] = 0
  PROVE  Sum(f) = 0
<1>1. Sum(f) = Sum(f) + Sum(f)
  BY SumAdds
<1> QED BY <1>1, SumNat

(* What Charge adds to the bill of the user, and what UserBillExact        *)
(* compares it with, are such sums.                                        *)
LEMMA DueSum ==
  ASSUME TypeOK
  PROVE  MapThenSumSet(Due, Rules) = Sum([id \in Rules |-> Due(id)])
<1> DEFINE f == [id \in Rules |-> Due(id)]
           S(it) == it = [s \in SUBSET Rules |->
                            IF s = {} THEN 0 ELSE Due(Pick(s)) + it[s \ {Pick(s)}]]
<1>1. f \in [Rules -> Nat]
  BY DueType
<1>2. ASSUME NEW it PROVE S(it) <=> Solves(it, f)
  BY Picked DEF Solves
<1>3. MapThenSumSet(Due, Rules) = (CHOOSE it : S(it))[Rules]
  BY DEF MapThenSumSet, MapThenFoldSet, Pick
<1> HIDE DEF S
<1>4. S(CHOOSE it : S(it))
  BY <1>1, <1>2, SumExists
<1> HIDE DEF f
<1>5. Solves(CHOOSE it : S(it), f) /\ Solves(Count(f), f)
  BY <1>1, <1>2, <1>4, SumExists
<1>6. (CHOOSE it : S(it))[Rules] = Count(f)[Rules]
  BY <1>5, SumUnique
<1> QED BY <1>3, <1>6 DEF f, Sum

LEMMA BilledSum ==
  ASSUME TypeOK
  PROVE  MapThenSumSet(LAMBDA id : billed[id], Rules) = Sum(billed)
<1> DEFINE S(it) == it = [s \in SUBSET Rules |->
                            IF s = {} THEN 0 ELSE billed[Pick(s)] + it[s \ {Pick(s)}]]
<1>1. billed \in [Rules -> Nat]
  BY DEF TypeOK
<1>2. ASSUME NEW it PROVE S(it) <=> Solves(it, billed)
  BY DEF Solves
<1>3. MapThenSumSet(LAMBDA id : billed[id], Rules) = (CHOOSE it : S(it))[Rules]
  BY DEF MapThenSumSet, MapThenFoldSet, Pick
<1> HIDE DEF S
<1>4. S(CHOOSE it : S(it))
  BY <1>1, <1>2, SumExists
<1>5. Solves(CHOOSE it : S(it), billed) /\ Solves(Count(billed), billed)
  BY <1>1, <1>2, <1>4, SumExists
<1>6. (CHOOSE it : S(it))[Rules] = Count(billed)[Rules]
  BY <1>5, SumUnique
<1> QED BY <1>3, <1>6 DEF Sum

(* The bill of the user, without the fold.                                 *)
Ledger == userUsed \in Nat /\ forgiven \in Nat /\ userUsed + forgiven = Sum(billed)

LEMMA LedgerInit ==
  ASSUME Init
  PROVE  Ledger
<1>1. billed \in [Rules -> Nat] /\ \A id \in Rules : billed[id] = 0
  BY DEF Init
<1>2. Sum(billed) = 0
  BY <1>1, SumZero
<1> QED BY <1>2 DEF Init, Ledger

LEMMA LedgerStep ==
  ASSUME TypeOK, Ledger, [Next]_vars
  PROVE  Ledger'
<1>1. CASE Charge
  <2> DEFINE due == [id \in Rules |-> Due(id)]
  <2>1. due \in [Rules -> Nat] /\ billed \in [Rules -> Nat]
    BY DueType DEF TypeOK
  <2>2. /\ billed' \in [Rules -> Nat]
        /\ \A id \in Rules : billed'[id] = billed[id] + due[id]
    BY <1>1, <2>1 DEF Charge
  <2>3. userUsed' = userUsed + Sum(due) /\ forgiven' = forgiven
    BY <1>1, DueSum DEF Charge
  <2> HIDE DEF due
  <2>4. Sum(billed') = Sum(billed) + Sum(due)
    BY <2>1, <2>2, SumAdds
  <2>5. Sum(due) \in Nat /\ Sum(billed) \in Nat
    BY <2>1, SumNat
  <2>6. Sum(billed)' = Sum(billed')
    BY DEF Sum, Count, Bytes
  <2> QED BY <2>3, <2>4, <2>5, <2>6 DEF Ledger
<1>2. CASE UNCHANGED <<userUsed, forgiven, billed>>
  BY <1>2 DEF Ledger, Sum, Count, Bytes
<1>3. CASE ResetUserTraffic
  BY <1>3 DEF ResetUserTraffic, Ledger, otherVars, Sum, Count, Bytes
<1>4. ASSUME NEW limit \in UserLimits, SaveUser(limit)
      PROVE  UNCHANGED <<userUsed, forgiven, billed>>
  BY <1>4 DEF SaveUser, OldTrafficUsed, otherVars
<1>5. AgentStep \/ ChargeFails \/ Answer => UNCHANGED <<userUsed, forgiven, billed>>
  BY DEF AgentStep, Carry, Heartbeat, Apply, GiveUp, Lose, Crash, Restart,
     ChargeFails, Rollback, Answer, panelVars, historyVars
<1>6. ASSUME NEW id \in Rules, Read(id) \/ DeleteRule(id) \/ ResetRuleTraffic(id)
      PROVE  UNCHANGED <<userUsed, forgiven, billed>>
  BY <1>6 DEF Read, DeleteRule, ResetRuleTraffic, otherVars
<1>7. SaveToggle \/ Discard => UNCHANGED <<userUsed, forgiven, billed>>
  BY DEF SaveToggle, Discard, otherVars
<1>8. ASSUME NEW on \in BOOLEAN, NEW v \in Versions, SavePut(on, v)
      PROVE  UNCHANGED <<userUsed, forgiven, billed>>
  BY <1>8 DEF SavePut, otherVars
<1>9. UNCHANGED vars => UNCHANGED <<userUsed, forgiven, billed>>
  BY DEF vars, panelVars, historyVars
<1> QED BY <1>1, <1>2, <1>3, <1>4, <1>5, <1>6, <1>7, <1>8, <1>9
           DEF Next, EditStep

(* The bill of a user is the sum of what the user's rules were charged     *)
(* less what was reset, for any number of rules of any protocol, whatever  *)
(* fails between agent and panel and whatever an administrator edits,      *)
(* also when a deleted rule is brought back.                               *)
THEOREM UserBillIsExact == Spec => []UserBillExact
<1>1. Init => Ledger
  BY LedgerInit
<1>2. TypeOK /\ Ledger /\ [Next]_vars => Ledger'
  BY LedgerStep
<1>3. TypeOK /\ Ledger => UserBillExact
  BY BilledSum DEF Ledger, UserBillExact
<1> QED  BY <1>1, <1>2, <1>3, TypeCorrect, PTL DEF Spec

-----------------------------------------------------------------------------
(* What a forwarder that lives has been charged. Its counters only grow,   *)
(* from those of the last charge over those of the report under way to     *)
(* those of now, so the differences that were charged add up to the last   *)
(* counters charged.                                                       *)

Grown(a, b) == a = None \/ (b # None /\ a.in <= b.in /\ a.out <= b.out)

Lives(id) == row[id] # None /\ ~ interrupted[id]

Metered ==
  \A id \in Rules : Lives(id) =>
    /\ billed[id] = Amount(status[id])
    /\ Grown(status[id], Now(id))
    /\ hb \in {"sent", "orphan"} =>
         Grown(status[id], Rep(id)) /\ Grown(Rep(id), Now(id))
    /\ hb \in {"charged", "answered"} => billed[id] = Amount(Rep(id))

(* A charge of counters that grew raises the total to theirs.              *)
LEMMA DeltaOfGrown ==
  ASSUME NEW old \in MaybeCounts, NEW new \in MaybeCounts, Grown(old, new)
  PROVE  /\ Amount(old) + Delta(old, new) = Amount(new)
         /\ Or(new, old) = new
<1>1. CASE new = None
  BY <1>1 DEF Grown, Amount, Delta, Or
<1>2. CASE new # None
  <2>1. new.in \in Nat /\ new.out \in Nat
    BY <1>2 DEF MaybeCounts, Counts
  <2>2. old # None => old.in \in Nat /\ old.out \in Nat
    BY DEF MaybeCounts, Counts
  <2> QED  BY <1>2, <2>1, <2>2 DEF Grown, Amount, Delta, Or, Total
<1> QED  BY <1>1, <1>2

LEMMA GrownSame ==
  ASSUME NEW c \in MaybeCounts
  PROVE  Grown(c, c)
BY DEF Grown, MaybeCounts, Counts

LEMMA GrownOn ==
  ASSUME NEW a \in MaybeCounts, NEW b \in MaybeCounts, NEW c \in MaybeCounts,
         Grown(a, b), Grown(b, c)
  PROVE  Grown(a, c)
<1>1. CASE a = None
  BY <1>1 DEF Grown
<1>2. CASE a # None
  <2>1. b # None /\ c # None
    BY <1>2 DEF Grown
  <2>2. /\ a.in \in Nat /\ a.out \in Nat /\ b.in \in Nat /\ b.out \in Nat
        /\ c.in \in Nat /\ c.out \in Nat
    BY <1>2, <2>1 DEF MaybeCounts, Counts
  <2> QED  BY <1>2, <2>1, <2>2 DEF Grown
<1> QED  BY <1>1, <1>2

(* A step that charges nothing, under which the counters of a forwarder    *)
(* that lives do not go down, keeps Metered.                               *)
LEMMA MeteredStill ==
  ASSUME TypeOK, TypeOK', Metered, billed' = billed,
         \A id \in Rules : Lives(id)' => Lives(id) /\ status'[id] = status[id],
         \A id \in Rules : Lives(id)' => Grown(Now(id), Now(id)'),
         \/ hb' = "idle"
         \/ hb' \in {"sent", "orphan"} /\ hb \in {"sent", "orphan"} /\ req' = req
         \/ hb' \in {"charged", "answered"} /\ hb \in {"charged", "answered"} /\ req' = req
  PROVE  Metered'
<1> SUFFICES ASSUME NEW id \in Rules, Lives(id)'
             PROVE  /\ billed'[id] = Amount(status'[id])
                    /\ Grown(status'[id], Now(id)')
                    /\ hb' \in {"sent", "orphan"} =>
                         /\ Grown(status'[id], Rep(id)')
                         /\ Grown(Rep(id)', Now(id)')
                    /\ hb' \in {"charged", "answered"} =>
                         billed'[id] = Amount(Rep(id)')
  BY DEF Metered, Amount, Total, Grown
<1>1. /\ Lives(id) /\ status'[id] = status[id]
      /\ Grown(Now(id), Now(id)')
  OBVIOUS
<1>2. /\ billed[id] = Amount(status[id])
      /\ Grown(status[id], Now(id))
      /\ hb \in {"sent", "orphan"} =>
           Grown(status[id], Rep(id)) /\ Grown(Rep(id), Now(id))
      /\ hb \in {"charged", "answered"} => billed[id] = Amount(Rep(id))
  BY <1>1 DEF Metered
<1>3. /\ status[id] \in MaybeCounts /\ Rep(id) \in MaybeCounts
      /\ Now(id) \in MaybeCounts /\ Now(id)' \in MaybeCounts
  <2>1. Both(fwd', id) \in Forwarders \cup {None}
    BY SlotsOf DEF TypeOK, Both, Or
  <2>2. Now(id)' = Counters(Both(fwd', id))
    BY DEF Now, Both, Or, Counters
  <2> QED  BY <2>1, <2>2, Reports, CountersMaybe
<1>4. Grown(status[id], Now(id)')
  BY <1>1, <1>2, <1>3, GrownOn
<1>5. hb \in {"sent", "orphan"} => Grown(Rep(id), Now(id)')
  BY <1>1, <1>2, <1>3, GrownOn
<1>6. req' = req => Rep(id)' = Rep(id)
  BY DEF Rep, Both
<1> HIDE DEF Now, Rep
<1> QED  BY <1>1, <1>2, <1>4, <1>5, <1>6

(* A forwarder that is not interrupted is left as it is.                   *)
LEMMA NotDropped ==
  ASSUME TypeOK, OneSlot, OneSlot', NEW id \in Rules, ~ Dropped(id)
  PROVE  Grown(Now(id), Now(id)')
<1>1. ASSUME NEW p \in Protos
      PROVE  fwd[<<id, p>>] = None \/ fwd'[<<id, p>>] = fwd[<<id, p>>]
  BY DEF Dropped
<1>2. /\ fwd[<<id, "tcp">>] = None \/ fwd'[<<id, "tcp">>] = fwd[<<id, "tcp">>]
      /\ fwd[<<id, "udp">>] = None \/ fwd'[<<id, "udp">>] = fwd[<<id, "udp">>]
  BY <1>1 DEF Protos
<1>3. One(fwd, id) /\ One(fwd', id)
  BY DEF OneSlot, One
<1>4. Both(fwd, id) = None \/ Both(fwd', id) = Both(fwd, id)
  BY <1>2, <1>3 DEF One, Both, Or
<1>5. Now(id) = Counters(Both(fwd, id)) /\ Now(id)' = Counters(Both(fwd', id))
  BY DEF Now, Both, Counters, Or
<1>6. CASE Both(fwd, id) = None
  BY <1>5, <1>6 DEF Counters, Grown
<1>7. CASE Both(fwd', id) = Both(fwd, id)
  BY <1>5, <1>7, Reports, GrownSame
<1> QED  BY <1>4, <1>6, <1>7

LEMMA MeteredCarry ==
  ASSUME TypeOK, OneSlot, Metered, NEW s \in Slots, NEW way \in Ways, Carry(s, way)
  PROVE  Metered'
<1>1. TypeOK'
  BY CarryTypes
<1>2. UNCHANGED <<hb, req, row, status, billed, interrupted>>
  BY DEF Carry, channelVars, panelVars
<1>3. ASSUME NEW id \in Rules
      PROVE  Grown(Now(id), Now(id)')
  <2>1. CASE id # s[1]
    <3>1. Now(id)' = Now(id)
      BY <2>1, CarryOne
    <3> QED  BY <3>1, Reports, GrownSame
  <2>2. CASE id = s[1]
    <3>1. /\ Now(id) \in Counts /\ Now(id)' \in Counts
          /\ \/ Now(id)'.in = Now(id).in + 1 /\ Now(id)'.out = Now(id).out
             \/ Now(id)'.in = Now(id).in /\ Now(id)'.out = Now(id).out + 1
      BY <2>2, CarryOne
    <3>2. /\ Now(id).in \in Nat /\ Now(id).out \in Nat
          /\ Now(id)' # None
      BY <3>1, TrafficAssumption DEF TrafficAssumption, Counts
    <3> HIDE DEF Now
    <3> QED  BY <3>1, <3>2 DEF Grown
  <2> QED  BY <2>1, <2>2
<1>4. \A id \in Rules : Lives(id)' => Lives(id) /\ status'[id] = status[id]
  BY <1>2 DEF Lives
<1>5. hb \in {"idle", "sent", "orphan", "charged", "answered"}
  BY DEF TypeOK
<1> QED  BY <1>1, <1>2, <1>3, <1>4, <1>5, MeteredStill

LEMMA MeteredHeartbeat ==
  ASSUME TypeOK, OneSlot, Metered, Heartbeat
  PROVE  Metered'
<1>1. /\ UNCHANGED <<fwd, row, status, billed, interrupted>>
      /\ hb' = "sent" /\ \A s \in Slots : req'[s] = Counters(fwd[s])
  BY DEF Heartbeat, agentVars, panelVars, historyVars
<1>2. ASSUME NEW id \in Rules, Lives(id)
      PROVE  /\ billed[id] = Amount(status[id])
             /\ Grown(status[id], Now(id)) /\ Grown(Now(id), Now(id))
             /\ Rep(id)' = Now(id) /\ Now(id)' = Now(id)
  <2>1. Grown(Now(id), Now(id))
    BY Reports, GrownSame
  <2>2. Rep(id)' = Now(id) /\ Now(id)' = Now(id)
    BY <1>1, ReportOfNow
  <2> QED  BY <1>2, <2>1, <2>2 DEF Metered
<1>3. \A id \in Rules : Lives(id)' <=> Lives(id)
  BY <1>1 DEF Lives
<1> HIDE DEF Now, Rep
<1> QED  BY <1>1, <1>2, <1>3 DEF Metered, Grown, Amount, Total

LEMMA MeteredCharge ==
  ASSUME TypeOK, OneSlot, Metered, Charge
  PROVE  Metered'
<1>1. /\ UNCHANGED <<fwd, interrupted>>
      /\ hb \in {"sent", "orphan"} /\ hb' \in {"idle", "charged"}
      /\ hb' = "charged" => req' = req
      /\ \A id \in Rules : /\ row'[id] = ChargedRow(id) /\ status'[id] = AfterUdp(id)
                            /\ billed'[id] = billed[id] + Due(id)
  BY DEF Charge, agentVars, RoundEnds
<1>2. ASSUME NEW id \in Rules, Lives(id)'
      PROVE  /\ status'[id] = Rep(id)
             /\ billed'[id] = Amount(Rep(id))
             /\ Grown(Rep(id), Now(id)')
  <2>1. Lives(id)
    BY <1>1, <1>2, DueType DEF Lives
  <2>2. /\ Due(id) = Delta(status[id], Rep(id))
        /\ AfterUdp(id) = Or(Rep(id), status[id])
    BY <1>2, <2>1, OneReport DEF Lives
  <2>3. /\ billed[id] = Amount(status[id])
        /\ Grown(status[id], Rep(id)) /\ Grown(Rep(id), Now(id))
    BY <1>1, <1>2, <2>1 DEF Metered
  <2>4. /\ Amount(status[id]) + Delta(status[id], Rep(id)) = Amount(Rep(id))
        /\ Or(Rep(id), status[id]) = Rep(id)
    BY <2>3, Reports, DeltaOfGrown
  <2>5. Now(id)' = Now(id)
    BY <1>1 DEF Now, Both
  <2> QED  BY <1>1, <2>2, <2>3, <2>4, <2>5
<1>3. /\ hb' \notin {"sent", "orphan"}
      /\ hb' = "charged" => \A id \in Rules : Rep(id)' = Rep(id)
      /\ hb' \in {"charged", "answered"} => hb' = "charged"
  BY <1>1 DEF Rep, Both
<1> HIDE DEF Now, Rep
<1> QED  BY <1>1, <1>2, <1>3 DEF Metered, Grown, Amount, Total

LEMMA MeteredStep ==
  ASSUME TypeOK, OneSlot, OneSlot', ~ Resurrect, Metered, [Next]_vars
  PROVE  Metered'
<1>t. TypeOK'
  BY TypeStep
<1>h. hb \in {"idle", "sent", "orphan", "charged", "answered"}
  BY DEF TypeOK
<1>s. ASSUME fwd' = fwd, NEW id \in Rules
      PROVE  Grown(Now(id), Now(id)')
  <2>1. Now(id)' = Now(id)
    BY <1>s DEF Now, Both
  <2> QED  BY <2>1, Reports, GrownSame
<1>d. ASSUME UNCHANGED <<row, status>>,
             \A id \in Rules : interrupted'[id] = (interrupted[id] \/ Dropped(id))
      PROVE  /\ \A id \in Rules : Lives(id)' => Lives(id) /\ status'[id] = status[id]
             /\ \A id \in Rules :
                  Lives(id)' => Grown(Now(id), Now(id)')
  <2>1. \A id \in Rules : Lives(id)' => Lives(id) /\ ~ Dropped(id)
    BY <1>d DEF Lives
  <2> QED  BY <1>d, <2>1, NotDropped
<1>1. ASSUME NEW s \in Slots, NEW way \in Ways, Carry(s, way) PROVE Metered'
  BY <1>1, MeteredCarry
<1>2. CASE Heartbeat
  BY <1>2, MeteredHeartbeat
<1>3. CASE Charge
  BY <1>3, MeteredCharge
<1>4. CASE Apply
  <2>1. /\ UNCHANGED <<row, status, billed>> /\ hb' = "idle"
        /\ \A id \in Rules : interrupted'[id] = (interrupted[id] \/ Dropped(id))
    BY <1>4 DEF Apply, Forward, RoundEnds, panelVars
  <2> QED  BY <1>t, <1>d, <2>1, MeteredStill
<1>5. CASE Restart
  <2>1. /\ UNCHANGED <<row, status, billed, hb, req>>
        /\ \A id \in Rules : interrupted'[id] = (interrupted[id] \/ Dropped(id))
    BY <1>5 DEF Restart, Forward, panelVars, channelVars
  <2> QED  BY <1>t, <1>h, <1>d, <2>1, MeteredStill
<1>6. CASE Crash
  <2>1. /\ UNCHANGED <<row, status, billed>>
        /\ hb' = "idle" \/ (hb' = "orphan" /\ hb \in {"sent", "orphan"} /\ req' = req)
        /\ \A id \in Rules : interrupted'[id] = (interrupted[id] \/ Dropped(id))
    BY <1>6 DEF Crash, RoundEnds, panelVars
  <2> QED  BY <1>t, <1>d, <2>1, MeteredStill
<1>7. CASE GiveUp \/ Lose \/ ChargeFails \/ Answer
  <2>1. UNCHANGED <<fwd, row, status, billed, interrupted>>
    BY <1>7 DEF GiveUp, Lose, ChargeFails, Answer, Rollback, agentVars, panelVars,
       historyVars
  <2>2. \/ hb' = "idle"
        \/ hb' = "orphan" /\ hb = "sent" /\ req' = req
        \/ hb' = "answered" /\ hb = "charged" /\ req' = req
    BY <1>7 DEF GiveUp, Lose, ChargeFails, Answer, RoundEnds
  <2>3. \A id \in Rules : Lives(id)' => Lives(id) /\ status'[id] = status[id]
    BY <2>1 DEF Lives
  <2> QED  BY <1>t, <1>s, <2>1, <2>2, <2>3, MeteredStill
<1>8. CASE EditStep
  <2>1. UNCHANGED <<fwd, req, hb, billed, interrupted>>
    BY <1>8, EditTypes
  <2>2. \A id \in Rules : Lives(id)' => Lives(id) /\ status'[id] = status[id]
    BY <1>8, <2>1, EditFrame DEF Lives
  <2> QED  BY <1>t, <1>h, <1>s, <2>1, <2>2, MeteredStill
<1>9. CASE UNCHANGED vars
  <2>1. UNCHANGED <<fwd, req, hb, row, status, billed, interrupted>>
    BY <1>9 DEF vars, agentVars, channelVars, panelVars, historyVars
  <2>2. \A id \in Rules : Lives(id)' => Lives(id) /\ status'[id] = status[id]
    BY <2>1 DEF Lives
  <2> QED  BY <1>t, <1>h, <1>s, <2>1, <2>2, MeteredStill
<1> QED  BY <1>1, <1>2, <1>3, <1>4, <1>5, <1>6, <1>7, <1>8, <1>9 DEF Next, AgentStep

(* A rule whose forwarder lives has been charged its counters once,        *)
(* whatever heartbeats were lost, late or rolled back before, for any      *)
(* number of rules, none of both protocols at once, as long as no deleted  *)
(* rule is brought back.                                                   *)
THEOREM BilledExactlyOnce ==
  ASSUME Single, ~ Resurrect
  PROVE  Spec => []BilledOnce
<1>1. Init => BillInv /\ Metered
  <2> SUFFICES ASSUME Init PROVE BillInv /\ Metered
    OBVIOUS
  <2>1. /\ hb = "idle"
        /\ \A id \in Rules : billed[id] = 0 /\ status[id] = None
    BY DEF Init, Nothing
  <2>2. Metered
    BY <2>1 DEF Metered, Amount, Grown
  <2> QED  BY <2>2, BillInit
<1>2. BillInv /\ [Next]_vars => BillInv'
  BY BillStep
<1>3. BillInv /\ Metered /\ [Next]_vars => Metered'
  BY <1>2, MeteredStep DEF BillInv
<1>4. BillInv /\ Metered => BilledOnce
  <2> SUFFICES ASSUME BillInv, Metered, hb \in {"charged", "answered"},
                      NEW id \in Rules, row[id] # None, ~ interrupted[id]
               PROVE  billed[id] = Amount(req[<<id, "tcp">>]) + Amount(req[<<id, "udp">>])
    BY DEF BilledOnce
  <2>1. billed[id] = Amount(Rep(id)) /\ billed[id] \in Nat
    BY Reports DEF Metered, Lives, BillInv
  <2>2. One(req, id) /\ Amount(None) = 0
    BY DEF BillInv, OneSlot, Amount
  <2> QED  BY <2>1, <2>2 DEF One, Rep, Both, Or
<1> QED  BY <1>1, <1>2, <1>3, <1>4, PTL DEF Spec

=============================================================================
