------------------------------- MODULE Traffic -------------------------------
(***************************************************************************)
(* Counting traffic and withdrawing rules: the heartbeat of one agent      *)
(* (internal/agent/agent.go) and its handler on the panel                  *)
(* (handleAgentHeartbeat of internal/panel/server.go, UpdateNodeHeartbeat  *)
(* and RulesForNode of store.go), beside the handlers that edit the rules  *)
(* and the user they belong to.                                            *)
(*                                                                         *)
(* The agent reports counters, the panel charges differences.  Between the *)
(* two a request or an answer may be lost, a transaction may fail, the     *)
(* agent may die or replace a forwarder, whose counters start again at 0.  *)
(* One user owns all the rules.  carried, billed, interrupted and forgiven *)
(* are history.                                                            *)
(***************************************************************************)
EXTENDS Integers, FiniteSetsExt

CONSTANTS
  Rules,
  Versions,     \* what sameRule compares, as one value
  Protocol,     \* the protocols of a version: {"tcp"}, {"udp"} or both
  None,
  UserLimits,   \* limits an operator may give the user (0: no limit)
  RuleLimit,    \* the traffic limit of every rule (0: no limit)
  MaxCarried,   \* bound on the traffic of each rule
  MaxEdits,     \* bound on the number of edits
  Crashes,      \* may the agent process die?
  Resurrect     \* may a handler save a rule that another one has just deleted?

Protos == {"tcp", "udp"}
Slots  == Rules \X Protos    \* a rule "both" has two forwarders
Ways   == {"in", "out"}

Counts     == [in : Nat, out : Nat]
Forwarders == [ver : Versions, in : Nat, out : Nat]
RuleRows   == [enabled : BOOLEAN, ver : Versions, used : Nat]

ASSUME TrafficAssumption ==
  /\ IsFiniteSet(Rules)
  /\ Protocol \in [Versions -> (SUBSET Protos) \ {{}}]
  /\ None \notin Versions /\ Versions # {}
  /\ None \notin Counts /\ None \notin Forwarders /\ None \notin RuleRows
  /\ UserLimits \subseteq Nat /\ RuleLimit \in Nat
  /\ MaxCarried \in [Rules -> Nat] /\ MaxEdits \in Nat
  /\ Crashes \in BOOLEAN /\ Resurrect \in BOOLEAN

VARIABLES
  up,          \* agent: is the process running?
  fwd,         \* agent: the forwarders and their counters
  saved,       \* agent: the last-rules file
  hb,          \* the heartbeat: "orphan" is a request nobody waits for
  req,         \* its statuses
  answer,      \* its answer: the version of each rule to serve
  row,         \* panel: forward_rules
  status,      \* panel: rule_statuses, one row per rule
  userLimit,   \* panel: traffic_limit of the user
  userUsed,    \* panel: traffic_used of the user
  copy,        \* a rule read by toggle or by a page, not yet saved
  edits,       \* history: how many edits there were
  carried,     \* history: bytes forwarded for a rule
  billed,      \* history: bytes charged for a rule
  interrupted, \* history: has a forwarder of the rule been dropped?
  forgiven     \* history: bytes of the user that were reset

agentVars   == <<up, fwd, saved>>
channelVars == <<hb, req, answer>>
panelVars   == <<row, status, userLimit, userUsed, copy, edits>>
historyVars == <<carried, billed, interrupted, forgiven>>
vars == <<agentVars, channelVars, panelVars, historyVars>>

Answers    == [Rules -> Versions \cup {None}]

(* userUsed and forgiven are settled by UserBillExact.                    *)
TypeOK ==
  /\ up \in BOOLEAN
  /\ fwd \in [Slots -> Forwarders \cup {None}]
  /\ saved \in Answers
  /\ hb \in {"idle", "sent", "orphan", "charged", "answered"}
  /\ req \in [Slots -> Counts \cup {None}]
  /\ answer \in Answers
  /\ row \in [Rules -> RuleRows \cup {None}]
  /\ status \in [Rules -> Counts \cup {None}]
  /\ userLimit \in UserLimits
  /\ copy \in [id : Rules, row : RuleRows] \cup {None}
  /\ edits \in 0 .. MaxEdits
  /\ carried \in [Rules -> Nat] /\ billed \in [Rules -> Nat]
  /\ interrupted \in [Rules -> BOOLEAN]

-----------------------------------------------------------------------------
(* The agent.                                                              *)

Counters(f) == IF f = None THEN None ELSE [in |-> f.in, out |-> f.out]

More(f, way) ==
  IF way = "in" THEN [f EXCEPT !.in = @ + 1] ELSE [f EXCEPT !.out = @ + 1]

Carry(s, way) ==
  /\ fwd[s] # None
  /\ carried[s[1]] < MaxCarried[s[1]]
  /\ fwd' = [fwd EXCEPT ![s] = More(@, way)]
  /\ carried' = [carried EXCEPT ![s[1]] = @ + 1]
  /\ UNCHANGED <<up, saved, channelVars, panelVars, billed, interrupted, forgiven>>

NoReports == [s \in Slots |-> None]
Nothing   == [id \in Rules |-> None]

RoundEnds == hb' = "idle" /\ req' = NoReports /\ answer' = Nothing

(* The next tick of Run: Statuses is read before the request is sent.      *)
Heartbeat ==
  /\ up /\ hb = "idle"
  /\ req' = [s \in Slots |-> Counters(fwd[s])]
  /\ hb' = "sent"
  /\ UNCHANGED <<agentVars, answer, panelVars, historyVars>>

(* Manager.Apply: a forwarder of a withdrawn or changed rule is dropped    *)
(* with its counters, a new one starts at 0.                               *)
Forwarder(R, s) ==
  IF R[s[1]] = None \/ s[2] \notin Protocol[R[s[1]]] THEN None
  ELSE IF fwd[s] # None /\ fwd[s].ver = R[s[1]] THEN fwd[s]
  ELSE [ver |-> R[s[1]], in |-> 0, out |-> 0]

Dropped(id) == \E p \in Protos :
  /\ fwd[<<id, p>>] # None
  /\ fwd'[<<id, p>>] # fwd[<<id, p>>]

Forward(R) ==
  /\ fwd' = [s \in Slots |-> Forwarder(R, s)]
  /\ interrupted' = [id \in Rules |-> interrupted[id] \/ Dropped(id)]

(* The file is not written when the firewall fails.                        *)
Apply ==
  /\ up /\ hb = "answered"
  /\ Forward(answer)
  /\ saved' \in {answer, saved}
  /\ RoundEnds
  /\ UNCHANGED <<up, panelVars, carried, billed, forgiven>>

(* The client gives up after 20 seconds; the request is on its way.        *)
GiveUp ==
  /\ hb = "sent" /\ hb' = "orphan"
  /\ UNCHANGED <<agentVars, req, answer, panelVars, historyVars>>

(* The request, or the answer, is lost.                                    *)
Lose ==
  /\ hb # "idle" /\ RoundEnds
  /\ UNCHANGED <<agentVars, panelVars, historyVars>>

Crash ==
  /\ Crashes /\ up
  /\ up' = FALSE
  /\ fwd' = [s \in Slots |-> None]
  /\ interrupted' = [id \in Rules |-> interrupted[id] \/ Dropped(id)]
  /\ IF hb \in {"sent", "orphan"} THEN hb' = "orphan" /\ UNCHANGED <<req, answer>>
                                   ELSE RoundEnds
  /\ UNCHANGED <<saved, panelVars, carried, billed, forgiven>>

Restart ==
  /\ ~ up /\ up' = TRUE
  /\ Forward(saved)
  /\ UNCHANGED <<saved, channelVars, panelVars, carried, billed, forgiven>>

-----------------------------------------------------------------------------
(* The handler of the heartbeat.                                           *)

Total(c) == c.in + c.out

DeltaOfKnown(old, new) ==   \* mutant: a first report is not charged
  IF new = None \/ old = None THEN 0
  ELSE IF new.in >= old.in /\ new.out >= old.out THEN Total(new) - Total(old)
  ELSE Total(new)

(* What is charged for counters `new` when the row held `old`: counters    *)
(* that went down belong to a new forwarder.                               *)
Delta(old, new) ==
  IF new = None THEN 0
  ELSE IF old # None /\ new.in >= old.in /\ new.out >= old.out
       THEN Total(new) - Total(old)
  ELSE Total(new)

Or(new, old) == IF new = None THEN old ELSE new

(* The statuses come with m.tcp before m.udp, and share the row.           *)
AfterTcp(id) == Or(req[<<id, "tcp">>], status[id])
AfterUdp(id) == Or(req[<<id, "udp">>], AfterTcp(id))

Due(id) ==
  IF row[id] = None THEN 0
  ELSE Delta(status[id], req[<<id, "tcp">>]) + Delta(AfterTcp(id), req[<<id, "udp">>])

ChargedRow(id) ==
  IF Due(id) = 0 THEN row[id] ELSE [row[id] EXCEPT !.used = @ + Due(id)]

(* The transaction of UpdateNodeHeartbeat.                                 *)
Charge ==
  /\ hb \in {"sent", "orphan"}
  /\ row' = [id \in Rules |-> ChargedRow(id)]
  /\ status' = [id \in Rules |-> AfterUdp(id)]
  /\ userUsed' = userUsed + MapThenSumSet(Due, Rules)
  /\ billed' = [id \in Rules |-> billed[id] + Due(id)]
  /\ IF hb = "sent" THEN hb' = "charged" /\ UNCHANGED <<req, answer>> ELSE RoundEnds
  /\ UNCHANGED <<agentVars, userLimit, copy, edits, carried, interrupted, forgiven>>

KeepCharges ==    \* mutant: what was written before the error stays
  /\ row' = [id \in Rules |-> ChargedRow(id)]
  /\ billed' = [id \in Rules |-> billed[id] + Due(id)]
  /\ userUsed' = userUsed + MapThenSumSet(Due, Rules)
  /\ UNCHANGED status

Rollback == UNCHANGED <<row, status, userUsed, billed>>

ChargeFails ==
  /\ hb \in {"sent", "orphan"}
  /\ Rollback
  /\ RoundEnds
  /\ UNCHANGED <<agentVars, userLimit, copy, edits, carried, interrupted, forgiven>>

Exhausted(limit, used) == limit > 0 /\ used >= limit

ServedWithoutUser(id) ==    \* mutant: the user is not looked at
  row[id] # None /\ row[id].enabled /\ ~ Exhausted(RuleLimit, row[id].used)

Served(id) ==
  /\ row[id] # None /\ row[id].enabled
  /\ ~ Exhausted(RuleLimit, row[id].used)
  /\ ~ Exhausted(userLimit, userUsed)

(* RulesForNode takes the lock again: edits come between Charge and it.    *)
Answer ==
  /\ hb = "charged"
  /\ answer' = [id \in Rules |-> IF Served(id) THEN row[id].ver ELSE None]
  /\ hb' = "answered"
  /\ UNCHANGED <<agentVars, req, panelVars, historyVars>>

-----------------------------------------------------------------------------
(* The other handlers. Toggle reads and saves a rule in two steps; a page  *)
(* sends back the row it was opened with, traffic_used included. A save    *)
(* takes the lock after the check that the rule is still there.            *)

otherVars == <<agentVars, channelVars, carried, billed, interrupted>>

Edit == edits < MaxEdits /\ edits' = edits + 1

Read(id) ==
  /\ edits < MaxEdits
  /\ copy = None /\ row[id] # None
  /\ copy' = [id |-> id, row |-> row[id]]
  /\ UNCHANGED <<otherVars, row, status, userLimit, userUsed, edits, forgiven>>

Savable == row[copy.id] # None \/ Resurrect

SaveToggle ==
  /\ Edit
  /\ copy # None /\ Savable
  /\ \E on \in BOOLEAN :
       row' = [row EXCEPT ![copy.id] = [copy.row EXCEPT !.enabled = on]]
  /\ copy' = None
  /\ UNCHANGED <<otherVars, status, userLimit, userUsed, forgiven>>

(* ValidateRule refuses the rule of a user without traffic.                *)
SavePut(on, v) ==
  /\ Edit
  /\ copy # None /\ Savable
  /\ ~ Exhausted(userLimit, userUsed)
  /\ row' = [row EXCEPT ![copy.id] = [enabled |-> on, ver |-> v, used |-> copy.row.used]]
  /\ copy' = None
  /\ UNCHANGED <<otherVars, status, userLimit, userUsed, forgiven>>

(* The page is closed, or the rule is gone or not valid any more.          *)
Discard ==
  /\ copy # None /\ copy' = None
  /\ UNCHANGED <<otherVars, row, status, userLimit, userUsed, edits, forgiven>>

DeleteRule(id) ==
  /\ Edit
  /\ row[id] # None
  /\ row' = [row EXCEPT ![id] = None]
  /\ status' = [status EXCEPT ![id] = None]
  /\ UNCHANGED <<otherVars, userLimit, userUsed, copy, forgiven>>

ResetRuleTraffic(id) ==
  /\ Edit
  /\ row[id] # None
  /\ row' = [row EXCEPT ![id] = [@ EXCEPT !.used = 0]]
  /\ UNCHANGED <<otherVars, status, userLimit, userUsed, copy, forgiven>>

ResetUserTraffic ==
  /\ Edit
  /\ userUsed' = 0 /\ forgiven' = forgiven + userUsed
  /\ UNCHANGED <<otherVars, row, status, userLimit, copy>>

SentTrafficUsed == 0    \* mutant: the field of the request is saved

OldTrafficUsed == userUsed

SaveUser(limit) ==
  /\ Edit
  /\ userLimit' = limit /\ userUsed' = OldTrafficUsed
  /\ UNCHANGED <<otherVars, row, status, copy, forgiven>>

-----------------------------------------------------------------------------
Init ==
  /\ up = TRUE
  /\ fwd = [s \in Slots |-> None]
  /\ saved = Nothing
  /\ hb = "idle" /\ req = NoReports /\ answer = Nothing
  /\ LET v == CHOOSE v \in Versions : TRUE IN
       row = [id \in Rules |-> [enabled |-> TRUE, ver |-> v, used |-> 0]]
  /\ status = Nothing
  /\ userLimit \in UserLimits /\ userUsed = 0
  /\ copy = None /\ edits = 0
  /\ carried = [id \in Rules |-> 0] /\ billed = [id \in Rules |-> 0]
  /\ interrupted = [id \in Rules |-> FALSE]
  /\ forgiven = 0

AgentStep ==
  \/ \E s \in Slots, way \in Ways : Carry(s, way)
  \/ Heartbeat \/ Apply \/ GiveUp \/ Lose \/ Crash \/ Restart

EditStep ==
  \/ \E id \in Rules : Read(id) \/ DeleteRule(id) \/ ResetRuleTraffic(id)
  \/ SaveToggle \/ Discard \/ ResetUserTraffic
  \/ \E on \in BOOLEAN, v \in Versions : SavePut(on, v)
  \/ \E limit \in UserLimits : SaveUser(limit)

Next == AgentStep \/ Charge \/ ChargeFails \/ Answer \/ EditStep

OrphanEnds == hb = "orphan" /\ (Charge \/ ChargeFails \/ Lose)

(* The agent sends a heartbeat again and again and systemd restarts it; of *)
(* the network, the panel and the process it is only assumed that each     *)
(* step of a round succeeds in time once if it is tried for ever.          *)
Fairness ==
  /\ WF_vars(Restart) /\ WF_vars(OrphanEnds)
  /\ SF_vars(Heartbeat) /\ SF_vars(hb = "sent" /\ Charge) /\ SF_vars(Answer) /\ SF_vars(Apply)

Spec == Init /\ [][Next]_vars /\ Fairness

-----------------------------------------------------------------------------
(* Properties.                                                             *)

(* Nothing is charged that was not forwarded, over lost heartbeats, failed *)
(* transactions, restarts and replaced forwarders (the delta of            *)
(* UpdateNodeHeartbeat against counters that start again).                 *)
NeverOvercharged == \A id \in Rules : billed[id] <= carried[id]

Amount(c) == IF c = None THEN 0 ELSE Total(c)

(* As long as the forwarder of a rule lives, a heartbeat that succeeds     *)
(* settles all it reports, also what heartbeats that failed reported: the  *)
(* rule has been charged its counters exactly once (UpdateNodeHeartbeat).  *)
BilledOnce ==
  hb \in {"charged", "answered"} =>
    \A id \in Rules : row[id] # None /\ ~ interrupted[id] =>
      billed[id] = Amount(req[<<id, "tcp">>]) + Amount(req[<<id, "udp">>])

(* The bill of the user is the sum of the bills of the rules, less what an *)
(* operator reset, whatever rules are edited or deleted and whatever the   *)
(* settings of the user are saved with (UpdateNodeHeartbeat, SaveUser).    *)
UserBillExact ==
  userUsed + forgiven = MapThenSumSet(LAMBDA id : billed[id], Rules)

(* A rule is withdrawn: deleted, disabled, out of its own traffic or out   *)
(* of that of its user.                                                    *)
Withdrawn(id) ==
  \/ row[id] = None
  \/ ~ row[id].enabled
  \/ RuleLimit > 0 /\ row[id].used >= RuleLimit
  \/ userLimit > 0 /\ userUsed >= userLimit

(* The agent ends the forwarding of a withdrawn rule, over lost answers    *)
(* and restarts from an old file (RulesForNode, Apply).                    *)
WithdrawnStops ==
  \A id \in Rules :
    Withdrawn(id) ~> (~ Withdrawn(id) \/ \A p \in Protos : fwd[<<id, p>>] = None)
=============================================================================
