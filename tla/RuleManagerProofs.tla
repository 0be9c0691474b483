------------------------- MODULE RuleManagerProofs --------------------------
(***************************************************************************)
(* What holds of RuleManager for any rules, ports and answers of the       *)
(* panel, beside other processes, failing firewalls and crashes.           *)
(***************************************************************************)
EXTENDS RuleManager, TLAPS

(* A port that the agent holds is that of the forwarder that bound it.     *)
Held ==
  \A s \in Sockets : owner[s] \in Keys =>
    /\ fwd[owner[s]].state = "running"
    /\ s = Socket(fwd[owner[s]].row, owner[s][2])

(* From StopStale on every forwarder is one of the rules that are applied, *)
(* from StartMissing on every one of them is there; none is still binding  *)
(* when the next answer comes.                                             *)
Follows ==
  /\ \A k \in Keys : Running(k) => fwd[k].row.enabled
  /\ pc # "stop" => \A k \in Keys :
                      Running(k) => Wanted(rules, k) /\ SameRule(fwd[k].row, rules[k[1]])
  /\ pc = "stop" => Settled
  /\ up /\ pc \notin {"stop", "start"} => \A k \in Keys : Wanted(rules, k) => Running(k)

Down == ~ up => rules = Nothing /\ pc = "idle"

ManagerInv == TypeOK /\ Held /\ Follows /\ Down

-----------------------------------------------------------------------------

LEMMA RowsAreRows == \A row \in Rows : IsRow(row)
BY RuleManagerAssumption DEF RuleManagerAssumption, Rows

LEMMA ForwarderCases ==
  /\ \A f \in Forwarders : \/ f = NoForwarder /\ f.state = "none"
                           \/ /\ f # NoForwarder /\ f.row \in Rows
                              /\ f.state \in {"starting", "running", "error"}
  /\ \A row \in Rows, s \in {"starting", "running", "error"} :
       /\ [row |-> row, state |-> s] \in Forwarders
       /\ [row |-> row, state |-> s] # NoForwarder
  /\ NoForwarder \in Forwarders
<1>1. None \notin Rows
  BY DEF Rows
<1> QED BY <1>1 DEF Forwarders, NoForwarder

LEMMA SocketType ==
  ASSUME NEW row \in Rows, NEW p \in Protos
  PROVE  Socket(row, p) \in Sockets
BY RowsAreRows DEF Socket, Sockets, IsRow

(* Neither marker of a port is a key of the maps.                          *)
LEMMA MarkersNoKeys == Free \notin Keys /\ Other \notin Keys /\ Free # Other
BY RuleManagerAssumption DEF RuleManagerAssumption, Free, Other, Keys

(* A rule that is wanted has a row.                                        *)
LEMMA WantedRows ==
  ASSUME NEW R \in Answers
  PROVE  /\ \A k \in Keys : Wanted(R, k) => R[k[1]] \in Rows /\ R[k[1]].enabled
         /\ R = Nothing => \A k \in Keys : ~ Wanted(R, k)
<1>1. \A k \in Keys : k[1] \in Rules
  BY DEF Keys
<1> QED BY <1>1 DEF Answers, Nothing, Wanted, Uses, Rows

LEMMA SameRuleFacts ==
  ASSUME NEW x, NEW y
  PROVE  /\ SameRule(x, x)
         /\ SameRule(x, y) => \A p : Socket(x, p) = Socket(y, p)
BY DEF SameRule, Socket

-----------------------------------------------------------------------------
(* Types.                                                                  *)

LEMMA TypeStep == TypeOK /\ [Next]_vars => TypeOK'
<1> SUFFICES ASSUME TypeOK, [Next]_vars PROVE TypeOK'
  OBVIOUS
<1> USE DEF TypeOK, history
<1>a. \A k \in Keys : fwd[k] \in Forwarders
  OBVIOUS
<1>b. NoForwarder \in Forwarders
  BY ForwarderCases
<1>1. ASSUME NEW R \in RuleSets, Apply(R)
      PROVE  TypeOK'
  BY <1>1 DEF Apply, Answers
<1>2. CASE StopStale
  <2>1. fwd' \in [Keys -> Forwarders]
    BY <1>2, <1>a, <1>b DEF StopStale, DropStale
  <2>2. owner' \in [Sockets -> Keys \cup {Free, Other}]
    BY <1>2 DEF StopStale, DropStale
  <2> QED BY <1>2, <2>1, <2>2 DEF StopStale
<1>3. CASE StartMissing
  <2>1. \A k \in Keys : Wanted(rules, k) =>
          [row |-> rules[k[1]], state |-> "starting"] \in Forwarders
    BY WantedRows, ForwarderCases
  <2>2. fwd' \in [Keys -> Forwarders]
    BY <1>3, <1>a, <2>1 DEF StartMissing
  <2> QED BY <1>3, <2>2 DEF StartMissing
<1>4. CASE ApplyFirewall
  BY <1>4 DEF ApplyFirewall
<1>4a. CASE OpenFile
  BY <1>4a DEF OpenFile
<1>4b. CASE WriteFile
  BY <1>4b DEF WriteFile
<1>5. ASSUME NEW k \in Keys, Listen(k)
      PROVE  TypeOK'
  <2>1. \A s \in {"running", "error"} :
          [fwd EXCEPT ![k].state = s] \in [Keys -> Forwarders]
    <3>1. fwd[k].row \in Rows /\ fwd[k] \in [row : Rows, state : {"starting", "running", "error"}]
      BY <1>5, <1>a, ForwarderCases DEF Listen, Forwarders
    <3>2. \A s \in {"running", "error"} : [fwd[k] EXCEPT !.state = s] \in Forwarders
      BY <3>1 DEF Forwarders
    <3> QED BY <3>2
  <2>2. fwd' \in [Keys -> Forwarders]
    BY <1>5, <2>1 DEF Listen
  <2>3. owner' \in [Sockets -> Keys \cup {Free, Other}]
    BY <1>5 DEF Listen
  <2> QED BY <1>5, <2>2, <2>3 DEF Listen
<1>6. ASSUME NEW s \in Sockets, OtherTakes(s) \/ OtherLeaves(s)
      PROVE  TypeOK'
  BY <1>6 DEF OtherTakes, OtherLeaves
<1>7. CASE Crash
  <2>1. fwd' \in [Keys -> Forwarders]
    BY <1>7, <1>b DEF Crash
  <2>2. owner' \in [Sockets -> Keys \cup {Free, Other}]
    BY <1>7 DEF Crash
  <2> QED BY <1>7, <2>1, <2>2 DEF Crash, Answers
<1>8. CASE Restart
  BY <1>8 DEF Restart
<1>9. CASE UNCHANGED vars
  BY <1>9 DEF vars
<1> QED BY <1>1, <1>2, <1>3, <1>4, <1>4a, <1>4b, <1>5, <1>6, <1>7, <1>8, <1>9 DEF Next

-----------------------------------------------------------------------------
(* The forwarders.                                                         *)

(* The old forwarders go with their ports; those that stay are wanted.     *)
LEMMA StopStaleStep ==
  ManagerInv /\ StopStale => Held' /\ Follows'
<1> SUFFICES ASSUME TypeOK, Held, Follows, StopStale
             PROVE  Held' /\ Follows'
  BY DEF ManagerInv
<1>1. \A k \in Keys : fwd'[k] = IF Stale(k) THEN NoForwarder ELSE fwd[k]
  BY DEF StopStale, DropStale
<1>2. \A k \in Keys : Running(k)' <=> Running(k) /\ ~ Stale(k)
  BY <1>1 DEF Running, Stale
<1>3. \A s \in Sockets : owner'[s] \in Keys =>
        owner'[s] = owner[s] /\ ~ Stale(owner[s])
  BY MarkersNoKeys DEF StopStale, DropStale
<1>4. Held'
  BY <1>1, <1>3 DEF Held
<1>6. Follows'
  <2>1. pc' = "start" /\ rules' = rules
    BY DEF StopStale
  <2>2. ASSUME NEW k \in Keys, Running(k)'
        PROVE  /\ fwd'[k] = fwd[k] /\ fwd[k].row.enabled
               /\ Wanted(rules, k) /\ SameRule(fwd[k].row, rules[k[1]])
    BY <1>1, <1>2, <2>2 DEF Stale, Follows
  <2> QED BY <2>1, <2>2 DEF Follows
<1> QED BY <1>4, <1>6

(* The new forwarders fill what is missing.                                *)
LEMMA StartMissingStep ==
  ManagerInv /\ StartMissing => Held' /\ Follows'
<1> SUFFICES ASSUME TypeOK, Held, Follows, StartMissing
             PROVE  Held' /\ Follows'
  BY DEF ManagerInv
<1>a. pc = "start" /\ pc' = "fw" /\ rules' = rules /\ owner' = owner
  BY DEF StartMissing
<1>b. rules \in Answers
  BY DEF TypeOK
<1>1. \A k \in Keys :
        fwd'[k] = IF ~ Running(k) /\ Wanted(rules, k)
                  THEN [row |-> rules[k[1]], state |-> "starting"] ELSE fwd[k]
  BY DEF StartMissing
<1>2. ASSUME NEW k \in Keys
      PROVE  /\ Running(k) => fwd'[k] = fwd[k]
             /\ Running(k)' <=> Wanted(rules, k)
             /\ Running(k)' => SameRule(fwd'[k].row, rules[k[1]])
             /\ Running(k)' => fwd'[k].row.enabled
  <2>1. CASE Running(k)
    BY <1>a, <1>1, <2>1 DEF Running, Follows
  <2>2. CASE ~ Running(k) /\ ~ Wanted(rules, k)
    BY <1>1, <2>2 DEF Running
  <2>3. CASE ~ Running(k) /\ Wanted(rules, k)
    <3>1. fwd'[k] = [row |-> rules[k[1]], state |-> "starting"]
      BY <1>1, <2>3
    <3>2. rules[k[1]] \in Rows /\ rules[k[1]].enabled
      BY <1>b, <2>3, WantedRows
    <3>3. fwd'[k] # NoForwarder /\ fwd'[k].row = rules[k[1]]
      BY <3>1, <3>2, ForwarderCases
    <3> QED BY <2>3, <3>2, <3>3, SameRuleFacts DEF Running
  <2> QED BY <2>1, <2>2, <2>3
<1>3. Held'
  <2>1. \A s \in Sockets : owner[s] \in Keys => Running(owner[s])
    BY ForwarderCases DEF Held, Running, NoForwarder
  <2> QED BY <1>a, <1>2, <2>1 DEF Held
<1>5. Follows'
  BY <1>a, <1>2 DEF Follows, Wanted
<1> QED BY <1>3, <1>5

(* Binding gives a port to a forwarder or leaves it to its holder.         *)
LEMMA ListenStep ==
  ASSUME ManagerInv, NEW k \in Keys, Listen(k)
  PROVE  Held' /\ Follows' /\ Down'
<1> USE DEF ManagerInv
<1> DEFINE s == Socket(fwd[k].row, k[2])
<1>1. /\ fwd[k].state = "starting" /\ Running(k)
      /\ fwd[k] \in [row : Rows, state : {"starting", "running", "error"}]
  BY ForwarderCases DEF Listen, Running, TypeOK, NoForwarder, Forwarders
<1>2. s \in Sockets
  BY <1>1, SocketType DEF Keys
<1>3. /\ \A j \in Keys \ {k} : fwd'[j] = fwd[j]
      /\ fwd'[k].row = fwd[k].row /\ fwd'[k].state \in {"running", "error"}
      /\ fwd'[k] \in [row : Rows, state : {"starting", "running", "error"}]
  BY <1>1 DEF Listen, TypeOK
<1>4. \A j \in Keys : (Running(j)' <=> Running(j)) /\ fwd'[j].row = fwd[j].row
  BY <1>1, <1>3, ForwarderCases DEF Running
<1>5. /\ \/ owner' = owner
         \/ owner' = [owner EXCEPT ![s] = k] /\ fwd'[k].state = "running"
      /\ UNCHANGED <<up, pc, rules>>
  <2>1. fwd' = [fwd EXCEPT ![k].state = "running"] => fwd'[k].state = "running"
    BY <1>1 DEF TypeOK
  <2> QED BY <2>1 DEF Listen
<1>6. Held'
  <2>1. \A t \in Sockets : owner[t] # k
    BY <1>1 DEF Held
  <2>2. ASSUME NEW t \in Sockets, owner'[t] \in Keys
        PROVE  /\ fwd'[owner'[t]].state = "running"
               /\ t = Socket(fwd'[owner'[t]].row, owner'[t][2])
    <3>1. CASE owner'[t] = owner[t]
      BY <1>3, <2>1, <2>2, <3>1 DEF Held
    <3>2. CASE owner'[t] # owner[t]
      <4>1. t = s /\ owner'[t] = k /\ fwd'[k].state = "running"
        BY <1>2, <1>5, <3>2 DEF TypeOK
      <4> QED BY <1>3, <4>1
    <3> QED BY <3>1, <3>2
  <2> QED BY <2>2 DEF Held
<1>7. Follows'
  BY <1>1, <1>4, <1>5 DEF Follows, Wanted, Settled
<1>8. Down'
  BY <1>5 DEF Down
<1> QED BY <1>6, <1>7, <1>8

(* The other steps.                                                        *)
LEMMA OtherSteps ==
  ManagerInv /\ [Next]_vars /\ ~ StopStale /\ ~ StartMissing
    /\ ~ (\E k \in Keys : Listen(k))
  => Held' /\ Follows' /\ Down'
<1> SUFFICES ASSUME TypeOK, Held, Follows, Down, [Next]_vars,
                    ~ StopStale, ~ StartMissing, ~ \E k \in Keys : Listen(k)
             PROVE  Held' /\ Follows' /\ Down'
  BY DEF ManagerInv
<1>1. ASSUME NEW R \in RuleSets, Apply(R)
      PROVE  Held' /\ Follows' /\ Down'
  BY <1>1 DEF Apply, Settled, Held, Follows, Down, Running, Wanted
<1>2. CASE ApplyFirewall
  BY <1>2 DEF ApplyFirewall, Held, Follows, Down, Running, Wanted
<1>2a. CASE OpenFile \/ WriteFile
  BY <1>2a DEF OpenFile, WriteFile, Held, Follows, Down, Running, Wanted
<1>3. ASSUME NEW s \in Sockets, OtherTakes(s) \/ OtherLeaves(s)
      PROVE  Held' /\ Follows' /\ Down'
  <2>1. UNCHANGED <<up, pc, rules, fwd>>
    BY <1>3 DEF OtherTakes, OtherLeaves
  <2>2. \A t \in Sockets : owner'[t] \in Keys => owner'[t] = owner[t]
    BY <1>3, MarkersNoKeys DEF OtherTakes, OtherLeaves, TypeOK
  <2>3. Held'
    BY <2>1, <2>2 DEF Held
  <2> QED BY <2>1, <2>3 DEF Follows, Down, Running, Wanted, Settled
<1>4. CASE Crash
  <2>1. (\A k \in Keys : ~ Running(k)') /\ (\A s \in Sockets : owner'[s] \notin Keys)
    BY <1>4, MarkersNoKeys DEF Crash, Running
  <2> QED BY <1>4, <2>1 DEF Crash, Held, Follows, Down
<1>5. CASE Restart
  <2>1. rules = Nothing /\ pc = "idle" /\ UNCHANGED <<fwd, owner>>
    BY <1>5 DEF Restart, Down
  <2>2. \A k \in Keys : ~ Wanted(rules, k)
    BY <2>1, WantedRows DEF TypeOK
  <2>3. \A k \in Keys : ~ Running(k)
    BY <2>1, <2>2 DEF Follows
  <2>4. Held' /\ Down'
    BY <1>5, <2>1 DEF Restart, Held, Down, Running
  <2>5. Follows'
    BY <1>5, <2>1, <2>2, <2>3
       DEF Restart, Follows, Running, Wanted, Settled, NoForwarder
  <2> QED BY <2>4, <2>5
<1>6. CASE UNCHANGED vars
  BY <1>6 DEF vars, Held, Follows, Down, Running, Wanted, Settled
<1> QED BY <1>1, <1>2, <1>2a, <1>3, <1>4, <1>5, <1>6 DEF Next

LEMMA ManagerInit == Init => ManagerInv
<1> SUFFICES ASSUME Init PROVE ManagerInv
  OBVIOUS
<1>1. TypeOK
  BY ForwarderCases DEF Init, TypeOK, Answers
<1>2. \A k \in Keys : ~ Running(k)
  BY DEF Init, Running
<1>3. \A s \in Sockets : owner[s] \notin Keys
  BY MarkersNoKeys DEF Init
<1>4. \A k \in Keys : ~ Wanted(rules, k)
  BY WantedRows DEF Init, Answers
<1> QED BY <1>1, <1>2, <1>3, <1>4
        DEF Init, ManagerInv, Held, Follows, Down

LEMMA ManagerStep == ManagerInv /\ [Next]_vars => ManagerInv'
<1> SUFFICES ASSUME ManagerInv, [Next]_vars PROVE ManagerInv'
  OBVIOUS
<1>1. TypeOK'
  BY TypeStep DEF ManagerInv
<1>2. StopStale \/ StartMissing => Down'
  BY DEF StopStale, StartMissing, ManagerInv, Down
<1>3. Held' /\ Follows' /\ Down'
  BY <1>2, StopStaleStep, StartMissingStep, ListenStep, OtherSteps
<1> QED BY <1>1, <1>3 DEF ManagerInv

LEMMA ManagerInvariant == Spec => []ManagerInv
BY ManagerInit, ManagerStep, PTL DEF Spec

-----------------------------------------------------------------------------

(* The variables keep their types.                                         *)
THEOREM TypeCorrect == Spec => []TypeOK
<1>1. ManagerInv => TypeOK
  BY DEF ManagerInv
<1> QED BY <1>1, ManagerInvariant, PTL

(* Two rows that sameRule finds equal ask for the same.                    *)
LEMMA SameRuleAsks ==
  ASSUME NEW x \in Rows, NEW y \in Rows, x.enabled = y.enabled
  PROVE  SameRule(x, y) <=> Asked(x) = Asked(y)
<1> DEFINE D == {"enabled", "protocol", "port", "target", "cidrs"}
<1>1. /\ Asked(x) = [f \in D |-> IF f = "cidrs" THEN ToBag(x.cidrs) ELSE x[f]]
      /\ Asked(y) = [f \in D |-> IF f = "cidrs" THEN ToBag(y.cidrs) ELSE y[f]]
  BY RowsAreRows DEF Asked, IsRow
<1>2. /\ Asked(x).protocol = x.protocol /\ Asked(y).protocol = y.protocol
      /\ Asked(x).port = x.port /\ Asked(y).port = y.port
      /\ Asked(x).target = x.target /\ Asked(y).target = y.target
      /\ Asked(x).cidrs = ToBag(x.cidrs) /\ Asked(y).cidrs = ToBag(y.cidrs)
  BY <1>1
<1>3. ASSUME SameRule(x, y)
      PROVE  Asked(x) = Asked(y)
  BY <1>1, <1>3 DEF SameRule
<1> QED BY <1>2, <1>3 DEF SameRule

(* Between two calls the forwarders and the ports of the agent are those   *)
(* of the rules last applied, whatever the history of answers.             *)
THEOREM ForwardersFollowRules == Spec => []OnlyApplied
<1>1. ASSUME ManagerInv, up, pc = "idle"
      PROVE  /\ \A k \in Keys :
                  /\ Running(k) <=> Wanted(rules, k)
                  /\ Running(k) => Asked(fwd[k].row) = Asked(rules[k[1]])
             /\ \A s \in Sockets : owner[s] \in Keys =>
                  Running(owner[s])
                  /\ s = Socket(fwd[owner[s]].row, owner[s][2])
  <2>1. ASSUME NEW k \in Keys
        PROVE  Running(k) <=> Wanted(rules, k)
    BY <1>1 DEF ManagerInv, Follows
  <2>2. ASSUME NEW k \in Keys, Running(k)
        PROVE  Asked(fwd[k].row) = Asked(rules[k[1]])
    <3>1. fwd[k].row \in Rows /\ fwd[k].row.enabled = TRUE
      BY <1>1, <2>2, ForwarderCases, RowsAreRows
         DEF ManagerInv, TypeOK, Running, Follows, IsRow
    <3>2. rules[k[1]] \in Rows /\ rules[k[1]].enabled = TRUE
      BY <1>1, <2>1, <2>2, WantedRows, RowsAreRows DEF ManagerInv, TypeOK, IsRow
    <3>3. SameRule(fwd[k].row, rules[k[1]])
      BY <1>1, <2>2 DEF ManagerInv, Follows
    <3> QED BY <3>1, <3>2, <3>3, SameRuleAsks
  <2>3. ASSUME NEW s \in Sockets, owner[s] \in Keys
        PROVE  Running(owner[s]) /\ s = Socket(fwd[owner[s]].row, owner[s][2])
    BY <1>1, <2>3 DEF ManagerInv, Held, Running, NoForwarder
  <2> QED BY <2>1, <2>2, <2>3
<1>2. ManagerInv => OnlyApplied
  BY <1>1 DEF OnlyApplied
<1> QED BY <1>2, ManagerInvariant, PTL

(* A rule never loses a port to a forwarder that the answer withdraws or   *)
(* moves: only another process, or a rule of this answer with the same     *)
(* port, makes net.Listen fail.                                            *)
THEOREM PortsPassOn == Spec => PortsHandedOver
<1> DEFINE Fair(k) ==
      LET s == Socket(fwd[k].row, k[2])
          h == owner[s]
      IN h # Other => /\ h \in Keys \ {k} /\ Wanted(rules, h)
                      /\ Socket(rules[h[1]], h[2]) = s
<1>1. ASSUME ManagerInv, [Next]_vars, NEW k \in Keys,
             fwd'[k].state = "error", fwd[k].state = "starting"
      PROVE  Fair(k)
  <2> DEFINE s == Socket(fwd[k].row, k[2])
  <2>1. owner[s] # Free
    <3>1. ~ (StopStale \/ StartMissing \/ Crash)
      BY <1>1 DEF StopStale, DropStale, StartMissing, Crash, NoForwarder
    <3>2. ASSUME NEW j \in Keys, Listen(j)
          PROVE  owner[s] # Free
      <4>1. j = k
        BY <1>1, <3>2 DEF Listen, ManagerInv, TypeOK
      <4>2. fwd[k] \in [row : Rows, state : {"starting", "running", "error"}]
        BY <1>1, ForwarderCases DEF ManagerInv, TypeOK, Forwarders, NoForwarder
      <4>3. fwd' = [fwd EXCEPT ![k].state = "running"]
              => fwd'[k].state = "running"
        BY <1>1, <4>2 DEF ManagerInv, TypeOK
      <4> QED BY <1>1, <3>2, <4>1, <4>3 DEF Listen
    <3> QED BY <1>1, <3>1, <3>2 DEF Next, Apply, ApplyFirewall, OpenFile,
               WriteFile, OtherTakes, OtherLeaves, Restart, vars
  <2>2. Running(k) /\ fwd[k].row \in Rows /\ s \in Sockets
    BY <1>1, ForwarderCases, SocketType
       DEF ManagerInv, TypeOK, Running, NoForwarder, Keys
  <2>3. owner[s] \in Keys \cup {Free, Other}
    BY <1>1, <2>2 DEF ManagerInv, TypeOK
  <2>4. ASSUME owner[s] \in Keys
        PROVE  /\ owner[s] # k /\ Wanted(rules, owner[s])
               /\ Socket(rules[owner[s][1]], owner[s][2]) = s
    <3>1. /\ fwd[owner[s]].state = "running"
          /\ s = Socket(fwd[owner[s]].row, owner[s][2])
      BY <1>1, <2>2, <2>4 DEF ManagerInv, Held
    <3>2. owner[s] # k /\ Running(owner[s])
      BY <1>1, <3>1 DEF Running, NoForwarder
    <3>3. pc # "stop"
      BY <1>1 DEF ManagerInv, Follows, Settled
    <3>4. /\ Wanted(rules, owner[s])
          /\ SameRule(fwd[owner[s]].row, rules[owner[s][1]])
      BY <1>1, <2>4, <3>2, <3>3 DEF ManagerInv, Follows
    <3> QED BY <3>1, <3>2, <3>4, SameRuleFacts
  <2> HIDE DEF s
  <2>5. CASE owner[s] = Other
    BY <2>5 DEF s
  <2>6. CASE owner[s] \in Keys
    BY <2>4, <2>6 DEF s
  <2> QED BY <2>1, <2>3, <2>5, <2>6
<1>2. ManagerInv /\ [Next]_vars =>
        [\A k \in Keys : fwd'[k].state = "error" /\ fwd[k].state = "starting" =>
           Fair(k)]_vars
  BY <1>1
<1> QED BY <1>2, ManagerInvariant, PTL DEF Spec, PortsHandedOver

(* The file is unreadable or holds rules that the firewall did not stop,   *)
(* and the last of these unless their write failed or was cut off.         *)
THEOREM FileOutlivesFaults == Spec => []LastAnswerKept
<1> DEFINE Writing == pc \in {"open", "write"} => full = rules
<1>1. Init => LastAnswerKept /\ Writing
  BY DEF Init, LastAnswerKept
<1>2. Down /\ LastAnswerKept /\ Writing /\ [Next]_vars
        => LastAnswerKept' /\ Writing'
  <2> SUFFICES ASSUME Down, LastAnswerKept, Writing, [Next]_vars
               PROVE  LastAnswerKept' /\ Writing'
    OBVIOUS
  <2> USE DEF LastAnswerKept
  <2>1. CASE UNCHANGED <<pc, rules, saved, full, kept, cut>>
    BY <2>1
  <2>2. ASSUME NEW R \in RuleSets, Apply(R)
        PROVE  LastAnswerKept' /\ Writing'
    BY <2>2 DEF Apply, history
  <2>3. CASE StopStale \/ StartMissing
    BY <2>3 DEF StopStale, StartMissing, history
  <2>4. CASE ApplyFirewall
    BY <2>4 DEF ApplyFirewall
  <2>5. CASE OpenFile
    BY <2>5 DEF OpenFile
  <2>6. CASE WriteFile
    BY <2>6 DEF WriteFile
  <2>7. CASE Crash
    BY <2>7 DEF Crash
  <2>8. CASE Restart
    <3>1. UNCHANGED <<saved, full, kept, cut>> /\ pc' \in {pc, "stop"}
      BY <2>8 DEF Restart, history
    <3>2. pc = "idle" /\ (pc' # "stop" => UNCHANGED <<pc, rules>>)
      BY <2>8 DEF Restart, Down
    <3> QED BY <3>1, <3>2
  <2> QED BY <2>1, <2>2, <2>3, <2>4, <2>5, <2>6, <2>7, <2>8
          DEF Next, Listen, OtherTakes, OtherLeaves, history, vars
<1>3. ManagerInv => Down
  BY DEF ManagerInv
<1> QED BY <1>1, <1>2, <1>3, ManagerInvariant, PTL DEF Spec

(* Only a crash, or an answer that changes or withdraws the rule, touches  *)
(* a forwarder that has its port.                                          *)
THEOREM ForwarderKept == Spec => Uninterrupted
<1> DEFINE Justified(k) == \/ ~ up'
                           \/ ~ Wanted(rules, k)
                           \/ Asked(fwd[k].row) # Asked(rules[k[1]])
<1>1. ASSUME ManagerInv, [Next]_vars, NEW k \in Keys,
             fwd[k].state = "running", fwd'[k] # fwd[k]
      PROVE  Justified(k)
  <2>1. Running(k) /\ fwd[k].row \in Rows
    BY <1>1, ForwarderCases DEF ManagerInv, TypeOK, Running, NoForwarder
  <2>2. CASE StopStale
    <3> SUFFICES ASSUME Wanted(rules, k)
                 PROVE  Asked(fwd[k].row) # Asked(rules[k[1]])
      OBVIOUS
    <3>1. ~ SameRule(fwd[k].row, rules[k[1]])
      BY <1>1, <2>2 DEF StopStale, DropStale, Stale
    <3>2. rules[k[1]] \in Rows /\ rules[k[1]].enabled = TRUE
      BY <1>1, WantedRows, RowsAreRows DEF ManagerInv, TypeOK, IsRow
    <3>3. fwd[k].row.enabled = TRUE
      BY <1>1, <2>1, RowsAreRows DEF ManagerInv, Follows, IsRow
    <3> QED BY <2>1, <3>1, <3>2, <3>3, SameRuleAsks
  <2>3. ~ StartMissing
    BY <1>1, <2>1 DEF StartMissing
  <2>4. ASSUME NEW j \in Keys, Listen(j)
        PROVE  FALSE
    BY <1>1, <2>4 DEF Listen, ManagerInv, TypeOK
  <2>5. CASE Crash
    BY <2>5 DEF Crash
  <2> HIDE DEF Justified
  <2> QED BY <1>1, <2>2, <2>3, <2>4, <2>5
          DEF Next, Apply, ApplyFirewall, OpenFile, WriteFile, OtherTakes,
              OtherLeaves, Restart, vars
<1>2. ManagerInv /\ [Next]_vars =>
        [\A k \in Keys : fwd[k].state = "running" /\ fwd'[k] # fwd[k] =>
           Justified(k)]_vars
  BY <1>1
<1> QED BY <1>2, ManagerInvariant, PTL DEF Spec, Uninterrupted
=============================================================================
