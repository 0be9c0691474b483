---------------------------- MODULE RuleManager -----------------------------
(***************************************************************************)
(* The rule manager of an agent (Manager in internal/agent/forwarder.go):  *)
(* Apply turns the rules of a heartbeat answer, or of the last-rules file  *)
(* after a restart, into forwarders. Manager.mu orders the calls, but a    *)
(* forwarder binds its port in a goroutine of its own, against the other   *)
(* forwarders and against every other process of the node.                 *)
(*                                                                         *)
(* Apply runs at most every ten seconds, so it finds no forwarder that is  *)
(* still between newTCPForwarder and the end of net.Listen; UdpForwarder   *)
(* and TcpForwarder say what a forwarder does after that.                  *)
(***************************************************************************)
EXTENDS Integers, SequencesExt

CONSTANTS
  Rules,      \* rule identifiers
  Ports,
  RuleSets,   \* what the panel may answer: for each rule, its row or None
  None,
  External,   \* may another process take a port?
  FwFails,    \* may FirewallManager.Apply return an error?
  WritesFail, \* may the disk refuse, or break off, the write of the file?
  Crashes     \* may the agent process die?

Protos == {"tcp", "udp"}

(* A row: what sameRule compares (`target` stands for the target, the      *)
(* speed limit and MaxConnections), the CIDRs as the panel lists them, and *)
(* the two fields Apply looks at.                                          *)
IsRow(r) ==
  /\ DOMAIN r = {"enabled", "protocol", "port", "target", "cidrs"}
  /\ r.enabled \in BOOLEAN
  /\ r.protocol \in Protos \cup {"both"}
  /\ r.port \in Ports

Uses(row, p) == row # None /\ row.enabled /\ row.protocol \in {p, "both"}

(* Two rules of one answer may have one port: ValidateRule refuses that,   *)
(* but CloneRule copies an enabled rule with its port.                     *)
ASSUME RuleManagerAssumption ==
  /\ None \notin Rules \cup RuleSets
  /\ \A R \in RuleSets :
       /\ DOMAIN R = Rules
       /\ \A id \in Rules : R[id] # None => IsRow(R[id])
  /\ {External, FwFails, WritesFail, Crashes} \subseteq BOOLEAN

Keys     == Rules \X Protos        \* m.tcp and m.udp, as one map
Sockets  == Protos \X Ports
Rows     == {R[id] : R \in RuleSets, id \in Rules} \ {None}
Nothing  == [id \in Rules |-> None]
Answers  == RuleSets \cup {Nothing}
Torn     == None        \* a last-rules file that json.Unmarshal refuses

Free  == <<None, "free">>          \* nobody has the port
Other == <<None, "other">>         \* another process has it

VARIABLES
  up,       \* is the agent process running?
  pc,       \* "stop" and "start": the loops of Apply; "fw": FirewallManager;
            \* "open" and "write": persistRules
  rules,    \* the argument of Apply, while it runs and after
  fwd,      \* the forwarders of m.tcp and m.udp: the row, and the state
  owner,    \* who holds a port: nobody, another process, or a forwarder
  saved,    \* the last-rules file; no file reads like an empty one
  full,     \* history: the last rules whose Apply got past the firewall
  kept,     \* history: the value of `full` when a write last succeeded
  cut       \* history: did the write of `full` fail, or a crash cut it off?

history == <<full, kept, cut>>
vars == <<up, pc, rules, fwd, owner, saved, full, kept, cut>>

NoForwarder == [row |-> None, state |-> "none"]
Forwarders  == [row : Rows, state : {"starting", "running", "error"}]
               \cup {NoForwarder}

TypeOK ==
  /\ up \in BOOLEAN
  /\ pc \in {"idle", "stop", "start", "fw", "open", "write"}
  /\ rules \in Answers
  /\ fwd \in [Keys -> Forwarders]
  /\ owner \in [Sockets -> Keys \cup {Free, Other}]
  /\ saved \in Answers \cup {Torn}
  /\ full \in Answers /\ kept \in Answers /\ cut \in BOOLEAN

Wanted(R, k)  == Uses(R[k[1]], k[2])
Running(k)    == fwd[k] # NoForwarder
Socket(row, p) == <<p, row.port>>

SameAsWritten(a, b) == a = b    \* mutant: the order of the CIDRs matters

SameIgnoringTarget(a, b) ==     \* mutant: an edited target is not seen
  /\ a.protocol = b.protocol /\ a.port = b.port
  /\ ToBag(a.cidrs) = ToBag(b.cidrs)

(* Two lists of CIDRs are the same when they are equal once sorted.        *)
SameRule(a, b) ==
  /\ a.protocol = b.protocol /\ a.port = b.port /\ a.target = b.target
  /\ ToBag(a.cidrs) = ToBag(b.cidrs)

Stale(k) == Running(k) /\ ~ (Wanted(rules, k) /\ SameRule(fwd[k].row, rules[k[1]]))

-----------------------------------------------------------------------------
(* Apply.                                                                  *)

Settled == \A k \in Keys : fwd[k].state # "starting"

Apply(R) ==
  /\ up /\ pc = "idle" /\ Settled
  /\ rules' = R /\ pc' = "stop"
  /\ UNCHANGED <<up, fwd, owner, saved, history>>

KeepStale ==    \* mutant: the listener is not closed
  /\ fwd' = [k \in Keys |-> IF Stale(k) THEN NoForwarder ELSE fwd[k]]
  /\ UNCHANGED owner

(* Stop closes the listener before it returns.                             *)
DropStale ==
  /\ fwd' = [k \in Keys |-> IF Stale(k) THEN NoForwarder ELSE fwd[k]]
  /\ owner' = [s \in Sockets |-> IF owner[s] \in {k \in Keys : Stale(k)}
                                 THEN Free ELSE owner[s]]

StopStale ==
  /\ pc = "stop"
  /\ DropStale
  /\ pc' = "start"
  /\ UNCHANGED <<up, rules, saved, history>>

StartMissing ==
  /\ pc = "start"
  /\ fwd' = [k \in Keys |->
               IF ~ Running(k) /\ Wanted(rules, k)
               THEN [row |-> rules[k[1]], state |-> "starting"] ELSE fwd[k]]
  /\ pc' = "fw"
  /\ UNCHANGED <<up, rules, owner, saved, history>>

PersistAnyway ==    \* mutant: the file is written before the error is seen
  /\ pc = "fw"
  /\ pc' = "open"
  /\ \/ full' = rules
     \/ FwFails /\ full' = full
  /\ UNCHANGED <<up, rules, fwd, owner, saved, kept, cut>>

(* The file is only written when the firewall was set up.                  *)
ApplyFirewall ==
  /\ pc = "fw"
  /\ \/ pc' = "open" /\ full' = rules
     \/ FwFails /\ pc' = "idle" /\ full' = full
  /\ UNCHANGED <<up, rules, fwd, owner, saved, kept, cut>>

(* persistRules: os.WriteFile truncates the file and then fills it. Its    *)
(* errors, and that of MkdirAll, are ignored.                              *)
OpenFile ==
  /\ pc = "open"
  /\ \/ saved' = Torn /\ pc' = "write" /\ cut' = cut
     \/ WritesFail /\ saved' = saved /\ pc' = "idle" /\ cut' = TRUE
  /\ UNCHANGED <<up, rules, fwd, owner, full, kept>>

WriteFile ==
  /\ pc = "write"
  /\ \/ saved' = rules /\ kept' = full /\ cut' = FALSE
     \/ WritesFail /\ saved' = saved /\ kept' = kept /\ cut' = TRUE
  /\ pc' = "idle"
  /\ UNCHANGED <<up, rules, fwd, owner, full>>

-----------------------------------------------------------------------------
(* Run of a forwarder, up to its first Accept; other processes.            *)

Listen(k) ==
  /\ fwd[k].state = "starting"
  /\ LET s == Socket(fwd[k].row, k[2]) IN
       IF owner[s] = Free
       THEN /\ owner' = [owner EXCEPT ![s] = k]
            /\ fwd' = [fwd EXCEPT ![k].state = "running"]
       ELSE owner' = owner /\ fwd' = [fwd EXCEPT ![k].state = "error"]
  /\ UNCHANGED <<up, pc, rules, saved, history>>

OtherTakes(s) ==
  /\ External /\ owner[s] = Free
  /\ owner' = [owner EXCEPT ![s] = Other]
  /\ UNCHANGED <<up, pc, rules, fwd, saved, history>>

OtherLeaves(s) ==
  /\ owner[s] = Other
  /\ owner' = [owner EXCEPT ![s] = Free]
  /\ UNCHANGED <<up, pc, rules, fwd, saved, history>>

-----------------------------------------------------------------------------
(* The process ends, by a crash or by SIGTERM, and the kernel closes its   *)
(* sockets; Run of agent.go applies the file before the first heartbeat.   *)

Crash ==
  /\ Crashes /\ up
  /\ up' = FALSE /\ pc' = "idle" /\ rules' = Nothing
  /\ fwd' = [k \in Keys |-> NoForwarder]
  /\ owner' = [s \in Sockets |-> IF owner[s] = Other THEN Other ELSE Free]
  /\ cut' = (cut \/ pc \in {"open", "write"})
  /\ UNCHANGED <<saved, full, kept>>

Restart ==
  /\ ~ up
  /\ up' = TRUE
  /\ IF saved \in {Nothing, Torn} THEN UNCHANGED <<pc, rules>>
                                  ELSE pc' = "stop" /\ rules' = saved
  /\ UNCHANGED <<fwd, owner, saved, history>>

Init ==
  /\ up = TRUE /\ pc = "idle"
  /\ rules = Nothing /\ saved = Nothing
  /\ full = Nothing /\ kept = Nothing /\ cut = FALSE
  /\ fwd = [k \in Keys |-> NoForwarder]
  /\ owner = [s \in Sockets |-> Free]

Next ==
  \/ \E R \in RuleSets : Apply(R)
  \/ StopStale \/ StartMissing \/ ApplyFirewall \/ OpenFile \/ WriteFile
  \/ \E k \in Keys : Listen(k)
  \/ \E s \in Sockets : OtherTakes(s) \/ OtherLeaves(s)
  \/ Crash \/ Restart

Spec == Init /\ [][Next]_vars

-----------------------------------------------------------------------------
(* Properties.                                                             *)

(* The row of a rule, up to the order of its CIDRs.                        *)
Asked(row) == [row EXCEPT !.cidrs = ToBag(@)]

(* Between two calls the forwarders are those of the rules last applied:   *)
(* each enabled rule has one per protocol, with the row of that call, and  *)
(* nothing else of the agent holds a port (Apply, sameRule).               *)
OnlyApplied ==
  up /\ pc = "idle" =>
    /\ \A k \in Keys :
         /\ Running(k) <=> Wanted(rules, k)
         /\ Running(k) => Asked(fwd[k].row) = Asked(rules[k[1]])
    /\ \A s \in Sockets : owner[s] \in Keys =>
         LET k == owner[s] IN Running(k) /\ s = Socket(fwd[k].row, k[2])

(* A rule never loses a port to a forwarder that the same answer stops or  *)
(* moves: when net.Listen fails, another process has the port, or a        *)
(* forwarder of a rule for which this very answer asks for the same port   *)
(* (Apply stops the old before it starts the new).                         *)
PortsHandedOver ==
  [][\A k \in Keys : fwd'[k].state = "error" /\ fwd[k].state = "starting" =>
       LET s == Socket(fwd[k].row, k[2])
           h == owner[s]
       IN h # Other => /\ h \in Keys \ {k} /\ Wanted(rules, h)
                       /\ Socket(rules[h[1]], h[2]) = s]_vars

(* An answer that leaves a rule as it is never interrupts its forwarder,   *)
(* not even one that lists its CIDRs in another order (sameRule).          *)
Uninterrupted ==
  [][\A k \in Keys : fwd[k].state = "running" /\ fwd'[k] # fwd[k] =>
       \/ ~ up'
       \/ ~ Wanted(rules, k)
       \/ Asked(fwd[k].row) # Asked(rules[k[1]])]_vars

(* What a restart would restore ("restored from the last successful        *)
(* configuration", agent.go:106): whatever fails or crashes, and however   *)
(* often a restart writes the file itself, the file is unreadable or the   *)
(* rules of an Apply that the firewall did not stop; and but for a write   *)
(* that failed or was cut off it is the last of these, also when that one  *)
(* withdrew every rule.                                                    *)
LastAnswerKept ==
  /\ saved \in {kept, Torn}
  /\ pc \notin {"open", "write"} /\ ~ cut => saved = full
=============================================================================
