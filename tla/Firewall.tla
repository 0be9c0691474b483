------------------------------ MODULE Firewall ------------------------------
(***************************************************************************)
(* The firewall manager of a RelayGuard node (internal/agent/firewall.go), *)
(* the part of the panel that tells it what to do (server.go: PUT          *)
(* /api/nodes/{id}, the heartbeat answer), the kernel's RELAYGUARD-INPUT   *)
(* chains, and the separate process `relayguard-agent firewall rescue`.    *)
(*                                                                         *)
(* Apply and the rollback callback hold fw.mu from begin to end, so within *)
(* the agent they exclude each other (pc # "idle" is "fw.mu is held"); but *)
(* each is a series of iptables commands, and the process may die, or the  *)
(* rescue process may run its own commands, between any two of them.       *)
(***************************************************************************)
EXTENDS Integers

CONSTANTS
  Ports,      \* listen ports a managed forwarding rule may use
  PortSets,   \* the rule sets the panel may answer with, as sets of ports
  SSH,        \* the ports of FirewallConfig.SSHPorts, one value
  Hosts,      \* kinds of node: sets of families that have an iptables binary
  Failing,    \* families whose commands may fail
  Window,     \* RollbackSeconds, in ticks
  Tries,      \* how often disableLocked retries to delete a jump (20)
  JumpCap,    \* bound: jumps into one chain are counted up to here
  EditsWhen,  \* the rule set changes "never", "outside" of trials, at "any" time
  Crashes,    \* may the agent process die?
  RescueWhen  \* "never", "down" (only with the agent stopped), "any"

Families == {"v4", "v6"}

ASSUME FirewallAssumption ==
  /\ PortSets \subseteq SUBSET Ports
  /\ {} \in PortSets
  /\ SSH \notin Ports
  /\ Hosts \subseteq SUBSET Families
  /\ Failing \subseteq Families
  /\ Window \in Nat \ {0}
  /\ Tries \in Nat \ {0}
  /\ JumpCap \in Nat \ {0}
  /\ EditsWhen \in {"never", "outside", "any"} /\ Crashes \in BOOLEAN
  /\ RescueWhen \in {"never", "down", "any"}

Modes  == {"off", "loose", "strict", "strict-pending"}
States == Modes \cup {"rollback", "error", "unsupported"}
Errors == {"", "unsupported", "iptables", "pending", "rolledback"}

(* The hash of Apply joins the mode and the port rules; FirewallConfig is  *)
(* fixed for the life of the process.                                      *)
HashMode(m, r) == <<m, {}>>    \* mutant: the port rules are not hashed

Hash(m, r) == <<m, r>>
NoHash     == <<"", {}>>
Hashes     == (Modes \X PortSets) \cup {NoHash}

NoTimer == [hash |-> NoHash, left |-> 0]
Timers  == [hash : Hashes, left : 0 .. Window]

(* A chain: the ports accepted before its last line, and that last line.   *)
Chains  == [exists  : BOOLEAN,
            accepts : SUBSET (Ports \cup {SSH}),
            verdict : {"none", "RETURN", "DROP"}]
NoChain == [exists |-> FALSE, accepts |-> {}, verdict |-> "none"]

NoAnswer == [mode |-> "none", rules |-> {}]
Answers  == [mode : Modes, rules : PortSets] \cup {NoAnswer}

Jobs  == [op : {"apply", "rollback"}, mode : Modes, rules : PortSets]
Steps == {"idle", "new", "jump", "ensure6", "flush", "accept4", "verdict4",
          "accept6", "verdict6", "commit", "del4", "flush4", "del6", "flush6"}

VARIABLES
  bins,                    \* bin, bin6: families exec.LookPath found
  nodeMode, nodeRules,     \* the panel: nodes.firewall_mode, RulesForNode
  answer,                  \* what the agent is about to Apply
  up,                      \* is the agent process running?
  pc, job,                 \* the step of the call that holds fw.mu
  mode, state, lastErr, lastHash,                     \* FirewallManager
  rollbackActive, rollbackFired, pendingHash, timer,  \* FirewallManager
  late,                    \* hashes of callbacks that wait for fw.mu
  chain, jumps,            \* the kernel, per family
  cli,                     \* the step of the rescue process
  saved,                   \* last-rules file
  seen                     \* history: mode of this process's last Apply

nodeVars   == <<bins, nodeMode, nodeRules>>
statusVars == <<mode, state, lastErr, lastHash>>
trialVars  == <<rollbackActive, rollbackFired, pendingHash, timer>>
kernelVars == <<chain, jumps>>
vars == <<nodeVars, answer, up, pc, job, statusVars, trialVars, late,
          kernelVars, cli, saved, seen>>

TypeOK ==
  /\ bins \in Hosts
  /\ nodeMode \in Modes /\ nodeRules \in PortSets
  /\ answer \in Answers
  /\ up \in BOOLEAN
  /\ pc \in Steps /\ job \in Jobs
  /\ mode \in Modes /\ state \in States /\ lastErr \in Errors
  /\ lastHash \in Hashes /\ pendingHash \in Hashes
  /\ rollbackActive \in BOOLEAN /\ rollbackFired \in BOOLEAN
  /\ timer \in Timers
  /\ late \in SUBSET Hashes
  /\ chain \in [Families -> Chains]
  /\ jumps \in [Families -> 0 .. JumpCap]
  /\ cli \in {"idle", "del4", "flush4", "del6", "flush6"}
  /\ saved \in PortSets
  /\ seen \in Modes \cup {"none"}

(* Packets to every other port are dropped: INPUT jumps into a chain that  *)
(* ends in DROP.                                                           *)
InForce(f) == jumps[f] > 0 /\ chain[f].verdict = "DROP"
Dropping   == \E f \in Families : InForce(f)

(***************************************************************************)
(* The panel.                                                              *)
(***************************************************************************)

(* "strict" is accepted as it is only for a node that was strict or        *)
(* pending when GetNode read it.                                           *)
PutMode(m, old) == IF m = "strict" /\ old \notin {"strict", "strict-pending"}
                   THEN "strict-pending" ELSE m

(* SaveNode, which takes the store's lock a second time: by then other     *)
(* PUTs may have changed the mode, so `old` is any mode.                   *)
PutNode(m, old) ==
  /\ nodeMode' = PutMode(m, old)
  /\ UNCHANGED <<bins, nodeRules, answer, up, pc, job, statusVars, trialVars,
                 late, kernelVars, cli, saved, seen>>

(* No trial is asked for, on its way to the agent, or under way there.     *)
OutsideTrials == "strict-pending" \notin {nodeMode, answer.mode, seen}
EditsAllowed  == EditsWhen = "any" \/ (EditsWhen = "outside" /\ OutsideTrials)

(* A rule is created, edited, deleted, expires or runs out of traffic.     *)
RulesChange ==
  /\ EditsAllowed
  /\ nodeRules' \in PortSets \ {nodeRules}
  /\ UNCHANGED <<bins, nodeMode, answer, up, pc, job, statusVars, trialVars,
                 late, kernelVars, cli, saved, seen>>

(* The agent reports its status (which waits for fw.mu), the panel answers *)
(* with the node's mode and rules; an answer that is lost changes nothing. *)
AgentHeartbeat ==
  /\ up /\ answer = NoAnswer /\ pc = "idle"
  /\ answer' = [mode |-> nodeMode, rules |-> nodeRules]
  /\ UNCHANGED <<nodeVars, up, pc, job, statusVars, trialVars, late,
                 kernelVars, cli, saved, seen>>

(***************************************************************************)
(* Apply, up to its first iptables command.                                *)
(***************************************************************************)

NoTrial == rollbackActive' = FALSE /\ timer' = NoTimer

ForgetNothing(m) == UNCHANGED trialVars   \* mutant: the reset is dropped

(* Every mode but strict-pending cancels a trial and forgets its hash.     *)
ForgetTrial(m) ==
  IF m = "strict-pending"
  THEN UNCHANGED trialVars
  ELSE NoTrial /\ rollbackFired' = FALSE /\ pendingHash' = NoHash

(* bin = "": nothing is done, and every mode but off is an error           *)
Unsupported(m, r) ==
  /\ "v4" \notin bins
  /\ mode' = m
  /\ IF m = "off"
     THEN state' = "off" /\ lastErr' = "" /\ saved' = r
     ELSE state' = "unsupported" /\ lastErr' = "unsupported" /\ saved' = saved
  /\ UNCHANGED <<pc, lastHash, trialVars>>

TurnOff(m, r) ==
  /\ "v4" \in bins /\ m = "off"
  /\ ForgetTrial(m)
  /\ mode' = m
  /\ pc' = "del4"
  /\ UNCHANGED <<state, lastErr, lastHash, saved>>

NotRolledBack(m, r) == FALSE    \* mutant: a rollback is forgotten

RolledBack(m, r) ==
  m = "strict-pending" /\ rollbackFired /\ Hash(m, r) = pendingHash

StayRolledBack(m, r) ==
  /\ "v4" \in bins /\ RolledBack(m, r)
  /\ mode' = m
  /\ state' = "rollback"
  /\ lastErr' = IF lastErr = "" THEN "rolledback" ELSE lastErr
  /\ saved' = r
  /\ UNCHANGED <<pc, lastHash, trialVars>>

Current(m, r) == Hash(m, r) = lastHash /\ state = m /\ lastErr = ""

AlreadyApplied(m, r) ==
  /\ "v4" \in bins /\ m # "off" /\ ~ RolledBack(m, r)
  /\ Current(m, r)
  /\ ForgetTrial(m)
  /\ saved' = r
  /\ UNCHANGED <<pc, statusVars>>

Rebuild(m, r) ==
  /\ "v4" \in bins /\ m # "off" /\ ~ RolledBack(m, r)
  /\ ~ Current(m, r)
  /\ ForgetTrial(m)
  /\ pc' = "new"
  /\ UNCHANGED <<statusVars, saved>>

Apply(m, r) ==
  /\ seen' = m
  /\ job' = [op |-> "apply", mode |-> m, rules |-> r]
  /\ \/ Unsupported(m, r)
     \/ TurnOff(m, r)
     \/ StayRolledBack(m, r)
     \/ AlreadyApplied(m, r)
     \/ Rebuild(m, r)

ApplyAnswer ==
  /\ up /\ pc = "idle" /\ answer # NoAnswer
  /\ Apply(answer.mode, answer.rules)
  /\ answer' = NoAnswer
  /\ UNCHANGED <<nodeVars, up, late, kernelVars, cli>>

(***************************************************************************)
(* The chain is built: ensureChainLocked, flushChainLocked,                *)
(* populateChainLocked. An error leaves the call; mode and lastHash stay.  *)
(***************************************************************************)

ApplyFails ==
  /\ pc' = "idle"
  /\ state' = "error" /\ lastErr' = "iptables"
  /\ UNCHANGED <<mode, lastHash>>

Goes(next) == pc' = next /\ UNCHANGED statusVars

Unbuilt == UNCHANGED <<nodeVars, answer, up, job, trialVars, late, cli, saved,
                       seen>>

Exists(c)      == [c EXCEPT !.exists = TRUE]
Flushed(c)     == [c EXCEPT !.accepts = {}, !.verdict = "none"]
Accepting(c, S) ==    \* a line after the last one is never reached
  IF c.verdict = "none" THEN [c EXCEPT !.accepts = @ \cup S] ELSE c
EndingIn(c, v)  == IF c.verdict = "none" THEN [c EXCEPT !.verdict = v] ELSE c

NewChain ==
  /\ pc = "new"
  /\ \/ /\ chain' = [chain EXCEPT !["v4"] = Exists(@)]
        /\ Goes("jump")
     \/ "v4" \in Failing /\ ApplyFails /\ UNCHANGED chain
  /\ UNCHANGED jumps /\ Unbuilt

AddJump(f) == [jumps EXCEPT ![f] = IF @ < JumpCap THEN @ + 1 ELSE @]

(* -C || -I: a -C that fails for another reason adds one more jump; -I     *)
(* fails when the rescue process has deleted the chain in between.         *)
InsertJump ==
  /\ pc = "jump"
  /\ \/ jumps["v4"] > 0 /\ Goes("ensure6") /\ UNCHANGED jumps
     \/ /\ jumps["v4"] = 0 \/ "v4" \in Failing
        /\ chain["v4"].exists
        /\ jumps' = AddJump("v4")
        /\ Goes("ensure6")
     \/ /\ "v4" \in Failing \/ (jumps["v4"] = 0 /\ ~ chain["v4"].exists)
        /\ ApplyFails /\ UNCHANGED jumps
  /\ UNCHANGED chain /\ Unbuilt

(* Best effort: -N, -C and -I, whatever -C says; errors are ignored.       *)
Ensure6 ==
  /\ pc = "ensure6"
  /\ \/ /\ "v6" \in bins
        /\ chain' = [chain EXCEPT !["v6"] = Exists(@)]
        /\ jumps' = AddJump("v6")
     \/ /\ "v6" \in bins \cap Failing
        /\ chain' \in {chain, [chain EXCEPT !["v6"] = Exists(@)]}
        /\ jumps' = jumps
     \/ "v6" \notin bins /\ UNCHANGED kernelVars
  /\ Goes("flush") /\ Unbuilt

(* Errors of -F are ignored.                                               *)
FlushChain ==
  /\ pc = "flush"
  /\ \E kept \in SUBSET Failing :
       chain' = [f \in Families |->
                   IF f \in kept THEN chain[f] ELSE Flushed(chain[f])]
  /\ UNCHANGED jumps /\ Goes("accept4") /\ Unbuilt

AcceptedRules(r) == r    \* mutant: the SSH ports are forgotten

Accepted(r) == r \cup {SSH}

(* The accept lines, the SSH ports first: one that fails leaves the call   *)
(* with some of them in the chain.                                         *)
AcceptPorts(f, here, next) ==
  /\ pc = here
  /\ \/ /\ f \in bins /\ chain[f].exists
        /\ chain' = [chain EXCEPT ![f] = Accepting(@, Accepted(job.rules))]
        /\ Goes(next)
     \/ /\ f \in bins /\ (f \in Failing \/ ~ chain[f].exists)
        /\ \/ UNCHANGED chain
           \/ /\ chain[f].exists
              /\ \E S \in SUBSET job.rules :
                   chain' = [chain EXCEPT ![f] = Accepting(@, Accepted(S))]
        /\ ApplyFails
     \/ f \notin bins /\ UNCHANGED chain /\ Goes(next)
  /\ UNCHANGED jumps /\ Unbuilt

LastLine(m) == IF m \in {"strict", "strict-pending"} THEN "DROP" ELSE "RETURN"

(* The last line; only a RETURN that fails is ignored.                     *)
AddVerdict(f, here, next) ==
  /\ pc = here
  /\ \/ /\ f \in bins /\ chain[f].exists
        /\ chain' = [chain EXCEPT ![f] = EndingIn(@, LastLine(job.mode))]
        /\ Goes(next)
     \/ /\ f \in bins /\ (f \in Failing \/ ~ chain[f].exists)
        /\ UNCHANGED chain
        /\ IF LastLine(job.mode) = "DROP" THEN ApplyFails ELSE Goes(next)
     \/ f \notin bins /\ UNCHANGED chain /\ Goes(next)
  /\ UNCHANGED jumps /\ Unbuilt

(***************************************************************************)
(* The end of Apply, and the confirmation window.                          *)
(***************************************************************************)

RestartRollback(h) ==   \* mutant: the window starts again on every Apply
  /\ rollbackActive' = TRUE /\ rollbackFired' = FALSE
  /\ timer' = [hash |-> h, left |-> Window]

NeverRollback(h) ==     \* mutant: no timer is armed
  rollbackActive' = TRUE /\ rollbackFired' = FALSE /\ UNCHANGED timer

(* startRollbackLocked: Commit has already set pendingHash to h, so an     *)
(* active trial of any hash is left as it is.                              *)
StartRollback(h) ==
  IF rollbackActive /\ pendingHash' = h
  THEN UNCHANGED <<rollbackActive, rollbackFired, timer>>
  ELSE /\ rollbackActive' = TRUE /\ rollbackFired' = FALSE
       /\ timer' = [hash |-> h, left |-> Window]

Commit ==
  /\ pc = "commit"
  /\ LET h == Hash(job.mode, job.rules) IN
     /\ mode' = job.mode /\ state' = job.mode /\ lastHash' = h
     /\ IF job.mode = "strict-pending"
        THEN pendingHash' = h /\ StartRollback(h) /\ lastErr' = "pending"
        ELSE UNCHANGED trialVars /\ lastErr' = ""
  /\ saved' = job.rules
  /\ pc' = "idle"
  /\ UNCHANGED <<nodeVars, answer, up, job, late, kernelVars, cli, seen>>

Tick ==
  /\ timer.left > 0
  /\ timer' = [timer EXCEPT !.left = @ - 1]
  /\ UNCHANGED <<nodeVars, answer, up, pc, job, statusVars, rollbackActive,
                 rollbackFired, pendingHash, late, kernelVars, cli, saved, seen>>

(* The timer fires: from now on Stop does not reach the callback, which    *)
(* waits for fw.mu in a goroutine of its own.                              *)
TimerFires ==
  /\ timer # NoTimer /\ timer.left = 0
  /\ timer' = NoTimer
  /\ late' = late \cup {timer.hash}
  /\ UNCHANGED <<nodeVars, answer, up, pc, job, statusVars, rollbackActive,
                 rollbackFired, pendingHash, kernelVars, cli, saved, seen>>

(* What the callback checks once it has fw.mu.                             *)
TrialOf(h) == rollbackActive /\ pendingHash = h /\ mode = "strict-pending"

RollbackCallback ==
  /\ up /\ pc = "idle"
  /\ \E h \in late :
       /\ late' = late \ {h}
       /\ IF TrialOf(h)
          THEN /\ pc' = "del4"
               /\ job' = [op |-> "rollback", mode |-> "strict-pending",
                          rules |-> job.rules]
          ELSE UNCHANGED <<pc, job>>
  /\ UNCHANGED <<nodeVars, answer, up, statusVars, trialVars, kernelVars, cli,
                 saved, seen>>

(***************************************************************************)
(* disableLocked, run by Apply("off"), by the callback and by the rescue   *)
(* process. Its only error is a v4 jump that -D cannot delete; -C may fail *)
(* for any reason and ends the loop.                                       *)
(***************************************************************************)

DeleteJumps(f) ==
  \E n \in 0 .. Tries :
    /\ n <= jumps[f]
    /\ n = Tries \/ n = jumps[f] \/ f \in Failing
    /\ jumps' = [jumps EXCEPT ![f] = @ - n]

DeleteJumpFails ==
  /\ "v4" \in Failing
  /\ \E n \in 0 .. Tries - 1 :
       n < jumps["v4"] /\ jumps' = [jumps EXCEPT !["v4"] = @ - n]

DeleteOnly(f) ==   \* mutant: a -X without the -F before it
  chain' = IF jumps[f] = 0 THEN [chain EXCEPT ![f] = NoChain] ELSE chain

(* -F, then -X, which the kernel refuses for a chain that is jumped to     *)
FlushDelete(f) ==
  \E c \in {IF jumps[f] = 0 THEN NoChain ELSE Flushed(chain[f])} \cup
           (IF f \in Failing THEN {chain[f], Flushed(chain[f])} ELSE {}) :
    chain' = [chain EXCEPT ![f] = c]

(* The callback ignores the error of disableLocked.                        *)
RolledBackNow ==
  /\ rollbackActive' = FALSE /\ rollbackFired' = TRUE
  /\ state' = "rollback" /\ lastErr' = "rolledback"
  /\ UNCHANGED <<pendingHash, timer, mode, saved>>

OffNow == /\ state' = "off" /\ lastErr' = ""
          /\ saved' = job.rules
          /\ UNCHANGED <<mode, trialVars>>

DisableJumps ==
  /\ pc = "del4"
  /\ \/ DeleteJumps("v4") /\ pc' = "flush4"
        /\ UNCHANGED <<statusVars, trialVars, saved>>
     \/ /\ DeleteJumpFails
        /\ IF job.op = "apply"
           THEN ApplyFails /\ UNCHANGED <<trialVars, saved>>
           ELSE pc' = "idle" /\ RolledBackNow /\ UNCHANGED lastHash
  /\ UNCHANGED <<nodeVars, answer, up, job, late, chain, cli, seen>>

DisableFlush ==
  /\ pc = "flush4"
  /\ FlushDelete("v4")
  /\ Goes("del6") /\ UNCHANGED jumps /\ Unbuilt

DisableJumps6 ==
  /\ pc = "del6"
  /\ DeleteJumps("v6")
  /\ Goes("flush6") /\ UNCHANGED chain /\ Unbuilt

Disabled ==
  /\ pc = "flush6"
  /\ FlushDelete("v6")
  /\ lastHash' = NoHash
  /\ IF job.op = "apply" THEN OffNow ELSE RolledBackNow
  /\ pc' = "idle"
  /\ UNCHANGED <<nodeVars, answer, up, job, late, jumps, cli, seen>>

(***************************************************************************)
(* `relayguard-agent firewall rescue`: a process of its own, with a        *)
(* FirewallManager of its own, that runs disableLocked once.               *)
(***************************************************************************)

RescueAllowed == RescueWhen = "any" \/ (RescueWhen = "down" /\ ~ up)

Rescue ==
  /\ cli = "idle" /\ RescueAllowed /\ "v4" \in bins
  /\ cli' = "del4"
  /\ UNCHANGED <<nodeVars, answer, up, pc, job, statusVars, trialVars, late,
                 kernelVars, saved, seen>>

RescueStep ==
  /\ \/ /\ cli = "del4"
        /\ \/ DeleteJumps("v4") /\ cli' = "flush4"
           \/ DeleteJumpFails /\ cli' = "idle"
        /\ UNCHANGED chain
     \/ cli = "flush4" /\ FlushDelete("v4") /\ cli' = "del6" /\ UNCHANGED jumps
     \/ cli = "del6" /\ DeleteJumps("v6") /\ cli' = "flush6" /\ UNCHANGED chain
     \/ cli = "flush6" /\ FlushDelete("v6") /\ cli' = "idle" /\ UNCHANGED jumps
  /\ UNCHANGED <<nodeVars, answer, up, pc, job, statusVars, trialVars, late,
                 saved, seen>>

(***************************************************************************)
(* The agent process ends, by a crash or by SIGTERM (Manager.Stop leaves   *)
(* the firewall as it is), and is started again by systemd.                *)
(***************************************************************************)

FreshManager ==
  /\ mode' = "off"
  /\ IF "v4" \in bins THEN state' = "off" /\ lastErr' = ""
                      ELSE state' = "unsupported" /\ lastErr' = "unsupported"
  /\ lastHash' = NoHash /\ pendingHash' = NoHash
  /\ rollbackActive' = FALSE /\ rollbackFired' = FALSE
  /\ timer' = NoTimer /\ late' = {}

Crash ==
  /\ Crashes /\ up
  /\ up' = FALSE /\ pc' = "idle" /\ answer' = NoAnswer /\ seen' = "none"
  /\ FreshManager
  /\ UNCHANGED <<nodeVars, job, kernelVars, cli, saved>>

(* Run: the rules of the last-rules file, if it has any, are applied with  *)
(* mode off before the first heartbeat. The file also lists rules that     *)
(* open no managed port, so an empty saved set may do either.              *)
Restart ==
  /\ ~ up /\ (RescueWhen = "down" => cli = "idle")
  /\ up' = TRUE
  /\ \/ answer' = [mode |-> "off", rules |-> saved]
     \/ saved = {} /\ answer' = NoAnswer
  /\ UNCHANGED <<nodeVars, pc, job, statusVars, trialVars, late, kernelVars,
                 cli, saved, seen>>

Init ==
  /\ bins \in Hosts
  /\ nodeMode = "loose" /\ nodeRules \in PortSets
  /\ answer = NoAnswer
  /\ up = TRUE
  /\ pc = "idle" /\ job = [op |-> "apply", mode |-> "off", rules |-> {}]
  /\ mode = "off" /\ lastHash = NoHash
  /\ IF "v4" \in bins THEN state = "off" /\ lastErr = ""
                      ELSE state = "unsupported" /\ lastErr = "unsupported"
  /\ rollbackActive = FALSE /\ rollbackFired = FALSE
  /\ pendingHash = NoHash /\ timer = NoTimer /\ late = {}
  /\ chain = [f \in Families |-> NoChain]
  /\ jumps = [f \in Families |-> 0]
  /\ cli = "idle" /\ saved = {} /\ seen = "none"

BuildStep ==
  \/ NewChain \/ InsertJump \/ Ensure6 \/ FlushChain
  \/ AcceptPorts("v4", "accept4", "verdict4")
  \/ AddVerdict("v4", "verdict4", "accept6")
  \/ AcceptPorts("v6", "accept6", "verdict6")
  \/ AddVerdict("v6", "verdict6", "commit")
  \/ Commit

DisableStep == DisableJumps \/ DisableFlush \/ DisableJumps6 \/ Disabled

Next ==
  \/ \E m, old \in Modes : PutNode(m, old)
  \/ RulesChange
  \/ AgentHeartbeat \/ ApplyAnswer
  \/ BuildStep \/ DisableStep
  \/ Tick \/ TimerFires \/ RollbackCallback
  \/ Rescue \/ RescueStep
  \/ Crash \/ Restart

(* iptables commands return, time passes, a timer that is due fires, and   *)
(* sync.Mutex hands the lock to a waiter that starves. Nothing is assumed  *)
(* of the panel, of heartbeats, or of an operator.                         *)
Fairness ==
  /\ WF_vars(BuildStep) /\ WF_vars(DisableStep)
  /\ WF_vars(Tick) /\ WF_vars(TimerFires)
  /\ SF_vars(RollbackCallback)

Spec == Init /\ [][Next]_vars /\ Fairness

-----------------------------------------------------------------------------

Trying == up /\ pc = "idle" /\ seen = "strict-pending"

(* While an unconfirmed strict chain drops packets, a callback that will   *)
(* accept its own checks is armed or waiting: NodeModal's promise that the *)
(* agent rolls back by itself (startRollbackLocked).                       *)
TrialGuarded ==
  Trying /\ Dropping =>
    \E h \in late \cup (IF timer = NoTimer THEN {} ELSE {timer.hash}) : TrialOf(h)

(* Every trial ends: confirmed, called off, or rolled back, even if the    *)
(* agent keeps rebuilding the chain at every heartbeat of the window.      *)
TrialEnds == Trying /\ Dropping ~> rollbackFired \/ seen # "strict-pending"

(* A trial that was rolled back stays so until the panel asks for another  *)
(* mode, as the message at firewall.go:160 tells the operator.             *)
RolledBackStays ==
  [][rollbackFired /\ ~ rollbackFired' => seen' # "strict-pending"]_vars

(* After a rollback no family drops packets (the message at line 423).     *)
RolledBackOpen == Trying /\ rollbackFired => ~ Dropping

(* The callback takes down the chain of an unconfirmed trial only: once    *)
(* the agent has been asked for another mode, a late callback is harmless. *)
RollbackOnlyPending ==
  pc # "idle" /\ job.op = "rollback" => seen = "strict-pending"

(* No chain that drops packets does so before its SSH ports are accepted.  *)
SshKept == \A f \in Families : InForce(f) => SSH \in chain[f].accepts

(* The badge of the console (utils.ts) for a node of mode m whose agent    *)
(* reported the given state.  A report of an error makes it red.           *)
firewallStatus(m, reported) ==
  CASE m = "off"            -> "unmanaged"
    [] m = "loose"          -> IF reported = "unsupported" THEN "unsupported" ELSE "loose"
    [] m = "strict-pending" -> "to be confirmed"
    [] m = "strict"         -> IF reported \in {"strict-pending", "rollback", "unsupported",
                                               "error"}
                               THEN reported ELSE "strict"

(* What Status reports, and the badge of a node that was not edited since, *)
(* is what the kernel does: the chains are those of the last answer, an    *)
(* early return of Apply never skips a change, and a node that is shown as *)
(* strict is, with SSH open, while one shown as anything else but pending  *)
(* lets every packet in.                                                   *)
StatusTruthful ==
  up /\ pc = "idle" /\ seen # "none" =>
    /\ state \in {"loose", "strict", "strict-pending"} =>
         /\ state = seen /\ state = job.mode
         /\ \A f \in bins : /\ jumps[f] > 0
                            /\ chain[f] = [exists |-> TRUE,
                                           accepts |-> job.rules \cup {SSH},
                                           verdict |-> IF state = "loose" THEN "RETURN"
                                                       ELSE "DROP"]
    /\ state \in {"off", "rollback", "unsupported"} =>
         /\ ~ Dropping
         /\ state = "off" <=> seen = "off"
    /\ LET badge == firewallStatus(nodeMode, state) IN
       nodeMode = seen =>
         /\ badge = "strict" =>
              "v4" \in bins /\ \A f \in bins : InForce(f) /\ SSH \in chain[f].accepts
         /\ badge \in {"unmanaged", "loose", "unsupported"} => ~ Dropping

(* When the rescue command is done, nothing is dropped.                    *)
RescueOpens == [][cli = "flush6" /\ cli' = "idle" => ~ Dropping']_vars
=============================================================================
