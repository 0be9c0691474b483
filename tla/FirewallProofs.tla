--------------------------- MODULE FirewallProofs ---------------------------
(***************************************************************************)
(* What holds of Firewall for all values of its constants.                 *)
(***************************************************************************)
EXTENDS Firewall, TLAPS

(* A trial is active, and a call runs, only for the mode seen last.        *)
TrialInv ==
  /\ rollbackActive => seen = "strict-pending" /\ "v4" \in bins
  /\ pc # "idle" => seen = job.mode /\ "v4" \in bins
  /\ job.op = "rollback" => job.mode = "strict-pending"

(* SSH is accepted before the last line of a chain is added, and no rescue *)
(* process flushes the chain between the two.                              *)
SshFirst(f, here) == pc = here /\ f \in bins =>
                       SSH \in chain[f].accepts \/ chain[f].verdict # "none"

SshInv ==
  /\ \A f \in Families : chain[f].verdict = "DROP" => SSH \in chain[f].accepts
  /\ SshFirst("v4", "verdict4")
  /\ SshFirst("v6", "verdict6")
  /\ pc # "idle" => up
  /\ cli # "idle" => ~ up /\ RescueWhen = "down"

(* What the call that holds fw.mu is about, and what a rollback left.      *)
Disabling == pc \in {"del4", "flush4", "del6", "flush6"}

Stages ==
  /\ pc # "idle" => /\ up
                    /\ IF Disabling THEN job.op = "rollback" \/ job.mode = "off"
                       ELSE job.op = "apply" /\ job.mode # "off"
  /\ pc # "idle" /\ job.op = "rollback" => rollbackActive
  /\ rollbackFired => ~ rollbackActive /\ seen = "strict-pending" /\ "v4" \in bins
  /\ ~ up => seen = "none"

(* With one rule set, the only hash that a trial can have is this one.     *)
Trial == Hash("strict-pending", nodeRules)

OneTrial ==
  /\ answer = NoAnswer \/ answer.mode = "off" \/ answer.rules = nodeRules
  /\ pc # "idle" /\ job.op = "apply" => job.mode = "off" \/ job.rules = nodeRules
  /\ rollbackActive => pendingHash = Trial
  /\ rollbackFired => pc = "idle" /\ pendingHash = Trial

(* The chain of a family, rung by rung: when commands do not fail it is    *)
(* exactly what the step of the call says.                                 *)
Chain(a, v) == [exists |-> TRUE, accepts |-> a, verdict |-> v]
Empty(f) == chain[f] = Chain({}, "none")
Lined(f) == chain[f] = Chain(Accepted(job.rules), "none")
Full(f)  == chain[f] = Chain(Accepted(job.rules), LastLine(job.mode))

Late == {"accept4", "verdict4", "accept6", "verdict6", "commit"}

Ladder ==
  /\ pc = "jump" => chain["v4"].exists
  /\ pc = "ensure6" => chain["v4"].exists /\ jumps["v4"] > 0
  /\ pc = "flush" => \A f \in bins : chain[f].exists /\ jumps[f] > 0
  /\ pc \in Late => \A f \in bins : jumps[f] > 0
  /\ pc = "accept4" => \A f \in bins : Empty(f)
  /\ pc = "verdict4" => Lined("v4") /\ ("v6" \in bins => Empty("v6"))
  /\ pc = "accept6" => Full("v4") /\ ("v6" \in bins => Empty("v6"))
  /\ pc = "verdict6" => Full("v4") /\ ("v6" \in bins => Lined("v6"))
  /\ pc = "commit" => \A f \in bins : Full(f)

(* What is taken down, or was never managed, drops nothing.                *)
Open ==
  /\ pc \in {"del6", "flush6"} \/ cli \in {"del6", "flush6"} => ~ InForce("v4")
  /\ \A f \in Families \ bins : ~ InForce(f)
  /\ "v4" \notin bins => ~ Dropping

(* What Status reports while no call runs: a chain that stands as the last *)
(* call built it, or none.                                                 *)
Kept == {"loose", "strict", "strict-pending"}

Stands ==
  /\ seen = state /\ job.mode = state /\ "v4" \in bins
  /\ lastHash = Hash(job.mode, job.rules)
  /\ \A f \in bins : Full(f) /\ jumps[f] > 0

Told ==
  /\ state # "error"
  /\ rollbackFired => state = "rollback"
  /\ seen = "none" => state \in {"off", "unsupported"}
  /\ pc = "idle" /\ state \in Kept => Stands
  /\ pc = "idle" /\ seen # "none" /\ state \notin Kept =>
       ~ Dropping /\ (state = "off" <=> seen = "off")

(* A chain on trial is reported with a remark, so that it is not taken for *)
(* one that was applied.  An active trial has a callback that will accept  *)
(* it, and an agent that tries a chain has a trial or has rolled it back.  *)
Noted == state = "strict-pending" => lastErr # ""

Pending(h) == h \in late \/ (timer # NoTimer /\ timer.hash = h)

Watched ==
  /\ rollbackActive /\ (pc = "idle" \/ job.op = "apply") =>
       Pending(Trial) /\ mode = "strict-pending"
  /\ up /\ pc = "idle" /\ seen = "strict-pending" /\ "v4" \in bins =>
       rollbackActive \/ rollbackFired

-----------------------------------------------------------------------------

(* The values that stand for "nothing" have the types of what they replace *)
LEMMA Nothing ==
  /\ NoHash \in Hashes /\ NoTimer \in Timers
  /\ NoChain \in Chains /\ NoAnswer \in Answers
<1>1. NoHash \in Hashes
  BY DEF Hashes
<1>2. NoTimer \in Timers
  BY <1>1, FirewallAssumption DEF FirewallAssumption, NoTimer, Timers
<1>3. NoChain \in Chains /\ NoAnswer \in Answers
  BY DEF NoChain, Chains, Answers
<1> QED BY <1>1, <1>2, <1>3

(* The initial state has the types of TypeOK.                              *)
LEMMA InitType == Init => TypeOK
<1> SUFFICES ASSUME Init PROVE TypeOK
  OBVIOUS
<1>1. job \in Jobs /\ saved \in PortSets /\ seen \in Modes \cup {"none"}
  BY FirewallAssumption DEF FirewallAssumption, Init, Jobs, Modes
<1>2. chain \in [Families -> Chains] /\ jumps \in [Families -> 0 .. JumpCap]
  <2>1. chain = [f \in Families |-> NoChain] /\ jumps = [f \in Families |-> 0]
    BY DEF Init
  <2>2. 0 \in 0 .. JumpCap
    BY FirewallAssumption DEF FirewallAssumption
  <2> QED BY <2>1, <2>2, Nothing
<1>3. /\ lastHash \in Hashes /\ pendingHash \in Hashes
      /\ timer \in Timers /\ answer \in Answers
  BY Nothing DEF Init
<1>4. mode \in Modes /\ state \in States /\ lastErr \in Errors
  BY DEF Init, Modes, States, Errors
<1> QED BY <1>1, <1>2, <1>3, <1>4 DEF Init, TypeOK, Modes, Steps

(* Chains stay chains under the four things that are done to them.         *)
LEMMA ChainOps ==
  ASSUME NEW c \in Chains
  PROVE  /\ Exists(c) \in Chains /\ Flushed(c) \in Chains
         /\ \A r \in SUBSET Ports : Accepting(c, Accepted(r)) \in Chains
         /\ \A m \in Modes : EndingIn(c, LastLine(m)) \in Chains
<1>1. Exists(c) \in Chains /\ Flushed(c) \in Chains
  BY DEF Chains, Exists, Flushed
<1>2. ASSUME NEW r \in SUBSET Ports
      PROVE  Accepting(c, Accepted(r)) \in Chains
  BY DEF Chains, Accepting, Accepted
<1>3. ASSUME NEW m \in Modes
      PROVE  EndingIn(c, LastLine(m)) \in Chains
  BY DEF Chains, EndingIn, LastLine
<1> QED BY <1>1, <1>2, <1>3

LEMMA AddJumpType ==
  ASSUME TypeOK, NEW f \in Families
  PROVE  AddJump(f) \in [Families -> 0 .. JumpCap]
<1>1. jumps[f] \in 0 .. JumpCap /\ JumpCap \in Nat
  BY FirewallAssumption DEF FirewallAssumption, TypeOK
<1>2. (IF jumps[f] < JumpCap THEN jumps[f] + 1 ELSE jumps[f]) \in 0 .. JumpCap
  BY <1>1
<1> QED BY <1>2 DEF AddJump, TypeOK

(* A building step moves on or fails; either way only the kernel matters.  *)
LEMMA BuildFrame ==
  ASSUME TypeOK, Unbuilt, NEW next \in Steps, Goes(next) \/ ApplyFails,
         chain' \in [Families -> Chains], jumps' \in [Families -> 0 .. JumpCap]
  PROVE  TypeOK'
<1>1. pc' \in Steps
  BY DEF Goes, ApplyFails, Steps
<1>2. /\ mode' \in Modes /\ state' \in States
      /\ lastErr' \in Errors /\ lastHash' \in Hashes
  BY DEF TypeOK, Goes, ApplyFails, statusVars, States, Errors
<1> QED BY <1>1, <1>2 DEF TypeOK, Unbuilt, nodeVars, trialVars

(* What the iptables commands of a building call leave has its type.       *)
LEMMA BuildType == TypeOK /\ BuildStep => TypeOK'
<1> SUFFICES ASSUME TypeOK, BuildStep PROVE TypeOK'
  OBVIOUS
<1>a. chain \in [Families -> Chains] /\ jumps \in [Families -> 0 .. JumpCap]
  BY DEF TypeOK
<1>b. /\ job.mode \in Modes /\ job.rules \in PortSets
      /\ job.rules \subseteq Ports
  BY FirewallAssumption DEF FirewallAssumption, Jobs, TypeOK
<1>c. {"jump", "ensure6", "flush", "accept4", "verdict4", "accept6",
       "verdict6", "commit", "idle"} \subseteq Steps
  BY DEF Steps
<1>1. CASE NewChain
  <2>1. chain' \in [Families -> Chains]
    BY <1>1, <1>a, ChainOps DEF NewChain, Families
  <2> QED BY <1>1, <1>a, <1>c, <2>1, BuildFrame DEF NewChain
<1>2. CASE InsertJump
  <2>1. jumps' \in [Families -> 0 .. JumpCap]
    BY <1>2, <1>a, AddJumpType DEF InsertJump, Families
  <2> QED BY <1>2, <1>a, <1>c, <2>1, BuildFrame DEF InsertJump
<1>3. CASE Ensure6
  <2>1. jumps' \in [Families -> 0 .. JumpCap]
    BY <1>3, <1>a, AddJumpType DEF Ensure6, Families, kernelVars
  <2>2. chain' \in [Families -> Chains]
    BY <1>3, <1>a, ChainOps DEF Ensure6, Families, kernelVars
  <2> QED BY <1>3, <1>c, <2>1, <2>2, BuildFrame DEF Ensure6
<1>4. CASE FlushChain
  <2>1. chain' \in [Families -> Chains]
    BY <1>4, <1>a, ChainOps DEF FlushChain
  <2> QED BY <1>4, <1>a, <1>c, <2>1, BuildFrame DEF FlushChain
<1>5. ASSUME NEW f \in Families, NEW here, NEW next \in Steps,
             AcceptPorts(f, here, next)
      PROVE  TypeOK'
  <2>1. \A r \in SUBSET Ports :
          [chain EXCEPT ![f] = Accepting(@, Accepted(r))] \in [Families -> Chains]
    BY <1>a, ChainOps
  <2>2. chain' \in [Families -> Chains]
    BY <1>a, <1>b, <1>5, <2>1 DEF AcceptPorts
  <2> QED BY <1>5, <1>a, <2>2, BuildFrame DEF AcceptPorts
<1>6. ASSUME NEW f \in Families, NEW here, NEW next \in Steps,
             AddVerdict(f, here, next)
      PROVE  TypeOK'
  <2>1. chain' \in [Families -> Chains]
    <3>1. [chain EXCEPT ![f] = EndingIn(@, LastLine(job.mode))]
            \in [Families -> Chains]
      BY <1>a, <1>b, ChainOps
    <3> QED BY <1>a, <1>6, <3>1 DEF AddVerdict
  <2> QED BY <1>6, <1>a, <2>1, BuildFrame DEF AddVerdict
<1>7. CASE Commit
  <2>1. Hash(job.mode, job.rules) \in Hashes
    BY <1>b DEF Hash, Hashes
  <2>2. pendingHash' \in Hashes
    BY <1>7, <2>1 DEF Commit, trialVars, TypeOK
  <2>3. timer' \in Timers
    <3>1. Window \in 0 .. Window
      BY FirewallAssumption DEF FirewallAssumption
    <3>2. [hash |-> Hash(job.mode, job.rules), left |-> Window] \in Timers
      BY <2>1, <3>1 DEF Timers
    <3> QED BY <1>7, <3>2 DEF Commit, StartRollback, trialVars, TypeOK
  <2>4. rollbackActive' \in BOOLEAN /\ rollbackFired' \in BOOLEAN
    BY <1>7 DEF Commit, StartRollback, trialVars, TypeOK
  <2>5. /\ state' \in States /\ lastErr' \in Errors
        /\ mode' \in Modes /\ lastHash' \in Hashes
    BY <1>b, <1>7, <2>1 DEF Commit, States, Errors
  <2> QED BY <1>b, <1>c, <1>7, <2>2, <2>3, <2>4, <2>5
          DEF Commit, TypeOK, nodeVars, kernelVars
<1> QED BY <1>1, <1>2, <1>3, <1>4, <1>5, <1>6, <1>7, <1>c DEF BuildStep, Families

(* The start of Apply keeps the types.                                     *)
LEMMA ApplyType == TypeOK /\ ApplyAnswer => TypeOK'
<1> SUFFICES ASSUME TypeOK, ApplyAnswer PROVE TypeOK'
  OBVIOUS
<1> DEFINE m == answer.mode
           r == answer.rules
<1>1. m \in Modes /\ r \in PortSets
  BY DEF TypeOK, ApplyAnswer, Answers
<1>2. /\ pc' \in Steps /\ mode' \in Modes /\ state' \in States
      /\ lastErr' \in Errors /\ lastHash' \in Hashes /\ saved' \in PortSets
  BY <1>1 DEF TypeOK, ApplyAnswer, Apply, Unsupported, TurnOff, StayRolledBack,
              AlreadyApplied, Rebuild, statusVars, States, Errors, Steps
<1>3. /\ rollbackActive' \in BOOLEAN /\ rollbackFired' \in BOOLEAN
      /\ pendingHash' \in Hashes /\ timer' \in Timers
  BY Nothing DEF TypeOK, ApplyAnswer, Apply, Unsupported, TurnOff,
     StayRolledBack, AlreadyApplied, Rebuild, trialVars, ForgetTrial, NoTrial
<1>4. job' \in Jobs /\ seen' \in Modes \cup {"none"} /\ answer' \in Answers
  BY <1>1, Nothing DEF ApplyAnswer, Apply, Jobs
<1> QED BY <1>2, <1>3, <1>4 DEF TypeOK, ApplyAnswer, nodeVars, kernelVars

LEMMA DeleteTypes ==
  ASSUME TypeOK, NEW f \in Families
  PROVE  /\ DeleteJumps(f) => jumps' \in [Families -> 0 .. JumpCap]
         /\ DeleteJumpFails => jumps' \in [Families -> 0 .. JumpCap]
         /\ FlushDelete(f) => chain' \in [Families -> Chains]
<1>1. /\ jumps \in [Families -> 0 .. JumpCap] /\ JumpCap \in Nat
      /\ Tries \in Nat
  BY FirewallAssumption DEF TypeOK, FirewallAssumption
<1>2. DeleteJumps(f) => jumps' \in [Families -> 0 .. JumpCap]
  BY <1>1 DEF DeleteJumps
<1>3. DeleteJumpFails => jumps' \in [Families -> 0 .. JumpCap]
  BY <1>1 DEF DeleteJumpFails, Families
<1>4. FlushDelete(f) => chain' \in [Families -> Chains]
  BY Nothing, ChainOps DEF FlushDelete, TypeOK
<1> QED BY <1>2, <1>3, <1>4

(* disableLocked keeps the types, for whichever caller.                    *)
LEMMA DisableType == TypeOK /\ DisableStep => TypeOK'
<1> SUFFICES ASSUME TypeOK, DisableStep PROVE TypeOK'
  OBVIOUS
<1>a. chain \in [Families -> Chains] /\ jumps \in [Families -> 0 .. JumpCap]
  BY DEF TypeOK
<1>b. "v4" \in Families /\ "v6" \in Families /\ job.rules \in PortSets
  BY DEF Families, TypeOK, Jobs
<1>c. {"flush4", "del6", "flush6", "idle"} \subseteq Steps
  BY DEF Steps
<1>d. {"off", "rollback", "error"} \subseteq States
      /\ {"", "iptables", "rolledback"} \subseteq Errors
  BY DEF States, Errors, Modes
<1>1. CASE DisableJumps
  <2>1. jumps' \in [Families -> 0 .. JumpCap]
    BY <1>1, <1>b, DeleteTypes DEF DisableJumps
  <2> QED BY <1>1, <1>c, <1>d, <2>1
          DEF TypeOK, DisableJumps, ApplyFails, RolledBackNow, nodeVars,
              statusVars, trialVars
<1>2. CASE DisableFlush
  BY <1>2, <1>a, <1>b, <1>c, DeleteTypes, BuildFrame DEF DisableFlush
<1>3. CASE DisableJumps6
  BY <1>3, <1>a, <1>b, <1>c, DeleteTypes, BuildFrame DEF DisableJumps6
<1>4. CASE Disabled
  <2>1. chain' \in [Families -> Chains]
    BY <1>4, <1>b, DeleteTypes DEF Disabled
  <2> QED BY <1>4, <1>b, <1>c, <1>d, <2>1, Nothing
          DEF TypeOK, Disabled, OffNow, RolledBackNow, nodeVars, trialVars
<1> QED BY <1>1, <1>2, <1>3, <1>4 DEF DisableStep

(* The rescue process changes the kernel and itself.                       *)
LEMMA RescueType == TypeOK /\ (Rescue \/ RescueStep) => TypeOK'
<1> SUFFICES ASSUME TypeOK, Rescue \/ RescueStep PROVE TypeOK'
  OBVIOUS
<1>1. cli' \in {"idle", "del4", "flush4", "del6", "flush6"}
  BY DEF Rescue, RescueStep
<1>2. chain' \in [Families -> Chains] /\ jumps' \in [Families -> 0 .. JumpCap]
  <2>1. "v4" \in Families /\ "v6" \in Families
    BY DEF Families
  <2> QED BY <2>1, DeleteTypes DEF Rescue, RescueStep, kernelVars, TypeOK
<1> QED BY <1>1, <1>2 DEF TypeOK, Rescue, RescueStep, nodeVars, statusVars,
           trialVars

(* Time, the timer and its callback.                                       *)
LEMMA TimerType == TypeOK /\ (Tick \/ TimerFires \/ RollbackCallback) => TypeOK'
<1> SUFFICES ASSUME TypeOK, Tick \/ TimerFires \/ RollbackCallback PROVE TypeOK'
  OBVIOUS
<1> USE DEF TypeOK, nodeVars, statusVars, trialVars, kernelVars
<1>1. CASE Tick
  <2>1. timer' \in Timers
    BY <1>1, FirewallAssumption DEF Tick, Timers, FirewallAssumption
  <2> QED BY <1>1, <2>1 DEF Tick
<1>2. CASE TimerFires
  <2>1. timer.hash \in Hashes
    BY DEF Timers
  <2> QED BY <1>2, <2>1, Nothing DEF TimerFires
<1>3. CASE RollbackCallback
  <2>1. pc' \in Steps /\ job' \in Jobs /\ late' \in SUBSET Hashes
    BY <1>3 DEF RollbackCallback, Steps, Jobs, Modes
  <2> QED BY <1>3, <2>1 DEF RollbackCallback
<1> QED BY <1>1, <1>2, <1>3

(* The panel, the process, and steps of nobody.                            *)
LEMMA OtherType ==
  TypeOK /\ ( \/ \E m, old \in Modes : PutNode(m, old)
              \/ RulesChange \/ AgentHeartbeat \/ Crash \/ Restart
              \/ UNCHANGED vars ) => TypeOK'
<1> SUFFICES ASSUME TypeOK,
                    \/ \E m, old \in Modes : PutNode(m, old)
                    \/ RulesChange \/ AgentHeartbeat \/ Crash \/ Restart
                    \/ UNCHANGED vars
             PROVE  TypeOK'
  OBVIOUS
<1> USE DEF TypeOK, nodeVars, statusVars, trialVars, kernelVars
<1>1. ASSUME NEW m \in Modes, NEW old \in Modes, PutNode(m, old) PROVE TypeOK'
  BY <1>1 DEF PutNode, PutMode, Modes
<1>2. CASE RulesChange
  BY <1>2 DEF RulesChange
<1>3. CASE AgentHeartbeat
  BY <1>3 DEF AgentHeartbeat, Answers
<1>4. CASE Crash
  <2>1. /\ "off" \in Modes /\ "idle" \in Steps
        /\ {"off", "unsupported"} \subseteq States
        /\ {"", "unsupported"} \subseteq Errors
    BY DEF Modes, States, Errors, Steps
  <2> QED BY <1>4, <2>1, Nothing DEF Crash, FreshManager
<1>5. CASE Restart
  BY <1>5, Nothing DEF Restart, Answers, Modes
<1>6. CASE UNCHANGED vars
  BY <1>6 DEF vars
<1> QED BY <1>1, <1>2, <1>3, <1>4, <1>5, <1>6

(* Every variable keeps its type, whatever fails, crashes or interferes.   *)
THEOREM TypeCorrect == Spec => []TypeOK
<1>1. TypeOK /\ [Next]_vars => TypeOK'
  BY ApplyType, BuildType, DisableType, RescueType, TimerType, OtherType
     DEF Next
<1> QED BY <1>1, InitType, PTL DEF Spec

-----------------------------------------------------------------------------

(* The binaries were looked up once, when the agent started.               *)
LEMMA HostFixed == [Next]_vars => bins' = bins
<1> SUFFICES ASSUME [Next]_vars PROVE bins' = bins
  OBVIOUS
<1>1. CASE (\E m, old \in Modes : PutNode(m, old)) \/ RulesChange \/ AgentHeartbeat
  BY <1>1 DEF PutNode, RulesChange, AgentHeartbeat, nodeVars
<1>2. CASE ApplyAnswer
  BY <1>2 DEF ApplyAnswer, nodeVars
<1>3. CASE BuildStep
  BY <1>3 DEF BuildStep, NewChain, InsertJump, Ensure6, FlushChain, AcceptPorts,
     AddVerdict, Commit, Unbuilt, nodeVars
<1>4. CASE DisableStep
  BY <1>4 DEF DisableStep, DisableJumps, DisableFlush, DisableJumps6, Disabled,
     Unbuilt, nodeVars
<1>5. CASE Tick \/ TimerFires \/ RollbackCallback
  BY <1>5 DEF Tick, TimerFires, RollbackCallback, nodeVars
<1>6. CASE Rescue \/ RescueStep \/ Crash \/ Restart
  BY <1>6 DEF Rescue, RescueStep, Crash, Restart, nodeVars
<1>7. CASE UNCHANGED vars
  BY <1>7 DEF vars, nodeVars
<1> QED BY <1>1, <1>2, <1>3, <1>4, <1>5, <1>6, <1>7 DEF Next

(* Every step keeps TrialInv: a trial and a running call belong to the     *)
(* mode seen last. Only Apply changes that mode, and then it forgets the   *)
(* trial of any other mode.                                                *)
LEMMA TrialStep == TypeOK /\ TrialInv /\ [Next]_vars => TrialInv'
<1> SUFFICES ASSUME TypeOK, TrialInv, [Next]_vars PROVE TrialInv'
  OBVIOUS
<1>z. bins' = bins
  BY HostFixed
<1> USE <1>z
<1> USE DEF TrialInv
<1>1. CASE ApplyAnswer
  <2>1. (rollbackActive => seen = "strict-pending" /\ "v4" \in bins)'
    BY <1>1 DEF ApplyAnswer, Apply, Unsupported, TurnOff, StayRolledBack,
       AlreadyApplied, Rebuild, ForgetTrial, NoTrial, trialVars, RolledBack
  <2>2. (pc # "idle" => seen = job.mode /\ "v4" \in bins)'
    BY <1>1 DEF ApplyAnswer, Apply, Unsupported, TurnOff, StayRolledBack,
       AlreadyApplied, Rebuild
  <2>3. (job.op = "rollback" => job.mode = "strict-pending")'
    BY <1>1 DEF ApplyAnswer, Apply
  <2> QED BY <2>1, <2>2, <2>3
<1>2. CASE BuildStep
  <2>1. CASE Commit
    BY <2>1 DEF Commit, StartRollback, trialVars
  <2>2. CASE ~ Commit
    BY <1>2, <2>2 DEF BuildStep, NewChain, InsertJump, Ensure6, FlushChain,
       AcceptPorts, AddVerdict, Goes, ApplyFails, Unbuilt, trialVars
  <2> QED BY <2>1, <2>2
<1>3. CASE DisableStep
  BY <1>3 DEF DisableStep, DisableJumps, DisableFlush, DisableJumps6, Disabled,
     OffNow, RolledBackNow, Goes, ApplyFails, Unbuilt, trialVars
<1>4. CASE RollbackCallback
  BY <1>4 DEF RollbackCallback, TrialOf, trialVars
<1>5. CASE Crash
  BY <1>5 DEF Crash, FreshManager
<1>6. CASE Tick \/ TimerFires \/ Rescue \/ RescueStep \/ Restart
  BY <1>6 DEF Tick, TimerFires, Rescue, RescueStep, Restart, trialVars
<1>7. CASE (\E m, old \in Modes : PutNode(m, old)) \/ RulesChange \/ AgentHeartbeat
  BY <1>7 DEF PutNode, RulesChange, AgentHeartbeat, trialVars
<1>8. CASE UNCHANGED vars
  BY <1>8 DEF vars, trialVars
<1> QED BY <1>1, <1>2, <1>3, <1>4, <1>5, <1>6, <1>7, <1>8 DEF Next

(* A late callback never takes down the chain of a mode the panel has      *)
(* asked for since: whatever fails, in every interleaving.                 *)
THEOREM LateCallbackHarmless == Spec => []RollbackOnlyPending
<1>1. Init => TrialInv
  <2>1. Init => pc = "idle" /\ rollbackActive = FALSE
                /\ job = [op |-> "apply", mode |-> "off", rules |-> {}]
    BY Zenon DEF Init
  <2> QED BY <2>1 DEF TrialInv
<1>2. TrialInv => RollbackOnlyPending
  BY DEF TrialInv, RollbackOnlyPending
<1> QED BY <1>1, <1>2, TrialStep, TypeCorrect, PTL DEF Spec

-----------------------------------------------------------------------------

(* The accept lines of one family: the last line stays, nothing that was   *)
(* accepted is lost, and SSH is accepted when the call moves on.           *)
LEMMA AcceptLines ==
  ASSUME TypeOK, NEW f \in Families, NEW here, NEW next, AcceptPorts(f, here, next)
  PROVE  /\ \A g \in Families \ {f} : chain'[g] = chain[g]
         /\ chain'[f].verdict = chain[f].verdict
         /\ chain[f].accepts \subseteq chain'[f].accepts
         /\ pc' = next \/ pc' = "idle"
         /\ pc' = next /\ next # "idle" /\ f \in bins =>
              SSH \in chain'[f].accepts \/ chain'[f].verdict # "none"
         /\ pc = here /\ up' = up /\ cli' = cli
<1>1. chain \in [Families -> Chains] /\ chain[f] \in Chains
  BY DEF TypeOK
<1>2. ASSUME NEW r
      PROVE  LET c == Accepting(chain[f], Accepted(r)) IN
               /\ SSH \in c.accepts \/ c.verdict # "none"
               /\ c.verdict = chain[f].verdict
               /\ chain[f].accepts \subseteq c.accepts
  BY <1>1 DEF Chains, Accepting, Accepted
<1>3. pc = here /\ up' = up /\ cli' = cli /\ (pc' = next \/ pc' = "idle")
  BY DEF AcceptPorts, Goes, ApplyFails, Unbuilt
<1>4. CASE chain' = chain /\ (pc' = "idle" \/ f \notin bins)
  BY <1>3, <1>4
<1>5. ASSUME NEW r, chain' = [chain EXCEPT ![f] = Accepting(@, Accepted(r))]
      PROVE  /\ \A g \in Families \ {f} : chain'[g] = chain[g]
             /\ chain'[f].verdict = chain[f].verdict
             /\ chain[f].accepts \subseteq chain'[f].accepts
             /\ SSH \in chain'[f].accepts \/ chain'[f].verdict # "none"
  BY <1>1, <1>2, <1>5
<1> QED BY <1>3, <1>4, <1>5 DEF AcceptPorts, ApplyFails

(* The last line of one family: only a chain that had none gets one.       *)
LEMMA VerdictLine ==
  ASSUME TypeOK, NEW f \in Families, NEW here, NEW next, AddVerdict(f, here, next)
  PROVE  /\ \A g \in Families \ {f} : chain'[g] = chain[g]
         /\ chain'[f].accepts = chain[f].accepts
         /\ f \notin bins \/ chain[f].verdict # "none" =>
              chain'[f].verdict = chain[f].verdict
         /\ pc' = next \/ pc' = "idle"
         /\ pc = here /\ up' = up /\ cli' = cli
<1>1. chain \in [Families -> Chains] /\ chain[f] \in Chains
  BY DEF TypeOK
<1>2. /\ EndingIn(chain[f], LastLine(job.mode)).accepts = chain[f].accepts
      /\ chain[f].verdict # "none" =>
           EndingIn(chain[f], LastLine(job.mode)) = chain[f]
  BY <1>1 DEF Chains, EndingIn
<1>3. pc = here /\ up' = up /\ cli' = cli /\ (pc' = next \/ pc' = "idle")
  BY DEF AddVerdict, Goes, ApplyFails, Unbuilt
<1>4. CASE chain' = chain
  BY <1>3, <1>4
<1>5. CASE f \in bins /\ chain' = [chain EXCEPT ![f] = EndingIn(@, LastLine(job.mode))]
  BY <1>1, <1>2, <1>3, <1>5
<1> QED BY <1>4, <1>5 DEF AddVerdict

(* Every step keeps SshInv, unless a rescue process may run beside a call. *)
LEMMA SshStep ==
  ASSUME RescueWhen # "any", TypeOK, SshInv, [Next]_vars
  PROVE  SshInv'
<1>z. bins' = bins
  BY HostFixed
<1> USE <1>z
<1> USE DEF SshInv, SshFirst
<1>a. chain \in [Families -> Chains]
  BY DEF TypeOK
<1>1. CASE NewChain \/ Ensure6
  BY <1>1, <1>a DEF NewChain, Ensure6, Exists, Goes, ApplyFails, Unbuilt,
     kernelVars, Chains
<1>2. CASE InsertJump
  BY <1>2 DEF InsertJump, Goes, ApplyFails, Unbuilt
<1>3. CASE FlushChain
  BY <1>3, <1>a DEF FlushChain, Flushed, Goes, Unbuilt, Chains
<1>b. "v4" \in Families /\ "v6" \in Families
      /\ \A f \in Families : f = "v4" \/ f = "v6"
  BY DEF Families
<1>4. CASE AcceptPorts("v4", "accept4", "verdict4")
  BY <1>4, <1>b, AcceptLines
<1>5. CASE AcceptPorts("v6", "accept6", "verdict6")
  BY <1>5, <1>b, AcceptLines
<1>6. CASE AddVerdict("v4", "verdict4", "accept6")
  BY <1>6, <1>b, VerdictLine
<1>7. CASE AddVerdict("v6", "verdict6", "commit")
  BY <1>7, <1>b, VerdictLine
<1>8. CASE Commit
  BY <1>8 DEF Commit, kernelVars
<1>9. CASE ApplyAnswer
  BY <1>9 DEF ApplyAnswer, Apply, Unsupported, TurnOff, StayRolledBack,
     AlreadyApplied, Rebuild, kernelVars
<1>10. ASSUME NEW f \in Families, FlushDelete(f)
       PROVE  \A g \in Families : chain'[g].verdict = "DROP" =>
                chain'[g] = chain[g]
  <2>1. Flushed(chain[f]).verdict = "none" /\ NoChain.verdict = "none"
    BY <1>a DEF Flushed, NoChain, Chains
  <2> QED BY <1>a, <1>10, <2>1 DEF FlushDelete
<1>11. CASE DisableStep
  BY <1>11, <1>b, <1>10 DEF DisableStep, DisableJumps, DisableFlush,
     DisableJumps6, Disabled, Goes, ApplyFails, RolledBackNow, Unbuilt
<1>12. CASE Rescue \/ RescueStep
  BY <1>12, <1>b, <1>10 DEF Rescue, RescueStep, RescueAllowed, kernelVars
<1>13. CASE RollbackCallback \/ Tick \/ TimerFires \/ Restart
  BY <1>13 DEF RollbackCallback, Tick, TimerFires, Restart, kernelVars
<1>14. CASE Crash
  BY <1>14 DEF Crash, kernelVars
<1>15. CASE (\E m, old \in Modes : PutNode(m, old)) \/ RulesChange \/ AgentHeartbeat
  BY <1>15 DEF PutNode, RulesChange, AgentHeartbeat, kernelVars
<1>16. CASE UNCHANGED vars
  BY <1>16 DEF vars, kernelVars
<1> QED BY <1>1, <1>2, <1>3, <1>4, <1>5, <1>6, <1>7, <1>8, <1>9, <1>11, <1>12,
           <1>13, <1>14, <1>15, <1>16 DEF Next, BuildStep

LEMMA InitSsh == Init => SshInv
<1>1. Init => pc = "idle" /\ cli = "idle" /\ chain = [f \in Families |-> NoChain]
  BY DEF Init
<1> QED BY <1>1 DEF SshInv, SshFirst, NoChain

(* An operator is never locked out of SSH: a chain that drops packets      *)
(* accepts the SSH ports first, whatever command fails and wherever the    *)
(* agent dies, as long as rescue is only run with the agent stopped.       *)
THEOREM SshNeverLockedOut == RescueWhen # "any" => (Spec => []SshKept)
<1> SUFFICES ASSUME RescueWhen # "any" PROVE Spec => []SshKept
  OBVIOUS
<1>2. SshInv => SshKept
  BY DEF SshInv, SshKept, InForce
<1>3. TypeOK /\ SshInv /\ [Next]_vars => SshInv'
  BY SshStep
<1> QED BY <1>2, <1>3, InitSsh, TypeCorrect, PTL DEF Spec

-----------------------------------------------------------------------------

(* Every step keeps Stages, whatever fails or interferes: a call does what *)
(* it was begun for, and a rollback is remembered until another mode is    *)
(* asked for or a trial begins.                                            *)
LEMMA StagesStep ==
  ASSUME TypeOK, TrialInv, Stages, [Next]_vars
  PROVE  Stages'
<1>z. bins' = bins
  BY HostFixed
<1> USE <1>z
<1> USE DEF Stages, Disabling
<1>b. job.op \in {"apply", "rollback"}
  BY DEF TypeOK, Jobs
<1>1. CASE ApplyAnswer
  <2> DEFINE m == answer.mode
  <2>1. up /\ up' = up /\ pc = "idle" /\ seen' = m /\ job'.op = "apply" /\ job'.mode = m
    BY <1>1 DEF ApplyAnswer, Apply
  <2>2. \/ pc' = "idle"
        \/ pc' = "del4" /\ m = "off"
        \/ pc' = "new" /\ m # "off"
    BY <1>1, <2>1 DEF ApplyAnswer, Apply, Unsupported, TurnOff, StayRolledBack,
       AlreadyApplied, Rebuild
  <2>3. rollbackFired' => ~ rollbackActive' /\ seen' = "strict-pending" /\ "v4" \in bins
    BY <1>1, <2>1 DEF ApplyAnswer, Apply, Unsupported, TurnOff, StayRolledBack,
       AlreadyApplied, Rebuild, ForgetTrial, trialVars, RolledBack
  <2> QED BY <2>1, <2>2, <2>3
<1>2. CASE Commit
  BY <1>2 DEF Commit, StartRollback, trialVars, TrialInv
<1>3. CASE BuildStep /\ ~ Commit
  BY <1>3 DEF BuildStep, NewChain, InsertJump, Ensure6, FlushChain, AcceptPorts,
     AddVerdict, Goes, ApplyFails, Unbuilt, trialVars
<1>4. CASE DisableStep
  <2>1. CASE DisableJumps
    BY <1>b, <2>1 DEF TrialInv, DisableJumps, ApplyFails, RolledBackNow, trialVars
  <2>2. CASE DisableFlush \/ DisableJumps6
    BY <2>2 DEF DisableFlush, DisableJumps6, Goes, Unbuilt, trialVars
  <2>3. CASE Disabled
    BY <1>b, <2>3 DEF TrialInv, Disabled, OffNow, RolledBackNow, trialVars
  <2> QED BY <1>4, <2>1, <2>2, <2>3 DEF DisableStep
<1>5. CASE RollbackCallback
  BY <1>5 DEF RollbackCallback, TrialOf, trialVars
<1>6. CASE Crash
  BY <1>6 DEF Crash, FreshManager
<1>7. CASE Tick \/ TimerFires \/ Rescue \/ RescueStep
  BY <1>7 DEF Tick, TimerFires, Rescue, RescueStep, trialVars
<1>8. CASE Restart
  BY <1>8 DEF Restart, trialVars
<1>9. CASE (\E m, old \in Modes : PutNode(m, old)) \/ RulesChange \/ AgentHeartbeat
  BY <1>9 DEF PutNode, RulesChange, AgentHeartbeat, trialVars
<1>10. CASE UNCHANGED vars
  BY <1>10 DEF vars, trialVars
<1> QED BY <1>1, <1>2, <1>3, <1>4, <1>5, <1>6, <1>7, <1>8, <1>9, <1>10 DEF Next

LEMMA InitCalls == Init => TrialInv /\ Stages
<1>1. Init => /\ pc = "idle" /\ up = TRUE
              /\ rollbackActive = FALSE /\ rollbackFired = FALSE
              /\ job = [op |-> "apply", mode |-> "off", rules |-> {}]
  BY Zenon DEF Init
<1> QED BY <1>1 DEF TrialInv, Stages

(* What holds of every call.                                               *)
LEMMA Calls == Spec => [](TypeOK /\ TrialInv /\ Stages)
<1>1. TypeOK /\ TrialInv /\ [Next]_vars => TrialInv'
  BY TrialStep
<1>2. TypeOK /\ TrialInv /\ Stages /\ [Next]_vars => Stages'
  BY StagesStep
<1> QED BY <1>1, <1>2, InitCalls, TypeCorrect, PTL DEF Spec

-----------------------------------------------------------------------------

(* While the rule set stays, every step keeps OneTrial, whatever fails or  *)
(* interferes.                                                             *)
LEMMA OneTrialStep ==
  ASSUME EditsWhen = "never", TypeOK, TrialInv, Stages, OneTrial, [Next]_vars
  PROVE  OneTrial'
<1>z. bins' = bins
  BY HostFixed
<1> USE <1>z
<1> USE DEF OneTrial
<1>a. nodeRules' = nodeRules => Trial' = Trial
  BY DEF Trial, Hash
<1>b. job.op \in {"apply", "rollback"}
  BY DEF TypeOK, Jobs
<1>1. CASE ApplyAnswer
  <2> DEFINE m == answer.mode
             r == answer.rules
  <2>1. /\ pc = "idle" /\ seen' = m /\ nodeRules' = nodeRules
        /\ job' = [op |-> "apply", mode |-> m, rules |-> r]
        /\ m = "off" \/ r = nodeRules
        /\ answer' = NoAnswer
    BY <1>1 DEF ApplyAnswer, Apply, nodeVars
  <2>2. (rollbackActive => pendingHash = Trial)'
    BY <1>1, <1>a, <2>1 DEF ApplyAnswer, Apply, Unsupported, TurnOff,
       StayRolledBack, AlreadyApplied, Rebuild, ForgetTrial, NoTrial, trialVars
  <2>3. (rollbackFired => pc = "idle" /\ pendingHash = Trial)'
    <3>1. CASE m = "strict-pending"
      <4>1. Hash(m, r) = Trial
        BY <2>1, <3>1 DEF Trial
      <4>2. UNCHANGED trialVars
        BY <1>1, <3>1 DEF ApplyAnswer, Apply, Unsupported, TurnOff,
           StayRolledBack, AlreadyApplied, Rebuild, ForgetTrial
      <4>3. rollbackFired => pc' = "idle"
        BY <1>1, <2>1, <3>1, <4>1 DEF ApplyAnswer, Apply, Unsupported, TurnOff,
           StayRolledBack, AlreadyApplied, Rebuild, RolledBack, Stages
      <4> QED BY <1>a, <2>1, <4>2, <4>3 DEF trialVars
    <3>2. CASE m # "strict-pending"
      BY <1>1, <3>2 DEF ApplyAnswer, Apply, Unsupported, TurnOff,
         StayRolledBack, AlreadyApplied, Rebuild, ForgetTrial, trialVars,
         RolledBack, Stages
    <3> QED BY <3>1, <3>2
  <2> QED BY <2>1, <2>2, <2>3
<1>2. CASE Commit
  <2>1. /\ pc = "commit" /\ pc' = "idle" /\ job.op = "apply" /\ job' = job
        /\ seen = job.mode /\ nodeRules' = nodeRules /\ answer' = answer
    BY <1>2 DEF Commit, Stages, Disabling, TrialInv, nodeVars
  <2>2. job.mode = "strict-pending" => Hash(job.mode, job.rules) = Trial
    BY <2>1 DEF Trial
  <2>3. (rollbackActive => pendingHash = Trial)'
    BY <1>2, <1>a, <2>1, <2>2 DEF Commit, trialVars
  <2>4. (rollbackFired => pc = "idle" /\ pendingHash = Trial)'
    BY <1>2, <1>a, <2>1, <2>2 DEF Commit, trialVars
  <2> QED BY <2>1, <2>3, <2>4
<1>3. CASE BuildStep /\ ~ Commit
  BY <1>3, <1>a DEF BuildStep, NewChain, InsertJump, Ensure6, FlushChain,
     AcceptPorts, AddVerdict, Goes, ApplyFails, Unbuilt, trialVars, nodeVars
<1>4. CASE DisableStep
  <2>1. CASE DisableJumps
    BY <1>b, <1>a, <2>1 DEF Stages, TrialInv, DisableJumps, ApplyFails, RolledBackNow,
       trialVars, nodeVars
  <2>2. CASE DisableFlush \/ DisableJumps6
    BY <1>a, <2>2 DEF DisableFlush, DisableJumps6, Goes, Unbuilt, trialVars, nodeVars
  <2>3. CASE Disabled
    BY <1>b, <1>a, <2>3 DEF Stages, TrialInv, Disabled, OffNow, RolledBackNow,
       trialVars, nodeVars
  <2> QED BY <1>4, <2>1, <2>2, <2>3 DEF DisableStep
<1>5. CASE RollbackCallback
  BY <1>5, <1>a DEF RollbackCallback, TrialOf, trialVars, nodeVars, Stages
<1>6. CASE Crash
  BY <1>6 DEF Crash, FreshManager
<1>7. CASE Restart
  <2>1. ASSUME answer' = [mode |-> "off", rules |-> saved]
        PROVE  answer'.mode = "off"
    BY <2>1
  <2> QED BY <1>7, <1>a, <2>1 DEF Restart, trialVars, nodeVars
<1>8. CASE Tick \/ TimerFires \/ Rescue \/ RescueStep
  BY <1>8, <1>a DEF Tick, TimerFires, Rescue, RescueStep, trialVars, nodeVars
<1>9. CASE (\E m, old \in Modes : PutNode(m, old)) \/ RulesChange \/ AgentHeartbeat
  BY <1>9, <1>a DEF PutNode, RulesChange, EditsAllowed, AgentHeartbeat, trialVars, nodeVars
<1>10. CASE UNCHANGED vars
  BY <1>10, <1>a DEF vars, trialVars, nodeVars
<1> QED BY <1>1, <1>2, <1>3, <1>4, <1>5, <1>6, <1>7, <1>8, <1>9, <1>10 DEF Next

LEMMA InitOneTrial == Init => OneTrial
<1>1. Init => /\ pc = "idle" /\ answer = NoAnswer
              /\ rollbackActive = FALSE /\ rollbackFired = FALSE
  BY Zenon DEF Init
<1> QED BY <1>1 DEF OneTrial

(* What an agent rolled back it does not try again by itself, whatever     *)
(* fails, restarts or runs beside it: only another mode, or a new process, *)
(* ends that, while the rule set stays.                                    *)
THEOREM RollbackRemembered == EditsWhen = "never" => (Spec => RolledBackStays)
<1> SUFFICES ASSUME EditsWhen = "never" PROVE Spec => RolledBackStays
  OBVIOUS
<1>1. TypeOK /\ TrialInv /\ Stages /\ OneTrial /\ [Next]_vars => OneTrial'
  BY OneTrialStep
<1>2. ASSUME TypeOK, TrialInv, Stages, OneTrial, [Next]_vars,
             rollbackFired, ~ rollbackFired'
      PROVE  seen' # "strict-pending"
  <2>1. pc = "idle"
    BY <1>2 DEF OneTrial
  <2>2. ~ BuildStep /\ ~ DisableStep
    BY <2>1 DEF BuildStep, NewChain, InsertJump, Ensure6, FlushChain, AcceptPorts,
       AddVerdict, Commit, DisableStep, DisableJumps, DisableFlush,
       DisableJumps6, Disabled
  <2>3. CASE ApplyAnswer
    BY <1>2, <2>3 DEF ApplyAnswer, Apply, Unsupported, TurnOff, StayRolledBack,
       AlreadyApplied, Rebuild, ForgetTrial, trialVars
  <2>4. CASE Crash
    BY <2>4 DEF Crash
  <2>5. CASE (\E m, old \in Modes : PutNode(m, old)) \/ RulesChange \/ AgentHeartbeat \/ Tick
              \/ TimerFires \/ RollbackCallback \/ Rescue \/ RescueStep \/ Restart
    BY <1>2, <2>5 DEF PutNode, RulesChange, AgentHeartbeat, Tick, TimerFires,
       RollbackCallback, Rescue, RescueStep, Restart, trialVars
  <2>6. CASE UNCHANGED vars
    BY <1>2, <2>6 DEF vars, trialVars
  <2> QED BY <1>2, <2>2, <2>3, <2>4, <2>5, <2>6 DEF Next
<1>3. TypeOK /\ TrialInv /\ Stages /\ OneTrial /\ [Next]_vars
        => [rollbackFired /\ ~ rollbackFired' => seen' # "strict-pending"]_vars
  BY <1>2
<1> QED BY <1>1, <1>3, InitOneTrial, Calls, PTL DEF Spec, RolledBackStays

-----------------------------------------------------------------------------

(* Commands do not fail, and rescue is only run with the agent stopped.    *)
Reliable == Failing = {} /\ RescueWhen # "any"

LEMMA SameChain ==
  ASSUME NEW c \in Chains, NEW d \in Chains,
         c.exists = d.exists, c.accepts = d.accepts, c.verdict = d.verdict
  PROVE  c = d
BY DEF Chains

(* What the four things that are done to a chain make of one that is       *)
(* known.                                                                  *)
LEMMA ChainLines ==
  /\ \A c \in Chains : /\ Exists(c).exists = TRUE
                       /\ c.exists => Flushed(c) = Chain({}, "none")
                       /\ Flushed(c).verdict = "none"
  /\ \A r : Accepting(Chain({}, "none"), Accepted(r)) = Chain(Accepted(r), "none")
  /\ \A a, v : /\ EndingIn(Chain(a, "none"), v) = Chain(a, v)
               /\ Chain(a, v).exists = TRUE /\ Chain(a, v).verdict = v
               /\ Chain(a, v).accepts = a
<1>1. ASSUME NEW c \in Chains
      PROVE  /\ Exists(c).exists = TRUE
             /\ c.exists => Flushed(c) = Chain({}, "none")
             /\ Flushed(c).verdict = "none"
  <2>1. Exists(c).exists = TRUE /\ Flushed(c).verdict = "none"
    BY DEF Chains, Exists, Flushed
  <2>2. /\ Flushed(c).exists = c.exists /\ Flushed(c).accepts = {}
        /\ Flushed(c) \in Chains
    BY ChainOps DEF Chains, Flushed
  <2>3. /\ Chain({}, "none") \in Chains /\ Chain({}, "none").exists = TRUE
        /\ Chain({}, "none").accepts = {} /\ Chain({}, "none").verdict = "none"
    BY DEF Chains, Chain
  <2>4. c.exists \in BOOLEAN
    BY DEF Chains
  <2> QED BY <2>1, <2>2, <2>3, <2>4, SameChain
<1>2. ASSUME NEW r
      PROVE  Accepting(Chain({}, "none"), Accepted(r)) = Chain(Accepted(r), "none")
  BY DEF Accepting, Accepted, Chain
<1>3. ASSUME NEW a, NEW v
      PROVE  /\ EndingIn(Chain(a, "none"), v) = Chain(a, v)
             /\ Chain(a, v).exists = TRUE /\ Chain(a, v).verdict = v
             /\ Chain(a, v).accepts = a
  BY DEF EndingIn, Chain
<1> QED BY <1>1, <1>2, <1>3

(* Each command of a building call, when it does not fail: what it leaves  *)
(* of the kernel.                                                          *)
LEMMA Commands ==
  ASSUME Reliable, TypeOK, TrialInv, Stages, Ladder, BuildStep, ~ Commit
  PROVE  /\ Unbuilt /\ UNCHANGED statusVars
         /\ \/ /\ pc = "new" /\ pc' = "jump" /\ jumps' = jumps
               /\ chain' = [chain EXCEPT !["v4"] = Exists(@)]
            \/ /\ pc = "jump" /\ pc' = "ensure6" /\ chain' = chain
               /\ (jumps' = jumps /\ jumps["v4"] > 0) \/ jumps' = AddJump("v4")
            \/ /\ pc = "ensure6" /\ pc' = "flush" /\ "v6" \in bins
               /\ chain' = [chain EXCEPT !["v6"] = Exists(@)] /\ jumps' = AddJump("v6")
            \/ /\ pc = "ensure6" /\ pc' = "flush" /\ "v6" \notin bins
               /\ chain' = chain /\ jumps' = jumps
            \/ /\ pc = "flush" /\ pc' = "accept4" /\ jumps' = jumps
               /\ chain' = [f \in Families |-> Flushed(chain[f])]
            \/ /\ pc = "accept4" /\ pc' = "verdict4" /\ jumps' = jumps
               /\ chain' = [chain EXCEPT !["v4"] = Accepting(@, Accepted(job.rules))]
            \/ /\ pc = "verdict4" /\ pc' = "accept6" /\ jumps' = jumps
               /\ chain' = [chain EXCEPT !["v4"] = EndingIn(@, LastLine(job.mode))]
            \/ /\ pc = "accept6" /\ pc' = "verdict6" /\ jumps' = jumps
               /\ IF "v6" \in bins
                  THEN chain' = [chain EXCEPT !["v6"] = Accepting(@, Accepted(job.rules))]
                  ELSE chain' = chain
            \/ /\ pc = "verdict6" /\ pc' = "commit" /\ jumps' = jumps
               /\ IF "v6" \in bins
                  THEN chain' = [chain EXCEPT !["v6"] = EndingIn(@, LastLine(job.mode))]
                  ELSE chain' = chain
<1>a. Failing = {} /\ "v4" \in bins
  BY DEF Reliable, TrialInv, BuildStep, NewChain, InsertJump, Ensure6, FlushChain,
     AcceptPorts, AddVerdict
<1>1. CASE NewChain
  BY <1>1, <1>a DEF NewChain, Goes
<1>2. CASE InsertJump
  BY <1>2, <1>a DEF InsertJump, Goes, Ladder
<1>3. CASE Ensure6
  BY <1>3, <1>a DEF Ensure6, Goes, kernelVars
<1>4. CASE FlushChain
  BY <1>4, <1>a DEF FlushChain, Goes
<1>5. CASE AcceptPorts("v4", "accept4", "verdict4")
  <2>1. chain["v4"].exists
    BY <1>5, <1>a, ChainLines DEF AcceptPorts, Ladder, Empty
  <2> QED BY <1>5, <1>a, <2>1 DEF AcceptPorts, Goes
<1>6. CASE AddVerdict("v4", "verdict4", "accept6")
  <2>1. chain["v4"].exists
    BY <1>6, <1>a, ChainLines DEF AddVerdict, Ladder, Lined
  <2> QED BY <1>6, <1>a, <2>1 DEF AddVerdict, Goes
<1>7. CASE AcceptPorts("v6", "accept6", "verdict6")
  <2>1. "v6" \in bins => chain["v6"].exists
    BY <1>7, <1>a, ChainLines DEF AcceptPorts, Ladder, Empty
  <2> QED BY <1>7, <1>a, <2>1 DEF AcceptPorts, Goes
<1>8. CASE AddVerdict("v6", "verdict6", "commit")
  <2>1. "v6" \in bins => chain["v6"].exists
    BY <1>8, <1>a, ChainLines DEF AddVerdict, Ladder, Lined
  <2> QED BY <1>8, <1>a, <2>1 DEF AddVerdict, Goes
<1> QED BY <1>1, <1>2, <1>3, <1>4, <1>5, <1>6, <1>7, <1>8 DEF BuildStep

LEMMA JumpAdded ==
  ASSUME TypeOK, NEW f \in Families
  PROVE  /\ AddJump(f)[f] > 0
         /\ \A g \in Families \ {f} : AddJump(f)[g] = jumps[g]
<1>1. /\ jumps \in [Families -> 0 .. JumpCap] /\ JumpCap \in Nat \ {0}
      /\ jumps[f] \in 0 .. JumpCap
  BY FirewallAssumption DEF FirewallAssumption, TypeOK
<1>2. AddJump(f)[f] = IF jumps[f] < JumpCap THEN jumps[f] + 1 ELSE jumps[f]
  BY <1>1 DEF AddJump
<1>3. \A g \in Families \ {f} : AddJump(f)[g] = jumps[g]
  BY <1>1 DEF AddJump
<1> QED BY <1>1, <1>2, <1>3

(* A building call climbs the ladder.                                      *)
LEMMA LadderBuild ==
  ASSUME Reliable, TypeOK, TrialInv, Stages, Ladder, Open, BuildStep, ~ Commit,
         cli = "idle"
  PROVE  Ladder' /\ Open'
<1>z. bins' = bins /\ job' = job /\ cli' = cli
  BY Commands DEF Unbuilt, nodeVars
<1>a. /\ chain \in [Families -> Chains] /\ jumps \in [Families -> 0 .. JumpCap]
      /\ "v4" \in bins /\ "v4" \in Families /\ "v6" \in Families
      /\ \A f \in Families : f = "v4" \/ f = "v6"
      /\ \A f \in bins : f = "v4" \/ f = "v6"
  BY FirewallAssumption DEF FirewallAssumption, TypeOK, TrialInv, Families,
     BuildStep, NewChain, InsertJump, Ensure6, FlushChain, AcceptPorts, AddVerdict
<1> DEFINE Outside == "v6" \in bins \/ chain'["v6"].verdict = "none"
                      \/ (chain'["v6"] = chain["v6"] /\ jumps'["v6"] = jumps["v6"])
<1>b. pc' \in {"jump", "ensure6", "flush"} \cup Late
  BY Commands DEF Late
<1>c. Outside
  <2>1. CASE pc = "flush"
    BY <1>a, <2>1, Commands, ChainLines
  <2>2. CASE pc = "ensure6" \/ pc = "accept6" \/ pc = "verdict6"
    BY <1>a, <2>2, Commands
  <2>3. CASE pc = "new" \/ pc = "accept4" \/ pc = "verdict4"
    BY <1>a, <2>3, Commands
  <2>4. CASE pc = "jump"
    BY <1>a, <2>4, Commands, JumpAdded
  <2> QED BY <2>1, <2>2, <2>3, <2>4, Commands
<1>1. Open'
  BY <1>z, <1>a, <1>b, <1>c DEF Open, InForce, Late
<1> USE DEF Late
<1>2. CASE pc = "new"
  <2>1. pc' = "jump" /\ chain'["v4"].exists
    BY <1>2, <1>a, Commands, ChainLines
  <2> QED BY <2>1, <1>1 DEF Ladder
<1>3. CASE pc = "jump"
  <2>1. pc' = "ensure6" /\ chain'["v4"].exists /\ jumps'["v4"] > 0
    BY <1>3, <1>a, Commands, JumpAdded DEF Ladder
  <2> QED BY <2>1, <1>1 DEF Ladder
<1>4. CASE pc = "ensure6"
  <2>1. pc' = "flush" /\ chain'["v4"].exists /\ jumps'["v4"] > 0
    BY <1>4, <1>a, Commands, JumpAdded DEF Ladder
  <2>2. "v6" \in bins => chain'["v6"].exists /\ jumps'["v6"] > 0
    BY <1>4, <1>a, Commands, JumpAdded, ChainLines
  <2>3. \A f \in bins : chain'[f].exists /\ jumps'[f] > 0
    BY <1>a, <2>1, <2>2
  <2> QED BY <2>1, <2>3, <1>1, <1>z DEF Ladder
<1>5. CASE pc = "flush"
  <2>1. pc' = "accept4" /\ jumps' = jumps /\ \A f \in bins : chain'[f] = Chain({}, "none")
    BY <1>5, <1>a, Commands, ChainLines DEF Ladder
  <2> QED BY <2>1, <1>1, <1>z, <1>5 DEF Ladder, Empty
<1>6. CASE pc = "accept4"
  <2>1. /\ pc' = "verdict4" /\ jumps' = jumps /\ chain'["v6"] = chain["v6"]
        /\ chain'["v4"] = Chain(Accepted(job.rules), "none")
    BY <1>6, <1>a, Commands, ChainLines DEF Ladder, Empty
  <2> QED BY <2>1, <1>1, <1>z, <1>6 DEF Ladder, Empty, Lined
<1>7. CASE pc = "verdict4"
  <2>1. /\ pc' = "accept6" /\ jumps' = jumps /\ chain'["v6"] = chain["v6"]
        /\ chain'["v4"] = Chain(Accepted(job.rules), LastLine(job.mode))
    BY <1>7, <1>a, Commands, ChainLines DEF Ladder, Lined
  <2> QED BY <2>1, <1>1, <1>z, <1>7 DEF Ladder, Empty, Full
<1>8. CASE pc = "accept6"
  <2>1. /\ pc' = "verdict6" /\ jumps' = jumps /\ chain'["v4"] = chain["v4"]
        /\ "v6" \in bins => chain'["v6"] = Chain(Accepted(job.rules), "none")
    BY <1>8, <1>a, Commands, ChainLines DEF Ladder, Empty
  <2> QED BY <2>1, <1>1, <1>z, <1>8 DEF Ladder, Lined, Full
<1>9. CASE pc = "verdict6"
  <2>1. /\ pc' = "commit" /\ jumps' = jumps /\ chain'["v4"] = chain["v4"]
        /\ "v6" \in bins => chain'["v6"] = Chain(Accepted(job.rules), LastLine(job.mode))
    BY <1>9, <1>a, Commands, ChainLines DEF Ladder, Lined
  <2>2. \A f \in bins : chain'[f] = Chain(Accepted(job.rules), LastLine(job.mode))
    BY <1>9, <1>a, <2>1 DEF Ladder, Full
  <2> QED BY <2>1, <2>2, <1>1, <1>z, <1>9 DEF Ladder, Full
<1> QED BY <1>2, <1>3, <1>4, <1>5, <1>6, <1>7, <1>8, <1>9, Commands

(* The five ways that Apply can begin.                                     *)
LEMMA ApplyCases ==
  ASSUME TypeOK, ApplyAnswer, NEW m, NEW r, m = answer.mode, r = answer.rules
  PROVE  /\ m \in Modes /\ r \in PortSets
         /\ up /\ up' = up /\ pc = "idle" /\ bins' = bins /\ cli' = cli
         /\ UNCHANGED kernelVars /\ late' = late /\ nodeRules' = nodeRules
         /\ seen' = m /\ job' = [op |-> "apply", mode |-> m, rules |-> r]
         /\ \/ /\ "v4" \notin bins /\ pc' = "idle"
               /\ state' = IF m = "off" THEN "off" ELSE "unsupported"
               /\ UNCHANGED <<lastHash, trialVars>>
            \/ /\ "v4" \in bins /\ m = "off" /\ pc' = "del4"
               /\ ForgetTrial(m) /\ UNCHANGED <<state, lastHash>>
            \/ /\ "v4" \in bins /\ RolledBack(m, r) /\ pc' = "idle"
               /\ state' = "rollback" /\ mode' = m /\ UNCHANGED <<lastHash, trialVars>>
            \/ /\ "v4" \in bins /\ m # "off" /\ ~ RolledBack(m, r) /\ pc' = "idle"
               /\ Current(m, r) /\ ForgetTrial(m)
               /\ UNCHANGED <<state, lastHash, mode>>
            \/ /\ "v4" \in bins /\ m # "off" /\ ~ RolledBack(m, r) /\ pc' = "new"
               /\ ForgetTrial(m) /\ UNCHANGED <<state, lastHash, mode>>
<1>1. m \in Modes /\ r \in PortSets
  BY DEF TypeOK, ApplyAnswer, Answers
<1>2. /\ up /\ up' = up /\ pc = "idle" /\ bins' = bins /\ cli' = cli
      /\ UNCHANGED kernelVars /\ late' = late /\ nodeRules' = nodeRules
      /\ seen' = m /\ job' = [op |-> "apply", mode |-> m, rules |-> r]
  BY DEF ApplyAnswer, Apply, nodeVars
<1>3. Unsupported(m, r) => /\ "v4" \notin bins /\ pc' = pc
                           /\ state' = IF m = "off" THEN "off" ELSE "unsupported"
                           /\ UNCHANGED <<lastHash, trialVars>>
  BY Zenon DEF Unsupported
<1>4. AlreadyApplied(m, r) =>
        /\ "v4" \in bins /\ m # "off" /\ ~ RolledBack(m, r) /\ pc' = pc
        /\ Current(m, r) /\ ForgetTrial(m) /\ UNCHANGED <<state, lastHash, mode>>
  BY DEF AlreadyApplied, statusVars
<1>5. StayRolledBack(m, r) =>
        /\ "v4" \in bins /\ RolledBack(m, r) /\ pc' = pc
        /\ state' = "rollback" /\ mode' = m /\ UNCHANGED <<lastHash, trialVars>>
  BY Zenon DEF StayRolledBack
<1>6. TurnOff(m, r) => /\ "v4" \in bins /\ m = "off" /\ pc' = "del4"
                       /\ ForgetTrial(m) /\ UNCHANGED <<state, lastHash>>
  BY DEF TurnOff
<1>7. Rebuild(m, r) =>
        /\ "v4" \in bins /\ m # "off" /\ ~ RolledBack(m, r) /\ pc' = "new"
        /\ ForgetTrial(m) /\ UNCHANGED <<state, lastHash, mode>>
  BY DEF Rebuild, statusVars
<1>8. \/ Unsupported(m, r) \/ TurnOff(m, r) \/ StayRolledBack(m, r)
      \/ AlreadyApplied(m, r) \/ Rebuild(m, r)
  BY DEF ApplyAnswer, Apply
<1> QED BY <1>1, <1>2, <1>3, <1>4, <1>5, <1>6, <1>7, <1>8

LEMMA HashIsInjective ==
  ASSUME NEW m, NEW r, NEW n, NEW q, Hash(m, r) = Hash(n, q)
  PROVE  m = n /\ r = q
BY DEF Hash

LEMMA CurrentMeans ==
  ASSUME NEW m, NEW r, Current(m, r)
  PROVE  Hash(m, r) = lastHash /\ state = m
BY Zenon DEF Current

LEMMA ModesAre ==
  ASSUME NEW m \in Modes
  PROVE  m \in Kept \/ m = "off"
BY DEF Modes, Kept

(* An answer: the chains stand as they are, and an early return is only    *)
(* taken when they are the ones that it asks for.                          *)
LEMMA ToldApply ==
  ASSUME TypeOK, TrialInv, Stages, SshInv, Ladder, Open, Told, ApplyAnswer
  PROVE  Ladder' /\ Open' /\ Told'
<1>m. PICK m, r : m = answer.mode /\ r = answer.rules
  OBVIOUS
<1>a. /\ m \in Modes /\ up /\ up' = up /\ pc = "idle" /\ bins' = bins /\ cli' = cli
      /\ chain' = chain /\ jumps' = jumps /\ seen' = m
      /\ job' = [op |-> "apply", mode |-> m, rules |-> r]
  BY <1>m, ApplyCases DEF kernelVars
<1>b. pc' \in {"idle", "del4", "new"}
  BY <1>m, ApplyCases
<1>1. Ladder'
  BY <1>b DEF Ladder, Late
<1>2. Open'
  BY <1>a, <1>b DEF Open, InForce, Dropping
<1>3. m # "none"
  BY <1>a DEF Modes
<1>4. Dropping' = Dropping
  BY <1>a DEF Dropping, InForce
<1>5. CASE "v4" \notin bins
  <2>1. /\ state' = IF m = "off" THEN "off" ELSE "unsupported"
        /\ rollbackFired' = rollbackFired
    BY <1>m, <1>5, ApplyCases DEF trialVars
  <2>2. ~ Dropping /\ ~ rollbackFired
    BY <1>5 DEF Open, Stages
  <2> QED BY <1>1, <1>2, <1>3, <1>4, <1>a, <2>1, <2>2 DEF Told, Kept
<1>6. CASE pc' = "del4" \/ pc' = "new"
  <2>1. state' = state /\ (rollbackFired' => rollbackFired)
    BY <1>m, <1>a, <1>6, ApplyCases DEF ForgetTrial, trialVars
  <2> QED BY <1>1, <1>2, <1>3, <1>a, <1>6, <2>1 DEF Told
<1>7. CASE "v4" \in bins /\ RolledBack(m, r) /\ pc' = "idle" /\ state' = "rollback"
  <2>1. m = "strict-pending" /\ rollbackFired
    BY <1>7 DEF RolledBack
  <2>2. ~ Dropping
    BY <1>a, <2>1 DEF Told, Kept, Stages
  <2> QED BY <1>1, <1>2, <1>3, <1>4, <1>a, <1>7, <2>1, <2>2 DEF Told, Kept
<1>8. CASE /\ "v4" \in bins /\ m # "off" /\ pc' = "idle"
           /\ Current(m, r) /\ ForgetTrial(m) /\ UNCHANGED <<state, lastHash>>
  <2>1. Hash(m, r) = lastHash /\ state = m /\ m \in Kept
    BY <1>8, <1>a, CurrentMeans, ModesAre
  <2>2. Stands
    BY <2>1, <1>a DEF Told
  <2>3. m = job.mode /\ r = job.rules
    BY <2>1, <2>2, HashIsInjective DEF Stands
  <2>4. job'.mode = job.mode /\ job'.rules = job.rules
    BY <1>a, <2>3
  <2>5. Stands'
    BY <1>a, <1>8, <2>1, <2>2, <2>4 DEF Stands, Full
  <2>6. ~ rollbackFired'
    BY <2>1, <1>8 DEF Told, Kept, ForgetTrial, trialVars
  <2> QED BY <1>1, <1>2, <1>3, <1>a, <1>8, <2>1, <2>5, <2>6 DEF Told, Kept
<1> QED BY <1>m, <1>5, <1>6, <1>7, <1>8, ApplyCases

LEMMA ToldBuild ==
  ASSUME Reliable, TypeOK, TrialInv, Stages, SshInv, Ladder, Open, Told,
         BuildStep, ~ Commit
  PROVE  Ladder' /\ Open' /\ Told'
<1>1. cli = "idle"
  BY DEF SshInv, Stages, BuildStep, NewChain, InsertJump, Ensure6, FlushChain,
     AcceptPorts, AddVerdict
<1>2. Ladder' /\ Open'
  BY <1>1, LadderBuild
<1>3. /\ pc' # "idle" /\ state' = state /\ rollbackFired' = rollbackFired
      /\ seen' = seen
  BY Commands DEF Unbuilt, statusVars, trialVars
<1> QED BY <1>2, <1>3 DEF Told

(* The chains were built to the end, and the call says so.                 *)
LEMMA ToldCommit ==
  ASSUME TypeOK, TrialInv, Stages, SshInv, Ladder, Open, Told, Commit
  PROVE  Ladder' /\ Open' /\ Told'
<1>a. /\ pc = "commit" /\ pc' = "idle" /\ cli' = cli /\ bins' = bins
      /\ chain' = chain /\ jumps' = jumps /\ job' = job /\ seen' = seen
      /\ state' = job.mode /\ lastHash' = Hash(job.mode, job.rules)
  BY DEF Commit, nodeVars, kernelVars
<1>b. job.mode \in Kept /\ seen = job.mode /\ job.mode # "off"
  BY <1>a, ModesAre DEF TypeOK, Jobs, Stages, Disabling, TrialInv
<1>c. "v4" \in bins
  BY <1>a DEF TrialInv
<1>1. Ladder'
  BY <1>a DEF Ladder, Late
<1>2. Open'
  BY <1>a DEF Open, InForce, Dropping
<1>3. \A f \in bins : Full(f) /\ jumps[f] > 0
  BY <1>a DEF Ladder, Late
<1>4. Stands'
  BY <1>a, <1>b, <1>c, <1>3 DEF Stands, Full
<1>5. ~ rollbackFired'
  <2>1. CASE job.mode = "strict-pending"
    BY <2>1 DEF Commit, StartRollback, Stages
  <2>2. CASE job.mode # "strict-pending"
    BY <1>b, <2>2 DEF Commit, trialVars, Stages
  <2> QED BY <2>1, <2>2
<1> QED BY <1>a, <1>b, <1>1, <1>2, <1>4, <1>5 DEF Told, Kept

(* What deleting jumps and flushing a chain does to what is in force, when *)
(* commands do not fail.                                                   *)
LEMMA TakenDown ==
  ASSUME Failing = {}, TypeOK, NEW f \in Families
  PROVE  /\ DeleteJumps(f) /\ UNCHANGED chain =>
              \A g \in Families : ~ InForce(g) => ~ InForce(g)'
         /\ FlushDelete(f) /\ UNCHANGED jumps =>
              /\ ~ InForce(f)'
              /\ \A g \in Families : ~ InForce(g) => ~ InForce(g)'
<1>a. chain \in [Families -> Chains] /\ NoChain.verdict = "none"
  BY DEF TypeOK, NoChain
<1>b. FlushDelete(f) => /\ chain'[f].verdict = "none"
                        /\ \A g \in Families \ {f} : chain'[g] = chain[g]
  BY <1>a, ChainLines DEF FlushDelete
<1>c. /\ jumps \in [Families -> 0 .. JumpCap] /\ JumpCap \in Nat
      /\ Tries \in Nat
  BY FirewallAssumption DEF FirewallAssumption, TypeOK
<1>d. ASSUME DeleteJumps(f), NEW g \in Families, jumps'[g] > 0
      PROVE  jumps[g] > 0
  <2>1. PICK n \in 0 .. Tries : n <= jumps[f] /\ jumps' = [jumps EXCEPT ![f] = @ - n]
    BY <1>d DEF DeleteJumps
  <2>2. jumps[f] \in Nat /\ jumps[g] \in Nat
    BY <1>c
  <2>3. CASE g = f
    BY <1>c, <1>d, <2>1, <2>2, <2>3
  <2>4. CASE g # f
    BY <1>c, <1>d, <2>1, <2>4
  <2> QED BY <2>3, <2>4
<1>1. DeleteJumps(f) /\ UNCHANGED chain =>
        \A g \in Families : ~ InForce(g) => ~ InForce(g)'
  BY <1>d DEF InForce
<1>2. FlushDelete(f) /\ UNCHANGED jumps =>
        /\ ~ InForce(f)'
        /\ \A g \in Families : ~ InForce(g) => ~ InForce(g)'
  BY <1>b DEF InForce
<1> QED BY <1>1, <1>2

(* A call of disableLocked, for Apply("off") or for the callback.          *)
LEMMA ToldDisable ==
  ASSUME Reliable, TypeOK, TrialInv, Stages, SshInv, Ladder, Open, Told, DisableStep
  PROVE  Ladder' /\ Open' /\ Told'
<1>a. /\ Failing = {} /\ "v4" \in Families /\ "v6" \in Families
      /\ \A f \in Families : f = "v4" \/ f = "v6"
  BY DEF Reliable, Families
<1>b. /\ Disabling /\ pc # "idle"
      /\ bins' = bins /\ cli' = cli /\ job' = job /\ seen' = seen
  BY DEF DisableStep, DisableJumps, DisableFlush, DisableJumps6, Disabled,
     Disabling, Unbuilt, nodeVars
<1>c. /\ cli = "idle" /\ "v4" \in bins /\ seen = job.mode
      /\ seen \in Modes /\ seen # "none"
  BY <1>b DEF SshInv, Stages, TrialInv, TypeOK, Jobs, Modes
<1>d. Told /\ pc' # "idle" /\ state' = state /\ rollbackFired' = rollbackFired => Told'
  BY <1>b DEF Told
<1>e. ASSUME \A g \in Families : ~ InForce(g) => ~ InForce(g)',
             pc' \in {"del6", "flush6"} => ~ InForce("v4")'
      PROVE  Open'
  BY <1>b, <1>c, <1>e DEF Open
<1>1. CASE DisableJumps
  <2>1. /\ DeleteJumps("v4") /\ UNCHANGED chain /\ pc' = "flush4"
        /\ state' = state /\ rollbackFired' = rollbackFired
    BY <1>1, <1>a DEF DisableJumps, DeleteJumpFails, statusVars, trialVars
  <2>2. Ladder'
    BY <2>1 DEF Ladder, Late
  <2>3. Open'
    BY <1>a, <1>e, <2>1, TakenDown
  <2> QED BY <1>d, <2>1, <2>2, <2>3
<1>2. CASE DisableFlush
  <2>1. /\ FlushDelete("v4") /\ UNCHANGED jumps /\ pc' = "del6"
        /\ state' = state /\ rollbackFired' = rollbackFired
    BY <1>2 DEF DisableFlush, Goes, Unbuilt, statusVars, trialVars
  <2>2. Ladder'
    BY <2>1 DEF Ladder, Late
  <2>3. Open'
    BY <1>a, <1>e, <2>1, TakenDown
  <2> QED BY <1>d, <2>1, <2>2, <2>3
<1>3. CASE DisableJumps6
  <2>1. /\ DeleteJumps("v6") /\ UNCHANGED chain /\ pc = "del6" /\ pc' = "flush6"
        /\ state' = state /\ rollbackFired' = rollbackFired
    BY <1>3 DEF DisableJumps6, Goes, Unbuilt, statusVars, trialVars
  <2>2. Ladder'
    BY <2>1 DEF Ladder, Late
  <2>3. ~ InForce("v4")
    BY <2>1 DEF Open
  <2>4. Open'
    BY <1>a, <1>e, <2>1, <2>3, TakenDown
  <2> QED BY <1>d, <2>1, <2>2, <2>4
<1>4. CASE Disabled
  <2>1. FlushDelete("v6") /\ UNCHANGED jumps /\ pc = "flush6" /\ pc' = "idle"
    BY <1>4 DEF Disabled
  <2>2. Ladder'
    BY <2>1 DEF Ladder, Late
  <2>3. ~ InForce("v4")
    BY <2>1 DEF Open
  <2>4. ~ InForce("v4")' /\ ~ InForce("v6")' /\ Open'
    BY <1>a, <1>e, <2>1, <2>3, TakenDown
  <2>5. ~ Dropping'
    BY <1>a, <2>4 DEF Dropping
  <2>6. CASE job.op = "apply"
    <3>1. seen = "off"
      BY <1>b, <1>c, <2>6 DEF Stages
    <3>2. state' = "off" /\ rollbackFired' = rollbackFired
      BY <1>4, <2>6 DEF Disabled, OffNow, trialVars
    <3>3. ~ rollbackFired
      BY <3>1 DEF Stages
    <3> QED BY <1>b, <2>1, <2>2, <2>4, <2>5, <3>1, <3>2, <3>3 DEF Told, Kept
  <2>7. CASE job.op # "apply"
    <3>1. seen = "strict-pending"
      BY <1>c, <2>7 DEF TypeOK, Jobs, TrialInv
    <3>2. state' = "rollback"
      BY <1>4, <2>7 DEF Disabled, RolledBackNow
    <3> QED BY <1>b, <2>1, <2>2, <2>4, <2>5, <3>1, <3>2 DEF Told, Kept
  <2> QED BY <2>6, <2>7
<1> QED BY <1>1, <1>2, <1>3, <1>4 DEF DisableStep

(* Time, the callback, the panel and the process.                          *)
LEMMA ToldOther ==
  ASSUME Reliable, TypeOK, TrialInv, Stages, SshInv, Ladder, Open, Told,
         \/ \E m, old \in Modes : PutNode(m, old)
         \/ RulesChange \/ AgentHeartbeat \/ Tick \/ TimerFires
         \/ RollbackCallback \/ Rescue \/ Crash \/ Restart \/ UNCHANGED vars
  PROVE  Ladder' /\ Open' /\ Told'
<1>a. /\ bins' = bins /\ chain' = chain /\ jumps' = jumps
      /\ \A f \in Families : InForce(f)' <=> InForce(f)
      /\ Dropping' <=> Dropping
      /\ "v4" \in Families
  <2>1. bins' = bins /\ chain' = chain /\ jumps' = jumps
    BY DEF PutNode, RulesChange, AgentHeartbeat, Tick, TimerFires,
       RollbackCallback, Rescue, Crash, Restart, vars, nodeVars, kernelVars
  <2> QED BY <2>1 DEF InForce, Dropping, Families
<1>1. CASE /\ UNCHANGED <<pc, job, state, lastHash, rollbackFired, seen>>
           /\ cli' = cli
  <2>1. Ladder'
    BY <1>1, <1>a DEF Ladder, Empty, Lined, Full
  <2>2. Open'
    BY <1>1, <1>a DEF Open
  <2>3. Stands <=> Stands'
    BY <1>1, <1>a DEF Stands, Full
  <2> QED BY <1>1, <1>a, <2>1, <2>2, <2>3 DEF Told
<1>2. CASE (\E m, old \in Modes : PutNode(m, old)) \/ RulesChange \/ AgentHeartbeat
           \/ Tick \/ TimerFires \/ Restart \/ UNCHANGED vars
  <2>1. UNCHANGED <<pc, job, state, lastHash, rollbackFired, seen, cli>>
    BY <1>2 DEF PutNode, RulesChange, AgentHeartbeat, Tick, TimerFires, Restart,
       vars, statusVars, trialVars
  <2> QED BY <1>1, <2>1
<1>3. CASE RollbackCallback
  <2>1. /\ UNCHANGED <<state, lastHash, rollbackFired, seen, cli>>
        /\ pc' = "del4" \/ UNCHANGED <<pc, job>>
    BY <1>3 DEF RollbackCallback, statusVars, trialVars
  <2>2. CASE pc' = "del4"
    <3>1. Ladder' /\ Told'
      BY <2>1, <2>2 DEF Ladder, Late, Told
    <3> QED BY <1>a, <2>1, <2>2, <3>1 DEF Open
  <2> QED BY <1>1, <2>1, <2>2
<1>4. CASE Rescue
  <2>1. UNCHANGED <<pc, job, state, lastHash, rollbackFired, seen>> /\ cli' = "del4"
    BY <1>4 DEF Rescue, statusVars, trialVars
  <2>2. Ladder'
    BY <1>a, <2>1 DEF Ladder, Empty, Lined, Full
  <2>3. Open'
    BY <1>a, <2>1 DEF Open
  <2>4. Stands <=> Stands'
    BY <1>a, <2>1 DEF Stands, Full
  <2> QED BY <1>a, <2>1, <2>2, <2>3, <2>4 DEF Told
<1>5. CASE Crash
  <2>1. /\ pc' = "idle" /\ seen' = "none" /\ cli' = cli
        /\ rollbackFired' = FALSE /\ state' \in {"off", "unsupported"}
    BY <1>5 DEF Crash, FreshManager
  <2>2. Ladder' /\ Told'
    BY <2>1 DEF Ladder, Late, Told, Kept
  <2> QED BY <1>a, <2>1, <2>2 DEF Open
<1> QED BY <1>2, <1>3, <1>4, <1>5

(* The rescue process runs while no agent does.                            *)
LEMMA ToldRescue ==
  ASSUME Reliable, TypeOK, TrialInv, Stages, SshInv, Ladder, Open, Told, RescueStep
  PROVE  /\ Ladder' /\ Open' /\ Told'
         /\ cli = "flush6" => ~ Dropping'
<1>a. /\ Failing = {} /\ "v4" \in Families /\ "v6" \in Families
      /\ \A f \in Families : f = "v4" \/ f = "v6"
  BY DEF Reliable, Families
<1>b. /\ cli # "idle" /\ bins' = bins /\ seen' = seen /\ pc' = pc
      /\ state' = state /\ rollbackFired' = rollbackFired
  BY DEF RescueStep, nodeVars, statusVars, trialVars
<1>c. pc = "idle" /\ seen = "none" /\ state \notin Kept
  BY <1>b DEF SshInv, Stages, Told, Kept
<1>1. Ladder' /\ Told'
  BY <1>b, <1>c DEF Ladder, Late, Told
<1>2. /\ cli = "del4" => DeleteJumps("v4") /\ UNCHANGED chain /\ cli' = "flush4"
      /\ cli = "flush4" => FlushDelete("v4") /\ UNCHANGED jumps /\ cli' = "del6"
      /\ cli = "del6" => DeleteJumps("v6") /\ UNCHANGED chain /\ cli' = "flush6"
      /\ cli = "flush6" => FlushDelete("v6") /\ UNCHANGED jumps /\ cli' = "idle"
      /\ cli \in {"del4", "flush4", "del6", "flush6"}
  BY <1>a, <1>b DEF RescueStep, DeleteJumpFails
<1>3. \A g \in Families : ~ InForce(g) => ~ InForce(g)'
  BY <1>a, <1>2, TakenDown
<1>4. cli' \in {"del6", "flush6"} => ~ InForce("v4")'
  BY <1>a, <1>2, <1>3, TakenDown DEF Open
<1>5. Dropping' => Dropping
  BY <1>3 DEF Dropping
<1>6. Open'
  BY <1>b, <1>c, <1>3, <1>4, <1>5 DEF Open
<1>7. cli = "flush6" => ~ InForce("v4")' /\ ~ InForce("v6")'
  BY <1>a, <1>2, <1>3, TakenDown DEF Open
<1>8. cli = "flush6" => ~ Dropping'
  BY <1>a, <1>7 DEF Dropping
<1> QED BY <1>1, <1>6, <1>8

LEMMA InitTold == Init => Ladder /\ Open /\ Told
<1>1. Init => /\ pc = "idle" /\ cli = "idle" /\ seen = "none"
              /\ rollbackFired = FALSE
              /\ jumps = [f \in Families |-> 0]
  BY Zenon DEF Init
<1>2. Init => state \in {"off", "unsupported"}
  BY DEF Init
<1>3. Init => (\A f \in Families : ~ InForce(f)) /\ ~ Dropping
  BY <1>1 DEF InForce, Dropping
<1> QED BY <1>1, <1>2, <1>3 DEF Ladder, Late, Open, Told, Kept

LEMMA ToldStep ==
  ASSUME Reliable, TypeOK, TrialInv, Stages, SshInv, Ladder, Open, Told, [Next]_vars
  PROVE  Ladder' /\ Open' /\ Told'
BY ToldApply, ToldBuild, ToldCommit, ToldDisable, ToldOther, ToldRescue
   DEF Next, BuildStep

LEMMA ToldAlways ==
  Reliable => (Spec => [](/\ TypeOK /\ TrialInv /\ Stages /\ SshInv
                          /\ Ladder /\ Open /\ Told))
<1> SUFFICES ASSUME Reliable
             PROVE  Spec => [](/\ TypeOK /\ TrialInv /\ Stages /\ SshInv
                               /\ Ladder /\ Open /\ Told)
  OBVIOUS
<1>1. TypeOK /\ SshInv /\ [Next]_vars => SshInv'
  BY SshStep DEF Reliable
<1>2. TypeOK /\ TrialInv /\ Stages /\ SshInv /\ Ladder /\ Open /\ Told /\ [Next]_vars
        => Ladder' /\ Open' /\ Told'
  BY ToldStep
<1> QED BY <1>1, <1>2, InitSsh, InitTold, Calls, PTL DEF Spec

(* After a rollback nothing is dropped, whatever the panel edits and       *)
(* wherever the agent dies, as long as the commands work.                  *)
THEOREM RollbackOpens == Reliable => (Spec => []RolledBackOpen)
<1> SUFFICES ASSUME Reliable PROVE Spec => []RolledBackOpen
  OBVIOUS
<1>1. Told => RolledBackOpen
  BY DEF Told, Kept, RolledBackOpen, Trying
<1> QED BY <1>1, ToldAlways, PTL

(* What the agent reports, and the console's badge, is what the kernel     *)
(* does: under edits, crashes, rollbacks and rescues, as long as the       *)
(* commands work.                                                          *)
THEOREM StatusIsTruthful == Reliable => (Spec => []StatusTruthful)
<1> SUFFICES ASSUME Reliable PROVE Spec => []StatusTruthful
  OBVIOUS
<1>1. ASSUME TypeOK, SshInv, Open, Told
      PROVE  StatusTruthful
  <2> SUFFICES ASSUME up, pc = "idle", seen # "none"
               PROVE  /\ state \in {"loose", "strict", "strict-pending"} =>
                           /\ state = seen /\ state = job.mode
                           /\ \A f \in bins :
                                /\ jumps[f] > 0
                                /\ chain[f] = [exists |-> TRUE,
                                               accepts |-> job.rules \cup {SSH},
                                               verdict |-> IF state = "loose" THEN "RETURN"
                                                           ELSE "DROP"]
                      /\ state \in {"off", "rollback", "unsupported"} =>
                           ~ Dropping /\ (state = "off" <=> seen = "off")
                      /\ LET badge == firewallStatus(nodeMode, state) IN
                         nodeMode = seen =>
                           /\ badge = "strict" =>
                                "v4" \in bins /\ \A f \in bins :
                                  InForce(f) /\ SSH \in chain[f].accepts
                           /\ badge \in {"unmanaged", "loose", "unsupported"} => ~ Dropping
    BY DEF StatusTruthful
  <2>1. /\ state \in Kept => Stands
        /\ state \notin Kept => ~ Dropping /\ (state = "off" <=> seen = "off")
        /\ state # "error" /\ bins \subseteq Families
    BY <1>1, FirewallAssumption DEF FirewallAssumption, Told, TypeOK
  <2>2. state \in Kept => \A f \in bins :
          /\ jumps[f] > 0
          /\ chain[f] = [exists |-> TRUE, accepts |-> job.rules \cup {SSH},
                         verdict |-> IF state = "loose" THEN "RETURN" ELSE "DROP"]
    BY <2>1 DEF Stands, Full, Chain, Accepted, LastLine, Kept
  <2>3. state \in {"off", "rollback", "unsupported"} => state \notin Kept
    BY DEF Kept
  <2>4. state = "loose" => ~ Dropping
    <3>1. state = "loose" => \A f \in bins : ~ InForce(f)
      BY <2>2 DEF Kept, InForce
    <3> QED BY <1>1, <3>1 DEF Open, Dropping
  <2>5. state \in {"strict", "strict-pending"} => \A f \in bins :
          InForce(f) /\ SSH \in chain[f].accepts
    BY <2>2 DEF Kept, InForce
  <2>6. ASSUME nodeMode = seen, firewallStatus(nodeMode, state) = "strict"
        PROVE  "v4" \in bins /\ \A f \in bins : InForce(f) /\ SSH \in chain[f].accepts
    <3>1. seen = "strict" /\ state \notin {"strict-pending", "rollback", "unsupported"}
      BY <1>1, <2>6 DEF TypeOK, Modes, firewallStatus
    <3>2. state = "strict"
      BY <1>1, <2>1, <3>1 DEF TypeOK, States, Modes, Kept, Stands
    <3> QED BY <2>1, <2>5, <3>2 DEF Kept, Stands
  <2>7. ASSUME nodeMode = seen,
               firewallStatus(nodeMode, state) \in {"unmanaged", "loose", "unsupported"}
        PROVE  ~ Dropping
    <3>1. seen \in {"off", "loose"} \/ state = "unsupported"
      BY <1>1, <2>7 DEF TypeOK, Modes, firewallStatus
    <3> QED BY <2>1, <2>4, <3>1 DEF Kept, Stands
  <2> QED BY <2>1, <2>2, <2>3, <2>6, <2>7 DEF Kept, Stands
<1> QED BY <1>1, ToldAlways, PTL

(* The rescue command opens the node, whatever the agent left behind.      *)
THEOREM RescueIsEffective == Reliable => (Spec => RescueOpens)
<1> SUFFICES ASSUME Reliable PROVE Spec => RescueOpens
  OBVIOUS
<1>1. ASSUME TypeOK, TrialInv, Stages, SshInv, Ladder, Open, Told, [Next]_vars,
             cli = "flush6", cli' = "idle"
      PROVE  ~ Dropping'
  <2>1. CASE RescueStep
    BY <1>1, <2>1, ToldRescue
  <2>2. CASE ~ RescueStep
    <3>1. cli' = cli \/ cli = "idle"
      BY <1>1, <2>2 DEF Next, vars, PutNode, RulesChange, AgentHeartbeat,
         ApplyAnswer, BuildStep, NewChain, InsertJump, Ensure6, FlushChain,
         AcceptPorts, AddVerdict, Commit, Unbuilt, DisableStep, DisableJumps,
         DisableFlush, DisableJumps6, Disabled, Tick, TimerFires,
         RollbackCallback, Rescue, Crash, Restart
    <3> QED BY <1>1, <3>1
  <2> QED BY <2>1, <2>2
<1>2. TypeOK /\ TrialInv /\ Stages /\ SshInv /\ Ladder /\ Open /\ Told /\ [Next]_vars
        => [cli = "flush6" /\ cli' = "idle" => ~ Dropping']_vars
  BY <1>1
<1> QED BY <1>2, ToldAlways, PTL DEF Spec, RescueOpens

-----------------------------------------------------------------------------

(* Every step keeps Noted, whatever fails or interferes.                   *)
LEMMA NotedStep ==
  ASSUME Noted, [Next]_vars
  PROVE  Noted'
<1> USE DEF Noted
<1>1. CASE ApplyAnswer
  BY <1>1, Zenon DEF ApplyAnswer, Apply, Unsupported, TurnOff, StayRolledBack,
     AlreadyApplied, Rebuild, statusVars
<1>2. CASE Commit
  <2>1. state' = job.mode /\ (job.mode = "strict-pending" => lastErr' = "pending")
    BY <1>2, Zenon DEF Commit
  <2> QED BY <2>1, Zenon
<1>3. CASE BuildStep /\ ~ Commit
  <2>1. UNCHANGED statusVars \/ state' = "error"
    BY <1>3 DEF BuildStep, NewChain, InsertJump, Ensure6, FlushChain, AcceptPorts,
       AddVerdict, Goes, ApplyFails
  <2> QED BY <2>1, Zenon DEF statusVars
<1>4. CASE DisableStep
  <2>1. UNCHANGED statusVars \/ state' \in {"error", "rollback", "off"}
    BY <1>4, Zenon DEF DisableStep, DisableJumps, DisableFlush, DisableJumps6,
       Disabled, Goes, ApplyFails, OffNow, RolledBackNow
  <2> QED BY <2>1, Zenon DEF statusVars
<1>5. CASE Crash
  BY <1>5, Zenon DEF Crash, FreshManager
<1>6. CASE UNCHANGED statusVars
  BY <1>6, Zenon DEF statusVars
<1>7. (\E m, old \in Modes : PutNode(m, old)) \/ RulesChange \/ AgentHeartbeat \/ Tick
      \/ TimerFires \/ RollbackCallback \/ Rescue \/ RescueStep \/ Restart
      \/ UNCHANGED vars => UNCHANGED statusVars
  BY DEF PutNode, RulesChange, AgentHeartbeat, Tick, TimerFires, RollbackCallback,
     Rescue, RescueStep, Restart, vars
<1> QED BY <1>1, <1>2, <1>3, <1>4, <1>5, <1>6, <1>7 DEF Next

(* A chain on trial is never taken for one that was applied.               *)
LEMMA NotedMeans ==
  ASSUME Noted, NEW m, NEW r, Current(m, r)
  PROVE  m # "strict-pending"
BY Zenon DEF Noted, Current

(* An answer for the chain on trial leaves its timer alone; any other      *)
(* answer ends the trial.                                                  *)
LEMMA WatchedApply ==
  ASSUME TypeOK, TrialInv, Stages, OneTrial, Noted, Watched, ApplyAnswer
  PROVE  Watched'
<1>m. PICK m, r : m = answer.mode /\ r = answer.rules
  OBVIOUS
<1>a. /\ up /\ pc = "idle" /\ bins' = bins /\ late' = late /\ seen' = m
      /\ job' = [op |-> "apply", mode |-> m, rules |-> r] /\ Trial' = Trial
  BY <1>m, ApplyCases DEF Trial, Hash
<1>1. CASE m = "strict-pending"
  <2>1. UNCHANGED trialVars
    BY <1>m, <1>1, ApplyCases DEF ForgetTrial
  <2>2. "v4" \in bins => mode' = mode \/ mode' = "strict-pending"
    BY <1>m, <1>1, ApplyCases
  <2>3. "v4" \in bins /\ pc' = "idle" => rollbackFired
    BY <1>m, <1>1, ApplyCases, NotedMeans DEF RolledBack
  <2>4. rollbackActive => "v4" \in bins
    BY DEF TrialInv
  <2>5. Pending(Trial)' <=> Pending(Trial)
    BY <1>a, <2>1 DEF Pending, trialVars
  <2> QED BY <1>a, <2>1, <2>2, <2>3, <2>4, <2>5 DEF Watched, trialVars
<1>2. CASE m # "strict-pending"
  <2>1. rollbackActive' = FALSE \/ ~ rollbackActive'
    BY <1>m, <1>2, ApplyCases DEF ForgetTrial, NoTrial, trialVars, RolledBack,
       TrialInv
  <2> QED BY <1>a, <1>2, <2>1 DEF Watched
<1> QED BY <1>1, <1>2

(* The end of a call for the chain on trial arms the timer, or leaves the  *)
(* one that runs.                                                          *)
LEMMA WatchedCommit ==
  ASSUME TypeOK, TrialInv, Stages, OneTrial, Watched, Commit
  PROVE  Watched'
<1>a. /\ pc = "commit" /\ pc' = "idle" /\ job.op = "apply" /\ job' = job
      /\ seen = job.mode /\ seen' = seen /\ bins' = bins /\ late' = late
      /\ Trial' = Trial
  BY DEF Commit, Stages, Disabling, TrialInv, nodeVars, Trial, Hash
<1>1. CASE job.mode = "strict-pending"
  <2>1. Hash(job.mode, job.rules) = Trial
    BY <1>a, <1>1 DEF OneTrial, Trial
  <2>2. pendingHash' = Trial /\ mode' = "strict-pending"
    BY <1>1, <2>1 DEF Commit
  <2>3. CASE rollbackActive
    <3>1. timer' = timer /\ Pending(Trial)
      BY <1>1, <1>a, <2>1, <2>2, <2>3 DEF Commit, StartRollback, Watched
    <3>2. Pending(Trial)'
      BY <1>a, <3>1 DEF Pending
    <3>3. rollbackActive' = rollbackActive
      BY <1>1, <2>1, <2>2, <2>3 DEF Commit, StartRollback
    <3> QED BY <1>a, <2>2, <2>3, <3>2, <3>3 DEF Watched
  <2>4. CASE ~ rollbackActive
    <3>1. timer' = [hash |-> Trial, left |-> Window] /\ rollbackActive' = TRUE
      BY <1>1, <2>1, <2>4 DEF Commit, StartRollback
    <3>2. timer' # NoTimer /\ timer'.hash = Trial
      BY <3>1, FirewallAssumption DEF FirewallAssumption, NoTimer
    <3>3. Pending(Trial)'
      BY <1>a, <3>2 DEF Pending
    <3> QED BY <2>2, <3>1, <3>3 DEF Watched
  <2> QED BY <2>3, <2>4
<1>2. CASE job.mode # "strict-pending"
  <2>1. rollbackActive' = rollbackActive /\ ~ rollbackActive
    BY <1>2, <1>a DEF TrialInv, Commit, trialVars
  <2> QED BY <1>2, <1>a, <2>1 DEF Watched
<1> QED BY <1>1, <1>2

(* Time passes, the timer fires, and its callback gets the lock.           *)
LEMMA WatchedTimer ==
  ASSUME TypeOK, TrialInv, Stages, OneTrial, Watched,
         Tick \/ TimerFires \/ RollbackCallback
  PROVE  Watched'
<1>a. /\ Trial' = Trial /\ seen' = seen /\ up' = up /\ bins' = bins /\ mode' = mode
      /\ rollbackActive' = rollbackActive /\ rollbackFired' = rollbackFired
      /\ pendingHash' = pendingHash
  BY DEF Tick, TimerFires, RollbackCallback, trialVars, statusVars, nodeVars, Trial, Hash
<1>1. CASE Tick \/ TimerFires
  <2>1. UNCHANGED <<pc, job>>
    BY <1>1 DEF Tick, TimerFires
  <2>2. Pending(Trial) => Pending(Trial)'
    <3>1. CASE Tick
      <4>1. timer'.hash = timer.hash /\ late' = late
        BY <3>1 DEF Tick, TypeOK, Timers
      <4>2. Trial # NoTimer.hash
        BY Zenon DEF Trial, Hash, NoTimer, NoHash
      <4> QED BY <1>a, <4>1, <4>2 DEF Pending
    <3>2. CASE TimerFires
      BY <1>a, <3>2 DEF TimerFires, Pending
    <3> QED BY <1>1, <3>1, <3>2
  <2> QED BY <1>a, <2>1, <2>2 DEF Watched
<1>2. CASE RollbackCallback
  <2>1. pc = "idle" /\ timer' = timer
    BY <1>2 DEF RollbackCallback, trialVars
  <2>2. PICK h \in late :
          /\ late' = late \ {h}
          /\ IF TrialOf(h)
             THEN /\ pc' = "del4"
                  /\ job' = [op |-> "rollback", mode |-> "strict-pending",
                             rules |-> job.rules]
             ELSE UNCHANGED <<pc, job>>
    BY <1>2 DEF RollbackCallback
  <2>3. CASE TrialOf(h)
    BY <2>2, <2>3 DEF Watched
  <2>4. CASE ~ TrialOf(h)
    <3>1. rollbackActive => h # Trial
      BY <2>1, <2>4 DEF TrialOf, Watched, OneTrial
    <3>2. rollbackActive => Pending(Trial)'
      BY <1>a, <2>1, <2>2, <3>1 DEF Watched, Pending
    <3> QED BY <1>a, <2>1, <2>2, <2>4, <3>2 DEF Watched
  <2> QED BY <2>3, <2>4
<1> QED BY <1>1, <1>2

LEMMA WatchedStep ==
  ASSUME Reliable, EditsWhen = "never", TypeOK, TrialInv, Stages, OneTrial, Ladder, Noted,
         Watched, [Next]_vars
  PROVE  Watched'
<1>a. job.op \in {"apply", "rollback"}
  BY DEF TypeOK, Jobs
<1>b. nodeRules' = nodeRules => Trial' = Trial
  BY DEF Trial, Hash
<1>c. bins' = bins
  BY HostFixed
<1>1. CASE BuildStep /\ ~ Commit
  <2>1. /\ Unbuilt /\ UNCHANGED statusVars /\ pc' # "idle"
    BY <1>1, Commands
  <2>2. pc # "idle" /\ ~ Disabling
    BY <1>1 DEF BuildStep, NewChain, InsertJump, Ensure6, FlushChain, AcceptPorts,
       AddVerdict, Disabling
  <2>3. job.op = "apply"
    BY <2>2 DEF Stages
  <2> QED BY <1>b, <2>1, <2>3 DEF Watched, Pending, Unbuilt, statusVars, trialVars,
             nodeVars
<1>2. CASE DisableStep
  <2>1. pc # "idle" /\ Disabling /\ job' = job /\ seen' = seen /\ seen = job.mode
    BY <1>2 DEF DisableStep, DisableJumps, DisableFlush, DisableJumps6, Disabled,
       Disabling, Unbuilt, TrialInv
  <2>2. CASE job.op = "apply"
    <3>1. seen = "off" /\ ~ rollbackActive
      BY <2>1, <2>2 DEF Stages, TrialInv
    <3>2. rollbackActive' = rollbackActive
      BY <1>2, <2>2 DEF DisableStep, DisableJumps, DisableFlush, DisableJumps6,
         Disabled, OffNow, Unbuilt, trialVars
    <3> QED BY <2>1, <3>1, <3>2 DEF Watched
  <2>3. CASE job.op = "rollback"
    <3>1. pc' # "idle" \/ (rollbackActive' = FALSE /\ rollbackFired' = TRUE)
      BY <1>2, <2>3 DEF DisableStep, DisableJumps, DisableFlush, DisableJumps6,
         Disabled, RolledBackNow, Goes
    <3> QED BY <2>1, <2>3, <3>1 DEF Watched
  <2> QED BY <1>a, <2>2, <2>3
<1>3. CASE Crash
  BY <1>3 DEF Crash, FreshManager, Watched
<1>4. CASE Restart
  BY <1>4 DEF Restart, Watched, Stages, TrialInv, trialVars
<1>5. CASE (\E m, old \in Modes : PutNode(m, old)) \/ RulesChange \/ AgentHeartbeat \/ Rescue
           \/ RescueStep \/ UNCHANGED vars
  <2>1. /\ UNCHANGED <<nodeRules, up, pc, job, mode, late, seen>>
        /\ UNCHANGED trialVars
    BY <1>5 DEF PutNode, RulesChange, EditsAllowed, AgentHeartbeat, Rescue, RescueStep, vars,
       nodeVars, statusVars
  <2> QED BY <1>b, <1>c, <2>1 DEF Watched, Pending, trialVars
<1> QED BY <1>1, <1>2, <1>3, <1>4, <1>5, WatchedApply, WatchedCommit, WatchedTimer
       DEF Next, BuildStep

(* An unconfirmed strict chain is never left without a callback that will  *)
(* take it down: across confirmations, rollbacks, late callbacks, crashes  *)
(* and rescues, while the rule set stays and the commands work.            *)
THEOREM TrialIsGuarded ==
  Reliable /\ EditsWhen = "never" => (Spec => []TrialGuarded)
<1> SUFFICES ASSUME Reliable, EditsWhen = "never" PROVE Spec => []TrialGuarded
  OBVIOUS
<1>1. Init => Noted /\ Watched
  <2>1. Init => rollbackActive = FALSE /\ seen = "none"
    BY Zenon DEF Init
  <2>2. Init => state \in {"off", "unsupported"}
    BY DEF Init
  <2> QED BY <2>1, <2>2, Zenon DEF Noted, Watched
<1>2. Noted /\ [Next]_vars => Noted'
  BY NotedStep
<1>3. TypeOK /\ TrialInv /\ Stages /\ OneTrial /\ [Next]_vars => OneTrial'
  BY OneTrialStep
<1>4. TypeOK /\ TrialInv /\ Stages /\ OneTrial /\ Ladder /\ Noted /\ Watched /\ [Next]_vars
        => Watched'
  BY WatchedStep
<1>5. Open /\ Told /\ OneTrial /\ Watched => TrialGuarded
  <2>1. ASSUME Open, Told, OneTrial, Watched, Trying, Dropping
        PROVE  \E h \in late \cup (IF timer = NoTimer THEN {} ELSE {timer.hash}) :
                 TrialOf(h)
    <3>1. ~ rollbackFired /\ "v4" \in bins
      BY <2>1 DEF Open, Told, Kept, Trying
    <3>2. TrialOf(Trial) /\ Pending(Trial)
      BY <2>1, <3>1 DEF Watched, OneTrial, Trying, TrialOf
    <3> QED BY <3>2 DEF Pending
  <2> QED BY <2>1 DEF TrialGuarded
<1> QED BY <1>1, <1>2, <1>3, <1>4, <1>5, InitOneTrial, ToldAlways, PTL DEF Spec
=============================================================================
