------------------------------ MODULE Exchange ------------------------------
(***************************************************************************)
(* What agent and panel exchange beside rules: the registration with a     *)
(* one-time token, and the connectivity tests that users ask for, which    *)
(* the panel hands out in answers to heartbeats and whose results come     *)
(* back with later heartbeats (internal/agent/agent.go, the handlers and   *)
(* the store of internal/panel).                                           *)
(*                                                                         *)
(* A request may fail at every point: before the panel has it, between two *)
(* steps of its handler, or after the handler has answered; and the agent  *)
(* may give up on it while the handler goes on.                            *)
(***************************************************************************)
EXTENDS Integers, FiniteSets

CONSTANTS
  MaxTests,    \* bound: how many tests are asked for
  Outcomes,    \* what RunConnectivityTest may return: "success", "failed"
  Batch,       \* at most so many tests in one answer
  Tokens,      \* the registration tokens that the operator creates
  NodeIds,     \* what RandomID may return for a node
  Slots,       \* bound: requests under way at once, late ones included
  MaxFaults,   \* bound: lost requests and answers, timeouts, failures, crashes
  WritesFail,  \* may the write of a test fail?
  None

Tests == 1 .. MaxTests   \* in the order of their creation

ASSUME ExchangeAssumption ==
  /\ MaxTests \in Nat /\ Batch \in Nat /\ MaxFaults \in Nat
  /\ None \notin Tokens \cup NodeIds \cup Slots \cup Outcomes
  /\ Outcomes \cap {"absent", "queued", "running", "gone"} = {}
  /\ Tokens # {}
  /\ WritesFail \in BOOLEAN

VARIABLES
  \* the panel
  used,      \* used_count of a token
  origin,    \* the token a node was registered with, or None
  nodes,     \* the rows of nodes
  at,        \* the node of a test
  shown,     \* the status of a test
  \* the agent
  proc,      \* where the process is: see Agent.Run
  token,     \* the token on its command line
  id,        \* cfg.NodeID
  saved,     \* the node id in agent.json
  cur,       \* the request it waits for
  work,      \* runConnectivityTests: what each goroutine has left to do
  results,   \* testResults
  found,     \* history: what a test found
  \* between them
  call,      \* the requests under way
  faults

panel   == <<used, origin, nodes, at, shown>>
agent   == <<proc, token, id, saved, cur, work, results, found>>
vars    == <<panel, agent, call, faults>>

Stages == {"free", "sent", "consumed", "checked", "kept", "updated",
           "answered", "refused"}

(* A registration names a token; a heartbeat names a node and brings       *)
(* results. The answer is a node, or tests.                                *)
Calls == [stage : Stages, token : Tokens \cup {None}, node : NodeIds \cup {None},
          results : SUBSET Tests, answer : SUBSET Tests]

Free == [stage |-> "free", token |-> None, node |-> None,
         results |-> {}, answer |-> {}]

TypeOK ==
  /\ used \in [Tokens -> {0, 1}]
  /\ origin \in [NodeIds -> Tokens \cup {None}]
  /\ nodes \in SUBSET NodeIds
  /\ at \in [Tests -> NodeIds \cup {None}]
  /\ shown \in [Tests -> Outcomes \cup {"absent", "queued", "running", "gone"}]
  /\ proc \in {"down", "start", "asking", "saving", "writing", "idle", "waiting"}
  /\ token \in Tokens
  /\ id \in NodeIds \cup {None} /\ saved \in NodeIds \cup {None}
  /\ cur \in Slots \cup {None}
  /\ work \in SUBSET (SUBSET Tests)
  /\ results \in SUBSET Tests
  /\ found \in [Tests -> Outcomes \cup {None}]
  /\ call \in [Slots -> Calls]
  /\ faults \in 0 .. MaxFaults

Init ==
  /\ used = [k \in Tokens |-> 0]
  /\ origin = [n \in NodeIds |-> None]
  /\ nodes = {}
  /\ at = [t \in Tests |-> None]
  /\ shown = [t \in Tests |-> "absent"]
  /\ proc = "down" /\ token \in Tokens
  /\ id = None /\ saved = None /\ cur = None
  /\ work = {} /\ results = {}
  /\ found = [t \in Tests |-> None]
  /\ call = [s \in Slots |-> Free]
  /\ faults = 0

Fault == faults < MaxFaults /\ faults' = faults + 1

-----------------------------------------------------------------------------
(* The agent.                                                              *)

(* systemd starts the process, which reads agent.json.                     *)
Start ==
  /\ proc = "down"
  /\ proc' = "start" /\ id' = saved
  /\ UNCHANGED <<panel, token, saved, cur, work, results, found, call, faults>>

Send(s, request) ==
  /\ call[s] = Free
  /\ call' = [call EXCEPT ![s] = request]
  /\ cur' = s

Register(s) ==
  /\ proc = "start" /\ id = None
  /\ Send(s, [Free EXCEPT !.stage = "sent", !.token = token])
  /\ proc' = "asking"
  /\ UNCHANGED <<panel, token, id, saved, work, results, found, faults>>

(* The answer has come, and with it the end of the request.                *)
Over(stage) ==
  /\ cur # None /\ call[cur].stage = stage
  /\ call' = [call EXCEPT ![cur] = Free]
  /\ cur' = None

Registered ==
  /\ proc = "asking" /\ Over("answered")
  /\ proc' = "saving" /\ id' = call[cur].node
  /\ UNCHANGED <<panel, token, saved, work, results, found, faults>>

(* main ends the process when Run returns an error.                        *)
RegisterFails ==
  /\ proc = "asking" /\ Over("refused")
  /\ proc' = "down"
  /\ UNCHANGED <<panel, token, id, saved, work, results, found, faults>>

Saving == proc = "saving" \/ (proc = "start" /\ id # None)

(* SaveConfig empties agent.json before it writes it; main goes on without *)
(* a file that LoadConfig cannot read.                                     *)
OpenConfig ==
  /\ Saving
  /\ saved' = None /\ proc' = "writing"
  /\ UNCHANGED <<panel, token, id, cur, work, results, found, call, faults>>

WriteConfig ==
  /\ proc = "writing"
  /\ saved' = id /\ proc' = "idle"
  /\ UNCHANGED <<panel, token, id, cur, work, results, found, call, faults>>

(* Run returns the error.                                                  *)
SaveConfigFails ==
  /\ Fault
  /\ Saving \/ proc = "writing"
  /\ proc' = "down"
  /\ UNCHANGED <<panel, token, id, saved, cur, work, results, found, call>>

(* Mutant: the list is cleared before it is copied.                        *)
ClearedFirst == {}

Drained == results

Heartbeat(s) ==
  /\ proc = "idle"
  /\ Send(s, [Free EXCEPT !.stage = "sent", !.node = id, !.results = Drained])
  /\ proc' = "waiting" /\ results' = {}
  /\ UNCHANGED <<panel, token, id, saved, work, found, faults>>

(* A goroutine for the tests of an answer, if there are any.               *)
Goroutine(S) == {S} \ {{}}

HeartbeatOver ==
  /\ proc = "waiting" /\ Over("answered")
  /\ proc' = "idle"
  /\ work' = work \cup Goroutine(call[cur].answer)
  /\ UNCHANGED <<panel, token, id, saved, results, found, faults>>

(* The results it carried are not put back.                                *)
HeartbeatFails ==
  /\ proc = "waiting" /\ Over("refused")
  /\ proc' = "idle"
  /\ UNCHANGED <<panel, token, id, saved, work, results, found, faults>>

(* The timeout of the HTTP client: the handler does not know of it.        *)
GiveUp ==
  /\ Fault
  /\ proc \in {"asking", "waiting"}
  /\ proc' = IF proc = "asking" THEN "down" ELSE "idle"
  /\ cur' = None
  /\ UNCHANGED <<panel, token, id, saved, work, results, found, call>>

(* A goroutine performs its tests one by one, and appends each result.     *)
Perform(b) ==
  /\ b \in work
  /\ \E t \in b, o \in Outcomes :
       /\ \A u \in b : t <= u
       /\ found' = [found EXCEPT ![t] = o]
       /\ results' = results \cup {t}
       /\ work' = (work \ {b}) \cup Goroutine(b \ {t})
  /\ UNCHANGED <<panel, proc, token, id, saved, cur, call, faults>>

(* Goroutines and results are only in memory.                              *)
Crash ==
  /\ Fault
  /\ proc # "down"
  /\ proc' = "down" /\ id' = None /\ cur' = None
  /\ work' = {} /\ results' = {}
  /\ UNCHANGED <<panel, token, saved, found, call>>

-----------------------------------------------------------------------------
(* The panel: the steps of a handler between which it releases store.mu.   *)

Advance(s, stage) == call' = [call EXCEPT ![s].stage = stage]

(* Mutants: one use too many; one too few.                                 *)
UsableAgain(k) == used[k] <= 1
NeverUsable(k) == used[k] + 1 < 1

(* ConsumeNodeToken: MaxUses is one.                                       *)
Usable(k) == used[k] < 1

(* Mutant: the use is not written back.                                    *)
ConsumeUncounted(s) ==
  /\ call[s].stage = "sent" /\ call[s].token # None
  /\ Advance(s, IF Usable(call[s].token) THEN "consumed" ELSE "refused")
  /\ UNCHANGED <<panel, agent, faults>>

Consume(s) ==
  /\ call[s].stage = "sent" /\ call[s].token # None
  /\ IF Usable(call[s].token)
     THEN used' = [used EXCEPT ![call[s].token] = @ + 1] /\ Advance(s, "consumed")
     ELSE UNCHANGED used /\ Advance(s, "refused")
  /\ UNCHANGED <<origin, nodes, at, shown, agent, faults>>

(* The second half of handleAgentRegister: a node with a fresh id.         *)
SaveNode(s) ==
  /\ call[s].stage = "consumed"
  /\ \E n \in NodeIds :
       /\ origin[n] = None
       /\ origin' = [origin EXCEPT ![n] = call[s].token]
       /\ nodes' = nodes \cup {n}
       /\ call' = [call EXCEPT ![s].stage = "answered", ![s].node = n]
  /\ UNCHANGED <<used, at, shown, agent, faults>>

(* SaveConnectivityTestResults: only tests that are still there, and of    *)
(* the node that reports.                                                  *)
Accepted(s) == {t \in call[s].results :
                  shown[t] \notin {"absent", "gone"} /\ at[t] = call[s].node}

(* The signature is checked with the secret of the node (NodeSecret), so   *)
(* the node must be there.                                                 *)
Check(s) ==
  /\ call[s].stage = "sent" /\ call[s].token = None
  /\ Advance(s, IF call[s].node \in nodes THEN "checked" ELSE "refused")
  /\ UNCHANGED <<panel, agent, faults>>

(* Mutant: nothing is written; a test that is handed out stays queued.     *)
WrittenNot(S) == {{}}

(* The tests of S that are written: the error of a write is ignored.       *)
Written(S) == IF WritesFail THEN SUBSET S ELSE {S}

Keep(s) ==
  /\ call[s].stage = "checked"
  /\ \E S \in Written(Accepted(s)) :
       shown' = [t \in Tests |-> IF t \in S THEN found[t] ELSE shown[t]]
  /\ Advance(s, "kept")
  /\ UNCHANGED <<used, origin, nodes, at, agent, faults>>

(* UpdateNodeHeartbeat finds the node again, or fails.                     *)
Update(s) ==
  /\ call[s].stage = "kept"
  /\ Advance(s, IF call[s].node \in nodes THEN "updated" ELSE "refused")
  /\ UNCHANGED <<panel, agent, faults>>

Queued(n) == {t \in Tests : shown[t] = "queued" /\ at[t] = n}

Oldest(n) == {t \in Queued(n) : Cardinality({u \in Queued(n) : u < t}) < Batch}

(* PullConnectivityTestsForNode: a test is running once it is pulled.      *)
Pull(s) ==
  /\ call[s].stage = "updated"
  /\ \E S \in Written(Oldest(call[s].node)) :
       shown' = [t \in Tests |-> IF t \in S THEN "running" ELSE shown[t]]
  /\ call' = [call EXCEPT ![s].stage = "answered", ![s].answer = Oldest(call[s].node)]
  /\ UNCHANGED <<used, origin, nodes, at, agent, faults>>

(* A request or an answer is lost, a statement fails, the rate limiter     *)
(* refuses, the panel restarts: the client sees an error.                  *)
Fail(s) ==
  /\ Fault
  /\ call[s].stage \notin {"free", "refused"}
  /\ Advance(s, "refused")
  /\ UNCHANGED <<panel, agent>>

(* An answer that nobody waits for.                                        *)
Discard(s) ==
  /\ call[s].stage \in {"answered", "refused"} /\ cur # s
  /\ call' = [call EXCEPT ![s] = Free]
  /\ UNCHANGED <<panel, agent, faults>>

-----------------------------------------------------------------------------
(* The users and the operator.                                             *)

CreateTest(n) ==
  /\ n \in nodes
  /\ \E t \in Tests :
       /\ shown[t] = "absent" /\ \A u \in Tests : u < t => shown[u] # "absent"
       /\ shown' = [shown EXCEPT ![t] = "queued"]
       /\ at' = [at EXCEPT ![t] = n]
  /\ UNCHANGED <<used, origin, nodes, agent, call, faults>>

(* The tests of the node stay.                                             *)
DeleteNode(n) ==
  /\ n \in nodes /\ nodes' = nodes \ {n}
  /\ UNCHANGED <<used, origin, at, shown, agent, call, faults>>

(* A test that is older than the audit log goes.                           *)
CleanupExpired(t) ==
  /\ shown[t] \notin {"absent", "gone"}
  /\ shown' = [shown EXCEPT ![t] = "gone"]
  /\ UNCHANGED <<used, origin, nodes, at, agent, call, faults>>

(* After a failed registration the operator installs with another token.   *)
NewToken ==
  /\ proc = "down" /\ saved = None
  /\ \E k \in Tokens : used[k] = 0 /\ token' = k
  /\ UNCHANGED <<panel, proc, id, saved, cur, work, results, found, call, faults>>

-----------------------------------------------------------------------------
RunStep == \/ Start \/ Registered \/ RegisterFails
           \/ OpenConfig \/ WriteConfig
           \/ HeartbeatOver \/ HeartbeatFails
           \/ \E s \in Slots : Register(s) \/ Heartbeat(s)

HandlerStep(s) == \/ Consume(s) \/ SaveNode(s)
                  \/ Check(s) \/ Keep(s) \/ Update(s) \/ Pull(s) \/ Discard(s)

Perturb == GiveUp \/ Crash \/ SaveConfigFails \/ \E s \in Slots : Fail(s)

People == \/ \E n \in NodeIds : CreateTest(n) \/ DeleteNode(n)
          \/ \E t \in Tests : CleanupExpired(t)
          \/ NewToken

Next == \/ RunStep \/ \E b \in SUBSET Tests : Perform(b)
        \/ \E s \in Slots : HandlerStep(s)
        \/ Perturb \/ People

(* systemd and the ticker keep the agent going, a goroutine that performs  *)
(* tests ends, as every dial and every ping has a timeout, and a handler   *)
(* gets the lock in the end.                                               *)
Fairness == /\ WF_vars(RunStep)
            /\ \A b \in SUBSET Tests : WF_vars(Perform(b))
            /\ \A s \in Slots : WF_vars(HandlerStep(s))

Spec == Init /\ [][Next]_vars /\ Fairness

-----------------------------------------------------------------------------
(* A token admits one node at most, however often the agent asks and       *)
(* whatever became of its earlier requests (ConsumeNodeToken).             *)
TokenOnce ==
  \A m, n \in NodeIds : origin[m] # None /\ origin[m] = origin[n] => m = n

(* The agent works under the id of a node that the panel made for it, with *)
(* a token that is used up by that (Agent.Register, SaveConfig).           *)
KnownId ==
  \A n \in {id, saved} \ {None} : origin[n] # None /\ used[origin[n]] = 1

(* What the panel shows of a test, and what the node does about it, is a   *)
(* behaviour of TestJobs.                                                  *)
Jobs == INSTANCE TestJobs WITH Tests <- Tests, Outcomes <- Outcomes, None <- None,
                              shown <- shown, found <- found

TestsAsPromised == Jobs!Spec

(* No more faults, and no request of earlier ones under way.               *)
Calm == faults = MaxFaults /\ \A s \in Slots : call[s] # Free => s = cur

(* On a calm network a test that is queued for the agent's node gets its   *)
(* result, unless it is removed, or the node is.                           *)
ResultsArrive ==
  \A t \in Tests :
    Calm /\ shown[t] = "queued" /\ saved # None /\ at[t] = saved
      ~> shown[t] \in Outcomes \cup {"gone"} \/ at[t] \notin nodes

(* On a calm network an unused token registers the node.                   *)
Registers ==
  Calm /\ saved = None /\ used[token] = 0 ~> saved # None
=============================================================================
