# RelayGuard: a verification project

RelayGuard is a panel that manages port-forwarding rules and an agent, one per
node, that carries them out. This directory holds TLA+ models of the parts where
ordering, failure and shared state decide whether the program is right, the TLC
runs that check them on small instances, and proofs, checked by TLAPS, of what
holds for every instance. Line numbers refer to the sources in `src/`.

`PROJECT.json` is the index: components, runs, the map from each definition to
the lines it models, one mutant per property (a small bug that the run must
find), findings, hazards and theorems.

To repeat a run: `tlc -workers 2 -config traffic.cfg TrafficMC.tla`; a proof:
`tlapm TrafficProofs.tla`.

## 1. The system

| Part | State | Operations | Talks to |
|---|---|---|---|
| Agent loop (`internal/agent/agent.go`) | node id and secret, `lastErr`, queue of test results | register once, heartbeat every 10 s with backoff to 5 min, start connectivity tests | panel (signed POST), rule manager |
| Rule manager (`forwarder.go`, `Manager`) | maps of TCP and UDP forwarders, `last_rules.json` | Apply, Statuses, LoadLastRules, Stop; one mutex | forwarders, firewall manager, disk |
| TCP forwarder | listener, `active`, state, byte counters | Run (accept loop), handle per connection, Stop; no lock, atomics only | clients, targets |
| UDP forwarder | socket, session table under a mutex, `active`, counters | Run, session, readRemote per session, cleaner, Stop | clients, targets |
| Rate limiter of a rule | token bucket under a mutex | wait, shared by all copies of a rule | |
| Firewall manager (`firewall.go`) | last hash and mode, pending trial, timer, `RELAYGUARD-INPUT` chains in the kernel | Apply, rollback callback, Status; `firewall rescue` as a process of its own | iptables, panel through the heartbeat |
| Connectivity tests (`connectivity.go`, `store.go`) | rows that are queued, running, success or failed; results kept by the agent | create, pull, run, save, clean up | heartbeat |
| Store (`internal/panel/store.go`) | SQLite: users, sessions, nodes, tokens, rules, statuses, tests, snapshots, settings | one mutex, one method per operation | every handler |
| Handlers (`server.go`) | none of their own but the two limiters | often read, decide and save in *separate* store calls | store, browser, agent |
| Request limiters (`server.go`) | failures per key, write budget per user | allow, fail, reset, cleanup | login and write handlers |
| TOTP (`totp.go`) | last used step per user | verify with replay window | login |
| Accounts (`store.go`, `server.go`) | users, sessions, pending TOTP secrets | login, logout, password, two-step verification, an administrator's `PUT` | login page, account page |
| Traffic charts (`traffic.go`) | one total per five minutes | snapshot, series of a range | dashboard |
| Console (`frontend/src/main.tsx`, `App`) | user, lists, spinner, modal; a cookie in the browser | refreshAll, writes followed by refreshAll, login, logout | every handler, with requests that are given up after 15 s (`api.ts`) |
| Dashboard, TrafficTrend (`main.tsx`) | range, points, error, a cancelled flag per run of its effect | fetch and draw | charts, the rules of App |
| Login page, account page, TotpModal (`main.tsx`) | busy flags, the secret to scan | submit, generate, enable, disable | accounts |
| Backup and restore | files beside the database | copy, close, swap, reopen | store |
| Other pages, install scripts, SQLite binding, crypto, metrics, webhooks | nothing another part relies on | | |

Parts meet in four ways: the heartbeat (one request with counters, test results
and firewall state; one answer with rules, mode and tests), the store mutex,
the mutexes inside the agent, and what is left on disk or in the kernel when a
process ends.

What is hard here, and what would make each part correct:

* **Firewall.** A strict chain must roll back by itself if nobody confirms it,
  while heartbeats keep re-applying it, timers race `fw.mu`, commands fail half
  way and the process may die. Correct: no unconfirmed chain without a live
  callback, late callbacks harmless, SSH never cut, Status truthful.
* **Forwarders.** Goroutines start and stop each other with little or no common
  lock. Correct: counters exact, limits kept, ports freed, sessions served, no
  panic.
* **Rule manager.** Answers move ports between rules. Correct: the forwarders
  are those of the last answer, lose no port to a forwarder that is being stopped,
  and are not restarted without need; a restart serves the last answer, unless its
  file could not be written.
* **Traffic.** The agent reports counters, the panel charges differences, and
  everything between them may fail. Correct: charged once, never twice;
  withdrawn rules stop.
* **Panel rows.** Handlers validate, read and save under separate locks.
  Correct: no edit is lost or undone, ports stay unique, one administrator
  stays.
* **Accounts.** A handler checks, changes, deletes and rotates in separate steps,
  several browsers do so at once, and a page that gave up does not stop its
  handler. Correct: nobody is asked for a code they cannot have, sessions older
  than a change of the credentials end, and the one that made it does not.
* **Console.** Refreshes, writes, logins and effects overlap, and answers come in
  any order. Correct: what is shown belongs to the present user, range and
  totals, is no older than what was written, and waiting ends.
* **Tests, registration, restore.** Two-step protocols whose answer may be lost.
  Correct: nothing is left in the middle.

## 2. Modules

| Module | Models | Proofs |
|---|---|---|
| `Firewall` | firewall manager, the node's mode on the panel, the kernel chains, the rescue process | `FirewallProofs` |
| `UdpForwarder` | one UDP forwarder | `UdpForwarderProofs` |
| `TcpForwarder` | one TCP forwarder | `TcpForwarderProofs` |
| `RuleManager` | Apply, sameRule, the ports of the node, the last-rules file | `RuleManagerProofs` |
| `Traffic` | heartbeat round, accounting, quotas, edits of rules and user | `TrafficProofs` |
| `Exchange` | registration with a token; connectivity tests between panel and agent | `ExchangeProofs` |
| `TestJobs` | the abstract specification of a connectivity test, which `Exchange` implements | |
| `Account` | one user, the browsers he works in, and the handlers of his account | `AccountProofs` |
| `Console` | `App`: its refreshes, writes, login, logout, beside the panel's versions | `PageProofs` |
| `Dashboard` | snapshots, series, the effect that fetches them, the curve, the bars and the state filter | `PageProofs` |
| `*MC` | the small instances TLC runs | |

Definitions keep the names of the code where they can. A definition with the
comment `mutant:` is not part of the model: it is the bug a property must catch.

### Firewall

An action is one `iptables` command, since the process may die or the rescue
process may run between any two. `pc # "idle"` means `fw.mu` is held; `job` is
the call that holds it. `timer` is the armed `time.AfterFunc`, as a countdown;
`late` are callbacks that fired and wait for the lock. `seen` is the mode of the
last answer. `PutNode(m, old)` is the handler of `PUT /api/nodes/{id}` with its
rule that a first `strict` becomes `strict-pending`: `GetNode` and `SaveNode` lock
separately, so `old` is any mode the node may have had when it was read.

Simplifications: mode and rules of one answer are read at once; a lost answer is
no step at all, so its effect is covered; `FirewallConfig` is fixed; all SSH
ports are one value and CIDRs are left out; jumps saturate at `JumpCap`. The rule
set may change never, at any time, or while no trial is asked for, on its way to
the agent or under way there (`EditsWhen`).

### UdpForwarder and TcpForwarder

One action per access of what goroutines share: a critical section of `f.mu`, an
atomic, or a socket call between two. In UDP a session object outlives its table
entry, so objects have an identity (`Ids`); `held` and `from` are the locals of
Run while it dials. In TCP a connection is the program counter of its handle
goroutine.

`EarlyStop` and `SlowDial` of the UDP model are outside the runs: the first needs
Stop within microseconds of Apply, while Apply runs at most every ten seconds;
the second needs name resolution slower than the idle limit of a session.

`SessionServed` speaks of the table only. A datagram can still be written in vain:
to a session that Run holds while its reader is on the way to `removeSession`, or
has been there (`Write` allows both). Nor does `ActiveCounted` count a session that
relays outside the table (section 4).

### RuleManager

`Apply` is five steps: stop, start, firewall, and the two of `persistRules`, which
opens the file (and so empties it) and then writes it. Either may fail or be cut
off by a crash, and `Apply` ignores that; what is left is the old file, a torn one
that reads as no rules at all, or the new one. `full`, `kept` and `cut` are history:
the rules of the last Apply that its firewall did not stop, those that a write
last brought to disk, and whether the last write was broken off. A forwarder is
reduced to "starting, running, error", what the two forwarder models show of it.
`owner` is the kernel's port table, with other processes in it. Two rules of one
answer may have one port, as a rule and its clone do (`CloneRule`).

### Traffic

`fwd` are forwarders with their counters, `req` the statuses of a heartbeat,
`answer` the rules of its answer. `Charge` is the transaction of
`UpdateNodeHeartbeat`, `Answer` the later lock of `RulesForNode`. A rule has a
protocol per version, so an edit may turn TCP into UDP. A request
outlives its client (`orphan`); an edit may come between any two steps. `copy`
is a rule read by `toggle`, or held by a page that will `PUT` it, and not saved
yet. A handler may find the rule and save it after another one deleted it
(`Savable`, with the constant `Resurrect`). `carried`, `billed`, `interrupted`,
`forgiven` and `edits` are history.

An orphan is settled before the next request is handled: the agent waits at
least 20 s after giving up and Go's mutex is first in, first out under
contention. One user owns all the rules. Expiry and disabling of a user act
like a quota in `userUsableLocked` and are left out.

### Exchange and TestJobs

The second thing a heartbeat carries, and what precedes the first one. `proc` is
where `Agent.Run` is; `id` is in memory and `saved` in `agent.json`. A slot of
`call` is one request, and its `stage` says which steps of its handler are done: a
handler takes `store.mu` once per step, and other handlers run in between. The
slot of a request the agent gave up on stays in use until its handler ends, so
late handlers run beside the next heartbeat. The check of the node's secret
(`Check`) and the results it brings (`Keep`) are two of these steps, and of the
results only those are stored whose write succeeds (`Written`). `agent.json` is
emptied and then written (`OpenConfig`, `WriteConfig`); a crash between leaves
none. `work` holds, per goroutine of `runConnectivityTests`, the tests it has
left; `results` is `testResults`. `origin` and `found` are history: the token of a
node, the outcome of a test. `Fail`, `GiveUp`, `SaveConfigFails`, `Crash` and
results that are not stored draw on `MaxFaults`.

`TestJobs` is what a user may expect of a test: created, handed out once,
performed once at most, and what is shown in the end is what the node found.
`TestsAsPromised` says that `Exchange` implements it, with `shown` and `found`
as they are.

Simplifications: tokens do not expire, since expiry only turns a use into a
refusal; backoff and intervals are left out; other nodes appear only as owners of
tests; a `PUT` that saves a deleted node again is left to the plan's `Rules`.
`PullConnectivityTestsForNode` ignores the error of the write that marks a test
as running (`store.go:1759`), and such a test is handed out twice. `WritesFail`
says whether this happens; the run and the theorem exclude it.

### Account

A member of `calls` is a request with the step its handler is at; each step is
one call of the store, which takes `store.mu` by itself, so handlers interleave.
`attached` says whether the page still waits, `own` whether the dialog that
asked is still open. `modal` and `shown` are TotpModal's step and secret,
`scanned` the entries of the owner's authenticator. A code is the secret it was
made from. A right code may be refused as well, which stands for the replay
window and the limiter. `outlived` and `alone` are history: the sessions older
than the last change of the credentials, and the requests nothing has
overlapped. `SetUserTOTP` may fail, as the handlers report it; that the deletion or
the rotation of sessions fails, which they ignore, is left out. `LogoutOthers` is
`POST /api/account/sessions/logout-others`, which no page of this frontend sends.
`RotateSession` and the `GetUser` that fills the answer are two steps.

### Console

Every change of nodes or rules makes a new `version`; a list is the version it
was read at and a user the number of the session. `RefreshAll` is a call of
`refreshAll`, with the cookie its requests leave with; its answers are read one
by one (`Read`) and set together (`RefreshLands`). `Write`, `Perform` and
`WriteAnswered` are the page's half, the panel's half and the rest of any
handler of the form "await api, await refreshAll(true)". A request the page gave
up may be served later: to the page that is a change made elsewhere.

### Dashboard

`snaps` is the table of snapshots, a total for each bucket of five minutes that
was captured; a bucket may be missing. `Capture` writes the bucket of the clock as
it was before `store.mu` was locked (`Lately`). A request takes a snapshot
(`Snapshot`) and then locks again for its series (`Query`): the totals since a
cutoff that lies within a bucket, or at its start (`Cutoffs`). As the page gives
up after 15 seconds, at most one bucket ends between the two. `RunEffect` is a run
of the effect `[range, traffic]` and `effect` the one whose `cancelled` is false.
`Curve`, `GridLine`, `Span` are TrafficTrend's arithmetic, cut to whole pixels;
`Part`, `Top` and `TopBar` are the bars of Dashboard, in whole percent, and the
state filter and badges of RulesPage. Totals may fall, since traffic is reset.
`Top` ranks the rules by `Place`, ties in the order of the list, as the stable
sort of JavaScript does.

`Firewall.firewallStatus` is the badge of a node (`utils.ts`), and
`StatusTruthful` says that the badge tells no other story than the agent.

## 3. Runs

Each passing run checks a question of its own; each violation run shows a
disagreement between the code and a text of the repository.

| Run | Question | Bounds |
|---|---|---|
| `fw_trial` | Does every unconfirmed strict chain end by itself, and stay down; does Status tell what the kernel does; does rescue open the host? | one optional port, window 2 ticks, crashes, every mix of iptables binaries, rules that change outside of trials, rescue while the agent is down |
| `fw_faults` | What if any command fails, or the agent dies between two? | window 1, one retry, fixed rules, rescue while the agent is down |
| `fw_bug_timer` | finding: the rules change within a window | as `fw_trial`, both binaries, no crashes |
| `udp_forwarder` | Are sessions served, counted, reaped; does Stop release everything? | 2 clients, 2 session objects, limit 1 |
| `tcp_forwarder` | Is the counter exact, the limit kept, the final state right? | 3 connections, limit 2, failing accepts |
| `udp_bug_panic` | finding | as `udp_forwarder` |
| `rule_manager` | Do forwarders and file follow the answers? | 2 rules, 2 ports, 7 rule sets that swap ports, protocols, targets and CIDR order, one a rule and its clone; failing firewall, failing and torn writes, crashes |
| `traffic` | Is traffic charged exactly once, and does a withdrawn rule stop? | 1 rule, 2 bytes, 2 versions (TCP, then UDP), 2 edits, quotas 1 and 2 |
| `exchange` | Are tests performed once and shown truthfully, and does a token admit one node? | 2 tests, one per answer, 2 tokens, 2 node ids, 2 requests, 1 fault |
| `account` | Is nobody locked out; do old sessions end and the own one stay? | 2 browsers asking 3 and 2 things, 2 requests at a time, 2 secrets, 3 tokens, 1 change of password |
| `console` | Is what the page shows its user's, and fresh; does the spinner stop? | 2 versions, 3 presses, 1 session before |
| `dashboard` | Has a series what its range has, is it drawn to scale, is the chart that of its range and traffic, and does it get there? | ranges of 2 and 3 buckets, 4 buckets of time with gaps, totals 0 and 2, 2 runs of the effect, 2 lists of rules |

A type invariant that is proved for every instance (`TypeCorrect`, section 5) is
not checked by a run again, but for `BoardTypeOK`, which also says that a series
fits its range.

Why these bounds are enough to be interesting. *Firewall*: with and without the
port there are two rule sets, so that a chain is rebuilt; two ticks leave room
before and after. *UDP*: two clients compete for one place, and two objects give
the old and the new session of one client. *TCP*: three connections are one more
than the limit. *Rules*: seven sets give every kind of change that `sameRule`
distinguishes, in any order, and two rules that fight for a port. *Traffic*: two
bytes are the least for which a new forwarder's counter can be below, equal to or
above what the panel remembers, in one direction or both; two edits allow an edit
made from a page that is older than another edit. *Exchange*: two tests, one per
answer, are the least for which two goroutines or a second pull can confuse them;
two requests are a late one and its successor; one fault, which may waste a token,
leaves the other token for recovery. *Account*: two browsers can each have
generated a secret and each change what the other relies on; one more request lets
either log in again; of three tokens two are in use when one is rotated.
*Console*: three presses are a login, a write and a refresh or logout that overlap
(3 versions were tried once as well). *Dashboard*: four buckets are one more than
a day and the boundary it may begin at; of two runs one is late or cancelled and
one is current (three were tried once, with fewer buckets); one list is empty, the
other holds seven rules, one more than Top shows. Where a bound could hide
something the theorems speak for all values.

`CHECK_DEADLOCK FALSE` appears where the system may rest: a stopped forwarder, or
a page and an account whose user has asked for everything the bounds allow.

### Fairness

Assumed, each for a reason in the code: goroutines that can run do (Go scheduler),
`iptables` returns, timers fire and a starving waiter gets a `sync.Mutex` (strong
fairness of the callback), dials have timeouts, a closed socket wakes its reader,
tickers tick, systemd restarts the agent. For `traffic`: each step of a heartbeat
round (sent, charged in time, answered, applied) succeeds once if it is tried for
ever; this is strong fairness, the usual reading of "the network is not down for
ever". For `exchange`: the loop of the agent, each goroutine that tests and each
handler goes on (weak fairness; every dial and ping has a timeout).
`ResultsArrive` and `Registers` only speak of the time after the last fault and
its late requests (`Calm`), since a lost answer loses what it carried. For
`console` and `dashboard`: the first effect of App runs, and every request ends,
since `api.ts` aborts it after 15 seconds; not that it succeeds. Not assumed: that
an operator acts, that clients or targets do anything, that Stop is called.

## 4. Findings

Each has a run that finds it and an entry in `PROJECT.json` with the text of the
repository that says otherwise.

**The trial loses its timer** (`fw_bug_timer`, `firewall.go:187`). `pendingHash` is
overwritten before it is compared, so a rule change inside the window keeps a timer
with the old hash whose callback does nothing, and the unconfirmed chain stays.

**Stop panics** (`udp_bug_panic`, `forwarder.go:573`). A session that is being
dialed has a nil remote in the table; Stop calls `Close` through it.

Also seen while modelling. The models have these steps, and where a constant
keeps them out of a run and out of the hypothesis of a theorem it is named; with
the other value TLC shows the property violated.

* a half-built chain has no timer (`firewall.go:178`): if the IPv6 half fails
  after the IPv4 chain drops, Apply returns before it arms one (`fw_trial` with
  `Failing = {"v6"}` violates `TrialGuarded`);
* a rollback that fails is reported as done (`firewall.go:420`): the callback
  ignores the error of `disableLocked`, so if `-D` fails the chain keeps dropping
  while the status says that it was removed, and later heartbeats do not retry
  (`Failing = {"v4"}` violates `RolledBackOpen`);
* rescue beside a running agent (`firewall.go:566`) can leave a chain that drops
  and does not accept SSH (`RescueWhen = "any"` violates `SshKept`): hence the
  hypothesis of `SshNeverLockedOut`;
* the limit on UDP sessions is passed (`forwarder.go:507`): a reader removes by
  client address, possibly the session that replaced its own, which then relays
  outside the table and the count. No property speaks of it: with a limit of one
  `Write` and `RemoveSession` lead to two sessions that relay;
* a rule of protocol "both" is charged at every heartbeat (`store.go:1037`): two
  statuses share one row, so each is compared with the other's counters
  (`traffic.cfg` with `Protocol <- BothProtocols` violates `BilledOnce` and
  `NeverOvercharged`);
* an edit takes back traffic (`server.go:936`): `toggle` saves a row read under
  another lock, and `PUT` saves `traffic_used` as the page had it; it is gone
  from the rule, though not from its user; no property speaks of `traffic_used` of
  the rule, so none catches it;
* switching two-step verification on ends every session, the own one too
  (`server.go:520`), while the page speaks of the other sessions only: hence
  `OwnSessionKept` is about the other two changes;
* a login that read its row before a change of password opens its session after
  the others were deleted (`store.go:530`), and an error of
  `DeleteOtherSessions` is ignored;
* an answer that comes late has its way with the page: an older refresh
  overwrites a newer one's lists, an answer to a change of password after a
  logout shows the console again, `close()` of a confirmation closes whatever
  modal is open by then (`main.tsx:807`);
* the list of users is kept when a plain user logs in after an administrator,
  until the page is loaded again (`main.tsx:72`);
* a filter for tags keeps its own rows: they do not follow `refreshAll`, and a
  late answer undoes a cleared filter (`main.tsx:549`);
* a disabled rule keeps its last status, so the dashboard counts it twice, and
  the status bar can overflow (`main.tsx:337`; `CountedTwice` in `Dashboard`);
* the button for a new node on the dashboard opens the dialog for node settings
  without a node (`main.tsx:163`);
* the badge of a node in strict-pending does not show a rollback
  (`utils.ts:120`);
* a rule change after a rollback rebuilds the strict chain, since the
  rolled-back test compares the hash that includes the rules (`firewall.go:156`);
* every rebuild adds an IPv6 jump, and `disableLocked` removes at most 20
  (`firewall.go:278`);
* a `PUT` that confirms before the heartbeat that would have started the trial
  makes the node strict with no trial (`server.go:810`);
* a UDP session dialed after Stop lives until its own read deadline;
* a forwarder that could not bind is never tried again;
* a rule deleted between the read and the save of `toggle` comes back, without
  its status, and all its traffic is charged once more (`Resurrect` in
  `Traffic`: excluded from the run and from the theorem);
* `CloneRule` makes an enabled clone on the port of the original, and which of the
  two gets it is a matter of their goroutines (`PortsHandedOver` allows for it);
* `persistRules` empties the file before it writes it and its errors are ignored, so
  a full disk or a crash can leave a restart with no rules, or with older ones
  (`LastAnswerKept` says what the file can be);
* `SaveUser` can demote or disable the last super administrator, which only
  `DeleteUser` refuses;
* the error of Apply in `lastErr` is cleared at `agent.go:126` before it is
  reported;
* a test whose answer, or whose result, is lost with a request stays "running"
  until it is cleaned up with the audit log (`Fail`, `HeartbeatFails`); the
  tests of a deleted node stay too;
* a registration whose answer is lost uses up its token (`server.go`,
  `handleAgentRegister`): the node is there, but the agent that systemd restarts
  is refused each time and never appears online until it is installed with
  another token (`NewToken`).

## 5. Proofs

Each proof module extends its component. The shape is the same everywhere: an
invariant that is inductive, one step per action, `PTL` only in the last line.

* **`FirewallProofs`**. `TypeCorrect`. `LateCallbackHarmless`: `TrialInv` adds
  that an active trial is one the panel still asks for and that a running call
  works for the mode seen last. `SshNeverLockedOut`: `SshInv` adds, for the two
  places where a chain gets its last line, that SSH is already accepted, and
  that rescue and agent do not run together.

  `RollbackOpens`, `StatusIsTruthful` and `RescueIsEffective` speak of the kernel,
  so they need to know what is in a chain at every command of a call: `Ladder`
  says that rung by rung (`Empty`, `Lined`, `Full`), `Open` that a chain which was
  taken down, or never built, drops nothing, and `Told` that the state, the hash
  and the mode reported are those of what stands. Their hypothesis `Reliable` is
  that commands do not fail and that rescue runs while the agent is stopped; with
  a failing `-D` or `-F` the code does leave a dropping chain behind that it
  reports as gone (section 4), which is why `fw_faults` does not check them.

  `TrialIsGuarded` and `RollbackRemembered` speak of the pending trial. With one
  rule set (`EditsWhen = "never"`) only one hash can belong to a trial (`OneTrial`), so
  the callback that is armed is always the right one (`Watched`); the lost timer
  of section 4 is exactly what breaks without that hypothesis. A rollback is
  remembered even when commands fail and rescue interferes: it needs `Stages`
  (which call may be where) and `OneTrial` only.
* **`UdpForwarderProofs`**. `TypeCorrect`, `EntriesAlive`, `CountReported`.
  The invariant ties table, session objects and readers: an entry is being
  dialed by Run or has an open remote and its reader; a session that is in
  nobody's table has a reader that will end.
* **`TcpForwarderProofs`**. `TypeCorrect`, `CounterExact`, `NeverOverLimit`,
  `StoppedInTheEnd`. The limit rests on the fact that only Run raises the
  counter, so between load and add it can only fall.
* **`RuleManagerProofs`**. `TypeCorrect`, `ForwardersFollowRules`,
  `PortsPassOn`, `FileOutlivesFaults`, `ForwarderKept`. The invariant says, step by
  step of Apply, which forwarders exist, that a port belongs to the forwarder whose
  rule names it, and what the file can be while it is written: empty, or the rules
  of an Apply that the firewall did not stop.
* **`TrafficProofs`**. `TypeCorrect`. `NothingOvercharged`, for rules that are
  never of both protocols at once, whatever an edit makes of them, and without
  `Resurrect`. `NeverOvercharged` is not inductive: a charge
  depends on what the panel remembers and on what the agent counts. The
  strengthening is that *what has been billed, plus what the present counters
  would still cost, is at most what was carried* (`Settled`), and the same after
  the report under way (`InFlight`). A byte costs at most one more (`DeltaGrows`),
  a forwarder that ends or starts again only lowers the second term (`QuietStep`),
  and the charge turns `InFlight` into `Settled`.

  `BilledExactlyOnce`, under the same two hypotheses, is the other direction. For
  a rule that was not interrupted the three sets of counters are in order,
  remembered, then reported, then present, and the bill is the first (`Metered`);
  a lost or rolled back heartbeat drops the middle one, a charge makes it the
  first. The rule of protocol "both" and the deleted rule that comes back
  (section 4) are what breaks without the hypotheses.

  `UserBillIsExact` has none. `Ledger` says that the user was billed the sum of
  what the rules were; the charge adds the same to both. The sums are folds over
  a set, which an induction over data would be needed for: instead a sum is
  given in closed form, as the number of pairs of a rule and one of its bytes,
  which solves the fold's equation (`SumExists`), and a smallest set on which two
  solutions differ leads to a contradiction (`SumUnique`).
* **`ExchangeProofs`**. `TypeCorrect`. `TokenRegistersOnce` and `IdIsKnown`: a
  used token belongs to one node or to one registration that is about to save
  one (`Claims`). `TestsImplemented`: the refinement of `TestJobs`. Its
  invariant says that a test which was handed out and is not performed is in
  exactly one place, the answer of one request or the list of one goroutine, and
  that results, at the agent or under way, are of tests that were performed.

* **`AccountProofs`**. `TypeCorrect`. `NeverLockedOut`:
  `FactorInv` says of every request that a code on its way, and a secret about
  to be set, is of an entry that was in the authenticator when it was typed;
  entries are never removed, so it does not matter who overtakes whom.
  `OldSessionsGone`: each session that has to go (`EndInv`) has a handler that
  is still to delete it, and no other handler's deletion is counted upon.
  `OwnSessionStays`: while nothing overlaps a request (`Lone`), its cookie is a
  session until it is rotated, and then the new one is.
* **`PageProofs`**, first about `Console`. `TypeCorrect`. `ListsFresh`: `Fresh` is
  about lists that have landed; the invariant says the same of the refresh begun
  last while it is under way (`LastFresh`), which holds because a write that is
  acknowledged, and a user who appears, begin another one. `SpinnerIsHonest` is
  inductive as it stands.

  Then about `Dashboard`, whose names begin with `Board` where both have one.
  `BoardTypeCorrect`: the snapshot of a request is in the table when its series is
  queried and within the range, and the buckets of a range are few (`FitsIn`); each
  has its rank among them (`RankIs`). `ChartIsCurrent`: `TrendCurrent` speaks of
  what is shown,
  so the invariant adds what is asked for (`Asked`): the run of the effect that is
  not cancelled carries the present range and traffic, whatever older runs are
  still under way. `ChartIsTrue` is about no step at all: for *every* series and
  *every* list of rules, curve, grid lines, bars, top six and filters are what
  `ChartTruthful` says. Extrema exist because a series has a least bound
  (`Bounded`); the curve is the rule of three with a floor (`Quotient`, `Cancel`),
  the deltas add up to at least the growth (`GrowthCounted`, the same closed form
  and least counterexample as the sums of `TrafficProofs`), the parts of the bar
  count disjoint sets (`PercentsFit`), and every place of the ranking is taken by
  exactly one rule (`PlaceIs`, an injection of a finite set into itself).

The constants are only assumed to be what the `ASSUME` of each module says, and
TLC evaluates those for every run.

Only model-checked: every liveness property (`TrialEnds`, `IdleReaped`, both
`StopReleases`, `WithdrawnStops`, `ResultsArrive`, `Registers`, `Settles`,
`TrendSettles`), since TLAPS does not reason about fairness. Every invariant and
every action property that a passing run checks is also a theorem; the violation
runs check what is not true of the code.

## 6. Not modelled

SQLite binding, cryptography, metrics, webhooks, audit log, install scripts: no
state that another part's correctness rests on. Of the frontend: search text and tag
filters, the list of users, the pages for audit, backups and settings, toasts and
layout; the built files in `webdist` are its output. Other hazards without a
property: a UDP session dialed after Stop, a forwarder that could not bind, an
error of Apply that is not reported (section 4), and copies that share one token
bucket. The bytes that are copied, CIDR tests and texts are abstracted inside the
models. The parts planned below are not modelled yet and stand as such in
`PROJECT.json`.

## 7. Plan

In this order, the most important first:

1. `ConfigSync`, an abstract specification (a node's forwarders are those of some
   past state of the panel, and in the end of the present one), with `Traffic`
   shown to implement it by refinement; then `RuleManager` as the agent's side.
2. `Rules`: validation against concurrent saves, clone, node edits that overtake
   a heartbeat. Theorem: ports stay unique where validation and save are not
   interleaved.
3. `Users`: several accounts, roles and quotas, the last super administrator;
   the handlers of `Account` for each.
4. `Limiters` and `TokenBucket`: failures, backoff, cleanup; the bound on bytes
   per second for any number of copies (a numeric invariant, good for TLAPS).
5. `Restore`: the store closed, swapped and reopened under requests, one step
   failing.
6. The pages with state of their own that are left: tag filter, settings,
   backups.
