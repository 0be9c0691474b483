---------------------------- MODULE TcpForwarder ----------------------------
(***************************************************************************)
(* One TCP forwarder of an agent (internal/agent/forwarder.go): the Run    *)
(* goroutine with its accept loop, a handle goroutine per connection, and  *)
(* Stop, which the rule manager calls from another goroutine. They share   *)
(* no lock: f.stop, f.state and f.active are the only things two of them   *)
(* touch, and every access is a step of its own.                           *)
(***************************************************************************)
EXTENDS Integers, FiniteSets

CONSTANTS
  Conns,           \* bound: connections that exist at a time
  MaxConnections,  \* of the rule; 0 is no limit
  AcceptErrors     \* may Accept fail with the listener open?

ASSUME TcpAssumption ==
  /\ IsFiniteSet(Conns)
  /\ MaxConnections \in Nat
  /\ AcceptErrors \in BOOLEAN

VARIABLES
  runPc,    \* where Run is
  ln,       \* f.ln
  state,    \* f.state
  active,   \* f.active
  conn,     \* each connection, by what its handle goroutine does
  stopPc    \* where Stop is; "idle" until f.stop is closed

vars == <<runPc, ln, state, active, conn, stopPc>>

TypeOK ==
  /\ runPc \in {"listen", "accept", "failed", "limit", "add", "done"}
  /\ ln \in {"none", "open", "closed"}
  /\ state \in {"starting", "running", "error", "stopped"}
  /\ active \in Nat
  /\ conn \in [Conns -> {"none", "accepted", "dialing", "relaying", "closing",
                         "closed"}]
  /\ stopPc \in {"idle", "close", "state", "done"}

Stopped == stopPc # "idle"
In(S)   == {c \in Conns : conn[c] \in S}

-----------------------------------------------------------------------------
(* Run.                                                                    *)

Listen ==
  /\ runPc = "listen"
  /\ \/ ln' = "open" /\ runPc' = "accept" /\ state' = "running"
     \/ ln' = ln /\ runPc' = "done" /\ state' = "error"
  /\ UNCHANGED <<active, conn, stopPc>>

(* A connection whose address `allowed` refuses leaves no trace.           *)
Accept(c) ==
  /\ runPc = "accept" /\ ln = "open"
  /\ conn[c] = "none" /\ c = CHOOSE d \in Conns : conn[d] = "none"
  /\ conn' = [conn EXCEPT ![c] = "accepted"]
  /\ runPc' = "limit"
  /\ UNCHANGED <<ln, state, active, stopPc>>

FullAbove == MaxConnections > 0 /\ active > MaxConnections   \* mutant: off by one

Full == MaxConnections > 0 /\ active >= MaxConnections

Refuse ==
  /\ runPc = "limit" /\ Full
  /\ conn' = [c \in Conns |-> IF conn[c] = "accepted" THEN "none" ELSE conn[c]]
  /\ runPc' = "accept"
  /\ UNCHANGED <<ln, state, active, stopPc>>

Admit ==
  /\ runPc = "limit" /\ ~ Full
  /\ runPc' = "add"
  /\ UNCHANGED <<ln, state, active, conn, stopPc>>

CountNow == active' = active + 1

Add ==
  /\ runPc = "add"
  /\ CountNow
  /\ conn' = [c \in Conns |-> IF conn[c] = "accepted" THEN "dialing" ELSE conn[c]]
  /\ runPc' = "accept"
  /\ UNCHANGED <<ln, state, stopPc>>

LeaveState == state' = state    \* mutant: Stop has stored it already

StoreStopped == state' = "stopped"

(* Accept fails; what Run does about it depends on f.stop at that time.    *)
AcceptFails ==
  /\ runPc = "accept" /\ (ln = "open" => AcceptErrors)
  /\ IF Stopped THEN runPc' = "done" /\ StoreStopped
                ELSE runPc' = "failed" /\ UNCHANGED state
  /\ UNCHANGED <<ln, active, conn, stopPc>>

KeepAccepting ==
  /\ runPc = "failed"
  /\ state' = "error" /\ runPc' = "accept"
  /\ UNCHANGED <<ln, active, conn, stopPc>>

RunStep == Refuse \/ Admit \/ Add \/ KeepAccepting
           \/ (ln = "closed" /\ AcceptFails)

-----------------------------------------------------------------------------
(* handle.                                                                 *)

(* The address is dialed within ten seconds, or the deferred calls run.    *)
Dial(c) ==
  /\ conn[c] = "dialing"
  /\ \E s \in {"relaying", "closing"} : conn' = [conn EXCEPT ![c] = s]
  /\ UNCHANGED <<runPc, ln, state, active, stopPc>>

(* One of the two copies is done; the other one is not waited for.         *)
CopyEnds(c) ==
  /\ conn[c] = "relaying"
  /\ conn' = [conn EXCEPT ![c] = "closing"]
  /\ UNCHANGED <<runPc, ln, state, active, stopPc>>

CloseBoth(c) ==
  /\ conn[c] = "closing"
  /\ conn' = [conn EXCEPT ![c] = "closed"]
  /\ UNCHANGED <<runPc, ln, state, active, stopPc>>

LeaveCount == active' = active    \* mutant: an early return forgets it

CountDown == active' = active - 1

(* The first of the deferred calls runs last.                              *)
HandleReturns(c) ==
  /\ conn[c] = "closed"
  /\ CountDown
  /\ conn' = [conn EXCEPT ![c] = "none"]
  /\ UNCHANGED <<runPc, ln, state, stopPc>>

HandleStep(c) == Dial(c) \/ CloseBoth(c) \/ HandleReturns(c)

-----------------------------------------------------------------------------
(* Stop: close(f.stop), the listener, the state. Connections go on.        *)

StopBegins ==
  /\ stopPc = "idle" /\ runPc # "listen"
  /\ stopPc' = "close"
  /\ UNCHANGED <<runPc, ln, state, active, conn>>

LeaveOpen == ln' = ln    \* mutant: the listener is left to Run

CloseListener == ln' = IF ln = "open" THEN "closed" ELSE ln

StopCloses ==
  /\ stopPc = "close"
  /\ CloseListener
  /\ stopPc' = "state"
  /\ UNCHANGED <<runPc, state, active, conn>>

StopEnds ==
  /\ stopPc = "state"
  /\ state' = "stopped" /\ stopPc' = "done"
  /\ UNCHANGED <<runPc, ln, active, conn>>

Init ==
  /\ runPc = "listen" /\ ln = "none" /\ state = "starting"
  /\ active = 0 /\ conn = [c \in Conns |-> "none"]
  /\ stopPc = "idle"

Next ==
  \/ Listen \/ Refuse \/ Admit \/ Add \/ AcceptFails \/ KeepAccepting
  \/ \E c \in Conns : Accept(c) \/ Dial(c) \/ CopyEnds(c) \/ CloseBoth(c)
                      \/ HandleReturns(c)
  \/ StopBegins \/ StopCloses \/ StopEnds

(* Goroutines run, DialTimeout returns, a closed listener fails Accept.    *)
(* Nothing is assumed of clients and targets, or that Stop is ever called. *)
Fairness ==
  /\ WF_vars(RunStep)
  /\ WF_vars(StopCloses) /\ WF_vars(StopEnds)
  /\ \A c \in Conns : WF_vars(HandleStep(c))

Spec == Init /\ [][Next]_vars /\ Fairness

-----------------------------------------------------------------------------
(* Properties.                                                             *)

Handled == {"dialing", "relaying", "closing", "closed"}

(* f.active is the number of handle goroutines, in every order of the      *)
(* loop's add and their deferred subtractions: none is counted twice or    *)
(* forgotten, also after a dial that failed or a Stop in between.          *)
ActiveExact == active = Cardinality(In(Handled))

(* The limit is loaded in one step and the counter raised in another, while *)
(* handlers lower it: no more connections than MaxConnections are ever     *)
(* dialed or relayed at a time (the test in the accept loop).              *)
LimitKept ==
  MaxConnections > 0 =>
    Cardinality(In({"dialing", "relaying", "closing"})) <= MaxConnections

(* Once Run and Stop have both ended the forwarder reports "stopped", also *)
(* when Run stored "error" for an Accept that failed before Stop and was   *)
(* only told after it (the state of Status).                               *)
StoppedAtRest == runPc = "done" /\ stopPc = "done" => state = "stopped"

(* A Stop frees the port and ends the accept loop, wherever the loop was,  *)
(* and whatever the open connections do (Stop, Run).                       *)
StopReleases == Stopped ~> (ln # "open" /\ runPc = "done")
=============================================================================
