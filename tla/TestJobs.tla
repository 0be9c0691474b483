------------------------------ MODULE TestJobs ------------------------------
(***************************************************************************)
(* What a connectivity test promises to the user who asked for it, without *)
(* the agent, the heartbeats and what may go wrong with them: a test is    *)
(* handed out once, performed once at most, and what is shown in the end,  *)
(* and for good, is what the node found.  Exchange implements it.          *)
(***************************************************************************)
EXTENDS Integers

CONSTANTS Tests, Outcomes, None

VARIABLES
  shown,   \* what the panel shows of a test
  found    \* what the node found when it performed it

jobs == <<shown, found>>

Init ==
  /\ shown = [t \in Tests |-> "absent"]
  /\ found = [t \in Tests |-> None]

Create(t) ==
  /\ shown[t] = "absent"
  /\ shown' = [shown EXCEPT ![t] = "queued"]
  /\ UNCHANGED found

HandOut(S) ==
  /\ \A t \in S : shown[t] = "queued"
  /\ shown' = [t \in Tests |-> IF t \in S THEN "running" ELSE shown[t]]
  /\ UNCHANGED found

(* A test that was removed while it was running is performed all the same. *)
Perform(t, o) ==
  /\ shown[t] \in {"running", "gone"} /\ found[t] = None
  /\ found' = [found EXCEPT ![t] = o]
  /\ UNCHANGED shown

Publish(S) ==
  /\ \A t \in S : shown[t] = "running" /\ found[t] # None
  /\ shown' = [t \in Tests |-> IF t \in S THEN found[t] ELSE shown[t]]
  /\ UNCHANGED found

Remove(t) ==
  /\ shown[t] # "absent"
  /\ shown' = [shown EXCEPT ![t] = "gone"]
  /\ UNCHANGED found

Next ==
  \/ \E t \in Tests : Create(t) \/ Remove(t) \/ \E o \in Outcomes : Perform(t, o)
  \/ \E S \in SUBSET Tests : HandOut(S) \/ Publish(S)

Spec == Init /\ [][Next]_jobs
=============================================================================
