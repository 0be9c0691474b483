------------------------ MODULE TcpForwarderProofs --------------------------
(***************************************************************************)
(* What holds of TcpForwarder for any number of connections, any limit,    *)
(* and with or without accepts that fail.                                  *)
(***************************************************************************)
EXTENDS TcpForwarder, FiniteSetTheorems, TLAPS

(* The accept loop holds at most one connection it has not decided about.  *)
OneAccepted ==
  /\ (\E c \in Conns : conn[c] = "accepted") <=> runPc \in {"limit", "add"}
  /\ \A c, d \in Conns : conn[c] = "accepted" /\ conn[d] = "accepted" => c = d

(* Between the load of f.active and its add the count can only have        *)
(* fallen: no goroutine but Run raises it.                                 *)
Room ==
  MaxConnections > 0 =>
    /\ active <= MaxConnections
    /\ runPc = "add" => active < MaxConnections

(* Manager does not stop a forwarder that is still binding its port.       *)
BoundFirst == runPc = "listen" => stopPc = "idle"

CountInv == TypeOK /\ OneAccepted /\ ActiveExact /\ Room

-----------------------------------------------------------------------------

LEMMA HandledFinite ==
  /\ IsFiniteSet(In(Handled)) /\ Cardinality(In(Handled)) \in Nat
<1>1. In(Handled) \subseteq Conns
  BY DEF In
<1>2. IsFiniteSet(In(Handled))
  BY <1>1, TcpAssumption, FS_Subset DEF TcpAssumption
<1> QED BY <1>2, FS_CardinalityType

(* A step that neither starts nor ends a handler leaves the counter right. *)
LEMMA SameHandled ==
  ASSUME ActiveExact, active' = active,
         \A c \in Conns : conn'[c] \in Handled <=> conn[c] \in Handled
  PROVE  ActiveExact'
<1>1. In(Handled)' = In(Handled)
  BY DEF In
<1> QED BY <1>1 DEF ActiveExact

(* Every step keeps the types, given that the counter is exact.            *)
LEMMA TypeStep == TypeOK /\ ActiveExact /\ [Next]_vars => TypeOK'
<1> SUFFICES ASSUME TypeOK, ActiveExact, [Next]_vars PROVE TypeOK'
  OBVIOUS
<1>1. conn' \in [Conns -> {"none", "accepted", "dialing", "relaying",
                           "closing", "closed"}]
  <2>1. CASE Refuse
    BY <2>1 DEF TypeOK, Refuse
  <2>2. CASE Add
    BY <2>2 DEF TypeOK, Add
  <2>3. ASSUME NEW c \in Conns,
               Accept(c) \/ Dial(c) \/ CopyEnds(c) \/ CloseBoth(c) \/ HandleReturns(c)
        PROVE  conn' \in [Conns -> {"none", "accepted", "dialing", "relaying",
                                    "closing", "closed"}]
    BY <2>3 DEF TypeOK, Accept, Dial, CopyEnds, CloseBoth, HandleReturns
  <2>4. CASE conn' = conn
    BY <2>4 DEF TypeOK
  <2> QED BY <2>1, <2>2, <2>3, <2>4
          DEF Next, Listen, Admit, AcceptFails, KeepAccepting, StopBegins,
              StopCloses, StopEnds, vars
<1>2. active' \in Nat
  <2>1. ASSUME NEW c \in Conns, HandleReturns(c)
        PROVE  active' \in Nat
    <3>1. c \in In(Handled)
      BY <2>1 DEF HandleReturns, In, Handled
    <3>2. active # 0
      BY <3>1, HandledFinite, FS_EmptySet DEF ActiveExact
    <3> QED BY <2>1, <3>2 DEF TypeOK, HandleReturns, CountDown
  <2>2. CASE Add
    BY <2>2 DEF TypeOK, Add, CountNow
  <2>3. CASE active' = active
    BY <2>3 DEF TypeOK
  <2> QED BY <2>1, <2>2, <2>3
          DEF Next, Listen, Accept, Refuse, Admit, AcceptFails, KeepAccepting,
              Dial, CopyEnds, CloseBoth, StopBegins, StopCloses, StopEnds, vars
<1>3. /\ runPc' \in {"listen", "accept", "failed", "limit", "add", "done"}
      /\ ln' \in {"none", "open", "closed"}
      /\ state' \in {"starting", "running", "error", "stopped"}
      /\ stopPc' \in {"idle", "close", "state", "done"}
  BY DEF TypeOK, Next, Listen, Accept, Refuse, Admit, Add, AcceptFails,
     StoreStopped, KeepAccepting, Dial, CopyEnds, CloseBoth, HandleReturns,
     StopBegins, StopCloses, CloseListener, StopEnds, vars
<1> QED BY <1>1, <1>2, <1>3 DEF TypeOK

(* Accept takes a connection only when it holds none; Refuse and Add give  *)
(* it away.                                                                *)
LEMMA AcceptedStep == TypeOK /\ OneAccepted /\ [Next]_vars => OneAccepted'
<1> SUFFICES ASSUME TypeOK, OneAccepted, [Next]_vars PROVE OneAccepted'
  OBVIOUS
<1>1. ASSUME NEW c \in Conns, Accept(c)
      PROVE  OneAccepted'
  BY <1>1 DEF Accept, OneAccepted, TypeOK
<1>2. ASSUME NEW c \in Conns,
             Dial(c) \/ CopyEnds(c) \/ CloseBoth(c) \/ HandleReturns(c)
      PROVE  /\ runPc' = runPc
             /\ \A d \in Conns : conn'[d] = "accepted" <=> conn[d] = "accepted"
  BY <1>2 DEF Dial, CopyEnds, CloseBoth, HandleReturns, TypeOK
<1>3. CASE Refuse \/ Add
  BY <1>3 DEF Refuse, Add, OneAccepted
<1>4. CASE /\ UNCHANGED conn
           /\ runPc' \in {"limit", "add"} <=> runPc \in {"limit", "add"}
  BY <1>4 DEF OneAccepted
<1>5. CASE \E c \in Conns : Dial(c) \/ CopyEnds(c) \/ CloseBoth(c)
                            \/ HandleReturns(c)
  BY <1>2, <1>5 DEF OneAccepted
<1> QED BY <1>1, <1>3, <1>4, <1>5
        DEF Next, Listen, Admit, AcceptFails, KeepAccepting, StopBegins,
            StopCloses, StopEnds, vars

(* The counter follows the handlers: only Add starts one, and only the     *)
(* last deferred call ends one.                                            *)
LEMMA ActiveStep ==
  TypeOK /\ OneAccepted /\ ActiveExact /\ [Next]_vars => ActiveExact'
<1> SUFFICES ASSUME TypeOK, OneAccepted, ActiveExact, [Next]_vars
             PROVE  ActiveExact'
  OBVIOUS
<1>1. CASE Add
  <2>1. PICK c \in Conns : conn[c] = "accepted"
    BY <1>1 DEF Add, OneAccepted
  <2>2. conn' = [conn EXCEPT ![c] = "dialing"]
    BY <1>1, <2>1 DEF Add, OneAccepted, TypeOK
  <2>3. In(Handled)' = In(Handled) \cup {c} /\ c \notin In(Handled)
    BY <2>1, <2>2 DEF In, Handled, TypeOK
  <2>4. Cardinality(In(Handled)') = Cardinality(In(Handled)) + 1
    BY <2>3, HandledFinite, FS_AddElement
  <2> QED BY <1>1, <2>4 DEF ActiveExact, Add, CountNow
<1>2. ASSUME NEW c \in Conns, HandleReturns(c)
      PROVE  ActiveExact'
  <2>1. In(Handled)' = In(Handled) \ {c} /\ c \in In(Handled)
    BY <1>2 DEF HandleReturns, In, Handled, TypeOK
  <2>2. Cardinality(In(Handled)') = Cardinality(In(Handled)) - 1
    BY <2>1, HandledFinite, FS_RemoveElement
  <2> QED BY <1>2, <2>2 DEF ActiveExact, HandleReturns, CountDown
<1>3. ASSUME NEW c \in Conns, Accept(c) \/ Dial(c) \/ CopyEnds(c) \/ CloseBoth(c)
      PROVE  ActiveExact'
  <2>1. \A d \in Conns : conn'[d] \in Handled <=> conn[d] \in Handled
    BY <1>3 DEF Accept, Dial, CopyEnds, CloseBoth, Handled, TypeOK
  <2>2. active' = active
    BY <1>3 DEF Accept, Dial, CopyEnds, CloseBoth
  <2> QED BY <2>1, <2>2, SameHandled
<1>4. CASE Refuse
  <2>1. \A d \in Conns : conn'[d] \in Handled <=> conn[d] \in Handled
    BY <1>4 DEF Refuse, Handled
  <2> QED BY <1>4, <2>1, SameHandled DEF Refuse
<1>5. CASE UNCHANGED <<active, conn>>
  BY <1>5, SameHandled
<1> QED BY <1>1, <1>2, <1>3, <1>4, <1>5
        DEF Next, Listen, Admit, AcceptFails, KeepAccepting, StopBegins,
            StopCloses, StopEnds, vars

(* Add follows an Admit that saw room, and nothing took it in between.     *)
LEMMA RoomStep ==
  TypeOK /\ ActiveExact /\ Room /\ [Next]_vars => Room'
<1> SUFFICES ASSUME TypeOK, ActiveExact, Room, [Next]_vars,
                    MaxConnections > 0
             PROVE  /\ active' <= MaxConnections
                    /\ runPc' = "add" => active' < MaxConnections
  BY DEF Room
<1>1. active \in Nat /\ MaxConnections \in Nat
  BY TcpAssumption DEF TcpAssumption, TypeOK
<1>2. CASE Add
  BY <1>1, <1>2 DEF Add, CountNow, Room
<1>3. CASE Admit
  BY <1>1, <1>3 DEF Admit, Full, Room
<1>4. ASSUME NEW c \in Conns, HandleReturns(c)
      PROVE  active' = active - 1 /\ runPc' = runPc
  BY <1>4 DEF HandleReturns, CountDown
<1>5. CASE active' = active /\ (runPc' = "add" => runPc = "add")
  BY <1>5 DEF Room
<1>6. CASE \E c \in Conns : HandleReturns(c)
  BY <1>1, <1>4, <1>6 DEF Room
<1> QED BY <1>2, <1>3, <1>5, <1>6
        DEF Next, Listen, Accept, Refuse, AcceptFails, KeepAccepting, Dial,
            CopyEnds, CloseBoth, StopBegins, StopCloses, StopEnds, vars

(* The initial state, where nothing is open yet.                           *)
LEMMA CountInit == Init => CountInv
<1> SUFFICES ASSUME Init PROVE CountInv
  OBVIOUS
<1>1. TypeOK /\ OneAccepted
  BY DEF Init, TypeOK, OneAccepted
<1>2. ActiveExact
  <2>1. In(Handled) = {}
    BY DEF Init, In, Handled
  <2> QED BY <2>1, FS_EmptySet DEF Init, ActiveExact
<1>3. Room
  BY TcpAssumption DEF TcpAssumption, Init, Room
<1> QED BY <1>1, <1>2, <1>3 DEF CountInv

LEMMA CountInvariant == Spec => []CountInv
<1>1. CountInv /\ [Next]_vars => CountInv'
  BY TypeStep, AcceptedStep, ActiveStep, RoomStep DEF CountInv
<1> QED BY <1>1, CountInit, PTL DEF Spec

-----------------------------------------------------------------------------

(* The variables keep their types; f.active never becomes negative.        *)
THEOREM TypeCorrect == Spec => []TypeOK
<1>1. CountInv => TypeOK
  BY DEF CountInv
<1> QED BY <1>1, CountInvariant, PTL

(* f.active is exactly the number of handle goroutines, always.            *)
THEOREM CounterExact == Spec => []ActiveExact
<1>1. CountInv => ActiveExact
  BY DEF CountInv
<1> QED BY <1>1, CountInvariant, PTL

(* Load and add are two steps and still the limit of the rule is never     *)
(* passed: of the goroutines that touch f.active only Run raises it.       *)
THEOREM NeverOverLimit == Spec => []LimitKept
<1>1. CountInv => LimitKept
  <2> DEFINE Open == In({"dialing", "relaying", "closing"})
  <2> SUFFICES ASSUME CountInv, MaxConnections > 0
               PROVE  Cardinality(Open) <= MaxConnections
    BY DEF LimitKept
  <2>1. Open \subseteq In(Handled)
    BY DEF In, Handled
  <2>2. /\ Cardinality(Open) <= Cardinality(In(Handled))
        /\ Cardinality(Open) \in Nat
    BY <2>1, HandledFinite, FS_Subset, FS_CardinalityType
  <2>3. Cardinality(In(Handled)) <= MaxConnections
    BY DEF CountInv, ActiveExact, Room
  <2>4. Cardinality(In(Handled)) \in Nat /\ MaxConnections \in Nat
    BY HandledFinite, TcpAssumption DEF TcpAssumption
  <2> HIDE DEF Open
  <2> QED BY <2>2, <2>3, <2>4
<1> QED BY <1>1, CountInvariant, PTL

(* When both goroutines have ended the state is "stopped": an Accept error *)
(* that Run handles late never has the last word.                          *)
THEOREM StoppedInTheEnd == Spec => []StoppedAtRest
<1>1. Init => BoundFirst /\ StoppedAtRest
  BY DEF Init, BoundFirst, StoppedAtRest
<1>2. ASSUME BoundFirst, StoppedAtRest, [Next]_vars
      PROVE  BoundFirst' /\ StoppedAtRest'
  BY <1>2 DEF BoundFirst, StoppedAtRest, Stopped, Next, Listen, Accept, Refuse,
              Admit, Add, AcceptFails, StoreStopped, KeepAccepting, Dial,
              CopyEnds, CloseBoth, HandleReturns, StopBegins, StopCloses,
              StopEnds, vars
<1> QED BY <1>1, <1>2, PTL DEF Spec
=============================================================================
