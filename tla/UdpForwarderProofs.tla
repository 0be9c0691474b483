------------------------ MODULE UdpForwarderProofs --------------------------
(***************************************************************************)
(* What holds of UdpForwarder for any clients, session objects and limit,  *)
(* whether Stop comes early and dialing is slow or not.                    *)
(***************************************************************************)
EXTENDS UdpForwarder, FiniteSetTheorems, TLAPS

(* Run works for a client, and what it dials is a session of that client.  *)
RunHolds ==
  /\ runPc \in {"session", "dial"} => from \in Clients
  /\ runPc = "dial" => /\ held \in Ids
                       /\ sess[held].client = from
                       /\ sess[held].remote = "nil"

(* A session gets its reader together with its remote.                     *)
ReaderAfterRemote ==
  \A i \in Ids : sess[i].remote = "nil" => sess[i].reader = "none"

(* What Full tests bounds the table itself, also while Stop empties it.    *)
TableBounded ==
  MaxConnections > 0 => Cardinality(Listed(table)) <= MaxConnections

TableInv == TypeOK /\ RunHolds /\ ReaderAfterRemote /\ SessionServed

-----------------------------------------------------------------------------

LEMMA ListedFinite ==
  /\ IsFiniteSet(Listed(table)) /\ Cardinality(Listed(table)) \in Nat
<1>1. Listed(table) \subseteq Clients
  BY DEF Listed
<1>2. IsFiniteSet(Listed(table))
  BY <1>1, UdpAssumption, FS_Subset DEF UdpAssumption
<1> QED BY <1>2, FS_CardinalityType

LEMMA ListedFiniteAfter == Cardinality(Listed(table')) \in Nat
<1>1. Listed(table') \subseteq Clients
  BY DEF Listed
<1> QED BY <1>1, UdpAssumption, FS_Subset, FS_CardinalityType DEF UdpAssumption

LEMMA NoSessionType == NoSession \in Sessions
BY DEF NoSession, Sessions

(* The helpers that change the table and the sessions keep their types.    *)
LEMMA HelperTypes ==
  ASSUME TypeOK
  PROVE  /\ \A c : Unlist(c) => /\ table' \in [Clients -> Ids \cup {None}]
                                /\ active' \in Nat
         /\ \A S : CloseAll(S) => /\ table' \in [Clients -> Ids \cup {None}]
                                  /\ sess' \in [Ids -> Sessions]
                                  /\ alive' \in BOOLEAN
<1>1. ASSUME NEW c, Unlist(c)
      PROVE  table' \in [Clients -> Ids \cup {None}] /\ active' \in Nat
  BY <1>1, ListedFiniteAfter DEF Unlist, TypeOK
<1>2. ASSUME NEW S, CloseAll(S)
      PROVE  /\ table' \in [Clients -> Ids \cup {None}]
             /\ sess' \in [Ids -> Sessions]
             /\ alive' \in BOOLEAN
  <2>1. CASE UNCHANGED <<table, sess>> /\ alive' = FALSE
    BY <2>1 DEF TypeOK
  <2>2. CASE \E c \in S : sess[table[c]].remote = "nil"
    BY <1>2, <2>1, <2>2 DEF CloseAll
  <2>3. CASE ~ \E c \in S : sess[table[c]].remote = "nil"
    <3>1. /\ alive' = alive
          /\ sess' = [i \in Ids |-> IF \E c \in S : table[c] = i
                                    THEN [sess[i] EXCEPT !.remote = "closed"]
                                    ELSE sess[i]]
          /\ table' = [c \in Clients |-> IF c \in S THEN None ELSE table[c]]
      BY <1>2, <2>3 DEF CloseAll
    <3>2. \A i \in Ids : [sess[i] EXCEPT !.remote = "closed"] \in Sessions
                         /\ sess[i] \in Sessions
      BY DEF TypeOK, Sessions
    <3>3. sess' \in [Ids -> Sessions]
      BY <3>1, <3>2
    <3>4. table' \in [Clients -> Ids \cup {None}]
      BY <3>1 DEF TypeOK
    <3> QED BY <3>1, <3>3, <3>4 DEF TypeOK
  <2> QED BY <2>2, <2>3
<1> QED BY <1>1, <1>2

(* Every step keeps the types.                                             *)
LEMMA TypeStep == TypeOK /\ RunHolds /\ [Next]_vars => TypeOK'
<1> SUFFICES ASSUME TypeOK, RunHolds, [Next]_vars PROVE TypeOK'
  OBVIOUS
<1> USE DEF TypeOK, runVars, stopVars
<1>1. CASE Listen \/ Publish \/ ReadError
  BY <1>1 DEF Listen, Publish, ReadError
<1>2. ASSUME NEW c \in Clients, Read(c)
      PROVE  TypeOK'
  BY <1>2 DEF Read
<1>3. CASE FoundSession
  <2>1. [sess[table[from]] EXCEPT !.idle = FALSE] \in Sessions
        /\ table[from] \in Ids
    BY <1>3 DEF FoundSession, RunHolds, Sessions
  <2>2. sess' \in [Ids -> Sessions]
    BY <1>3, <2>1 DEF FoundSession
  <2> QED BY <1>3, <2>1, <2>2 DEF FoundSession
<1>4. CASE SessionRefused \/ Write
  BY <1>4 DEF SessionRefused, Write
<1>5. ASSUME NEW i \in Ids, Reserve(i)
      PROVE  TypeOK'
  <2>1. sess' \in [Ids -> Sessions]
    <3>1. [client |-> from, remote |-> "nil", reader |-> "none", idle |-> FALSE]
            \in Sessions
      BY DEF Sessions
    <3> QED BY <1>5, <3>1 DEF Reserve
  <2>2. active' \in Nat
    BY <1>5, ListedFiniteAfter DEF Reserve
  <2> QED BY <1>5, <2>1, <2>2 DEF Reserve
<1>6. CASE Dialed
  <2>1. [sess[held] EXCEPT !.remote = "open", !.reader = "running"] \in Sessions
        /\ held \in Ids
    BY <1>6 DEF Dialed, RunHolds, Sessions
  <2>2. sess' = [sess EXCEPT ![held] = [sess[held] EXCEPT !.remote = "open",
                                                          !.reader = "running"]]
    BY <1>6, <2>1 DEF Dialed
  <2>3. sess' \in [Ids -> Sessions]
    BY <2>1, <2>2
  <2> QED BY <1>6, <2>3 DEF Dialed
<1>7. CASE DialFailed
  <2>1. sess' \in [Ids -> Sessions]
    BY <1>7, NoSessionType DEF DialFailed
  <2> QED BY <1>7, <2>1, HelperTypes DEF DialFailed
<1>8. ASSUME NEW i \in Ids
      PROVE  /\ [sess EXCEPT ![i].reader = "removing"] \in [Ids -> Sessions]
             /\ [sess EXCEPT ![i].reader = "closing"] \in [Ids -> Sessions]
  <2>1. /\ [sess[i] EXCEPT !.reader = "removing"] \in Sessions
        /\ [sess[i] EXCEPT !.reader = "closing"] \in Sessions
    BY DEF Sessions
  <2> QED BY <2>1
<1>9. ASSUME NEW i \in Ids, RemoteEnds(i) \/ RemoveSession(i) \/ CloseRemote(i)
      PROVE  TypeOK'
  <2>1. CASE RemoteEnds(i)
    <3>1. sess' \in [Ids -> Sessions]
      BY <1>8, <2>1 DEF RemoteEnds
    <3> QED BY <2>1, <3>1 DEF RemoteEnds
  <2>2. CASE RemoveSession(i)
    <3>1. sess' \in [Ids -> Sessions]
      BY <1>8, <2>2 DEF RemoveSession
    <3> QED BY <2>2, <3>1, HelperTypes DEF RemoveSession
  <2>3. CASE CloseRemote(i)
    BY <2>3, NoSessionType DEF CloseRemote
  <2> QED BY <1>9, <2>1, <2>2, <2>3
<1>10. ASSUME NEW i \in Ids, GoesIdle(i)
       PROVE  TypeOK'
  <2>1. [sess[i] EXCEPT !.idle = TRUE] \in Sessions
    BY DEF Sessions
  <2>2. sess' \in [Ids -> Sessions]
    BY <1>10, <2>1 DEF GoesIdle
  <2> QED BY <1>10, <2>2 DEF GoesIdle
<1>11. CASE CleanerTick
  BY <1>11, HelperTypes, ListedFiniteAfter DEF CleanerTick
<1>12. CASE CleanerEnds \/ StopBegins \/ StopConn \/ StopEnds
  BY <1>12 DEF CleanerEnds, StopBegins, StopConn, CloseConn, StopEnds
<1>13. CASE StopSessions
  BY <1>13, HelperTypes DEF StopSessions
<1>14. CASE UNCHANGED vars
  BY <1>14 DEF vars
<1> QED BY <1>1, <1>2, <1>3, <1>4, <1>5, <1>6, <1>7, <1>9, <1>10, <1>11, <1>12,
           <1>13, <1>14 DEF Next, StopStep

(* Only Run moves Run, and nobody else touches a session it is dialing: it *)
(* has no reader, and closing its remote would panic.                      *)
LEMMA RunHoldsStep ==
  TypeOK /\ RunHolds /\ ReaderAfterRemote /\ [Next]_vars => RunHolds'
<1> SUFFICES ASSUME TypeOK, RunHolds, ReaderAfterRemote, [Next]_vars
             PROVE  RunHolds'
  OBVIOUS
<1> USE DEF TypeOK, RunHolds, runVars, stopVars
<1>1. CASE Listen \/ Publish \/ ReadError \/ FoundSession \/ SessionRefused
           \/ Dialed \/ DialFailed \/ Write \/ StopBegins \/ StopConn
           \/ StopEnds \/ CleanerEnds \/ UNCHANGED vars
  BY <1>1 DEF Listen, Publish, ReadError, FoundSession, SessionRefused, Dialed,
              DialFailed, Write, StopBegins, StopConn, StopEnds, CleanerEnds, vars
<1>2. ASSUME NEW c \in Clients, Read(c)
      PROVE  RunHolds'
  BY <1>2 DEF Read
<1>3. ASSUME NEW i \in Ids, Reserve(i)
      PROVE  RunHolds'
  BY <1>3 DEF Reserve
<1>4. ASSUME NEW i \in Ids,
             RemoteEnds(i) \/ RemoveSession(i) \/ CloseRemote(i) \/ GoesIdle(i)
      PROVE  RunHolds'
  <2>1. CASE runPc = "dial"
    <3>1. sess[held].reader = "none" /\ held \in Ids
      BY <2>1 DEF ReaderAfterRemote
    <3>2. /\ sess'[held].client = sess[held].client
          /\ sess'[held].remote = sess[held].remote
      BY <1>4, <3>1
         DEF Sessions, RemoteEnds, RemoveSession, CloseRemote, GoesIdle
    <3> QED BY <1>4, <2>1, <3>2
            DEF RemoteEnds, RemoveSession, CloseRemote, GoesIdle
  <2>2. CASE runPc # "dial"
    BY <1>4, <2>2 DEF RemoteEnds, RemoveSession, CloseRemote, GoesIdle
  <2> QED BY <2>1, <2>2
<1>5. ASSUME NEW S, CloseAll(S), UNCHANGED runVars
      PROVE  RunHolds'
  <2>1. CASE sess' = sess
    BY <1>5, <2>1
  <2>2. CASE /\ ~ \E c \in S : sess[table[c]].remote = "nil"
             /\ sess' = [i \in Ids |-> IF \E c \in S : table[c] = i
                                       THEN [sess[i] EXCEPT !.remote = "closed"]
                                       ELSE sess[i]]
    BY <1>5, <2>2
  <2> QED BY <1>5, <2>1, <2>2 DEF CloseAll
<1>6. CASE CleanerTick \/ StopSessions
  BY <1>5, <1>6 DEF CleanerTick, StopSessions
<1> QED BY <1>1, <1>2, <1>3, <1>4, <1>6 DEF Next, StopStep

LEMMA ReaderStepInv ==
  TypeOK /\ RunHolds /\ ReaderAfterRemote /\ [Next]_vars => ReaderAfterRemote'
<1> SUFFICES ASSUME TypeOK, RunHolds, ReaderAfterRemote, [Next]_vars
             PROVE  ReaderAfterRemote'
  OBVIOUS
<1> USE DEF TypeOK, RunHolds, ReaderAfterRemote
<1>1. CASE UNCHANGED sess
  BY <1>1
<1>2. CASE FoundSession \/ Dialed \/ DialFailed
  <2>1. CASE FoundSession
    <3>1. /\ table[from] \in Ids
          /\ sess' = [sess EXCEPT ![table[from]].idle = FALSE]
      BY <2>1 DEF FoundSession
    <3>2. \A j \in Ids : /\ sess'[j].remote = sess[j].remote
                         /\ sess'[j].reader = sess[j].reader
      BY <3>1 DEF Sessions
    <3> QED BY <3>2
  <2>2. CASE Dialed
    <3>1. /\ sess'[held].remote = "open"
          /\ \A j \in Ids \ {held} : sess'[j] = sess[j]
      BY <2>2 DEF Dialed, Sessions
    <3> QED BY <3>1
  <2>3. CASE DialFailed
    <3>1. /\ sess'[held].remote = "closed"
          /\ \A j \in Ids \ {held} : sess'[j] = sess[j]
      BY <2>3 DEF DialFailed, NoSession
    <3> QED BY <3>1
  <2> QED BY <1>2, <2>1, <2>2, <2>3
<1>3. ASSUME NEW i \in Ids, Reserve(i)
      PROVE  ReaderAfterRemote'
  BY <1>3 DEF Reserve
<1>4. ASSUME NEW i \in Ids,
             RemoteEnds(i) \/ RemoveSession(i) \/ CloseRemote(i) \/ GoesIdle(i)
      PROVE  ReaderAfterRemote'
  <2>1. \A j \in Ids \ {i} : sess'[j] = sess[j]
    BY <1>4 DEF RemoteEnds, RemoveSession, CloseRemote, GoesIdle
  <2>2. sess[i] \in Sessions /\ sess \in [Ids -> Sessions]
    OBVIOUS
  <2>3. CASE RemoteEnds(i) \/ RemoveSession(i)
    <3>1. sess[i].reader # "none" /\ sess'[i].remote = sess[i].remote
      BY <2>2, <2>3 DEF RemoteEnds, RemoveSession, Sessions
    <3> QED BY <2>1, <3>1
  <2>4. CASE CloseRemote(i)
    <3>1. sess'[i].remote = "closed"
      BY <2>2, <2>4 DEF CloseRemote, NoSession
    <3> QED BY <2>1, <3>1
  <2>5. CASE GoesIdle(i)
    <3>1. /\ sess'[i].remote = sess[i].remote
          /\ sess'[i].reader = sess[i].reader
      BY <2>2, <2>5 DEF GoesIdle, Sessions
    <3> QED BY <2>1, <3>1
  <2> QED BY <1>4, <2>3, <2>4, <2>5
<1>5. ASSUME NEW S, CloseAll(S)
      PROVE  ReaderAfterRemote'
  <2>1. CASE sess' = [i \in Ids |-> IF \E d \in S : table[d] = i
                                   THEN [sess[i] EXCEPT !.remote = "closed"]
                                   ELSE sess[i]]
    <3>1. \A i \in Ids : sess'[i] = sess[i] \/ sess'[i].remote = "closed"
      BY <2>1 DEF Sessions
    <3> QED BY <3>1
  <2> QED BY <1>1, <1>5, <2>1 DEF CloseAll
<1> QED BY <1>1, <1>2, <1>3, <1>4, <1>5
        DEF Next, Listen, Publish, ReadError, Read, SessionRefused, Write,
            CleanerTick, CleanerEnds, StopBegins, StopStep, StopConn,
            StopSessions, StopEnds, vars

(* Unlisting by address takes away the only entry of the object: every     *)
(* entry is listed under the client of its session.                        *)
LEMMA ServedStep == TableInv /\ [Next]_vars => SessionServed'
<1> SUFFICES ASSUME TypeOK, RunHolds, ReaderAfterRemote, SessionServed,
                    [Next]_vars,
                    NEW c \in Clients, table'[c] # None
             PROVE  LET s == sess'[table'[c]] IN
                      /\ s.client = c
                      /\ \/ /\ s.remote = "nil" /\ runPc' = "dial"
                            /\ held' = table'[c] /\ from' = c
                         \/ s.remote = "open" /\ s.reader \in {"running", "removing"}
  BY DEF TableInv, SessionServed, Listed
<1> DEFINE Served(s) ==
      /\ s.client = c
      /\ \/ /\ s.remote = "nil" /\ runPc' = "dial"
            /\ held' = table'[c] /\ from' = c
         \/ s.remote = "open" /\ s.reader \in {"running", "removing"}
<1> SUFFICES Served(sess'[table'[c]])
  OBVIOUS
<1>a. ASSUME table[c] # None
      PROVE  /\ table[c] \in Ids
             /\ sess[table[c]].client = c
             /\ \/ /\ sess[table[c]].remote = "nil" /\ runPc = "dial"
                   /\ held = table[c] /\ from = c
                \/ /\ sess[table[c]].remote = "open"
                   /\ sess[table[c]].reader \in {"running", "removing"}
  BY <1>a DEF SessionServed, Listed, TypeOK
<1>1. CASE UNCHANGED <<table, sess>> /\ (runPc = "dial" => UNCHANGED runVars)
  BY <1>1, <1>a DEF runVars
<1>2. CASE FoundSession
  BY <1>2, <1>a DEF FoundSession, TypeOK
<1>3. CASE Dialed
  BY <1>3, <1>a DEF Dialed, TypeOK, RunHolds
<1>4. CASE DialFailed
  BY <1>4, <1>a DEF DialFailed, Unlist, TypeOK, RunHolds
<1>5. ASSUME NEW i \in Ids, Reserve(i)
      PROVE  Served(sess'[table'[c]])
  BY <1>5, <1>a DEF Reserve, Unused, TypeOK
<1>6. ASSUME NEW i \in Ids, RemoteEnds(i) \/ GoesIdle(i)
      PROVE  Served(sess'[table'[c]])
  <2>1. table' = table /\ UNCHANGED runVars /\ sess \in [Ids -> Sessions]
    BY <1>6 DEF RemoteEnds, GoesIdle, TypeOK
  <2>2. \A j \in Ids : /\ sess'[j].client = sess[j].client
                       /\ sess'[j].remote = sess[j].remote
                       /\ \/ sess'[j].reader = sess[j].reader
                          \/ /\ sess[j].reader = "running"
                             /\ sess'[j].reader = "removing"
    BY <1>6, <2>1 DEF RemoteEnds, GoesIdle, Sessions
  <2> QED BY <1>a, <2>1, <2>2 DEF runVars, ReaderAfterRemote
<1>7. ASSUME NEW i \in Ids, RemoveSession(i)
      PROVE  Served(sess'[table'[c]])
  BY <1>7, <1>a DEF RemoveSession, Unlist, ReaderAfterRemote, TypeOK, runVars
<1>8. ASSUME NEW i \in Ids, CloseRemote(i)
      PROVE  Served(sess'[table'[c]])
  BY <1>8, <1>a DEF CloseRemote, ReaderAfterRemote, TypeOK, runVars
<1>9. ASSUME NEW S, CloseAll(S), S \subseteq Clients, UNCHANGED runVars
      PROVE  Served(sess'[table'[c]])
  <2>1. CASE UNCHANGED <<table, sess>>
    BY <1>9, <1>1, <2>1
  <2>2. CASE /\ sess' = [i \in Ids |-> IF \E d \in S : table[d] = i
                                       THEN [sess[i] EXCEPT !.remote = "closed"]
                                       ELSE sess[i]]
             /\ table' = [d \in Clients |-> IF d \in S THEN None ELSE table[d]]
    <3>1. c \notin S /\ table'[c] = table[c] /\ table[c] # None
      BY <2>2
    <3>2. ASSUME NEW d \in S, table[d] = table[c]
          PROVE  d = c
      BY <1>9, <1>a, <3>1, <3>2 DEF SessionServed, Listed
    <3>3. sess'[table'[c]] = sess[table[c]]
      BY <1>a, <2>2, <3>1, <3>2
    <3> QED BY <1>9, <1>a, <3>1, <3>3 DEF runVars
  <2> QED BY <1>9, <2>1, <2>2 DEF CloseAll
<1>10. CASE CleanerTick \/ StopSessions
  BY <1>9, <1>10 DEF CleanerTick, StopSessions, Idle, Listed
<1> HIDE DEF Served
<1> QED BY <1>1, <1>2, <1>3, <1>4, <1>5, <1>6, <1>7, <1>8, <1>10
        DEF Next, Listen, Publish, ReadError, Read, SessionRefused, Write,
            CleanerEnds, StopBegins, StopStep, StopConn, StopEnds, vars,
            runVars, stopVars

LEMMA TableInit == Init => TableInv
<1> SUFFICES ASSUME Init PROVE TableInv
  OBVIOUS
<1>1. TypeOK
  BY NoSessionType DEF Init, TypeOK
<1>2. RunHolds /\ ReaderAfterRemote /\ SessionServed
  BY DEF Init, RunHolds, ReaderAfterRemote, SessionServed, Listed, NoSession
<1> QED BY <1>1, <1>2 DEF TableInv

LEMMA TableInvariant == Spec => []TableInv
<1>1. TableInv /\ [Next]_vars => TableInv'
  BY TypeStep, RunHoldsStep, ReaderStepInv, ServedStep DEF TableInv
<1> QED BY <1>1, TableInit, PTL DEF Spec

-----------------------------------------------------------------------------

(* The table grows by one entry, and only when Full let it.                *)
LEMMA TableGrows ==
  ASSUME TypeOK, RunHolds, TableBounded, NEW i \in Ids, Reserve(i)
  PROVE  TableBounded'
<1> SUFFICES ASSUME MaxConnections > 0
             PROVE  Cardinality(Listed(table')) <= MaxConnections
  BY DEF TableBounded, Listed
<1>1. Listed(table') = Listed(table) \cup {from} /\ from \notin Listed(table)
  BY UdpAssumption DEF UdpAssumption, Reserve, RunHolds, TypeOK, Listed
<1>2. Cardinality(Listed(table')) = Cardinality(Listed(table)) + 1
  BY <1>1, ListedFinite, FS_AddElement
<1>3. /\ Cardinality(Listed(table)) \in Nat /\ MaxConnections \in Nat
      /\ ~ (Cardinality(Listed(table)) >= MaxConnections)
  BY ListedFinite, UdpAssumption DEF UdpAssumption, Reserve, Full
<1> QED BY <1>2, <1>3

(* Every other step leaves the table alone or takes entries out of it.     *)
LEMMA TableShrinks ==
  ASSUME TableBounded, Listed(table') \subseteq Listed(table)
  PROVE  TableBounded'
<1>1. /\ Cardinality(Listed(table')) <= Cardinality(Listed(table))
      /\ Cardinality(Listed(table')) \in Nat
      /\ Cardinality(Listed(table)) \in Nat
  BY ListedFinite, ListedFiniteAfter, FS_Subset
<1> QED BY <1>1, UdpAssumption DEF UdpAssumption, TableBounded, Listed

(* What a step may do to the entries and to the counter.                   *)
LEMMA TableStep ==
  ASSUME TypeOK, [Next]_vars
  PROVE  /\ \/ \E i \in Ids : Reserve(i)
            \/ Listed(table') \subseteq Listed(table)
         /\ \/ UNCHANGED <<table, active>>
            \/ active' = Cardinality(Listed(table'))
            \/ Stopped'
<1>1. ASSUME NEW c, Unlist(c)
      PROVE  Listed(table') \subseteq Listed(table)
  BY <1>1 DEF Unlist, Listed, TypeOK
<1>2. ASSUME NEW S, CloseAll(S)
      PROVE  Listed(table') \subseteq Listed(table)
  BY <1>2 DEF CloseAll, Listed
<1>3. CASE UNCHANGED <<table, active>>
  BY <1>3
<1>4. ASSUME NEW i \in Ids, Reserve(i)
      PROVE  active' = Cardinality(Listed(table'))
  BY <1>4 DEF Reserve
<1>5. ASSUME NEW c, Unlist(c)
      PROVE  active' = Cardinality(Listed(table'))
  BY <1>5 DEF Unlist
<1>6. CASE DialFailed
  BY <1>1, <1>5, <1>6 DEF DialFailed
<1>7. ASSUME NEW i \in Ids, RemoveSession(i)
      PROVE  /\ Listed(table') \subseteq Listed(table)
             /\ active' = Cardinality(Listed(table'))
  BY <1>1, <1>5, <1>7 DEF RemoveSession
<1>8. CASE CleanerTick
  BY <1>2, <1>8 DEF CleanerTick
<1>9. CASE StopSessions
  BY <1>2, <1>9 DEF StopSessions, Stopped
<1> QED BY <1>3, <1>4, <1>6, <1>7, <1>8, <1>9
        DEF Next, Listen, Publish, ReadError, Read, FoundSession,
            SessionRefused, Dialed, Write, RemoteEnds, CloseRemote, GoesIdle,
            CleanerEnds, StopBegins, StopStep, StopConn, StopEnds, vars

LEMMA BoundInvariant == Spec => []TableBounded
<1>1. Init => TableBounded
  <2>1. Init => Listed(table) = {}
    BY DEF Init, Listed
  <2> QED BY <2>1, UdpAssumption, FS_EmptySet DEF UdpAssumption, TableBounded
<1>2. TableInv /\ TableBounded /\ [Next]_vars => TableBounded'
  BY TableGrows, TableShrinks, TableStep DEF TableInv
<1> QED BY <1>1, <1>2, TableInvariant, PTL DEF Spec

(* Until Stop the reported number is the number of entries: Stop is the    *)
(* only one that empties the table without storing it.                     *)
LEMMA CountStep ==
  ASSUME TypeOK, TableBounded', ActiveCounted, [Next]_vars
  PROVE  ActiveCounted'
<1> SUFFICES ASSUME ~ Stopped'
             PROVE  /\ active' = Cardinality(Listed(table'))
                    /\ MaxConnections > 0 => active' <= MaxConnections
  BY DEF ActiveCounted, Listed
<1>1. ~ Stopped
  BY DEF Stopped, Next, Listen, Publish, ReadError, Read, FoundSession,
     SessionRefused, Reserve, Dialed, DialFailed, Write, RemoteEnds,
     RemoveSession, CloseRemote, GoesIdle, CleanerTick, CleanerEnds,
     StopBegins, StopStep, StopConn, StopSessions, StopEnds, vars, stopVars
<1>2. active' = Cardinality(Listed(table'))
  <2>1. CASE UNCHANGED <<table, active>>
    BY <1>1, <2>1 DEF ActiveCounted
  <2> QED BY <2>1, TableStep
<1> QED BY <1>2 DEF TableBounded, Listed

-----------------------------------------------------------------------------

(* The variables keep their types.                                         *)
THEOREM TypeCorrect == Spec => []TypeOK
<1>1. TableInv => TypeOK
  BY DEF TableInv
<1> QED BY <1>1, TableInvariant, PTL

(* An entry of f.sessions is its client's and is being dialed by Run, or   *)
(* has an open remote and its own reader, however many clients, sessions,  *)
(* readers and cleaner runs there are, during Stop too.                    *)
THEOREM EntriesAlive == Spec => []SessionServed
<1>1. TableInv => SessionServed
  BY DEF TableInv
<1> QED BY <1>1, TableInvariant, PTL

(* Until Stop the reported number of sessions is right and within limits.  *)
THEOREM CountReported == Spec => []ActiveCounted
<1>1. Init => ActiveCounted
  <2>1. Init => Listed(table) = {} /\ active = 0
    BY DEF Init, Listed
  <2> QED BY <2>1, UdpAssumption, FS_EmptySet DEF UdpAssumption, ActiveCounted
<1>2. TableInv /\ TableBounded' /\ ActiveCounted /\ [Next]_vars
        => ActiveCounted'
  BY CountStep DEF TableInv
<1> QED BY <1>1, <1>2, TableInvariant, BoundInvariant, PTL DEF Spec
=============================================================================
