---------------------------- MODULE UdpForwarder ----------------------------
(***************************************************************************)
(* One UDP forwarder of an agent (internal/agent/forwarder.go): the Run    *)
(* goroutine that reads datagrams of clients and finds or dials a session  *)
(* for each, one readRemote goroutine per session, the cleaner, and Stop,  *)
(* which the rule manager calls from another goroutine. Each takes f.mu    *)
(* only for its accesses to f.sessions, so an action is one such critical  *)
(* section or one socket call between two of them.                         *)
(*                                                                         *)
(* A session object outlives its entry in f.sessions, so objects have an   *)
(* identity (Ids) of their own; one that nothing refers to is used again.  *)
(***************************************************************************)
EXTENDS Integers, FiniteSets

CONSTANTS
  Clients,         \* client addresses that allowedUDP accepts
  Ids,             \* bound: session objects that exist at a time
  None,
  MaxConnections,  \* of the rule; 0 is no limit
  EarlyStop,       \* may Stop be called before Run has published f.conn?
  SlowDial         \* may resolving and dialing outlast the idle limit?

ASSUME UdpAssumption ==
  /\ IsFiniteSet(Clients)
  /\ None \notin Clients \cup Ids
  /\ MaxConnections \in Nat
  /\ EarlyStop \in BOOLEAN /\ SlowDial \in BOOLEAN

Sessions == [client : Clients \cup {None},
             remote : {"nil", "open", "closed"},
             reader : {"none", "running", "removing", "closing"},
             idle   : BOOLEAN]    \* lastSeen is more than two minutes ago

NoSession == [client |-> None, remote |-> "closed", reader |-> "none",
              idle |-> FALSE]

VARIABLES
  alive,       \* FALSE once a goroutine has panicked: the agent is gone
  runPc,       \* where Run is
  from,        \* the client whose datagram Run handles
  held,        \* the session object Run works with
  conn,        \* the listening socket; "bound" until f.conn is assigned
  state,       \* f.state
  table,       \* f.sessions
  active,      \* f.active
  sess,        \* the session objects
  cleaner,     \* the cleaner goroutine
  stopPc       \* where Stop is; "idle" until f.stop is closed

runVars  == <<runPc, from, held>>
stopVars == <<cleaner, stopPc>>
vars == <<alive, runVars, conn, state, table, active, sess, stopVars>>

TypeOK ==
  /\ alive \in BOOLEAN
  /\ runPc \in {"listen", "publish", "read", "session", "dial", "write", "done"}
  /\ from \in Clients \cup {None} /\ held \in Ids \cup {None}
  /\ conn \in {"none", "bound", "open", "closed"}
  /\ state \in {"starting", "running", "error", "stopped"}
  /\ table \in [Clients -> Ids \cup {None}]
  /\ active \in Nat
  /\ sess \in [Ids -> Sessions]
  /\ cleaner \in {"off", "on", "done"}
  /\ stopPc \in {"idle", "conn", "sessions", "state", "done"}

Listed(t) == {c \in Clients : t[c] # None}
Stopped   == stopPc # "idle"
Unused(i) == sess[i] = NoSession /\ held # i /\ \A c \in Clients : table[c] # i

-----------------------------------------------------------------------------
(* Run.                                                                    *)

Listen ==
  /\ runPc = "listen"
  /\ \/ conn' = "bound" /\ runPc' = "publish" /\ UNCHANGED state
     \/ conn' = conn /\ runPc' = "done" /\ state' = "error"
  /\ UNCHANGED <<alive, from, held, table, active, sess, stopVars>>

Publish ==
  /\ runPc = "publish"
  /\ conn' = "open" /\ state' = "running" /\ cleaner' = "on"
  /\ runPc' = "read"
  /\ UNCHANGED <<alive, from, held, table, active, sess, stopPc>>

Read(c) ==
  /\ runPc = "read" /\ conn = "open"
  /\ from' = c /\ runPc' = "session"
  /\ UNCHANGED <<alive, held, conn, state, table, active, sess, stopVars>>

(* An error of ReadFromUDP ends Run only after f.stop was closed.          *)
ReadError ==
  /\ runPc = "read" /\ (conn = "open" => ~ Stopped)
  /\ IF Stopped THEN state' = "stopped" /\ runPc' = "done"
                ELSE state' = "error" /\ UNCHANGED runPc
  /\ UNCHANGED <<alive, from, held, conn, table, active, sess, stopVars>>

FoundSession ==
  /\ runPc = "session" /\ table[from] # None
  /\ sess' = [sess EXCEPT ![table[from]].idle = FALSE]
  /\ held' = table[from] /\ runPc' = "write"
  /\ UNCHANGED <<alive, from, conn, state, table, active, stopVars>>

FullAbove == Cardinality(Listed(table)) > MaxConnections   \* mutant: off by one

Full == MaxConnections > 0 /\ Cardinality(Listed(table)) >= MaxConnections

SessionRefused ==
  /\ runPc = "session" /\ table[from] = None /\ Full
  /\ from' = None /\ runPc' = "read"
  /\ UNCHANGED <<alive, held, conn, state, table, active, sess, stopVars>>

(* The entry is made before the address is resolved and dialed, without a  *)
(* remote. Which unused object stands for the new one does not matter.     *)
Reserve(i) ==
  /\ runPc = "session" /\ table[from] = None /\ ~ Full
  /\ Unused(i) /\ i = CHOOSE j \in Ids : Unused(j)
  /\ sess' = [sess EXCEPT ![i] = [client |-> from, remote |-> "nil",
                                  reader |-> "none", idle |-> FALSE]]
  /\ table' = [table EXCEPT ![from] = i]
  /\ active' = Cardinality(Listed(table'))
  /\ held' = i /\ runPc' = "dial"
  /\ UNCHANGED <<alive, from, conn, state, stopVars>>

Dialed ==
  /\ runPc = "dial"
  /\ sess' = [sess EXCEPT ![held].remote = "open", ![held].reader = "running"]
  /\ runPc' = "write"
  /\ UNCHANGED <<alive, from, held, conn, state, table, active, stopVars>>

StayListed(c) == UNCHANGED <<table, active>>    \* mutant: the entry stays

(* removeSession, and the error paths of session: by client address.       *)
Unlist(c) ==
  /\ table' = [table EXCEPT ![c] = None]
  /\ active' = Cardinality(Listed(table'))

DialFailed ==
  /\ runPc = "dial"
  /\ Unlist(from)
  /\ sess' = [sess EXCEPT ![held] = NoSession]
  /\ from' = None /\ held' = None /\ runPc' = "read"
  /\ UNCHANGED <<alive, conn, state, stopVars>>

(* A datagram written to a remote that was closed meanwhile is lost.       *)
Write ==
  /\ runPc = "write"
  /\ from' = None /\ held' = None /\ runPc' = "read"
  /\ UNCHANGED <<alive, conn, state, table, active, sess, stopVars>>

RunStep == Publish \/ FoundSession \/ SessionRefused \/ Dialed \/ DialFailed
           \/ Write \/ (Stopped /\ ReadError)

-----------------------------------------------------------------------------
(* readRemote of the session object i.                                     *)

(* Read fails: the remote was closed, was silent for two minutes, or       *)
(* refused a datagram.                                                     *)
RemoteEnds(i) ==
  /\ sess[i].reader = "running"
  /\ sess' = [sess EXCEPT ![i].reader = "removing"]
  /\ UNCHANGED <<alive, runVars, conn, state, table, active, stopVars>>

RemoveSession(i) ==
  /\ sess[i].reader = "removing"
  /\ Unlist(sess[i].client)
  /\ sess' = [sess EXCEPT ![i].reader = "closing"]
  /\ UNCHANGED <<alive, runVars, conn, state, stopVars>>

CloseRemote(i) ==
  /\ sess[i].reader = "closing"
  /\ sess' = [sess EXCEPT ![i] = NoSession]
  /\ UNCHANGED <<alive, runVars, conn, state, table, active, stopVars>>

ReaderStep(i) == (sess[i].remote = "closed" /\ RemoteEnds(i))
                 \/ RemoveSession(i) \/ CloseRemote(i)

-----------------------------------------------------------------------------
(* The cleaner, every 30 seconds.                                          *)

GoesIdle(i) ==
  /\ \E c \in Clients : table[c] = i
  /\ sess[i].remote = "nil" => SlowDial
  /\ sess' = [sess EXCEPT ![i].idle = TRUE]
  /\ UNCHANGED <<alive, runVars, conn, state, table, active, stopVars>>

(* mutant: the comparison is turned round *)
Fresh == {c \in Listed(table) : ~ sess[table[c]].idle}

Idle == {c \in Listed(table) : sess[table[c]].idle}

(* Close of a remote that is still nil panics.                             *)
CloseAll(S) ==
  IF \E c \in S : sess[table[c]].remote = "nil"
  THEN alive' = FALSE /\ UNCHANGED <<table, sess>>
  ELSE /\ alive' = alive
       /\ sess' = [i \in Ids |-> IF \E c \in S : table[c] = i
                                 THEN [sess[i] EXCEPT !.remote = "closed"]
                                 ELSE sess[i]]
       /\ table' = [c \in Clients |-> IF c \in S THEN None ELSE table[c]]

CleanerTick ==
  /\ cleaner = "on"
  /\ CloseAll(Idle)
  /\ active' = Cardinality(Listed(table'))
  /\ UNCHANGED <<runVars, conn, state, stopVars>>

CleanerEnds ==
  /\ cleaner = "on" /\ Stopped
  /\ cleaner' = "done"
  /\ UNCHANGED <<alive, runVars, conn, state, table, active, sess, stopPc>>

-----------------------------------------------------------------------------
(* Stop, called once: close(f.stop), f.conn.Close(), then every session.   *)

StopBegins ==
  /\ stopPc = "idle" /\ (state = "starting" => EarlyStop)
  /\ stopPc' = "conn"
  /\ UNCHANGED <<alive, runVars, conn, state, table, active, sess, cleaner>>

LeaveOpen == UNCHANGED conn    \* mutant: the socket is left to Run

CloseConn == conn' = IF conn = "open" THEN "closed" ELSE conn

StopConn ==
  /\ stopPc = "conn"
  /\ CloseConn
  /\ stopPc' = "sessions"
  /\ UNCHANGED <<alive, runVars, state, table, active, sess, cleaner>>

StopSessions ==
  /\ stopPc = "sessions"
  /\ CloseAll(Listed(table))
  /\ stopPc' = "state"
  /\ UNCHANGED <<runVars, conn, state, active, cleaner>>

StopEnds ==
  /\ stopPc = "state"
  /\ state' = "stopped" /\ stopPc' = "done"
  /\ UNCHANGED <<alive, runVars, conn, table, active, sess, cleaner>>

StopStep == StopConn \/ StopSessions \/ StopEnds

-----------------------------------------------------------------------------
Init ==
  /\ alive = TRUE
  /\ runPc = "listen" /\ from = None /\ held = None
  /\ conn = "none" /\ state = "starting"
  /\ table = [c \in Clients |-> None] /\ active = 0
  /\ sess = [i \in Ids |-> NoSession]
  /\ cleaner = "off" /\ stopPc = "idle"

Next ==
  /\ alive
  /\ \/ Listen \/ Publish \/ ReadError
     \/ \E c \in Clients : Read(c)
     \/ FoundSession \/ SessionRefused \/ Dialed \/ DialFailed \/ Write
     \/ \E i \in Ids : Reserve(i) \/ RemoteEnds(i) \/ RemoveSession(i)
                       \/ CloseRemote(i) \/ GoesIdle(i)
     \/ CleanerTick \/ CleanerEnds
     \/ StopBegins \/ StopStep

(* Go runs every goroutine that can run, Dial and the resolver time out,   *)
(* a closed socket fails its reader, and the ticker ticks. Nothing is      *)
(* assumed of clients, of remotes, or that Stop is ever called.            *)
Fairness ==
  /\ WF_vars(alive /\ (RunStep \/ \E i \in Ids : Reserve(i)))
  /\ WF_vars(alive /\ CleanerTick) /\ WF_vars(alive /\ CleanerEnds)
  /\ WF_vars(alive /\ StopStep)
  /\ \A i \in Ids : WF_vars(alive /\ ReaderStep(i))

Spec == Init /\ [][Next]_vars /\ Fairness

-----------------------------------------------------------------------------
(* Properties.                                                             *)

(* f.sessions never leads a client to a dead session: each entry belongs   *)
(* to its client and is being dialed by Run, or its remote is open and its *)
(* own reader has yet to take an entry out, in every order of readers,     *)
(* cleaner and Stop (session, readRemote, removeSession). It speaks of the *)
(* entries only: a session that Run already holds, or whose reader is on   *)
(* its way to removeSession, may still be written to in vain.              *)
SessionServed ==
  \A c \in Listed(table) :
    LET s == sess[table[c]] IN
      /\ s.client = c
      /\ \/ s.remote = "nil" /\ runPc = "dial" /\ held = table[c] /\ from = c
         \/ s.remote = "open" /\ s.reader \in {"running", "removing"}

(* Until Stop, the number of connections that Status reports is the number *)
(* of entries, and the limit of the rule holds for it (f.active).          *)
ActiveCounted ==
  ~ Stopped => /\ active = Cardinality(Listed(table))
               /\ MaxConnections > 0 => active <= MaxConnections

Silent(c) == table[c] # None /\ sess[table[c]].idle

(* A session whose client fell silent leaves the table, even if its remote *)
(* keeps sending (cleaner).                                                *)
IdleReaped ==
  \A c \in Clients :
    Silent(c) ~> ~ Silent(c) \/ Stopped \/ ~ alive

(* Once Stop is called the port is free again and both loops end, or the   *)
(* agent is gone (Stop, Run, cleaner).                                     *)
StopReleases ==
  Stopped ~> \/ ~ alive
             \/ conn # "open" /\ runPc = "done" /\ cleaner # "on"

(* No goroutine panics: stopping a rule, or the agent, is a graceful       *)
(* shutdown (CHANGELOG 0.14.0).                                            *)
NoPanic == alive
=============================================================================
