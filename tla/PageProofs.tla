----------------------------- MODULE PageProofs -----------------------------
(***************************************************************************)
(* What the page shows: Console, then Dashboard, the two models of it.     *)
(*                                                                         *)
(* Console, for any number of versions, presses and requests under way:    *)
(* the invariant follows the refresh that was begun last.  It carries the  *)
(* session of the user, and what it read is as new as every write that was *)
(* acknowledged, because a write that is acknowledged, and a user who      *)
(* appears, begin another one.                                             *)
(*                                                                         *)
(* Dashboard, for any ranges, totals, lists of rules and runs of its       *)
(* effect: the run that is not cancelled asks for what the dashboard is    *)
(* about (Asked).  What it draws is true of every series of totals and of  *)
(* every list of rules: the curve by the rule of three, the bars and the   *)
(* filters by counting, the top six because every place is taken once.     *)
(***************************************************************************)
EXTENDS Console, Dashboard, FiniteSetTheorems, WellFoundedInduction, TLAPS

(* refreshAll's calls are told apart by their numbers.                     *)
OneEach == \A r, q \in refreshes : r.n = q.n => r = q

(* The refresh begun last, while it is under way.                          *)
LastFresh ==
  \A r \in refreshes : r.n = begun =>
    /\ lists.from # begun
    /\ user # 0 => r.as = user
    /\ r.nodes = 0 \/ r.nodes >= acked
    /\ r.rules = 0 \/ r.rules >= acked

(* Requests carry the session of the user who is shown.                    *)
OwnCookie == user # 0 => cookie = user

(* An acknowledged write has begun a refresh.                              *)
Begun == begun = 0 => acked = 0

IInv == TypeOK /\ OneEach /\ LastFresh /\ OwnCookie /\ Begun /\ Fresh

-----------------------------------------------------------------------------

(* A call of refreshAll in the session s of the user u, with the lists and *)
(* what was acknowledged within their types, keeps what is said of calls.  *)
LEMMA CallKeeps ==
  ASSUME TypeOK, OneEach, NEW loud \in BOOLEAN, NEW s, RefreshAll(loud, s),
         lists' = lists, user' # 0 => s = user'
  PROVE  OneEach' /\ LastFresh' /\ Fresh' /\ Begun'
<1> DEFINE new == [n |-> begun + 1, loud |-> loud, as |-> s, nodes |-> 0, rules |-> 0]
<1>1. /\ begun \in Nat /\ lists.from \in 0 .. begun
      /\ \A r \in refreshes : r.n \in 1 .. begun
  BY DEF TypeOK
<1>2. begun' = begun + 1 /\ refreshes' = refreshes \cup {new}
  BY DEF RefreshAll
<1>3. \A r \in refreshes : r.n # begun + 1
  BY <1>1
<1>4. OneEach'
  BY <1>2, <1>3 DEF OneEach
<1>5. \A r \in refreshes' : r.n = begun' => r = new
  BY <1>2, <1>3
<1>6. lists'.from # begun'
  BY <1>1, <1>2
<1>7. LastFresh'
  BY <1>5, <1>6 DEF LastFresh
<1>8. Fresh' /\ Begun'
  BY <1>1, <1>2, <1>6 DEF Fresh, Begun
<1> QED
  BY <1>4, <1>7, <1>8

(* The calls under way after another one keep their type.                  *)
LEMMA CallTyped ==
  ASSUME TypeOK, NEW loud \in BOOLEAN, NEW s \in 0 .. sessions', RefreshAll(loud, s),
         sessions' \in Nat, sessions' >= sessions, version' \in Nat, version' >= version
  PROVE  /\ begun' \in Nat /\ begun' = begun + 1 /\ refreshing' \in BOOLEAN
         /\ refreshes' \subseteq [n : 1 .. begun', loud : BOOLEAN, as : 0 .. sessions',
                                  nodes : 0 .. version', rules : 0 .. version']
<1> DEFINE new == [n |-> begun + 1, loud |-> loud, as |-> s, nodes |-> 0, rules |-> 0]
           Old == [n : 1 .. begun, loud : BOOLEAN, as : 0 .. sessions,
                   nodes : 0 .. version, rules : 0 .. version]
           New == [n : 1 .. begun', loud : BOOLEAN, as : 0 .. sessions',
                   nodes : 0 .. version', rules : 0 .. version']
<1>1. begun' = begun + 1 /\ refreshes' = refreshes \cup {new} /\ refreshing' \in BOOLEAN
  BY DEF RefreshAll, TypeOK
<1>2. begun \in Nat /\ sessions \in Nat /\ version \in Nat /\ refreshes \subseteq Old
  BY DEF TypeOK
<1>3. Old \subseteq New
  <2>1. /\ 1 .. begun \subseteq 1 .. begun' /\ 0 .. sessions \subseteq 0 .. sessions'
        /\ 0 .. version \subseteq 0 .. version'
    BY <1>1, <1>2
  <2> QED
    BY <2>1
<1>4. new \in New
  BY <1>1, <1>2
<1> QED
  BY <1>1, <1>2, <1>3, <1>4

(* Types that only grow: the bounds of sessions, versions and calls.       *)
LEMMA Grows ==
  ASSUME TypeOK, sessions' \in Nat, sessions' >= sessions,
         version' \in Nat, version' >= version, begun' \in Nat, begun' >= begun
  PROVE  /\ ended \subseteq 1 .. sessions' /\ cookie \in 0 .. sessions'
         /\ user \in 0 .. sessions' /\ acked \in 0 .. version'
         /\ lists \in [from : 0 .. begun', as : 0 .. sessions',
                       nodes : 0 .. version', rules : 0 .. version']
         /\ refreshes \subseteq [n : 1 .. begun', loud : BOOLEAN, as : 0 .. sessions',
                                 nodes : 0 .. version', rules : 0 .. version']
         /\ writes \subseteq [n : Nat, as : 0 .. sessions', at : 0 .. version']
         /\ logouts \subseteq [n : Nat, as : 0 .. sessions', done : BOOLEAN]
<1>1. begun \in Nat /\ sessions \in Nat /\ version \in Nat
  BY DEF TypeOK
<1>2. /\ 1 .. begun \subseteq 1 .. begun' /\ 0 .. begun \subseteq 0 .. begun'
      /\ 1 .. sessions \subseteq 1 .. sessions' /\ 0 .. sessions \subseteq 0 .. sessions'
      /\ 0 .. version \subseteq 0 .. version'
  BY <1>1
<1>3. ended \subseteq 1 .. sessions' /\ cookie \in 0 .. sessions'
      /\ user \in 0 .. sessions' /\ acked \in 0 .. version'
  BY <1>2 DEF TypeOK
<1>4. lists \in [from : 0 .. begun', as : 0 .. sessions',
                 nodes : 0 .. version', rules : 0 .. version']
  BY <1>2 DEF TypeOK
<1>5. refreshes \subseteq [n : 1 .. begun', loud : BOOLEAN, as : 0 .. sessions',
                           nodes : 0 .. version', rules : 0 .. version']
  BY <1>2 DEF TypeOK
<1>6. writes \subseteq [n : Nat, as : 0 .. sessions', at : 0 .. version']
  BY <1>2 DEF TypeOK
<1>7. logouts \subseteq [n : Nat, as : 0 .. sessions', done : BOOLEAN]
  BY <1>2 DEF TypeOK
<1> QED
  BY <1>3, <1>4, <1>5, <1>6, <1>7

-----------------------------------------------------------------------------

LEMMA InitHolds == Init => IInv
<1> SUFFICES ASSUME Init PROVE IInv
  OBVIOUS
<1>1. TypeOK
  <2>1. NoLists \in [from : 0 .. 0, as : 0 .. sessions, nodes : 0 .. 1, rules : 0 .. 1]
    BY DEF Init, NoLists
  <2>2. sessions \in Nat /\ cookie \in 0 .. sessions /\ user \in 0 .. sessions
    BY DEF Init
  <2>3. /\ version = 1 /\ ended = {} /\ begun = 0 /\ acked = 0 /\ presses = 0
        /\ lists = NoLists /\ refreshes = {} /\ writes = {} /\ logouts = {}
    BY DEF Init
  <2>4. loading \in BOOLEAN /\ refreshing \in BOOLEAN
    BY Zenon DEF Init
  <2> QED
    BY <2>1, <2>2, <2>3, <2>4 DEF TypeOK
<1>2. OneEach /\ LastFresh /\ OwnCookie /\ Begun /\ Fresh
  BY DEF Init, NoLists, OneEach, LastFresh, OwnCookie, Begun, Fresh
<1> QED
  BY <1>1, <1>2 DEF IInv

LEMMA BootKeeps == IInv /\ Boot => IInv'
<1> SUFFICES ASSUME IInv, Boot PROVE IInv'
  OBVIOUS
<1> USE DEF IInv
<1>1. ASSUME Live(cookie), Appear(cookie) PROVE IInv'
  <2>1. RefreshAll(FALSE, cookie) /\ user' = cookie /\ lists' = lists
        /\ cookie' = cookie /\ sessions' = sessions /\ version' = version
    BY <1>1 DEF Boot, Appear, panelVars
  <2>2. OneEach' /\ LastFresh' /\ Fresh' /\ Begun'
    BY <2>1, CallKeeps
  <2>3. TypeOK'
    <3>1. /\ sessions' \in Nat /\ sessions' >= sessions /\ cookie \in 0 .. sessions'
          /\ version' \in Nat /\ version' >= version
      BY <2>1 DEF TypeOK
    <3>2. /\ begun' \in Nat /\ begun' = begun + 1 /\ refreshing' \in BOOLEAN
          /\ refreshes' \subseteq [n : 1 .. begun', loud : BOOLEAN, as : 0 .. sessions',
                                   nodes : 0 .. version', rules : 0 .. version']
      BY <2>1, <3>1, CallTyped
    <3>3. begun' >= begun
      BY <3>2 DEF TypeOK
    <3>4. /\ ended \subseteq 1 .. sessions' /\ acked \in 0 .. version'
          /\ lists \in [from : 0 .. begun', as : 0 .. sessions',
                        nodes : 0 .. version', rules : 0 .. version']
          /\ writes \subseteq [n : Nat, as : 0 .. sessions', at : 0 .. version']
          /\ logouts \subseteq [n : Nat, as : 0 .. sessions', done : BOOLEAN]
      BY <3>1, <3>2, <3>3, Grows
    <3>5. /\ loading' \in BOOLEAN /\ presses' \in Nat /\ version' \in Nat \ {0}
          /\ UNCHANGED <<ended, acked, writes, logouts>>
      BY DEF Boot, TypeOK, panelVars, requestVars
    <3> QED
      BY <2>1, <3>1, <3>2, <3>4, <3>5 DEF TypeOK
  <2>4. OwnCookie'
    BY <2>1 DEF OwnCookie
  <2> QED
    BY <2>2, <2>3, <2>4
<1>2. CASE UNCHANGED <<user, refreshVars>>
  <2>1. TypeOK'
    BY <1>2 DEF Boot, TypeOK, panelVars, requestVars, refreshVars
  <2>2. OneEach' /\ LastFresh' /\ OwnCookie' /\ Begun' /\ Fresh'
    BY <1>2 DEF Boot, panelVars, requestVars, refreshVars,
                OneEach, LastFresh, OwnCookie, Begun, Fresh
  <2> QED
    BY <2>1, <2>2
<1> QED
  BY <1>1, <1>2 DEF Boot

LEMMA ReloadKeeps == IInv /\ Reload => IInv'
<1> SUFFICES ASSUME IInv, Reload PROVE IInv'
  OBVIOUS
<1> USE DEF IInv
<1>1. TypeOK'
  <2>1. /\ UNCHANGED <<version, sessions, ended, cookie, begun, acked>>
        /\ user' = 0 /\ refreshes' = {} /\ writes' = {} /\ logouts' = {}
        /\ presses' \in Nat
    BY DEF Reload, Press, TypeOK, panelVars
  <2>4. loading' \in BOOLEAN /\ refreshing' \in BOOLEAN
    BY Zenon DEF Reload
  <2>2. user' \in 0 .. sessions
    BY <2>1 DEF TypeOK
  <2>3. lists' \in [from : 0 .. begun, as : 0 .. sessions,
                    nodes : 0 .. version, rules : 0 .. version]
    BY DEF Reload, NoLists, TypeOK
  <2> QED
    BY <2>1, <2>2, <2>3, <2>4 DEF TypeOK
<1>2. OneEach' /\ LastFresh' /\ OwnCookie' /\ Begun'
  BY DEF Reload, panelVars, OneEach, LastFresh, OwnCookie, Begun
<1>3. Fresh'
  BY DEF Reload, panelVars, NoLists, Fresh, Begun, TypeOK
<1> QED
  BY <1>1, <1>2, <1>3

LEMMA LoginKeeps == IInv /\ Login => IInv'
<1> SUFFICES ASSUME IInv, Login PROVE IInv'
  OBVIOUS
<1> USE DEF IInv
<1>1. /\ RefreshAll(FALSE, sessions + 1) /\ user' = sessions + 1
      /\ cookie' = sessions + 1 /\ sessions' = sessions + 1
      /\ lists' = lists /\ version' = version /\ sessions \in Nat /\ version \in Nat \ {0}
  BY DEF Login, Appear, TypeOK
<1>2. OneEach' /\ LastFresh' /\ Fresh' /\ Begun'
  BY <1>1, CallKeeps
<1>3. TypeOK'
  <2>1. /\ sessions' \in Nat /\ sessions' >= sessions /\ sessions + 1 \in 0 .. sessions'
        /\ version' \in Nat /\ version' >= version
    BY <1>1 DEF TypeOK
  <2>2. /\ begun' \in Nat /\ begun' = begun + 1 /\ refreshing' \in BOOLEAN
        /\ refreshes' \subseteq [n : 1 .. begun', loud : BOOLEAN, as : 0 .. sessions',
                                 nodes : 0 .. version', rules : 0 .. version']
    BY <1>1, <2>1, CallTyped
  <2>3. begun' >= begun
    BY <2>2 DEF TypeOK
  <2>4. /\ ended \subseteq 1 .. sessions' /\ acked \in 0 .. version'
        /\ user \in 0 .. sessions'
        /\ lists \in [from : 0 .. begun', as : 0 .. sessions',
                      nodes : 0 .. version', rules : 0 .. version']
        /\ writes \subseteq [n : Nat, as : 0 .. sessions', at : 0 .. version']
        /\ logouts \subseteq [n : Nat, as : 0 .. sessions', done : BOOLEAN]
    BY <2>1, <2>2, <2>3, Grows
  <2>5. /\ presses' \in Nat /\ loading' \in BOOLEAN
        /\ UNCHANGED <<ended, acked, writes, logouts>>
    BY DEF Login, Press, TypeOK, requestVars
  <2> QED
    BY <1>1, <2>1, <2>2, <2>4, <2>5 DEF TypeOK
<1>4. OwnCookie'
  BY <1>1 DEF OwnCookie
<1> QED
  BY <1>2, <1>3, <1>4

LEMMA LogoutKeeps ==
  ASSUME IInv, Logout \/ \E x \in logouts : EndSession(x) \/ LogoutOver(x)
  PROVE  IInv'
<1> USE DEF IInv
<1>1. CASE Logout
  <2>1. TypeOK'
    <3>1. /\ UNCHANGED <<version, sessions, ended, cookie, user, loading, refreshing,
                         refreshes, begun, lists, writes, acked>>
          /\ presses' \in Nat /\ presses \in Nat /\ cookie \in 0 .. sessions
      BY <1>1 DEF Logout, Press, TypeOK, panelVars, appVars, refreshVars
    <3>2. logouts' \subseteq [n : Nat, as : 0 .. sessions, done : BOOLEAN]
      <4> DEFINE new == [n |-> presses, as |-> cookie, done |-> FALSE]
      <4>1. new \in [n : Nat, as : 0 .. sessions, done : BOOLEAN]
        BY <3>1
      <4>2. logouts' = logouts \cup {new}
        BY <1>1 DEF Logout
      <4> QED
        BY <4>1, <4>2 DEF TypeOK
    <3> QED
      BY <3>1, <3>2 DEF TypeOK
  <2>2. OneEach' /\ LastFresh' /\ OwnCookie' /\ Begun' /\ Fresh'
    BY <1>1 DEF Logout, panelVars, appVars, refreshVars,
                OneEach, LastFresh, OwnCookie, Begun, Fresh
  <2> QED
    BY <2>1, <2>2
<1>2. ASSUME NEW x \in logouts, EndSession(x) PROVE IInv'
  <2>1. x \in [n : Nat, as : 0 .. sessions, done : BOOLEAN] /\ sessions \in Nat
    BY DEF TypeOK
  <2>2. ended' \subseteq 1 .. sessions
    BY <1>2, <2>1 DEF EndSession, TypeOK
  <2>3. logouts' \subseteq [n : Nat, as : 0 .. sessions, done : BOOLEAN]
    BY <1>2, <2>1 DEF EndSession, TypeOK
  <2>4. TypeOK'
    BY <1>2, <2>2, <2>3 DEF EndSession, TypeOK, appVars, refreshVars
  <2>5. OneEach' /\ LastFresh' /\ OwnCookie' /\ Begun' /\ Fresh'
    BY <1>2 DEF EndSession, appVars, refreshVars,
                OneEach, LastFresh, OwnCookie, Begun, Fresh
  <2> QED
    BY <2>4, <2>5
<1>3. ASSUME NEW x \in logouts, LogoutOver(x) PROVE IInv'
  <2>1. TypeOK'
    BY <1>3 DEF LogoutOver, TypeOK, panelVars, refreshVars
  <2>2. OneEach' /\ LastFresh' /\ OwnCookie' /\ Begun' /\ Fresh'
    BY <1>3 DEF LogoutOver, panelVars, refreshVars,
                OneEach, LastFresh, OwnCookie, Begun, Fresh
  <2> QED
    BY <2>1, <2>2
<1> QED
  BY <1>1, <1>2, <1>3

LEMMA RefreshKeeps == IInv /\ Refresh => IInv'
<1> SUFFICES ASSUME IInv, Refresh PROVE IInv'
  OBVIOUS
<1> USE DEF IInv
<1>1. /\ RefreshAll(TRUE, cookie) /\ user' = user /\ user # 0 /\ cookie = user
      /\ cookie' = cookie /\ sessions' = sessions /\ lists' = lists
      /\ version' = version /\ sessions \in Nat /\ version \in Nat \ {0}
      /\ cookie \in 0 .. sessions
  BY DEF Refresh, OwnCookie, TypeOK, panelVars, appVars
<1>2. OneEach' /\ LastFresh' /\ Fresh' /\ Begun'
  BY <1>1, CallKeeps
<1>3. TypeOK'
  <2>1. /\ sessions' \in Nat /\ sessions' >= sessions /\ cookie \in 0 .. sessions'
        /\ version' \in Nat /\ version' >= version
    BY <1>1 DEF TypeOK
  <2>2. /\ begun' \in Nat /\ begun' = begun + 1 /\ refreshing' \in BOOLEAN
        /\ refreshes' \subseteq [n : 1 .. begun', loud : BOOLEAN, as : 0 .. sessions',
                                 nodes : 0 .. version', rules : 0 .. version']
    BY <1>1, <2>1, CallTyped
  <2>3. begun' >= begun
    BY <2>2 DEF TypeOK
  <2>4. /\ ended \subseteq 1 .. sessions' /\ acked \in 0 .. version'
        /\ user \in 0 .. sessions'
        /\ lists \in [from : 0 .. begun', as : 0 .. sessions',
                      nodes : 0 .. version', rules : 0 .. version']
        /\ writes \subseteq [n : Nat, as : 0 .. sessions', at : 0 .. version']
        /\ logouts \subseteq [n : Nat, as : 0 .. sessions', done : BOOLEAN]
    BY <2>1, <2>2, <2>3, Grows
  <2>5. /\ presses' \in Nat /\ loading' \in BOOLEAN
        /\ UNCHANGED <<ended, acked, writes, logouts>>
    BY DEF Refresh, Press, TypeOK, panelVars, appVars, requestVars
  <2> QED
    BY <1>1, <2>1, <2>2, <2>4, <2>5 DEF TypeOK
<1>4. OwnCookie'
  BY <1>1 DEF OwnCookie
<1> QED
  BY <1>2, <1>3, <1>4

LEMMA ReadKeeps ==
  ASSUME IInv, NEW r \in refreshes, NEW list \in {"nodes", "rules"}, Read(r, list)
  PROVE  IInv'
<1> USE DEF IInv
<1> DEFINE read == [r EXCEPT ![list] = version]
           Calls == [n : 1 .. begun, loud : BOOLEAN, as : 0 .. sessions,
                     nodes : 0 .. version, rules : 0 .. version]
<1>1. /\ r \in Calls /\ version \in Nat \ {0} /\ acked \in 0 .. version
      /\ refreshes \subseteq Calls
  BY DEF TypeOK
<1>2. refreshes' = (refreshes \ {r}) \cup {read}
  BY DEF Read
<1>3. /\ read \in Calls /\ read.n = r.n /\ read.as = r.as
      /\ read.nodes = r.nodes \/ read.nodes = version
      /\ read.rules = r.rules \/ read.rules = version
  BY <1>1
<1>4. UNCHANGED <<version, sessions, ended, cookie, user, loading, refreshing, begun,
                  lists, writes, logouts, acked, presses>>
  BY DEF Read, panelVars, appVars, requestVars
<1>5. TypeOK'
  <2>1. refreshes' \subseteq Calls
    BY <1>1, <1>2, <1>3
  <2> QED
    BY <1>4, <2>1 DEF TypeOK
<1>6. OneEach'
  <2> SUFFICES ASSUME NEW p \in refreshes', NEW q \in refreshes', p.n = q.n
               PROVE  p = q
    BY DEF OneEach
  <2>1. p \in refreshes \ {r} \/ p = read
    BY <1>2
  <2>2. q \in refreshes \ {r} \/ q = read
    BY <1>2
  <2> QED
    BY <1>3, <2>1, <2>2 DEF OneEach
<1>7. LastFresh'
  <2> SUFFICES ASSUME NEW q \in refreshes', q.n = begun
               PROVE  /\ lists.from # begun
                      /\ user # 0 => q.as = user
                      /\ q.nodes = 0 \/ q.nodes >= acked
                      /\ q.rules = 0 \/ q.rules >= acked
    BY <1>4 DEF LastFresh
  <2>1. CASE q \in refreshes
    BY <2>1 DEF LastFresh
  <2>2. CASE q = read
    <3>1. r.n = begun
      BY <1>3, <2>2
    <3>2. version >= acked
      BY <1>1
    <3> QED
      BY <1>3, <2>2, <3>1, <3>2 DEF LastFresh
  <2> QED
    BY <1>2, <2>1, <2>2
<1>8. OwnCookie' /\ Begun' /\ Fresh'
  BY <1>4 DEF OwnCookie, Begun, Fresh
<1> QED
  BY <1>5, <1>6, <1>7, <1>8

LEMMA OverKeeps ==
  ASSUME IInv, NEW r \in refreshes, RefreshOver(r)
  PROVE  IInv'
<1> USE DEF IInv
<1>1. /\ UNCHANGED <<version, sessions, ended, cookie, user, loading, begun, writes,
                     logouts, acked, presses>>
      /\ refreshes' = refreshes \ {r} /\ refreshing' \in BOOLEAN
  BY DEF RefreshOver, RefreshLands, RefreshFails, Spinner, TypeOK,
         panelVars, appVars, requestVars
<1>2. OneEach' /\ OwnCookie' /\ Begun'
  BY <1>1 DEF OneEach, OwnCookie, Begun
<1>3. r \in [n : 1 .. begun, loud : BOOLEAN, as : 0 .. sessions,
             nodes : 0 .. version, rules : 0 .. version]
      /\ acked \in Nat /\ version \in Nat /\ begun \in Nat
  BY DEF TypeOK
<1>4. CASE RefreshLands(r)
  <2>1. lists' = [from |-> r.n, as |-> r.as, nodes |-> r.nodes, rules |-> r.rules]
        /\ r.nodes # 0 /\ r.rules # 0
    BY <1>4 DEF RefreshLands
  <2>2. TypeOK'
    <3>1. lists' \in [from : 0 .. begun, as : 0 .. sessions,
                      nodes : 0 .. version, rules : 0 .. version]
      BY <1>3, <2>1
    <3> QED
      BY <1>1, <3>1 DEF TypeOK
  <2>3. Fresh'
    BY <1>1, <2>1 DEF Fresh, LastFresh
  <2>4. LastFresh'
    <3>1. ASSUME NEW q \in refreshes', q.n = begun PROVE lists'.from # begun
      <4>1. q \in refreshes /\ q # r
        BY <1>1, <3>1
      <4> QED
        BY <2>1, <3>1, <4>1 DEF OneEach
    <3>2. ASSUME NEW q \in refreshes', q.n = begun
          PROVE  /\ user # 0 => q.as = user
                 /\ q.nodes = 0 \/ q.nodes >= acked
                 /\ q.rules = 0 \/ q.rules >= acked
      BY <1>1, <3>2 DEF LastFresh
    <3> QED
      BY <1>1, <3>1, <3>2 DEF LastFresh
  <2> QED
    BY <1>2, <2>2, <2>3, <2>4
<1>5. CASE RefreshFails(r)
  <2>1. lists' = lists
    BY <1>5 DEF RefreshFails
  <2>2. TypeOK'
    BY <1>1, <2>1 DEF TypeOK
  <2>3. Fresh' /\ LastFresh'
    BY <1>1, <2>1 DEF Fresh, LastFresh
  <2> QED
    BY <1>2, <2>2, <2>3
<1> QED
  BY <1>4, <1>5 DEF RefreshOver

LEMMA WriteKeeps ==
  ASSUME IInv, Write \/ \E w \in writes : WriteFails(w)
  PROVE  IInv'
<1> USE DEF IInv
<1>1. /\ UNCHANGED <<version, sessions, ended, cookie, user, loading, refreshing,
                     refreshes, begun, lists, logouts, acked>>
      /\ presses' \in Nat
      /\ writes' \subseteq [n : Nat, as : 0 .. sessions, at : 0 .. version]
  <2>1. CASE Write
    BY <2>1 DEF Write, Press, TypeOK, panelVars, appVars, refreshVars
  <2>2. ASSUME NEW w \in writes, WriteFails(w)
        PROVE  /\ UNCHANGED <<version, sessions, ended, cookie, user, loading,
                              refreshing, refreshes, begun, lists, logouts, acked>>
               /\ presses' \in Nat
               /\ writes' \subseteq [n : Nat, as : 0 .. sessions, at : 0 .. version]
    BY <2>2 DEF WriteFails, TypeOK, panelVars, appVars, refreshVars
  <2> QED
    BY <2>1, <2>2
<1>2. TypeOK'
  BY <1>1 DEF TypeOK
<1>3. OneEach' /\ LastFresh' /\ OwnCookie' /\ Begun' /\ Fresh'
  BY <1>1 DEF OneEach, LastFresh, OwnCookie, Begun, Fresh
<1> QED
  BY <1>2, <1>3

LEMMA AnswerKeeps ==
  ASSUME IInv, NEW w \in writes, WriteAnswered(w)
  PROVE  IInv'
<1> USE DEF IInv
<1>1. /\ RefreshAll(FALSE, cookie) /\ user' = user /\ cookie' = cookie
      /\ lists' = lists /\ sessions' = sessions /\ version' = version
      /\ sessions \in Nat /\ version \in Nat \ {0} /\ cookie \in 0 .. sessions
      /\ user # 0 => cookie = user
  BY DEF WriteAnswered, GoesOn, OwnCookie, TypeOK, panelVars, appVars
<1>2. OneEach' /\ LastFresh' /\ Fresh' /\ Begun'
  BY <1>1, CallKeeps
<1>3. TypeOK'
  <2>1. /\ sessions' \in Nat /\ sessions' >= sessions /\ cookie \in 0 .. sessions'
        /\ version' \in Nat /\ version' >= version
    BY <1>1 DEF TypeOK
  <2>2. /\ begun' \in Nat /\ begun' = begun + 1 /\ refreshing' \in BOOLEAN
        /\ refreshes' \subseteq [n : 1 .. begun', loud : BOOLEAN, as : 0 .. sessions',
                                 nodes : 0 .. version', rules : 0 .. version']
    BY <1>1, <2>1, CallTyped
  <2>3. begun' >= begun
    BY <2>2 DEF TypeOK
  <2>4. /\ ended \subseteq 1 .. sessions' /\ acked \in 0 .. version'
        /\ user \in 0 .. sessions'
        /\ lists \in [from : 0 .. begun', as : 0 .. sessions',
                      nodes : 0 .. version', rules : 0 .. version']
        /\ writes \subseteq [n : Nat, as : 0 .. sessions', at : 0 .. version']
        /\ logouts \subseteq [n : Nat, as : 0 .. sessions', done : BOOLEAN]
    BY <2>1, <2>2, <2>3, Grows
  <2>5. acked' \in 0 .. version'
    BY <1>1 DEF WriteAnswered, GoesOn, Newer, TypeOK
  <2>6. /\ writes' \subseteq writes /\ presses' \in Nat /\ loading' \in BOOLEAN
        /\ UNCHANGED <<ended, logouts>>
    BY DEF WriteAnswered, TypeOK, panelVars, appVars
  <2> QED
    BY <1>1, <2>1, <2>2, <2>4, <2>5, <2>6 DEF TypeOK
<1>4. OwnCookie'
  BY <1>1 DEF OwnCookie
<1> QED
  BY <1>2, <1>3, <1>4

LEMMA ChangeKeeps ==
  ASSUME IInv, Elsewhere \/ \E w \in writes : Perform(w)
  PROVE  IInv'
<1> USE DEF IInv
<1>1. /\ version' = version + 1 /\ version \in Nat \ {0}
      /\ UNCHANGED <<sessions, ended, cookie, user, loading, refreshing, refreshes,
                     begun, lists, logouts, acked, presses>>
  BY DEF Elsewhere, Perform, TypeOK, appVars, refreshVars, requestVars
<1>2. writes' \subseteq [n : Nat, as : 0 .. sessions, at : 0 .. version + 1]
  <2>1. writes \subseteq [n : Nat, as : 0 .. sessions, at : 0 .. version + 1]
    BY <1>1, Grows DEF TypeOK
  <2>2. CASE Elsewhere
    BY <2>1, <2>2 DEF Elsewhere, requestVars
  <2>3. ASSUME NEW w \in writes, Perform(w)
        PROVE  writes' \subseteq [n : Nat, as : 0 .. sessions, at : 0 .. version + 1]
    <3>1. [w EXCEPT !.at = version + 1]
            \in [n : Nat, as : 0 .. sessions, at : 0 .. version + 1]
      BY <1>1 DEF TypeOK
    <3> QED
      BY <2>1, <2>3, <3>1 DEF Perform
  <2> QED
    BY <2>2, <2>3
<1>3. TypeOK'
  BY <1>1, <1>2, Grows DEF TypeOK
<1>4. OneEach' /\ LastFresh' /\ OwnCookie' /\ Begun' /\ Fresh'
  BY <1>1 DEF OneEach, LastFresh, OwnCookie, Begun, Fresh
<1> QED
  BY <1>3, <1>4

LEMMA StepKeeps == IInv /\ [Next]_vars => IInv'
<1> SUFFICES ASSUME IInv, [Next]_vars PROVE IInv'
  OBVIOUS
<1>1. ASSUME UNCHANGED vars PROVE IInv'
  <2>1. UNCHANGED <<version, sessions, ended, cookie, user, loading, refreshing,
                    refreshes, begun, lists, writes, logouts, acked, presses>>
    BY <1>1 DEF vars, panelVars, appVars, refreshVars, requestVars
  <2> QED
    BY <2>1 DEF IInv, TypeOK, OneEach, LastFresh, OwnCookie, Begun, Fresh
<1>2. ASSUME Next PROVE IInv'
  BY <1>2, BootKeeps, ReloadKeeps, LoginKeeps, LogoutKeeps, RefreshKeeps, ReadKeeps,
     OverKeeps, WriteKeeps, AnswerKeeps, ChangeKeeps DEF Next
<1> QED
  BY <1>1, <1>2

(* The state of a page keeps its types, whatever is under way.             *)
THEOREM TypeCorrect == Spec => []TypeOK
<1>1. IInv => TypeOK
  BY DEF IInv
<1> QED
  BY <1>1, InitHolds, StepKeeps, PTL DEF Spec

(* Fresh, for any number of versions, presses and requests under way.      *)
THEOREM ListsFresh == Spec => []Fresh
<1>1. IInv => Fresh
  BY DEF IInv
<1> QED
  BY <1>1, InitHolds, StepKeeps, PTL DEF Spec

-----------------------------------------------------------------------------

LEMMA SpinnerStep ==
  ASSUME TypeOK, SpinnerHonest, [Next]_vars
  PROVE  SpinnerHonest'
<1>1. CASE UNCHANGED <<refreshing, refreshes>>
  BY <1>1 DEF SpinnerHonest
<1>2. ASSUME NEW loud \in BOOLEAN, NEW s, RefreshAll(loud, s) PROVE SpinnerHonest'
  <2> DEFINE new == [n |-> begun + 1, loud |-> loud, as |-> s, nodes |-> 0, rules |-> 0]
  <2>1. new.loud = loud /\ new \in refreshes' /\ refreshes \subseteq refreshes'
    BY <1>2 DEF RefreshAll
  <2>2. refreshing' => loud \/ refreshing
    BY <1>2 DEF RefreshAll
  <2> QED
    BY <2>1, <2>2 DEF SpinnerHonest
<1>3. ASSUME NEW r \in refreshes, RefreshOver(r) PROVE SpinnerHonest'
  BY <1>3 DEF RefreshOver, RefreshLands, RefreshFails, Spinner, SpinnerHonest, TypeOK
<1>4. ASSUME NEW r \in refreshes, NEW list \in {"nodes", "rules"}, Read(r, list)
      PROVE  SpinnerHonest'
  <2>1. [r EXCEPT ![list] = version].loud = r.loud
    BY DEF TypeOK
  <2> QED
    BY <1>4, <2>1 DEF Read, SpinnerHonest
<1>5. CASE Reload
  BY <1>5 DEF Reload, SpinnerHonest
<1>6. CASE Boot \/ Login \/ Refresh \/ \E w \in writes : WriteAnswered(w)
  BY <1>1, <1>2, <1>6 DEF Boot, Login, Refresh, WriteAnswered, GoesOn, Appear, refreshVars
<1>7. CASE Logout \/ Write \/ Elsewhere \/ (\E x \in logouts : EndSession(x) \/ LogoutOver(x))
           \/ (\E w \in writes : Perform(w) \/ WriteFails(w))
  BY <1>1, <1>7 DEF Logout, Write, Elsewhere, EndSession, LogoutOver, Perform, WriteFails,
                    refreshVars
<1>8. CASE UNCHANGED vars
  BY <1>1, <1>8 DEF vars, refreshVars
<1> QED
  BY <1>3, <1>4, <1>5, <1>6, <1>7, <1>8 DEF Next

(* The refresh button never claims to work for nothing.                    *)
THEOREM SpinnerIsHonest == Spec => []SpinnerHonest
<1>1. Init => SpinnerHonest
  BY DEF Init, SpinnerHonest
<1> QED
  BY <1>1, TypeCorrect, SpinnerStep, PTL DEF Spec

-----------------------------------------------------------------------------
(* A series that was served fits its range, a request that waits for one   *)
(* has its snapshot, and the run of the effect that is not cancelled asks  *)
(* for what the dashboard is about: its answer, once there, is what is     *)
(* shown.                                                                  *)
Fits(series, key) == Len(series) \in 1 .. Window[key[1]] + 1

Asked ==
  /\ ~ mounted => effect = 0
  /\ \A f \in fetches : f.step = "captured" => f.at \in DOMAIN snaps
  /\ \A f \in fetches : f.step = "served" => Fits(f.series, f.key)
  /\ mounted => \A f \in fetches : f.run = effect => f.key = <<range, Traffic(rules)>>

BoardInv == BoardTypeOK /\ Asked /\ TrendCurrent

Stored ==
  /\ now \in Nat /\ DOMAIN snaps \subseteq 0 .. now
  /\ snaps \in [DOMAIN snaps -> Totals]

(* Every row of a set of buckets has its place, and every place its row.   *)
LEMMA RankIs ==
  ASSUME NEW B \in SUBSET Nat, IsFiniteSet(B)
  PROVE  \A k \in 1 .. Cardinality(B) : \E b \in B : Rank(B, b) = k
<1> DEFINE n == Cardinality(B)
           Upto(b) == {x \in B : x <= b}
<1>1. n \in Nat /\ \A T \in SUBSET B : IsFiniteSet(T) /\ Cardinality(T) \in Nat
                                     /\ Cardinality(T) <= n
  BY FS_Subset, FS_CardinalityType
<1>2. \A b \in B : Rank(B, b) = Cardinality(Upto(b))
  BY DEF Rank
<1>3. ASSUME NEW b \in B
      PROVE  Rank(B, b) \in 1 .. n
  <2>1. Upto(b) \in SUBSET B /\ b \in Upto(b)
    BY <1>3
  <2> HIDE DEF Upto
  <2>2. Cardinality(Upto(b)) # 0
    BY <1>1, <2>1, FS_EmptySet
  <2> QED BY <1>1, <1>2, <2>1, <2>2
<1>4. ASSUME NEW b \in B, NEW c \in B, b < c
      PROVE  Rank(B, b) < Rank(B, c)
  <2>1. /\ Upto(b) \in SUBSET B /\ Upto(c) \in SUBSET B
        /\ Upto(b) \subseteq Upto(c) /\ c \in Upto(c) /\ c \notin Upto(b)
    <3>1. b \in Nat /\ c \in Nat /\ \A x \in B : x \in Nat
      OBVIOUS
    <3>2. \A x \in B : x <= b => x <= c
      BY <1>4, <3>1
    <3>3. c <= c /\ ~ (c <= b)
      BY <1>4, <3>1
    <3> QED BY <3>2, <3>3
  <2> HIDE DEF Upto
  <2>2. Cardinality(Upto(b) \cup {c}) = Cardinality(Upto(b)) + 1
    BY <1>1, <2>1, FS_AddElement
  <2>3. Upto(b) \cup {c} \in SUBSET Upto(c) /\ IsFiniteSet(Upto(c))
    BY <1>1, <2>1
  <2>4. Cardinality(Upto(b) \cup {c}) <= Cardinality(Upto(c))
    BY <2>3, FS_Subset
  <2> QED BY <1>1, <1>2, <2>1, <2>2, <2>4
<1> HIDE DEF Upto
<1> DEFINE f == [b \in B |-> Rank(B, b)]
<1>5. f \in Injection(B, 1 .. n)
  <2>1. f \in [B -> 1 .. n]
    BY <1>3
  <2>2. \A b, c \in B : f[b] = f[c] => b = c
    <3> SUFFICES ASSUME NEW b \in B, NEW c \in B, f[b] = f[c], b # c
                 PROVE  FALSE
      OBVIOUS
    <3>1. Rank(B, b) = Rank(B, c)
      OBVIOUS
    <3>2. b < c \/ c < b
      OBVIOUS
    <3> HIDE DEF n
    <3> QED BY <1>1, <1>3, <1>4, <3>1, <3>2
  <2> QED BY <2>1, <2>2 DEF Injection, IsInjective
<1>6. IsFiniteSet(1 .. n) /\ Cardinality(1 .. n) = Cardinality(B)
  BY <1>1, FS_Interval
<1>7. f \in Surjection(B, 1 .. n)
  <2> HIDE DEF f, n
  <2> QED BY <1>5, <1>6, FS_Injection
<1> QED BY <1>7 DEF Surjection

(* The rows of a range are few, and the snapshot just taken is one.        *)
LEMMA FitsIn ==
  ASSUME Stored, NEW r \in Ranges, NEW from \in Cutoffs(r),
         NEW at \in DOMAIN snaps, at >= now - 1
  PROVE  /\ Series(from) \in Seq(Totals)
         /\ Len(Series(from)) \in 1 .. Window[r] + 1
<1> DEFINE B == RowsSince(from)
           row(i) == CHOOSE b \in B : Rank(B, b) = i
<1>1. /\ Window[r] \in Nat /\ Window[r] >= 2 /\ now \in Nat
      /\ from \in Int /\ from >= now - Window[r] /\ from <= now - Window[r] + 1
  BY RangeAssumption DEF RangeAssumption, Cutoffs, Stored
<1>2. B \in SUBSET Nat /\ B \subseteq from .. now /\ B \subseteq DOMAIN snaps /\ at \in B
  BY <1>1 DEF RowsSince, Stored
<1>3. /\ IsFiniteSet(from .. now)
      /\ Cardinality(from .. now) = now - from + 1
  <2>1. from <= now
    BY <1>1
  <2> HIDE DEF B
  <2> QED BY <1>1, <2>1, FS_Interval
<1> HIDE DEF B
<1>4. IsFiniteSet(B) /\ Cardinality(B) \in Nat /\ Cardinality(B) <= now - from + 1
  BY <1>2, <1>3, FS_Subset, FS_CardinalityType
<1>5. Cardinality(B) # 0
  BY <1>2, <1>4, FS_EmptySet
<1>6. Cardinality(B) \in 1 .. Window[r] + 1
  BY <1>1, <1>4, <1>5
<1>7. Series(from) = [i \in 1 .. Cardinality(B) |-> snaps[row(i)]]
  BY DEF Series, B
<1>8. \A i \in 1 .. Cardinality(B) : row(i) \in B
  BY <1>2, <1>4, RankIs
<1> HIDE DEF row
<1>9. \A i \in 1 .. Cardinality(B) : snaps[row(i)] \in Totals
  BY <1>2, <1>8 DEF Stored
<1>10. Series(from) \in Seq(Totals) /\ Len(Series(from)) = Cardinality(B)
  BY <1>4, <1>7, <1>9
<1> QED BY <1>6, <1>10

LEMMA CaptureType ==
  ASSUME Stored, total \in Totals, now' = now, NEW bucket \in Lately, Capture(bucket)
  PROVE  /\ Stored' /\ bucket \in DOMAIN snaps' /\ bucket \in 0 .. now
         /\ DOMAIN snaps \subseteq DOMAIN snaps'
<1>1. bucket \in 0 .. now
  BY DEF Lately, Stored
<1>2. DOMAIN snaps' = DOMAIN snaps \cup {bucket}
  BY DEF Capture
<1>3. \A b \in DOMAIN snaps' : snaps'[b] \in Totals
  BY <1>2 DEF Capture, Stored
<1>4. snaps' = [b \in DOMAIN snaps' |-> snaps'[b]]
  BY DEF Capture
<1> QED BY <1>1, <1>2, <1>3, <1>4 DEF Stored

LEMMA KeysAre ==
  ASSUME BoardTypeOK, NEW r \in Ranges, NEW list \in RuleLists
  PROVE  <<r, Traffic(list)>> \in Keys
BY DEF Keys

Fetches == [run : 1 .. runs, key : Keys, step : {"asked", "captured", "served"},
            at : 0 .. now, series : Seq(Totals)]

(* A run of the effect, for what the dashboard is about then, cancels the  *)
(* runs before it and is not answered yet.                                 *)
LEMMA EffectKeeps ==
  ASSUME BoardInv, NEW r \in Ranges, NEW list \in RuleLists,
         RunEffect(r, Traffic(list)), range' = r, rules' = list, mounted',
         UNCHANGED <<now, snaps>>
  PROVE  /\ runs' \in Nat /\ effect' \in 0 .. runs' /\ fetches' \subseteq Fetches'
         /\ Asked' /\ TrendCurrent'
<1> DEFINE new == [run |-> runs + 1, key |-> <<r, Traffic(list)>>,
                   step |-> "asked", at |-> 0, series |-> <<>>]
<1>1. runs \in Nat /\ now \in Nat /\ fetches \subseteq Fetches
  BY DEF BoardInv, BoardTypeOK, Fetches
<1>2. runs' = runs + 1 /\ effect' = runs + 1 /\ fetches' = fetches \cup {new}
  BY DEF RunEffect
<1>3. new.run = runs + 1 /\ new.key = <<r, Traffic(list)>> /\ new.step = "asked"
  OBVIOUS
<1>4. new \in Fetches' /\ fetches \subseteq Fetches'
  <2>1. <<r, Traffic(list)>> \in Keys
    BY KeysAre DEF BoardInv
  <2> HIDE DEF Keys
  <2> QED BY <1>1, <1>2, <2>1 DEF Fetches
<1>5. \A f \in fetches : f.run # runs + 1
  BY <1>1 DEF Fetches
<1>6. Asked'
  BY <1>2, <1>3, <1>5 DEF BoardInv, Asked, Fits
<1>7. TrendCurrent'
  BY <1>2, <1>3 DEF TrendCurrent
<1>8. fetches' \subseteq Fetches'
  BY <1>2, <1>4
<1>9. runs' \in Nat /\ effect' \in 0 .. runs'
  BY <1>1, <1>2
<1> QED BY <1>6, <1>7, <1>8, <1>9

LEMMA TypeMeans ==
  BoardTypeOK <=>
    /\ total \in Totals /\ Stored
    /\ mounted \in BOOLEAN /\ rules \in RuleLists
    /\ range \in Ranges /\ trendError \in BOOLEAN
    /\ points \in [key : Keys \cup {<<>>}, series : Seq(Totals)]
    /\ points # NoPoints => Fits(points.series, points.key)
    /\ runs \in Nat /\ effect \in 0 .. runs
    /\ fetches \subseteq Fetches
BY ListAssumption DEF BoardTypeOK, Stored, Fits, Fetches, ListAssumption

LEMMA TypeNext ==
  ASSUME total' \in Totals, Stored',
         mounted' \in BOOLEAN, rules' \in RuleLists,
         range' \in Ranges, trendError' \in BOOLEAN,
         points' \in [key : Keys \cup {<<>>}, series : Seq(Totals)],
         points' # NoPoints => Fits(points'.series, points'.key),
         runs' \in Nat, effect' \in 0 .. runs',
         fetches' \subseteq Fetches'
  PROVE  BoardTypeOK'
BY ListAssumption DEF BoardTypeOK, Stored, Fits, Fetches, ListAssumption

LEMMA NoPointsType == NoPoints \in [key : Keys \cup {<<>>}, series : Seq(Totals)]
BY DEF NoPoints

LEMMA BoardInitHolds == BoardInit => BoardInv
<1> SUFFICES ASSUME BoardInit PROVE BoardInv
  OBVIOUS
<1>1. BoardTypeOK
  <2>1. 0 \in Totals /\ <<>> \in RuleLists /\ FirstRange \in Ranges
    BY RangeAssumption, TotalAssumption, ListAssumption
       DEF RangeAssumption, TotalAssumption, ListAssumption
  <2>2. Stored
    BY <2>1 DEF BoardInit, Stored
  <2>3. /\ total \in Totals
        /\ mounted \in BOOLEAN /\ rules \in RuleLists
        /\ range \in Ranges /\ trendError \in BOOLEAN
    BY <2>1, <2>2 DEF BoardInit
  <2>4. runs \in Nat /\ effect \in 0 .. runs /\ fetches \subseteq Fetches
    BY DEF BoardInit
  <2>5. points = NoPoints
    BY DEF BoardInit
  <2> QED BY <2>2, <2>3, <2>4, <2>5, TypeMeans, NoPointsType
<1>2. Asked /\ TrendCurrent
  BY DEF BoardInit, Asked, TrendCurrent
<1> QED BY <1>1, <1>2 DEF BoardInv

(* The dashboard is opened, left, and asked for another range.             *)
LEMMA MountKeeps ==
  ASSUME BoardInv, Mount \/ Unmount \/ \E r \in Ranges : SetRange(r)
  PROVE  BoardInv'
<1> USE DEF snapVars, Stored
<1>r. FirstRange \in Ranges
  BY RangeAssumption DEF RangeAssumption
<1>t. rules \in RuleLists
  BY TypeMeans DEF BoardInv
<1>1. CASE Mount
  <2>1. runs' \in Nat /\ effect' \in 0 .. runs' /\ fetches' \subseteq Fetches'
        /\ Asked' /\ TrendCurrent'
    BY <1>1, <1>r, <1>t, EffectKeeps DEF Mount
  <2>2. BoardTypeOK'
    BY <1>1, <1>r, <2>1, TypeMeans, TypeNext, NoPointsType DEF Mount, BoardInv
  <2> QED BY <2>1, <2>2 DEF BoardInv
<1>2. CASE Unmount
  <2>1. BoardTypeOK'
    <3>1. runs' \in Nat /\ effect' \in 0 .. runs' /\ fetches' \subseteq Fetches'
      BY <1>2, TypeMeans DEF Unmount, BoardInv, Fetches
    <3> QED BY <1>2, <1>r, <3>1, TypeMeans, TypeNext, NoPointsType DEF Unmount, BoardInv
  <2>2. Asked' /\ TrendCurrent'
    BY <1>2 DEF Unmount, BoardInv, Asked, TrendCurrent
  <2> QED BY <2>1, <2>2 DEF BoardInv
<1>3. ASSUME NEW r \in Ranges, SetRange(r) PROVE BoardInv'
  <2>1. runs' \in Nat /\ effect' \in 0 .. runs' /\ fetches' \subseteq Fetches'
        /\ Asked' /\ TrendCurrent'
    BY <1>3, <1>t, EffectKeeps DEF SetRange
  <2>2. BoardTypeOK'
    BY <1>3, <2>1, TypeMeans, TypeNext DEF SetRange, BoardInv
  <2> QED BY <2>1, <2>2 DEF BoardInv
<1> QED BY <1>1, <1>2, <1>3

(* Totals, snapshots and lists change; the effect depends on the sum.      *)
LEMMA NewsKeeps ==
  ASSUME BoardInv, Use \/ Tick \/ SnapshotLoop \/ \E list \in RuleLists : Refreshed(list)
  PROVE  BoardInv'
<1> USE DEF snapVars, shownVars, effectVars
<1>1. CASE Use
  <2>1. BoardTypeOK'
    BY <1>1, TypeMeans, TypeNext DEF Use, BoardInv, Fetches, Stored
  <2>2. Asked' /\ TrendCurrent'
    BY <1>1 DEF Use, BoardInv, Asked, TrendCurrent
  <2> QED BY <2>1, <2>2 DEF BoardInv
<1>2. CASE SnapshotLoop
  <2>1. Stored' /\ DOMAIN snaps \subseteq DOMAIN snaps'
    <3>1. PICK bucket \in Lately : Capture(bucket)
      BY <1>2 DEF SnapshotLoop
    <3> QED BY <1>2, <3>1, CaptureType, TypeMeans DEF SnapshotLoop, BoardInv
  <2>2. BoardTypeOK'
    BY <1>2, <2>1, TypeMeans, TypeNext DEF SnapshotLoop, BoardInv, Fetches
  <2>3. Asked' /\ TrendCurrent'
    BY <1>2, <2>1 DEF SnapshotLoop, BoardInv, Asked, TrendCurrent
  <2> QED BY <2>2, <2>3 DEF BoardInv
<1>4. CASE Tick
  <2>1. Stored' /\ now \in Nat /\ now' = now + 1
    BY <1>4, TypeMeans DEF Tick, BoardInv, Stored
  <2>2. 0 .. now \subseteq 0 .. now'
    BY <2>1
  <2>3. fetches' \subseteq Fetches'
    <3>1. fetches' = fetches /\ runs' = runs /\ fetches \subseteq Fetches
      BY <1>4, TypeMeans DEF Tick, BoardInv
    <3> HIDE DEF Keys
    <3> QED BY <2>2, <3>1 DEF Fetches
  <2>4. BoardTypeOK'
    BY <1>4, <2>1, <2>3, TypeMeans, TypeNext DEF Tick, BoardInv
  <2>5. Asked' /\ TrendCurrent'
    BY <1>4 DEF Tick, BoardInv, Asked, TrendCurrent
  <2> QED BY <2>4, <2>5 DEF BoardInv
<1>3. ASSUME NEW list \in RuleLists, Refreshed(list) PROVE BoardInv'
  <2>1. CASE mounted /\ Traffic(list) # Traffic(rules)
    <3>1. RunEffect(range, Traffic(list)) /\ range \in Ranges
      BY <1>3, <2>1, TypeMeans DEF Refreshed, BoardInv
    <3>2. runs' \in Nat /\ effect' \in 0 .. runs' /\ fetches' \subseteq Fetches'
          /\ Asked' /\ TrendCurrent'
      BY <1>3, <2>1, <3>1, EffectKeeps DEF Refreshed
    <3>3. BoardTypeOK'
      BY <1>3, <3>2, TypeMeans, TypeNext DEF Refreshed, BoardInv, Stored
    <3> QED BY <3>2, <3>3 DEF BoardInv
  <2>2. CASE ~ (mounted /\ Traffic(list) # Traffic(rules))
    <3>1. UNCHANGED <<effectVars, snapVars, mounted, shownVars>> /\ rules' = list
      BY <1>3, <2>2 DEF Refreshed
    <3>2. BoardTypeOK'
      BY <3>1, TypeMeans, TypeNext DEF BoardInv, Fetches, Stored
    <3>3. mounted => Traffic(rules') = Traffic(rules)
      BY <2>2, <3>1
    <3>4. Asked' /\ TrendCurrent'
      BY <3>1, <3>3 DEF BoardInv, Asked, TrendCurrent
    <3> QED BY <3>2, <3>4 DEF BoardInv
  <2> QED BY <2>1, <2>2
<1> QED BY <1>1, <1>2, <1>3, <1>4

(* A request is served, answered, or fails: an answer that is not          *)
(* cancelled is for what the dashboard is about.                           *)
LEMMA FetchKeeps ==
  ASSUME BoardInv, NEW f \in fetches, Snapshot(f) \/ Query(f) \/ Arrives(f) \/ Fails(f)
  PROVE  BoardInv'
<1> USE DEF snapVars
<1>f. /\ f \in Fetches /\ f.run \in 1 .. runs /\ f.key \in Keys
      /\ f.series \in Seq(Totals) /\ f.at \in 0 .. now
  <2>1. f \in Fetches
    BY TypeMeans DEF BoardInv
  <2> HIDE DEF Keys
  <2> QED BY <2>1 DEF Fetches
<1>s. Stored /\ total \in Totals
  BY TypeMeans DEF BoardInv
<1>g. ASSUME NEW g \in Fetches, Serving(f, g), Stored',
             DOMAIN snaps \subseteq DOMAIN snaps',
             g.run = f.run, g.key = f.key,
             g.step = "captured" => g.at \in DOMAIN snaps',
             g.step = "served" => Fits(g.series, g.key)
      PROVE  BoardInv'
  <2>1. /\ UNCHANGED <<now, total, mounted, rules, range, points, trendError, effect, runs>>
        /\ fetches' = (fetches \ {f}) \cup {g}
    BY <1>g DEF Serving, shownVars
  <2>2. fetches' \subseteq Fetches'
    BY <1>g, <2>1, TypeMeans DEF BoardInv, Fetches
  <2>3. BoardTypeOK'
    BY <1>g, <2>1, <2>2, TypeMeans, TypeNext DEF BoardInv
  <2>4. Asked'
    BY <1>g, <2>1 DEF BoardInv, Asked, Fits
  <2>5. TrendCurrent'
    BY <1>g, <2>1 DEF BoardInv, TrendCurrent
  <2> QED BY <2>3, <2>4, <2>5 DEF BoardInv
<1>1. CASE Snapshot(f)
  <2>1. PICK bucket \in Lately :
          Capture(bucket) /\ Serving(f, [f EXCEPT !.step = "captured", !.at = bucket])
    BY <1>1 DEF Snapshot
  <2> DEFINE g == [f EXCEPT !.step = "captured", !.at = bucket]
  <2>2. /\ Stored' /\ bucket \in DOMAIN snaps' /\ bucket \in 0 .. now
        /\ DOMAIN snaps \subseteq DOMAIN snaps'
    BY <1>s, <2>1, CaptureType DEF Serving
  <2>3. g \in Fetches /\ g.run = f.run /\ g.key = f.key
        /\ g.step = "captured" /\ g.at = bucket
    <3> HIDE DEF Keys
    <3> QED BY <1>f, <2>2 DEF Fetches
  <2> HIDE DEF g
  <2>4. Serving(f, g)
    BY <2>1 DEF g
  <2> QED BY <1>g, <2>2, <2>3, <2>4
<1>4. CASE Query(f)
  <2>1. PICK from \in Cutoffs(f.key[1]) :
          Serving(f, [f EXCEPT !.step = "served", !.at = 0, !.series = Series(from)])
    BY <1>4 DEF Query
  <2> DEFINE t == Series(from)
             g == [f EXCEPT !.step = "served", !.at = 0, !.series = t]
  <2>2. f.key[1] \in Ranges
    BY <1>f DEF Keys
  <2>3. f.at \in DOMAIN snaps /\ f.at >= now - 1
    BY <1>4 DEF Query, BoardInv, Asked
  <2>4. t \in Seq(Totals) /\ Fits(t, f.key)
    BY <1>s, <2>2, <2>3, FitsIn DEF Fits
  <2> HIDE DEF t
  <2>5. g \in Fetches /\ g.run = f.run /\ g.key = f.key
        /\ g.step = "served" /\ g.series = t
    <3>1. now \in Nat /\ 0 \in 0 .. now
      BY <1>s DEF Stored
    <3> HIDE DEF Keys
    <3> QED BY <1>f, <2>4, <3>1 DEF Fetches
  <2> HIDE DEF g
  <2>6. Serving(f, g)
    BY <2>1 DEF g, t
  <2>7. snaps' = snaps /\ Stored'
    BY <1>4, <1>s, <2>6 DEF Query, Serving, Stored
  <2> QED BY <1>g, <2>4, <2>5, <2>6, <2>7
<1>2. CASE Arrives(f)
  <2>1. fetches' = fetches \ {f} /\ fetches' \subseteq Fetches'
    BY <1>2, TypeMeans DEF Arrives, BoardInv, Fetches
  <2>2. CASE Current(f)
    <3>1. points' = [key |-> f.key, series |-> f.series] /\ trendError' = FALSE
      BY <1>2, <2>2 DEF Arrives
    <3>2. Fits(f.series, f.key)
      BY <1>2 DEF Arrives, BoardInv, Asked
    <3>3. /\ points' \in [key : Keys \cup {<<>>}, series : Seq(Totals)]
          /\ Fits(points'.series, points'.key) /\ points'.key = f.key
      BY <1>f, <3>1, <3>2
    <3>4. BoardTypeOK'
      BY <1>2, <2>1, <3>1, <3>3, TypeMeans, TypeNext DEF Arrives, BoardInv, Stored
    <3>5. Asked' /\ TrendCurrent'
      BY <1>2, <2>1, <2>2, <3>3 DEF Arrives, BoardInv, Asked, TrendCurrent, Current
    <3> QED BY <3>4, <3>5 DEF BoardInv
  <2>3. CASE ~ Current(f)
    <3>1. UNCHANGED <<points, trendError>>
      BY <1>2, <2>3 DEF Arrives
    <3>2. BoardTypeOK'
      BY <1>2, <2>1, <3>1, TypeMeans, TypeNext DEF Arrives, BoardInv, Stored
    <3>3. Asked' /\ TrendCurrent'
      BY <1>2, <2>1, <2>3, <3>1 DEF Arrives, BoardInv, Asked, TrendCurrent, Current
    <3> QED BY <3>2, <3>3 DEF BoardInv
  <2> QED BY <2>2, <2>3
<1>3. CASE Fails(f)
  <2>1. fetches' = fetches \ {f} /\ fetches' \subseteq Fetches'
    BY <1>3, TypeMeans DEF Fails, BoardInv, Fetches
  <2>2. BoardTypeOK'
    BY <1>3, <2>1, TypeMeans, TypeNext DEF Fails, BoardInv, Stored
  <2>3. Asked' /\ TrendCurrent'
    BY <1>3, <2>1 DEF Fails, BoardInv, Asked, TrendCurrent, Current
  <2> QED BY <2>2, <2>3 DEF BoardInv
<1> QED BY <1>1, <1>2, <1>3, <1>4

LEMMA BoardStep == BoardInv /\ [BoardNext]_boardVars => BoardInv'
<1> SUFFICES ASSUME BoardInv, [BoardNext]_boardVars PROVE BoardInv'
  OBVIOUS
<1>1. CASE UNCHANGED boardVars
  BY <1>1 DEF boardVars, snapVars, shownVars, effectVars, BoardInv, BoardTypeOK, Asked,
     TrendCurrent
<1> QED BY <1>1, MountKeeps, NewsKeeps, FetchKeeps DEF BoardNext

(* Type correctness of the dashboard.                                      *)
THEOREM BoardTypeCorrect == BoardSpec => []BoardTypeOK
<1>1. BoardInv => BoardTypeOK
  BY DEF BoardInv
<1> QED BY <1>1, BoardInitHolds, BoardStep, PTL DEF BoardSpec

(* Whatever answers come late or never, the chart of a dashboard that      *)
(* waits for nothing and shows no error is the one of its range and of its *)
(* traffic, for any number of ranges, lists and runs of the effect.        *)
THEOREM ChartIsCurrent == BoardSpec => []TrendCurrent
<1>1. BoardInv => TrendCurrent
  BY DEF BoardInv
<1> QED BY <1>1, BoardInitHolds, BoardStep, PTL DEF BoardSpec

-----------------------------------------------------------------------------
(* What is drawn.                                                          *)

(* What a division cuts off.                                               *)
LEMMA Quotient ==
  ASSUME NEW a \in Nat, NEW b \in Nat \ {0}
  PROVE  /\ a \div b \in Nat
         /\ (a \div b) * b <= a /\ a < (a \div b) * b + b
OBVIOUS

LEMMA Cancel ==
  ASSUME NEW p \in Int, NEW q \in Int, NEW b \in Nat \ {0}
  PROVE  /\ p * b <= q * b => p <= q
         /\ p * b < q * b => p < q
OBVIOUS

LEMMA Least ==
  ASSUME NEW T \in SUBSET Nat, T # {}
  PROVE  \E x \in T : \A y \in T : x <= y
<1>1. PICK x \in T : \A y \in T : ~ (<<y, x>> \in OpToRel(<, Nat))
  BY NatLessThanWellFounded, WFMin
<1>2. ASSUME NEW y \in T, y < x PROVE FALSE
  <2>1. x \in Nat /\ y \in Nat
    OBVIOUS
  <2>2. <<y, x>> \in Nat \X Nat /\ <<y, x>>[1] = y /\ <<y, x>>[2] = x
    BY <2>1
  <2>3. <<y, x>> \in OpToRel(<, Nat)
    BY <1>2, <2>2 DEF OpToRel
  <2> QED BY <1>1, <2>3
<1> QED BY <1>2

(* A series has a bound: a shortest part of it without one would end in an *)
(* element above every bound of the rest.                                  *)
LEMMA Bounded ==
  ASSUME NEW s \in Seq(Nat)
  PROVE  \E b \in Nat : \A i \in DOMAIN s : s[i] <= b
<1> DEFINE Has(n) == \E b \in Nat : \A i \in 1 .. n : s[i] <= b
           T == {n \in 0 .. Len(s) : ~ Has(n)}
<1>1. DOMAIN s = 1 .. Len(s) /\ Len(s) \in Nat
  OBVIOUS
<1>2. Has(0)
  <2>1. 1 .. 0 = {}
    OBVIOUS
  <2> QED BY <2>1
<1>3. ASSUME NEW n \in 1 .. Len(s), Has(n - 1) PROVE Has(n)
  <2>1. PICK b \in Nat : \A i \in 1 .. n - 1 : s[i] <= b
    BY <1>3
  <2>2. s[n] \in Nat
    BY <1>1
  <2> DEFINE c == IF s[n] <= b THEN b ELSE s[n]
  <2>3. c \in Nat /\ b <= c /\ s[n] <= c
    BY <2>1, <2>2
  <2> HIDE DEF c
  <2>4. ASSUME NEW i \in 1 .. n PROVE s[i] <= c
    <3>1. i = n \/ i \in 1 .. n - 1
      BY <1>1
    <3>2. s[i] \in Nat
      BY <1>1
    <3> QED BY <2>1, <2>3, <3>1, <3>2
  <2> QED BY <2>3, <2>4
<1> HIDE DEF Has
<1>4. T = {}
  <2> SUFFICES ASSUME T # {} PROVE FALSE
    OBVIOUS
  <2>1. T \in SUBSET Nat
    BY <1>1
  <2>2. PICK n \in T : \A m \in T : n <= m
    BY <2>1, Least
  <2>3. n \in 1 .. Len(s)
    BY <1>1, <1>2, <2>2
  <2>4. n - 1 \in 0 .. Len(s) /\ ~ (n <= n - 1)
    BY <1>1, <2>3
  <2>5. Has(n - 1)
    BY <2>2, <2>4
  <2> QED BY <1>3, <2>2, <2>3, <2>5
<1>5. Has(Len(s))
  BY <1>1, <1>4
<1> QED BY <1>1, <1>5 DEF Has

LEMMA LowestIs ==
  ASSUME NEW s \in Seq(Nat), s # <<>>
  PROVE  /\ Lowest(s) \in Nat
         /\ \E i \in DOMAIN s : s[i] = Lowest(s)
         /\ \A i \in DOMAIN s : Lowest(s) <= s[i]
<1> DEFINE T == {s[i] : i \in DOMAIN s}
<1>1. T \in SUBSET Nat /\ T # {}
  <2>1. 1 \in DOMAIN s
    OBVIOUS
  <2> QED BY <2>1
<1>2. PICK x \in T : \A y \in T : x <= y
  BY <1>1, Least
<1>3. \E v \in T : \A i \in DOMAIN s : v <= s[i]
  BY <1>2
<1>4. Lowest(s) \in T /\ \A i \in DOMAIN s : Lowest(s) <= s[i]
  BY <1>3 DEF Lowest
<1> QED BY <1>1, <1>4

(* The least of the bounds of a series is reached.                         *)
LEMMA HighestIs ==
  ASSUME NEW s \in Seq(Nat), s # <<>>
  PROVE  /\ Highest(s) \in Nat
         /\ \E i \in DOMAIN s : s[i] = Highest(s)
         /\ \A i \in DOMAIN s : s[i] <= Highest(s)
<1> DEFINE T == {s[i] : i \in DOMAIN s}
           B == {b \in Nat : \A i \in DOMAIN s : s[i] <= b}
<1>1. PICK b \in B : \A c \in B : b <= c
  <2>1. B \in SUBSET Nat /\ B # {}
    BY Bounded
  <2> QED BY <2>1, Least
<1>2. \A i \in DOMAIN s : s[i] \in Nat /\ s[i] <= b
  BY <1>1
<1>3. \E i \in DOMAIN s : s[i] = b
  <2> SUFFICES ASSUME \A i \in DOMAIN s : s[i] # b PROVE FALSE
    OBVIOUS
  <2>1. 1 \in DOMAIN s
    OBVIOUS
  <2>2. b - 1 \in Nat /\ \A i \in DOMAIN s : s[i] <= b - 1
    BY <1>1, <1>2, <2>1
  <2>3. b - 1 \in B
    BY <2>2
  <2> QED BY <1>1, <2>3
<1>4. \E v \in T : \A i \in DOMAIN s : v >= s[i]
  BY <1>1, <1>2, <1>3
<1>5. Highest(s) \in T /\ \A i \in DOMAIN s : Highest(s) >= s[i]
  BY <1>4 DEF Highest
<1> QED BY <1>2, <1>5

LEMMA SpanIs ==
  ASSUME NEW s \in Seq(Nat), s # <<>>
  PROVE  /\ Span(s) \in Nat \ {0}
         /\ \A i \in DOMAIN s : s[i] - Lowest(s) \in 0 .. Span(s)
         /\ Lowest(s) # Highest(s) => Span(s) = Highest(s) - Lowest(s)
<1>1. \A i \in DOMAIN s : s[i] \in Nat /\ Lowest(s) <= s[i] /\ s[i] <= Highest(s)
  BY LowestIs, HighestIs
<1>2. Lowest(s) \in Nat /\ Highest(s) \in Nat /\ Lowest(s) <= Highest(s)
  BY <1>1, LowestIs, HighestIs
<1> QED BY <1>1, <1>2 DEF Span

(* How high the curve is: nothing at the lowest total, all of the box at   *)
(* the highest, and in between by the rule of three, cut to a pixel.       *)
Height(s, i) == ((s[i] - Lowest(s)) * GH) \div Span(s)

LEMMA HeightIs ==
  ASSUME NEW s \in Seq(Nat), s # <<>>, NEW i \in DOMAIN s
  PROVE  /\ Height(s, i) \in 0 .. GH
         /\ s[i] = Lowest(s) => Height(s, i) = 0
         /\ Lowest(s) # Highest(s) /\ s[i] = Highest(s) => Height(s, i) = GH
         /\ Height(s, i) * Span(s) <= (s[i] - Lowest(s)) * GH
         /\ (s[i] - Lowest(s)) * GH < (Height(s, i) + 1) * Span(s)
<1> DEFINE d == s[i] - Lowest(s)
           b == Span(s)
<1>1. b \in Nat \ {0} /\ d \in 0 .. b /\ d \in Nat
  BY SpanIs
<1>2. Lowest(s) # Highest(s) /\ s[i] = Highest(s) => d = b
  BY SpanIs
<1>3. s[i] = Lowest(s) => d = 0
  BY LowestIs
<1>g. GH = 164
  BY DEF GH, H, PY
<1> HIDE DEF d, b
<1>4. d * GH \in Nat
  BY <1>1, <1>g
<1> DEFINE q == (d * GH) \div b
<1>5. q \in Nat /\ q * b <= d * GH /\ d * GH < q * b + b
  BY <1>1, <1>4, Quotient
<1> HIDE DEF q
<1>6. q <= GH
  <2>1. q * b <= GH * b
    BY <1>1, <1>5, <1>g
  <2> QED BY <1>1, <1>5, <1>g, <2>1, Cancel
<1>7. d = 0 => q = 0
  <2>1. d = 0 => q * b <= 0 * b
    BY <1>1, <1>5, <1>g
  <2> QED BY <1>1, <1>5, <2>1, Cancel
<1>8. d = b => q = GH
  <2>1. d = b => GH * b < (q + 1) * b
    BY <1>1, <1>5, <1>g
  <2>2. d = b => GH < q + 1
    BY <1>1, <1>5, <1>g, <2>1, Cancel
  <2> QED BY <1>5, <1>6, <1>g, <2>2
<1>9. q = Height(s, i)
  BY DEF q, d, b, Height
<1>10. q * b + b = (q + 1) * b
  BY <1>1, <1>5
<1>11. q \in 0 .. GH
  BY <1>5, <1>6, <1>g
<1> QED BY <1>2, <1>3, <1>5, <1>7, <1>8, <1>9, <1>10, <1>11 DEF d, b

LEMMA Pixels == GH = 164 /\ GW = 680 /\ PX = 60 /\ PY = 28 /\ W = 800 /\ H = 220
BY DEF GH, GW, PX, PY, W, H

(* The curve stays in its box and uses all of its width and height.        *)
LEMMA CurveInBox ==
  ASSUME NEW s \in Seq(Nat), s # <<>>
  PROVE  LET c == Curve(s) IN
         /\ \A i \in DOMAIN s : c[i].x \in PX .. W - PX /\ c[i].y \in PY .. H - PY
         /\ Len(s) > 1 => c[1].x = PX /\ c[Len(s)].x = W - PX
         /\ \E i \in DOMAIN s : c[i].y = H - PY
         /\ Lowest(s) # Highest(s) => \E i \in DOMAIN s : c[i].y = PY
<1> DEFINE c == Curve(s)
           n == Len(s)
           X(i) == IF n = 1 THEN PX ELSE PX + ((i - 1) * GW) \div (n - 1)
<1>1. n \in Nat \ {0} /\ DOMAIN s = 1 .. n
  OBVIOUS
<1>2. \A i \in 1 .. n : c[i].x = X(i) /\ c[i].y = H - PY - Height(s, i)
  BY <1>1 DEF Curve, Height
<1>g. GH = 164 /\ GW = 680 /\ PX = 60 /\ PY = 28 /\ W = 800 /\ H = 220
  BY Pixels
<1> HIDE DEF c
<1>3. ASSUME n # 1, NEW i \in 1 .. n
      PROVE  /\ ((i - 1) * GW) \div (n - 1) \in 0 .. GW
             /\ i = 1 => ((i - 1) * GW) \div (n - 1) = 0
             /\ i = n => ((i - 1) * GW) \div (n - 1) = GW
  <2> DEFINE b == n - 1
             d == i - 1
             q == (d * GW) \div b
  <2>1. b \in Nat \ {0} /\ d \in Nat /\ d <= b
    BY <1>1, <1>3
  <2>2. d * GW \in Nat
    BY <2>1, <1>g
  <2>d. (i = 1 => d = 0) /\ (i = n => d = b)
    OBVIOUS
  <2> HIDE DEF b, d
  <2>3. q \in Nat /\ q * b <= d * GW /\ d * GW < q * b + b
    BY <2>1, <2>2, Quotient
  <2> HIDE DEF q
  <2>4. q <= GW
    <3>1. q * b <= GW * b
      BY <2>1, <2>3, <1>g
    <3> QED BY <3>1, <2>1, <2>3, <1>g, Cancel
  <2>5. d = 0 => q = 0
    <3>1. d = 0 => q * b <= 0 * b
      BY <2>1, <2>3, <1>g
    <3> QED BY <3>1, <2>1, <2>3, Cancel
  <2>6. d = b => q = GW
    <3>1. d = b => GW * b < (q + 1) * b
      BY <2>1, <2>3, <1>g
    <3>2. d = b => GW < q + 1
      BY <3>1, <2>1, <2>3, <1>g, Cancel
    <3> QED BY <2>3, <2>4, <1>g, <3>2
  <2>7. q \in 0 .. GW
    BY <2>3, <2>4, <1>g
  <2> QED BY <2>5, <2>6, <2>7, <2>d DEF q, d, b
<1>4. ASSUME NEW i \in 1 .. n
      PROVE  /\ X(i) \in PX .. W - PX
             /\ n # 1 /\ i = 1 => X(i) = PX
             /\ n # 1 /\ i = n => X(i) = W - PX
  <2> DEFINE q == ((i - 1) * GW) \div (n - 1)
  <2>1. n # 1 => q \in 0 .. GW /\ (i = 1 => q = 0) /\ (i = n => q = GW)
    BY <1>3
  <2>2. X(i) = IF n = 1 THEN PX ELSE PX + q
    OBVIOUS
  <2> HIDE DEF q, X, n
  <2>3. PX \in PX .. W - PX
    BY <1>g
  <2>4. ASSUME q \in 0 .. GW
        PROVE  /\ PX + q \in PX .. W - PX
               /\ (q = 0 => PX + q = PX) /\ (q = GW => PX + q = W - PX)
    <3>1. q \in 0 .. 680
      BY <1>g, <2>4
    <3>2. /\ 60 + q \in 60 .. 800 - 60
          /\ (q = 0 => 60 + q = 60) /\ (q = 680 => 60 + q = 800 - 60)
      BY <3>1
    <3> QED BY <1>g, <3>2
  <2> QED BY <2>1, <2>2, <2>3, <2>4
<1> HIDE DEF X
<1>5. n > 1 => X(1) = PX /\ X(n) = W - PX
  <2>1. 1 \in 1 .. n /\ n \in 1 .. n /\ (n > 1 => n # 1)
    <3>1. n \in Nat \ {0}
      BY <1>1
    <3> HIDE DEF n
    <3> QED BY <3>1
  <2> QED BY <1>4, <2>1
<1>6. ASSUME NEW i \in 1 .. n PROVE H - PY - Height(s, i) \in PY .. H - PY
  <2>1. Height(s, i) \in 0 .. GH
    BY <1>1, HeightIs
  <2> DEFINE h == Height(s, i)
  <2> HIDE DEF h
  <2>2. h \in 0 .. 164
    BY <1>g, <2>1 DEF h
  <2>3. 220 - 28 - h \in 28 .. 220 - 28
    BY <2>2
  <2> QED BY <1>g, <2>3 DEF h
<1>7. \E i \in 1 .. n : H - PY - Height(s, i) = H - PY
  <2>1. PICK i \in DOMAIN s : s[i] = Lowest(s)
    BY LowestIs
  <2>2. Height(s, i) = 0
    BY <2>1, HeightIs
  <2> QED BY <1>1, <1>g, <2>2
<1>8. ASSUME Lowest(s) # Highest(s) PROVE \E i \in 1 .. n : H - PY - Height(s, i) = PY
  <2>1. PICK i \in DOMAIN s : s[i] = Highest(s)
    BY HighestIs
  <2>2. Height(s, i) = GH
    BY <1>8, <2>1, HeightIs
  <2> QED BY <1>1, <1>g, <2>2
<1>9. \A i \in DOMAIN s : c[i].x \in PX .. W - PX /\ c[i].y \in PY .. H - PY
  BY <1>1, <1>2, <1>4, <1>6
<1>10. n > 1 => c[1].x = PX /\ c[n].x = W - PX
  BY <1>1, <1>2, <1>5
<1>11. \E i \in DOMAIN s : c[i].y = H - PY
  BY <1>1, <1>2, <1>7
<1>12. Lowest(s) # Highest(s) => \E i \in DOMAIN s : c[i].y = PY
  BY <1>1, <1>2, <1>8
<1> QED BY <1>9, <1>10, <1>11, <1>12 DEF c

(* To the pixel, the curve is above a grid line where its total is above   *)
(* the label of the line.                                                  *)
LEMMA CurveOverGrid ==
  ASSUME NEW s \in Seq(Nat), s # <<>>, NEW i \in DOMAIN s, NEW line \in 0 .. 3
  PROVE  LET c == Curve(s) IN
         /\ 3 * s[i] >= GridLabel(s, line) => 3 * c[i].y < GridLine(line) + 3
         /\ 3 * s[i] <= GridLabel(s, line) => 3 * c[i].y >= GridLine(line)
<1> DEFINE d == s[i] - Lowest(s)
           b == Span(s)
           q == Height(s, i)
           k == 3 - line
<1>1. b \in Nat \ {0} /\ d \in Nat /\ q \in Nat
  <2>1. b \in Nat \ {0} /\ d \in 0 .. b
    BY SpanIs
  <2>2. q \in 0 .. GH
    BY HeightIs
  <2>3. GH = 164
    BY Pixels
  <2> HIDE DEF b, d, q
  <2> QED BY <2>1, <2>2, <2>3
<1>2. q * b <= d * GH /\ d * GH < (q + 1) * b
  BY HeightIs
<1>3. Curve(s)[i].y = H - PY - q
  BY DEF Curve, Height
<1>4. s[i] \in Nat /\ Lowest(s) \in Nat
  BY LowestIs
<1>5. /\ 3 * s[i] >= GridLabel(s, line) <=> 3 * d >= k * b
      /\ 3 * s[i] <= GridLabel(s, line) <=> 3 * d <= k * b
  <2> DEFINE lowest == Lowest(s)
             total_i == s[i]
  <2>1. GridLabel(s, line) = 3 * lowest + k * b
    BY DEF GridLabel
  <2>2. d = total_i - lowest /\ total_i \in Nat /\ lowest \in Nat
    BY <1>4
  <2>3. k * b \in Nat
    <3>1. k \in Nat
      OBVIOUS
    <3> HIDE DEF k, b
    <3> QED BY <1>1, <3>1
  <2> HIDE DEF lowest, total_i, d, k, b
  <2>4. /\ 3 * total_i >= 3 * lowest + k * b <=> 3 * d >= k * b
        /\ 3 * total_i <= 3 * lowest + k * b <=> 3 * d <= k * b
    BY <2>2, <2>3
  <2> QED BY <2>1, <2>4 DEF total_i
<1>g. GH = 164 /\ PY = 28 /\ H = 220 /\ k \in 0 .. 3 /\ k \in Nat
  BY DEF GH, PY, H
<1>l. GridLine(line) = 3 * PY + (3 - k) * GH
  BY DEF GridLine
<1> HIDE DEF d, b, q, k
<1>6. 3 * d >= k * b => k * GH < 3 * (q + 1)
  <2> SUFFICES ASSUME 3 * d >= k * b PROVE k * GH < 3 * (q + 1)
    OBVIOUS
  <2>1. 3 * (d * GH) < 3 * ((q + 1) * b)
    BY <1>1, <1>2, <1>g
  <2>2. (k * GH) * b <= 3 * (d * GH)
    BY <1>1, <1>g
  <2>3. (k * GH) * b < (3 * (q + 1)) * b
    BY <1>1, <1>g, <2>1, <2>2
  <2> QED BY <1>1, <1>g, <2>3, Cancel
<1>7. 3 * d <= k * b => 3 * q <= k * GH
  <2> SUFFICES ASSUME 3 * d <= k * b PROVE 3 * q <= k * GH
    OBVIOUS
  <2>1. 3 * (q * b) <= 3 * (d * GH)
    BY <1>1, <1>2, <1>g
  <2>2. 3 * (d * GH) <= (k * GH) * b
    BY <1>1, <1>g
  <2>3. (3 * q) * b <= (k * GH) * b
    BY <1>1, <1>g, <2>1, <2>2
  <2> QED BY <1>1, <1>g, <2>3, Cancel
<1> QED BY <1>1, <1>3, <1>5, <1>6, <1>7, <1>g, <1>l

(* The deltas up to a point, one by one: a sum that needs no recursion.    *)
Steps(s, i) == UNION {{k} \X (1 .. Delta(s, k)) : k \in 1 .. i}

LEMMA DeltaIs ==
  ASSUME NEW s \in Seq(Nat), NEW i \in DOMAIN s
  PROVE  /\ Delta(s, i) \in Nat
         /\ i > 1 => s[i - 1] + Delta(s, i) >= s[i]
<1>1. DOMAIN s = 1 .. Len(s) /\ Len(s) \in Nat
  OBVIOUS
<1>2. s[i] \in Nat /\ (i > 1 => i - 1 \in 1 .. Len(s))
  BY <1>1
<1>3. i > 1 => s[i - 1] \in Nat
  BY <1>1, <1>2
<1> QED BY <1>2, <1>3 DEF Delta

LEMMA StepsAdd ==
  ASSUME NEW s \in Seq(Nat), NEW i \in DOMAIN s, IsFiniteSet(Steps(s, i - 1))
  PROVE  /\ IsFiniteSet(Steps(s, i))
         /\ Cardinality(Steps(s, i)) = Cardinality(Steps(s, i - 1)) + Delta(s, i)
<1> DEFINE A == Steps(s, i - 1)
           B == {i} \X (1 .. Delta(s, i))
           d == Delta(s, i)
<1>1. i \in Nat \ {0} /\ d \in Nat
  BY DeltaIs
<1>2. IsFiniteSet(B) /\ Cardinality(B) = d
  <2>1. IsFiniteSet({i}) /\ Cardinality({i}) = 1
    BY FS_Singleton
  <2>2. IsFiniteSet(1 .. d) /\ Cardinality(1 .. d) = d
    <3>1. 1 \in Int /\ d \in Int
      BY <1>1
    <3> HIDE DEF d
    <3>2. /\ IsFiniteSet(1 .. d)
          /\ Cardinality(1 .. d) = IF 1 > d THEN 0 ELSE d - 1 + 1
      BY <3>1, FS_Interval
    <3> QED BY <1>1, <3>2
  <2>3. IsFiniteSet(B) /\ Cardinality(B) = Cardinality({i}) * Cardinality(1 .. d)
    BY <2>1, <2>2, FS_Product
  <2> HIDE DEF B, d
  <2> QED BY <1>1, <2>1, <2>2, <2>3
<1>3. Steps(s, i) = A \cup B
  <2>1. 1 .. i = (1 .. i - 1) \cup {i}
    BY <1>1
  <2> QED BY <2>1 DEF Steps
<1>4. A \cap B = {}
  <2> SUFFICES ASSUME NEW x \in A, x \in B PROVE FALSE
    OBVIOUS
  <2>1. PICK k \in 1 .. i - 1 : x \in {k} \X (1 .. Delta(s, k))
    BY DEF Steps
  <2>2. x[1] = k /\ x[1] = i
    BY <2>1
  <2> QED BY <1>1, <2>1, <2>2
<1>5. Cardinality(A \cap B) = 0 /\ Cardinality(A) \in Nat
  BY <1>4, FS_EmptySet, FS_CardinalityType
<1>6. IsFiniteSet(A \cup B)
      /\ Cardinality(A \cup B) = Cardinality(A) + Cardinality(B) - Cardinality(A \cap B)
  BY <1>2, FS_Union
<1> HIDE DEF A, B, d
<1>7. Cardinality(A \cup B) = Cardinality(A) + d
  BY <1>1, <1>2, <1>5, <1>6
<1> QED BY <1>3, <1>6, <1>7 DEF A, d

LEMMA StepsFinite ==
  ASSUME NEW s \in Seq(Nat), NEW i \in 0 .. Len(s)
  PROVE  IsFiniteSet(Steps(s, i))
<1> DEFINE T == {k \in 0 .. Len(s) : ~ IsFiniteSet(Steps(s, k))}
<1>1. DOMAIN s = 1 .. Len(s) /\ Len(s) \in Nat
  OBVIOUS
<1> SUFFICES ASSUME T # {} PROVE FALSE
  OBVIOUS
<1>2. T \in SUBSET Nat
  BY <1>1
<1>3. PICK k \in T : \A m \in T : k <= m
  BY <1>2, Least
<1>4. k # 0
  <2>1. 1 .. 0 = {}
    OBVIOUS
  <2>2. Steps(s, 0) = {}
    BY <2>1 DEF Steps
  <2> QED BY <1>3, <2>2, FS_EmptySet
<1>5. k \in 1 .. Len(s) /\ k - 1 \in 0 .. Len(s) /\ ~ (k <= k - 1)
  BY <1>1, <1>3, <1>4
<1>6. IsFiniteSet(Steps(s, k - 1))
  BY <1>3, <1>5
<1> QED BY <1>1, <1>3, <1>5, <1>6, StepsAdd

(* The increment over the chart is never more than the deltas of its       *)
(* points, of which a reset takes none away.                               *)
LEMMA GrowthCounted ==
  ASSUME NEW s \in Seq(Nat), s # <<>>
  PROVE  LET sum[i \in 0 .. Len(s)] == IF i = 0 THEN 0 ELSE sum[i - 1] + Delta(s, i)
         IN  Growth(s) <= sum[Len(s)]
<1> DEFINE n == Len(s)
           Eq(f) == f = [i \in 0 .. n |-> IF i = 0 THEN 0 ELSE f[i - 1] + Delta(s, i)]
           sum == CHOOSE f : Eq(f)
           count == [i \in 0 .. n |-> Cardinality(Steps(s, i))]
<1>1. n \in Nat \ {0} /\ DOMAIN s = 1 .. n /\ \A i \in 1 .. n : s[i] \in Nat
  OBVIOUS
<1>2. Eq(count)
  <2>1. count[0] = 0
    <3>1. 1 .. 0 = {}
      OBVIOUS
    <3>2. Steps(s, 0) = {}
      BY <3>1 DEF Steps
    <3>3. 0 \in 0 .. n
      BY <1>1
    <3>4. count[0] = Cardinality(Steps(s, 0))
      BY <3>3
    <3> HIDE DEF count
    <3> QED BY <3>2, <3>4, FS_EmptySet
  <2>2. ASSUME NEW i \in 1 .. n PROVE count[i] = count[i - 1] + Delta(s, i)
    <3>1. i - 1 \in 0 .. n /\ i \in 0 .. n /\ i \in DOMAIN s
      BY <1>1
    <3> QED BY <3>1, StepsFinite, StepsAdd
  <2>3. \A i \in 0 .. n : i = 0 \/ i \in 1 .. n
    BY <1>1
  <2>4. \A i \in 0 .. n : count[i] = IF i = 0 THEN 0 ELSE count[i - 1] + Delta(s, i)
    BY <2>1, <2>2, <2>3
  <2> DEFINE g == [i \in 0 .. n |-> IF i = 0 THEN 0 ELSE count[i - 1] + Delta(s, i)]
  <2>5. count = g
    <3>1. \A i \in 0 .. n : count[i] = g[i]
      BY <2>4
    <3>2. DOMAIN count = 0 .. n /\ DOMAIN g = 0 .. n
      OBVIOUS
    <3>3. count = [i \in 0 .. n |-> count[i]] /\ g = [i \in 0 .. n |-> g[i]]
      OBVIOUS
    <3> HIDE DEF count, g
    <3> QED BY <3>1, <3>3
  <2> QED BY <2>5
<1> HIDE DEF count
<1>3. Eq(sum)
  <2> HIDE DEF Eq
  <2> QED BY <1>2
<1> HIDE DEF sum
<1>4. sum[0] = 0 /\ \A i \in 1 .. n : sum[i] = sum[i - 1] + Delta(s, i)
  <2>1. 0 \in 0 .. n /\ \A i \in 1 .. n : i \in 0 .. n /\ i # 0
    BY <1>1
  <2> QED BY <1>3, <2>1
<1> DEFINE Good(i) == sum[i] \in Nat /\ s[i] <= s[1] + sum[i]
           T == {i \in 1 .. n : ~ Good(i)}
<1>5. Good(1)
  <2>1. Delta(s, 1) \in Nat /\ s[1] \in Nat
    BY <1>1, DeltaIs
  <2>2. sum[1] = sum[1 - 1] + Delta(s, 1) /\ 1 - 1 = 0
    BY <1>1, <1>4
  <2> QED BY <1>4, <2>1, <2>2
<1>6. ASSUME NEW i \in 1 .. n, i # 1, Good(i - 1) PROVE Good(i)
  <2>1. i \in DOMAIN s /\ i > 1 /\ i - 1 \in 1 .. n
    BY <1>1, <1>6
  <2>2. Delta(s, i) \in Nat /\ s[i - 1] + Delta(s, i) >= s[i]
    BY <2>1, DeltaIs
  <2>3. s[i] \in Nat /\ s[i - 1] \in Nat /\ s[1] \in Nat
    BY <1>1, <2>1
  <2>4. sum[i] = sum[i - 1] + Delta(s, i)
    BY <1>4
  <2>5. sum[i - 1] \in Nat /\ s[i - 1] <= s[1] + sum[i - 1]
    BY <1>6
  <2> DEFINE before == sum[i - 1]
             delta == Delta(s, i)
             prior == s[i - 1]
  <2>6. before \in Nat /\ delta \in Nat /\ prior \in Nat
    BY <2>2, <2>3, <2>5
  <2>7. sum[i] = before + delta /\ s[i] <= prior + delta /\ prior <= s[1] + before
    BY <2>2, <2>3, <2>4, <2>5
  <2> HIDE DEF before, delta, prior
  <2>8. sum[i] \in Nat
    BY <2>6, <2>7
  <2>9. s[i] <= s[1] + sum[i]
    BY <2>3, <2>6, <2>7
  <2> QED BY <2>8, <2>9
<1>7. T = {}
  <2> SUFFICES ASSUME T # {} PROVE FALSE
    OBVIOUS
  <2>1. T \in SUBSET Nat
    BY <1>1
  <2>2. PICK i \in T : \A m \in T : i <= m
    BY <2>1, Least
  <2>3. i # 1 /\ i \in 1 .. n /\ ~ Good(i)
    BY <1>5, <2>2
  <2>4. i - 1 \in 1 .. n /\ ~ (i <= i - 1)
    BY <1>1, <2>3
  <2>5. Good(i - 1)
    BY <2>2, <2>4
  <2> QED BY <1>6, <2>3, <2>5
<1>8. Good(n)
  BY <1>1, <1>7
<1>9. Growth(s) <= sum[n]
  BY <1>1, <1>8 DEF Growth
<1> QED BY <1>9 DEF sum

(* The series that is drawn is one of totals, and not empty.               *)
LEMMA CurveIsTrue ==
  ASSUME points.series \in Seq(Nat)
  PROVE  CurveTruthful
<1> DEFINE s == SafePoints(points.series)
<1>1. s \in Seq(Nat) /\ s # <<>>
  BY DEF SafePoints
<1> HIDE DEF s
<1> DEFINE c == Curve(s)
           sum == CHOOSE sum : sum = [i \in 0 .. Len(s) |->
                    IF i = 0 THEN 0 ELSE sum[i - 1] + Delta(s, i)]
<1>2. /\ \A i \in DOMAIN s : c[i].x \in PX .. W - PX /\ c[i].y \in PY .. H - PY
      /\ Len(s) > 1 => c[1].x = PX /\ c[Len(s)].x = W - PX
      /\ \E i \in DOMAIN s : c[i].y = H - PY
      /\ Lowest(s) # Highest(s) => \E i \in DOMAIN s : c[i].y = PY
  BY <1>1, CurveInBox
<1>3. \A i \in DOMAIN s, line \in 0 .. 3 :
        /\ 3 * s[i] >= GridLabel(s, line) => 3 * c[i].y < GridLine(line) + 3
        /\ 3 * s[i] <= GridLabel(s, line) => 3 * c[i].y >= GridLine(line)
  BY <1>1, CurveOverGrid
<1>4. Growth(s) <= sum[Len(s)]
  BY <1>1, GrowthCounted
<1> HIDE DEF c, sum
<1> QED BY <1>2, <1>3, <1>4 DEF CurveTruthful, s, c, sum

-----------------------------------------------------------------------------
(* The bars and the filters count rules.                                   *)

LEMMA Counted ==
  ASSUME NEW s \in Seq(Rules), NEW A \in SUBSET DOMAIN s
  PROVE  /\ IsFiniteSet(A) /\ Cardinality(A) \in Nat /\ Cardinality(A) <= Len(s)
         /\ Len(s) \in Nat /\ DOMAIN s = 1 .. Len(s)
         /\ IsFiniteSet(DOMAIN s) /\ Cardinality(DOMAIN s) = Len(s)
<1> DEFINE n == Len(s)
<1>1. n \in Nat /\ DOMAIN s = 1 .. n
  OBVIOUS
<1> HIDE DEF n
<1>2. 1 \in Int /\ n \in Int
  BY <1>1
<1>3. IsFiniteSet(1 .. n) /\ Cardinality(1 .. n) = IF 1 > n THEN 0 ELSE n - 1 + 1
  BY <1>2, FS_Interval
<1>4. Cardinality(1 .. n) = n
  BY <1>1, <1>3
<1>5. IsFiniteSet(A) /\ Cardinality(A) <= n
  BY <1>1, <1>3, <1>4, FS_Subset
<1>6. Cardinality(A) \in Nat
  BY <1>5, FS_CardinalityType
<1> QED BY <1>1, <1>3, <1>4, <1>5, <1>6 DEF n

LEMMA Apart ==
  ASSUME NEW A, NEW B, IsFiniteSet(A), IsFiniteSet(B), A \cap B = {}
  PROVE  /\ IsFiniteSet(A \cup B)
         /\ Cardinality(A \cup B) = Cardinality(A) + Cardinality(B)
<1>1. /\ IsFiniteSet(A \cup B)
      /\ Cardinality(A \cup B) = Cardinality(A) + Cardinality(B) - Cardinality(A \cap B)
  BY FS_Union
<1>2. Cardinality(A \cap B) = 0 /\ Cardinality(A) \in Nat /\ Cardinality(B) \in Nat
  BY FS_EmptySet, FS_CardinalityType
<1> QED BY <1>1, <1>2

(* What the filter of RulesPage makes of a rule.                           *)
LEMMA FilterOfRule ==
  ASSUME NEW rule \in Rules
  PROVE  /\ \A wanted \in {"running", "stopped", "error", "disabled"} :
              Passes(rule, wanted) <=> RowBadge(rule).text = wanted
         /\ \A state \in {"running", "stopped", "error"} :
              Passes(rule, state) <=> rule.enabled /\ rule.state = state
         /\ Passes(rule, "enabled") <=> rule.enabled
         /\ Passes(rule, "disabled") <=> ~ rule.enabled
         /\ Passes(rule, "all")
<1>1. rule.enabled \in BOOLEAN
      /\ rule.state \in {"running", "stopped", "error", "unsupported", "none"}
  BY DEF Rules, States
<1>2. CASE ~ rule.enabled
  <2>1. FilterKey(rule) = "disabled" /\ RowBadge(rule).text = "disabled"
    BY <1>2 DEF FilterKey, RowBadge
  <2> QED BY <1>2, <2>1 DEF Passes
<1>3. CASE rule.enabled
  <2>1. FilterKey(rule) = IF rule.state = "none" THEN "enabled" ELSE rule.state
    BY <1>3 DEF FilterKey
  <2>2. RowBadge(rule).text = IF rule.state = "none" THEN "unreported" ELSE rule.state
    BY <1>1, <1>3 DEF RowBadge, statusText
  <2> QED BY <1>1, <1>3, <2>1, <2>2 DEF Passes
<1> QED BY <1>1, <1>2, <1>3

LEMMA FiltersAreTrue ==
  ASSUME rules \in Seq(Rules)
  PROVE  FiltersTruthful
<1> DEFINE s == rules
<1>1. \A i \in DOMAIN s : s[i] \in Rules
  OBVIOUS
<1>2. \A i \in DOMAIN s, wanted \in {"running", "stopped", "error", "disabled"} :
        Passes(s[i], wanted) <=> RowBadge(s[i]).text = wanted
  BY <1>1, FilterOfRule
<1>3. ASSUME NEW state \in {"running", "stopped", "error"}
      PROVE  InState(s, state) - Found(s, state) =
               Cardinality({i \in DOMAIN s : CountedTwice(s[i]) /\ s[i].state = state})
  <2> DEFINE A == {i \in DOMAIN s : s[i].state = state}
             B == {i \in DOMAIN s : Passes(s[i], state)}
             C == {i \in DOMAIN s : CountedTwice(s[i]) /\ s[i].state = state}
  <2>1. \A i \in DOMAIN s : Passes(s[i], state) <=> s[i].enabled /\ s[i].state = state
    BY <1>1, FilterOfRule
  <2>2. A = B \cup C /\ B \cap C = {}
    BY <2>1 DEF CountedTwice
  <2>3. /\ IsFiniteSet(B) /\ Cardinality(B) \in Nat
        /\ IsFiniteSet(C) /\ Cardinality(C) \in Nat
    BY Counted
  <2>4. Cardinality(A) = Cardinality(B) + Cardinality(C)
    <3> HIDE DEF A, B, C
    <3> QED BY <2>2, <2>3, Apart
  <2>5. Cardinality(A) - Cardinality(B) = Cardinality(C)
    BY <2>3, <2>4
  <2> QED BY <2>5 DEF InState, Found
<1>4. Found(s, "enabled") + Found(s, "disabled") = Found(s, "all")
  <2> DEFINE A == {i \in DOMAIN s : Passes(s[i], "all")}
             B == {i \in DOMAIN s : Passes(s[i], "enabled")}
             C == {i \in DOMAIN s : Passes(s[i], "disabled")}
  <2>1. A = B \cup C /\ B \cap C = {}
    BY <1>1, FilterOfRule
  <2>2. IsFiniteSet(B) /\ IsFiniteSet(C)
    BY Counted
  <2>3. Cardinality(A) = Cardinality(B) + Cardinality(C)
    <3> HIDE DEF A, B, C
    <3> QED BY <2>1, <2>2, Apart
  <2> QED BY <2>3 DEF Found
<1>5. Found(s, "disabled") = Disabled(s)
  <2>1. {i \in DOMAIN s : Passes(s[i], "disabled")} = {i \in DOMAIN s : ~ s[i].enabled}
    BY <1>1, FilterOfRule
  <2> QED BY <2>1 DEF Found, Disabled
<1> QED BY <1>2, <1>3, <1>4, <1>5 DEF FiltersTruthful

(* Four parts of a whole, each cut to a percent, fit into it.              *)
LEMMA PercentsFit ==
  ASSUME NEW n \in Nat \ {0}, NEW a \in Nat, NEW b \in Nat, NEW c \in Nat, NEW d \in Nat,
         a + b + c + d <= n
  PROVE  (a * 100) \div n + (b * 100) \div n + (c * 100) \div n + (d * 100) \div n <= 100
<1> DEFINE p == (a * 100) \div n
           q == (b * 100) \div n
           r == (c * 100) \div n
           t == (d * 100) \div n
<1>1. a * 100 \in Nat /\ b * 100 \in Nat /\ c * 100 \in Nat /\ d * 100 \in Nat
  OBVIOUS
<1>2. /\ p \in Nat /\ p * n <= a * 100
      /\ q \in Nat /\ q * n <= b * 100
      /\ r \in Nat /\ r * n <= c * 100
      /\ t \in Nat /\ t * n <= d * 100
  BY <1>1, Quotient
<1> HIDE DEF p, q, r, t
<1>3. (p + q + r + t) * n <= 100 * n
  <2>1. (p + q + r + t) * n = p * n + q * n + r * n + t * n
    BY <1>2
  <2>2. /\ p * n \in Nat /\ q * n \in Nat /\ r * n \in Nat /\ t * n \in Nat
    BY <1>2
  <2> QED BY <1>2, <2>1, <2>2
<1>4. p + q + r + t <= 100
  BY <1>2, <1>3, Cancel
<1> QED BY <1>4 DEF p, q, r, t

LEMMA PartsFit ==
  ASSUME NEW s \in Seq(Rules), s # <<>>, ~ (\E i \in DOMAIN s : CountedTwice(s[i]))
  PROVE  Part(s, InState(s, "running")) + Part(s, InState(s, "stopped"))
           + Part(s, InState(s, "error")) + Part(s, Disabled(s)) <= 100
<1> DEFINE A == {i \in DOMAIN s : s[i].state = "running"}
           B == {i \in DOMAIN s : s[i].state = "stopped"}
           C == {i \in DOMAIN s : s[i].state = "error"}
           D == {i \in DOMAIN s : ~ s[i].enabled}
<1>1. A \cap B = {} /\ (A \cup B) \cap C = {} /\ ((A \cup B) \cup C) \cap D = {}
  BY DEF CountedTwice
<1>2. /\ IsFiniteSet(A) /\ Cardinality(A) \in Nat
      /\ IsFiniteSet(B) /\ Cardinality(B) \in Nat
      /\ IsFiniteSet(C) /\ Cardinality(C) \in Nat
      /\ IsFiniteSet(D) /\ Cardinality(D) \in Nat
  BY Counted
<1>3. Cardinality(((A \cup B) \cup C) \cup D) <= Len(s)
  <2>1. ((A \cup B) \cup C) \cup D \in SUBSET DOMAIN s
    OBVIOUS
  <2> QED BY <2>1, Counted
<1>n. Len(s) \in Nat \ {0}
  OBVIOUS
<1>p. /\ InState(s, "running") = Cardinality(A) /\ InState(s, "stopped") = Cardinality(B)
      /\ InState(s, "error") = Cardinality(C) /\ Disabled(s) = Cardinality(D)
  BY DEF InState, Disabled
<1> HIDE DEF A, B, C, D
<1>4. IsFiniteSet(A \cup B) /\ Cardinality(A \cup B) = Cardinality(A) + Cardinality(B)
  BY <1>1, <1>2, Apart
<1>5. /\ IsFiniteSet((A \cup B) \cup C)
      /\ Cardinality((A \cup B) \cup C) = Cardinality(A \cup B) + Cardinality(C)
  BY <1>1, <1>2, <1>4, Apart
<1>6. Cardinality(((A \cup B) \cup C) \cup D) = Cardinality((A \cup B) \cup C) + Cardinality(D)
  BY <1>1, <1>2, <1>5, Apart
<1>7. Cardinality(A) + Cardinality(B) + Cardinality(C) + Cardinality(D) <= Len(s)
  BY <1>3, <1>4, <1>5, <1>6
<1> DEFINE n == Len(s)
           a == Cardinality(A)
           b == Cardinality(B)
           c == Cardinality(C)
           d == Cardinality(D)
<1> HIDE DEF n, a, b, c, d
<1>8. (a * 100) \div n + (b * 100) \div n + (c * 100) \div n + (d * 100) \div n <= 100
  <2>1. n \in Nat \ {0} /\ a \in Nat /\ b \in Nat /\ c \in Nat /\ d \in Nat
    BY <1>2, <1>n DEF n, a, b, c, d
  <2>2. a + b + c + d <= n
    BY <1>7 DEF n, a, b, c, d
  <2> QED BY <2>1, <2>2, PercentsFit
<1> QED BY <1>8, <1>p DEF Part, n, a, b, c, d

LEMMA BarIsTrue ==
  ASSUME NEW rule \in Rules
  PROVE  /\ TopBar(rule) \in 0 .. 100
         /\ TopBar(rule) = 100 <=> rule.used > 0 /\ rule.used >= rule.limit
<1> DEFINE u == rule.used
           l == rule.limit
           b == Either(l, Either(u, 1))
           q == (u * 100) \div b
<1>1. u \in Nat /\ l \in Nat
  BY DEF Rules
<1>2. b \in Nat \ {0} /\ b = IF l # 0 THEN l ELSE IF u # 0 THEN u ELSE 1
  BY <1>1 DEF Either
<1>3. TopBar(rule) = IF q > 100 THEN 100 ELSE q
  BY DEF TopBar
<1> HIDE DEF u, l, b
<1>4. u * 100 \in Nat
  BY <1>1
<1>5. q \in Nat /\ q * b <= u * 100 /\ u * 100 < q * b + b
  BY <1>2, <1>4, Quotient
<1> HIDE DEF q
<1>6. u >= b => q >= 100
  <2>1. u >= b => 100 * b < (q + 1) * b
    BY <1>1, <1>2, <1>5
  <2>2. 100 * b < (q + 1) * b => 100 < q + 1
    BY <1>2, <1>5, Cancel
  <2> QED BY <1>5, <2>1, <2>2
<1>7. q >= 100 => u >= b
  <2> SUFFICES ASSUME q >= 100 PROVE u >= b
    OBVIOUS
  <2>1. 100 * b <= q * b
    BY <1>2, <1>5
  <2>2. 100 * b <= 100 * u
    BY <1>1, <1>2, <1>5, <2>1
  <2> QED BY <1>1, <1>2, <2>2
<1>8. u >= b <=> u > 0 /\ u >= l
  BY <1>1, <1>2
<1> QED BY <1>3, <1>5, <1>6, <1>7, <1>8 DEF u, l

-----------------------------------------------------------------------------
(* Top: every place is taken, once, and the places go by traffic.          *)

LEMMA AboveIs ==
  ASSUME NEW s \in Seq(Rules), NEW i \in DOMAIN s, NEW j \in DOMAIN s
  PROVE  /\ Above(s, i, j) => s[i].used >= s[j].used /\ i # j
         /\ i # j => Above(s, i, j) \/ Above(s, j, i)
         /\ \A k \in DOMAIN s : Above(s, k, i) /\ Above(s, i, j) => Above(s, k, j)
<1>1. \A k \in DOMAIN s : s[k] \in Rules /\ k \in Nat
  OBVIOUS
<1>2. \A k \in DOMAIN s : s[k].used \in Nat
  BY <1>1 DEF Rules
<1> QED BY <1>1, <1>2 DEF Above

LEMMA PlaceIs ==
  ASSUME NEW s \in Seq(Rules)
  PROVE  /\ \A i \in DOMAIN s : Place(s, i) \in 1 .. Len(s)
         /\ \A i, j \in DOMAIN s : Above(s, i, j) => Place(s, i) < Place(s, j)
         /\ \A i, j \in DOMAIN s : Place(s, i) = Place(s, j) => i = j
         /\ \A k \in 1 .. Len(s) : \E i \in DOMAIN s : Place(s, i) = k
<1> DEFINE n == Len(s)
           Over(i) == {j \in DOMAIN s : Above(s, j, i)}
<1>1. /\ n \in Nat /\ DOMAIN s = 1 .. n
      /\ IsFiniteSet(DOMAIN s) /\ Cardinality(DOMAIN s) = n
  BY Counted
<1>2. \A i \in DOMAIN s : IsFiniteSet(Over(i)) /\ Cardinality(Over(i)) \in Nat
  BY Counted
<1>3. ASSUME NEW i \in DOMAIN s, NEW T \in SUBSET DOMAIN s,
             Over(i) \subseteq T, i \in T
      PROVE  Cardinality(Over(i)) + 1 <= Cardinality(T)
  <2>1. i \notin Over(i)
    BY AboveIs
  <2>2. Cardinality(Over(i) \cup {i}) = Cardinality(Over(i)) + 1
    BY <1>2, <2>1, FS_AddElement
  <2>3. Over(i) \cup {i} \in SUBSET T /\ IsFiniteSet(T)
    BY <1>3, Counted
  <2> HIDE DEF Over
  <2> QED BY <2>2, <2>3, FS_Subset
<1>4. \A i \in DOMAIN s : Place(s, i) = Cardinality(Over(i)) + 1
  <2> SUFFICES ASSUME NEW i \in DOMAIN s PROVE Place(s, i) = Cardinality(Over(i)) + 1
    OBVIOUS
  <2>1. Place(s, i) = 1 + Cardinality(Over(i))
    BY DEF Place
  <2> HIDE DEF Over
  <2> QED BY <1>2, <2>1
<1>5. ASSUME NEW i \in DOMAIN s PROVE Place(s, i) \in 1 .. n
  <2>1. Over(i) \subseteq DOMAIN s
    OBVIOUS
  <2> HIDE DEF Over
  <2>2. Cardinality(Over(i)) + 1 <= n
    BY <1>1, <1>3, <2>1
  <2> QED BY <1>1, <1>2, <1>4, <2>2
<1>6. ASSUME NEW i \in DOMAIN s, NEW j \in DOMAIN s, Above(s, i, j)
      PROVE  Place(s, i) < Place(s, j)
  <2>1. Over(i) \subseteq Over(j) /\ i \in Over(j) /\ Over(j) \in SUBSET DOMAIN s
    BY <1>6, AboveIs
  <2> HIDE DEF Over
  <2>2. Cardinality(Over(i)) + 1 <= Cardinality(Over(j))
    BY <1>3, <2>1
  <2> QED BY <1>2, <1>4, <2>2
<1>7. ASSUME NEW i \in DOMAIN s, NEW j \in DOMAIN s, Place(s, i) = Place(s, j), i # j
      PROVE  FALSE
  <2>1. Place(s, i) < Place(s, j) \/ Place(s, j) < Place(s, i)
    BY <1>6, <1>7, AboveIs
  <2> QED BY <1>5, <1>7, <2>1
<1> DEFINE f == [i \in DOMAIN s |-> Place(s, i)]
<1>8. f \in Injection(DOMAIN s, 1 .. n)
  <2>1. f \in [DOMAIN s -> 1 .. n]
    BY <1>5
  <2>2. \A i, j \in DOMAIN s : f[i] = f[j] => i = j
    BY <1>7
  <2> QED BY <2>1, <2>2 DEF Injection, IsInjective
<1>9. IsFiniteSet(1 .. n) /\ Cardinality(1 .. n) = Cardinality(DOMAIN s)
  BY <1>1
<1>10. f \in Surjection(DOMAIN s, 1 .. n)
  <2> HIDE DEF f, n
  <2> QED BY <1>8, <1>9, FS_Injection
<1>11. \A k \in 1 .. n : \E i \in DOMAIN s : Place(s, i) = k
  BY <1>10 DEF Surjection
<1> QED BY <1>5, <1>6, <1>7, <1>11

LEMMA TopIs ==
  ASSUME NEW s \in Seq(Rules)
  PROVE  LET n == IF Len(s) < 6 THEN Len(s) ELSE 6 IN
         /\ n \in Nat /\ DOMAIN Top(s) = 1 .. n /\ Len(Top(s)) = n
         /\ \A i \in DOMAIN s : Place(s, i) \in 1 .. n => Top(s)[Place(s, i)] = s[i]
         /\ \A k \in 1 .. n : \E i \in DOMAIN s : Place(s, i) = k /\ Top(s)[k] = s[i]
<1> DEFINE n == IF Len(s) < 6 THEN Len(s) ELSE 6
           at(k) == CHOOSE i \in DOMAIN s : Place(s, i) = k
<1>1. Len(s) \in Nat /\ n \in Nat /\ n <= Len(s)
  OBVIOUS
<1>2. Top(s) = [k \in 1 .. n |-> s[at(k)]]
  BY DEF Top
<1> HIDE DEF n
<1>3. \A k \in 1 .. n : at(k) \in DOMAIN s /\ Place(s, at(k)) = k
  <2> SUFFICES ASSUME NEW k \in 1 .. n PROVE at(k) \in DOMAIN s /\ Place(s, at(k)) = k
    OBVIOUS
  <2>1. k \in 1 .. Len(s)
    BY <1>1
  <2>2. \E i \in DOMAIN s : Place(s, i) = k
    BY <2>1, PlaceIs
  <2> QED BY <2>2
<1>4. ASSUME NEW i \in DOMAIN s, Place(s, i) \in 1 .. n
      PROVE  at(Place(s, i)) = i
  <2> HIDE DEF at
  <2> QED BY <1>3, <1>4, PlaceIs
<1> HIDE DEF at
<1>5. DOMAIN Top(s) = 1 .. n /\ Len(Top(s)) = n
  BY <1>1, <1>2
<1>6. \A i \in DOMAIN s : Place(s, i) \in 1 .. n => Top(s)[Place(s, i)] = s[i]
  BY <1>2, <1>4
<1>7. \A k \in 1 .. n : \E i \in DOMAIN s : Place(s, i) = k /\ Top(s)[k] = s[i]
  BY <1>2, <1>3
<1> QED BY <1>1, <1>5, <1>6, <1>7 DEF n

LEMMA BarsAreTrue ==
  ASSUME rules \in Seq(Rules)
  PROVE  BarsTruthful
<1> DEFINE s == rules
           n == IF Len(s) < 6 THEN Len(s) ELSE 6
<1>1. /\ n \in Nat /\ DOMAIN Top(s) = 1 .. n /\ Len(Top(s)) = n
      /\ \A i \in DOMAIN s : Place(s, i) \in 1 .. n => Top(s)[Place(s, i)] = s[i]
      /\ \A k \in 1 .. n : \E i \in DOMAIN s : Place(s, i) = k /\ Top(s)[k] = s[i]
  BY TopIs
<1>2. Len(s) \in Nat /\ n <= Len(s) /\ (n < Len(s) => n = 6)
  OBVIOUS
<1> HIDE DEF n
<1>3. ASSUME NEW i \in DOMAIN s, ~ (\E k \in DOMAIN Top(s) : Top(s)[k] = s[i])
      PROVE  Len(Top(s)) = 6 /\ \A k \in 1 .. 6 : Top(s)[k].used >= s[i].used
  <2>1. Place(s, i) \in 1 .. Len(s) /\ Place(s, i) \notin 1 .. n
    BY <1>1, <1>3, PlaceIs
  <2>2. n < Place(s, i) /\ n = 6
    BY <1>1, <1>2, <2>1
  <2>3. ASSUME NEW k \in 1 .. n PROVE Top(s)[k].used >= s[i].used
    <3>1. PICK j \in DOMAIN s : Place(s, j) = k /\ Top(s)[k] = s[j]
      BY <1>1
    <3>2. Place(s, j) < Place(s, i) /\ ~ (Place(s, i) < Place(s, j)) /\ i # j
      BY <1>1, <2>1, <2>2, <3>1
    <3>3. Above(s, j, i)
      BY <3>2, AboveIs, PlaceIs
    <3> QED BY <3>1, <3>3, AboveIs
  <2> QED BY <1>1, <2>2, <2>3
<1>4. ASSUME NEW k \in 1 .. n, k > 1
      PROVE  Top(s)[k].used <= Top(s)[k - 1].used
  <2>1. k - 1 \in 1 .. n
    BY <1>1, <1>4
  <2>2. PICK i \in DOMAIN s : Place(s, i) = k /\ Top(s)[k] = s[i]
    BY <1>1
  <2>3. PICK j \in DOMAIN s : Place(s, j) = k - 1 /\ Top(s)[k - 1] = s[j]
    BY <1>1, <2>1
  <2>4. ~ (Place(s, i) < Place(s, j)) /\ i # j
    BY <1>1, <2>2, <2>3
  <2>5. Above(s, j, i)
    BY <2>4, AboveIs, PlaceIs
  <2>6. s[j].used >= s[i].used
    BY <2>5, AboveIs
  <2>7. s[i] \in Rules /\ s[j] \in Rules
    OBVIOUS
  <2>8. s[j].used \in Nat /\ s[i].used \in Nat
    BY <2>7 DEF Rules
  <2> QED BY <2>2, <2>3, <2>6, <2>8
<1>5. ASSUME NEW k \in 1 .. n
      PROVE  /\ TopBar(Top(s)[k]) \in 0 .. 100
             /\ TopBar(Top(s)[k]) = 100 <=>
                  Top(s)[k].used > 0 /\ Top(s)[k].used >= Top(s)[k].limit
  <2>1. Top(s)[k] \in Rules
    BY <1>1
  <2> QED BY <2>1, BarIsTrue
<1>6. s # <<>> /\ ~ (\E i \in DOMAIN s : CountedTwice(s[i])) =>
        Part(s, InState(s, "running")) + Part(s, InState(s, "stopped"))
          + Part(s, InState(s, "error")) + Part(s, Disabled(s)) <= 100
  BY PartsFit
<1> QED BY <1>1, <1>3, <1>4, <1>5, <1>6 DEF BarsTruthful

(* Curve, grid, bars, top six and filters are true to the series and the   *)
(* rules that the dashboard was given: for every series of totals, of any  *)
(* length, and every list of rules.                                        *)
THEOREM ChartIsTrue == BoardSpec => []ChartTruthful
<1>1. ASSUME BoardTypeOK PROVE ChartTruthful
  <2>1. points.series \in Seq(Totals) /\ rules \in Seq(Rules) /\ Totals \subseteq Nat
    BY <1>1, TotalAssumption DEF BoardTypeOK, TotalAssumption
  <2>2. points.series \in Seq(Nat)
    <3> DEFINE s == points.series
    <3>1. Len(s) \in Nat /\ s \in [1 .. Len(s) -> Totals]
      BY <2>1
    <3>2. s \in [1 .. Len(s) -> Nat]
      BY <2>1, <3>1
    <3> HIDE DEF s
    <3>3. s \in Seq(Nat)
      BY <3>1, <3>2
    <3> QED BY <3>3 DEF s
  <2> QED BY <2>1, <2>2, CurveIsTrue, BarsAreTrue, FiltersAreTrue DEF ChartTruthful
<1> QED BY <1>1, BoardTypeCorrect, PTL
=============================================================================
