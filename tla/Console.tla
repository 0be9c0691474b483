------------------------------ MODULE Console -------------------------------
(***************************************************************************)
(* One page of the web console beside the panel it shows: what App keeps   *)
(* (user, lists, spinner) and the requests that it has under way.          *)
(*                                                                         *)
(* Every change of the panel's nodes and rules makes a new version of      *)
(* them: a list on the screen is the version it was read at, and a user    *)
(* the number of its session.  The toggle, clone, reset, delete and save   *)
(* of a rule or a node are the same chain of awaits, and one kind of write *)
(* here.  A request that the page gave up may still be served: to the page *)
(* that is a change made elsewhere.  The chart of the dashboard is         *)
(* Dashboard's, and the account page Account's; the list of users, filters *)
(* and toasts are left out.                                                *)
(***************************************************************************)
EXTENDS Integers

CONSTANTS
  MaxVersion,   \* bound on the versions of the panel's lists
  MaxPresses    \* bound on what the user does

ASSUME BoundAssumption == MaxVersion \in Nat /\ MaxPresses \in Nat

VARIABLES
  version,     \* panel: the version of its nodes and rules
  sessions,    \* panel: how many sessions were opened
  ended,       \* panel: the sessions that a logout deleted
  cookie,      \* browser: the session that its requests carry, or 0
  user,        \* App: user, by its session, or 0 for null
  loading,     \* App: loading
  refreshing,  \* App: refreshing
  lists,       \* App: nodes and rules, and the refresh that set them
  refreshes,   \* refreshAll: the calls under way
  writes,      \* the handlers that wait for the answer to a write
  logouts,     \* logout: the calls under way
  begun,       \* how often refreshAll was called
  acked,       \* the newest version that an answer to a write told of
  presses      \* what the user did so far

panelVars == <<version, sessions, ended>>
appVars == <<cookie, user, loading>>
refreshVars == <<refreshing, refreshes, begun>>
requestVars == <<writes, logouts, acked>>
vars == <<panelVars, appVars, refreshVars, lists, requestVars, presses>>

NoLists == [from |-> 0, as |-> 0, nodes |-> 0, rules |-> 0]

Live(s) == s \in 1 .. sessions /\ s \notin ended

Press == presses < MaxPresses /\ presses' = presses + 1

-----------------------------------------------------------------------------

(* A call of refreshAll: its requests leave with the cookie of that time.  *)
RefreshAll(loud, s) ==
  /\ begun' = begun + 1
  /\ refreshes' = refreshes \cup
       {[n |-> begun + 1, loud |-> loud, as |-> s, nodes |-> 0, rules |-> 0]}
  /\ refreshing' = (loud \/ refreshing)

(* The user of App becomes that of session s: the effect on user calls     *)
(* refreshAll.                                                             *)
Appear(s) == user' = s /\ RefreshAll(FALSE, s)

(* The first effect of App: GET /api/me.                                   *)
Boot ==
  /\ loading
  /\ loading' = FALSE
  /\ \/ Live(cookie) /\ Appear(cookie)
     \/ UNCHANGED <<user, refreshVars>>
  /\ UNCHANGED <<panelVars, cookie, lists, requestVars, presses>>

(* The page is loaded again and forgets everything; the cookie stays.      *)
Reload ==
  /\ Press
  /\ user' = 0 /\ loading' = TRUE /\ lists' = NoLists
  /\ refreshing' = FALSE /\ refreshes' = {} /\ writes' = {} /\ logouts' = {}
  /\ UNCHANGED <<panelVars, cookie, begun, acked>>

(* LoginPage is shown, and its login succeeds (Account has the steps).     *)
Login ==
  /\ ~ loading /\ user = 0 /\ Press
  /\ sessions' = sessions + 1 /\ cookie' = sessions + 1
  /\ Appear(sessions + 1)
  /\ UNCHANGED <<version, ended, loading, lists, requestVars>>

Logout ==
  /\ user # 0 /\ Press
  /\ logouts' = logouts \cup {[n |-> presses, as |-> cookie, done |-> FALSE]}
  /\ UNCHANGED <<panelVars, appVars, refreshVars, lists, writes, acked>>

(* The panel deletes the session of a logout.                              *)
EndSession(x) ==
  /\ ~ x.done
  /\ ended' = ended \cup ({x.as} \ {0})
  /\ logouts' = (logouts \ {x}) \cup {[x EXCEPT !.done = TRUE]}
  /\ UNCHANGED <<version, sessions, appVars, refreshVars, lists, writes, acked,
                 presses>>

(* logout goes on after an answer, which also takes the cookie away, and   *)
(* after an error alike.                                                   *)
LogoutOver(x) ==
  /\ \/ x.done /\ cookie' = 0
     \/ UNCHANGED cookie
  /\ logouts' = logouts \ {x}
  /\ user' = 0
  /\ UNCHANGED <<panelVars, loading, refreshVars, lists, writes, acked, presses>>

-----------------------------------------------------------------------------

(* The refresh button.                                                     *)
Refresh ==
  /\ user # 0 /\ Press
  /\ RefreshAll(TRUE, cookie)
  /\ UNCHANGED <<panelVars, appVars, lists, requestVars>>

(* One of the requests of a refresh is served.                             *)
Read(r, list) ==
  /\ Live(r.as) /\ r[list] = 0
  /\ refreshes' = (refreshes \ {r}) \cup {[r EXCEPT ![list] = version]}
  /\ UNCHANGED <<panelVars, appVars, refreshing, begun, lists, requestVars, presses>>

SpinnerAlone(r, landed) ==   \* mutant: no finally around the requests
  refreshing' = (refreshing /\ (r.loud => ~ landed))

Spinner(r, landed) == refreshing' = (refreshing /\ ~ r.loud)

(* All requests of a refresh were answered, and the lists are set together. *)
RefreshLands(r) ==
  /\ r.nodes # 0 /\ r.rules # 0
  /\ refreshes' = refreshes \ {r}
  /\ Spinner(r, TRUE)
  /\ lists' = [from |-> r.n, as |-> r.as, nodes |-> r.nodes, rules |-> r.rules]
  /\ UNCHANGED <<panelVars, appVars, begun, requestVars, presses>>

(* One of them failed, or took longer than the 15 seconds of api.          *)
RefreshFails(r) ==
  /\ refreshes' = refreshes \ {r}
  /\ Spinner(r, FALSE)
  /\ UNCHANGED <<panelVars, appVars, begun, lists, requestVars, presses>>

RefreshOver(r) == RefreshLands(r) \/ RefreshFails(r)

(* A button of a row, or the confirmation that it asks for.                *)
Write ==
  /\ user # 0 /\ Press
  /\ writes' = writes \cup {[n |-> presses, as |-> cookie, at |-> 0]}
  /\ UNCHANGED <<panelVars, appVars, refreshVars, lists, logouts, acked>>

(* The panel performs it.                                                  *)
Perform(w) ==
  /\ w.at = 0 /\ Live(w.as) /\ version < MaxVersion
  /\ version' = version + 1
  /\ writes' = (writes \ {w}) \cup {[w EXCEPT !.at = version + 1]}
  /\ UNCHANGED <<sessions, ended, appVars, refreshVars, lists, logouts, acked,
                 presses>>

Newer(v) == IF v > acked THEN v ELSE acked

EndsThere(w) == acked' = Newer(w.at) /\ UNCHANGED refreshVars   \* mutant: no refresh

(* The handler goes on with refreshAll(true).                              *)
GoesOn(w) == acked' = Newer(w.at) /\ RefreshAll(FALSE, cookie)

WriteAnswered(w) ==
  /\ w.at # 0
  /\ writes' = writes \ {w}
  /\ GoesOn(w)
  /\ UNCHANGED <<panelVars, appVars, lists, logouts, presses>>

(* The handler ends with the error of api: whatever the panel did, the     *)
(* lists stay as they are.                                                 *)
WriteFails(w) ==
  /\ writes' = writes \ {w}
  /\ UNCHANGED <<panelVars, appVars, refreshVars, lists, logouts, acked, presses>>

(* Another administrator, an agent, or a request that this page gave up.   *)
Elsewhere ==
  /\ version < MaxVersion
  /\ version' = version + 1
  /\ UNCHANGED <<sessions, ended, appVars, refreshVars, lists, requestVars, presses>>

Init ==
  /\ version = 1 /\ sessions \in {0, 1} /\ ended = {}
  /\ cookie = sessions /\ user = 0 /\ loading = TRUE
  /\ refreshing = FALSE /\ refreshes = {} /\ begun = 0 /\ lists = NoLists
  /\ writes = {} /\ logouts = {} /\ acked = 0
  /\ presses = 0

Next ==
  \/ Boot \/ Reload \/ Login \/ Logout \/ Refresh \/ Write \/ Elsewhere
  \/ \E x \in logouts : EndSession(x) \/ LogoutOver(x)
  \/ \E r \in refreshes : RefreshOver(r) \/ \E list \in {"nodes", "rules"} : Read(r, list)
  \/ \E w \in writes : Perform(w) \/ WriteAnswered(w) \/ WriteFails(w)

(* Every request of the page ends: api gives up after 15 seconds.          *)
Fairness ==
  /\ WF_vars(Boot)
  /\ WF_vars(\E r \in refreshes : RefreshOver(r))

Spec == Init /\ [][Next]_vars /\ Fairness

-----------------------------------------------------------------------------

TypeOK ==
  /\ version \in Nat \ {0} /\ sessions \in Nat /\ ended \subseteq 1 .. sessions
  /\ cookie \in 0 .. sessions /\ user \in 0 .. sessions
  /\ loading \in BOOLEAN /\ refreshing \in BOOLEAN
  /\ begun \in Nat /\ acked \in 0 .. version /\ presses \in Nat
  /\ lists \in [from : 0 .. begun, as : 0 .. sessions,
                nodes : 0 .. version, rules : 0 .. version]
  /\ refreshes \subseteq [n : 1 .. begun, loud : BOOLEAN, as : 0 .. sessions,
                          nodes : 0 .. version, rules : 0 .. version]
  /\ writes \subseteq [n : Nat, as : 0 .. sessions, at : 0 .. version]
  /\ logouts \subseteq [n : Nat, as : 0 .. sessions, done : BOOLEAN]

(* Lists that the last refresh begun has set were read in the session of   *)
(* the user they are shown to, and after every write that the page was     *)
(* told had succeeded (refreshAll and its callers).                        *)
Fresh ==
  lists.from = begun =>
    /\ user # 0 => lists.as = user
    /\ lists.nodes >= acked /\ lists.rules >= acked

(* The refresh button says that it works only while a refresh of its own   *)
(* does.                                                                   *)
SpinnerHonest == refreshing => \E r \in refreshes : r.loud

(* A spinner that turns stops, and a page that loads gets loaded.          *)
Settles == (refreshing ~> ~ refreshing) /\ (loading ~> ~ loading)
=============================================================================
