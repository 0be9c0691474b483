------------------------------ MODULE Account ------------------------------
(***************************************************************************)
(* One account of the panel and the browsers its owner works in: the login *)
(* page, the account page and the dialog of two-step verification          *)
(* (frontend/src/main.tsx: LoginPage, AccountPage, TotpModal), and the     *)
(* handlers and tables they talk to (server.go: handleLogin, handleLogout, *)
(* handleAccountPassword, handleLogoutOtherSessions, handleTOTP*, the user *)
(* part of PUT /api/users).                                                *)
(*                                                                         *)
(* A handler is a series of calls to the store; each takes store.mu by     *)
(* itself, so handlers interleave between them. A page that gives up after *)
(* 15 seconds (api.ts) does not stop the handler.                          *)
(***************************************************************************)
EXTENDS Naturals, FiniteSets

CONSTANTS
  Browsers,     \* where the owner of the account works
  Asks,         \* bound: the requests made in each browser
  Slots,        \* bound: requests on their way or being handled
  Secrets,      \* what GenerateTOTPSecret returns, each once
  NoSecret,     \* no secret: totp_enabled is false, or an empty code
  Tokens,       \* session tokens
  NoToken,      \* no rg_session cookie
  MaxPassword   \* bound: how often the password changes

Ops == {"login", "logout", "leave", "password", "setup", "enable", "disable"}

ASSUME AccountAssumption ==
  /\ Asks \in [Browsers -> Nat]
  /\ NoSecret \notin Secrets
  /\ NoToken \notin Tokens
  /\ MaxPassword \in Nat

Codes     == Secrets \cup {NoSecret}
Cookies   == Tokens \cup {NoToken}
Passwords == 0 .. MaxPassword

Steps == {"auth", "check", "create", "delete", "update", "store", "verify",
          "take", "set", "others", "rotate", "answer", "done", "refused"}

(* A request: what was typed (pw, code), the cookie it was sent with, what *)
(* the handler holds (got) and the new cookie of the answer (fresh). The   *)
(* page that sent it may have given up (attached), and the dialog that     *)
(* sent it may have been closed (own).                                     *)
Calls == [from : Browsers, op : Ops, step : Steps, pw : Passwords, code : Codes,
          cookie : Cookies, got : Codes, fresh : Cookies,
          attached : BOOLEAN, own : BOOLEAN]

Idle == [op |-> "none"]

VARIABLES
  password,  \* users.password_hash: which password it is of
  secret,    \* users.totp_secret
  pending,   \* Server.pendingTOTPs: the secret, while it has not expired
  sessions,  \* the sessions table
  calls,     \* the requests
  reset,     \* has an administrator's PUT its sessions still to delete?
  cookie,    \* rg_session of each browser
  user,      \* App's user: none, or its totp_enabled
  modal,     \* TotpModal: closed, or its step
  shown,     \* TotpModal's secret
  generated, \* the secrets generated so far
  scanned,   \* the secrets in the owner's authenticator
  outlived,  \* history: sessions older than the last change of the
             \* credentials, but for the one that made it
  alone,     \* history: requests no other one has overlapped
  asked      \* how many requests each browser has made

panelVars   == <<password, secret, pending, sessions, generated, reset>>
pageVars    == <<cookie, user, modal, shown, scanned>>
historyVars == <<outlived, alone, asked>>
vars == <<panelVars, calls, pageVars, historyVars>>

TypeOK ==
  /\ password \in Passwords
  /\ secret \in Codes
  /\ pending \in Codes
  /\ sessions \in SUBSET Tokens
  /\ calls \in [Slots -> Calls \cup {Idle}]
  /\ reset \in BOOLEAN
  /\ cookie \in [Browsers -> Cookies]
  /\ user \in [Browsers -> {"none", "plain", "totp"}]
  /\ modal \in [Browsers -> {"none", "choose", "setup"}]
  /\ shown \in [Browsers -> Codes]
  /\ generated \in SUBSET Secrets
  /\ scanned \in SUBSET Secrets
  /\ outlived \in SUBSET Tokens
  /\ alone \in SUBSET Slots
  /\ asked \in [Browsers -> Nat]

Init ==
  /\ password = 0 /\ secret = NoSecret /\ pending = NoSecret
  /\ sessions = {} /\ generated = {} /\ reset = FALSE
  /\ calls = [c \in Slots |-> Idle]
  /\ cookie = [b \in Browsers |-> NoToken]
  /\ user = [b \in Browsers |-> "none"]
  /\ modal = [b \in Browsers |-> "none"]
  /\ shown = [b \in Browsers |-> NoSecret]
  /\ scanned = {} /\ outlived = {} /\ alone = {}
  /\ asked = [b \in Browsers |-> 0]

Active(c) == calls[c] # Idle
Held      == {calls[c].cookie : c \in {d \in Slots : Active(d)}} \cup
             {calls[c].fresh  : c \in {d \in Slots : Active(d)}} \cup
             {cookie[b] : b \in Browsers}

(* RandomToken: a token that nobody has                                    *)
Unused   == Tokens \ (sessions \cup Held)
NewToken == CHOOSE t \in Unused : TRUE

-----------------------------------------------------------------------------
(***************************************************************************)
(* The pages send.                                                         *)
(***************************************************************************)

LoggedIn(b) == user[b] # "none"

(* The busy flag of the login page or of the open dialog.                  *)
Busy(b) == \E c \in Slots : Active(c) /\ calls[c].from = b /\ calls[c].attached
                            /\ calls[c].own

Send(b, op, first, code, own) ==
  /\ asked[b] < Asks[b] /\ asked' = [asked EXCEPT ![b] = @ + 1]
  /\ \E c \in Slots :
       /\ ~ Active(c)
       /\ calls' = [calls EXCEPT ![c] =
            [from |-> b, op |-> op, step |-> first, pw |-> password, code |-> code,
             cookie |-> IF op = "login" THEN NoToken ELSE cookie[b],
             got |-> NoSecret, fresh |-> NoToken,
             attached |-> TRUE, own |-> own]]
       /\ alone' = IF reset \/ \E d \in Slots : Active(d) THEN {} ELSE {c}
  /\ UNCHANGED <<panelVars, pageVars, outlived>>

(* The owner types the password as it is now, and a code of any entry of   *)
(* the authenticator; what is mistyped is refused.                         *)
SubmitLogin(b) ==
  /\ ~ LoggedIn(b) /\ ~ Busy(b)
  /\ \E code \in scanned \cup {NoSecret} : Send(b, "login", "check", code, TRUE)

(* No busy flag: both can be pressed again while the first is on its way.  *)
ChangePassword(b) ==
  /\ LoggedIn(b) /\ modal[b] = "none"
  /\ Send(b, "password", "auth", NoSecret, FALSE)

Logout(b) ==
  /\ LoggedIn(b) /\ modal[b] = "none"
  /\ Send(b, "logout", "auth", NoSecret, FALSE)

(* To be logged out everywhere else. No page of this frontend asks for it; *)
(* the route is there for who does.                                        *)
LogoutOthers(b) ==
  /\ LoggedIn(b) /\ modal[b] = "none"
  /\ Send(b, "leave", "auth", NoSecret, FALSE)

OpenTotp(b) ==
  /\ LoggedIn(b) /\ modal[b] = "none"
  /\ asked[b] < Asks[b]
  /\ modal' = [modal EXCEPT ![b] = "choose"]
  /\ UNCHANGED <<panelVars, calls, cookie, user, shown, scanned, historyVars>>

Disown(b) ==
  [c \in Slots |-> IF Active(c) /\ calls[c].from = b
                   THEN [calls[c] EXCEPT !.own = FALSE] ELSE calls[c]]

CloseTotp(b) ==
  /\ LoggedIn(b) /\ modal[b] # "none"
  /\ modal' = [modal EXCEPT ![b] = "none"]
  /\ shown' = [shown EXCEPT ![b] = NoSecret]
  /\ calls' = Disown(b)
  /\ UNCHANGED <<panelVars, cookie, user, scanned, historyVars>>

SubmitSetup(b) ==
  /\ user[b] = "plain" /\ modal[b] = "choose" /\ ~ Busy(b)
  /\ Send(b, "setup", "auth", NoSecret, TRUE)

Scan(b) ==
  /\ LoggedIn(b) /\ modal[b] = "setup" /\ shown[b] # NoSecret
  /\ scanned' = scanned \cup {shown[b]}
  /\ scanned' # scanned
  /\ UNCHANGED <<panelVars, calls, cookie, user, modal, shown, historyVars>>

SubmitEnable(b) ==
  /\ LoggedIn(b) /\ modal[b] = "setup" /\ ~ Busy(b)
  /\ \E code \in scanned : Send(b, "enable", "auth", code, TRUE)

SubmitDisable(b) ==
  /\ user[b] = "totp" /\ modal[b] = "choose" /\ ~ Busy(b)
  /\ \E code \in scanned : Send(b, "disable", "auth", code, TRUE)

-----------------------------------------------------------------------------
(***************************************************************************)
(* The panel handles.                                                      *)
(***************************************************************************)

At(c, step)    == Active(c) /\ calls[c].step = step
Step(c, next)  == calls' = [calls EXCEPT ![c].step = next]

(* The handler returns: of its request only the answer is left, if there   *)
(* is still a page that waits for it.                                      *)
Reply(c, step, got, fresh) ==
  calls' = [calls EXCEPT ![c] =
    IF ~ @.attached THEN Idle
    ELSE [@ EXCEPT !.step = step, !.pw = 0, !.code = NoSecret, !.cookie = NoToken,
                   !.got = got, !.fresh = fresh]]

Answer(c, got, fresh) == Reply(c, "done", got, fresh)
Refuse(c)             == Reply(c, "refused", NoSecret, NoToken)

Handled == UNCHANGED <<pageVars, alone, asked>>

FirstStep(op) == CASE op = "logout"   -> "delete"
                   [] op = "leave"    -> "others"
                   [] op = "password" -> "update"
                   [] op = "setup"    -> "store"
                   [] OTHER           -> "verify"

(* requireAuth                                                             *)
RequireAuth(c) ==
  /\ At(c, "auth")
  /\ IF calls[c].cookie \in sessions THEN Step(c, FirstStep(calls[c].op)) ELSE Refuse(c)
  /\ UNCHANGED <<panelVars, outlived>> /\ Handled

(* Login reads the row, releases the lock and computes; the code is        *)
(* compared with the secret of that row. A right code may be refused too:  *)
(* it was used before, or the limiter has locked the name.                 *)
CheckLogin(c) ==
  /\ At(c, "check")
  /\ \/ /\ calls[c].pw = password
        /\ secret # NoSecret => calls[c].code = secret
        /\ calls' = [calls EXCEPT ![c].step = "create", ![c].got = secret]
     \/ Refuse(c)
  /\ UNCHANGED <<panelVars, outlived>> /\ Handled

CreateSession(c) ==
  /\ At(c, "create")
  /\ \/ /\ Unused # {}
        /\ sessions' = sessions \cup {NewToken}
        /\ Answer(c, calls[c].got, NewToken)
     \/ Refuse(c) /\ UNCHANGED sessions
  /\ UNCHANGED <<password, secret, pending, generated, reset, outlived>> /\ Handled

DeleteSession(c) ==
  /\ At(c, "delete")
  /\ sessions' = sessions \ {calls[c].cookie}
  /\ outlived' = outlived \ {calls[c].cookie}
  /\ Answer(c, NoSecret, NoToken)
  /\ UNCHANGED <<password, secret, pending, generated, reset>> /\ Handled

(* A new password that is too weak is refused with a right old one, too.   *)
UpdateOwnPassword(c) ==
  /\ At(c, "update")
  /\ \/ /\ calls[c].pw = password /\ password < MaxPassword
        /\ password' = password + 1
        /\ outlived' = sessions \ {calls[c].cookie}
        /\ Step(c, "others")
     \/ Refuse(c) /\ UNCHANGED <<password, outlived>>
  /\ UNCHANGED <<secret, pending, sessions, generated, reset>> /\ Handled

SpareNone(c) == {}         \* mutant: the own session is not kept
SpareAll(c)  == sessions   \* mutant: the other sessions stay

(* What DeleteOtherSessions is asked to keep: the session that asks, but   *)
(* when two-step verification was enabled none.                            *)
Spared(c) == IF calls[c].op = "enable" THEN {} ELSE {calls[c].cookie}

DeleteOtherSessions(c) ==
  /\ At(c, "others")
  /\ sessions' = sessions \cap Spared(c)
  /\ outlived' = outlived \cap Spared(c)
  /\ IF calls[c].op = "leave" THEN Answer(c, NoSecret, NoToken) ELSE Step(c, "rotate")
  /\ UNCHANGED <<password, secret, pending, generated, reset>> /\ Handled

(* rotateSessionCookie does nothing when its session is gone.              *)
RotateSession(c) ==
  /\ At(c, "rotate")
  /\ \/ /\ calls[c].cookie \in sessions /\ Unused # {}
        /\ sessions' = (sessions \ {calls[c].cookie}) \cup {NewToken}
        /\ outlived' = IF calls[c].cookie \in outlived
                       THEN (outlived \ {calls[c].cookie}) \cup {NewToken}
                       ELSE outlived
        /\ calls' = [calls EXCEPT ![c].step = "answer", ![c].fresh = NewToken]
     \/ /\ calls[c].cookie \notin sessions
        /\ Step(c, "answer")
        /\ UNCHANGED <<sessions, outlived>>
  /\ UNCHANGED <<password, secret, pending, generated, reset>> /\ Handled

(* The answer holds the user as it is by now.                              *)
GetUser(c) ==
  /\ At(c, "answer")
  /\ Answer(c, secret, calls[c].fresh)
  /\ UNCHANGED <<panelVars, outlived>> /\ Handled

StorePending(c) ==
  /\ At(c, "store")
  /\ \/ \E s \in Secrets \ generated :
          /\ pending' = s
          /\ generated' = generated \cup {s}
          /\ Answer(c, s, NoToken)
     \/ Refuse(c) /\ UNCHANGED <<pending, generated>>
  /\ UNCHANGED <<password, secret, sessions, reset, outlived>> /\ Handled

(* VerifyUserPassword; disabling also checks the code, of the same row and *)
(* against replays, unless two-step verification is off by now.            *)
VerifyUser(c) ==
  /\ At(c, "verify")
  /\ \/ /\ calls[c].pw = password
        /\ calls[c].op = "disable" /\ secret # NoSecret => calls[c].code = secret
        /\ Step(c, IF calls[c].op = "enable" THEN "take" ELSE "set")
     \/ Refuse(c)
  /\ UNCHANGED <<panelVars, outlived>> /\ Handled

Fitting(c) == pending # NoSecret /\ calls[c].code = pending

(* LoadAndDelete: the pending secret is used up, whatever comes of it.     *)
TakePending(c) ==
  /\ At(c, "take")
  /\ pending' = NoSecret
  /\ IF Fitting(c)
     THEN calls' = [calls EXCEPT ![c].step = "set", ![c].got = pending]
     ELSE Refuse(c)
  /\ UNCHANGED <<password, secret, sessions, generated, reset, outlived>> /\ Handled

SecretPending(c) ==    \* mutant: the secret is looked up once more
  IF calls[c].op = "enable" /\ pending # NoSecret THEN pending
  ELSE calls[c].got

SecretToSet(c) == calls[c].got

(* The database may refuse the write: two-step verification stays as it is.*)
SetUserTOTP(c) ==
  /\ At(c, "set")
  /\ \/ /\ secret' = SecretToSet(c)
        /\ IF calls[c].op = "enable"
           THEN outlived' = sessions \ {calls[c].cookie} /\ Step(c, "others")
           ELSE UNCHANGED outlived /\ Step(c, "rotate")
     \/ Refuse(c) /\ UNCHANGED <<secret, outlived>>
  /\ UNCHANGED <<password, pending, sessions, generated, reset>> /\ Handled

(* Five minutes pass: to handleTOTPEnable the same as no pending secret.   *)
PendingExpires ==
  /\ pending # NoSecret /\ pending' = NoSecret
  /\ UNCHANGED <<password, secret, sessions, generated, reset, calls, pageVars,
                 historyVars>>

SessionExpires ==
  /\ \E t \in sessions : sessions' = sessions \ {t} /\ outlived' = outlived \ {t}
  /\ alone' = {}
  /\ UNCHANGED <<password, secret, pending, generated, reset, calls, pageVars, asked>>

(* An administrator sets another password for the user: SaveUser, then     *)
(* DeleteSessionsByUser.                                                   *)
SaveUser ==
  /\ ~ reset /\ password < MaxPassword
  /\ password' = password + 1
  /\ outlived' = sessions
  /\ reset' = TRUE /\ alone' = {}
  /\ UNCHANGED <<secret, pending, sessions, generated, calls, pageVars, asked>>

DeleteSessionsByUser ==
  /\ reset /\ reset' = FALSE
  /\ sessions' = {} /\ outlived' = {}
  /\ UNCHANGED <<password, secret, pending, generated, calls, pageVars, alone, asked>>

-----------------------------------------------------------------------------
(***************************************************************************)
(* The pages get an answer, or give up.                                    *)
(***************************************************************************)

Shows(s) == IF s = NoSecret THEN "plain" ELSE "totp"

(* Without a user App renders the login page: the dialog is unmounted, and *)
(* starts anew should its state still say that it is open.                 *)
LeaveApp(b) ==
  /\ user' = [user EXCEPT ![b] = "none"]
  /\ modal' = [modal EXCEPT ![b] = IF @ = "none" THEN "none" ELSE "choose"]
  /\ shown' = [shown EXCEPT ![b] = NoSecret]

Enter(b, s) == user' = [user EXCEPT ![b] = Shows(s)]

Close(b) == /\ modal' = [modal EXCEPT ![b] = "none"]
            /\ shown' = [shown EXCEPT ![b] = NoSecret]

(* The login page, or the dialog, that b had is gone.                      *)
Unmounts(b) == \/ (user[b] = "none") # (user'[b] = "none")
               \/ modal[b] # "none" /\ modal'[b] = "none"

Remaining(b) == IF Unmounts(b) THEN Disown(b) ELSE calls

AnswerArrives(c) ==
  LET r == calls[c]  b == calls[c].from IN
  /\ Active(c) /\ r.attached /\ r.step = "done"
  /\ cookie' = [cookie EXCEPT ![b] = IF r.op = "logout" THEN NoToken
                                     ELSE IF r.fresh # NoToken THEN r.fresh ELSE @]
  /\ \/ r.op = "logout" /\ LeaveApp(b)
     \/ r.op \in {"login", "password"} /\ Enter(b, r.got) /\ UNCHANGED <<modal, shown>>
     \/ r.op \in {"enable", "disable"} /\ Enter(b, r.got) /\ Close(b)
     \/ r.op = "leave" /\ UNCHANGED <<user, modal, shown>>
     \/ /\ r.op = "setup" /\ UNCHANGED user
        /\ IF r.own
           THEN /\ modal' = [modal EXCEPT ![b] = "setup"]
                /\ shown' = [shown EXCEPT ![b] = r.got]
           ELSE UNCHANGED <<modal, shown>>
  /\ calls' = [Remaining(b) EXCEPT ![c] = Idle]
  /\ alone' = alone \ {c}
  /\ UNCHANGED <<panelVars, scanned, outlived, asked>>

(* A refusal, a lost connection or 15 seconds: a message, and for a logout *)
(* the login page all the same. A handler that was reached goes on.        *)
PageFails(c) ==
  LET r == calls[c] IN
  /\ Active(c) /\ r.attached
  /\ IF r.op = "logout" THEN LeaveApp(r.from) ELSE UNCHANGED <<user, modal, shown>>
  /\ calls' = [Remaining(r.from) EXCEPT ![c] =
                 IF r.step \in {"done", "refused", "auth", "check"} THEN Idle
                 ELSE [r EXCEPT !.attached = FALSE, !.own = FALSE]]
  /\ alone' = alone \ {c}
  /\ UNCHANGED <<panelVars, cookie, scanned, outlived, asked>>

-----------------------------------------------------------------------------
PageStep(b) ==
  \/ SubmitLogin(b) \/ ChangePassword(b) \/ Logout(b)
  \/ LogoutOthers(b) \/ OpenTotp(b) \/ CloseTotp(b) \/ SubmitSetup(b) \/ Scan(b)
  \/ SubmitEnable(b) \/ SubmitDisable(b)

HandlerStep(c) ==
  \/ RequireAuth(c) \/ CheckLogin(c) \/ CreateSession(c) \/ DeleteSession(c)
  \/ UpdateOwnPassword(c) \/ DeleteOtherSessions(c) \/ RotateSession(c)
  \/ GetUser(c) \/ StorePending(c) \/ VerifyUser(c) \/ TakePending(c)
  \/ SetUserTOTP(c)

AnswerStep(c) == AnswerArrives(c) \/ PageFails(c)

Next ==
  \/ \E b \in Browsers : PageStep(b)
  \/ \E c \in Slots : HandlerStep(c) \/ AnswerStep(c)
  \/ PendingExpires \/ SessionExpires \/ SaveUser \/ DeleteSessionsByUser

Spec == Init /\ [][Next]_vars

-----------------------------------------------------------------------------
(* The secret that the login asks for is always one the owner has.         *)
NotLockedOut == secret # NoSecret => secret \in scanned

(* Whoever changes the credentials ends the sessions that are older: none  *)
(* outlives the handler that has to delete it.                             *)
OldSessionsEnd ==
  outlived # {} => reset \/ \E c \in Slots : At(c, "others") /\ calls[c].op # "leave"

(* A change of password, or of two-step verification being switched off,   *)
(* that nothing overlaps keeps the browser it is made in logged in.        *)
OwnSessionKept ==
  \A c \in alone :
    At(c, "done") /\ calls[c].op \in {"password", "disable"} => calls[c].fresh \in sessions
=============================================================================
