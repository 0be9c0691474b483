--------------------------- MODULE AccountProofs ----------------------------
(***************************************************************************)
(* What holds of Account for any number of browsers, requests, secrets and *)
(* sessions.                                                               *)
(***************************************************************************)
EXTENDS Account, TLAPS

LEMMA ActiveCall ==
  ASSUME TypeOK, NEW c \in Slots
  PROVE  /\ Active(c) => calls[c] \in Calls
         /\ calls[c] \in Calls => Active(c)
BY DEF TypeOK, Active, Idle, Calls, Ops

LEMMA CallFields ==
  ASSUME NEW r \in Calls
  PROVE  /\ r.from \in Browsers /\ r.op \in Ops /\ r.step \in Steps
         /\ r.pw \in Passwords /\ r.code \in Codes /\ r.cookie \in Cookies
         /\ r.got \in Codes /\ r.fresh \in Cookies
         /\ r.attached \in BOOLEAN /\ r.own \in BOOLEAN
         /\ r # Idle
BY DEF Calls, Idle, Ops

(* A handler's step that goes on.                                          *)
LEMMA Stepped ==
  ASSUME TypeOK, NEW c \in Slots, Active(c), NEW next \in Steps, NEW got \in Codes,
         calls' = [calls EXCEPT ![c].step = next, ![c].got = got]
  PROVE  /\ calls' \in [Slots -> Calls \cup {Idle}]
         /\ \A d \in Slots \ {c} : calls'[d] = calls[d]
         /\ calls'[c] = [calls[c] EXCEPT !.step = next, !.got = got]
         /\ calls'[c] \in Calls
<1>1. calls[c] \in Calls /\ calls \in [Slots -> Calls \cup {Idle}]
  BY ActiveCall DEF TypeOK
<1>2. [calls[c] EXCEPT !.step = next, !.got = got] \in Calls
  BY <1>1 DEF Calls
<1>3. calls' = [calls EXCEPT ![c] = [calls[c] EXCEPT !.step = next, !.got = got]]
  BY <1>1
<1> QED BY <1>1, <1>2, <1>3

LEMMA StepIsStepped ==
  ASSUME TypeOK, NEW c \in Slots, Active(c), NEW next \in Steps, Step(c, next)
  PROVE  /\ calls[c].got \in Codes
         /\ calls' = [calls EXCEPT ![c].step = next, ![c].got = calls[c].got]
<1>1. calls[c] \in Calls /\ calls \in [Slots -> Calls \cup {Idle}]
  BY ActiveCall DEF TypeOK
<1>2. [calls[c] EXCEPT !.step = next] = [calls[c] EXCEPT !.step = next, !.got = calls[c].got]
  BY <1>1 DEF Calls
<1> QED BY <1>1, <1>2, CallFields DEF Step

(* The session is rotated: the handler goes on with a new cookie.          *)
LEMMA Rotated ==
  ASSUME TypeOK, NEW c \in Slots, Active(c), NEW fresh \in Cookies,
         calls' = [calls EXCEPT ![c].step = "answer", ![c].fresh = fresh]
  PROVE  /\ calls' \in [Slots -> Calls \cup {Idle}]
         /\ calls'[c] \in Calls /\ calls'[c] # Idle
         /\ calls'[c].step = "answer" /\ calls'[c].fresh = fresh
         /\ calls'[c].op = calls[c].op /\ calls'[c].got = calls[c].got
         /\ calls'[c].code = calls[c].code
         /\ calls'[c].attached = calls[c].attached
<1>1. calls[c] \in Calls /\ calls \in [Slots -> Calls \cup {Idle}]
  BY ActiveCall DEF TypeOK
<1> DEFINE r == [calls[c] EXCEPT !.step = "answer", !.fresh = fresh]
<1>2. r \in Calls
  BY <1>1 DEF Calls, Steps
<1>3. /\ r.step = "answer" /\ r.fresh = fresh /\ r.op = calls[c].op
      /\ r.got = calls[c].got /\ r.code = calls[c].code
      /\ r.attached = calls[c].attached
  BY <1>1 DEF Calls
<1>4. calls' = [calls EXCEPT ![c] = r]
  BY <1>1
<1> HIDE DEF r
<1>5. calls'[c] = r /\ calls' \in [Slots -> Calls \cup {Idle}]
  BY <1>1, <1>2, <1>4
<1> QED BY <1>2, <1>3, <1>5, CallFields

(* A handler's last step.                                                  *)
Answered(c, step, got, fresh) ==
  /\ calls' \in [Slots -> Calls \cup {Idle}]
  /\ \A d \in Slots \ {c} : calls'[d] = calls[d]
  /\ \/ calls'[c] = Idle /\ ~ calls[c].attached
     \/ /\ calls'[c] \in Calls /\ calls'[c].attached = calls[c].attached
        /\ calls'[c].step = step /\ calls'[c].op = calls[c].op
        /\ calls'[c].code = NoSecret /\ calls'[c].got = got
        /\ calls'[c].cookie = NoToken /\ calls'[c].fresh = fresh

LEMMA Replied ==
  ASSUME TypeOK, NEW c \in Slots, Active(c), NEW step \in Steps, NEW got \in Codes,
         NEW fresh \in Cookies, Reply(c, step, got, fresh)
  PROVE  Answered(c, step, got, fresh)
<1>1. calls[c] \in Calls /\ calls \in [Slots -> Calls \cup {Idle}]
  BY ActiveCall DEF TypeOK
<1> DEFINE r == [calls[c] EXCEPT !.step = step, !.pw = 0, !.code = NoSecret,
                                 !.cookie = NoToken, !.got = got, !.fresh = fresh]
<1>2. 0 \in Passwords /\ NoSecret \in Codes /\ NoToken \in Cookies
  BY AccountAssumption DEF AccountAssumption, Passwords, Codes, Cookies
<1>3. r \in Calls
  BY <1>1, <1>2 DEF Calls
<1>4. /\ r.step = step /\ r.op = calls[c].op /\ r.attached = calls[c].attached
      /\ r.code = NoSecret /\ r.got = got
      /\ r.cookie = NoToken /\ r.fresh = fresh
  BY <1>1 DEF Calls
<1>5. calls' = [calls EXCEPT ![c] = IF ~ calls[c].attached THEN Idle ELSE r]
  BY <1>1 DEF Reply
<1> HIDE DEF r
<1>6. (calls'[c] = Idle /\ ~ calls[c].attached) \/ calls'[c] = r
  BY <1>1, <1>5
<1>7. calls' \in [Slots -> Calls \cup {Idle}] /\ \A d \in Slots \ {c} : calls'[d] = calls[d]
  BY <1>1, <1>3, <1>5
<1> QED BY <1>3, <1>4, <1>6, <1>7 DEF Answered

LEMMA Refused ==
  ASSUME TypeOK, NEW c \in Slots, Active(c), Refuse(c)
  PROVE  Answered(c, "refused", NoSecret, NoToken)
BY Replied DEF Refuse, Steps, Codes, Cookies

LEMMA WasAnswered ==
  ASSUME TypeOK, NEW c \in Slots, Active(c), NEW got \in Codes, NEW fresh \in Cookies,
         Answer(c, got, fresh)
  PROVE  Answered(c, "done", got, fresh)
BY Replied DEF Answer, Steps

(* A page's request.                                                       *)
LEMMA Sent ==
  ASSUME TypeOK, NEW b \in Browsers, NEW op \in Ops, NEW first \in Steps,
         NEW code \in Codes, NEW own \in BOOLEAN, Send(b, op, first, code, own)
  PROVE  \E c \in Slots :
           /\ ~ Active(c)
           /\ calls' \in [Slots -> Calls \cup {Idle}]
           /\ \A d \in Slots \ {c} : calls'[d] = calls[d]
           /\ calls'[c] \in Calls
           /\ calls'[c].op = op /\ calls'[c].step = first /\ calls'[c].code = code
           /\ calls'[c].got = NoSecret /\ calls'[c].attached
           /\ alone' = IF reset \/ \E d \in Slots : Active(d) THEN {} ELSE {c}
<1>1. PICK c \in Slots :
        /\ ~ Active(c)
        /\ calls' = [calls EXCEPT ![c] =
             [from |-> b, op |-> op, step |-> first, pw |-> password, code |-> code,
              cookie |-> IF op = "login" THEN NoToken ELSE cookie[b],
              got |-> NoSecret, fresh |-> NoToken, attached |-> TRUE, own |-> own]]
        /\ alone' = IF reset \/ \E d \in Slots : Active(d) THEN {} ELSE {c}
  BY DEF Send
<1> DEFINE r == [from |-> b, op |-> op, step |-> first, pw |-> password, code |-> code,
                 cookie |-> IF op = "login" THEN NoToken ELSE cookie[b],
                 got |-> NoSecret, fresh |-> NoToken, attached |-> TRUE, own |-> own]
<1>2. r \in Calls
  BY DEF TypeOK, Calls, Codes, Cookies
<1>3. r.op = op /\ r.step = first /\ r.code = code /\ r.got = NoSecret /\ r.attached
  OBVIOUS
<1>4. calls' = [calls EXCEPT ![c] = r] /\ calls \in [Slots -> Calls \cup {Idle}]
  BY <1>1 DEF TypeOK
<1> HIDE DEF r
<1>5. /\ calls' \in [Slots -> Calls \cup {Idle}] /\ calls'[c] = r
      /\ \A d \in Slots \ {c} : calls'[d] = calls[d]
  BY <1>2, <1>4
<1> WITNESS c \in Slots
<1> QED BY <1>1, <1>2, <1>3, <1>5

(* What the requests of a page keep when it is left.                       *)
Kept(d) ==
  /\ calls'[d] \in Calls \cup {Idle}
  /\ calls[d] = Idle => calls'[d] = Idle
  /\ calls'[d] = Idle => calls[d] = Idle
  /\ calls'[d] # Idle =>
       /\ calls'[d].op = calls[d].op /\ calls'[d].step = calls[d].step
       /\ calls'[d].code = calls[d].code /\ calls'[d].cookie = calls[d].cookie
       /\ calls'[d].got = calls[d].got /\ calls'[d].fresh = calls[d].fresh
       /\ calls'[d].attached = calls[d].attached

LEMMA DisownedType ==
  ASSUME TypeOK, NEW b \in Browsers, NEW d \in Slots, NEW r, r = Disown(b)[d]
  PROVE  /\ r \in Calls \cup {Idle}
         /\ calls[d] = Idle => r = Idle
         /\ r = Idle => calls[d] = Idle
         /\ r # Idle =>
              /\ r.op = calls[d].op /\ r.step = calls[d].step
              /\ r.code = calls[d].code /\ r.cookie = calls[d].cookie
              /\ r.got = calls[d].got /\ r.fresh = calls[d].fresh
              /\ r.attached = calls[d].attached
<1>1. CASE calls[d] = Idle
  BY <1>1 DEF Disown, Active
<1>2. CASE calls[d] # Idle
  <2>1. calls[d] \in Calls
    BY <1>2, ActiveCall DEF Active
  <2>2. [calls[d] EXCEPT !.own = FALSE] \in Calls
    BY <2>1 DEF Calls
  <2>3. [calls[d] EXCEPT !.own = FALSE] # Idle
    BY <2>2, CallFields
  <2>4. r = calls[d] \/ r = [calls[d] EXCEPT !.own = FALSE]
    BY DEF Disown
  <2> QED BY <1>2, <2>1, <2>2, <2>3, <2>4 DEF Calls
<1> QED BY <1>1, <1>2

LEMMA Disowned ==
  ASSUME TypeOK, NEW b \in Browsers, calls' = Disown(b)
  PROVE  calls' \in [Slots -> Calls \cup {Idle}] /\ \A d \in Slots : Kept(d)
<1>1. ASSUME NEW d \in Slots
      PROVE  Kept(d)
  BY <1>1, DisownedType DEF Kept
<1>2. calls' = [d \in Slots |-> calls'[d]]
  BY DEF Disown
<1> QED BY <1>1, <1>2 DEF Kept

LEMMA Remained ==
  ASSUME TypeOK, NEW b \in Browsers, NEW c \in Slots, NEW r \in Calls \cup {Idle},
         calls' = [Remaining(b) EXCEPT ![c] = r]
  PROVE  /\ calls' \in [Slots -> Calls \cup {Idle}]
         /\ calls'[c] = r
         /\ \A d \in Slots \ {c} : Kept(d)
<1> DEFINE R == Remaining(b)
<1>1. R = calls \/ R = Disown(b)
  BY DEF Remaining
<1>2. DOMAIN R = Slots
  BY <1>1 DEF Disown, TypeOK
<1>3. R = [d \in Slots |-> R[d]]
  BY <1>1 DEF Disown, TypeOK
<1> HIDE DEF R
<1>4. calls' = [R EXCEPT ![c] = r]
  BY DEF R
<1>5. calls'[c] = r /\ \A d \in Slots \ {c} : calls'[d] = R[d]
  BY <1>2, <1>3, <1>4
<1>6. ASSUME NEW d \in Slots \ {c}
      PROVE  Kept(d)
  <2>1. calls'[d] = calls[d] \/ calls'[d] = Disown(b)[d]
    BY <1>1, <1>5
  <2>2. CASE calls'[d] = calls[d]
    BY <2>2 DEF Kept, TypeOK
  <2>3. CASE calls'[d] = Disown(b)[d]
    BY <2>3, DisownedType DEF Kept
  <2> QED BY <2>1, <2>2, <2>3
<1>7. calls' = [d \in Slots |-> calls'[d]]
  BY <1>3, <1>4
<1>8. \A d \in Slots : calls'[d] \in Calls \cup {Idle}
  BY <1>5, <1>6 DEF Kept
<1> QED BY <1>5, <1>6, <1>7, <1>8

LEMMA Initially == Init => TypeOK
<1> SUFFICES ASSUME Init
             PROVE  TypeOK
  OBVIOUS
<1>1. password \in Passwords /\ secret \in Codes /\ pending \in Codes
  BY AccountAssumption DEF AccountAssumption, Init, Passwords, Codes
<1>2. calls \in [Slots -> Calls \cup {Idle}]
  BY DEF Init
<1>3. /\ cookie \in [Browsers -> Cookies] /\ shown \in [Browsers -> Codes]
      /\ user \in [Browsers -> {"none", "plain", "totp"}]
      /\ modal \in [Browsers -> {"none", "choose", "setup"}]
      /\ asked \in [Browsers -> Nat]
  BY DEF Init, Cookies, Codes
<1> QED BY <1>1, <1>2, <1>3 DEF Init, TypeOK

(* A token that nobody has is a token.                                     *)
LEMMA FreshToken ==
  ASSUME Unused # {}
  PROVE  /\ NewToken \in Unused /\ NewToken \in Tokens /\ NewToken \in Cookies
         /\ NewToken \notin sessions
         /\ \A c \in Slots : Active(c) => calls[c].cookie # NewToken
BY DEF NewToken, Unused, Cookies, Held

LEMMA SendType ==
  ASSUME TypeOK, NEW b \in Browsers, NEW op \in Ops, NEW first \in Steps,
         NEW code \in Codes, NEW own \in BOOLEAN, Send(b, op, first, code, own)
  PROVE  TypeOK'
<1>1. calls' \in [Slots -> Calls \cup {Idle}] /\ alone' \in SUBSET Slots
  BY Sent
<1>2. asked' \in [Browsers -> Nat] /\ UNCHANGED <<panelVars, pageVars, outlived>>
  BY DEF Send, TypeOK
<1> QED BY <1>1, <1>2 DEF TypeOK, panelVars, pageVars

LEMMA PageType ==
  ASSUME TypeOK, NEW b \in Browsers, PageStep(b)
  PROVE  TypeOK'
<1> USE DEF Ops, Steps, Codes
<1>1. CASE SubmitLogin(b)
  BY <1>1, SendType DEF SubmitLogin, TypeOK
<1>2. CASE ChangePassword(b)
  BY <1>2, SendType DEF ChangePassword
<1>3. CASE Logout(b)
  BY <1>3, SendType DEF Logout
<1>4. CASE OpenTotp(b)
  BY <1>4 DEF OpenTotp, TypeOK, panelVars, historyVars
<1>5. CASE CloseTotp(b)
  BY <1>5, Disowned DEF CloseTotp, TypeOK, panelVars, historyVars
<1>6. CASE SubmitSetup(b)
  BY <1>6, SendType DEF SubmitSetup
<1>7. CASE Scan(b)
  BY <1>7 DEF Scan, TypeOK, panelVars, historyVars
<1>8. CASE SubmitEnable(b)
  BY <1>8, SendType DEF SubmitEnable, TypeOK
<1>9. CASE SubmitDisable(b)
  BY <1>9, SendType DEF SubmitDisable, TypeOK
<1>10. CASE LogoutOthers(b)
  BY <1>10, SendType DEF LogoutOthers
<1> QED BY <1>1, <1>2, <1>3, <1>4, <1>5, <1>6, <1>7, <1>8, <1>9, <1>10 DEF PageStep

(* What a step of a handler can do to its request, whichever step it is.   *)
CallsTyped == calls' \in [Slots -> Calls \cup {Idle}]

LEMMA HandlerCalls ==
  ASSUME TypeOK, NEW c \in Slots, HandlerStep(c)
  PROVE  CallsTyped
<1>1. ASSUME Active(c), NEW next \in Steps, Step(c, next)
      PROVE  CallsTyped
  <2>1. /\ calls[c].got \in Codes
        /\ calls' = [calls EXCEPT ![c].step = next, ![c].got = calls[c].got]
    BY <1>1, StepIsStepped
  <2> QED BY <1>1, <2>1, Stepped DEF CallsTyped
<1> USE DEF CallsTyped, Steps, Codes, Cookies
<1>2. ASSUME Active(c), Refuse(c)
      PROVE  CallsTyped
  BY <1>2, Refused DEF Answered
<1>3. ASSUME Active(c), NEW got \in Codes, NEW fresh \in Cookies, Answer(c, got, fresh)
      PROVE  CallsTyped
  BY <1>3, WasAnswered DEF Answered
<1>4. Active(c) => calls[c] \in Calls /\ calls[c].got \in Codes
  BY ActiveCall, CallFields
<1>5. secret \in Codes /\ pending \in Codes
  BY DEF TypeOK
<1>6. CASE RequireAuth(c)
  BY <1>6, <1>1, <1>2 DEF RequireAuth, At, FirstStep
<1>7. CASE CheckLogin(c)
  BY <1>7, <1>2, <1>5, Stepped DEF CheckLogin, At
<1>8. CASE CreateSession(c)
  BY <1>8, <1>2, <1>3, <1>4, FreshToken DEF CreateSession, At
<1>9. CASE DeleteSession(c)
  BY <1>9, <1>3 DEF DeleteSession, At
<1>10. CASE UpdateOwnPassword(c)
  BY <1>10, <1>1, <1>2 DEF UpdateOwnPassword, At
<1>11. CASE DeleteOtherSessions(c)
  BY <1>11, <1>1, <1>3 DEF DeleteOtherSessions, At
<1>12. CASE RotateSession(c)
  BY <1>12, <1>1, Rotated, FreshToken DEF RotateSession, At
<1>13. CASE StorePending(c)
  BY <1>13, <1>2, <1>3 DEF StorePending, At
<1>14. CASE VerifyUser(c)
  BY <1>14, <1>1, <1>2 DEF VerifyUser, At
<1>15. CASE TakePending(c)
  BY <1>15, <1>2, <1>5, Stepped DEF TakePending, At
<1>16. CASE SetUserTOTP(c)
  BY <1>16, <1>1, <1>2 DEF SetUserTOTP, At
<1>17. CASE GetUser(c)
  BY <1>17, <1>3, <1>5, ActiveCall, CallFields DEF GetUser, At
<1> QED BY <1>6, <1>7, <1>8, <1>9, <1>10, <1>11, <1>12, <1>13, <1>14, <1>15, <1>16, <1>17
        DEF HandlerStep

LEMMA HandlerType ==
  ASSUME TypeOK, NEW c \in Slots, HandlerStep(c)
  PROVE  TypeOK'
<1>1. calls' \in [Slots -> Calls \cup {Idle}]
  BY HandlerCalls DEF CallsTyped
<1>2. Active(c) => calls[c] \in Calls /\ calls[c].got \in Codes
  BY ActiveCall, CallFields
<1> USE DEF Handled, pageVars, panelVars
<1>3. CASE RequireAuth(c) \/ CheckLogin(c) \/ VerifyUser(c) \/ GetUser(c)
  BY <1>1, <1>3 DEF RequireAuth, CheckLogin, VerifyUser, GetUser, TypeOK
<1>4. CASE CreateSession(c)
  BY <1>1, <1>4, FreshToken DEF CreateSession, TypeOK
<1>5. CASE DeleteSession(c) \/ DeleteOtherSessions(c)
  BY <1>1, <1>5 DEF DeleteSession, DeleteOtherSessions, TypeOK
<1>6. CASE UpdateOwnPassword(c)
  <2>1. password' \in Passwords
    BY <1>6, AccountAssumption DEF AccountAssumption, UpdateOwnPassword, TypeOK, Passwords
  <2> QED BY <1>1, <1>6, <2>1 DEF UpdateOwnPassword, TypeOK
<1>7. CASE RotateSession(c)
  BY <1>1, <1>7, FreshToken DEF RotateSession, TypeOK
<1>8. CASE StorePending(c)
  BY <1>1, <1>8 DEF StorePending, TypeOK, Codes
<1>9. CASE TakePending(c)
  BY <1>1, <1>9 DEF TakePending, TypeOK, Codes
<1>10. CASE SetUserTOTP(c)
  BY <1>1, <1>2, <1>10 DEF SetUserTOTP, SecretToSet, At, TypeOK
<1> QED BY <1>3, <1>4, <1>5, <1>6, <1>7, <1>8, <1>9, <1>10 DEF HandlerStep

LEMMA AnswerType ==
  ASSUME TypeOK, NEW c \in Slots, AnswerStep(c)
  PROVE  TypeOK'
<1>1. calls[c] \in Calls /\ calls[c] # Idle
  BY ActiveCall DEF AnswerStep, AnswerArrives, PageFails, Active
<1>2. /\ calls[c].from \in Browsers /\ calls[c].got \in Codes
      /\ calls[c].fresh \in Cookies
  BY <1>1, CallFields
<1>3. [calls[c] EXCEPT !.attached = FALSE, !.own = FALSE] \in Calls
  BY <1>1 DEF Calls
<1>4. calls' \in [Slots -> Calls \cup {Idle}]
  BY <1>2, <1>3, Remained DEF AnswerStep, AnswerArrives, PageFails
<1> USE DEF LeaveApp, Enter, Close, Shows, panelVars
<1>5. CASE AnswerArrives(c)
  <2>1. cookie' \in [Browsers -> Cookies]
    BY <1>5, <1>2 DEF AnswerArrives, TypeOK, Cookies
  <2>2. /\ user' \in [Browsers -> {"none", "plain", "totp"}]
        /\ modal' \in [Browsers -> {"none", "choose", "setup"}]
        /\ shown' \in [Browsers -> Codes]
    BY <1>5, <1>2 DEF AnswerArrives, TypeOK, Codes
  <2> QED BY <1>4, <1>5, <2>1, <2>2 DEF AnswerArrives, TypeOK
<1>6. CASE PageFails(c)
  <2>1. /\ user' \in [Browsers -> {"none", "plain", "totp"}]
        /\ modal' \in [Browsers -> {"none", "choose", "setup"}]
        /\ shown' \in [Browsers -> Codes]
    BY <1>6, <1>2 DEF PageFails, TypeOK, Codes
  <2> QED BY <1>4, <1>6, <2>1 DEF PageFails, TypeOK
<1> QED BY <1>5, <1>6 DEF AnswerStep

LEMMA OtherType ==
  ASSUME TypeOK,
         PendingExpires \/ SessionExpires \/ SaveUser \/ DeleteSessionsByUser
           \/ UNCHANGED vars
  PROVE  TypeOK'
<1> USE DEF pageVars, panelVars, historyVars
<1>1. CASE PendingExpires
  BY <1>1 DEF PendingExpires, TypeOK, Codes
<1>2. CASE SessionExpires
  BY <1>2 DEF SessionExpires, TypeOK
<1>3. CASE SaveUser
  <2>1. password' \in Passwords
    BY <1>3, AccountAssumption DEF AccountAssumption, SaveUser, TypeOK, Passwords
  <2> QED BY <1>3, <2>1 DEF SaveUser, TypeOK
<1>4. CASE DeleteSessionsByUser
  BY <1>4 DEF DeleteSessionsByUser, TypeOK
<1>5. CASE UNCHANGED vars
  BY <1>5 DEF vars, TypeOK
<1> QED BY <1>1, <1>2, <1>3, <1>4, <1>5

(* Requests, sessions and dialogs are of the kinds declared, whatever is   *)
(* asked for and whoever gives up.                                         *)
THEOREM TypeCorrect == Spec => []TypeOK
<1>1. TypeOK /\ [Next]_vars => TypeOK'
  BY PageType, HandlerType, AnswerType, OtherType DEF Next
<1> QED BY Initially, <1>1, PTL DEF Spec

-----------------------------------------------------------------------------
(***************************************************************************)
(* Two-step verification: every code on its way is of an entry that was in *)
(* the authenticator when it was typed, and so is a secret about to be set.*)
(***************************************************************************)
Progress(op, step, got) ==
  /\ step \in {"check", "create"} => op = "login"
  /\ step = "auth" => op # "login"
  /\ step = "delete" => op = "logout"
  /\ step = "update" => op = "password"
  /\ step = "store" => op = "setup"
  /\ step = "take" => op = "enable"
  /\ step \in {"verify", "set"} => op \in {"enable", "disable"}
  /\ step = "others" => op \in {"leave", "password", "enable"}
  /\ step \in {"rotate", "answer"} => op \in {"password", "enable", "disable"}
  /\ step \in {"auth", "verify"} => got = NoSecret
  /\ step = "set" /\ op = "disable" => got = NoSecret

FromScanned(r) ==
  /\ r.code \in scanned \cup {NoSecret}
  /\ r.step = "set" /\ r.op = "enable" => r.got \in scanned

Good(c) == Active(c) => Progress(calls[c].op, calls[c].step, calls[c].got) /\ FromScanned(calls[c])

FactorInv == TypeOK /\ (\A c \in Slots : Good(c)) /\ NotLockedOut

LEMMA KeptGood ==
  ASSUME NEW d \in Slots, Good(d), scanned \subseteq scanned',
         Kept(d) \/ calls'[d] = calls[d]
  PROVE  Good(d)'
BY DEF Good, Kept, Active, Progress, FromScanned

LEMMA AnsweredGood ==
  ASSUME TypeOK, NEW c \in Slots, NEW step \in {"done", "refused"}, NEW got \in Codes,
         NEW fresh \in Cookies, Answered(c, step, got, fresh)
  PROVE  Good(c)' /\ \A d \in Slots \ {c} : calls'[d] = calls[d]
BY DEF Answered, Good, Active, Progress, FromScanned

LEMMA SendGood ==
  ASSUME FactorInv, NEW b \in Browsers, NEW op \in Ops, NEW first \in {"auth", "check"},
         NEW code \in scanned \cup {NoSecret}, NEW own \in BOOLEAN,
         (first = "check") <=> (op = "login"),
         Send(b, op, first, code, own)
  PROVE  \A c \in Slots : Good(c)'
<1>1. code \in Codes /\ first \in Steps
  BY DEF FactorInv, TypeOK, Codes, Steps
<1>2. PICK c \in Slots :
        /\ \A d \in Slots \ {c} : calls'[d] = calls[d]
        /\ calls'[c].op = op /\ calls'[c].step = first /\ calls'[c].code = code
        /\ calls'[c].got = NoSecret
  BY <1>1, Sent DEF FactorInv
<1>3. scanned' = scanned
  BY DEF Send, pageVars
<1>4. Good(c)'
  BY <1>2, <1>3 DEF Good, Progress, FromScanned
<1> QED BY <1>2, <1>3, <1>4, KeptGood DEF FactorInv

LEMMA PageGood ==
  ASSUME FactorInv, NEW b \in Browsers, PageStep(b)
  PROVE  /\ \A c \in Slots : Good(c)'
         /\ secret' = secret /\ scanned \subseteq scanned'
<1> USE DEF Ops
<1>1. CASE SubmitLogin(b)
  BY <1>1, SendGood DEF SubmitLogin, Send, panelVars, pageVars
<1>2. CASE ChangePassword(b)
  BY <1>2, SendGood DEF ChangePassword, Send, panelVars, pageVars
<1>3. CASE Logout(b)
  BY <1>3, SendGood DEF Logout, Send, panelVars, pageVars
<1>4. CASE OpenTotp(b)
  BY <1>4, KeptGood DEF OpenTotp, panelVars, FactorInv
<1>5. CASE CloseTotp(b)
  <2>1. \A d \in Slots : Kept(d)
    BY <1>5, Disowned DEF CloseTotp, FactorInv
  <2> QED BY <1>5, <2>1, KeptGood DEF CloseTotp, panelVars, FactorInv
<1>6. CASE SubmitSetup(b)
  BY <1>6, SendGood DEF SubmitSetup, Send, panelVars, pageVars
<1>7. CASE Scan(b)
  BY <1>7, KeptGood DEF Scan, panelVars, FactorInv
<1>8. CASE SubmitEnable(b)
  BY <1>8, SendGood DEF SubmitEnable, Send, panelVars, pageVars
<1>9. CASE SubmitDisable(b)
  BY <1>9, SendGood DEF SubmitDisable, Send, panelVars, pageVars
<1>10. CASE LogoutOthers(b)
  BY <1>10, SendGood DEF LogoutOthers, Send, panelVars, pageVars
<1> QED BY <1>1, <1>2, <1>3, <1>4, <1>5, <1>6, <1>7, <1>8, <1>9, <1>10 DEF PageStep

(* A call whose step and result are replaced keeps what it was asked for.  *)
Replaced(r, next, got) == [r EXCEPT !.step = next, !.got = got]

LEMMA CallStepped ==
  ASSUME NEW r \in Calls, NEW next \in Steps, NEW got \in Codes
  PROVE  /\ Replaced(r, next, got).step = next /\ Replaced(r, next, got).got = got
         /\ Replaced(r, next, got).code = r.code /\ Replaced(r, next, got).op = r.op
BY DEF Calls, Replaced

LEMMA SteppedGood ==
  ASSUME TypeOK, NEW c \in Slots, Active(c), NEW next \in Steps, NEW got \in Codes,
         calls'[c] = Replaced(calls[c], next, got),
         scanned' = scanned, calls[c].code \in scanned \cup {NoSecret},
         Progress(calls[c].op, next, got),
         next = "set" /\ calls[c].op = "enable" => got \in scanned
  PROVE  Good(c)'
<1>1. /\ calls'[c].step = next /\ calls'[c].got = got
      /\ calls'[c].code = calls[c].code /\ calls'[c].op = calls[c].op
  BY ActiveCall, CallStepped
<1>2. Progress(calls'[c].op, calls'[c].step, calls'[c].got) /\ FromScanned(calls[c])'
  BY <1>1 DEF FromScanned
<1> QED BY <1>1, <1>2 DEF Good

LEMMA ReplacedGood ==
  ASSUME TypeOK, NEW c \in Slots, Active(c), NEW next \in Steps, NEW got \in Codes,
         calls' = [calls EXCEPT ![c].step = next, ![c].got = got],
         scanned' = scanned, calls[c].code \in scanned \cup {NoSecret},
         Progress(calls[c].op, next, got),
         next = "set" /\ calls[c].op = "enable" => got \in scanned
  PROVE  Good(c)' /\ \A d \in Slots \ {c} : calls'[d] = calls[d]
<1>1. /\ calls'[c] = Replaced(calls[c], next, got)
      /\ \A d \in Slots \ {c} : calls'[d] = calls[d]
  BY Stepped, Zenon DEF Replaced
<1> QED BY <1>1, SteppedGood, Zenon

LEMMA StepGood ==
  ASSUME TypeOK, NEW c \in Slots, Active(c), NEW next \in Steps, Step(c, next), Good(c),
         scanned' = scanned,
         Progress(calls[c].op, next, calls[c].got),
         next = "set" => calls[c].op # "enable"
  PROVE  Good(c)' /\ \A d \in Slots \ {c} : calls'[d] = calls[d]
<1>1. calls[c] \in Calls
  BY ActiveCall
<1>2. /\ calls[c].got \in Codes
      /\ calls' = [calls EXCEPT ![c].step = next, ![c].got = calls[c].got]
  BY StepIsStepped
<1>3. calls[c].code \in scanned \cup {NoSecret}
  BY DEF Good, FromScanned
<1> QED BY <1>2, <1>3, ReplacedGood

LEMMA HandlerGood ==
  ASSUME FactorInv, NEW c \in Slots, HandlerStep(c)
  PROVE  /\ \A d \in Slots : Good(d)'
         /\ scanned' = scanned
         /\ secret' = secret \/ secret' = NoSecret \/ secret' \in scanned
<1>1. Active(c) /\ Good(c) /\ TypeOK
  BY DEF HandlerStep, At, FactorInv, RequireAuth, CheckLogin, CreateSession,
         DeleteSession, UpdateOwnPassword, DeleteOtherSessions, RotateSession,
         GetUser, StorePending, VerifyUser, TakePending, SetUserTOTP
<1>2. scanned' = scanned
  BY DEF HandlerStep, Handled, pageVars, RequireAuth, CheckLogin, CreateSession,
         DeleteSession, UpdateOwnPassword, DeleteOtherSessions, RotateSession,
         GetUser, StorePending, VerifyUser, TakePending, SetUserTOTP
<1>3. /\ calls[c].op \in Ops /\ calls[c].got \in Codes /\ calls[c].code \in Codes
      /\ secret \in Codes /\ pending \in Codes
      /\ NoSecret \in Codes /\ NoToken \in Cookies
  BY <1>1, ActiveCall, CallFields DEF TypeOK, Codes, Cookies
<1>4. /\ Progress(calls[c].op, calls[c].step, calls[c].got)
      /\ FromScanned(calls[c])
  BY <1>1 DEF Good
<1> DEFINE Fine == Good(c)' /\ \A d \in Slots \ {c} : calls'[d] = calls[d]
<1>5. ASSUME Refuse(c)
      PROVE  Fine
  BY <1>1, <1>3, <1>5, Refused, AnsweredGood
<1>6. ASSUME NEW got \in Codes, NEW fresh \in Cookies, Answer(c, got, fresh)
      PROVE  Fine
  BY <1>1, <1>6, WasAnswered, AnsweredGood
<1>7. ASSUME NEW next \in Steps, Step(c, next),
             Progress(calls[c].op, next, calls[c].got),
             next = "set" => calls[c].op # "enable"
      PROVE  Fine
  BY <1>1, <1>2, <1>7, StepGood
<1> HIDE DEF Fine
<1> USE DEF Steps
<1>8. Fine /\ (secret' = secret \/ secret' = NoSecret \/ secret' \in scanned)
  <2>1. CASE RequireAuth(c)
    <3>1. Progress(calls[c].op, FirstStep(calls[c].op), calls[c].got)
      BY <1>3, <1>4, <2>1 DEF RequireAuth, At, FirstStep, Progress, Ops
    <3>2. FirstStep(calls[c].op) \in Steps /\ FirstStep(calls[c].op) # "set"
      BY DEF FirstStep
    <3> QED BY <1>5, <1>7, <2>1, <3>1, <3>2 DEF RequireAuth, panelVars
  <2>2. CASE CheckLogin(c)
    <3>1. CASE calls' = [calls EXCEPT ![c].step = "create", ![c].got = secret]
      <4>1. Progress(calls[c].op, "create", secret)
        BY <1>4, <2>2 DEF CheckLogin, At, Progress
      <4> QED BY <1>1, <1>2, <1>3, <1>4, <2>2, <3>1, <4>1, ReplacedGood
              DEF CheckLogin, panelVars, FromScanned, Fine
    <3> QED BY <1>5, <2>2, <3>1 DEF CheckLogin, panelVars
  <2>3. CASE CreateSession(c)
    BY <1>3, <1>5, <1>6, <2>3, FreshToken DEF CreateSession
  <2>4. CASE DeleteSession(c)
    BY <1>3, <1>6, <2>4 DEF DeleteSession
  <2>5. CASE UpdateOwnPassword(c)
    <3>1. Progress(calls[c].op, "others", calls[c].got)
      BY <1>4, <2>5 DEF UpdateOwnPassword, At, Progress
    <3> QED BY <1>5, <1>7, <2>5, <3>1 DEF UpdateOwnPassword
  <2>6. CASE DeleteOtherSessions(c)
    <3>1. calls[c].op # "leave" => Progress(calls[c].op, "rotate", calls[c].got)
      BY <1>4, <2>6 DEF DeleteOtherSessions, At, Progress
    <3> QED BY <1>3, <1>6, <1>7, <2>6, <3>1 DEF DeleteOtherSessions
  <2>7. CASE RotateSession(c)
    <3>1. Progress(calls[c].op, "answer", calls[c].got)
      BY <1>4, <2>7 DEF RotateSession, At, Progress
    <3>2. CASE /\ Unused # {}
               /\ calls' = [calls EXCEPT ![c].step = "answer", ![c].fresh = NewToken]
      <4>1. /\ calls'[c].step = "answer" /\ calls'[c].op = calls[c].op
            /\ calls'[c].got = calls[c].got /\ calls'[c].code = calls[c].code
        BY <1>1, <3>2, Rotated, FreshToken
      <4>2. \A d \in Slots \ {c} : calls'[d] = calls[d]
        BY <1>1, <3>2 DEF TypeOK
      <4> QED BY <1>2, <1>4, <2>7, <3>1, <4>1, <4>2
              DEF Fine, Good, FromScanned, RotateSession
    <3> QED BY <1>7, <2>7, <3>1, <3>2 DEF RotateSession
  <2>8. CASE StorePending(c)
    BY <1>3, <1>5, <1>6, <2>8 DEF StorePending, Codes
  <2>9. CASE VerifyUser(c)
    <3>1. CASE calls[c].op = "enable" /\ Step(c, "take")
      <4>1. Progress(calls[c].op, "take", calls[c].got)
        BY <1>4, <3>1 DEF Progress
      <4> QED BY <1>7, <2>9, <3>1, <4>1 DEF VerifyUser, panelVars
    <3>2. CASE calls[c].op # "enable" /\ Step(c, "set")
      <4>1. Progress(calls[c].op, "set", calls[c].got)
        BY <1>4, <2>9, <3>2 DEF VerifyUser, At, Progress
      <4> QED BY <1>7, <2>9, <3>2, <4>1 DEF VerifyUser, panelVars
    <3> QED BY <1>5, <2>9, <3>1, <3>2 DEF VerifyUser, panelVars
  <2>10. CASE TakePending(c)
    <3>1. CASE Fitting(c) /\ calls' = [calls EXCEPT ![c].step = "set", ![c].got = pending]
      <4>1. Progress(calls[c].op, "set", pending) /\ pending \in scanned
        BY <1>4, <2>10, <3>1 DEF TakePending, At, Progress, Fitting, FromScanned
      <4> QED BY <1>1, <1>2, <1>3, <1>4, <2>10, <3>1, <4>1, ReplacedGood
              DEF TakePending, FromScanned, Fine
    <3> QED BY <1>5, <2>10, <3>1 DEF TakePending
  <2>11. CASE SetUserTOTP(c)
    <3>1. secret' = secret \/ secret' = NoSecret \/ secret' \in scanned
      BY <1>4, <2>11 DEF SetUserTOTP, SecretToSet, At, Progress, FromScanned
    <3>2. CASE calls[c].op = "enable" /\ Step(c, "others")
      <4>1. Progress(calls[c].op, "others", calls[c].got)
        BY <3>2 DEF Progress
      <4> QED BY <1>7, <3>1, <3>2, <4>1
    <3>3. CASE calls[c].op # "enable" /\ Step(c, "rotate")
      <4>1. Progress(calls[c].op, "rotate", calls[c].got)
        BY <1>4, <2>11, <3>3 DEF SetUserTOTP, At, Progress
      <4> QED BY <1>7, <3>1, <3>3, <4>1
    <3> QED BY <1>5, <2>11, <3>1, <3>2, <3>3 DEF SetUserTOTP
  <2>12. CASE GetUser(c)
    <3>1. calls[c].fresh \in Cookies
      BY <1>1, ActiveCall, CallFields
    <3> QED BY <1>3, <1>6, <2>12, <3>1 DEF GetUser, panelVars
  <2> QED BY <2>1, <2>2, <2>3, <2>4, <2>5, <2>6, <2>7, <2>8, <2>9, <2>10, <2>11, <2>12
          DEF HandlerStep
<1> QED BY <1>2, <1>8, KeptGood DEF Fine, FactorInv

LEMMA AnswerGood ==
  ASSUME FactorInv, NEW c \in Slots, AnswerStep(c)
  PROVE  /\ \A d \in Slots : Good(d)'
         /\ scanned' = scanned /\ secret' = secret
<1>1. calls[c] \in Calls /\ Active(c) /\ Good(c) /\ TypeOK
  BY ActiveCall DEF AnswerStep, AnswerArrives, PageFails, FactorInv
<1>2. calls[c].from \in Browsers
  BY <1>1, CallFields
<1> DEFINE left == [calls[c] EXCEPT !.attached = FALSE, !.own = FALSE]
<1>3. /\ left \in Calls /\ left.op = calls[c].op /\ left.step = calls[c].step
      /\ left.got = calls[c].got /\ left.code = calls[c].code
  BY <1>1 DEF Calls
<1>4. scanned' = scanned /\ secret' = secret
  BY DEF AnswerStep, AnswerArrives, PageFails, panelVars
<1> HIDE DEF left
<1>5. PICK r \in {Idle, left} : calls' = [Remaining(calls[c].from) EXCEPT ![c] = r]
  BY DEF AnswerStep, AnswerArrives, PageFails, left
<1>6. calls'[c] = r /\ \A d \in Slots \ {c} : Kept(d)
  BY <1>1, <1>2, <1>3, <1>5, Remained
<1>7. Good(c)'
  BY <1>1, <1>3, <1>4, <1>6 DEF Good, Active, FromScanned
<1> QED BY <1>4, <1>6, <1>7, KeptGood DEF FactorInv

(* What a step does to two-step verification, and that it keeps the        *)
(* invariant.                                                              *)
LEMMA FactorStep ==
  ASSUME FactorInv, [Next]_vars
  PROVE  /\ FactorInv'
         /\ scanned \subseteq scanned'
         /\ secret' = secret \/ (secret' \in scanned \cup {NoSecret} /\ scanned' = scanned)
<1>1. TypeOK'
  BY PageType, HandlerType, AnswerType, OtherType DEF Next, FactorInv
<1> DEFINE Kind == /\ \A d \in Slots : Good(d)'
                   /\ scanned \subseteq scanned'
                   /\ \/ secret' = secret
                      \/ secret' \in scanned \cup {NoSecret} /\ scanned' = scanned
<1>2. ASSUME NEW b \in Browsers, PageStep(b)
      PROVE  Kind
  BY <1>2, PageGood
<1>3. ASSUME NEW c \in Slots, HandlerStep(c) \/ AnswerStep(c)
      PROVE  Kind
  BY <1>3, HandlerGood, AnswerGood
<1>4. ASSUME PendingExpires \/ SessionExpires \/ SaveUser \/ DeleteSessionsByUser
               \/ UNCHANGED vars
      PROVE  Kind
  <2>1. calls' = calls /\ scanned' = scanned /\ secret' = secret
    BY <1>4 DEF PendingExpires, SessionExpires, SaveUser, DeleteSessionsByUser, vars,
                panelVars, pageVars
  <2>2. ASSUME NEW d \in Slots
        PROVE  Good(d)'
    BY <2>1, KeptGood DEF FactorInv
  <2> QED BY <2>1, <2>2
<1>5. Kind
  <2> HIDE DEF Kind
  <2> QED BY <1>2, <1>3, <1>4 DEF Next
<1> QED BY <1>1, <1>5 DEF FactorInv, NotLockedOut

LEMMA FactorInit == Init => FactorInv
BY Initially DEF Init, FactorInv, Good, Active, NotLockedOut

(* The secret that the login asks for was in the owner's authenticator     *)
(* when it came into force, and still is: with two dialogs open, a secret  *)
(* replaced while its code is on its way, a password changed in between.   *)
THEOREM NeverLockedOut == Spec => []NotLockedOut
<1>1. FactorInv /\ [Next]_vars => FactorInv'
  BY FactorStep
<1>2. FactorInv => NotLockedOut
  BY DEF FactorInv
<1> QED BY FactorInit, <1>1, <1>2, PTL DEF Spec

-----------------------------------------------------------------------------
(***************************************************************************)
(* Sessions: each one that has to go has a handler still to delete it.     *)
(***************************************************************************)
Ends(c, t) == /\ At(c, "others") /\ calls[c].op # "leave"
              /\ calls[c].op # "enable" => calls[c].cookie # t

EndInv == \A t \in outlived : reset \/ \E c \in Slots : Ends(c, t)

(* A request at "others" stays there unless it is its handler's turn.      *)
LEMMA EndsKept ==
  ASSUME NEW d \in Slots, NEW t, Ends(d, t),
         Kept(d) \/ calls'[d] = calls[d]
  PROVE  Ends(d, t)'
BY DEF Ends, At, Kept, Active

LEMMA EndStays ==
  ASSUME EndInv, outlived' \subseteq outlived, reset' = reset,
         \A d \in Slots : At(d, "others") => Kept(d) \/ calls'[d] = calls[d]
  PROVE  EndInv'
BY EndsKept DEF EndInv, Ends

LEMMA SendEnds ==
  ASSUME TypeOK, EndInv, NEW b \in Browsers, NEW op \in Ops, NEW first \in Steps,
         NEW code \in Codes, NEW own \in BOOLEAN, Send(b, op, first, code, own)
  PROVE  EndInv'
<1>1. \A d \in Slots : At(d, "others") => calls'[d] = calls[d]
  BY Sent DEF At
<1> QED BY <1>1, EndStays DEF Send, panelVars

LEMMA PageEnds ==
  ASSUME TypeOK, EndInv, NEW b \in Browsers, PageStep(b)
  PROVE  EndInv'
<1> USE DEF Ops, Steps, Codes
<1>1. CASE SubmitLogin(b)
  BY <1>1, SendEnds DEF SubmitLogin, TypeOK
<1>2. CASE ChangePassword(b)
  BY <1>2, SendEnds DEF ChangePassword
<1>3. CASE Logout(b)
  BY <1>3, SendEnds DEF Logout
<1>4. CASE OpenTotp(b)
  BY <1>4, EndStays DEF OpenTotp, panelVars, historyVars
<1>5. CASE CloseTotp(b)
  BY <1>5, EndStays, Disowned DEF CloseTotp, panelVars, historyVars
<1>6. CASE SubmitSetup(b)
  BY <1>6, SendEnds DEF SubmitSetup
<1>7. CASE Scan(b)
  BY <1>7, EndStays DEF Scan, panelVars, historyVars
<1>8. CASE SubmitEnable(b)
  BY <1>8, SendEnds DEF SubmitEnable, TypeOK
<1>9. CASE SubmitDisable(b)
  BY <1>9, SendEnds DEF SubmitDisable, TypeOK
<1>10. CASE LogoutOthers(b)
  BY <1>10, SendEnds DEF LogoutOthers
<1> QED BY <1>1, <1>2, <1>3, <1>4, <1>5, <1>6, <1>7, <1>8, <1>9, <1>10 DEF PageStep

(* A handler's step changes no other request.                              *)
LEMMA OthersSame ==
  ASSUME TypeOK, NEW c \in Slots, HandlerStep(c)
  PROVE  \A d \in Slots \ {c} : calls'[d] = calls[d]
<1>1. calls \in [Slots -> Calls \cup {Idle}]
  BY DEF TypeOK
<1> QED BY <1>1 DEF HandlerStep, Step, Reply, Answer, Refuse, RequireAuth, CheckLogin,
         CreateSession, DeleteSession, UpdateOwnPassword, DeleteOtherSessions,
         RotateSession, GetUser, StorePending, VerifyUser, TakePending, SetUserTOTP

LEMMA NextStep ==
  ASSUME TypeOK, NEW c \in Slots, Active(c), NEW next \in Steps, Step(c, next)
  PROVE  /\ calls'[c] \in Calls /\ calls'[c] # Idle
         /\ calls'[c].step = next /\ calls'[c].op = calls[c].op
         /\ calls'[c].cookie = calls[c].cookie /\ calls'[c].fresh = calls[c].fresh
         /\ calls'[c].attached = calls[c].attached
<1>1. calls[c] \in Calls /\ calls \in [Slots -> Calls \cup {Idle}]
  BY ActiveCall DEF TypeOK
<1>2. calls'[c] = [calls[c] EXCEPT !.step = next]
  BY <1>1 DEF Step
<1>3. calls'[c] \in Calls
  BY <1>1, <1>2 DEF Calls
<1> QED BY <1>1, <1>2, <1>3, CallFields DEF Calls

LEMMA HandlerEnds ==
  ASSUME TypeOK, EndInv, NEW c \in Slots, Good(c), HandlerStep(c)
  PROVE  EndInv'
<1>1. \A d \in Slots \ {c} : calls'[d] = calls[d]
  BY OthersSame
<1>2. reset' = reset
  BY DEF HandlerStep, panelVars, RequireAuth, CheckLogin, CreateSession, DeleteSession,
         UpdateOwnPassword, DeleteOtherSessions, RotateSession, GetUser,
         StorePending, VerifyUser, TakePending, SetUserTOTP
<1>3. ASSUME outlived' \subseteq outlived, ~ At(c, "others")
      PROVE  EndInv'
  BY <1>1, <1>2, <1>3, EndStays
<1>4. CASE RequireAuth(c) \/ CheckLogin(c) \/ CreateSession(c) \/ DeleteSession(c)
             \/ GetUser(c) \/ StorePending(c) \/ VerifyUser(c) \/ TakePending(c)
  BY <1>3, <1>4 DEF RequireAuth, CheckLogin, CreateSession, DeleteSession, GetUser,
                    StorePending, VerifyUser, TakePending, At
<1>5. CASE UpdateOwnPassword(c)
  <2>1. CASE outlived' = sessions \ {calls[c].cookie} /\ Step(c, "others")
    <3>1. calls[c].op = "password"
      BY <1>5 DEF UpdateOwnPassword, At, Good, Progress
    <3>2. \A t \in outlived' : Ends(c, t)'
      BY <1>5, <2>1, <3>1, NextStep DEF UpdateOwnPassword, At, Ends, Active, Steps
    <3> QED BY <3>2 DEF EndInv
  <2>2. CASE UNCHANGED outlived
    BY <1>3, <1>5, <2>2 DEF UpdateOwnPassword, At
  <2> QED BY <1>5, <2>1, <2>2 DEF UpdateOwnPassword
<1>6. CASE DeleteOtherSessions(c)
  <2>1. ASSUME NEW t \in outlived'
        PROVE  reset' \/ \E d \in Slots : Ends(d, t)'
    <3>1. t \in outlived /\ calls[c].op # "enable" /\ t = calls[c].cookie
      BY <1>6, <2>1 DEF DeleteOtherSessions, Spared
    <3>2. ~ Ends(c, t)
      BY <3>1 DEF Ends
    <3>3. CASE reset
      BY <1>2, <3>3
    <3>4. CASE ~ reset
      <4>1. PICK d \in Slots : Ends(d, t)
        BY <3>1, <3>4 DEF EndInv
      <4>2. d # c
        BY <3>2, <4>1
      <4> QED BY <1>1, <4>1, <4>2, EndsKept
    <3> QED BY <3>3, <3>4
  <2> QED BY <2>1 DEF EndInv
<1>7. CASE RotateSession(c)
  <2>1. ~ At(c, "others")
    BY <1>7 DEF RotateSession, At
  <2>2. CASE outlived' \subseteq outlived
    BY <1>3, <2>1, <2>2
  <2>3. CASE /\ Unused # {} /\ calls[c].cookie \in outlived
             /\ outlived' = (outlived \ {calls[c].cookie}) \cup {NewToken}
    <3>1. ASSUME NEW t \in outlived'
          PROVE  reset' \/ \E d \in Slots : Ends(d, t)'
      <4>1. CASE reset
        BY <1>2, <4>1
      <4>2. CASE ~ reset /\ t \in outlived
        <5>1. PICK d \in Slots : Ends(d, t)
          BY <4>2 DEF EndInv
        <5>2. d # c
          BY <2>1, <5>1 DEF Ends
        <5> QED BY <1>1, <5>1, <5>2, EndsKept
      <4>3. CASE ~ reset /\ t = NewToken
        <5>1. PICK d \in Slots : Ends(d, calls[c].cookie)
          BY <2>3, <4>3 DEF EndInv
        <5>2. d # c
          BY <2>1, <5>1 DEF Ends
        <5>3. Ends(d, t)
          BY <2>3, <4>3, <5>1, FreshToken DEF Ends, At
        <5> QED BY <1>1, <5>2, <5>3, EndsKept
      <4> QED BY <2>3, <3>1, <4>1, <4>2, <4>3
    <3> QED BY <3>1 DEF EndInv
  <2> QED BY <1>7, <2>2, <2>3 DEF RotateSession
<1>8. CASE SetUserTOTP(c)
  <2>1. CASE /\ calls[c].op = "enable" /\ Step(c, "others")
    <3>1. \A t : Ends(c, t)'
      BY <1>8, <2>1, NextStep DEF SetUserTOTP, At, Ends, Active, Steps
    <3> QED BY <3>1 DEF EndInv
  <2>2. CASE UNCHANGED outlived
    BY <1>3, <1>8, <2>2 DEF SetUserTOTP, At
  <2> QED BY <1>8, <2>1, <2>2 DEF SetUserTOTP
<1> QED BY <1>4, <1>5, <1>6, <1>7, <1>8 DEF HandlerStep

(* The answer of a handler that goes on after its page gave up.            *)
LEMMA AnswerCalls ==
  ASSUME TypeOK, NEW c \in Slots, AnswerStep(c)
  PROVE  /\ \A d \in Slots \ {c} : Kept(d)
         /\ \/ calls'[c] = Idle
            \/ /\ PageFails(c)
               /\ calls'[c] \in Calls /\ ~ calls'[c].attached
               /\ calls'[c].step = calls[c].step /\ calls'[c].op = calls[c].op
               /\ calls'[c].cookie = calls[c].cookie
         /\ calls[c].step = "others" => calls'[c] # Idle
<1>1. calls[c] \in Calls /\ calls[c].from \in Browsers
  BY ActiveCall, CallFields DEF AnswerStep, AnswerArrives, PageFails
<1> DEFINE left == [calls[c] EXCEPT !.attached = FALSE, !.own = FALSE]
<1>2. /\ left \in Calls /\ left.op = calls[c].op /\ left.step = calls[c].step
      /\ left.cookie = calls[c].cookie /\ ~ left.attached
  BY <1>1 DEF Calls
<1>3. left # Idle
  BY <1>2, CallFields
<1> HIDE DEF left
<1>4. CASE AnswerArrives(c)
  BY <1>1, <1>4, Remained DEF AnswerArrives
<1>5. CASE PageFails(c)
  <2>1. PICK r \in {Idle, left} :
          /\ calls' = [Remaining(calls[c].from) EXCEPT ![c] = r]
          /\ calls[c].step = "others" => r = left
    BY <1>5 DEF PageFails, left
  <2> QED BY <1>1, <1>2, <1>3, <1>5, <2>1, Remained
<1> QED BY <1>4, <1>5 DEF AnswerStep

LEMMA EndStep ==
  ASSUME FactorInv, EndInv, [Next]_vars
  PROVE  EndInv'
<1>0. TypeOK /\ \A c \in Slots : Good(c)
  BY DEF FactorInv
<1>1. ASSUME NEW c \in Slots, AnswerStep(c)
      PROVE  EndInv'
  <2>1. outlived' = outlived /\ reset' = reset
    BY <1>1 DEF AnswerStep, AnswerArrives, PageFails, panelVars
  <2>2. ASSUME NEW d \in Slots, NEW t, Ends(d, t)
        PROVE  Ends(d, t)'
    <3>1. CASE d = c
      BY <1>0, <1>1, <2>2, <3>1, AnswerCalls DEF Ends, At, Active
    <3>2. CASE d # c
      BY <1>0, <1>1, <2>2, <3>2, AnswerCalls, EndsKept
    <3> QED BY <3>1, <3>2
  <2> QED BY <2>1, <2>2 DEF EndInv
<1>2. CASE PendingExpires \/ UNCHANGED vars
  BY <1>2, EndStays DEF PendingExpires, vars, panelVars, historyVars
<1>3. CASE SessionExpires
  BY <1>3, EndStays DEF SessionExpires
<1>4. CASE SaveUser \/ DeleteSessionsByUser
  BY <1>4 DEF SaveUser, DeleteSessionsByUser, EndInv
<1> QED BY <1>0, <1>1, <1>2, <1>3, <1>4, PageEnds, HandlerEnds DEF Next

(* Whoever changes the password, or enables two-step verification, or has  *)
(* an administrator do so, is rid of every older session by the end of the *)
(* handler: changes that overlap, and rotations and logins between them,   *)
(* make none slip through.                                                 *)
THEOREM OldSessionsGone == Spec => []OldSessionsEnd
<1>1. Init => EndInv
  BY DEF Init, EndInv
<1>2. FactorInv /\ EndInv /\ [Next]_vars => EndInv'
  BY EndStep
<1>3. FactorInv /\ [Next]_vars => FactorInv'
  BY FactorStep
<1>4. EndInv => OldSessionsEnd
  BY DEF EndInv, OldSessionsEnd, Ends
<1> QED BY FactorInit, <1>1, <1>2, <1>3, <1>4, PTL DEF Spec

-----------------------------------------------------------------------------
(***************************************************************************)
(* The own session: while nothing overlaps the request, the session it was *)
(* authorised by stays until it is rotated.                                *)
(***************************************************************************)
Keeps(c) == calls[c].op \in {"password", "disable"}

Lone(c) ==
  /\ Active(c) /\ calls[c].attached /\ ~ reset
  /\ \A d \in Slots \ {c} : ~ Active(d)

Owned(c) ==
  /\ Keeps(c) /\ calls[c].step \in {"update", "verify", "set", "others", "rotate"}
       => calls[c].cookie \in sessions
  /\ Keeps(c) /\ calls[c].step \in {"answer", "done"} => calls[c].fresh \in sessions

OwnInv == \A c \in alone : Lone(c) /\ Owned(c)

LEMMA OwnStays ==
  ASSUME TypeOK, OwnInv, alone' = alone, reset' = reset, sessions' = sessions,
         \A d \in Slots : Kept(d) \/ calls'[d] = calls[d]
  PROVE  OwnInv'
<1>1. ASSUME NEW d \in Slots
      PROVE  /\ Active(d)' <=> Active(d)
             /\ Active(d) => /\ calls'[d].op = calls[d].op
                             /\ calls'[d].step = calls[d].step
                             /\ calls'[d].cookie = calls[d].cookie
                             /\ calls'[d].fresh = calls[d].fresh
                             /\ calls'[d].attached = calls[d].attached
  BY <1>1 DEF Kept, Active
<1>2. ASSUME NEW c \in alone'
      PROVE  Lone(c)' /\ Owned(c)'
  <2>1. c \in Slots /\ Lone(c) /\ Owned(c)
    BY <1>2 DEF OwnInv, TypeOK
  <2> QED BY <1>1, <2>1 DEF Lone, Owned, Keeps
<1> QED BY <1>2 DEF OwnInv

LEMMA SendOwn ==
  ASSUME TypeOK, NEW b \in Browsers, NEW op \in Ops, NEW first \in {"auth", "check"},
         NEW code \in Codes, NEW own \in BOOLEAN, Send(b, op, first, code, own)
  PROVE  OwnInv'
<1>1. PICK c \in Slots :
        /\ \A d \in Slots \ {c} : calls'[d] = calls[d]
        /\ calls'[c] \in Calls /\ calls'[c].step = first /\ calls'[c].attached
        /\ alone' = IF reset \/ \E d \in Slots : Active(d) THEN {} ELSE {c}
  BY Sent DEF Steps
<1>2. calls'[c] # Idle /\ reset' = reset
  BY <1>1, CallFields DEF Send, panelVars
<1>3. CASE reset \/ \E d \in Slots : Active(d)
  BY <1>1, <1>3 DEF OwnInv
<1>4. CASE ~ reset /\ ~ \E d \in Slots : Active(d)
  <2>1. alone' = {c}
    BY <1>1, <1>4
  <2>2. Lone(c)'
    BY <1>1, <1>2, <1>4 DEF Lone, Active
  <2>3. Owned(c)'
    BY <1>1 DEF Owned
  <2> QED BY <2>1, <2>2, <2>3 DEF OwnInv
<1> QED BY <1>3, <1>4

LEMMA PageOwn ==
  ASSUME TypeOK, OwnInv, NEW b \in Browsers, PageStep(b)
  PROVE  OwnInv'
<1> USE DEF Ops, Codes
<1>1. CASE SubmitLogin(b)
  BY <1>1, SendOwn DEF SubmitLogin, TypeOK
<1>2. CASE ChangePassword(b)
  BY <1>2, SendOwn DEF ChangePassword
<1>3. CASE Logout(b)
  BY <1>3, SendOwn DEF Logout
<1>4. CASE OpenTotp(b)
  BY <1>4, OwnStays DEF OpenTotp, panelVars, historyVars
<1>5. CASE CloseTotp(b)
  BY <1>5, OwnStays, Disowned DEF CloseTotp, panelVars, historyVars
<1>6. CASE SubmitSetup(b)
  BY <1>6, SendOwn DEF SubmitSetup
<1>7. CASE Scan(b)
  BY <1>7, OwnStays DEF Scan, panelVars, historyVars
<1>8. CASE SubmitEnable(b)
  BY <1>8, SendOwn DEF SubmitEnable, TypeOK
<1>9. CASE SubmitDisable(b)
  BY <1>9, SendOwn DEF SubmitDisable, TypeOK
<1>10. CASE LogoutOthers(b)
  BY <1>10, SendOwn DEF LogoutOthers
<1> QED BY <1>1, <1>2, <1>3, <1>4, <1>5, <1>6, <1>7, <1>8, <1>9, <1>10 DEF PageStep

LEMMA HandlerOwn ==
  ASSUME TypeOK, OwnInv, NEW c \in Slots, Good(c), HandlerStep(c)
  PROVE  OwnInv'
<1>1. Active(c)
  BY DEF HandlerStep, At, RequireAuth, CheckLogin, CreateSession, DeleteSession,
         UpdateOwnPassword, DeleteOtherSessions, RotateSession, GetUser,
         StorePending, VerifyUser, TakePending, SetUserTOTP
<1>2. alone' = alone /\ reset' = reset
  BY DEF HandlerStep, Handled, panelVars, RequireAuth, CheckLogin, CreateSession,
         DeleteSession, UpdateOwnPassword, DeleteOtherSessions, RotateSession,
         GetUser, StorePending, VerifyUser, TakePending, SetUserTOTP
<1>3. \A d \in alone : d = c
  BY <1>1 DEF OwnInv, Lone, TypeOK
<1>4. CASE c \notin alone
  BY <1>2, <1>3, <1>4 DEF OwnInv
<1>5. CASE c \in alone
  <2>1. Lone(c) /\ Owned(c)
    BY <1>5 DEF OwnInv
  <2>2. Progress(calls[c].op, calls[c].step, calls[c].got)
    BY <1>1 DEF Good
  <2>3. \A d \in Slots \ {c} : ~ Active(d)'
    BY <2>1, OthersSame DEF Lone, Active
  <2> DEFINE Fine == Active(c)' /\ calls'[c].attached /\ Owned(c)'
  <2>4. ASSUME Refuse(c)
        PROVE  Fine
    BY <1>1, <2>1, <2>4, Refused, CallFields DEF Answered, Lone, Owned, Active
  <2>5. ASSUME NEW got \in Codes, NEW fresh \in Cookies, Answer(c, got, fresh),
               Keeps(c) => fresh \in sessions'
        PROVE  Fine
    BY <1>1, <2>1, <2>5, WasAnswered, CallFields DEF Answered, Lone, Owned, Active, Keeps
  <2>6. ASSUME NEW next \in Steps \ {"answer", "done"}, Step(c, next),
               Keeps(c) => calls[c].cookie \in sessions'
        PROVE  Fine
    BY <1>1, <2>1, <2>6, NextStep DEF Lone, Owned, Active, Keeps
  <2>7. calls[c].got \in Codes /\ secret \in Codes /\ NoSecret \in Codes
        /\ NoToken \in Cookies
    BY <1>1, ActiveCall, CallFields DEF TypeOK, Codes, Cookies
  <2> HIDE DEF Fine
  <2> USE DEF Steps
  <2>8. ASSUME RequireAuth(c)
        PROVE  Fine
    <3>1. FirstStep(calls[c].op) \in Steps \ {"answer", "done"}
      BY DEF FirstStep
    <3> QED BY <2>4, <2>6, <2>8, <3>1 DEF RequireAuth, panelVars
  <2>9. ASSUME CheckLogin(c)
        PROVE  Fine
    <3>1. ASSUME calls' = [calls EXCEPT ![c].step = "create", ![c].got = secret]
          PROVE  Fine
      <4>1. /\ calls'[c] = [calls[c] EXCEPT !.step = "create", !.got = secret]
            /\ calls'[c] \in Calls /\ calls[c] \in Calls
        BY <1>1, <2>7, <3>1, Stepped, ActiveCall
      <4>2. /\ calls'[c].step = "create" /\ calls'[c].attached = calls[c].attached
            /\ calls'[c] # Idle
        BY <4>1, CallFields DEF Calls
      <4> QED BY <2>1, <4>2 DEF Fine, Lone, Owned, Active
    <3> QED BY <2>4, <2>9, <3>1 DEF CheckLogin
  <2>10. ASSUME CreateSession(c)
         PROVE  Fine
    <3>1. ~ Keeps(c)
      BY <2>2, <2>10 DEF CreateSession, At, Progress, Keeps
    <3> QED BY <2>4, <2>5, <2>7, <2>10, <3>1, FreshToken DEF CreateSession
  <2>11. ASSUME DeleteSession(c)
         PROVE  Fine
    <3>1. ~ Keeps(c)
      BY <2>2, <2>11 DEF DeleteSession, At, Progress, Keeps
    <3> QED BY <2>5, <2>7, <2>11, <3>1 DEF DeleteSession
  <2>12. ASSUME UpdateOwnPassword(c)
         PROVE  Fine
    BY <2>1, <2>4, <2>6, <2>12 DEF UpdateOwnPassword, At, Owned
  <2>13. ASSUME DeleteOtherSessions(c)
         PROVE  Fine
    <3>1. Keeps(c) => calls[c].cookie \in sessions'
      BY <2>1, <2>2, <2>13 DEF DeleteOtherSessions, Spared, At, Owned, Keeps, Progress
    <3> QED BY <2>5, <2>6, <2>7, <2>13, <3>1 DEF DeleteOtherSessions, Keeps
  <2>14. ASSUME RotateSession(c)
         PROVE  Fine
    <3>1. ASSUME calls[c].cookie \in sessions
          PROVE  Fine
      <4>1. NewToken \in sessions' /\ NewToken \in Cookies
            /\ calls' = [calls EXCEPT ![c].step = "answer", ![c].fresh = NewToken]
        BY <2>14, <3>1, FreshToken DEF RotateSession
      <4> QED BY <1>1, <2>1, <4>1, Rotated DEF Fine, Lone, Owned, Active
    <3>2. ASSUME calls[c].cookie \notin sessions
          PROVE  Fine
      <4>1. ~ Keeps(c)
        BY <2>1, <2>14, <3>2 DEF RotateSession, At, Owned
      <4>2. Step(c, "answer")
        BY <2>14, <3>2 DEF RotateSession
      <4> QED BY <1>1, <2>1, <4>1, <4>2, NextStep DEF Fine, Lone, Owned, Active, Keeps
    <3> QED BY <3>1, <3>2
  <2>15. ASSUME StorePending(c)
         PROVE  Fine
    <3>1. ~ Keeps(c)
      BY <2>2, <2>15 DEF StorePending, At, Progress, Keeps
    <3> QED BY <2>4, <2>5, <2>7, <2>15, <3>1 DEF StorePending, Codes
  <2>16. ASSUME VerifyUser(c)
         PROVE  Fine
    BY <2>1, <2>4, <2>6, <2>16 DEF VerifyUser, At, Owned, panelVars
  <2>17. ASSUME TakePending(c)
         PROVE  Fine
    <3>1. ASSUME calls' = [calls EXCEPT ![c].step = "set", ![c].got = pending]
          PROVE  Fine
      <4>1. /\ calls'[c] = [calls[c] EXCEPT !.step = "set", !.got = pending]
            /\ calls'[c] \in Calls /\ calls[c] \in Calls
        BY <1>1, <3>1, Stepped, ActiveCall DEF TypeOK
      <4>2. /\ calls'[c].step = "set" /\ calls'[c].attached = calls[c].attached
            /\ calls'[c] # Idle /\ calls'[c].op = calls[c].op
        BY <4>1, CallFields DEF Calls
      <4>3. calls[c].op = "enable"
        BY <2>2, <2>17 DEF TakePending, At, Progress
      <4> QED BY <2>1, <4>2, <4>3 DEF Fine, Lone, Owned, Active, Keeps
    <3> QED BY <2>4, <2>17, <3>1 DEF TakePending
  <2>18. ASSUME SetUserTOTP(c)
         PROVE  Fine
    BY <2>1, <2>4, <2>6, <2>18 DEF SetUserTOTP, At, Owned
  <2>19. ASSUME GetUser(c)
         PROVE  Fine
    <3>1. Keeps(c) => calls[c].fresh \in sessions'
      BY <2>1, <2>19 DEF GetUser, At, Owned, panelVars
    <3>2. calls[c].fresh \in Cookies
      BY <1>1, ActiveCall, CallFields
    <3> QED BY <2>5, <2>7, <2>19, <3>1, <3>2 DEF GetUser
  <2>20. Fine
    BY <2>8, <2>9, <2>10, <2>11, <2>12, <2>13, <2>14, <2>15, <2>16, <2>17, <2>18, <2>19
       DEF HandlerStep
  <2> QED BY <1>2, <1>3, <2>1, <2>3, <2>20 DEF Fine, OwnInv, Lone
<1> QED BY <1>4, <1>5

LEMMA OwnStep ==
  ASSUME FactorInv, OwnInv, [Next]_vars
  PROVE  OwnInv'
<1>1. TypeOK /\ \A c \in Slots : Good(c)
  BY DEF FactorInv
<1>2. ASSUME NEW c \in Slots, AnswerStep(c)
      PROVE  OwnInv'
  <2>1. Active(c) /\ alone' = alone \ {c}
    BY <1>2 DEF AnswerStep, AnswerArrives, PageFails
  <2>2. \A d \in alone : d = c
    BY <1>1, <2>1 DEF OwnInv, Lone, TypeOK
  <2> QED BY <2>1, <2>2 DEF OwnInv
<1>3. CASE PendingExpires \/ UNCHANGED vars
  BY <1>1, <1>3, OwnStays DEF PendingExpires, vars, panelVars, historyVars
<1>4. CASE SessionExpires \/ SaveUser
  BY <1>4 DEF SessionExpires, SaveUser, OwnInv
<1>5. CASE DeleteSessionsByUser
  BY <1>5 DEF DeleteSessionsByUser, OwnInv, Lone
<1> QED BY <1>1, <1>2, <1>3, <1>4, <1>5, PageOwn, HandlerOwn DEF Next

(* A change of password, or switching two-step verification off, that      *)
(* nothing overlaps does not log its own browser out.                      *)
THEOREM OwnSessionStays == Spec => []OwnSessionKept
<1>1. Init => OwnInv
  BY DEF Init, OwnInv
<1>2. FactorInv /\ OwnInv /\ [Next]_vars => OwnInv'
  BY OwnStep
<1>3. FactorInv /\ [Next]_vars => FactorInv'
  BY FactorStep
<1>4. OwnInv => OwnSessionKept
  BY DEF OwnInv, OwnSessionKept, Owned, Keeps, At
<1> QED BY FactorInit, <1>1, <1>2, <1>3, <1>4, PTL DEF Spec
=============================================================================
